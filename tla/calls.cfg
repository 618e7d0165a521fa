CONSTANTS
  c1 = c1
  c2 = c2
  w = w
  Calls = {c1, c2}
  LeadIds = {c1, c2, w}
  HandoffIds = {c1, c2}
  Adapters <- PhoneAndSimulation
  Policies <- TightPolicies
  SimulatedTimes = {2}
  MaxTime = 2
  DayLength = 2
  MaxDuration = 1
SPECIFICATION Spec
CONSTRAINT OneBusyCall
INVARIANTS TypeOK ReceiptsBecomeLeads CallbackIsBooked ResultReachesHandoff PlaceIsReturned
PROPERTIES LimitsAreKept EndedStaysEnded
CHECK_DEADLOCK FALSE
