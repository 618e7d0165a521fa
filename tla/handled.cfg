CONSTANTS
  c1 = c1
  c2 = c2
  w = w
  Calls = {c1}
  LeadIds = {c1}
  HandoffIds = {c1}
  Adapters <- TwilioCalls
  Policies <- CallbackPolicy
  SimulatedTimes = {2}
  MaxTime = 2
  DayLength = 2
  MaxDuration = 1
SPECIFICATION Spec
PROPERTIES HandledStaysHandled
CHECK_DEADLOCK FALSE
