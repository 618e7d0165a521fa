\* Two appointments of a team that connects to, leaves and changes calendars.
CONSTANTS
  t1 = t1  t2 = t2  r1 = r1  r2 = r2  k1 = k1  k2 = k2  k3 = k3
  alice = alice  cal1 = cal1  cal2 = cal2  NoOwner = NoOwner
  Requests = {r1}
  Keys = {k1, k2}
  Teams = {t1}
  Calendars = {cal1, cal2}
  Slots <- AdjacentSlots
  Configurations <- FirstSettings
  Owner <- Nobody
  OutsideEvents <- NoEvents
  HasEmail <- NoneEmail
  Routes = {"staff"}
  Reports = {}
  HoldTime = 1
  MaxActive = 1
  MaxChanges = 1
  MaxTime = 1
  MaxVersion = 1
  ReminderLead = 9
  RetryWindow = 1
  DedupWindow = 2
SPECIFICATION Spec
SYMMETRY KeySymmetry
CHECK_DEADLOCK FALSE
INVARIANTS BookingsAreBound EventsCanBeFound DisconnectedIsDone
PROPERTIES DeletesOnlyItsOwn ClosedMeansGone
