\* Staff and customers, two teams, settings that change while times are held.
CONSTANTS
  t1 = t1  t2 = t2  r1 = r1  r2 = r2  k1 = k1  k2 = k2  k3 = k3
  alice = alice  cal1 = cal1  cal2 = cal2  NoOwner = NoOwner
  Requests = {r1, r2}
  Keys = {k1, k2}
  Teams = {t1, t2}
  Calendars = {}
  Slots <- TwoTeamSlots
  Configurations <- TwoTeamSettings
  Owner <- FirstOwned
  OutsideEvents <- NoEvents
  HasEmail <- NoneEmail
  Routes = {"customer", "staff"}
  Reports = {}
  HoldTime = 1
  MaxActive = 1
  MaxChanges = 1
  MaxTime = 3
  MaxVersion = 2
  ReminderLead = 9
  RetryWindow = 1
  DedupWindow = 2
SPECIFICATION Spec
SYMMETRY KeySymmetry
CHECK_DEADLOCK FALSE
INVARIANTS TypeOK NoDoubleBooking
PROPERTIES DangerIsNotBooked KeepsPromise
