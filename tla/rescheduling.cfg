\* Two requests competing for one time, with retries and replacements.
CONSTANTS
  t1 = t1  t2 = t2  r1 = r1  r2 = r2  k1 = k1  k2 = k2  k3 = k3
  alice = alice  cal1 = cal1  cal2 = cal2  NoOwner = NoOwner
  Requests = {r1, r2}
  Keys = {k1, k2, k3}
  Teams = {t1}
  Calendars = {}
  Slots <- OneSlot
  Configurations <- OneSlotSettings
  Owner <- FirstOwned
  OutsideEvents <- NoEvents
  HasEmail <- NoneEmail
  Routes = {"customer", "staff"}
  Reports = {}
  HoldTime = 1
  MaxActive = 1
  MaxChanges = 1
  MaxTime = 2
  MaxVersion = 1
  ReminderLead = 9
  RetryWindow = 1
  DedupWindow = 2
SPECIFICATION Spec
SYMMETRY KeySymmetry
CHECK_DEADLOCK FALSE
INVARIANTS OneBookingPerRequest AtMostOneReplacement
PROPERTY HoldsDoNotRevive
