\* E-mail about an appointment that is tied to a calendar.
CONSTANTS
  t1 = t1  t2 = t2  r1 = r1  r2 = r2  k1 = k1  k2 = k2  k3 = k3
  alice = alice  cal1 = cal1  cal2 = cal2  NoOwner = NoOwner
  Requests = {r1}
  Keys = {k1}
  Teams = {t1}
  Calendars = {cal1}
  Slots <- AdjacentSlots
  Configurations <- FirstSettings
  Owner <- Nobody
  OutsideEvents <- LunchBreak
  HasEmail <- AllEmail
  Routes = {"staff"}
  Reports = {}
  HoldTime = 1
  MaxActive = 1
  MaxChanges = 1
  MaxTime = 3
  MaxVersion = 1
  ReminderLead = 9
  RetryWindow = 1
  DedupWindow = 2
SPECIFICATION Spec
CHECK_DEADLOCK FALSE
PROPERTIES ConfirmedWithItsEvent MailsOnlyTruth
