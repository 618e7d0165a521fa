\* E-mail about one appointment: lost answers, crashes, reports in any order.
CONSTANTS
  t1 = t1  t2 = t2  r1 = r1  r2 = r2  k1 = k1  k2 = k2  k3 = k3
  alice = alice  cal1 = cal1  cal2 = cal2  NoOwner = NoOwner
  Requests = {r1}
  Keys = {k1}
  Teams = {t1}
  Calendars = {}
  Slots <- OneSlot
  Configurations <- OneSlotSettings
  Owner <- Nobody
  OutsideEvents <- NoEvents
  HasEmail <- AllEmail
  Routes = {"staff"}
  Reports = {"DELIVERED", "BOUNCED"}
  HoldTime = 1
  MaxActive = 1
  MaxChanges = 1
  MaxTime = 2
  MaxVersion = 1
  ReminderLead = 1
  RetryWindow = 1
  DedupWindow = 2
SPECIFICATION DeliverySpec
CHECK_DEADLOCK FALSE
INVARIANTS MailedOnce ReminderFollowsReceipt
PROPERTIES EveryNoticeSettles ReportsReachTheRow
