------------------------- MODULE BookingMail_proofs --------------------------
(***************************************************************************)
(* Proofs about the outbox of BookingSystem: what is mailed is mailed      *)
(* once, and only while it is true; a reminder follows a receipt; nothing  *)
(* stays queued about an appointment that has ended.                       *)
(***************************************************************************)
EXTENDS BookingSystem_proofs

----------------------------------------------------------------------------
(* What a step does to the outbox. *)

\* Rows stay.  The time of the first attempt is written once, a delivery status comes from a
\* report, what has left the queue does not come back, and a new row has neither.
NoticesStay ==
  /\ \A n \in DOMAIN notifications :
       /\ n \in DOMAIN notifications'
       /\ \/ notifications'[n].first = notifications[n].first
          \/ notifications[n].first = Never /\ notifications'[n].first = now
       /\ \/ notifications'[n].delivery = notifications[n].delivery
          \/ [notice |-> n, rank |-> notifications'[n].delivery] \in receipts
       /\ notifications'[n].status = "PENDING" => notifications[n].status = "PENDING"
  /\ \A n \in DOMAIN notifications' :
       n \notin DOMAIN notifications =>
         notifications'[n].first = Never /\ notifications'[n].delivery = NoDelivery

\* A message is handed to the provider after both transactions have looked at it.
Sent(n) ==
  /\ MaySend(n)
  /\ mailed' = Mailed(n)
  /\ n.kind # "CANCELLATION" /\ n.key \in DOMAIN bindings => BookingInOrder(n.key)
  /\ n \in DOMAIN notifications' /\ notifications'[n].first = notifications[n].first

\* Queueing adds new rows and leaves the others alone.
LEMMA EnqueuedRows ==
  ASSUME NEW table, NEW k, NEW kind \in Kinds, NEW n
  PROVE  /\ n \in DOMAIN table =>
              n \in DOMAIN Enqueued(table, k, kind) /\ Enqueued(table, k, kind)[n] = table[n]
         /\ n \in DOMAIN Enqueued(table, k, kind) /\ n \notin DOMAIN table =>
              /\ n.key = k /\ n.kind \in QueuedKinds(k, kind)
              /\ Enqueued(table, k, kind)[n] = NewRow(k)
BY DEF Enqueued

\* Suppressing takes rows out of the queue and does nothing else.
LEMMA SuppressedRows ==
  ASSUME MailTypeOK, NEW k
  PROVE  /\ DOMAIN Suppressed(k) = DOMAIN notifications
         /\ \A n \in DOMAIN notifications :
              /\ Suppressed(k)[n].first = notifications[n].first
              /\ Suppressed(k)[n].delivery = notifications[n].delivery
              /\ Suppressed(k)[n].status \in {notifications[n].status, "SKIPPED"}
              /\ n.key = k => Suppressed(k)[n].status # "PENDING"
BY DEF Suppressed, MailTypeOK, NoticeRow

\* A step that does not touch the rows.
LEMMA NoticesUntouched == UNCHANGED notifications => NoticesStay
BY DEF NoticesStay

\* What a scheduling handler does to the rows.
LEMMA NoticesQueued ==
  ASSUME MailTypeOK, NEW k, NEW j, NEW kind \in Kinds,
         notifications' \in {Suppressed(j), Enqueued(notifications, k, kind),
                             Enqueued(Suppressed(j), k, kind)}
  PROVE  NoticesStay
<1>1. \A n \in DOMAIN notifications : notifications[n] \in NoticeRow
  BY DEF MailTypeOK
<1>2. NewRow(k).first = Never /\ NewRow(k).delivery = NoDelivery
  BY DEF NewRow
<1>3. CASE notifications' = Suppressed(j)
  BY <1>3, SuppressedRows DEF NoticesStay
<1>4. CASE notifications' = Enqueued(notifications, k, kind)
  BY <1>2, <1>4, EnqueuedRows DEF NoticesStay
<1>5. CASE notifications' = Enqueued(Suppressed(j), k, kind)
  BY <1>2, <1>5, EnqueuedRows, SuppressedRows DEF NoticesStay
<1> QED
  BY <1>3, <1>4, <1>5

\* What the delivery job does to the rows.
LEMMA NoticesDelivered ==
  ASSUME MailTypeOK, NEW n \in DOMAIN notifications,
         \/ \E status \in {"SKIPPED", "UNKNOWN", "ACCEPTED", "FAILED"} :
              notifications' = SetNotice(n, status)
         \/ notifications[n].first = Never /\ notifications' = [notifications EXCEPT ![n].first = now]
         \/ \E e \in receipts :
              e.notice = n /\ notifications' = [notifications EXCEPT ![n].delivery = e.rank]
  PROVE  NoticesStay
<1>1. \A m \in DOMAIN notifications : notifications[m] \in NoticeRow
  BY DEF MailTypeOK
<1>2. CASE \E status \in {"SKIPPED", "UNKNOWN", "ACCEPTED", "FAILED"} :
             notifications' = SetNotice(n, status)
  BY <1>1, <1>2 DEF NoticesStay, SetNotice, NoticeRow
<1>3. CASE notifications[n].first = Never /\ notifications' = [notifications EXCEPT ![n].first = now]
  BY <1>1, <1>3 DEF NoticesStay, NoticeRow
<1>4. ASSUME NEW e \in receipts, e.notice = n,
             notifications' = [notifications EXCEPT ![n].delivery = e.rank]
      PROVE  NoticesStay
  <2>1. e = [notice |-> n, rank |-> e.rank]
    BY <1>4 DEF MailTypeOK
  <2> QED
    BY <1>1, <1>4, <2>1 DEF NoticesStay, NoticeRow
<1> QED
  BY <1>2, <1>3, <1>4

\* The status of a row alone leaves the time of its first attempt alone.
LEMMA FirstAttemptStays ==
  ASSUME MailTypeOK, NEW n \in DOMAIN notifications, NEW status, notifications' = SetNotice(n, status)
  PROVE  n \in DOMAIN notifications' /\ notifications'[n].first = notifications[n].first
BY DEF MailTypeOK, SetNotice, NoticeRow

\* Every step of the delivery job and of the webhooks.
LEMMA DeliverySteps ==
  ASSUME MailTypeOK, DeliveryStep
  PROVE  /\ NoticesStay
         /\ UNCHANGED mailed \/ \E n \in DOMAIN notifications : Sent(n)
         /\ receipts \subseteq receipts'
<1>1. PICK n \in Notice :
        \/ SkipObsolete(n) \/ PostponeDelivery(n) \/ SkipReminder(n) \/ GiveUp(n)
        \/ StampFirstAttempt(n)
        \/ SendAccepted(n) \/ SendRejected(n) \/ SendAnswerLost(n) \/ SendCrashed(n)
        \/ ApplyReports(n)
        \/ \E status \in Reports : ReceiveReport(n, status)
  BY DEF DeliveryStep
<1>2. CASE SkipObsolete(n) \/ SkipReminder(n) \/ GiveUp(n) \/ StampFirstAttempt(n)
             \/ SendRejected(n) \/ ApplyReports(n)
  <2>1. n \in DOMAIN notifications /\ UNCHANGED <<mailed, receipts>>
    BY <1>2 DEF SkipObsolete, SkipReminder, GiveUp, StampFirstAttempt, SendRejected, MaySend,
                PendingAndDue, ApplyReports
  <2>2. \/ \E status \in {"SKIPPED", "UNKNOWN", "ACCEPTED", "FAILED"} :
             notifications' = SetNotice(n, status)
        \/ notifications[n].first = Never
             /\ notifications' = [notifications EXCEPT ![n].first = now]
        \/ \E e \in receipts :
             e.notice = n /\ notifications' = [notifications EXCEPT ![n].delivery = e.rank]
    BY <1>2 DEF SkipObsolete, SkipReminder, GiveUp, StampFirstAttempt, SendRejected, ApplyReports
  <2> QED
    BY <2>1, <2>2, NoticesDelivered
<1>3. CASE PostponeDelivery(n) \/ \E status \in Reports : ReceiveReport(n, status)
  BY <1>3, NoticesUntouched DEF PostponeDelivery, ReceiveReport, mailVars
<1>4. ASSUME SendAccepted(n) \/ SendAnswerLost(n) \/ SendCrashed(n)
      PROVE  n.kind # "CANCELLATION" /\ n.key \in DOMAIN bindings => BookingInOrder(n.key)
  BY <1>4 DEF SendAccepted, SendAnswerLost, SendCrashed, CalendarInOrder, Verified
<1>5. CASE SendAccepted(n)
  <2>1. /\ MaySend(n) /\ n \in DOMAIN notifications
        /\ mailed' = Mailed(n)
        /\ notifications' = SetNotice(n, "ACCEPTED")
        /\ UNCHANGED receipts
    BY <1>5 DEF SendAccepted, MaySend, PendingAndDue
  <2>2. Sent(n)
    BY <1>4, <1>5, <2>1, FirstAttemptStays DEF Sent
  <2> QED
    BY <2>1, <2>2, NoticesDelivered
<1>6. CASE SendAnswerLost(n) \/ SendCrashed(n)
  <2>1. /\ MaySend(n) /\ n \in DOMAIN notifications
        /\ mailed' = Mailed(n)
        /\ UNCHANGED <<notifications, receipts>>
    BY <1>6 DEF SendAnswerLost, SendCrashed, MaySend, PendingAndDue
  <2>2. Sent(n)
    BY <1>4, <1>6, <2>1 DEF Sent
  <2> QED
    BY <2>1, <2>2, NoticesUntouched
<1> QED
  BY <1>1, <1>2, <1>3, <1>5, <1>6

\* Every step of the whole.
LEMMA OutboxSteps ==
  ASSUME MailTypeOK, [Next]_vars
  PROVE  /\ NoticesStay
         /\ UNCHANGED mailed \/ \E n \in DOMAIN notifications : Sent(n)
         /\ receipts \subseteq receipts'
<1>1. CASE UNCHANGED mailVars
  BY <1>1, NoticesUntouched DEF mailVars
<1>2. CASE ServiceStep
  <2>1. ASSUME NEW k \in Keys, ReleaseHold(k) \/ Confirm(k) \/ Cancel(k)
        PROVE  NoticesStay /\ UNCHANGED <<mailed, receipts>>
    <3>1. UNCHANGED <<mailed, receipts>>
      BY <2>1 DEF ReleaseHold, Confirm, Cancel
    <3>2. \E kind \in Kinds :
            notifications' \in {Suppressed(k), Enqueued(notifications, k, kind),
                                Enqueued(Suppressed(k), k, kind)}
      BY <2>1 DEF ReleaseHold, Confirm, Cancel, Kinds
    <3> QED
      BY <3>1, <3>2, NoticesQueued
  <2> QED
    BY <1>1, <1>2, <2>1
    DEF ServiceStep, Configure, CreateRequest, FlagHazard, Reserve, PlaceHold, ConfirmLost
<1>3. CASE RescheduleStep
  <2>1. ASSUME NEW old \in Keys, NEW new \in Keys, CompleteReschedule(old, new)
        PROVE  NoticesStay /\ UNCHANGED <<mailed, receipts>>
    BY <2>1, NoticesQueued DEF CompleteReschedule, Kinds
  <2> QED
    BY <1>1, <1>3, <2>1
    DEF RescheduleStep, BeginReschedule, PlaceHold, ResumeReschedule, RescheduleLost,
        AbandonReschedule
<1>4. CASE CalendarStep \/ PersonStep \/ Tick \/ UNCHANGED vars
  BY <1>1, <1>4 DEF CalendarStep, PersonStep, Tick, vars, mailVars
<1> QED
  BY <1>2, <1>3, <1>4, DeliverySteps DEF Next

----------------------------------------------------------------------------
(* Mailed once. *)

\* The provider was first asked after the time that the row holds, and has mailed one copy.
SentOnce ==
  /\ \A n \in DOMAIN mailed :
       /\ notifications[n].first # Never
       /\ notifications[n].first <= mailed[n].at
       /\ mailed[n].copies = 1
  /\ \A n \in DOMAIN notifications : notifications[n].first <= now

\* The window for retries closes before the provider forgets the key, so a message that is
\* sent again is one that the provider remembers.
LEMMA RemembersKey ==
  ASSUME DataTypeOK, MailTypeOK, SentOnce, NEW n \in DOMAIN mailed, MaySend(n)
  PROVE  Mailed(n) = mailed
<1>1. /\ notifications[n].first \in Int /\ mailed[n].at \in Int /\ now \in Int
      /\ RetryWindow \in Int /\ DedupWindow \in Int
  BY EmailAssumption, TimeAssumption DEF MailTypeOK, NoticeRow, DataTypeOK, Never
<1>2. notifications[n].first <= mailed[n].at /\ now - notifications[n].first < RetryWindow
  BY <1>1 DEF SentOnce, MaySend, ReadyForDelivery, WindowClosed
<1>3. now - mailed[n].at < DedupWindow
  BY <1>1, <1>2, DedupAssumption
<1> QED
  BY <1>3 DEF Mailed

\* So the provider never mails a second copy.
LEMMA SentOnceStep ==
  ASSUME DataTypeOK, DataTypeOK', MailTypeOK, SentOnce, [Next]_vars
  PROVE  SentOnce'
<1>1. NoticesStay /\ (UNCHANGED mailed \/ \E n \in DOMAIN notifications : Sent(n))
  BY OutboxSteps
<1>2. DOMAIN mailed \subseteq DOMAIN notifications
  BY DEF MailTypeOK
<1>3. \A n \in DOMAIN notifications' : notifications'[n].first <= now'
  <2>1. now \in Nat /\ now' \in Nat /\ now' >= now
    BY ClockRuns, TimeAssumption DEF DataTypeOK
  <2>2. \A n \in DOMAIN notifications : notifications[n].first \in Int
    BY DEF MailTypeOK, NoticeRow, Never
  <2> SUFFICES ASSUME NEW n \in DOMAIN notifications'
               PROVE  notifications'[n].first <= now'
    OBVIOUS
  <2>3. n \in DOMAIN notifications => notifications[n].first <= now
    BY DEF SentOnce
  <2>4. \/ n \in DOMAIN notifications /\ notifications'[n].first = notifications[n].first
        \/ notifications'[n].first \in {Never, now}
    BY <1>1 DEF NoticesStay
  <2> QED
    BY <2>1, <2>2, <2>3, <2>4 DEF Never
<1>4. ASSUME NEW n \in DOMAIN mailed
      PROVE  n \in DOMAIN notifications' /\ notifications'[n].first = notifications[n].first
  BY <1>1, <1>2 DEF NoticesStay, SentOnce
<1>5. CASE UNCHANGED mailed
  BY <1>3, <1>4, <1>5 DEF SentOnce
<1>6. ASSUME NEW n \in DOMAIN notifications, Sent(n) PROVE SentOnce'
  <2>1. CASE n \in DOMAIN mailed
    BY <1>5, <1>6, <2>1, RemembersKey DEF Sent
  <2>2. CASE n \notin DOMAIN mailed
    <3>1. mailed' = Write(mailed, n, [at |-> now, copies |-> 1])
      BY <1>6, <2>2 DEF Sent, Mailed
    <3>2. /\ DOMAIN mailed' = DOMAIN mailed \cup {n}
          /\ mailed'[n].at = now /\ mailed'[n].copies = 1
          /\ \A m \in DOMAIN mailed : mailed'[m] = mailed[m]
      BY <2>2, <3>1 DEF Write
    <3>3. notifications[n].first # Never /\ notifications'[n].first = notifications[n].first
      BY <1>6 DEF Sent, MaySend
    <3> QED
      BY <1>3, <1>4, <3>2, <3>3 DEF SentOnce
  <2> QED
    BY <2>1, <2>2
<1> QED
  BY <1>1, <1>5, <1>6

\* The customer gets every message at most once.
THEOREM MailsAreSentOnce == Spec => []MailedOnce
<1>1. Init => SentOnce
  BY DEF Init, MailInit, NoRows, SentOnce
<1>2. TypeInv /\ TypeInv' /\ SentOnce /\ [Next]_vars => SentOnce'
  BY SentOnceStep DEF TypeInv
<1>3. SentOnce => MailedOnce
  BY DEF SentOnce, MailedOnce
<1> QED
  BY <1>1, <1>2, <1>3, TypeInvariant, PTL DEF Spec

----------------------------------------------------------------------------
(* A reminder follows a receipt. *)

\* The delivery status of a row is one that was reported.
DeliveryIsReported ==
  /\ \A n \in DOMAIN notifications :
       \/ notifications[n].delivery = NoDelivery
       \/ [notice |-> n, rank |-> notifications[n].delivery] \in receipts
  /\ ReminderFollowsReceipt

\* The second transaction of a reminder's delivery finds the receipt in the rows.
LEMMA DeliveryIsReportedStep ==
  ASSUME MailTypeOK, DeliveryIsReported, [Next]_vars
  PROVE  DeliveryIsReported'
<1>1. /\ NoticesStay /\ (UNCHANGED mailed \/ \E n \in DOMAIN notifications : Sent(n))
      /\ receipts \subseteq receipts'
  BY OutboxSteps
<1>2. \A n \in DOMAIN notifications' :
        \/ notifications'[n].delivery = NoDelivery
        \/ [notice |-> n, rank |-> notifications'[n].delivery] \in receipts'
  BY <1>1 DEF NoticesStay, DeliveryIsReported
<1>3. ASSUME NEW n \in DOMAIN mailed', n.kind = "REMINDER"
      PROVE  \E e \in receipts' : /\ e.notice.key = n.key
                                  /\ e.notice.kind \in {"CONFIRMATION", "RESCHEDULED"}
                                  /\ e.rank = Rank["DELIVERED"]
  <2>1. CASE n \in DOMAIN mailed
    BY <1>1, <1>3, <2>1 DEF DeliveryIsReported, ReminderFollowsReceipt
  <2>2. CASE n \notin DOMAIN mailed
    <3>1. PICK m \in DOMAIN notifications : Sent(m)
      BY <1>1, <2>2
    <3>2. m = n
      BY <2>2, <3>1 DEF Sent, Mailed, Write
    <3>3. ReceiptDelivered(n)
      BY <1>3, <3>1, <3>2 DEF Sent, MaySend, ReadyForDelivery
    <3>4. PICK r \in Receipt(n.key) : notifications[r].delivery = Rank["DELIVERED"]
      BY <3>3 DEF ReceiptDelivered
    <3>5. /\ r \in DOMAIN notifications
          /\ r.key = n.key /\ r.kind \in {"CONFIRMATION", "RESCHEDULED"}
      BY <3>4 DEF Receipt
    <3>6. [notice |-> r, rank |-> Rank["DELIVERED"]] \in receipts
      BY <3>4, <3>5 DEF DeliveryIsReported, Rank, NoDelivery
    <3> QED
      BY <1>1, <3>5, <3>6
  <2> QED
    BY <2>1, <2>2
<1> QED
  BY <1>2, <1>3 DEF DeliveryIsReported, ReminderFollowsReceipt

\* A reminder goes out only after the provider reported the message before it delivered.
THEOREM RemindersFollowReceipts == Spec => []ReminderFollowsReceipt
<1>1. Init => DeliveryIsReported
  BY DEF Init, MailInit, NoRows, DeliveryIsReported, ReminderFollowsReceipt
<1>2. TypeInv /\ DeliveryIsReported /\ [Next]_vars => DeliveryIsReported'
  BY DeliveryIsReportedStep DEF TypeInv
<1>3. DeliveryIsReported => ReminderFollowsReceipt
  BY DEF DeliveryIsReported
<1> QED
  BY <1>1, <1>2, <1>3, TypeInvariant, PTL DEF Spec

----------------------------------------------------------------------------
(* Only the truth. *)

\* What the second transaction looks at makes the message true.
LEMMA SentIsTrue ==
  ASSUME DataTypeOK, MailTypeOK, NEW n \in DOMAIN notifications, Sent(n)
  PROVE  MessageIsTrue(n)
<1>1. n.key \in DOMAIN appointments
  BY DEF MailTypeOK
<1>2. ~Obsolete(n)
  BY DEF Sent, MaySend, ReadyForDelivery
<1>3. appointments[n.key].slot.start \in Int /\ now \in Int
  BY <1>1, SlotsAssumption, TimeAssumption DEF DataTypeOK, Appointment, SlotType
<1> QED
  BY <1>1, <1>2, <1>3 DEF Obsolete, MessageIsTrue, Confirmed, Request, Sent

\* A message is handed to the provider only while it is true, whatever happened to the
\* appointment since it was queued.
THEOREM MailsAreTrue == Spec => MailsOnlyTruth
<1>1. TypeInv /\ [Next]_vars =>
        [\A n \in DOMAIN notifications :
           n \in DOMAIN mailed' /\ (n \in DOMAIN mailed => mailed'[n] # mailed[n])
             => MessageIsTrue(n)]_vars
  <2> SUFFICES ASSUME TypeInv, [Next]_vars, NEW n \in DOMAIN notifications,
                      n \in DOMAIN mailed', n \in DOMAIN mailed => mailed'[n] # mailed[n]
               PROVE  MessageIsTrue(n)
    OBVIOUS
  <2>1. DataTypeOK /\ MailTypeOK
    BY DEF TypeInv
  <2>2. PICK m \in DOMAIN notifications : Sent(m)
    BY <2>1, OutboxSteps
  <2>3. m = n
    BY <2>1, <2>2 DEF Sent, Mailed, Write, MailTypeOK
  <2> QED
    BY <2>1, <2>2, <2>3, SentIsTrue
<1> QED
  BY <1>1, TypeInvariant, PTL DEF Spec, MailsOnlyTruth

----------------------------------------------------------------------------
(* Nothing queued after the end. *)

\* The appointment of a queued message keeps its status, or ends with the message dropped; a
\* row about a hold does not exist, so what becomes of holds does not matter.
QueueFollows ==
  \A n \in DOMAIN notifications :
    \/ appointments'[n.key].status = appointments[n.key].status
    \/ appointments[n.key].status = "HELD"
    \/ appointments'[n.key].status = "CANCELLED" /\ notifications'[n].status # "PENDING"

\* A new row tells of an appointment that is confirmed, or that it is cancelled.
QueueStarts ==
  \A n \in DOMAIN notifications' \ DOMAIN notifications :
    \/ appointments'[n.key].status = "CONFIRMED"
    \/ appointments'[n.key].status = "CANCELLED" /\ n.kind = "CANCELLATION"

\* Steps that queue nothing and at most end holds.
LEMMA QuietQueue ==
  ASSUME MailTypeOK, Quiet, DOMAIN notifications' = DOMAIN notifications
  PROVE  QueueFollows /\ QueueStarts
<1>1. \A n \in DOMAIN notifications : n.key \in DOMAIN appointments
  BY DEF MailTypeOK
<1> QED
  BY <1>1 DEF Quiet, HoldsEnd, QueueFollows, QueueStarts

\* Confirmation.
LEMMA ConfirmQueue ==
  ASSUME DataTypeOK, MailTypeOK, NEW k, Confirm(k)
  PROVE  QueueFollows /\ QueueStarts
<1>1. /\ k \in DOMAIN appointments /\ appointments[k].status = "HELD"
      /\ appointments' = SetStatus(k, "CONFIRMED")
      /\ notifications' = Enqueued(notifications, k, "CONFIRMATION")
  BY DEF Confirm, CanConfirm, LiveHold
<1>2. /\ appointments'[k].status = "CONFIRMED"
      /\ \A j \in DOMAIN appointments : j # k => appointments'[j] = appointments[j]
  BY <1>1 DEF SetStatus, DataTypeOK, Appointment
<1>3. \A n \in DOMAIN notifications : n.key \in DOMAIN appointments
  BY DEF MailTypeOK
<1>4. \A n \in DOMAIN notifications' \ DOMAIN notifications : n.key = k
  BY <1>1, EnqueuedRows DEF Kinds
<1> QED
  BY <1>1, <1>2, <1>3, <1>4 DEF QueueFollows, QueueStarts

\* Cancellation drops what is queued, and queues the message that says so.
LEMMA CancelQueue ==
  ASSUME DataTypeOK, MailTypeOK, NEW k, Cancel(k)
  PROVE  QueueFollows /\ QueueStarts
<1>1. /\ k \in DOMAIN appointments
      /\ appointments' = SetStatus(k, "CANCELLED")
      /\ notifications' \in {Suppressed(k), Enqueued(Suppressed(k), k, "CANCELLATION")}
  BY DEF Cancel
<1>2. /\ appointments'[k].status = "CANCELLED"
      /\ \A j \in DOMAIN appointments : j # k => appointments'[j] = appointments[j]
  BY <1>1 DEF SetStatus, DataTypeOK, Appointment
<1>3. \A n \in DOMAIN notifications : n.key \in DOMAIN appointments
  BY DEF MailTypeOK
<1>4. \A n \in DOMAIN notifications : n.key = k => notifications'[n].status # "PENDING"
  BY <1>1, SuppressedRows, EnqueuedRows DEF Kinds
<1>5. \A n \in DOMAIN notifications' \ DOMAIN notifications :
        n.key = k /\ n.kind = "CANCELLATION"
  BY <1>1, SuppressedRows, EnqueuedRows DEF Kinds, QueuedKinds
<1> QED
  BY <1>2, <1>3, <1>4, <1>5 DEF QueueFollows, QueueStarts

\* The second transaction of a reschedule drops what is queued about the old appointment.
LEMMA SwapQueue ==
  ASSUME DataTypeOK, MovesOK, MailTypeOK, NEW old, NEW new, CompleteReschedule(old, new)
  PROVE  QueueFollows /\ QueueStarts
<1>1. /\ old \in DOMAIN appointments /\ new \in DOMAIN appointments /\ old # new
      /\ appointments[new].status = "HELD"
      /\ appointments' =
           [appointments EXCEPT ![old].status = "CANCELLED", ![new].status = "CONFIRMED"]
      /\ notifications' = Enqueued(Suppressed(old), new, "RESCHEDULED")
  BY DEF CompleteReschedule, CanSwap, MovesOK, LiveHold
<1>2. /\ appointments'[new].status = "CONFIRMED"
      /\ appointments'[old].status = "CANCELLED"
      /\ \A j \in DOMAIN appointments : j \notin {old, new} => appointments'[j] = appointments[j]
  BY <1>1 DEF DataTypeOK, Appointment
<1>3. \A n \in DOMAIN notifications : n.key \in DOMAIN appointments
  BY DEF MailTypeOK
<1>4. \A n \in DOMAIN notifications : n.key = old => notifications'[n].status # "PENDING"
  BY <1>1, SuppressedRows, EnqueuedRows DEF Kinds
<1>5. \A n \in DOMAIN notifications' \ DOMAIN notifications : n.key = new
  BY <1>1, SuppressedRows, EnqueuedRows DEF Kinds
<1> QED
  BY <1>1, <1>2, <1>3, <1>4, <1>5 DEF QueueFollows, QueueStarts

\* A delivery adds no row.
LEMMA DeliveryAddsNothing ==
  ASSUME DeliveryStep, notifications \in [DOMAIN notifications -> NoticeRow]
  PROVE  DOMAIN notifications' = DOMAIN notifications
BY DEF DeliveryStep, SkipObsolete, PostponeDelivery, SkipReminder, GiveUp, StampFirstAttempt,
       SendAccepted, SendRejected, SendAnswerLost, SendCrashed, ApplyReports, ReceiveReport,
       SetNotice, mailVars

\* Every step.
LEMMA QueueSteps ==
  ASSUME DataTypeOK, MovesOK, MailTypeOK, [Next]_vars
  PROVE  QueueFollows /\ QueueStarts
<1>1. notifications \in [DOMAIN notifications -> NoticeRow]
  BY DEF MailTypeOK
<1>2. CASE DOMAIN notifications' = DOMAIN notifications
  <2>1. ASSUME NEW k, NEW r, NEW s, NEW replaced, HoldPlaced(k, r, s, replaced)
        PROVE  QueueFollows /\ QueueStarts
    <3>1. \A j \in DOMAIN appointments : appointments'[j] = appointments[j]
      BY <2>1, BusyWhenPlaced
    <3> QED
      BY <1>2, <3>1 DEF QueueFollows, QueueStarts, MailTypeOK
  <2> QED
    BY <1>2, <2>1, QuietQueue, ConfirmQueue, CancelQueue, SwapQueue, StepKinds DEF Booking
<1>3. CASE ServiceStep
  <2>1. ASSUME NEW k \in Keys, ReleaseHold(k)
        PROVE  DOMAIN notifications' = DOMAIN notifications
    BY <2>1, SuppressedRows DEF ReleaseHold
  <2> QED
    BY <1>2, <1>3, <2>1, ConfirmQueue, CancelQueue
    DEF ServiceStep, Configure, CreateRequest, FlagHazard, Reserve, PlaceHold, ConfirmLost,
        mailVars
<1>4. CASE RescheduleStep
  BY <1>2, <1>4, SwapQueue
  DEF RescheduleStep, BeginReschedule, PlaceHold, ResumeReschedule, RescheduleLost,
      AbandonReschedule, mailVars
<1>5. CASE CalendarStep \/ PersonStep \/ Tick \/ UNCHANGED vars
  BY <1>2, <1>5 DEF CalendarStep, PersonStep, Tick, vars, mailVars
<1> QED
  BY <1>1, <1>2, <1>3, <1>4, <1>5, DeliveryAddsNothing DEF Next

\* There is no message about a hold, so the clean-up of holds, which does not look at the
\* outbox, leaves nothing behind in it.
QueueIsCurrent ==
  /\ NothingQueuedAfterEnd
  /\ \A n \in DOMAIN notifications : appointments[n.key].status # "HELD"

\* Cancelling and rescheduling drop what they must.
LEMMA QueueIsCurrentStep ==
  ASSUME DataTypeOK, MovesOK, MailTypeOK, QueueIsCurrent, [Next]_vars
  PROVE  QueueIsCurrent'
<1>1. NoticesStay /\ QueueFollows /\ QueueStarts
  BY OutboxSteps, QueueSteps
<1> SUFFICES ASSUME NEW n \in DOMAIN notifications'
             PROVE  /\ appointments'[n.key].status # "HELD"
                    /\ notifications'[n].status = "PENDING"
                         /\ appointments'[n.key].status \in {"CANCELLED", "EXPIRED"}
                       => n.kind = "CANCELLATION"
  BY DEF QueueIsCurrent, NothingQueuedAfterEnd
<1>2. CASE n \in DOMAIN notifications
  BY <1>1, <1>2 DEF NoticesStay, QueueFollows, QueueIsCurrent, NothingQueuedAfterEnd
<1>3. CASE n \notin DOMAIN notifications
  BY <1>1, <1>3 DEF QueueStarts
<1> QED
  BY <1>2, <1>3

\* A cancelled appointment has nothing left in the queue but the message that says so.
THEOREM NothingIsQueuedAfterEnd == Spec => []NothingQueuedAfterEnd
<1>1. Init => QueueIsCurrent
  BY DEF Init, MailInit, NoRows, QueueIsCurrent, NothingQueuedAfterEnd
<1>2. TypeInv /\ QueueIsCurrent /\ [Next]_vars => QueueIsCurrent'
  BY QueueIsCurrentStep DEF TypeInv
<1>3. QueueIsCurrent => NothingQueuedAfterEnd
  BY DEF QueueIsCurrent
<1> QED
  BY <1>1, <1>2, <1>3, TypeInvariant, PTL DEF Spec
=============================================================================
