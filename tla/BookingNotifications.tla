------------------------ MODULE BookingNotifications ------------------------
(***************************************************************************)
(* The outbox of booking e-mails: rows queued by the scheduling handlers,  *)
(* their delivery by a job in two transactions, the e-mail provider that   *)
(* de-duplicates for a bounded time, and its delivery webhooks.            *)
(* notifications/booking.py and notifications/email_events.py.             *)
(*                                                                         *)
(* Retry delays are left out: a row that is due may be tried at any time.  *)
(* The wait for the reminder's own due time is kept.                       *)
(***************************************************************************)
EXTENDS CalendarSync

CONSTANTS
  HasEmail,       \* requests with a confirmed e-mail address (and a configured sender)
  ReminderLead,   \* BOOKING_REMINDER_HOURS
  RetryWindow,    \* 23 hours: no further attempt after this
  DedupWindow,    \* 24 hours: the provider forgets an idempotency key after this
  Reports         \* delivery states the provider may report

Kinds == {"CONFIRMATION", "REMINDER", "CANCELLATION", "RESCHEDULED"}
NoticeStatus == {"PENDING", "ACCEPTED", "SKIPPED", "FAILED", "UNKNOWN"}

\* A row is named by its appointment and kind: the table has that unique constraint.
Notice == [key : Keys, kind : Kinds]

\* ranks of apply_delivery_events(); 0 stands for no delivery status yet.
Rank == [ACCEPTED |-> 1, DELAYED |-> 2, DELIVERED |-> 3, FAILED |-> 4,
         SUPPRESSED |-> 5, BOUNCED |-> 6, COMPLAINED |-> 7]
NoDelivery == 0
Undeliverable == {Rank[s] : s \in {"FAILED", "SUPPRESSED", "BOUNCED", "COMPLAINED"}}

\* first_attempt_at before the first attempt
Never == -1

ASSUME EmailAssumption ==
  /\ HasEmail \subseteq Requests
  /\ ReminderLead \in Nat
  /\ RetryWindow \in Nat
  /\ DedupWindow \in Nat
  /\ Reports \subseteq DOMAIN Rank

\* The provider promises to remember a key for longer than the code keeps trying.
ASSUME DedupAssumption == RetryWindow < DedupWindow

VARIABLES
  notifications,  \* booking_notifications: [status, first, delivery]
  mailed,         \* provider: notices it has mailed, [at, copies]
  receipts        \* booking_email_events: [notice, rank]

mailVars == <<notifications, mailed, receipts>>

NoticeRow == [status : NoticeStatus, first : Nat \cup {Never}, delivery : 0..7]

MailTypeOK ==
  /\ DOMAIN notifications \subseteq [key : DOMAIN appointments, kind : Kinds]
  /\ notifications \in [DOMAIN notifications -> NoticeRow]
  /\ DOMAIN mailed \subseteq DOMAIN notifications
  /\ mailed \in [DOMAIN mailed -> [at : Nat, copies : Nat]]
  /\ receipts \subseteq [notice : DOMAIN mailed, rank : 1..7]

MailInit ==
  /\ notifications = NoRows
  /\ mailed = NoRows
  /\ receipts = {}

----------------------------------------------------------------------------
(* Called by the scheduling handlers, inside their transaction. *)

\* suppress_booking_notifications(), as the new value of the table
Suppressed(k) ==
  [n \in DOMAIN notifications |->
     IF n.key = k /\ notifications[n].status = "PENDING"
     THEN [notifications[n] EXCEPT !.status = "SKIPPED"]
     ELSE notifications[n]]

NewRow(k) ==
  [status |-> IF appointments[k].request \in HasEmail THEN "PENDING" ELSE "SKIPPED",
   first |-> Never, delivery |-> NoDelivery]

\* The kinds that enqueue_booking_notifications() adds for a message of the given kind.
QueuedKinds(k, kind) ==
  IF kind # "CANCELLATION" /\ appointments[k].slot.start - ReminderLead > now
  THEN {kind, "REMINDER"} ELSE {kind}

\* enqueue_booking_notifications() on the given table: existing rows are left alone.
Enqueued(table, k, kind) ==
  LET queued == [key : {k}, kind : QueuedKinds(k, kind)]
  IN  [n \in DOMAIN table \cup queued |-> IF n \in DOMAIN table THEN table[n] ELSE NewRow(k)]

----------------------------------------------------------------------------
(* deliver_notification(). *)

SetNotice(n, status) == [notifications EXCEPT ![n].status = status]

\* The row is picked up: pending and due.
PendingAndDue(n) ==
  /\ n \in DOMAIN notifications
  /\ notifications[n].status = "PENDING"
  /\ n.kind = "REMINDER" => now >= appointments[n.key].slot.start - ReminderLead

\* Mutants of Obsolete: forgets appointments that have begun; forgets requests that need a
\* human.
ObsoleteUnlessStarted(n) ==
  LET booking == appointments[n.key]
  IN  IF n.kind = "CANCELLATION"
      THEN booking.status # "CANCELLED"
      ELSE requests[booking.request].hazardous \/ booking.status # "CONFIRMED"

ObsoleteByBooking(n) ==
  LET booking == appointments[n.key]
  IN  IF n.kind = "CANCELLATION"
      THEN booking.status # "CANCELLED"
      ELSE booking.status # "CONFIRMED" \/ booking.slot.start <= now

\* ready_for_delivery(): the booking is no longer what the message says.
Obsolete(n) ==
  LET booking == appointments[n.key]
  IN  IF n.kind = "CANCELLATION"
      THEN booking.status # "CANCELLED"
      ELSE \/ requests[booking.request].hazardous
           \/ booking.status # "CONFIRMED"
           \/ booking.slot.start <= now

\* ready_for_delivery() reconciles a bound booking and goes on only if that leaves the
\* binding as the message needs it.  A cancellation looks at the binding alone.
CalendarInOrder(n) ==
  IF n.key \notin DOMAIN bindings
  THEN UNCHANGED <<appointments, connections, bindings, events>>
  ELSE IF n.kind = "CANCELLATION"
       THEN /\ \/ ReconcileBooking(n.key)
               \/ UNCHANGED <<appointments, connections, bindings, events>>
            /\ bindings'[n.key] = "CANCELLED"
       ELSE Verified(n.key)

Receipt(k) ==
  {m \in DOMAIN notifications : m.key = k /\ m.kind \in {"CONFIRMATION", "RESCHEDULED"}}

ReceiptFailed(n) ==
  \E m \in Receipt(n.key) : notifications[m].delivery \in Undeliverable

\* Mutant of ReceiptDelivered: accepted by the provider is taken for delivered.
ReceiptAccepted(n) ==
  \E m \in Receipt(n.key) : notifications[m].status = "ACCEPTED"

ReceiptDelivered(n) ==
  \E m \in Receipt(n.key) : /\ notifications[m].status = "ACCEPTED"
                            /\ notifications[m].delivery = Rank["DELIVERED"]

\* Mutant of WindowClosed: retries for ever.
WindowNeverCloses(n) == FALSE

WindowClosed(n) ==
  notifications[n].first # Never /\ now - notifications[n].first >= RetryWindow

ReadyForDelivery(n) ==
  /\ ~Obsolete(n)
  /\ n.kind = "REMINDER" => ReceiptDelivered(n)
  /\ ~WindowClosed(n)

othersOfDelivery == <<now, schedule, requests, rescheduled, exchanging, outside>>

\* Either transaction drops a row whose booking has changed.
SkipObsolete(n) ==
  /\ PendingAndDue(n)
  /\ Obsolete(n)
  /\ notifications' = SetNotice(n, "SKIPPED")
  /\ UNCHANGED <<dataVars, calendarVars, mailed, receipts>>

\* The calendar is not in order, or a reminder waits for its receipt: the row stays.
PostponeDelivery(n) ==
  /\ PendingAndDue(n)
  /\ ~Obsolete(n)
  /\ n.key \in DOMAIN bindings
  /\ ReconcileBooking(n.key)
  /\ \/ bindings'[n.key] # IF n.kind = "CANCELLATION" THEN "CANCELLED" ELSE "SYNCED"
     \/ n.kind # "CANCELLATION" /\ connections' # connections
     \/ n.kind = "REMINDER" /\ ~ReceiptDelivered(n) /\ ~ReceiptFailed(n)
  /\ UNCHANGED <<othersOfDelivery, mailVars>>

SkipReminder(n) ==
  /\ PendingAndDue(n)
  /\ ~Obsolete(n)
  /\ n.kind = "REMINDER" /\ ReceiptFailed(n)
  /\ CalendarInOrder(n)
  /\ notifications' = SetNotice(n, "SKIPPED")
  /\ UNCHANGED <<othersOfDelivery, mailed, receipts>>

\* Retrying past the provider's memory could mail twice: the outcome stays unknown.
GiveUp(n) ==
  /\ PendingAndDue(n)
  /\ ~Obsolete(n)
  /\ n.kind = "REMINDER" => ReceiptDelivered(n)
  /\ WindowClosed(n)
  /\ CalendarInOrder(n)
  /\ notifications' = SetNotice(n, "UNKNOWN")
  /\ UNCHANGED <<othersOfDelivery, mailed, receipts>>

\* First transaction: the time of the first attempt is committed before it is made.
StampFirstAttempt(n) ==
  /\ PendingAndDue(n)
  /\ ReadyForDelivery(n)
  /\ notifications[n].first = Never
  /\ CalendarInOrder(n)
  /\ notifications' = [notifications EXCEPT ![n].first = now]
  /\ UNCHANGED <<othersOfDelivery, mailed, receipts>>

\* The provider on a request with an idempotency key: it mails unless it remembers the key.
Mailed(n) ==
  IF n \in DOMAIN mailed
  THEN IF now - mailed[n].at < DedupWindow
       THEN mailed
       ELSE [mailed EXCEPT ![n] = [at |-> now, copies |-> @.copies + 1]]
  ELSE Write(mailed, n, [at |-> now, copies |-> 1])

\* Mutant of MaySend: relies on what the first transaction saw.
MaySendUnchecked(n) ==
  /\ PendingAndDue(n)
  /\ notifications[n].first # Never
  /\ ~WindowClosed(n)

\* What the second transaction checks again before it calls the provider.
MaySend(n) ==
  /\ PendingAndDue(n)
  /\ ReadyForDelivery(n)
  /\ notifications[n].first # Never

SendAccepted(n) ==
  /\ MaySend(n)
  /\ CalendarInOrder(n)
  /\ mailed' = Mailed(n)
  /\ notifications' = SetNotice(n, "ACCEPTED")
  /\ UNCHANGED <<othersOfDelivery, receipts>>

SendRejected(n) ==
  /\ MaySend(n)
  /\ CalendarInOrder(n)
  /\ notifications' = SetNotice(n, "FAILED")
  /\ UNCHANGED <<othersOfDelivery, mailed, receipts>>

\* The provider mails, but its answer is lost: the row stays pending.
SendAnswerLost(n) ==
  /\ MaySend(n)
  /\ CalendarInOrder(n)
  /\ mailed' = Mailed(n)
  /\ UNCHANGED <<othersOfDelivery, notifications, receipts>>

\* The provider mails and the process stops before its commit: the rows stay as they were.
SendCrashed(n) ==
  /\ MaySend(n)
  /\ n.key \in DOMAIN bindings =>
       IF n.kind = "CANCELLATION"
       THEN bindings[n.key] = "CANCELLED" \/ (Reachable(Team(n.key)) /\ ~EventLive(n.key))
       ELSE Reachable(Team(n.key)) /\ BookingInOrder(n.key)
  /\ mailed' = Mailed(n)
  /\ UNCHANGED <<dataVars, calendarVars, notifications, receipts>>

----------------------------------------------------------------------------
(* Delivery webhooks. *)

\* receive(): the report is stored once per event id, in whatever order it arrives.
ReceiveReport(n, status) ==
  /\ n \in DOMAIN mailed
  /\ receipts' = receipts \cup {[notice |-> n, rank |-> Rank[status]]}
  /\ UNCHANGED <<dataVars, calendarVars, notifications, mailed>>

\* Mutant of ApplyReports: the first report to arrive is final.
ApplyFirstReport(n) ==
  /\ n \in DOMAIN notifications
  /\ notifications[n].status = "ACCEPTED"
  /\ notifications[n].delivery = NoDelivery
  /\ \E e \in receipts :
        /\ e.notice = n
        /\ notifications' = [notifications EXCEPT ![n].delivery = e.rank]
  /\ UNCHANGED <<dataVars, calendarVars, mailed, receipts>>

\* apply_delivery_events(): only a row that knows its provider reference, only upwards.
ApplyReports(n) ==
  /\ n \in DOMAIN notifications
  /\ notifications[n].status = "ACCEPTED"
  /\ \E e \in receipts :
        /\ e.notice = n
        /\ \A other \in receipts : other.notice = n => other.rank <= e.rank
        /\ e.rank > notifications[n].delivery
        /\ notifications' = [notifications EXCEPT ![n].delivery = e.rank]
  /\ UNCHANGED <<dataVars, calendarVars, mailed, receipts>>
============================================================================
