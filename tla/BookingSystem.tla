--------------------------- MODULE BookingSystem ---------------------------
(***************************************************************************)
(* The booking subsystem of one agency: staff, customers and the phone     *)
(* agent calling the scheduling service, the background jobs, Google, the  *)
(* e-mail provider and the people who edit the calendar, all interleaved,  *)
(* and what must be true of them together.                                 *)
(***************************************************************************)
EXTENDS Scheduling

vars == <<dataVars, calendarVars, mailVars, moves>>

TypeOK == DataTypeOK /\ CalendarTypeOK /\ MailTypeOK /\ SchedulingTypeOK

Init == DataInit /\ CalendarInit /\ MailInit /\ SchedulingInit

ServiceStep ==
  \/ \E c \in Configurations : Configure(c)
  \/ \E r \in Requests :
       \/ \E hazardous \in BOOLEAN : CreateRequest(r, hazardous)
       \/ FlagHazard(r)
       \/ \E k \in Keys, s \in Slots : Reserve(k, r, s)
  \/ \E k \in Keys : ReleaseHold(k) \/ Confirm(k) \/ ConfirmLost(k) \/ Cancel(k)

RescheduleStep ==
  \E old, new \in Keys :
    \/ \E s \in Slots : BeginReschedule(old, new, s)
    \/ ResumeReschedule(old, new)
    \/ CompleteReschedule(old, new)
    \/ RescheduleLost(old, new)
    \/ AbandonReschedule(old, new)

CalendarStep ==
  /\ \/ \E k \in Keys : ReconcileBookingJob(k) \/ ReconcileBookingLost(k)
     \/ \E team \in Teams :
          \/ ReconcileConnectionJob(team)
          \/ Disconnect(team)
          \/ \E calendar \in Calendars : BeginConnect(team, calendar)
     \/ \E x \in exchanging : FinishConnect(x) \/ AbandonConnect(x)
  /\ UNCHANGED <<mailVars, moves>>

PersonStep ==
  /\ \/ \E k \in Keys, s \in Slots : PersonMoves(k, s)
     \/ \E k \in Keys : PersonTogglesEvent(k)
     \/ \E o \in OutsideEvents : PersonTogglesBusy(o)
  /\ UNCHANGED <<mailVars, moves>>

DeliveryStep ==
  /\ \E n \in Notice :
       \/ SkipObsolete(n) \/ PostponeDelivery(n) \/ SkipReminder(n) \/ GiveUp(n)
       \/ StampFirstAttempt(n)
       \/ SendAccepted(n) \/ SendRejected(n) \/ SendAnswerLost(n) \/ SendCrashed(n)
       \/ ApplyReports(n)
       \/ \E status \in Reports : ReceiveReport(n, status)
  /\ UNCHANGED moves

Next == ServiceStep \/ RescheduleStep \/ CalendarStep \/ PersonStep \/ DeliveryStep \/ Tick

Spec == Init /\ [][Next]_vars

----------------------------------------------------------------------------
(* Appointments. *)

BothConfirmed(j, k) == {j, k} \subseteq Confirmed

\* No team is promised twice: two appointments that occupy a team at overlapping times
\* are an appointment and its replacement, not yet both confirmed.  _reserve(), confirm()
\* and reschedule() each look for conflicts at a different time, with different exceptions.
NoDoubleBooking ==
  \A j, k \in Busy :
    j # k /\ Overlaps(appointments[j].slot, appointments[k].slot) =>
      Request(j) = Request(k) /\ ~BothConfirmed(j, k)

\* A service request never has two confirmed appointments, whichever keys, retries and
\* half-done reschedules led there, and is BOOKED only while it has one.
OneBookingPerRequest ==
  /\ \A j, k \in Confirmed : Request(j) = Request(k) => j = k
  /\ \A r \in DOMAIN requests :
       requests[r].status = "BOOKED" => \E k \in Confirmed : Request(k) = r

\* An appointment and one replacement are all that a request can occupy at a time: failed
\* and abandoned reschedules do not pile up holds.
AtMostOneReplacement ==
  \A r \in DOMAIN requests : Cardinality({k \in Busy : Request(k) = r}) <= 2

\* What has stopped occupying its team (released, cancelled, expired by the clock alone)
\* never occupies it again, although the row of a lapsed hold still says HELD.
HoldsDoNotRevive ==
  [][\A k \in DOMAIN appointments \ Busy : k \notin Busy']_vars

\* A request reported as dangerous gets no new confirmed appointment, also when the report
\* arrives between the two transactions of a reschedule.
DangerIsNotBooked ==
  [][\A k \in Keys : k \in Confirmed' \ Confirmed => ~requests[Request(k)'].hazardous]_vars

\* customer_booking_limits(): a customer's appointments and holds together never exceed
\* CUSTOMER_MAX_ACTIVE_APPOINTMENTS.
CustomerLimit ==
  \A r \in DOMAIN requests :
    Owner[r] # NoOwner => Cardinality(ActiveRequests(Owner[r])) <= MaxActive

\* booking_change_allowance(): all replacements of a customer's request together never
\* exceed CUSTOMER_MAX_BOOKING_CHANGES; a replacement does not start a new count.
ChangeLimit ==
  \A r \in DOMAIN requests : Owner[r] # NoOwner => ChangesUsed(r) <= MaxChanges

\* The scheduling service keeps the promises of module Bookings.
BookedRequests == {Request(k) : k \in Confirmed}
BookedSlot(r) == appointments[CHOOSE k \in Confirmed : Request(k) = r].slot
Dangerous == {r \in DOMAIN requests : requests[r].hazardous}

Promise == INSTANCE Bookings WITH
  booked <- [r \in BookedRequests |-> BookedSlot(r)],
  danger <- Dangerous

\* Every step of the detailed system is a step of module Bookings or changes nothing there:
\* the holds and the two transactions of reschedule() show as one step, which moves one
\* request's appointment to a time that nobody else has.
KeepsPromise == Promise!Spec

----------------------------------------------------------------------------
(* Calendars. *)

\* A booking that is still to come and whose team has a calendar is tied to it.  The first
\* connection of a team is checked against its bookings only when it is stored, after an
\* exchange with Google during which bookings go on.
BookingsAreBound ==
  \A k \in Busy :
    HasConnection(Team(k)) /\ appointments[k].slot.end > now => k \in DOMAIN bindings

\* As long as a binding has work left, the event of its appointment is in the calendar
\* that the team is connected to, where the clean-up will look for it.
EventsCanBeFound ==
  \A k \in DOMAIN events :
    k \in DOMAIN bindings /\ (bindings[k] \notin Final => events[k].calendar = Calendar(k))

\* A calendar is given up only when nothing in it is left to do.
DisconnectedIsDone ==
  \A k \in DOMAIN bindings :
    connections[Team(k)].status = "DISCONNECTED" => bindings[k] \in Final

\* The program deletes an event only when the appointment no longer occupies its team and
\* the event is as it was written: never one that a person has moved.
DeletesOnlyItsOwn ==
  [][\A k \in DOMAIN events :
       events[k].live /\ ~events'[k].live /\ ~PersonTogglesEvent(k) =>
         k \notin Busy' /\ Intact(k)]_vars

\* The binding of a dead appointment is closed only in a state in which its event is gone.
ClosedMeansGone ==
  [][\A k \in DOMAIN bindings :
       bindings[k] # "CANCELLED" /\ bindings'[k] = "CANCELLED" =>
         ~EventLive(k)' /\ k \notin Busy']_vars

\* An appointment becomes confirmed together with its event, in a calendar that is free of
\* anything but the event of the appointment it replaces.
ConfirmedWithItsEvent ==
  [][\A k \in DOMAIN bindings :
       k \in Confirmed' \ Confirmed =>
         Intact(k)' /\ bindings'[k] = "SYNCED" /\ ~BusyOutside(Calendar(k), appointments[k].slot,
                         {k} \cup {j \in DOMAIN bindings : Request(j) = Request(k)})]_vars

Orphaned(k) ==
  /\ k \in DOMAIN events \cap DOMAIN bindings
  /\ NeedsCleanup(k)
  /\ bindings[k] \notin Final
  /\ Intact(k)

\* An event left behind by a cancelled, released or expired appointment, also one written by
\* a confirmation that was rolled back, is removed in the end, unless a person has changed
\* it or Google no longer lets the business in.
OrphansAreRemoved ==
  \A k \in Keys : Orphaned(k) ~> (~Orphaned(k) \/ ~Reachable(Team(k)))

----------------------------------------------------------------------------
(* Notifications. *)

\* The customer gets every message at most once, although answers of the provider are lost,
\* jobs die after sending, and the provider forgets idempotency keys.
MailedOnce == \A n \in DOMAIN mailed : mailed[n].copies <= 1

\* What a message says is true when it is handed to the provider, whatever happened to the
\* appointment since it was queued and since its first attempt.
MessageIsTrue(n) ==
  IF n.kind = "CANCELLATION"
  THEN appointments[n.key].status = "CANCELLED"
  ELSE /\ n.key \in Confirmed
       /\ ~requests[Request(n.key)].hazardous
       /\ appointments[n.key].slot.start > now
       /\ n.key \in DOMAIN bindings => BookingInOrder(n.key)

MailsOnlyTruth ==
  [][\A n \in DOMAIN notifications :
       n \in DOMAIN mailed' /\ (n \in DOMAIN mailed => mailed'[n] # mailed[n])
         => MessageIsTrue(n)]_vars

\* A reminder goes out only after the provider reported that the confirmation, or the
\* message about the reschedule, was delivered.
ReminderFollowsReceipt ==
  \A n \in DOMAIN mailed :
    n.kind = "REMINDER" =>
      \E e \in receipts : /\ e.notice.key = n.key
                          /\ e.notice.kind \in {"CONFIRMATION", "RESCHEDULED"}
                          /\ e.rank = Rank["DELIVERED"]

\* A cancelled appointment has nothing left in the queue but the message that says so.
NothingQueuedAfterEnd ==
  \A n \in DOMAIN notifications :
    /\ notifications[n].status = "PENDING"
    /\ appointments[n.key].status \in {"CANCELLED", "EXPIRED"}
    => n.kind = "CANCELLATION"

\* No message stays queued for ever: it is accepted, rejected, given up or dropped.
EveryNoticeSettles ==
  \A n \in Notice :
    (n \in DOMAIN notifications /\ notifications[n].status = "PENDING")
      ~> (n \in DOMAIN notifications /\ notifications[n].status # "PENDING")

\* Whatever the order of the webhooks and of the row's own update, the row ends at the
\* worst outcome that was reported, once the provider has accepted the message.
ReportsReachTheRow ==
  \A n \in Notice, status \in Reports :
    ([notice |-> n, rank |-> Rank[status]] \in receipts /\ notifications[n].status = "ACCEPTED")
      ~> (n \in DOMAIN notifications /\ notifications[n].delivery >= Rank[status])

----------------------------------------------------------------------------
(* Fairness. *)

\* The worker polls for ever, so the jobs of a booking keep being run, and a calendar that
\* the business is connected to answers in the end.
CalendarJobsRun ==
  \A k \in Keys : WF_vars(ReconcileBookingJob(k) /\ CleanedUp(k) /\ UNCHANGED <<mailVars, moves>>)

\* Time passes, and the delivery jobs keep being run; the provider answers in the end.
DeliveryJobsRun ==
  /\ WF_vars(Tick)
  /\ \A n \in Notice :
       /\ WF_vars(SkipObsolete(n) /\ UNCHANGED moves)
       /\ WF_vars(StampFirstAttempt(n) /\ UNCHANGED moves)
       /\ WF_vars((SendAccepted(n) \/ SendRejected(n)) /\ UNCHANGED moves)
       /\ WF_vars((GiveUp(n) \/ SkipReminder(n)) /\ UNCHANGED moves)
       /\ WF_vars(ApplyReports(n) /\ UNCHANGED moves)

CleanupSpec == Spec /\ CalendarJobsRun
DeliverySpec == Spec /\ DeliveryJobsRun
=============================================================================
