----------------------------- MODULE Scheduling -----------------------------
(***************************************************************************)
(* The handlers of SchedulingService (hvac/service.py): each is one        *)
(* transaction, except a reschedule, which is two.  The guard of an action *)
(* is the chain of refusals of its handler; a refused call changes nothing.*)
(*                                                                         *)
(* A handler that publishes an event and is then refused, loses its commit *)
(* or dies leaves the event behind: the actions named ...Lost.             *)
(***************************************************************************)
EXTENDS BookingNotifications

CONSTANT
  Routes   \* who may ask for a reschedule: "customer", "staff"

ASSUME RoutesAssumption == Routes \subseteq {"customer", "staff"}

VARIABLE
  moves    \* <<old, new>>: reschedules between their two transactions

SchedulingTypeOK == moves \subseteq (DOMAIN appointments) \X (DOMAIN appointments)

SchedulingInit == moves = {}

Settings == schedule.configuration
Request(k) == appointments[k].request

\* _lock_schedule() refuses every booking call until the business is configured.
Configured == schedule.version > 0

SetRequest(r, status) == [requests EXCEPT ![r].status = status]

----------------------------------------------------------------------------
\* configure(): the first version may list any team, a later one keeps connected teams.
Configure(c) ==
  /\ schedule.version < MaxVersion
  /\ Configured => DOMAIN connections \subseteq c.teams
  /\ schedule' = [version |-> schedule.version + 1, configuration |-> c]
  /\ UNCHANGED <<now, requests, appointments, rescheduled, calendarVars, mailVars, moves>>

\* Mutant of CreateRequest: uses a status that the rest of the code does not know.
CreateRequestForCallback(r, hazardous) ==
  /\ r \notin DOMAIN requests
  /\ requests' =
       Write(requests, r, [status |-> IF hazardous THEN "CALLBACK_REQUESTED" ELSE "OPEN",
                           hazardous |-> hazardous])
  /\ UNCHANGED <<now, schedule, appointments, rescheduled, calendarVars, mailVars, moves>>

\* create_request() and the intake of a conversation.
CreateRequest(r, hazardous) ==
  /\ r \notin DOMAIN requests
  /\ requests' =
       Write(requests, r, [status |-> IF hazardous THEN "HANDOFF_REQUESTED" ELSE "OPEN",
                           hazardous |-> hazardous])
  /\ UNCHANGED <<now, schedule, appointments, rescheduled, calendarVars, mailVars, moves>>

----------------------------------------------------------------------------
(* Holds. *)

\* _reserve() on a fresh key; replaced is {} or the appointment that is being moved.
PlaceHold(k, r, s, replaced) ==
  /\ Configured
  /\ k \notin DOMAIN appointments
  /\ r \in DOMAIN requests
  /\ replaced = {} => HasPlace(r, {})
  /\ Bookable(r)
  /\ r \in Settings.served
  /\ s \in CandidateSlots(Settings, now)
  /\ NoConflict(r, s, replaced)
  /\ ExternalSlotFree(s, replaced)
  /\ appointments' =
       Write(appointments, k, [request |-> r, slot |-> s, status |-> "HELD",
                               hold_expires |-> now + HoldTime])
  /\ bindings' = Bound(k, s)
  /\ UNCHANGED <<now, schedule, requests, rescheduled,
                 connections, exchanging, events, outside, mailVars>>

Reserve(k, r, s) == PlaceHold(k, r, s, {}) /\ UNCHANGED moves

ReleaseHold(k) ==
  /\ Configured
  /\ k \in DOMAIN appointments
  /\ appointments[k].status = "HELD"
  /\ appointments' = SetStatus(k, "CANCELLED")
  /\ notifications' = Suppressed(k)
  /\ UNCHANGED <<now, schedule, requests, rescheduled, calendarVars, mailed, receipts, moves>>

\* The request goes to a human: its holds are dropped, a confirmed appointment stays.
FlagHazard(r) ==
  /\ r \in DOMAIN requests
  /\ requests' = [requests EXCEPT ![r] = [status |-> "HANDOFF_REQUESTED", hazardous |-> TRUE]]
  /\ appointments' =
       [k \in DOMAIN appointments |->
          IF Request(k) = r /\ appointments[k].status = "HELD"
          THEN [appointments[k] EXCEPT !.status = "CANCELLED"]
          ELSE appointments[k]]
  /\ UNCHANGED <<now, schedule, rescheduled, calendarVars, mailVars, moves>>

----------------------------------------------------------------------------
(* Confirmation. *)

\* Mutant of CanConfirm: a hold is good while its row says HELD.
CanConfirmLapsed(k) ==
  /\ Configured
  /\ k \in DOMAIN appointments
  /\ Bookable(Request(k))
  /\ HasPlace(Request(k), {Request(k)})
  /\ appointments[k].status = "HELD"
  /\ appointments[k].slot.start > now
  /\ StillOffered(k)
  /\ NoConflict(Request(k), appointments[k].slot, {k})
  /\ CanPublish(k, {})

CanConfirm(k) ==
  /\ Configured
  /\ k \in DOMAIN appointments
  /\ Bookable(Request(k))
  /\ HasPlace(Request(k), {Request(k)})
  /\ LiveHold(k)
  /\ appointments[k].slot.start > now
  /\ StillOffered(k)
  /\ NoConflict(Request(k), appointments[k].slot, {k})
  /\ CanPublish(k, {})

Confirm(k) ==
  /\ CanConfirm(k)
  /\ events' = Published(k)
  /\ bindings' = MarkSynced(k)
  /\ appointments' = SetStatus(k, "CONFIRMED")
  /\ requests' = SetRequest(Request(k), "BOOKED")
  /\ notifications' = Enqueued(notifications, k, "CONFIRMATION")
  /\ UNCHANGED <<now, schedule, rescheduled, connections, exchanging, outside,
                 mailed, receipts, moves>>

ConfirmLost(k) ==
  /\ CanConfirm(k)
  /\ events' = Published(k)
  /\ UNCHANGED <<dataVars, connections, exchanging, bindings, outside, mailVars, moves>>

Cancel(k) ==
  /\ Configured
  /\ k \in DOMAIN appointments
  /\ AllowChange(k)
  /\ appointments' = SetStatus(k, "CANCELLED")
  /\ requests' = SetRequest(Request(k), "OPEN")
  /\ notifications' =
       IF k \in Confirmed THEN Enqueued(Suppressed(k), k, "CANCELLATION") ELSE Suppressed(k)
  /\ UNCHANGED <<now, schedule, rescheduled, calendarVars, mailed, receipts, moves>>

----------------------------------------------------------------------------
(* Rescheduling: a replacement is held and committed, then a second transaction swaps. *)

\* The customer's route takes appointments of their own that are confirmed; the staff's
\* route takes whatever _allow_change() takes, an expired hold included.
MayAsk(k) ==
  \/ "staff" \in Routes
  \/ "customer" \in Routes /\ Owner[Request(k)] # NoOwner /\ k \in Confirmed

MayMove(old) ==
  /\ Configured
  /\ old \in DOMAIN appointments
  /\ AllowChange(old)
  /\ ChangeAllowed(Request(old))

BeginReschedule(old, new, s) ==
  /\ MayMove(old)
  /\ MayAsk(old)
  /\ PlaceHold(new, Request(old), s, {old})
  /\ moves' = moves \cup {<<old, new>>}

\* The key of the replacement is known: a retry, or a hold reserved by an earlier call.
ResumeReschedule(old, new) ==
  /\ MayMove(old)
  /\ MayAsk(old)
  /\ new \in DOMAIN appointments \ {old}
  /\ Request(new) = Request(old)
  /\ appointments[new].status = "HELD"
  /\ moves' = moves \cup {<<old, new>>}
  /\ UNCHANGED <<dataVars, calendarVars, mailVars>>

CanSwap(old, new) ==
  /\ <<old, new>> \in moves
  /\ MayMove(old)
  /\ LiveHold(new)
  /\ StillOffered(new)
  /\ Bookable(Request(new))
  /\ NoConflict(Request(new), appointments[new].slot, {new, old})
  /\ CanPublish(new, {old})

\* Mutants of CompleteReschedule: the old appointment is not cancelled; the messages queued
\* about it are not dropped.
CompleteWithoutCancelling(old, new) ==
  /\ CanSwap(old, new)
  /\ events' = Published(new)
  /\ bindings' = MarkSynced(new)
  /\ appointments' = SetStatus(new, "CONFIRMED")
  /\ requests' = SetRequest(Request(old), "BOOKED")
  /\ notifications' = Enqueued(Suppressed(old), new, "RESCHEDULED")
  /\ rescheduled' = rescheduled \cup {new}
  /\ moves' = moves \ {<<old, new>>}
  /\ UNCHANGED <<now, schedule, connections, exchanging, outside, mailed, receipts>>

CompleteWithoutSuppressing(old, new) ==
  /\ CanSwap(old, new)
  /\ events' = Published(new)
  /\ bindings' = MarkSynced(new)
  /\ appointments' =
       [appointments EXCEPT ![old].status = "CANCELLED", ![new].status = "CONFIRMED"]
  /\ requests' = SetRequest(Request(old), "BOOKED")
  /\ notifications' = Enqueued(notifications, new, "RESCHEDULED")
  /\ rescheduled' = rescheduled \cup {new}
  /\ moves' = moves \ {<<old, new>>}
  /\ UNCHANGED <<now, schedule, connections, exchanging, outside, mailed, receipts>>

CompleteReschedule(old, new) ==
  /\ CanSwap(old, new)
  /\ events' = Published(new)
  /\ bindings' = MarkSynced(new)
  /\ appointments' =
       [appointments EXCEPT ![old].status = "CANCELLED", ![new].status = "CONFIRMED"]
  /\ requests' = SetRequest(Request(old), "BOOKED")
  /\ notifications' = Enqueued(Suppressed(old), new, "RESCHEDULED")
  /\ rescheduled' = rescheduled \cup {new}
  /\ moves' = moves \ {<<old, new>>}
  /\ UNCHANGED <<now, schedule, connections, exchanging, outside, mailed, receipts>>

RescheduleLost(old, new) ==
  /\ CanSwap(old, new)
  /\ events' = Published(new)
  /\ moves' = moves \ {<<old, new>>}
  /\ UNCHANGED <<dataVars, connections, exchanging, bindings, outside, mailVars>>

\* Refused, already done by another call, or the process stops between the transactions.
AbandonReschedule(old, new) ==
  /\ <<old, new>> \in moves
  /\ moves' = moves \ {<<old, new>>}
  /\ UNCHANGED <<dataVars, calendarVars, mailVars>>

----------------------------------------------------------------------------
Tick ==
  /\ now < MaxTime
  /\ now' = now + 1
  /\ UNCHANGED <<schedule, requests, appointments, rescheduled, calendarVars, mailVars, moves>>
=============================================================================
