------------------------ MODULE BookingCalendar_proofs ------------------------
(***************************************************************************)
(* Proofs about the calendars of BookingSystem: what is tied to which      *)
(* calendar, when a calendar may be given up or exchanged, which events    *)
(* the program deletes, and what a confirmation leaves at Google.          *)
(***************************************************************************)
EXTENDS BookingSystem_proofs

----------------------------------------------------------------------------
(* What a step does to connections, bindings and events. *)

CalendarsUnchanged == UNCHANGED <<connections, bindings, events>>

\* One booking is reconciled, by its job or by the delivery of a message about it.
Reconciled(k) ==
  /\ k \in DOMAIN bindings
  /\ ReconcileBooking(k) \/ Verified(k)
  /\ now' = now

\* The event of a live hold is written; the rest of the handler may be rolled back.
EventWritten(k, replaced) ==
  /\ k \in DOMAIN appointments
  /\ LiveHold(k)
  /\ CanPublish(k, replaced)
  /\ \A old \in replaced : old \in DOMAIN appointments /\ Request(old) = Request(k)
  /\ events' = Published(k)
  /\ bindings' \in {bindings, MarkSynced(k)}
  /\ now' = now
  /\ UNCHANGED connections
  /\ k \in Confirmed' => bindings' = MarkSynced(k)

\* A handler of the scheduling service.
HandlerStep ==
  \/ \E k \in Keys, r \in Requests, s \in Slots, replaced \in SUBSET Keys :
       HoldPlaced(k, r, s, replaced)
  \/ \E k \in Keys, replaced \in SUBSET Keys : EventWritten(k, replaced)

\* A connection is made, lost or given up.
ConnectionStep ==
  \/ \E team \in Teams : ReconcileConnectionJob(team) \/ Disconnect(team)
  \/ \E x \in exchanging : FinishConnect(x)

\* Somebody edits the event of an appointment.
EventEdited ==
  \E k \in Keys : PersonTogglesEvent(k) \/ \E s \in Slots : PersonMoves(k, s)

CalendarKind ==
  \/ CalendarsUnchanged
  \/ \E k \in Keys : Reconciled(k) \/ ReconcileBookingLost(k)
  \/ HandlerStep
  \/ ConnectionStep
  \/ EventEdited

\* Confirmation, also when it is rolled back after the event was written.
LEMMA ConfirmWrites ==
  ASSUME DataTypeOK, NEW k, Confirm(k) \/ ConfirmLost(k)
  PROVE  EventWritten(k, {})
<1>1. /\ k \in DOMAIN appointments /\ LiveHold(k) /\ CanPublish(k, {})
      /\ events' = Published(k) /\ UNCHANGED <<now, connections>>
  BY DEF Confirm, ConfirmLost, CanConfirm, dataVars
<1>2. bindings' \in {bindings, MarkSynced(k)}
  BY DEF Confirm, ConfirmLost
<1>3. k \in Confirmed' => bindings' = MarkSynced(k)
  BY <1>1 DEF Confirm, ConfirmLost, dataVars, LiveHold, Confirmed
<1> QED
  BY <1>1, <1>2, <1>3 DEF EventWritten

\* The second transaction of a reschedule likewise.
LEMMA SwapWrites ==
  ASSUME DataTypeOK, MovesOK, NEW old, NEW new,
         CompleteReschedule(old, new) \/ RescheduleLost(old, new)
  PROVE  EventWritten(new, {old})
<1>1. /\ new \in DOMAIN appointments /\ LiveHold(new) /\ CanPublish(new, {old})
      /\ old \in DOMAIN appointments /\ Request(old) = Request(new)
      /\ events' = Published(new) /\ UNCHANGED <<now, connections>>
  BY DEF CompleteReschedule, RescheduleLost, CanSwap, MovesOK, dataVars
<1>2. bindings' \in {bindings, MarkSynced(new)}
  BY DEF CompleteReschedule, RescheduleLost
<1>3. new \in Confirmed' => bindings' = MarkSynced(new)
  BY <1>1 DEF CompleteReschedule, RescheduleLost, dataVars, LiveHold, Confirmed
<1> QED
  BY <1>1, <1>2, <1>3 DEF EventWritten

\* The scheduling service.
LEMMA ServiceCalendar ==
  ASSUME DataTypeOK, ServiceStep
  PROVE  CalendarKind
<1>1. ASSUME NEW r \in Requests, NEW k \in Keys, NEW s \in Slots, Reserve(k, r, s)
      PROVE  HandlerStep
  BY <1>1 DEF Reserve, HandlerStep, HoldPlaced
<1>2. ASSUME NEW k \in Keys, Confirm(k) \/ ConfirmLost(k) PROVE HandlerStep
  BY <1>2, ConfirmWrites DEF HandlerStep
<1>3. CASE CalendarsUnchanged
  BY <1>3 DEF CalendarKind
<1> QED
  BY <1>1, <1>2, <1>3
  DEF ServiceStep, Configure, CreateRequest, FlagHazard, ReleaseHold, Cancel,
      calendarVars, CalendarsUnchanged, CalendarKind

\* Reschedules.
LEMMA RescheduleCalendar ==
  ASSUME DataTypeOK, MovesOK, RescheduleStep
  PROVE  CalendarKind
<1>1. ASSUME NEW old \in Keys, NEW new \in Keys, NEW s \in Slots, BeginReschedule(old, new, s)
      PROVE  HandlerStep
  <2>1. old \in DOMAIN appointments /\ Request(old) \in Requests
    BY <1>1 DEF BeginReschedule, MayMove, Request, DataTypeOK, Appointment
  <2> QED
    BY <1>1, <2>1 DEF BeginReschedule, HandlerStep, HoldPlaced
<1>2. ASSUME NEW old \in Keys, NEW new \in Keys,
             CompleteReschedule(old, new) \/ RescheduleLost(old, new)
      PROVE  HandlerStep
  BY <1>2, SwapWrites DEF HandlerStep
<1>3. CASE CalendarsUnchanged
  BY <1>3 DEF CalendarKind
<1> QED
  BY <1>1, <1>2, <1>3
  DEF RescheduleStep, ResumeReschedule, AbandonReschedule, calendarVars, CalendarsUnchanged,
      CalendarKind

\* Deliveries.
LEMMA DeliveryCalendar ==
  ASSUME DeliveryStep
  PROVE  CalendarKind
<1>1. PICK n \in Notice :
        \/ SkipObsolete(n) \/ PostponeDelivery(n) \/ SkipReminder(n) \/ GiveUp(n)
        \/ StampFirstAttempt(n)
        \/ SendAccepted(n) \/ SendRejected(n) \/ SendAnswerLost(n) \/ SendCrashed(n)
        \/ ApplyReports(n)
        \/ \E status \in Reports : ReceiveReport(n, status)
  BY DEF DeliveryStep
<1>2. n.key \in Keys
  BY DEF Notice
<1>3. CASE CalendarsUnchanged
  BY <1>3 DEF CalendarKind
<1>4. CASE UNCHANGED othersOfDelivery /\ CalendarInOrder(n)
  BY <1>2, <1>3, <1>4
  DEF CalendarInOrder, othersOfDelivery, Reconciled, CalendarsUnchanged, CalendarKind
<1>5. CASE PostponeDelivery(n)
  BY <1>2, <1>5 DEF PostponeDelivery, othersOfDelivery, Reconciled, CalendarKind
<1>6. CASE SkipObsolete(n) \/ SendCrashed(n) \/ ApplyReports(n)
             \/ \E status \in Reports : ReceiveReport(n, status)
  BY <1>3, <1>6
  DEF SkipObsolete, SendCrashed, ApplyReports, ReceiveReport, calendarVars, CalendarsUnchanged
<1>7. CASE SkipReminder(n) \/ GiveUp(n) \/ StampFirstAttempt(n)
             \/ SendAccepted(n) \/ SendRejected(n) \/ SendAnswerLost(n)
  BY <1>4, <1>7
  DEF SkipReminder, GiveUp, StampFirstAttempt, SendAccepted, SendRejected, SendAnswerLost
<1> QED
  BY <1>1, <1>5, <1>6, <1>7

\* Every step is of one of these kinds.
LEMMA CalendarKinds ==
  ASSUME DataTypeOK, MovesOK, [Next]_vars
  PROVE  CalendarKind
<1>1. CASE CalendarsUnchanged
  BY <1>1 DEF CalendarKind
<1>2. CASE CalendarStep
  <2>1. ASSUME NEW k \in Keys, ReconcileBookingJob(k) PROVE Reconciled(k)
    BY <2>1 DEF ReconcileBookingJob, othersOfReconcile, Reconciled
  <2> QED
    BY <1>1, <1>2, <2>1
    DEF CalendarStep, BeginConnect, AbandonConnect, CalendarsUnchanged, CalendarKind,
        ConnectionStep
<1>3. CASE PersonStep
  BY <1>1, <1>3 DEF PersonStep, PersonTogglesBusy, CalendarsUnchanged, CalendarKind, EventEdited
<1>4. CASE Tick \/ UNCHANGED vars
  BY <1>1, <1>4 DEF Tick, vars, calendarVars, CalendarsUnchanged
<1> QED
  BY <1>2, <1>3, <1>4, ServiceCalendar, RescheduleCalendar, DeliveryCalendar DEF Next

----------------------------------------------------------------------------
(* The effects on one row. *)

\* What may become of the connection of a team.
ConnectionEffect(team) ==
  \/ team \in DOMAIN connections /\ connections'[team] = connections[team]
  \/ /\ team \in DOMAIN connections
     /\ connections'[team] = [connections[team] EXCEPT !.status = "REAUTH_REQUIRED"]
  \/ Disconnect(team)
  \/ \E x \in exchanging : FinishConnect(x) /\ x.team = team

\* Connections are never removed.
LEMMA ConnectionEffects ==
  ASSUME CalendarInv, CalendarKind
  PROVE  /\ DOMAIN connections \subseteq DOMAIN connections'
         /\ \A team \in DOMAIN connections' : ConnectionEffect(team)
<1> DEFINE Goal == /\ DOMAIN connections \subseteq DOMAIN connections'
                   /\ \A team \in DOMAIN connections' : ConnectionEffect(team)
<1>1. connections \in [DOMAIN connections -> Connection]
  BY DEF CalendarInv, CalendarTypeOK
<1>2. CASE UNCHANGED connections
  BY <1>2 DEF ConnectionEffect
<1>3. ASSUME NEW team, Unauthorized(team) PROVE Goal
  BY <1>1, <1>3 DEF Unauthorized, ConnectionEffect, Connection
<1>4. ASSUME NEW k \in Keys, Reconciled(k) PROVE Goal
  BY <1>2, <1>3, <1>4
  DEF Reconciled, ReconcileBooking, CleanedUp, Verified, NeedsAttention
<1>5. ASSUME NEW team \in Teams, Disconnect(team) PROVE Goal
  BY <1>1, <1>5 DEF Disconnect, ConnectionEffect, Connection
<1>6. ASSUME NEW x \in exchanging, FinishConnect(x) PROVE Goal
  BY <1>1, <1>6 DEF FinishConnect, Write, ConnectionEffect
<1>7. CASE CalendarsUnchanged \/ EventEdited \/ \E k \in Keys : ReconcileBookingLost(k)
  BY <1>2, <1>7
  DEF CalendarsUnchanged, EventEdited, PersonMoves, PersonTogglesEvent, ReconcileBookingLost
<1>8. CASE HandlerStep
  BY <1>2, <1>8 DEF HandlerStep, HoldPlaced, PlaceHold, EventWritten
<1> QED
  BY <1>3, <1>4, <1>5, <1>6, <1>7, <1>8
  DEF CalendarKind, ConnectionStep, ReconcileConnectionJob

\* What may become of the binding of an appointment.
BindingEffect(k) ==
  \/ bindings'[k] = bindings[k]
  \/ bindings'[k] = "COMPLETED" /\ BookingEnded(k)
  \/ bindings'[k] = "CANCELLED" /\ CleanedUp(k) /\ now' = now
  \/ bindings'[k] = "SYNCED" /\ Verified(k)
  \/ bindings'[k] = "SYNCED" /\ \E replaced : EventWritten(k, replaced)
  \/ bindings'[k] = "ATTENTION" /\ NeedsAttention(k) /\ ~BookingEnded(k)

\* A binding comes with the hold.
Tied(k) ==
  /\ bindings'[k] = "PENDING"
  /\ \E r \in Requests, s \in Slots, replaced \in SUBSET Keys :
       HoldPlaced(k, r, s, replaced) /\ HasConnection(s.team)

\* Bindings are never removed.
LEMMA BindingEffects ==
  ASSUME CalendarInv, CalendarKind
  PROVE  /\ DOMAIN bindings \subseteq DOMAIN bindings'
         /\ \A k \in DOMAIN bindings : BindingEffect(k)
         /\ \A k \in DOMAIN bindings' : k \in DOMAIN bindings \/ Tied(k)
<1> DEFINE Goal == /\ DOMAIN bindings \subseteq DOMAIN bindings'
                   /\ \A k \in DOMAIN bindings : BindingEffect(k)
                   /\ \A k \in DOMAIN bindings' : k \in DOMAIN bindings \/ Tied(k)
<1>1. bindings \in [DOMAIN bindings -> BindingStatus]
  BY DEF CalendarInv, CalendarTypeOK
<1>2. CASE UNCHANGED bindings
  BY <1>2 DEF BindingEffect
<1>3. ASSUME NEW k \in Keys, Reconciled(k) PROVE Goal
  BY <1>1, <1>2, <1>3
  DEF Reconciled, ReconcileBooking, CleanedUp, Verified, NeedsAttention, Unauthorized,
      BindingEffect
<1>4. ASSUME NEW k \in Keys, NEW r \in Requests, NEW s \in Slots,
             NEW replaced \in SUBSET Keys, HoldPlaced(k, r, s, replaced)
      PROVE  Goal
  <2>1. k \notin DOMAIN bindings /\ bindings' = Bound(k, s)
    BY <1>4 DEF HoldPlaced, PlaceHold, CalendarInv, CalendarTypeOK
  <2> QED
    BY <1>2, <1>4, <2>1 DEF Bound, Write, BindingEffect, Tied
<1>5. ASSUME NEW k \in Keys, NEW replaced \in SUBSET Keys, EventWritten(k, replaced)
      PROVE  Goal
  BY <1>1, <1>2, <1>5 DEF EventWritten, MarkSynced, BindingEffect
<1>6. CASE CalendarsUnchanged \/ EventEdited \/ \E k \in Keys : ReconcileBookingLost(k)
  BY <1>2, <1>6
  DEF CalendarsUnchanged, EventEdited, PersonMoves, PersonTogglesEvent, ReconcileBookingLost
<1>7. CASE ConnectionStep
  BY <1>2, <1>7
  DEF ConnectionStep, ReconcileConnectionJob, Unauthorized, Disconnect, FinishConnect
<1> QED
  BY <1>3, <1>4, <1>5, <1>6, <1>7 DEF CalendarKind, HandlerStep

\* What may become of the event of an appointment.
EventEffect(k) ==
  \/ /\ k \in DOMAIN events
     /\ events'[k].calendar = events[k].calendar
     /\ events[k].live => \/ events'[k].live
                          \/ PersonTogglesEvent(k)
                          \/ Intact(k) /\ CleanedUp(k) /\ now' = now
                          \/ Intact(k) /\ ReconcileBookingLost(k)
  \/ \E replaced : EventWritten(k, replaced) /\ k \in DOMAIN bindings

\* Reconciling one booking removes its event at most.
LEMMA ReconciledEvents ==
  ASSUME CalendarInv, NEW k, Reconciled(k)
  PROVE  /\ DOMAIN events' = DOMAIN events
         /\ \A j \in DOMAIN events : EventEffect(j)
<1>1. events \in [DOMAIN events -> Event]
  BY DEF CalendarInv, CalendarTypeOK
<1>2. CASE UNCHANGED events
  BY <1>2 DEF EventEffect
<1>3. CASE CleanedUp(k) /\ EventLive(k)
  BY <1>1, <1>3 DEF Reconciled, CleanedUp, EventRemoved, EventEffect, Event
<1>4. CASE CleanedUp(k) /\ ~EventLive(k)
  BY <1>2, <1>4 DEF CleanedUp, EventRemoved
<1> QED
  BY <1>2, <1>3, <1>4
  DEF Reconciled, ReconcileBooking, Verified, NeedsAttention, Unauthorized

\* Events are never forgotten, and change calendar only by being written.
LEMMA EventEffects ==
  ASSUME CalendarInv, CalendarKind
  PROVE  /\ DOMAIN events \subseteq DOMAIN events'
         /\ \A k \in DOMAIN events' : EventEffect(k)
<1> DEFINE Goal == /\ DOMAIN events \subseteq DOMAIN events'
                   /\ \A k \in DOMAIN events' : EventEffect(k)
<1>1. events \in [DOMAIN events -> Event]
  BY DEF CalendarInv, CalendarTypeOK
<1>2. CASE UNCHANGED events
  BY <1>2 DEF EventEffect
<1>3. ASSUME NEW k \in Keys, ReconcileBookingLost(k) PROVE Goal
  <2>1. Intact(k) /\ EventLive(k) /\ events' = [events EXCEPT ![k].live = FALSE]
    BY <1>3 DEF ReconcileBookingLost, EventRemoved, Intact
  <2> QED
    BY <1>1, <1>3, <2>1 DEF EventEffect, Event
<1>4. ASSUME NEW k \in Keys, NEW replaced \in SUBSET Keys, EventWritten(k, replaced)
      PROVE  Goal
  <2>1. k \notin DOMAIN bindings => Goal
    BY <1>2, <1>4 DEF EventWritten, Published
  <2>2. k \in DOMAIN bindings => Goal
    BY <1>4 DEF EventWritten, Published, Write, EventEffect
  <2> QED
    BY <2>1, <2>2
<1>5. ASSUME NEW k \in Keys, NEW s \in Slots, PersonMoves(k, s) PROVE Goal
  BY <1>1, <1>5 DEF PersonMoves, EventEffect, Event
<1>6. ASSUME NEW k \in Keys, PersonTogglesEvent(k) PROVE Goal
  BY <1>1, <1>6 DEF PersonTogglesEvent, EventEffect, Event
<1>7. CASE CalendarsUnchanged \/ ConnectionStep
  BY <1>2, <1>7
  DEF CalendarsUnchanged, ConnectionStep, ReconcileConnectionJob, Unauthorized, Disconnect,
      FinishConnect
<1>8. ASSUME NEW k \in Keys, NEW r \in Requests, NEW s \in Slots,
             NEW replaced \in SUBSET Keys, HoldPlaced(k, r, s, replaced)
      PROVE  Goal
  BY <1>2, <1>8 DEF HoldPlaced, PlaceHold
<1> QED
  BY <1>3, <1>4, <1>5, <1>6, <1>7, <1>8, ReconciledEvents
  DEF CalendarKind, HandlerStep, EventEdited

----------------------------------------------------------------------------
(* The inductive invariant. *)

\* A binding is final for a reason.  Without this an event could be looked for again after
\* its calendar was given up.
FinalIsFinal ==
  \A k \in DOMAIN bindings :
    /\ bindings[k] = "CANCELLED" => appointments[k].status \in {"CANCELLED", "EXPIRED"}
    /\ bindings[k] = "COMPLETED" => appointments[k].slot.end <= now

BindingsInv == BookingsAreBound /\ DisconnectedIsDone /\ EventsCanBeFound /\ FinalIsFinal

\* What the steps of the proof start from.
StepFacts ==
  /\ DataTypeOK /\ DataTypeOK' /\ MovesOK /\ SchedulingTypeOK /\ CalendarInv /\ CalendarInv'
  /\ CalendarKind
  /\ now \in Nat /\ now' \in Nat /\ now' >= now
  /\ \A k \in DOMAIN appointments : RowStays(k)

\* They hold for every step.
LEMMA StepFactsHold ==
  ASSUME TypeInv, TypeInv', [Next]_vars
  PROVE  StepFacts
<1>1. DataTypeOK /\ DataTypeOK' /\ MovesOK /\ SchedulingTypeOK /\ CalendarInv /\ CalendarInv'
  BY DEF TypeInv, MovesOK, SchedulingTypeOK
<1>2. now \in Nat /\ now' \in Nat
  BY <1>1, TimeAssumption DEF DataTypeOK
<1> QED
  BY <1>1, <1>2, CalendarKinds, ClockRuns, RowsStay DEF StepFacts

\* The times of a slot are numbers.
LEMMA SlotTimes ==
  ASSUME DataTypeOK, NEW k \in DOMAIN appointments
  PROVE  appointments[k].slot.start \in Nat /\ appointments[k].slot.end \in Nat
BY SlotsAssumption DEF DataTypeOK, Appointment, SlotType

\* A closed binding stays true: what has ended has ended, and time goes on.
LEMMA FinalStep ==
  ASSUME StepFacts, FinalIsFinal, [Next]_vars
  PROVE  FinalIsFinal'
<1>0. DataTypeOK /\ SchedulingTypeOK /\ CalendarInv /\ CalendarKind
  BY DEF StepFacts
<1> SUFFICES ASSUME NEW k \in DOMAIN bindings'
             PROVE  /\ bindings'[k] = "CANCELLED" =>
                         appointments'[k].status \in {"CANCELLED", "EXPIRED"}
                    /\ bindings'[k] = "COMPLETED" => appointments'[k].slot.end <= now'
  BY DEF FinalIsFinal
<1>1. CASE Tied(k)
  BY <1>1 DEF Tied
<1>2. CASE k \in DOMAIN bindings
  <2>1. k \in DOMAIN appointments /\ appointments'[k].slot = appointments[k].slot
    BY <1>0, <1>2 DEF StepFacts, CalendarInv, CalendarTypeOK, RowStays
  <2>2. appointments[k].slot.end \in Nat /\ now \in Nat /\ now' \in Nat /\ now' >= now
    BY <1>0, <2>1, SlotTimes DEF StepFacts
  <2>3. BindingEffect(k)
    BY <1>0, <1>2, BindingEffects
  <2>4. CASE bindings'[k] = bindings[k]
    <3>1. bindings'[k] = "CANCELLED" => appointments'[k].status \in {"CANCELLED", "EXPIRED"}
      BY <1>0, <1>2, <2>1, <2>4, EndedStays DEF FinalIsFinal
    <3>2. bindings'[k] = "COMPLETED" => appointments[k].slot.end <= now
      BY <1>2, <2>4 DEF FinalIsFinal
    <3> QED
      BY <2>1, <2>2, <3>1, <3>2
  <2>5. CASE bindings'[k] = "COMPLETED" /\ BookingEnded(k)
    BY <2>1, <2>2, <2>5 DEF BookingEnded
  <2>6. CASE bindings'[k] = "CANCELLED" /\ CleanedUp(k)
    <3>1. appointments'[k].status \in {"CANCELLED", "EXPIRED"}
      BY <1>0, <2>1, <2>6 DEF CleanedUp, NeedsCleanup, SetStatus, DataTypeOK, Appointment
    <3> QED
      BY <2>6, <3>1
  <2>7. CASE bindings'[k] \in {"SYNCED", "ATTENTION"}
    BY <2>7
  <2> QED
    BY <2>3, <2>4, <2>5, <2>6, <2>7 DEF BindingEffect
<1> QED
  BY <1>0, <1>1, <1>2, BindingEffects

\* The first connection of a team is refused while the team has a booking to come, and every
\* later hold is tied.
LEMMA BoundStep ==
  ASSUME StepFacts, BookingInv, BookingsAreBound, [Next]_vars
  PROVE  BookingsAreBound'
<1>0. /\ DataTypeOK /\ DataTypeOK' /\ SchedulingTypeOK /\ CalendarInv /\ CalendarKind
      /\ now \in Nat /\ now' \in Nat /\ now' >= now
  BY DEF StepFacts
<1> SUFFICES ASSUME NEW k \in Busy', HasConnection(Team(k))', appointments'[k].slot.end > now'
             PROVE  k \in DOMAIN bindings'
  BY DEF BookingsAreBound
<1>1. CASE k \in Busy
  <2>1. k \in DOMAIN appointments /\ appointments'[k].slot = appointments[k].slot
    BY <1>1 DEF StepFacts, Busy, RowStays
  <2>2. appointments[k].slot.end > now
    BY <1>0, <2>1, SlotTimes
  <2>3. Team(k)' = Team(k) /\ Team(k) \in DOMAIN connections'
    BY <2>1 DEF Team, HasConnection
  <2>4. CASE HasConnection(Team(k))
    BY <1>0, <1>1, <2>2, <2>4, BindingEffects DEF BookingsAreBound
  <2>5. CASE ~HasConnection(Team(k))
    <3>1. PICK x \in exchanging : FinishConnect(x) /\ x.team = Team(k)
      BY <1>0, <2>3, <2>5, ConnectionEffects DEF ConnectionEffect, HasConnection, Disconnect
    <3>2. CalendarInUse(x.team)
      BY <1>1, <2>1, <2>2, <3>1 DEF CalendarInUse, Busy
    <3> QED
      BY <2>5, <3>1, <3>2 DEF FinishConnect
  <2> QED
    BY <2>4, <2>5
<1>2. CASE k \notin Busy
  <2>1. k \notin DOMAIN appointments
    BY <1>0, <1>2, HoldsDoNotReviveStep
  <2>2. k \in DOMAIN appointments'
    BY DEF Busy
  <2>3. PICK j \in Keys, r \in Requests, s \in Slots, replaced \in SUBSET Keys :
          HoldPlaced(j, r, s, replaced)
    <3>1. CASE Quiet
      BY <2>1, <2>2, <3>1 DEF Quiet, HoldsEnd
    <3>2. ASSUME NEW j \in Keys, Confirm(j) \/ Cancel(j) PROVE FALSE
      BY <1>0, <2>1, <2>2, <3>2, BusyWhenConfirmed, BusyWhenCancelled
    <3>3. ASSUME NEW old \in Keys, NEW new \in Keys, CompleteReschedule(old, new) PROVE FALSE
      BY <1>0, <2>1, <2>2, <3>3, BusyWhenSwapped
    <3> QED
      BY <1>0, <3>1, <3>2, <3>3, StepKinds DEF Booking
  <2>4. k = j /\ appointments'[k].slot = s
    BY <1>0, <2>1, <2>2, <2>3, BusyWhenPlaced
  <2>5. bindings' = Bound(k, s) /\ UNCHANGED connections
    BY <2>3, <2>4 DEF HoldPlaced, PlaceHold
  <2>6. HasConnection(s.team)
    BY <2>4, <2>5 DEF HasConnection, Team
  <2> QED
    BY <2>5, <2>6 DEF Bound, Write
<1> QED
  BY <1>1, <1>2

\* A calendar that is given up has no work left, and none comes: whatever reopens a binding
\* needs the calendar.
LEMMA DisconnectedStep ==
  ASSUME StepFacts, DisconnectedIsDone, [Next]_vars
  PROVE  DisconnectedIsDone'
<1>0. CalendarInv /\ CalendarKind
  BY DEF StepFacts
<1> SUFFICES ASSUME NEW k \in DOMAIN bindings',
                    connections'[Team(k)'].status = "DISCONNECTED"
             PROVE  bindings'[k] \in Final
  BY DEF DisconnectedIsDone
<1>1. CASE k \in DOMAIN bindings
  <2>1. k \in DOMAIN appointments /\ Team(k)' = Team(k)
    BY <1>0, <1>1 DEF StepFacts, CalendarInv, CalendarTypeOK, RowStays, Team
  <2>2. Team(k) \in DOMAIN connections
    BY <1>0, <1>1 DEF CalendarInv, BoundTeams, HasConnection
  <2>3. ConnectionEffect(Team(k))
    BY <1>0, <2>2, ConnectionEffects
  <2>4. CASE connections'[Team(k)] = connections[Team(k)]
    <3>1. bindings[k] \in Final /\ ~Reachable(Team(k))
      BY <1>1, <2>1, <2>4 DEF DisconnectedIsDone, Reachable
    <3>2. BindingEffect(k)
      BY <1>0, <1>1, BindingEffects
    <3>3. \A replaced : ~EventWritten(k, replaced)
      BY <1>1, <3>1 DEF EventWritten, CanPublish
    <3> QED
      BY <3>1, <3>2, <3>3 DEF BindingEffect, Verified, NeedsAttention, Final
  <2>5. CASE connections'[Team(k)] = [connections[Team(k)] EXCEPT !.status = "REAUTH_REQUIRED"]
    <3>1. connections[Team(k)] \in Connection
      BY <1>0, <2>2 DEF CalendarInv, CalendarTypeOK
    <3> QED
      BY <2>1, <2>5, <3>1 DEF Connection
  <2>6. CASE Disconnect(Team(k))
    BY <1>1, <2>6 DEF Disconnect
  <2>7. ASSUME NEW x \in exchanging, FinishConnect(x), x.team = Team(k)
        PROVE  FALSE
    BY <2>1, <2>7 DEF FinishConnect, Write
  <2> QED
    BY <2>3, <2>4, <2>5, <2>6, <2>7 DEF ConnectionEffect
<1>2. CASE k \notin DOMAIN bindings
  <2>1. PICK r \in Requests, s \in Slots, replaced \in SUBSET Keys :
          HoldPlaced(k, r, s, replaced) /\ HasConnection(s.team)
    BY <1>0, <1>2, BindingEffects DEF Tied
  <2>2. Team(k)' = s.team /\ UNCHANGED connections /\ Reachable(s.team)
    BY <2>1 DEF HoldPlaced, PlaceHold, ExternalSlotFree, Write, Team
  <2> QED
    BY <2>2 DEF Reachable
<1> QED
  BY <1>1, <1>2

\* A connection moves to another calendar only when no binding of its team has work left.
LEMMA CalendarStays ==
  ASSUME StepFacts, NEW k \in DOMAIN bindings
  PROVE  /\ k \in DOMAIN appointments
         /\ Team(k)' = Team(k)
         /\ bindings[k] \notin Final => Calendar(k)' = Calendar(k)
         /\ UNCHANGED connections => Calendar(k)' = Calendar(k)
<1>0. CalendarInv /\ CalendarKind
  BY DEF StepFacts
<1>1. k \in DOMAIN appointments /\ Team(k)' = Team(k)
  BY <1>0 DEF StepFacts, CalendarInv, CalendarTypeOK, RowStays, Team
<1>2. Team(k) \in DOMAIN connections /\ connections[Team(k)] \in Connection
  BY <1>0 DEF CalendarInv, CalendarTypeOK, BoundTeams, HasConnection
<1>3. ConnectionEffect(Team(k))
  BY <1>0, <1>2, ConnectionEffects
<1>4. ASSUME bindings[k] \notin Final
      PROVE  connections'[Team(k)].calendar = connections[Team(k)].calendar
  <2>1. CASE Disconnect(Team(k))
    BY <1>4, <2>1 DEF Disconnect
  <2>2. ASSUME NEW x \in exchanging, FinishConnect(x), x.team = Team(k)
        PROVE  connections'[Team(k)].calendar = connections[Team(k)].calendar
    <3>1. CalendarInUse(x.team)
      BY <1>2, <1>4, <2>2 DEF CalendarInUse, HasConnection
    <3> QED
      BY <2>2, <3>1 DEF FinishConnect, Write
  <2>3. CASE connections'[Team(k)] = [connections[Team(k)] EXCEPT !.status = "REAUTH_REQUIRED"]
    BY <1>2, <2>3 DEF Connection
  <2> QED
    BY <1>3, <2>1, <2>2, <2>3 DEF ConnectionEffect
<1> QED
  BY <1>1, <1>4 DEF Calendar

\* The event of a binding with work left stays where the clean-up will look for it.
LEMMA EventsStep ==
  ASSUME StepFacts, EventsCanBeFound, FinalIsFinal, [Next]_vars
  PROVE  EventsCanBeFound'
<1>0. DataTypeOK /\ CalendarInv /\ CalendarKind /\ now \in Nat
  BY DEF StepFacts
<1> SUFFICES ASSUME NEW k \in DOMAIN events'
             PROVE  /\ k \in DOMAIN bindings'
                    /\ bindings'[k] \notin Final => events'[k].calendar = Calendar(k)'
  BY DEF EventsCanBeFound
<1>1. k \in DOMAIN bindings /\ EventEffect(k) /\ BindingEffect(k)
  BY <1>0, EventEffects, BindingEffects DEF EventEffect, EventsCanBeFound
<1>2. k \in DOMAIN bindings'
  BY <1>0, <1>1, BindingEffects
<1>3. ASSUME NEW replaced, EventWritten(k, replaced)
      PROVE  events'[k].calendar = Calendar(k)'
  BY <1>1, <1>3, CalendarStays DEF EventWritten, Published, Write
<1>4. ASSUME k \in DOMAIN events, events'[k].calendar = events[k].calendar,
             bindings'[k] \notin Final
      PROVE  events'[k].calendar = Calendar(k)'
  <2>1. bindings[k] \notin Final => events'[k].calendar = Calendar(k)'
    BY <1>1, <1>4, CalendarStays DEF EventsCanBeFound
  <2>2. CASE bindings'[k] = bindings[k]
    BY <1>4, <2>1, <2>2
  <2>3. CASE bindings'[k] \in {"COMPLETED", "CANCELLED"}
    BY <1>4, <2>3 DEF Final
  <2>4. CASE Verified(k)
    <3>1. events[k].calendar = Calendar(k) /\ UNCHANGED connections
      BY <2>4 DEF Verified, BookingInOrder, Intact, EventLive, EventFound
    <3> QED
      BY <1>1, <1>4, <3>1, CalendarStays
  <2>5. CASE NeedsAttention(k) /\ ~BookingEnded(k)
    <3>1. UNCHANGED connections
      BY <2>5 DEF NeedsAttention
    <3>2. CASE EventLive(k)
      BY <1>1, <1>4, <3>1, <3>2, CalendarStays DEF EventLive, EventFound
    <3>3. CASE appointments[k].status = "CONFIRMED"
      <4>1. k \in DOMAIN appointments
        BY <1>1, CalendarStays
      <4>2. ~(appointments[k].slot.end <= now)
        BY <2>5, <3>3 DEF BookingEnded
      <4>3. bindings[k] \notin Final
        BY <1>1, <3>3, <4>2 DEF FinalIsFinal, Final
      <4> QED
        BY <2>1, <4>3
    <3> QED
      BY <2>5, <3>2, <3>3 DEF NeedsAttention
  <2>6. ASSUME NEW replaced, EventWritten(k, replaced)
        PROVE  events'[k].calendar = Calendar(k)'
    BY <1>3, <2>6
  <2> QED
    BY <1>1, <2>2, <2>3, <2>4, <2>5, <2>6 DEF BindingEffect
<1> QED
  BY <1>1, <1>2, <1>3, <1>4 DEF EventEffect

\* The invariant is inductive, together with what keeps appointments from reviving.
LEMMA BindingsInvariant == Spec => []BindingsInv
<1>1. Init => BindingsInv
  BY DEF Init, DataInit, CalendarInit, NoRows, BindingsInv, BookingsAreBound,
         DisconnectedIsDone, EventsCanBeFound, FinalIsFinal, Busy
<1>2. TypeInv /\ TypeInv' /\ BookingInv /\ BindingsInv /\ [Next]_vars => BindingsInv'
  BY StepFactsHold, FinalStep, BoundStep, DisconnectedStep, EventsStep DEF BindingsInv
<1> QED
  BY <1>1, <1>2, TypeInvariant, BookingInvariant, PTL DEF Spec

\* A booking to come of a team with a calendar is tied to it.
THEOREM BookingsAreAlwaysBound == Spec => []BookingsAreBound
<1>1. BindingsInv => BookingsAreBound
  BY DEF BindingsInv
<1> QED
  BY <1>1, BindingsInvariant, PTL

\* A calendar is given up only when nothing in it is left to do.
THEOREM DisconnectedMeansDone == Spec => []DisconnectedIsDone
<1>1. BindingsInv => DisconnectedIsDone
  BY DEF BindingsInv
<1> QED
  BY <1>1, BindingsInvariant, PTL

\* The event of an appointment is where the program looks for it, as long as it has to.
THEOREM EventsAreWhereTheyAreLookedFor == Spec => []EventsCanBeFound
<1>1. BindingsInv => EventsCanBeFound
  BY DEF BindingsInv
<1> QED
  BY <1>1, BindingsInvariant, PTL

----------------------------------------------------------------------------
(* What a step may never do to a calendar. *)

\* Cleaning up closes the binding and leaves no event.
LEMMA CleanedUpCloses ==
  ASSUME StepFacts, NEW k \in DOMAIN bindings, CleanedUp(k), now' = now
  PROVE  ~EventLive(k)' /\ k \notin Busy'
<1>0. DataTypeOK /\ CalendarInv
  BY DEF StepFacts
<1>1. k \in DOMAIN appointments /\ Calendar(k)' = Calendar(k)
  BY CalendarStays DEF CleanedUp
<1>2. k \notin Busy'
  <2>1. appointments'[k].status \in {"CANCELLED", "EXPIRED"}
    BY <1>0, <1>1 DEF CleanedUp, NeedsCleanup, SetStatus, DataTypeOK, Appointment
  <2> QED
    BY <2>1 DEF Busy, LiveHold
<1>3. events \in [DOMAIN events -> Event]
  BY <1>0 DEF CalendarInv, CalendarTypeOK
<1>4. ~EventLive(k)'
  <2>1. CASE EventLive(k)
    <3>1. k \in DOMAIN events /\ events' = [events EXCEPT ![k].live = FALSE]
      BY <2>1 DEF CleanedUp, EventRemoved, EventLive, EventFound
    <3>2. events'[k].live = FALSE
      BY <1>3, <3>1 DEF Event
    <3> QED
      BY <3>2 DEF EventLive
  <2>2. CASE ~EventLive(k)
    <3>1. UNCHANGED events
      BY <2>2 DEF CleanedUp, EventRemoved
    <3> QED
      BY <1>1, <2>2, <3>1 DEF EventLive, EventFound
  <2> QED
    BY <2>1, <2>2
<1> QED
  BY <1>2, <1>4

\* A binding is closed only when its event is gone.
LEMMA ClosedStep ==
  ASSUME StepFacts, NEW k \in DOMAIN bindings,
         bindings[k] # "CANCELLED", bindings'[k] = "CANCELLED"
  PROVE  ~EventLive(k)' /\ k \notin Busy'
<1>1. BindingEffect(k)
  BY BindingEffects DEF StepFacts
<1>2. CleanedUp(k) /\ now' = now
  BY <1>1 DEF BindingEffect
<1> QED
  BY <1>2, CleanedUpCloses

\* The program deletes an event only when it is as it was written and its appointment no
\* longer occupies the team.
LEMMA DeletesStep ==
  ASSUME StepFacts, EventsCanBeFound, NEW k \in DOMAIN events,
         events[k].live, ~events'[k].live, ~PersonTogglesEvent(k)
  PROVE  k \notin Busy' /\ Intact(k)
<1>1. k \in DOMAIN events' /\ EventEffect(k)
  BY EventEffects DEF StepFacts
<1>2. k \in DOMAIN bindings
  BY DEF EventsCanBeFound
<1>3. CASE Intact(k) /\ CleanedUp(k) /\ now' = now
  BY <1>2, <1>3, CleanedUpCloses
<1>4. CASE Intact(k) /\ ReconcileBookingLost(k)
  BY <1>4 DEF ReconcileBookingLost, dataVars, NeedsCleanup, Busy, LiveHold
<1>5. ASSUME NEW replaced, EventWritten(k, replaced) PROVE FALSE
  BY <1>2, <1>5 DEF EventWritten, Published, Write
<1> QED
  BY <1>1, <1>3, <1>4, <1>5 DEF EventEffect

\* Whatever becomes confirmed is confirmed by a handler that wrote its event.
LEMMA ConfirmedByWriting ==
  ASSUME StepFacts, [Next]_vars, NEW k \in Confirmed' \ Confirmed
  PROVE  \E replaced : EventWritten(k, replaced)
<1>0. DataTypeOK /\ DataTypeOK' /\ MovesOK /\ SchedulingTypeOK
  BY DEF StepFacts
<1>1. CASE Quiet
  BY <1>0, <1>1, BusyWhenHoldsEnd DEF Quiet
<1>2. ASSUME NEW j, NEW r, NEW s, NEW replaced, HoldPlaced(j, r, s, replaced) PROVE FALSE
  BY <1>0, <1>2, BusyWhenPlaced
<1>3. ASSUME NEW j, Confirm(j) PROVE EventWritten(k, {})
  <2>1. Confirmed' = Confirmed \cup {j}
    BY <1>0, <1>3, BusyWhenConfirmed
  <2>2. k = j
    BY <2>1
  <2> QED
    BY <1>0, <1>3, <2>2, ConfirmWrites
<1>4. ASSUME NEW j, Cancel(j) PROVE FALSE
  BY <1>0, <1>4, BusyWhenCancelled
<1>5. ASSUME NEW old, NEW new, CompleteReschedule(old, new) PROVE EventWritten(k, {old})
  <2>1. Confirmed' = (Confirmed \ {old}) \cup {new}
    BY <1>0, <1>5, BusyWhenSwapped
  <2>2. k = new
    BY <2>1
  <2> QED
    BY <1>0, <1>5, <2>2, SwapWrites
<1> QED
  BY <1>0, <1>1, <1>2, <1>3, <1>4, <1>5, StepKinds DEF Booking

\* What is confirmed has its event, in a calendar with nothing else at that time but what it
\* replaces.
LEMMA ConfirmedStep ==
  ASSUME StepFacts, [Next]_vars, NEW k \in DOMAIN bindings, k \in Confirmed' \ Confirmed
  PROVE  /\ Intact(k)'
         /\ bindings'[k] = "SYNCED"
         /\ ~BusyOutside(Calendar(k), appointments[k].slot,
                         {k} \cup {j \in DOMAIN bindings : Request(j) = Request(k)})
<1>0. CalendarInv
  BY DEF StepFacts
<1>1. PICK replaced : EventWritten(k, replaced)
  BY ConfirmedByWriting
<1>2. /\ k \in DOMAIN appointments /\ appointments'[k].slot = appointments[k].slot
      /\ Calendar(k)' = Calendar(k)
  BY <1>1, CalendarStays DEF EventWritten, StepFacts, RowStays
<1>3. Intact(k)'
  <2>1. /\ k \in DOMAIN events'
        /\ events'[k] = [calendar |-> Calendar(k), slot |-> appointments[k].slot, live |-> TRUE]
    BY <1>1 DEF EventWritten, Published, Write
  <2> QED
    BY <1>2, <2>1 DEF Intact, EventLive, EventFound
<1>4. bindings'[k] = "SYNCED"
  BY <1>1 DEF EventWritten, MarkSynced
<1> DEFINE ours == {j \in replaced : j \in DOMAIN bindings /\ Team(j) = Team(k)}
           related == {j \in DOMAIN bindings : Request(j) = Request(k)}
<1>5. ~BusyOutside(Calendar(k), appointments[k].slot, {k} \cup ours)
  BY <1>1 DEF EventWritten, CanPublish
<1>6. ours \subseteq related
  BY <1>1 DEF EventWritten
<1>7. ~BusyOutside(Calendar(k), appointments[k].slot, {k} \cup related)
  <2> HIDE DEF ours, related
  <2> QED
    BY <1>5, <1>6 DEF BusyOutside
<1> QED
  BY <1>3, <1>4, <1>7

\* The binding of a dead appointment is closed only in a state in which its event is gone.
THEOREM ClosedBindingsLeaveNothing == Spec => ClosedMeansGone
<1>1. TypeInv /\ TypeInv' /\ [Next]_vars =>
        [\A k \in DOMAIN bindings :
           bindings[k] # "CANCELLED" /\ bindings'[k] = "CANCELLED" =>
             ~EventLive(k)' /\ k \notin Busy']_vars
  BY StepFactsHold, ClosedStep
<1> QED
  BY <1>1, TypeInvariant, PTL DEF Spec, ClosedMeansGone

\* The program never deletes what a person has moved, nor the event of a booking that stands.
THEOREM OnlyOwnEventsAreDeleted == Spec => DeletesOnlyItsOwn
<1>1. TypeInv /\ TypeInv' /\ BindingsInv /\ [Next]_vars =>
        [\A k \in DOMAIN events :
           events[k].live /\ ~events'[k].live /\ ~PersonTogglesEvent(k) =>
             k \notin Busy' /\ Intact(k)]_vars
  BY StepFactsHold, DeletesStep DEF BindingsInv
<1> QED
  BY <1>1, TypeInvariant, BindingsInvariant, PTL DEF Spec, DeletesOnlyItsOwn

\* An appointment becomes confirmed together with its event, in a calendar that is free.
THEOREM ConfirmedTogetherWithEvents == Spec => ConfirmedWithItsEvent
<1>1. TypeInv /\ TypeInv' /\ [Next]_vars =>
        [\A k \in DOMAIN bindings :
           k \in Confirmed' \ Confirmed =>
             Intact(k)' /\ bindings'[k] = "SYNCED"
               /\ ~BusyOutside(Calendar(k), appointments[k].slot,
                               {k} \cup {j \in DOMAIN bindings : Request(j) = Request(k)})]_vars
  BY StepFactsHold, ConfirmedStep
<1> QED
  BY <1>1, TypeInvariant, PTL DEF Spec, ConfirmedWithItsEvent
=============================================================================
