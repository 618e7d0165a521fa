---------------------------- MODULE CalendarSync ----------------------------
(***************************************************************************)
(* Google calendars of the teams: the connection rows, the binding that    *)
(* ties an appointment to the calendar of its team, and the events on      *)
(* Google's side.  hvac/calendar_sync.py, hvac/calendar.py,                *)
(* hvac/google_connection.py, hvac/integration_routes.py and the calendar  *)
(* jobs of booking_jobs.py.                                                *)
(*                                                                         *)
(* Google cannot take part in a database transaction.  An event written by *)
(* a handler stays when the handler's transaction rolls back, and people   *)
(* edit the calendar at any time.                                          *)
(*                                                                         *)
(* next_attempt_at only delays work that a job may do; here a job may run  *)
(* whenever the rest of its condition holds.  last_error is left out: the  *)
(* one reader of it sees the outcome of the step that has just written it. *)
(***************************************************************************)
EXTENDS BookingData

CONSTANTS
  Calendars,      \* Google calendars that may be connected
  OutsideEvents   \* [calendar, slot]: busy periods other people may create

ASSUME OutsideAssumption == OutsideEvents \subseteq [calendar : Calendars, slot : Slots]

VARIABLES
  connections,  \* calendar_connections, by team: [calendar, status]
  exchanging,   \* OAuth callbacks between token exchange and their last transaction
  bindings,     \* calendar_bookings, by appointment: its status
  events,       \* Google: the event written for an appointment, [calendar, slot, live]
  outside       \* Google: busy periods of other people

calendarVars == <<connections, exchanging, bindings, events, outside>>

ConnectionStatus == {"CONNECTED", "REAUTH_REQUIRED", "DISCONNECTED"}
BindingStatus == {"PENDING", "SYNCED", "ATTENTION", "CANCELLED", "COMPLETED"}
Final == {"CANCELLED", "COMPLETED"}

Connection == [calendar : Calendars, status : ConnectionStatus]
Event == [calendar : Calendars, slot : Slots, live : BOOLEAN]
Exchange == [team : Teams, calendar : Calendars]

CalendarTypeOK ==
  /\ DOMAIN connections \subseteq Teams
  /\ connections \in [DOMAIN connections -> Connection]
  /\ exchanging \subseteq Exchange
  /\ DOMAIN bindings \subseteq DOMAIN appointments
  /\ bindings \in [DOMAIN bindings -> BindingStatus]
  /\ DOMAIN events \subseteq DOMAIN appointments
  /\ events \in [DOMAIN events -> Event]
  /\ outside \subseteq OutsideEvents

CalendarInit ==
  /\ connections = NoRows
  /\ exchanging = {}
  /\ bindings = NoRows
  /\ events = NoRows
  /\ outside = {}

----------------------------------------------------------------------------
(* Reading Google through a connected team. *)

Team(k) == appointments[k].slot.team
Calendar(k) == connections[Team(k)].calendar

\* connection_for_team(): a team without a connection row keeps internal scheduling.
HasConnection(team) == team \in DOMAIN connections

\* calendar_adapter(): refuses a connection that is not CONNECTED.
Reachable(team) == connections[team].status = "CONNECTED"

\* event() finds it (no 404) in the calendar that the team uses now.
EventFound(k) == k \in DOMAIN events /\ events[k].calendar = Calendar(k)

\* Google keeps a deleted event, with status cancelled.
EventLive(k) == EventFound(k) /\ events[k].live

\* _verify(): the event stands as it was written for the appointment.
Intact(k) == EventLive(k) /\ events[k].slot = appointments[k].slot

\* busy_events(): something else takes the time of slot s, our own other events included.
BusyOutside(calendar, s, except) ==
  \/ \E o \in outside : o.calendar = calendar /\ TimesMeet(o.slot, s)
  \/ \E j \in DOMAIN events \ except :
        /\ events[j].live
        /\ events[j].calendar = calendar
        /\ TimesMeet(events[j].slot, s)

----------------------------------------------------------------------------
(* Called by the scheduling handlers, inside their transaction. *)

\* check_external_slot(); replaced is {} or the appointment that is being moved.
ExternalSlotFree(s, replaced) ==
  HasConnection(s.team) =>
    /\ Reachable(s.team)
    /\ LET ours == {k \in replaced : k \in DOMAIN bindings /\ Team(k) = s.team}
       IN  /\ \A k \in ours : Intact(k)
           /\ ~BusyOutside(connections[s.team].calendar, s, ours)

\* bind_reservation()
Bound(k, s) ==
  IF HasConnection(s.team) THEN Write(bindings, k, "PENDING") ELSE bindings

\* Mutant of CanPublish: the time was free when the hold was placed.
CanPublishUnseen(k, replaced) ==
  k \in DOMAIN bindings => Reachable(Team(k)) /\ (~EventFound(k) \/ Intact(k))

\* The checks of publish_confirmation() up to its write.
CanPublish(k, replaced) ==
  k \in DOMAIN bindings =>
    /\ Reachable(Team(k))
    /\ ~EventFound(k) \/ Intact(k)
    /\ LET ours == {j \in replaced : j \in DOMAIN bindings /\ Team(j) = Team(k)}
       IN  /\ \A j \in ours : Intact(j)
           /\ ~BusyOutside(Calendar(k), appointments[k].slot, {k} \cup ours)

\* The write of publish_confirmation(): the event id is derived from the appointment, so
\* writing again finds the event already written.
Published(k) ==
  IF k \in DOMAIN bindings
  THEN Write(events, k, [calendar |-> Calendar(k), slot |-> appointments[k].slot, live |-> TRUE])
  ELSE events

\* publish_confirmation() marks the binding once the event is verified.
MarkSynced(k) ==
  IF k \in DOMAIN bindings THEN [bindings EXCEPT ![k] = "SYNCED"] ELSE bindings

----------------------------------------------------------------------------
(* Reconciliation, inside a job's or a delivery's transaction.  Each disjunct of
   ReconcileBooking is one way the call can end; a provider outage changes nothing.  The
   operators say what happens to connections, bindings, events and appointments. *)

BookingEnded(k) ==
  appointments[k].status = "CONFIRMED" /\ appointments[k].slot.end <= now

\* Cancelled, expired, or a hold whose time has passed: its event has to go.
NeedsCleanup(k) ==
  \/ appointments[k].status \in {"CANCELLED", "EXPIRED"}
  \/ appointments[k].status = "HELD" /\ ~LiveHold(k)

\* cancel_owned() deletes an event only while it is as it was written.
EventRemoved(k) ==
  IF EventLive(k) THEN [events EXCEPT ![k].live = FALSE] ELSE events

\* Mutants of CleanedUp: deletes what a person has moved; closes the binding of an event that it
\* left alone; forgets holds that lapsed.
CleanedUpUnseen(k) ==
  /\ NeedsCleanup(k)
  /\ Reachable(Team(k))
  /\ events' = EventRemoved(k)
  /\ bindings' = [bindings EXCEPT ![k] = "CANCELLED"]
  /\ appointments' =
       IF appointments[k].status = "HELD" THEN SetStatus(k, "EXPIRED") ELSE appointments
  /\ UNCHANGED connections

CleanedUpOnPaper(k) ==
  /\ NeedsCleanup(k)
  /\ Reachable(Team(k))
  /\ events' = IF Intact(k) THEN EventRemoved(k) ELSE events
  /\ bindings' = [bindings EXCEPT ![k] = "CANCELLED"]
  /\ appointments' =
       IF appointments[k].status = "HELD" THEN SetStatus(k, "EXPIRED") ELSE appointments
  /\ UNCHANGED connections

CleanedUpUnlessLapsed(k) ==
  /\ appointments[k].status \in {"CANCELLED", "EXPIRED"}
  /\ Reachable(Team(k))
  /\ ~EventLive(k) \/ Intact(k)
  /\ events' = EventRemoved(k)
  /\ bindings' = [bindings EXCEPT ![k] = "CANCELLED"]
  /\ UNCHANGED <<appointments, connections>>

CleanedUp(k) ==
  /\ NeedsCleanup(k)
  /\ Reachable(Team(k))
  /\ ~EventLive(k) \/ Intact(k)
  /\ events' = EventRemoved(k)
  /\ bindings' = [bindings EXCEPT ![k] = "CANCELLED"]
  /\ appointments' =
       IF appointments[k].status = "HELD" THEN SetStatus(k, "EXPIRED") ELSE appointments
  /\ UNCHANGED connections

BookingInOrder(k) ==
  Intact(k) /\ ~BusyOutside(Calendar(k), appointments[k].slot, {k})

Verified(k) ==
  /\ appointments[k].status = "CONFIRMED"
  /\ Reachable(Team(k))
  /\ BookingInOrder(k)
  /\ bindings' = [bindings EXCEPT ![k] = "SYNCED"]
  /\ UNCHANGED <<appointments, connections, events>>

\* A conflict of either kind is left to the staff: nothing is overwritten.
NeedsAttention(k) ==
  /\ Reachable(Team(k))
  /\ \/ NeedsCleanup(k) /\ EventLive(k) /\ ~Intact(k)
     \/ appointments[k].status = "CONFIRMED" /\ ~BookingInOrder(k)
  /\ bindings' = [bindings EXCEPT ![k] = "ATTENTION"]
  /\ UNCHANGED <<appointments, connections, events>>

\* Google refuses the credentials, or the connection was not usable to begin with.
Unauthorized(team) ==
  /\ connections' = [connections EXCEPT ![team].status = "REAUTH_REQUIRED"]
  /\ UNCHANGED <<appointments, bindings, events>>

ReconcileBooking(k) ==
  \/ /\ BookingEnded(k)
     /\ bindings' = [bindings EXCEPT ![k] = "COMPLETED"]
     /\ UNCHANGED <<appointments, connections, events>>
  \/ /\ ~BookingEnded(k)
     /\ \/ CleanedUp(k)
        \/ Verified(k)
        \/ NeedsAttention(k)
        \/ ~LiveHold(k) /\ Unauthorized(Team(k))

----------------------------------------------------------------------------
(* Jobs. *)

othersOfReconcile ==
  <<now, schedule, requests, rescheduled, exchanging, outside>>

\* reconcile_booking_job()
ReconcileBookingJob(k) ==
  /\ schedule.version > 0
  /\ k \in DOMAIN bindings
  /\ bindings[k] \notin Final
  /\ ReconcileBooking(k)
  /\ UNCHANGED othersOfReconcile

\* The job deletes the event and dies, or its commit fails: only Google has changed.
ReconcileBookingLost(k) ==
  /\ schedule.version > 0
  /\ k \in DOMAIN bindings
  /\ bindings[k] \notin Final
  /\ NeedsCleanup(k)
  /\ Reachable(Team(k))
  /\ Intact(k)
  /\ events' = EventRemoved(k)
  /\ UNCHANGED <<dataVars, connections, exchanging, bindings, outside>>

\* reconcile_connection_job(): the periodic probe finds the grant revoked.
ReconcileConnectionJob(team) ==
  /\ schedule.version > 0
  /\ HasConnection(team)
  /\ Reachable(team)
  /\ Unauthorized(team)
  /\ UNCHANGED othersOfReconcile

----------------------------------------------------------------------------
(* Connecting and disconnecting a team. *)

\* authorize(), launch() and the first transaction of callback(), which consumes the
\* authorization row; the code is then exchanged for tokens outside any transaction.
BeginConnect(team, calendar) ==
  /\ schedule.version > 0
  /\ team \in schedule.configuration.teams
  /\ exchanging' = exchanging \cup {[team |-> team, calendar |-> calendar]}
  /\ UNCHANGED <<dataVars, connections, bindings, events, outside>>

\* Mutant of CalendarInUse: looks at appointments only, not at clean-up that is still to do.
CalendarBooked(team) ==
  \E k \in DOMAIN appointments :
    /\ Team(k) = team
    /\ \/ appointments[k].status = "CONFIRMED" /\ appointments[k].slot.end > now
       \/ LiveHold(k)

\* The team still has bookings, or clean-up, that live in the calendar it uses now.
CalendarInUse(team) ==
  \/ \E k \in DOMAIN appointments :
        /\ Team(k) = team
        /\ \/ appointments[k].status = "CONFIRMED" /\ appointments[k].slot.end > now
           \/ LiveHold(k)
  \/ HasConnection(team)
       /\ \E k \in DOMAIN bindings : Team(k) = team /\ bindings[k] \notin Final

\* Mutant of FinishConnect: trusts the check that was made before the exchange.
FinishConnectUnchecked(x) ==
  /\ x \in exchanging
  /\ x.team \in schedule.configuration.teams
  /\ \A other \in DOMAIN connections \ {x.team} : connections[other].calendar # x.calendar
  /\ connections' =
       Write(connections, x.team, [calendar |-> x.calendar, status |-> "CONNECTED"])
  /\ exchanging' = exchanging \ {x}
  /\ UNCHANGED <<dataVars, bindings, events, outside>>

\* The last transaction of callback().
FinishConnect(x) ==
  /\ x \in exchanging
  /\ x.team \in schedule.configuration.teams
  /\ \A other \in DOMAIN connections \ {x.team} : connections[other].calendar # x.calendar
  /\ CalendarInUse(x.team) =>
       HasConnection(x.team) /\ connections[x.team].calendar = x.calendar
  /\ connections' =
       Write(connections, x.team, [calendar |-> x.calendar, status |-> "CONNECTED"])
  /\ exchanging' = exchanging \ {x}
  /\ UNCHANGED <<dataVars, bindings, events, outside>>

\* The exchange fails, the last transaction refuses it, or the process stops.
AbandonConnect(x) ==
  /\ x \in exchanging
  /\ exchanging' = exchanging \ {x}
  /\ UNCHANGED <<dataVars, connections, bindings, events, outside>>

\* Mutant of Disconnect: looks at appointments, not at their bindings.
DisconnectWhenIdle(team) ==
  /\ HasConnection(team)
  /\ \A k \in Busy : Team(k) # team
  /\ connections' = [connections EXCEPT ![team].status = "DISCONNECTED"]
  /\ UNCHANGED <<dataVars, exchanging, bindings, events, outside>>

Disconnect(team) ==
  /\ HasConnection(team)
  /\ \A k \in DOMAIN bindings : Team(k) = team => bindings[k] \in Final
  /\ connections' = [connections EXCEPT ![team].status = "DISCONNECTED"]
  /\ UNCHANGED <<dataVars, exchanging, bindings, events, outside>>

----------------------------------------------------------------------------
(* People using Google Calendar. *)

\* Drag the event of an appointment to another time of the same team.
PersonMoves(k, s) ==
  /\ k \in DOMAIN events
  /\ events[k].live
  /\ s.team = Team(k)
  /\ s # events[k].slot
  /\ events' = [events EXCEPT ![k].slot = s]
  /\ UNCHANGED <<dataVars, connections, exchanging, bindings, outside>>

\* Delete the event, or restore a deleted one from the bin.
PersonTogglesEvent(k) ==
  /\ k \in DOMAIN events
  /\ events' = [events EXCEPT ![k].live = ~@]
  /\ UNCHANGED <<dataVars, connections, exchanging, bindings, outside>>

\* Add or remove a busy period of their own.
PersonTogglesBusy(o) ==
  /\ outside' = IF o \in outside THEN outside \ {o} ELSE outside \cup {o}
  /\ UNCHANGED <<dataVars, connections, exchanging, bindings, events>>
============================================================================
