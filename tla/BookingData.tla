---------------------------- MODULE BookingData ----------------------------
(***************************************************************************)
(* The rows the scheduling service works on, for one agency, and the       *)
(* questions its handlers ask of them: database/models/hvac.py,            *)
(* hvac/availability.py and hvac/booking_limits.py.                        *)
(*                                                                         *)
(* Every handler runs in one transaction that locks the agency's           *)
(* business_schedules row, so a transaction is one atomic step here.       *)
(* Wall-clock time is the variable now, in ticks.                          *)
(***************************************************************************)
EXTENDS Integers, FiniteSets

CONSTANTS
  Requests,        \* ids of service requests
  Owner,           \* Owner[r]: the customer account whose browser session made r
  NoOwner,         \* owner of requests taken by staff or over the phone
  Keys,            \* idempotency keys; unique per agency, so they name appointments
  Teams,           \* technician teams
  Slots,           \* [team, start, end]: the appointment times that are considered
  Configurations,  \* the schedule settings the business may save
  HoldTime,        \* ticks a reservation is held (five minutes in the code)
  MaxActive,       \* CUSTOMER_MAX_ACTIVE_APPOINTMENTS
  MaxChanges,      \* CUSTOMER_MAX_BOOKING_CHANGES
  MaxTime,         \* bound: the model's clock stops here
  MaxVersion       \* bound: number of times the schedule is saved

SlotType == [team : Teams, start : Nat, end : Nat]

ConfigurationType ==
  [enabled : BOOLEAN,           \* scheduling switched on
   teams   : SUBSET Teams,
   grid    : SUBSET Slots,      \* slots inside business and team windows
   served  : SUBSET Requests,   \* requests whose postal code is covered
   notice  : Nat,               \* notice_minutes
   horizon : Nat,               \* horizon_days
   cancellation_notice : Nat]   \* cancellation_notice_minutes

ASSUME SlotsAssumption == Slots \subseteq SlotType /\ \A s \in Slots : s.start < s.end
ASSUME ConfigurationsAssumption == Configurations \subseteq ConfigurationType
ASSUME TimeAssumption == HoldTime \in Nat \ {0} /\ MaxTime \in Nat /\ MaxVersion \in Nat
ASSUME LimitsAssumption == MaxActive \in Nat \ {0} /\ MaxChanges \in Nat
ASSUME OwnerAssumption == DOMAIN Owner = Requests

VARIABLES
  now,           \* the current tick
  schedule,      \* [version, configuration]; version 0: not configured yet
  requests,      \* service requests created so far: id -> [status, hazardous]
  appointments,  \* appointments by idempotency key
  rescheduled    \* keys named by a HVAC_APPOINTMENT_RESCHEDULED audit row

dataVars == <<now, schedule, requests, appointments, rescheduled>>

AppointmentStatus == {"HELD", "CONFIRMED", "CANCELLED", "EXPIRED"}

\* The status column also allows CALLBACK_REQUESTED and CLOSED; no code writes them.
RequestStatus == {"OPEN", "BOOKED", "HANDOFF_REQUESTED"}

Appointment ==
  [request : Requests, slot : Slots, status : AppointmentStatus, hold_expires : Nat]

ServiceRequest == [status : RequestStatus, hazardous : BOOLEAN]

DataTypeOK ==
  /\ now \in 0..MaxTime
  /\ schedule \in [version : 0..MaxVersion, configuration : Configurations]
  /\ DOMAIN requests \subseteq Requests
  /\ requests \in [DOMAIN requests -> ServiceRequest]
  /\ DOMAIN appointments \subseteq Keys
  /\ appointments \in [DOMAIN appointments -> Appointment]
  /\ rescheduled \subseteq DOMAIN appointments

NoRows == [row \in {} |-> row]

\* The table with the row named id written: inserted, or put in the place of the old one.
Write(table, id, row) ==
  [i \in DOMAIN table \cup {id} |-> IF i = id THEN row ELSE table[i]]

DataInit ==
  /\ now = 0
  /\ schedule \in [version : {0}, configuration : Configurations]
  /\ requests = NoRows
  /\ appointments = NoRows
  /\ rescheduled = {}

----------------------------------------------------------------------------
(* Slots and availability. *)

TimesMeet(a, b) == a.start < b.end /\ b.start < a.end

\* overlaps(), together with the team comparison made at every call of it.
Overlaps(a, b) == a.team = b.team /\ TimesMeet(a, b)

\* candidate_slots(): what the configuration c offers to somebody asking at time t.
CandidateSlots(c, t) ==
  {s \in c.grid : /\ c.enabled
                  /\ s.team \in c.teams
                  /\ s.start >= t + c.notice
                  /\ s.start <= t + c.horizon}

----------------------------------------------------------------------------
(* Appointments. *)

Confirmed == {k \in DOMAIN appointments : appointments[k].status = "CONFIRMED"}

LiveHold(k) ==
  appointments[k].status = "HELD" /\ appointments[k].hold_expires > now

\* _busy(): the appointments that occupy their team now.
Busy == {k \in DOMAIN appointments : appointments[k].status = "CONFIRMED" \/ LiveHold(k)}

\* Mutants of NoConflict: holds do not count; only equal starting times collide; whatever the
\* request itself holds does not count.
NoConflictWithConfirmed(r, s, except) ==
  \A k \in Confirmed \ except : /\ appointments[k].request # r
                                 /\ ~Overlaps(s, appointments[k].slot)

NoConflictAtStart(r, s, except) ==
  \A k \in Busy \ except :
    /\ appointments[k].request # r
    /\ ~(s.team = appointments[k].slot.team /\ s.start = appointments[k].slot.start)

NoConflictWithOthers(r, s, except) ==
  \A k \in Busy \ except :
    appointments[k].request = r \/ ~Overlaps(s, appointments[k].slot)

\* The conflict test of _reserve() and _ensure_capacity(): no busy appointment other
\* than the excepted ones belongs to request r or occupies the team of slot s.
NoConflict(r, s, except) ==
  \A k \in Busy \ except : /\ appointments[k].request # r
                           /\ ~Overlaps(s, appointments[k].slot)

\* _allow_change(): may still be moved or cancelled without a human.
AllowChange(k) ==
  /\ appointments[k].status \in {"HELD", "CONFIRMED"}
  /\ appointments[k].slot.start >= now + schedule.configuration.cancellation_notice

\* The slot still is what the schedule offered when the hold was placed.
StillOffered(k) ==
  appointments[k].slot \in
    CandidateSlots(schedule.configuration, appointments[k].hold_expires - HoldTime)

\* Mutant of Bookable: trusts the status, which a cancellation turns back to OPEN.
BookableByStatus(r) == requests[r].status # "HANDOFF_REQUESTED"

\* Requests that need a human are neither booked nor moved.
Bookable(r) == ~requests[r].hazardous

SetStatus(k, status) == [appointments EXCEPT ![k].status = status]

----------------------------------------------------------------------------
(* Customer booking limits. *)

\* customer_booking_limits(): the requests of customer c that use a place.
ActiveRequests(c) ==
  {appointments[k].request :
     k \in {j \in Busy : /\ Owner[appointments[j].request] = c
                         /\ appointments[j].slot.end > now}}

\* Mutant of HasPlace: one too many.
HasOneMorePlace(r, excluded) ==
  Owner[r] = NoOwner \/ Cardinality(ActiveRequests(Owner[r]) \ excluded) <= MaxActive

\* require_customer_booking_capacity(); a confirmation does not count its own request.
HasPlace(r, excluded) ==
  Owner[r] = NoOwner \/ Cardinality(ActiveRequests(Owner[r]) \ excluded) < MaxActive

\* booking_change_allowance(): audited moves of any appointment of the request.
ChangesUsed(r) == Cardinality({k \in rescheduled : appointments[k].request = r})

\* Mutant of ChangeAllowed: one too many.
OneMoreChangeAllowed(r) == Owner[r] = NoOwner \/ ChangesUsed(r) <= MaxChanges

\* require_customer_booking_change()
ChangeAllowed(r) == Owner[r] = NoOwner \/ ChangesUsed(r) < MaxChanges
============================================================================
