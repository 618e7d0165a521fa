------------------------ MODULE BookingPromises_proofs ------------------------
(***************************************************************************)
(* Proofs about what BookingSystem promises to the outside: how much one   *)
(* request and one customer may take, and that the scheduling service      *)
(* implements module Bookings.                                             *)
(***************************************************************************)
EXTENDS BookingSystem_proofs, FiniteSetTheorems

----------------------------------------------------------------------------
(* Small sets. *)

\* Three elements of which two are always equal are at most two.
LEMMA AtMostTwo ==
  ASSUME NEW S, \A i, j, k \in S : i = j \/ j = k \/ i = k
  PROVE  IsFiniteSet(S) /\ Cardinality(S) <= 2
<1>1. CASE S = {}
  BY <1>1, FS_EmptySet
<1>2. ASSUME NEW a \in S PROVE IsFiniteSet(S) /\ Cardinality(S) <= 2
  <2>1. IsFiniteSet({a}) /\ Cardinality({a}) = 1
    BY FS_Singleton
  <2>2. CASE S = {a}
    BY <2>1, <2>2
  <2>3. ASSUME NEW b \in S, b # a PROVE IsFiniteSet(S) /\ Cardinality(S) <= 2
    <3>1. S = {a} \cup {b}
      BY <1>2, <2>3
    <3>2. IsFiniteSet({a} \cup {b}) /\ Cardinality({a} \cup {b}) = 2
      BY <2>1, <2>3, FS_AddElement
    <3> QED
      BY <3>1, <3>2
  <2> QED
    BY <1>2, <2>2, <2>3
<1> QED
  BY <1>1, <1>2

\* A part of a set of at most n elements has at most n.
LEMMA PartIsSmall ==
  ASSUME NEW S, NEW T, T \subseteq S, IsFiniteSet(S), NEW n \in Nat, Cardinality(S) <= n
  PROVE  IsFiniteSet(T) /\ Cardinality(T) <= n
<1>1. IsFiniteSet(T) /\ Cardinality(T) <= Cardinality(S)
  BY FS_Subset
<1>2. Cardinality(T) \in Nat /\ Cardinality(S) \in Nat
  BY <1>1, FS_CardinalityType
<1> QED
  BY <1>1, <1>2

\* One more element in a set that is not full.
LEMMA OneMoreFits ==
  ASSUME NEW S, NEW x, NEW T, T \subseteq S \cup {x}, IsFiniteSet(S), NEW n \in Nat,
         Cardinality(S) < n
  PROVE  IsFiniteSet(T) /\ Cardinality(T) <= n
<1>1. Cardinality(S) \in Nat
  BY FS_CardinalityType
<1>2. /\ IsFiniteSet(S \cup {x})
      /\ Cardinality(S \cup {x}) = Cardinality(S)
           \/ Cardinality(S \cup {x}) = Cardinality(S) + 1
  BY FS_AddElement
<1>3. Cardinality(S \cup {x}) <= n
  BY <1>1, <1>2
<1> QED
  BY <1>2, <1>3, PartIsSmall

----------------------------------------------------------------------------
(* One replacement at a time. *)

\* Of three appointments that a request occupies, two are the same one.
FewHolds ==
  \A i, j, k \in Busy :
    Request(i) = Request(j) /\ Request(j) = Request(k) => i = j \/ j = k \/ i = k

\* A hold is placed only if the request has nothing, or nothing but what is to be moved.
LEMMA FewHoldsStep ==
  ASSUME DataTypeOK, DataTypeOK', SchedulingTypeOK, FewHolds, [Next]_vars
  PROVE  FewHolds'
<1>1. Busy \subseteq DOMAIN appointments
  BY DEF Busy
<1>2. ASSUME Busy' \subseteq Busy PROVE FewHolds'
  <2>1. \A k \in Busy : Request(k)' = Request(k)
    BY <1>1, RowsStay DEF RowStays, Request
  <2> QED
    BY <1>2, <2>1 DEF FewHolds
<1>3. CASE Quiet
  BY <1>2, <1>3, BusyWhenHoldsEnd DEF Quiet
<1>4. ASSUME NEW k, NEW r, NEW s, NEW replaced, HoldPlaced(k, r, s, replaced)
      PROVE  FewHolds'
  <2>1. /\ k \notin Busy /\ Busy' \subseteq Busy \cup {k} /\ Request(k)' = r
        /\ \A j \in Busy : Request(j)' = Request(j)
    BY <1>1, <1>4, BusyWhenPlaced DEF Request
  <2>2. \A j \in Busy : Request(j) = r => j \in replaced
    BY <1>4 DEF HoldPlaced, PlaceHold, NoConflict, Request
  <2>3. \A i, j \in Busy : Request(i) = r /\ Request(j) = r => i = j
    BY <1>4, <2>2 DEF HoldPlaced
  <2> QED
    BY <2>1, <2>3 DEF FewHolds
<1>5. ASSUME NEW k, Confirm(k) PROVE FewHolds'
  BY <1>2, <1>5, BusyWhenConfirmed
<1>6. ASSUME NEW k, Cancel(k) PROVE FewHolds'
  BY <1>2, <1>6, BusyWhenCancelled
<1>7. ASSUME NEW old, NEW new, CompleteReschedule(old, new) PROVE FewHolds'
  BY <1>2, <1>7, BusyWhenSwapped
<1> QED
  BY <1>3, <1>4, <1>5, <1>6, <1>7, StepKinds DEF Booking

\* Failed and abandoned reschedules do not pile up holds.
THEOREM HoldsDoNotPileUp == Spec => []AtMostOneReplacement
<1>1. Init => FewHolds
  BY DEF Init, DataInit, NoRows, FewHolds, Busy
<1>2. TypeInv /\ TypeInv' /\ FewHolds /\ [Next]_vars => FewHolds'
  BY FewHoldsStep DEF TypeInv, MovesOK, SchedulingTypeOK
<1>3. FewHolds => AtMostOneReplacement
  <2> SUFFICES ASSUME FewHolds, NEW r \in DOMAIN requests
               PROVE  Cardinality({k \in Busy : Request(k) = r}) <= 2
    BY DEF AtMostOneReplacement
  <2> QED
    BY AtMostTwo DEF FewHolds
<1> QED
  BY <1>1, <1>2, <1>3, TypeInvariant, PTL DEF Spec

----------------------------------------------------------------------------
(* Changes of an appointment. *)

Moved(r) == {k \in rescheduled : Request(k) = r}

\* The limit holds for every request, also for those that are not taken yet.
ChangesInv ==
  \A r \in Requests :
    Owner[r] # NoOwner => IsFiniteSet(Moved(r)) /\ Cardinality(Moved(r)) <= MaxChanges

\* Only the second transaction of a reschedule writes the audit row that is counted.
LEMMA OnlySwapsCount ==
  ASSUME [Next]_vars
  PROVE  UNCHANGED rescheduled \/ \E old, new \in Keys : CompleteReschedule(old, new)
<1>1. CASE UNCHANGED dataVars
  BY <1>1 DEF dataVars
<1>2. CASE ServiceStep
  BY <1>2
  DEF ServiceStep, Configure, CreateRequest, FlagHazard, Reserve, PlaceHold, ReleaseHold,
      Confirm, ConfirmLost, Cancel, dataVars
<1>3. CASE RescheduleStep
  BY <1>3
  DEF RescheduleStep, BeginReschedule, PlaceHold, ResumeReschedule, RescheduleLost,
      AbandonReschedule, dataVars
<1>4. CASE CalendarStep \/ PersonStep \/ Tick \/ UNCHANGED vars
  BY <1>1, <1>4
  DEF CalendarStep, ReconcileBookingJob, ReconcileBookingLost, ReconcileConnectionJob,
      Disconnect, BeginConnect, FinishConnect, AbandonConnect, othersOfReconcile,
      PersonStep, PersonMoves, PersonTogglesEvent, PersonTogglesBusy, Tick, vars, dataVars
<1>5. CASE DeliveryStep
  BY <1>5
  DEF DeliveryStep, SkipObsolete, PostponeDelivery, SkipReminder, GiveUp, StampFirstAttempt,
      SendAccepted, SendRejected, SendAnswerLost, SendCrashed, ApplyReports, ReceiveReport,
      othersOfDelivery, dataVars
<1> QED
  BY <1>2, <1>3, <1>4, <1>5 DEF Next

\* That transaction looks at the limit again.
LEMMA ChangesStep ==
  ASSUME DataTypeOK, MovesOK, ChangesInv, [Next]_vars
  PROVE  ChangesInv'
<1> SUFFICES ASSUME NEW r \in Requests, Owner[r] # NoOwner
             PROVE  IsFiniteSet(Moved(r)') /\ Cardinality(Moved(r)') <= MaxChanges
  BY DEF ChangesInv
<1>1. IsFiniteSet(Moved(r)) /\ Cardinality(Moved(r)) <= MaxChanges /\ MaxChanges \in Nat
  BY LimitsAssumption DEF ChangesInv
<1>2. \A k \in rescheduled : Request(k)' = Request(k)
  BY RowsStay DEF RowStays, Request, DataTypeOK, MovesOK, SchedulingTypeOK
<1>3. CASE UNCHANGED rescheduled
  BY <1>1, <1>2, <1>3 DEF Moved
<1>4. ASSUME NEW old, NEW new, CompleteReschedule(old, new)
      PROVE  IsFiniteSet(Moved(r)') /\ Cardinality(Moved(r)') <= MaxChanges
  <2>1. /\ rescheduled' = rescheduled \cup {new}
        /\ new \in DOMAIN appointments /\ Request(old) = Request(new)
        /\ ChangeAllowed(Request(old))
    BY <1>4 DEF CompleteReschedule, CanSwap, MayMove, MovesOK
  <2>2. Request(new)' = Request(new)
    BY <2>1, RowsStay DEF RowStays, Request, MovesOK, SchedulingTypeOK
  <2>3. CASE Request(new) = r
    <3>1. Cardinality(Moved(r)) < MaxChanges
      BY <2>1, <2>3 DEF ChangeAllowed, ChangesUsed, Moved, Request
    <3>2. Moved(r)' \subseteq Moved(r) \cup {new}
      BY <1>2, <2>1 DEF Moved
    <3> QED
      BY <1>1, <3>1, <3>2, OneMoreFits
  <2>4. CASE Request(new) # r
    <3>1. Moved(r)' \subseteq Moved(r)
      BY <1>2, <2>1, <2>2, <2>4 DEF Moved
    <3> QED
      BY <1>1, <3>1, PartIsSmall
  <2> QED
    BY <2>3, <2>4
<1> QED
  BY <1>3, <1>4, OnlySwapsCount

\* All replacements of a customer's request together never exceed the limit: a replacement
\* does not start a new count.
THEOREM ChangesStayLimited == Spec => []ChangeLimit
<1>1. Init => ChangesInv
  <2> SUFFICES ASSUME Init, NEW r \in Requests
               PROVE  IsFiniteSet(Moved(r)) /\ Cardinality(Moved(r)) <= MaxChanges
    BY DEF ChangesInv
  <2>1. Moved(r) = {}
    BY DEF Init, DataInit, Moved
  <2> QED
    BY <2>1, FS_EmptySet, LimitsAssumption
<1>2. TypeInv /\ ChangesInv /\ [Next]_vars => ChangesInv'
  BY ChangesStep DEF TypeInv
<1>3. TypeInv /\ ChangesInv => ChangeLimit
  BY DEF TypeInv, DataTypeOK, ChangesInv, ChangeLimit, ChangesUsed, Moved, Request
<1> QED
  BY <1>1, <1>2, <1>3, TypeInvariant, PTL DEF Spec

----------------------------------------------------------------------------
(* A customer's places. *)

\* The limit is counted for every owner of a request, taken yet or not.
PlacesInv ==
  \A r \in Requests :
    Owner[r] # NoOwner =>
      IsFiniteSet(ActiveRequests(Owner[r])) /\ Cardinality(ActiveRequests(Owner[r])) <= MaxActive

\* A customer's appointment is moved only while it still occupies its team.  The customer's
\* own route makes sure of it; the staff's route does not.
MovedWhileBusy ==
  \A old, new \in Keys, s \in Slots :
    BeginReschedule(old, new, s) => Owner[Request(old)] = NoOwner \/ old \in Busy

\* The places that an owner uses are those of busy appointments.
LEMMA ActiveByBusy ==
  ASSUME NEW c, NEW r
  PROVE  r \in ActiveRequests(c) <=>
           \E k \in Busy : Request(k) = r /\ Owner[r] = c /\ appointments[k].slot.end > now
BY DEF ActiveRequests, Request

\* When nothing becomes busy no place is taken.
LEMMA NoPlaceTaken ==
  ASSUME DataTypeOK, DataTypeOK', SchedulingTypeOK, [Next]_vars, Busy' \subseteq Busy, NEW c
  PROVE  ActiveRequests(c)' \subseteq ActiveRequests(c)
<1> SUFFICES ASSUME NEW r \in ActiveRequests(c)' PROVE r \in ActiveRequests(c)
  OBVIOUS
<1>1. PICK k \in Busy' :
        Request(k)' = r /\ Owner[r] = c /\ appointments'[k].slot.end > now'
  BY DEF ActiveRequests, Request
<1>2. k \in Busy /\ k \in DOMAIN appointments
  BY <1>1 DEF Busy
<1>3. Request(k) = r /\ appointments'[k].slot = appointments[k].slot
  BY <1>1, <1>2, RowsStay DEF RowStays, Request
<1>4. appointments[k].slot.end > now
  <2>1. appointments[k].slot.end \in Nat /\ now \in Nat /\ now' \in Nat /\ now' >= now
    BY <1>2, SlotsAssumption, TimeAssumption, ClockRuns DEF DataTypeOK, Appointment, SlotType
  <2> QED
    BY <1>1, <1>3, <2>1
<1> QED
  BY <1>1, <1>2, <1>3, <1>4, ActiveByBusy

\* A hold takes at most one place, that of its request.
LEMMA OnePlaceTaken ==
  ASSUME DataTypeOK, NEW k, NEW q, NEW s, NEW replaced, HoldPlaced(k, q, s, replaced), NEW c
  PROVE  /\ ActiveRequests(c)' \subseteq ActiveRequests(c) \cup {q}
         /\ Owner[q] # c => ActiveRequests(c)' \subseteq ActiveRequests(c)
<1>1. /\ Busy' \subseteq Busy \cup {k} /\ UNCHANGED now
      /\ Request(k)' = q
      /\ \A j \in Busy : appointments'[j] = appointments[j]
  BY BusyWhenPlaced DEF Busy, Request
<1>2. ASSUME NEW r \in ActiveRequests(c)' PROVE r \in ActiveRequests(c) \/ (r = q /\ Owner[q] = c)
  <2>1. PICK j \in Busy' :
          Request(j)' = r /\ Owner[r] = c /\ appointments'[j].slot.end > now'
    BY DEF ActiveRequests, Request
  <2>2. CASE j = k
    BY <1>1, <2>1, <2>2
  <2>3. CASE j \in Busy
    BY <1>1, <2>1, <2>3, ActiveByBusy DEF Request
  <2> QED
    BY <1>1, <2>2, <2>3
<1> QED
  BY <1>2

\* What is busy and may still be moved is counted already.
LEMMA MovedIsCounted ==
  ASSUME DataTypeOK, NEW old \in Busy, AllowChange(old)
  PROVE  Request(old) \in ActiveRequests(Owner[Request(old)])
<1>1. old \in DOMAIN appointments
  BY DEF Busy
<1> DEFINE slot == appointments[old].slot
<1>2. slot.start \in Nat /\ slot.end \in Nat /\ slot.start < slot.end /\ now \in Nat
  BY <1>1, SlotsAssumption, TimeAssumption DEF DataTypeOK, Appointment, SlotType
<1>3. schedule.configuration.cancellation_notice \in Nat
  BY ConfigurationsAssumption DEF DataTypeOK, ConfigurationType
<1>4. slot.start >= now + schedule.configuration.cancellation_notice
  BY DEF AllowChange
<1> HIDE DEF slot
<1>5. slot.end > now
  BY <1>2, <1>3, <1>4
<1> QED
  BY <1>5, ActiveByBusy DEF slot

\* A hold is placed by a reservation, which looks at the limit, or by a reschedule.
LEMMA HoldsAreAskedFor ==
  ASSUME [Next]_vars
  PROVE  \/ \E k \in Keys, r \in Requests, s \in Slots : Reserve(k, r, s)
         \/ \E old, new \in Keys, s \in Slots : BeginReschedule(old, new, s)
         \/ DOMAIN appointments' = DOMAIN appointments
<1> DEFINE Goal == \/ \E k \in Keys, r \in Requests, s \in Slots : Reserve(k, r, s)
                   \/ \E old, new \in Keys, s \in Slots : BeginReschedule(old, new, s)
                   \/ DOMAIN appointments' = DOMAIN appointments
<1>1. CASE UNCHANGED appointments
  BY <1>1
<1>2. CASE ServiceStep
  BY <1>2
  DEF ServiceStep, Configure, CreateRequest, FlagHazard, ReleaseHold, Confirm, ConfirmLost,
      Cancel, SetStatus, dataVars
<1>3. CASE RescheduleStep
  BY <1>3
  DEF RescheduleStep, ResumeReschedule, CompleteReschedule, RescheduleLost,
      AbandonReschedule, dataVars
<1>4. ASSUME NEW k, ReconcileBooking(k) PROVE DOMAIN appointments' = DOMAIN appointments
  BY <1>4
  DEF ReconcileBooking, CleanedUp, Verified, NeedsAttention, Unauthorized, SetStatus
<1>5. CASE CalendarStep \/ PersonStep \/ Tick \/ UNCHANGED vars
  BY <1>1, <1>4, <1>5
  DEF CalendarStep, ReconcileBookingJob, ReconcileBookingLost, ReconcileConnectionJob,
      Unauthorized, Disconnect, BeginConnect, FinishConnect, AbandonConnect, PersonStep,
      PersonMoves, PersonTogglesEvent, PersonTogglesBusy, Tick, vars, dataVars
<1>6. ASSUME NEW n, CalendarInOrder(n) PROVE DOMAIN appointments' = DOMAIN appointments
  BY <1>4, <1>6 DEF CalendarInOrder, Verified
<1>7. CASE DeliveryStep
  BY <1>1, <1>4, <1>6, <1>7
  DEF DeliveryStep, SkipObsolete, PostponeDelivery, SkipReminder, GiveUp, StampFirstAttempt,
      SendAccepted, SendRejected, SendAnswerLost, SendCrashed, ApplyReports, ReceiveReport,
      dataVars
<1> QED
  BY <1>2, <1>3, <1>5, <1>7 DEF Next

\* Places are taken by reservations only, as long as nothing lapsed is moved.
LEMMA PlacesStep ==
  ASSUME DataTypeOK, DataTypeOK', SchedulingTypeOK, PlacesInv, [Next]_vars, MovedWhileBusy
  PROVE  PlacesInv'
<1> SUFFICES ASSUME NEW r \in Requests, Owner[r] # NoOwner
             PROVE  /\ IsFiniteSet(ActiveRequests(Owner[r])')
                    /\ Cardinality(ActiveRequests(Owner[r])') <= MaxActive
  BY DEF PlacesInv
<1> DEFINE Goal == /\ IsFiniteSet(ActiveRequests(Owner[r])')
                   /\ Cardinality(ActiveRequests(Owner[r])') <= MaxActive
<1>1. /\ IsFiniteSet(ActiveRequests(Owner[r])) /\ Cardinality(ActiveRequests(Owner[r])) <= MaxActive
      /\ MaxActive \in Nat
  BY LimitsAssumption DEF PlacesInv
<1>2. ASSUME ActiveRequests(Owner[r])' \subseteq ActiveRequests(Owner[r]) PROVE Goal
  BY <1>1, <1>2, PartIsSmall
<1>3. ASSUME NEW k \in Keys, NEW q \in Requests, NEW s \in Slots, Reserve(k, q, s) PROVE Goal
  <2>1. HoldPlaced(k, q, s, {}) /\ HasPlace(q, {})
    BY <1>3 DEF Reserve, HoldPlaced, PlaceHold
  <2>2. CASE Owner[q] = Owner[r]
    <3>1. ActiveRequests(Owner[r]) \ {} = ActiveRequests(Owner[r])
      OBVIOUS
    <3>2. Cardinality(ActiveRequests(Owner[r])) < MaxActive
      BY <2>1, <2>2, <3>1 DEF HasPlace
    <3>3. ActiveRequests(Owner[r])' \subseteq ActiveRequests(Owner[r]) \cup {q}
      BY <2>1, OnePlaceTaken
    <3> QED
      BY <1>1, <3>2, <3>3, OneMoreFits
  <2>3. CASE Owner[q] # Owner[r]
    BY <1>2, <2>1, <2>3, OnePlaceTaken
  <2> QED
    BY <2>2, <2>3
<1>4. ASSUME NEW old \in Keys, NEW new \in Keys, NEW s \in Slots, BeginReschedule(old, new, s)
      PROVE  Goal
  <2>1. HoldPlaced(new, Request(old), s, {old}) /\ AllowChange(old)
    BY <1>4 DEF BeginReschedule, MayMove, HoldPlaced
  <2>2. CASE Owner[Request(old)] = Owner[r]
    <3>1. old \in Busy
      BY <1>4, <2>2 DEF MovedWhileBusy
    <3>2. Request(old) \in ActiveRequests(Owner[r])
      BY <2>1, <2>2, <3>1, MovedIsCounted
    <3> QED
      BY <1>2, <2>1, <3>2, OnePlaceTaken
  <2>3. CASE Owner[Request(old)] # Owner[r]
    BY <1>2, <2>1, <2>3, OnePlaceTaken
  <2> QED
    BY <2>2, <2>3
<1>5. CASE DOMAIN appointments' = DOMAIN appointments
  <2>1. Busy' \subseteq DOMAIN appointments'
    BY DEF Busy
  <2>2. ASSUME NEW k \in Busy' PROVE k \in Busy
    <3>1. CASE Quiet
      BY <3>1, BusyWhenHoldsEnd DEF Quiet
    <3>2. ASSUME NEW j, NEW q, NEW s, NEW replaced, HoldPlaced(j, q, s, replaced) PROVE k \in Busy
      BY <1>5, <3>2, BusyWhenPlaced
    <3>3. ASSUME NEW j, Confirm(j) PROVE k \in Busy
      BY <3>3, BusyWhenConfirmed
    <3>4. ASSUME NEW j, Cancel(j) PROVE k \in Busy
      BY <3>4, BusyWhenCancelled
    <3>5. ASSUME NEW old, NEW new, CompleteReschedule(old, new) PROVE k \in Busy
      BY <3>5, BusyWhenSwapped
    <3> QED
      BY <3>1, <3>2, <3>3, <3>4, <3>5, StepKinds DEF Booking
  <2> QED
    BY <1>2, <2>2, NoPlaceTaken
<1> QED
  BY <1>3, <1>4, <1>5, HoldsAreAskedFor

\* Before anything is reserved nobody has a place.
LEMMA PlacesInit == Init => PlacesInv
<1> SUFFICES ASSUME Init, NEW r \in Requests
             PROVE  /\ IsFiniteSet(ActiveRequests(Owner[r]))
                    /\ Cardinality(ActiveRequests(Owner[r])) <= MaxActive
  BY DEF PlacesInv
<1>1. ActiveRequests(Owner[r]) = {}
  BY DEF Init, DataInit, NoRows, ActiveRequests, Busy
<1> QED
  BY <1>1, FS_EmptySet, LimitsAssumption

\* The invariant says more than the property.
LEMMA PlacesAreLimited == TypeInv /\ PlacesInv => CustomerLimit
BY DEF TypeInv, DataTypeOK, PlacesInv, CustomerLimit

\* A customer's limit is exceeded in one way only: the staff move a hold of the customer that
\* has lapsed.  (With that move it is exceeded: the run staff_reschedule shows how.)
THEOREM OnlyLapsedMovesExceedTheLimit == Spec /\ [][MovedWhileBusy]_vars => []CustomerLimit
<1>1. TypeInv /\ TypeInv' /\ PlacesInv /\ [Next]_vars /\ [MovedWhileBusy]_vars => PlacesInv'
  <2> SUFFICES ASSUME TypeInv, TypeInv', PlacesInv, [Next]_vars, [MovedWhileBusy]_vars
               PROVE  PlacesInv'
    OBVIOUS
  <2>1. CASE MovedWhileBusy
    BY <2>1, PlacesStep DEF TypeInv, MovesOK, SchedulingTypeOK
  <2>2. CASE UNCHANGED vars
    BY <2>2 DEF vars, dataVars, PlacesInv, ActiveRequests, Busy, LiveHold
  <2> QED
    BY <2>1, <2>2
<1> QED
  BY <1>1, PlacesInit, PlacesAreLimited, TypeInvariant, PTL DEF Spec

\* So customers alone, through their own routes, never exceed it.
THEOREM CustomersStayWithinLimits ==
  ASSUME "staff" \notin Routes
  PROVE  Spec => []CustomerLimit
<1>1. MovedWhileBusy
  BY DEF MovedWhileBusy, BeginReschedule, MayAsk, Confirmed, Busy
<1> QED
  BY <1>1, OnlyLapsedMovesExceedTheLimit, PTL

----------------------------------------------------------------------------
(* The scheduling service implements module Bookings. *)

\* The table of bookings that the appointments in confirmed make, where no two of them are of
\* one request.
Table(confirmed, rows) ==
  [r \in {rows[k].request : k \in confirmed} |->
     rows[CHOOSE k \in confirmed : rows[k].request = r].slot]

OnePerRequest(confirmed, rows) ==
  \A i, j \in confirmed : rows[i].request = rows[j].request => i = j

Booked == [r \in BookedRequests |-> BookedSlot(r)]

\* Each confirmed appointment is in the table with its slot, and nothing else is.
IsTable(booked, confirmed, rows) ==
  /\ booked = [r \in DOMAIN booked |-> booked[r]]
  /\ \A r \in DOMAIN booked : \E k \in confirmed : rows[k].request = r
  /\ \A k \in confirmed : /\ rows[k].request \in DOMAIN booked
                          /\ booked[rows[k].request] = rows[k].slot

\* A request has one confirmed appointment, so its slot is the slot of any of them.
LEMMA TableIsTable ==
  ASSUME NEW confirmed, NEW rows, OnePerRequest(confirmed, rows)
  PROVE  IsTable(Table(confirmed, rows), confirmed, rows)
<1>1. ASSUME NEW k \in confirmed
      PROVE  /\ rows[k].request \in DOMAIN Table(confirmed, rows)
             /\ Table(confirmed, rows)[rows[k].request] = rows[k].slot
  <2> DEFINE r == rows[k].request
             one == CHOOSE j \in confirmed : rows[j].request = r
  <2>1. one \in confirmed /\ rows[one].request = r
    OBVIOUS
  <2>2. one = k
    BY <2>1 DEF OnePerRequest
  <2>3. r \in {rows[j].request : j \in confirmed}
    OBVIOUS
  <2>4. Table(confirmed, rows)[r] = rows[one].slot /\ r \in DOMAIN Table(confirmed, rows)
    BY <2>3 DEF Table
  <2> QED
    BY <2>2, <2>4
<1>2. \A r \in DOMAIN Table(confirmed, rows) : \E k \in confirmed : rows[k].request = r
  BY DEF Table
<1>3. Table(confirmed, rows) =
        [r \in DOMAIN Table(confirmed, rows) |-> Table(confirmed, rows)[r]]
  BY DEF Table
<1> QED
  BY <1>1, <1>2, <1>3 DEF IsTable

\* What the proofs of the steps start from.
PromiseFacts ==
  /\ DataTypeOK /\ DataTypeOK' /\ SchedulingTypeOK /\ MovesOK
  /\ OnePerRequest(Confirmed, appointments)
  /\ IsTable(Booked, Confirmed, appointments)
  /\ IsTable(Booked', Confirmed', appointments')
  /\ \A k \in DOMAIN appointments : RowStays(k)

\* They hold for every step.
LEMMA PromiseFactsHold ==
  ASSUME BookingInv, BookingInv', [Next]_vars
  PROVE  PromiseFacts
<1>1. Booked = Table(Confirmed, appointments)
  BY DEF Booked, BookedRequests, BookedSlot, Request, Table
<1>2. Booked' = Table(Confirmed', appointments')
  BY DEF Booked, BookedRequests, BookedSlot, Request, Table
<1>3. DataTypeOK /\ DataTypeOK' /\ SchedulingTypeOK /\ MovesOK
  BY DEF BookingInv, MovesOK, SchedulingTypeOK
<1>4. OnePerRequest(Confirmed, appointments) /\ OnePerRequest(Confirmed', appointments')
  BY DEF BookingInv, OneBookingPerRequest, OnePerRequest, Request
<1>5. IsTable(Booked, Confirmed, appointments) /\ IsTable(Booked', Confirmed', appointments')
  BY <1>1, <1>2, <1>4, TableIsTable
<1> QED
  BY <1>3, <1>4, <1>5, RowsStay DEF PromiseFacts

\* When the same appointments are confirmed the table is the same.
LEMMA TableKept ==
  ASSUME PromiseFacts, Confirmed' = Confirmed
  PROVE  Booked' = Booked
<1>1. \A k \in Confirmed : /\ appointments'[k].request = appointments[k].request
                           /\ appointments'[k].slot = appointments[k].slot
  BY DEF PromiseFacts, RowStays, Confirmed
<1>2. DOMAIN Booked' = DOMAIN Booked
  BY <1>1 DEF PromiseFacts, IsTable
<1>3. ASSUME NEW r \in DOMAIN Booked PROVE Booked'[r] = Booked[r]
  <2>1. PICK k \in Confirmed : appointments[k].request = r
    BY DEF PromiseFacts, IsTable
  <2> QED
    BY <1>1, <2>1 DEF PromiseFacts, IsTable
<1> QED
  BY <1>2, <1>3 DEF PromiseFacts, IsTable

\* The table when an appointment becomes confirmed, perhaps in the place of others of the
\* same request.
LEMMA TableWithOneMore ==
  ASSUME PromiseFacts, NEW k \in DOMAIN appointments, NEW gone,
         \A j \in gone : j \in DOMAIN appointments /\ Request(j) = Request(k),
         Confirmed' = (Confirmed \ gone) \cup {k}
  PROVE  Booked' = [q \in DOMAIN Booked \cup {Request(k)} |->
                      IF q = Request(k) THEN appointments[k].slot ELSE Booked[q]]
<1> DEFINE wanted == [q \in DOMAIN Booked \cup {Request(k)} |->
                        IF q = Request(k) THEN appointments[k].slot ELSE Booked[q]]
<1>1. \A j \in Confirmed \cup {k} : /\ appointments'[j].request = appointments[j].request
                                    /\ appointments'[j].slot = appointments[j].slot
  BY DEF PromiseFacts, RowStays, Confirmed
<1>2. ASSUME NEW q PROVE q \in DOMAIN Booked' <=> q \in DOMAIN wanted
  <2>1. ASSUME q \in DOMAIN Booked' PROVE q \in DOMAIN wanted
    <3>1. PICK j \in Confirmed' : appointments'[j].request = q
      BY <2>1 DEF PromiseFacts, IsTable
    <3>2. CASE j = k
      BY <1>1, <3>1, <3>2 DEF Request
    <3>3. CASE j \in Confirmed
      BY <1>1, <3>1, <3>3 DEF PromiseFacts, IsTable
    <3> QED
      BY <3>2, <3>3
  <2>2. ASSUME q \in DOMAIN Booked, q # Request(k) PROVE q \in DOMAIN Booked'
    <3>1. PICK j \in Confirmed : appointments[j].request = q
      BY <2>2 DEF PromiseFacts, IsTable
    <3>2. j \in Confirmed' /\ appointments'[j].request = q
      BY <1>1, <2>2, <3>1 DEF Request
    <3> QED
      BY <3>2 DEF PromiseFacts, IsTable
  <2>3. Request(k) \in DOMAIN Booked'
    BY <1>1 DEF PromiseFacts, IsTable, Request
  <2> QED
    BY <2>1, <2>2, <2>3
<1>3. ASSUME NEW q \in DOMAIN wanted PROVE Booked'[q] = wanted[q]
  <2>1. CASE q = Request(k)
    BY <1>1, <2>1 DEF PromiseFacts, IsTable, Request
  <2>2. CASE q # Request(k)
    <3>1. PICK j \in Confirmed : appointments[j].request = q
      BY <1>3, <2>2 DEF PromiseFacts, IsTable
    <3>2. /\ j \in Confirmed' /\ appointments'[j].request = q
          /\ appointments'[j].slot = appointments[j].slot
      BY <1>1, <2>2, <3>1 DEF Request
    <3> QED
      BY <2>2, <3>1, <3>2 DEF PromiseFacts, IsTable
  <2> QED
    BY <2>1, <2>2
<1>4. Booked' = [q \in DOMAIN Booked' |-> Booked'[q]]
  BY DEF PromiseFacts, IsTable
<1>5. wanted = [q \in DOMAIN wanted |-> wanted[q]]
  OBVIOUS
<1> HIDE DEF wanted
<1>6. DOMAIN Booked' = DOMAIN wanted
  BY <1>2
<1>7. Booked' = wanted
  BY <1>3, <1>4, <1>5, <1>6
<1> QED
  BY <1>7 DEF wanted

\* The table when an appointment ceases to be confirmed.
LEMMA TableWithOneLess ==
  ASSUME PromiseFacts, NEW k \in Confirmed, Confirmed' = Confirmed \ {k}
  PROVE  /\ Request(k) \in DOMAIN Booked
         /\ Booked' = [q \in DOMAIN Booked \ {Request(k)} |-> Booked[q]]
<1>1. \A j \in Confirmed : /\ appointments'[j].request = appointments[j].request
                           /\ appointments'[j].slot = appointments[j].slot
  BY DEF PromiseFacts, RowStays, Confirmed
<1>2. \A j \in Confirmed : Request(j) = Request(k) => j = k
  BY DEF PromiseFacts, OnePerRequest, Request
<1>3. Request(k) \in DOMAIN Booked
  BY DEF PromiseFacts, IsTable, Request
<1>4. ASSUME NEW q \in DOMAIN Booked' PROVE q \in DOMAIN Booked \ {Request(k)}
  <2>1. PICK j \in Confirmed' : appointments'[j].request = q
    BY DEF PromiseFacts, IsTable
  <2> QED
    BY <1>1, <1>2, <2>1 DEF PromiseFacts, IsTable, Request
<1>5. ASSUME NEW q \in DOMAIN Booked \ {Request(k)}
      PROVE  q \in DOMAIN Booked' /\ Booked'[q] = Booked[q]
  <2>1. PICK j \in Confirmed : appointments[j].request = q
    BY DEF PromiseFacts, IsTable
  <2>2. j \in Confirmed' /\ appointments'[j].request = q
    BY <1>1, <2>1 DEF Request
  <2> QED
    BY <1>1, <2>1, <2>2 DEF PromiseFacts, IsTable
<1>6. Booked' = [q \in DOMAIN Booked' |-> Booked'[q]]
  BY DEF PromiseFacts, IsTable
<1>7. DOMAIN Booked' = DOMAIN Booked \ {Request(k)}
  BY <1>4, <1>5
<1> QED
  BY <1>3, <1>5, <1>6, <1>7

\* A request gets an appointment, or its appointment moves, to a slot that nobody else has.
LEMMA PromiseGiven ==
  ASSUME NEW r \in Requests, NEW s \in Slots, r \notin Dangerous, UNCHANGED Dangerous,
         \A q \in DOMAIN Booked \ {r} : ~Overlaps(s, Booked[q]),
         Booked' = [q \in DOMAIN Booked \cup {r} |-> IF q = r THEN s ELSE Booked[q]]
  PROVE  Promise!Next
<1>1. Promise!Free(r, s) /\ Promise!Give(r, s)
  BY DEF Promise!Free, Promise!Give, Booked
<1>2. r \in DOMAIN Booked => Promise!Move(r, s)
  BY <1>1 DEF Promise!Move, Booked
<1>3. r \notin DOMAIN Booked => Promise!Book(r, s)
  BY <1>1 DEF Promise!Book, Booked
<1> QED
  BY <1>2, <1>3 DEF Promise!Next

\* A request loses its appointment.
LEMMA PromiseDropped ==
  ASSUME NEW r \in Requests, r \in DOMAIN Booked, UNCHANGED Dangerous,
         Booked' = [q \in DOMAIN Booked \ {r} |-> Booked[q]]
  PROVE  Promise!Next
BY DEF Promise!Next, Promise!Drop, Booked

\* A request turns out to be dangerous.
LEMMA PromiseFlagged ==
  ASSUME NEW r \in Requests, r \notin Dangerous, Dangerous' = Dangerous \cup {r},
         UNCHANGED Booked
  PROVE  Promise!Next
BY DEF Promise!Next, Promise!Flag, Booked

\* Nothing that module Bookings knows of changes.
LEMMA PromiseStutters ==
  UNCHANGED <<Booked, Dangerous>> => UNCHANGED Promise!bookingVars
BY DEF Promise!bookingVars, Booked

\* Which steps write the table of requests.
LEMMA RequestWriters ==
  ASSUME [Next]_vars
  PROVE  \/ UNCHANGED requests
         \/ \E r \in Requests, hazardous \in BOOLEAN : CreateRequest(r, hazardous)
         \/ \E r \in Requests : FlagHazard(r)
         \/ \E k \in Keys : Confirm(k) \/ Cancel(k)
         \/ \E old, new \in Keys : CompleteReschedule(old, new)
<1>1. CASE UNCHANGED dataVars
  BY <1>1 DEF dataVars
<1>2. CASE ServiceStep
  BY <1>2
  DEF ServiceStep, Configure, Reserve, PlaceHold, ReleaseHold, ConfirmLost, dataVars
<1>3. CASE RescheduleStep
  BY <1>3
  DEF RescheduleStep, BeginReschedule, PlaceHold, ResumeReschedule, RescheduleLost,
      AbandonReschedule, dataVars
<1>4. CASE CalendarStep \/ PersonStep \/ Tick \/ UNCHANGED vars
  BY <1>1, <1>4
  DEF CalendarStep, ReconcileBookingJob, ReconcileBookingLost, ReconcileConnectionJob,
      Disconnect, BeginConnect, FinishConnect, AbandonConnect, othersOfReconcile,
      PersonStep, PersonMoves, PersonTogglesEvent, PersonTogglesBusy, Tick, vars
<1>5. CASE DeliveryStep
  BY <1>1, <1>5
  DEF DeliveryStep, SkipObsolete, PostponeDelivery, SkipReminder, GiveUp, StampFirstAttempt,
      SendAccepted, SendRejected, SendAnswerLost, SendCrashed, ApplyReports, ReceiveReport,
      othersOfDelivery
<1> QED
  BY <1>2, <1>3, <1>4, <1>5 DEF Next

\* A new status does not change who is dangerous.
LEMMA StatusIsHarmless ==
  ASSUME DataTypeOK, NEW r, NEW status, requests' = SetRequest(r, status)
  PROVE  UNCHANGED Dangerous
BY DEF DataTypeOK, ServiceRequest, SetRequest, Dangerous

\* The slot that a hold was given is free of the appointments of all other requests.
LEMMA FreeOfOthers ==
  ASSUME PromiseFacts, NEW r, NEW s, NEW except, NoConflict(r, s, except),
         \A k \in except \cap Confirmed : Request(k) = r
  PROVE  \A q \in DOMAIN Booked \ {r} : ~Overlaps(s, Booked[q])
<1> SUFFICES ASSUME NEW q \in DOMAIN Booked \ {r} PROVE ~Overlaps(s, Booked[q])
  OBVIOUS
<1>1. PICK k \in Confirmed : appointments[k].request = q
  BY DEF PromiseFacts, IsTable
<1>2. Booked[q] = appointments[k].slot
  BY <1>1 DEF PromiseFacts, IsTable
<1>3. k \in Busy \ except
  BY <1>1 DEF Confirmed, Busy, Request
<1> QED
  BY <1>2, <1>3 DEF NoConflict

PromiseKept == [Promise!Next]_(Promise!bookingVars)

\* Reporting a danger.
LEMMA FlagKeepsPromise ==
  ASSUME PromiseFacts, NEW r \in Requests,
         FlagHazard(r) \/ \E hazardous \in BOOLEAN : CreateRequest(r, hazardous)
  PROVE  PromiseKept
<1>1. DataTypeOK
  BY DEF PromiseFacts
<1>2. Confirmed' = Confirmed
  BY <1>1 DEF FlagHazard, CreateRequest, Confirmed, DataTypeOK, Appointment
<1>3. UNCHANGED Booked
  BY <1>2, TableKept
<1>4. Dangerous' \in {Dangerous, Dangerous \cup {r}}
  <2>1. ASSUME FlagHazard(r) PROVE Dangerous' = Dangerous \cup {r}
    BY <1>1, <2>1 DEF FlagHazard, Dangerous, DataTypeOK, ServiceRequest
  <2>2. ASSUME NEW hazardous \in BOOLEAN, CreateRequest(r, hazardous)
        PROVE  Dangerous' = IF hazardous THEN Dangerous \cup {r} ELSE Dangerous
    BY <1>1, <2>2 DEF CreateRequest, Write, Dangerous, DataTypeOK, ServiceRequest
  <2> QED
    BY <2>1, <2>2
<1>5. CASE UNCHANGED Dangerous
  BY <1>3, <1>5, PromiseStutters DEF PromiseKept
<1>6. CASE Dangerous' = Dangerous \cup {r} /\ r \notin Dangerous
  BY <1>3, <1>6, PromiseFlagged DEF PromiseKept
<1> QED
  BY <1>4, <1>5, <1>6

\* Confirming books.
LEMMA ConfirmKeepsPromise ==
  ASSUME PromiseFacts, NEW k, Confirm(k)
  PROVE  PromiseKept
<1>1. DataTypeOK
  BY DEF PromiseFacts
<1>2. /\ k \in DOMAIN appointments
      /\ Confirmed' = Confirmed \cup {k}
      /\ NoConflict(Request(k), appointments[k].slot, {k})
      /\ ~requests[Request(k)].hazardous
      /\ requests' = SetRequest(Request(k), "BOOKED")
  BY <1>1, BusyWhenConfirmed DEF Confirm, CanConfirm, Bookable
<1>3. Request(k) \in Requests /\ appointments[k].slot \in Slots
  BY <1>1, <1>2 DEF DataTypeOK, Appointment, Request
<1>4. Request(k) \notin Dangerous /\ UNCHANGED Dangerous
  BY <1>1, <1>2, StatusIsHarmless DEF Dangerous
<1>5. Booked' = [q \in DOMAIN Booked \cup {Request(k)} |->
                   IF q = Request(k) THEN appointments[k].slot ELSE Booked[q]]
  <2>1. Confirmed' = (Confirmed \ {k}) \cup {k}
    BY <1>2
  <2> QED
    BY <1>2, <2>1, TableWithOneMore
<1>6. \A q \in DOMAIN Booked \ {Request(k)} : ~Overlaps(appointments[k].slot, Booked[q])
  BY <1>2, FreeOfOthers
<1> QED
  BY <1>3, <1>4, <1>5, <1>6, PromiseGiven DEF PromiseKept

\* Cancelling drops a confirmed appointment; a hold was never promised.
LEMMA CancelKeepsPromise ==
  ASSUME PromiseFacts, NEW k, Cancel(k)
  PROVE  PromiseKept
<1>1. DataTypeOK
  BY DEF PromiseFacts
<1>2. /\ k \in DOMAIN appointments
      /\ Confirmed' = Confirmed \ {k}
      /\ requests' = SetRequest(Request(k), "OPEN")
  BY <1>1, BusyWhenCancelled
<1>3. UNCHANGED Dangerous /\ Request(k) \in Requests
  BY <1>1, <1>2, StatusIsHarmless DEF DataTypeOK, Appointment, Request
<1>4. CASE k \in Confirmed
  BY <1>2, <1>3, <1>4, TableWithOneLess, PromiseDropped DEF PromiseKept
<1>5. CASE k \notin Confirmed
  BY <1>2, <1>3, <1>5, TableKept, PromiseStutters DEF PromiseKept
<1> QED
  BY <1>4, <1>5

\* The second transaction of a reschedule moves, or books if only a hold was moved.
LEMMA SwapKeepsPromise ==
  ASSUME PromiseFacts, NEW old, NEW new, CompleteReschedule(old, new)
  PROVE  PromiseKept
<1>1. DataTypeOK /\ SchedulingTypeOK
  BY DEF PromiseFacts
<1>2. /\ new \in DOMAIN appointments /\ old \in DOMAIN appointments
      /\ Request(old) = Request(new)
      /\ ~requests[Request(new)].hazardous
  BY DEF CompleteReschedule, CanSwap, Bookable, MayMove, PromiseFacts, MovesOK
<1>3. /\ Confirmed' = (Confirmed \ {old}) \cup {new}
      /\ NoConflict(Request(new), appointments[new].slot, {new, old})
      /\ requests' = SetRequest(Request(old), "BOOKED")
  BY <1>1, BusyWhenSwapped
<1>4. Request(new) \in Requests /\ appointments[new].slot \in Slots
  BY <1>1, <1>2 DEF DataTypeOK, Appointment, Request
<1>5. Request(new) \notin Dangerous /\ UNCHANGED Dangerous
  BY <1>1, <1>2, <1>3, StatusIsHarmless DEF Dangerous
<1>6. Booked' = [q \in DOMAIN Booked \cup {Request(new)} |->
                   IF q = Request(new) THEN appointments[new].slot ELSE Booked[q]]
  BY <1>2, <1>3, TableWithOneMore
<1>7. \A q \in DOMAIN Booked \ {Request(new)} : ~Overlaps(appointments[new].slot, Booked[q])
  BY <1>2, <1>3, FreeOfOthers
<1> QED
  BY <1>4, <1>5, <1>6, <1>7, PromiseGiven DEF PromiseKept

\* Every step of the system is a step of module Bookings, or changes nothing there.
LEMMA PromiseStep ==
  ASSUME BookingInv, BookingInv', [Next]_vars
  PROVE  PromiseKept
<1>1. PromiseFacts
  BY PromiseFactsHold
<1>2. DataTypeOK /\ DataTypeOK'
  BY DEF BookingInv
<1>3. CASE Confirmed' = Confirmed /\ UNCHANGED requests
  BY <1>1, <1>3, TableKept, PromiseStutters DEF PromiseKept, Dangerous
<1>4. CASE UNCHANGED requests
  <2>1. CASE Quiet
    BY <1>2, <1>3, <1>4, <2>1, BusyWhenHoldsEnd DEF Quiet
  <2>2. ASSUME NEW k, NEW r, NEW s, NEW replaced, HoldPlaced(k, r, s, replaced)
        PROVE  PromiseKept
    BY <1>2, <1>3, <1>4, <2>2, BusyWhenPlaced
  <2> QED
    BY <1>1, <1>2, <2>1, <2>2, ConfirmKeepsPromise, CancelKeepsPromise, SwapKeepsPromise,
       StepKinds DEF Booking
<1> QED
  BY <1>1, <1>4, FlagKeepsPromise, ConfirmKeepsPromise, CancelKeepsPromise, SwapKeepsPromise,
     RequestWriters

\* The scheduling service, with its holds, keys, two-transaction reschedules, calendars and
\* clocks, implements module Bookings for any number of everything.
THEOREM ServiceKeepsPromise == Spec => KeepsPromise
<1>1. Init => Promise!Init
  BY DEF Init, DataInit, NoRows, Promise!Init, BookedRequests, Confirmed, Dangerous
<1>2. BookingInv /\ BookingInv' /\ [Next]_vars => [Promise!Next]_(Promise!bookingVars)
  BY PromiseStep DEF PromiseKept
<1> QED
  BY <1>1, <1>2, BookingInvariant, PTL DEF Spec, KeepsPromise, Promise!Spec
=============================================================================
