------------------------ MODULE BookingSystem_proofs ------------------------
(***************************************************************************)
(* Proofs about BookingSystem for any number of requests, keys, teams,     *)
(* slots and settings.                                                     *)
(*                                                                         *)
(* Most steps either leave the appointments alone or only end holds, and   *)
(* the arguments need to know no more of them than that: HoldsEnd.  What   *)
(* remains is to look at the four steps that do something else: a hold is  *)
(* placed, a hold is confirmed, an appointment is cancelled, and an        *)
(* appointment is swapped for its replacement.                             *)
(***************************************************************************)
EXTENDS BookingSystem, TLAPS

----------------------------------------------------------------------------
(* Types of the rows. *)

\* Writing a row of the right type keeps the type of a table.
LEMMA WriteTyped ==
  ASSUME NEW S, NEW Ids, NEW table \in [Ids -> S], NEW id, NEW row \in S
  PROVE  Write(table, id, row) \in [Ids \cup {id} -> S]
BY DEF Write

\* A new status is all that SetStatus() changes.
LEMMA SetStatusTyped ==
  ASSUME DataTypeOK, NEW k, NEW status \in AppointmentStatus
  PROVE  SetStatus(k, status) \in [DOMAIN appointments -> Appointment]
BY DEF SetStatus, DataTypeOK, Appointment

\* SetRequest() likewise.
LEMMA SetRequestTyped ==
  ASSUME DataTypeOK, NEW r, NEW status \in RequestStatus
  PROVE  SetRequest(r, status) \in [DOMAIN requests -> ServiceRequest]
BY DEF SetRequest, DataTypeOK, ServiceRequest

\* A new hold is an appointment.
LEMMA PlaceHoldTyped ==
  ASSUME DataTypeOK, NEW k \in Keys, NEW r \in Requests, NEW s \in Slots, NEW replaced,
         PlaceHold(k, r, s, replaced)
  PROVE  DataTypeOK'
<1> DEFINE row == [request |-> r, slot |-> s, status |-> "HELD",
                   hold_expires |-> now + HoldTime]
<1>1. row \in Appointment
  BY TimeAssumption DEF DataTypeOK, Appointment, AppointmentStatus
<1>2. appointments' \in [DOMAIN appointments \cup {k} -> Appointment]
  BY <1>1, WriteTyped DEF PlaceHold, DataTypeOK
<1>3. UNCHANGED <<now, schedule, requests, rescheduled>>
  BY DEF PlaceHold
<1> QED BY <1>2, <1>3 DEF DataTypeOK

\* The end of a reconciliation.
LEMMA ReconcileTyped ==
  ASSUME DataTypeOK, NEW k, ReconcileBooking(k),
         UNCHANGED <<now, schedule, requests, rescheduled>>
  PROVE  DataTypeOK'
<1>1. appointments' \in {appointments, SetStatus(k, "EXPIRED")}
  BY DEF ReconcileBooking, CleanedUp, Verified, NeedsAttention, Unauthorized
<1>2. appointments' \in [DOMAIN appointments -> Appointment]
  BY <1>1, SetStatusTyped DEF AppointmentStatus, DataTypeOK
<1> QED BY <1>2 DEF DataTypeOK

\* The calls of the scheduling service write rows of the right type.
LEMMA ServiceTyped == DataTypeOK /\ ServiceStep => DataTypeOK'
<1> SUFFICES ASSUME DataTypeOK, ServiceStep PROVE DataTypeOK'
  OBVIOUS
<1>1. ASSUME NEW c \in Configurations, Configure(c) PROVE DataTypeOK'
  BY <1>1, TimeAssumption DEF Configure, DataTypeOK
<1>2. ASSUME NEW r \in Requests, NEW hazardous \in BOOLEAN, CreateRequest(r, hazardous)
      PROVE  DataTypeOK'
  <2> DEFINE row == [status |-> IF hazardous THEN "HANDOFF_REQUESTED" ELSE "OPEN",
                     hazardous |-> hazardous]
  <2>1. row \in ServiceRequest
    BY DEF ServiceRequest, RequestStatus
  <2>2. requests' \in [DOMAIN requests \cup {r} -> ServiceRequest]
    BY <1>2, <2>1, WriteTyped DEF CreateRequest, DataTypeOK
  <2> QED BY <1>2, <2>2 DEF CreateRequest, DataTypeOK
<1>3. ASSUME NEW r \in Requests, FlagHazard(r) PROVE DataTypeOK'
  <2>1. requests' \in [DOMAIN requests -> ServiceRequest]
    BY <1>3 DEF FlagHazard, DataTypeOK, ServiceRequest, RequestStatus
  <2>2. appointments' \in [DOMAIN appointments -> Appointment]
    BY <1>3 DEF FlagHazard, DataTypeOK, Appointment, AppointmentStatus
  <2> QED BY <1>3, <2>1, <2>2 DEF FlagHazard, DataTypeOK
<1>4. ASSUME NEW r \in Requests, NEW k \in Keys, NEW s \in Slots, Reserve(k, r, s)
      PROVE  DataTypeOK'
  BY <1>4, PlaceHoldTyped DEF Reserve
<1>5. ASSUME NEW k \in Keys, ReleaseHold(k) PROVE DataTypeOK'
  BY <1>5, SetStatusTyped DEF ReleaseHold, DataTypeOK, AppointmentStatus
<1>6. ASSUME NEW k \in Keys, Confirm(k) PROVE DataTypeOK'
  <2>1. requests' \in [DOMAIN requests -> ServiceRequest]
    BY <1>6, SetRequestTyped DEF Confirm, RequestStatus
  <2>2. appointments' \in [DOMAIN appointments -> Appointment]
    BY <1>6, SetStatusTyped DEF Confirm, AppointmentStatus
  <2> QED BY <1>6, <2>1, <2>2 DEF Confirm, DataTypeOK
<1>7. ASSUME NEW k \in Keys, ConfirmLost(k) PROVE DataTypeOK'
  BY <1>7 DEF ConfirmLost, dataVars, DataTypeOK
<1>8. ASSUME NEW k \in Keys, Cancel(k) PROVE DataTypeOK'
  <2>1. requests' \in [DOMAIN requests -> ServiceRequest]
    BY <1>8, SetRequestTyped DEF Cancel, RequestStatus
  <2>2. appointments' \in [DOMAIN appointments -> Appointment]
    BY <1>8, SetStatusTyped DEF Cancel, AppointmentStatus
  <2> QED BY <1>8, <2>1, <2>2 DEF Cancel, DataTypeOK
<1> QED BY <1>1, <1>2, <1>3, <1>4, <1>5, <1>6, <1>7, <1>8 DEF ServiceStep

\* So do the two transactions of reschedule(), on appointments that moves refers to.
LEMMA RescheduleTyped == DataTypeOK /\ SchedulingTypeOK /\ RescheduleStep => DataTypeOK'
<1> SUFFICES ASSUME DataTypeOK, SchedulingTypeOK, NEW old \in Keys, NEW new \in Keys,
                    \/ \E s \in Slots : BeginReschedule(old, new, s)
                    \/ ResumeReschedule(old, new)
                    \/ CompleteReschedule(old, new)
                    \/ RescheduleLost(old, new)
                    \/ AbandonReschedule(old, new)
             PROVE  DataTypeOK'
  BY DEF RescheduleStep
<1>1. ASSUME NEW s \in Slots, BeginReschedule(old, new, s) PROVE DataTypeOK'
  <2>1. Request(old) \in Requests
    BY <1>1 DEF BeginReschedule, MayMove, Request, DataTypeOK, Appointment
  <2> QED BY <1>1, <2>1, PlaceHoldTyped DEF BeginReschedule
<1>2. CASE CompleteReschedule(old, new)
  <2>1. requests' \in [DOMAIN requests -> ServiceRequest]
    BY <1>2, SetRequestTyped DEF CompleteReschedule, RequestStatus
  <2>2. appointments' \in [DOMAIN appointments -> Appointment]
    BY <1>2 DEF CompleteReschedule, DataTypeOK, Appointment, AppointmentStatus
  <2>3. new \in DOMAIN appointments
    BY <1>2 DEF CompleteReschedule, CanSwap, SchedulingTypeOK
  <2> QED BY <1>2, <2>1, <2>2, <2>3 DEF CompleteReschedule, DataTypeOK
<1>3. CASE ResumeReschedule(old, new) \/ RescheduleLost(old, new) \/ AbandonReschedule(old, new)
  BY <1>3 DEF ResumeReschedule, RescheduleLost, AbandonReschedule, dataVars, DataTypeOK
<1> QED BY <1>1, <1>2, <1>3

\* Calendar jobs and connection routes change appointments only by expiring a hold.
LEMMA CalendarStepTyped == DataTypeOK /\ CalendarStep => DataTypeOK'
<1> SUFFICES ASSUME DataTypeOK, CalendarStep PROVE DataTypeOK'
  OBVIOUS
<1>1. ASSUME NEW k \in Keys, ReconcileBookingJob(k) PROVE DataTypeOK'
  BY <1>1, ReconcileTyped DEF ReconcileBookingJob, othersOfReconcile
<1>2. ASSUME NEW team \in Teams, ReconcileConnectionJob(team) PROVE DataTypeOK'
  BY <1>2 DEF ReconcileConnectionJob, Unauthorized, othersOfReconcile, DataTypeOK
<1>3. CASE UNCHANGED dataVars
  BY <1>3 DEF dataVars, DataTypeOK
<1> QED
  BY <1>1, <1>2, <1>3
  DEF CalendarStep, ReconcileBookingLost, Disconnect, BeginConnect, FinishConnect, AbandonConnect

\* A delivery changes appointments only through the reconciliation it makes.
LEMMA DeliveryReconciles ==
  ASSUME NEW n \in Notice, CalendarInOrder(n)
  PROVE  UNCHANGED appointments \/ ReconcileBooking(n.key)
BY DEF CalendarInOrder, Verified

\* A delivery of mail expires a hold at most, through the reconciliation it makes.
LEMMA DeliveryTyped == DataTypeOK /\ DeliveryStep => DataTypeOK'
<1> SUFFICES ASSUME DataTypeOK, DeliveryStep PROVE DataTypeOK'
  OBVIOUS
<1>1. PICK n \in Notice :
        \/ SkipObsolete(n) \/ PostponeDelivery(n) \/ SkipReminder(n) \/ GiveUp(n)
        \/ StampFirstAttempt(n)
        \/ SendAccepted(n) \/ SendRejected(n) \/ SendAnswerLost(n) \/ SendCrashed(n)
        \/ ApplyReports(n)
        \/ \E status \in Reports : ReceiveReport(n, status)
  BY DEF DeliveryStep
<1>2. CASE UNCHANGED dataVars
  BY <1>2 DEF dataVars, DataTypeOK
<1>3. CASE /\ UNCHANGED othersOfDelivery
           /\ UNCHANGED appointments \/ ReconcileBooking(n.key)
  <2>1. UNCHANGED <<now, schedule, requests, rescheduled>>
    BY <1>3 DEF othersOfDelivery
  <2>2. CASE UNCHANGED appointments
    BY <2>1, <2>2 DEF DataTypeOK
  <2>3. CASE ReconcileBooking(n.key)
    BY <2>1, <2>3, ReconcileTyped
  <2> QED BY <1>3, <2>2, <2>3
<1>4. CASE SkipObsolete(n) \/ SendCrashed(n) \/ ApplyReports(n)
             \/ \E status \in Reports : ReceiveReport(n, status)
  BY <1>2, <1>4 DEF SkipObsolete, SendCrashed, ApplyReports, ReceiveReport
<1>5. CASE PostponeDelivery(n) \/ SkipReminder(n) \/ GiveUp(n) \/ StampFirstAttempt(n)
             \/ SendAccepted(n) \/ SendRejected(n) \/ SendAnswerLost(n)
  BY <1>3, <1>5, DeliveryReconciles
  DEF PostponeDelivery, SkipReminder, GiveUp, StampFirstAttempt,
      SendAccepted, SendRejected, SendAnswerLost
<1> QED BY <1>1, <1>4, <1>5

\* Every step keeps the tables of BookingData typed.
LEMMA DataStep == DataTypeOK /\ SchedulingTypeOK /\ [Next]_vars => DataTypeOK'
<1> SUFFICES ASSUME DataTypeOK, SchedulingTypeOK, [Next]_vars PROVE DataTypeOK'
  OBVIOUS
<1>1. CASE PersonStep \/ UNCHANGED vars
  BY <1>1
  DEF PersonStep, PersonMoves, PersonTogglesEvent, PersonTogglesBusy, vars, dataVars, DataTypeOK
<1>2. CASE Tick
  BY <1>2, TimeAssumption DEF Tick, DataTypeOK
<1> QED
  BY <1>1, <1>2, ServiceTyped, RescheduleTyped, CalendarStepTyped, DeliveryTyped DEF Next

----------------------------------------------------------------------------
(* What a step does to appointments and requests. *)

\* Every appointment stays as it is, or is a hold that ends; time does not run backwards.
HoldsEnd ==
  /\ now' >= now
  /\ DOMAIN appointments' = DOMAIN appointments
  /\ \A k \in DOMAIN appointments :
       \/ appointments'[k] = appointments[k]
       \/ /\ appointments[k].status = "HELD"
          /\ appointments'[k].request = appointments[k].request
          /\ appointments'[k].slot = appointments[k].slot
          /\ appointments'[k].status \in {"CANCELLED", "EXPIRED"}

\* No request becomes booked, and none that needs a human stops to need one.
NoneBooked ==
  /\ DOMAIN requests \subseteq DOMAIN requests'
  /\ \A r \in DOMAIN requests' :
       requests'[r].status = "BOOKED" => r \in DOMAIN requests /\ requests[r].status = "BOOKED"
  /\ \A r \in DOMAIN requests : requests[r].hazardous => requests'[r].hazardous

Quiet == HoldsEnd /\ NoneBooked

\* A hold is placed for request r, which may have the appointment in replaced already.
HoldPlaced(k, r, s, replaced) ==
  /\ PlaceHold(k, r, s, replaced)
  /\ \A old \in replaced : old \in DOMAIN appointments /\ Request(old) = r
  /\ \A i, j \in replaced : i = j

Booking ==
  \/ \E k \in Keys, r \in Requests, s \in Slots, replaced \in SUBSET Keys :
       HoldPlaced(k, r, s, replaced)
  \/ \E k \in Keys : Confirm(k) \/ Cancel(k)
  \/ \E old, new \in Keys : CompleteReschedule(old, new)

\* A step that leaves time, requests and appointments alone is quiet.
LEMMA QuietWhenUnchanged ==
  ASSUME DataTypeOK, UNCHANGED <<now, requests, appointments>>
  PROVE  Quiet
BY DEF Quiet, HoldsEnd, NoneBooked, DataTypeOK

\* reconcile_booking() does nothing to appointments but let a lapsed hold expire.
LEMMA QuietReconcile ==
  ASSUME DataTypeOK, NEW k, ReconcileBooking(k), UNCHANGED <<now, requests>>
  PROVE  Quiet
<1>1. \/ UNCHANGED appointments
      \/ appointments[k].status = "HELD" /\ appointments' = SetStatus(k, "EXPIRED")
  BY DEF ReconcileBooking, CleanedUp, Verified, NeedsAttention, Unauthorized
<1>2. CASE UNCHANGED appointments
  BY <1>2, QuietWhenUnchanged
<1>3. CASE appointments[k].status = "HELD" /\ appointments' = SetStatus(k, "EXPIRED")
  BY <1>3 DEF Quiet, HoldsEnd, NoneBooked, SetStatus, DataTypeOK, Appointment
<1> QED BY <1>1, <1>2, <1>3

\* What a call of the scheduling service does to appointments.
LEMMA ServiceKinds == DataTypeOK /\ ServiceStep => Quiet \/ Booking
<1> SUFFICES ASSUME DataTypeOK, ServiceStep PROVE Quiet \/ Booking
  OBVIOUS
<1>1. ASSUME NEW r \in Requests, NEW hazardous \in BOOLEAN, CreateRequest(r, hazardous)
      PROVE  Quiet
  BY <1>1 DEF CreateRequest, Write, Quiet, HoldsEnd, NoneBooked, DataTypeOK
<1>2. ASSUME NEW r \in Requests, FlagHazard(r) PROVE Quiet
  <2>1. HoldsEnd
    BY <1>2 DEF FlagHazard, Request, HoldsEnd, DataTypeOK, Appointment
  <2>2. NoneBooked
    BY <1>2 DEF FlagHazard, NoneBooked, DataTypeOK, ServiceRequest
  <2> QED BY <2>1, <2>2 DEF Quiet
<1>3. ASSUME NEW r \in Requests, NEW k \in Keys, NEW s \in Slots, Reserve(k, r, s)
      PROVE  Booking
  BY <1>3 DEF Reserve, Booking, HoldPlaced
<1>4. ASSUME NEW k \in Keys, ReleaseHold(k) PROVE Quiet
  BY <1>4 DEF ReleaseHold, SetStatus, Quiet, HoldsEnd, NoneBooked, DataTypeOK, Appointment
<1>5. CASE UNCHANGED <<now, requests, appointments>>
  BY <1>5, QuietWhenUnchanged
<1> QED
  BY <1>1, <1>2, <1>3, <1>4, <1>5 DEF ServiceStep, Configure, ConfirmLost, dataVars, Booking

\* A delivery never books anything.
LEMMA DeliveryQuiet == DataTypeOK /\ DeliveryStep => Quiet
<1> SUFFICES ASSUME DataTypeOK, DeliveryStep PROVE Quiet
  OBVIOUS
<1>1. PICK n \in Notice :
        \/ SkipObsolete(n) \/ PostponeDelivery(n) \/ SkipReminder(n) \/ GiveUp(n)
        \/ StampFirstAttempt(n)
        \/ SendAccepted(n) \/ SendRejected(n) \/ SendAnswerLost(n) \/ SendCrashed(n)
        \/ ApplyReports(n)
        \/ \E status \in Reports : ReceiveReport(n, status)
  BY DEF DeliveryStep
<1>2. CASE UNCHANGED dataVars
  BY <1>2, QuietWhenUnchanged DEF dataVars
<1>3. CASE /\ UNCHANGED othersOfDelivery
           /\ UNCHANGED appointments \/ ReconcileBooking(n.key)
  BY <1>3, QuietWhenUnchanged, QuietReconcile DEF othersOfDelivery
<1>4. CASE SkipObsolete(n) \/ SendCrashed(n) \/ ApplyReports(n)
             \/ \E status \in Reports : ReceiveReport(n, status)
  BY <1>2, <1>4 DEF SkipObsolete, SendCrashed, ApplyReports, ReceiveReport
<1>5. CASE PostponeDelivery(n) \/ SkipReminder(n) \/ GiveUp(n) \/ StampFirstAttempt(n)
             \/ SendAccepted(n) \/ SendRejected(n) \/ SendAnswerLost(n)
  BY <1>3, <1>5, DeliveryReconciles
  DEF PostponeDelivery, SkipReminder, GiveUp, StampFirstAttempt,
      SendAccepted, SendRejected, SendAnswerLost
<1> QED BY <1>1, <1>4, <1>5

\* Every step is quiet or one of the four that the proofs below look at.
LEMMA StepKinds == DataTypeOK /\ [Next]_vars => Quiet \/ Booking
<1> SUFFICES ASSUME DataTypeOK, [Next]_vars PROVE Quiet \/ Booking
  OBVIOUS
<1>1. CASE UNCHANGED <<now, requests, appointments>>
  BY <1>1, QuietWhenUnchanged
<1>2. CASE RescheduleStep
  <2>1. ASSUME NEW old \in Keys, NEW new \in Keys, NEW s \in Slots,
               BeginReschedule(old, new, s)
        PROVE  Booking
    <3>1. old \in DOMAIN appointments /\ Request(old) \in Requests
      BY <2>1 DEF BeginReschedule, MayMove, Request, DataTypeOK, Appointment
    <3> QED BY <2>1, <3>1 DEF BeginReschedule, Booking, HoldPlaced
  <2> QED
    BY <1>1, <1>2, <2>1
    DEF RescheduleStep, ResumeReschedule, RescheduleLost, AbandonReschedule, dataVars, Booking
<1>3. CASE CalendarStep
  <2>1. ASSUME NEW k \in Keys, ReconcileBookingJob(k) PROVE Quiet
    BY <2>1, QuietReconcile DEF ReconcileBookingJob, othersOfReconcile
  <2> QED
    BY <1>1, <1>3, <2>1
    DEF CalendarStep, ReconcileBookingLost, ReconcileConnectionJob, Unauthorized,
        othersOfReconcile, Disconnect, BeginConnect, FinishConnect, AbandonConnect, dataVars
<1>4. CASE PersonStep \/ UNCHANGED vars
  BY <1>1, <1>4 DEF PersonStep, PersonMoves, PersonTogglesEvent, PersonTogglesBusy, vars, dataVars
<1>5. CASE Tick
  BY <1>5 DEF Tick, Quiet, HoldsEnd, NoneBooked, DataTypeOK
<1> QED
  BY <1>2, <1>3, <1>4, <1>5, ServiceKinds, DeliveryQuiet DEF Next

----------------------------------------------------------------------------
(* No double bookings. *)

\* When holds only end, nothing new becomes busy and nothing becomes confirmed.
LEMMA BusyWhenHoldsEnd ==
  ASSUME DataTypeOK, DataTypeOK', HoldsEnd
  PROVE  /\ Busy' \subseteq Busy
         /\ Confirmed' = Confirmed
         /\ \A k \in Busy' : appointments'[k] = appointments[k]
<1>1. \A k \in Busy' : appointments'[k] = appointments[k]
  BY DEF HoldsEnd, Busy, LiveHold
<1>2. Busy' \subseteq Busy
  BY <1>1 DEF HoldsEnd, Busy, LiveHold, DataTypeOK, Appointment
<1>3. Confirmed' = Confirmed
  BY DEF HoldsEnd, Confirmed
<1> QED BY <1>1, <1>2, <1>3

\* The effect of a new hold on what is busy.
LEMMA BusyWhenPlaced ==
  ASSUME DataTypeOK, NEW k, NEW r, NEW s, NEW replaced, HoldPlaced(k, r, s, replaced)
  PROVE  /\ k \notin DOMAIN appointments
         /\ Busy' \subseteq Busy \cup {k}
         /\ Confirmed' = Confirmed
         /\ appointments'[k].request = r
         /\ appointments'[k].slot = s
         /\ appointments'[k].status = "HELD"
         /\ \A j \in DOMAIN appointments : j # k /\ appointments'[j] = appointments[j]
         /\ DOMAIN appointments' = DOMAIN appointments \cup {k}
         /\ UNCHANGED <<now, requests>>
<1>1. /\ k \notin DOMAIN appointments
      /\ DOMAIN appointments' = DOMAIN appointments \cup {k}
      /\ appointments'[k] = [request |-> r, slot |-> s, status |-> "HELD",
                             hold_expires |-> now + HoldTime]
      /\ \A j \in DOMAIN appointments : j # k /\ appointments'[j] = appointments[j]
      /\ UNCHANGED <<now, requests>>
  BY DEF HoldPlaced, PlaceHold, Write
<1>2. Confirmed' = Confirmed
  BY <1>1 DEF Confirmed
<1>3. Busy' \subseteq Busy \cup {k}
  BY <1>1 DEF Busy, LiveHold
<1> QED BY <1>1, <1>2, <1>3

\* Confirming a live hold.
LEMMA BusyWhenConfirmed ==
  ASSUME DataTypeOK, NEW k, Confirm(k)
  PROVE  /\ k \in Busy
         /\ Busy' \subseteq Busy
         /\ Confirmed' = Confirmed \cup {k}
         /\ DOMAIN appointments' = DOMAIN appointments
         /\ \A j \in DOMAIN appointments :
              /\ appointments'[j].request = appointments[j].request
              /\ appointments'[j].slot = appointments[j].slot
         /\ NoConflict(Request(k), appointments[k].slot, {k})
<1>1. /\ k \in DOMAIN appointments
      /\ LiveHold(k)
      /\ appointments' = SetStatus(k, "CONFIRMED")
      /\ now' = now
      /\ NoConflict(Request(k), appointments[k].slot, {k})
  BY DEF Confirm, CanConfirm
<1>2. /\ appointments'[k].status = "CONFIRMED"
      /\ \A j \in DOMAIN appointments : j # k => appointments'[j] = appointments[j]
      /\ DOMAIN appointments' = DOMAIN appointments
      /\ \A j \in DOMAIN appointments :
           /\ appointments'[j].request = appointments[j].request
           /\ appointments'[j].slot = appointments[j].slot
  BY <1>1 DEF SetStatus, DataTypeOK, Appointment
<1>3. Busy' \subseteq Busy /\ k \in Busy
  BY <1>1, <1>2 DEF Busy, LiveHold
<1>4. Confirmed' = Confirmed \cup {k}
  BY <1>1, <1>2 DEF Confirmed
<1> QED BY <1>1, <1>2, <1>3, <1>4

\* Cancelling.
LEMMA BusyWhenCancelled ==
  ASSUME DataTypeOK, NEW k, Cancel(k)
  PROVE  /\ k \in DOMAIN appointments
         /\ Busy' \subseteq Busy \ {k}
         /\ Confirmed' = Confirmed \ {k}
         /\ DOMAIN appointments' = DOMAIN appointments
         /\ \A j \in DOMAIN appointments : j # k => appointments'[j] = appointments[j]
         /\ appointments'[k].request = appointments[k].request
         /\ appointments'[k].slot = appointments[k].slot
         /\ requests' = SetRequest(Request(k), "OPEN")
<1>1. /\ k \in DOMAIN appointments
      /\ appointments' = SetStatus(k, "CANCELLED")
      /\ now' = now
      /\ requests' = SetRequest(Request(k), "OPEN")
  BY DEF Cancel
<1>2. /\ appointments'[k].status = "CANCELLED"
      /\ appointments'[k].request = appointments[k].request
      /\ appointments'[k].slot = appointments[k].slot
      /\ \A j \in DOMAIN appointments : j # k => appointments'[j] = appointments[j]
      /\ DOMAIN appointments' = DOMAIN appointments
  BY <1>1 DEF SetStatus, DataTypeOK, Appointment
<1>3. Busy' \subseteq Busy \ {k}
  BY <1>1, <1>2 DEF Busy, LiveHold
<1>4. Confirmed' = Confirmed \ {k}
  BY <1>1, <1>2 DEF Confirmed
<1> QED BY <1>1, <1>2, <1>3, <1>4

\* Swapping an appointment for its replacement.
LEMMA BusyWhenSwapped ==
  ASSUME DataTypeOK, SchedulingTypeOK, NEW old, NEW new, CompleteReschedule(old, new)
  PROVE  /\ old \in DOMAIN appointments
         /\ new \in Busy
         /\ Busy' \subseteq Busy \ ({old} \ {new})
         /\ Confirmed' = (Confirmed \ {old}) \cup {new}
         /\ DOMAIN appointments' = DOMAIN appointments
         /\ \A j \in DOMAIN appointments :
              /\ appointments'[j].request = appointments[j].request
              /\ appointments'[j].slot = appointments[j].slot
         /\ NoConflict(Request(new), appointments[new].slot, {new, old})
         /\ requests' = SetRequest(Request(old), "BOOKED")
<1>1. /\ old \in DOMAIN appointments
      /\ new \in DOMAIN appointments
      /\ LiveHold(new)
      /\ appointments' =
           [appointments EXCEPT ![old].status = "CANCELLED", ![new].status = "CONFIRMED"]
      /\ now' = now
      /\ NoConflict(Request(new), appointments[new].slot, {new, old})
      /\ requests' = SetRequest(Request(old), "BOOKED")
  BY DEF CompleteReschedule, CanSwap, SchedulingTypeOK
<1>2. /\ appointments'[new].status = "CONFIRMED"
      /\ old # new => appointments'[old].status = "CANCELLED"
      /\ \A j \in DOMAIN appointments : j \notin {old, new} => appointments'[j] = appointments[j]
      /\ DOMAIN appointments' = DOMAIN appointments
      /\ \A j \in DOMAIN appointments :
           /\ appointments'[j].request = appointments[j].request
           /\ appointments'[j].slot = appointments[j].slot
  BY <1>1 DEF DataTypeOK, Appointment
<1>3. new \in Busy /\ Busy' \subseteq Busy \ ({old} \ {new})
  BY <1>1, <1>2 DEF Busy, LiveHold
<1>4. Confirmed' = (Confirmed \ {old}) \cup {new}
  BY <1>1, <1>2 DEF Confirmed
<1> QED BY <1>1, <1>2, <1>3, <1>4

----------------------------------------------------------------------------
(* Reschedules in progress. *)

\* The two appointments of a reschedule are different ones of the same request.
MovesOK ==
  /\ moves \subseteq (DOMAIN appointments) \X (DOMAIN appointments)
  /\ \A m \in moves : m[1] # m[2] /\ Request(m[1]) = Request(m[2])

\* The appointment is neither removed nor given to another request or another time.
RowStays(k) ==
  /\ k \in DOMAIN appointments'
  /\ appointments'[k].request = appointments[k].request
  /\ appointments'[k].slot = appointments[k].slot

\* No step deletes an appointment, or gives it to another request or time.
LEMMA RowsStay ==
  ASSUME DataTypeOK, SchedulingTypeOK, [Next]_vars, NEW k \in DOMAIN appointments
  PROVE  RowStays(k)
<1>1. CASE Quiet
  BY <1>1 DEF Quiet, HoldsEnd, RowStays
<1>2. CASE Booking
  <2>1. ASSUME NEW j \in Keys, NEW r \in Requests, NEW s \in Slots,
               NEW replaced \in SUBSET Keys, HoldPlaced(j, r, s, replaced)
        PROVE  RowStays(k)
    BY <2>1, BusyWhenPlaced DEF RowStays
  <2>2. ASSUME NEW j \in Keys, Confirm(j)
        PROVE  RowStays(k)
    BY <2>2, BusyWhenConfirmed DEF RowStays
  <2>3. ASSUME NEW j \in Keys, Cancel(j)
        PROVE  RowStays(k)
    BY <2>3, BusyWhenCancelled DEF RowStays
  <2>4. ASSUME NEW old \in Keys, NEW new \in Keys, CompleteReschedule(old, new)
        PROVE  RowStays(k)
    BY <2>4, BusyWhenSwapped DEF RowStays
  <2> QED BY <1>2, <2>1, <2>2, <2>3, <2>4 DEF Booking
<1> QED BY <1>1, <1>2, StepKinds

\* What has ended stays as it ended.
LEMMA EndedStays ==
  ASSUME DataTypeOK, SchedulingTypeOK, [Next]_vars, NEW k \in DOMAIN appointments,
         appointments[k].status \in {"CANCELLED", "EXPIRED"}
  PROVE  appointments'[k].status = appointments[k].status
<1>1. CASE Quiet
  BY <1>1 DEF Quiet, HoldsEnd
<1>2. ASSUME NEW j, NEW r, NEW s, NEW replaced, HoldPlaced(j, r, s, replaced)
      PROVE  appointments'[k].status = appointments[k].status
  BY <1>2, BusyWhenPlaced
<1>3. ASSUME NEW j, Confirm(j) PROVE appointments'[k].status = appointments[k].status
  BY <1>3 DEF Confirm, CanConfirm, LiveHold, SetStatus, DataTypeOK, Appointment
<1>4. ASSUME NEW j, Cancel(j) PROVE appointments'[k].status = appointments[k].status
  BY <1>4 DEF Cancel, AllowChange, SetStatus, DataTypeOK, Appointment
<1>5. ASSUME NEW old, NEW new, CompleteReschedule(old, new)
      PROVE  appointments'[k].status = appointments[k].status
  <2>1. k \notin {old, new}
    BY <1>5 DEF CompleteReschedule, CanSwap, MayMove, AllowChange, LiveHold
  <2> QED
    BY <1>5, <2>1 DEF CompleteReschedule, DataTypeOK, Appointment
<1> QED
  BY <1>1, <1>2, <1>3, <1>4, <1>5, StepKinds DEF Booking

\* The clock does not go back.
LEMMA ClockRuns ==
  ASSUME DataTypeOK, [Next]_vars
  PROVE  now' >= now
<1>1. CASE Quiet
  BY <1>1 DEF Quiet, HoldsEnd
<1>2. CASE Booking
  <2>1. UNCHANGED now
    BY <1>2 DEF Booking, HoldPlaced, PlaceHold, Confirm, Cancel, CompleteReschedule
  <2> QED
    BY <2>1, TimeAssumption DEF DataTypeOK
<1> QED
  BY <1>1, <1>2, StepKinds

\* Only the first transaction of a reschedule puts one in progress.
LEMMA MovesBegin ==
  ASSUME [Next]_vars
  PROVE  \/ moves' \subseteq moves
         \/ \E old, new \in Keys :
              /\ moves' = moves \cup {<<old, new>>}
              /\ \/ \E s \in Slots : BeginReschedule(old, new, s)
                 \/ ResumeReschedule(old, new)
<1>1. CASE ServiceStep
  BY <1>1 DEF ServiceStep, Configure, CreateRequest, FlagHazard, Reserve, ReleaseHold,
              Confirm, ConfirmLost, Cancel
<1>2. CASE RescheduleStep
  BY <1>2 DEF RescheduleStep, BeginReschedule, ResumeReschedule, CompleteReschedule,
              RescheduleLost, AbandonReschedule
<1>3. CASE CalendarStep \/ PersonStep \/ DeliveryStep \/ Tick \/ UNCHANGED vars
  BY <1>3 DEF CalendarStep, PersonStep, DeliveryStep, Tick, vars
<1> QED BY <1>1, <1>2, <1>3 DEF Next

\* The two sides of a reschedule stay two different appointments of one request.
LEMMA MovesStep ==
  ASSUME DataTypeOK, MovesOK, [Next]_vars
  PROVE  MovesOK'
<1>1. SchedulingTypeOK
  BY DEF MovesOK, SchedulingTypeOK
<1>2. \A k \in DOMAIN appointments : k \in DOMAIN appointments' /\ Request(k)' = Request(k)
  BY <1>1, RowsStay DEF RowStays, Request
<1>3. CASE moves' \subseteq moves
  BY <1>2, <1>3 DEF MovesOK
<1>4. ASSUME NEW old \in Keys, NEW new \in Keys, NEW s \in Slots,
             moves' = moves \cup {<<old, new>>}, BeginReschedule(old, new, s)
      PROVE  MovesOK'
  <2>1. HoldPlaced(new, Request(old), s, {old}) /\ old \in DOMAIN appointments
    BY <1>4 DEF BeginReschedule, HoldPlaced, MayMove
  <2>2. /\ DOMAIN appointments' = DOMAIN appointments \cup {new}
        /\ old # new
        /\ appointments'[new].request = Request(old)
    BY <2>1, BusyWhenPlaced
  <2>3. Request(new)' = Request(old)'
    BY <1>2, <2>1, <2>2 DEF Request
  <2> QED BY <1>2, <1>4, <2>1, <2>2, <2>3 DEF MovesOK
<1>5. ASSUME NEW old \in Keys, NEW new \in Keys,
             moves' = moves \cup {<<old, new>>}, ResumeReschedule(old, new)
      PROVE  MovesOK'
  <2>1. /\ old \in DOMAIN appointments
        /\ new \in DOMAIN appointments
        /\ old # new
        /\ Request(new) = Request(old)
    BY <1>5 DEF ResumeReschedule, MayMove
  <2> QED BY <1>2, <1>5, <2>1 DEF MovesOK
<1> QED BY <1>3, <1>4, <1>5, MovesBegin

----------------------------------------------------------------------------
(* The inductive invariant. *)

\* NoDoubleBooking and OneBookingPerRequest support each other; the second transaction of a
\* reschedule also needs to know which appointments it was begun for.
BookingInv == DataTypeOK /\ MovesOK /\ NoDoubleBooking /\ OneBookingPerRequest

\* The invariant holds before anything has been booked.
LEMMA BookingInvInit == Init => BookingInv
BY TimeAssumption
DEF Init, DataInit, SchedulingInit, NoRows, BookingInv, DataTypeOK, MovesOK,
    NoDoubleBooking, OneBookingPerRequest, Busy, Confirmed

\* Two slots overlap whichever is named first.
LEMMA OverlapsSymmetric == ASSUME NEW a, NEW b PROVE Overlaps(a, b) <=> Overlaps(b, a)
BY DEF Overlaps, TimesMeet

\* No step makes two appointments collide, given the other parts of the invariant: the swap
\* of a reschedule needs that its two appointments belong to one request.
LEMMA NoDoubleBookingStep ==
  ASSUME BookingInv, DataTypeOK', [Next]_vars
  PROVE  NoDoubleBooking'
<1>1. DataTypeOK /\ SchedulingTypeOK
  BY DEF BookingInv, MovesOK, SchedulingTypeOK
<1>2. \A i, j \in Busy :
        i # j /\ Overlaps(appointments[i].slot, appointments[j].slot) =>
          Request(i) = Request(j) /\ ~(i \in Confirmed /\ j \in Confirmed)
  BY DEF BookingInv, NoDoubleBooking, BothConfirmed
<1>3. Busy \subseteq DOMAIN appointments
  BY DEF Busy
<1> SUFFICES ASSUME NEW i \in Busy', NEW j \in Busy', i # j,
                    Overlaps(appointments'[i].slot, appointments'[j].slot)
             PROVE  /\ appointments'[i].request = appointments'[j].request
                    /\ ~(i \in Confirmed' /\ j \in Confirmed')
  BY DEF NoDoubleBooking, BothConfirmed, Request
<1>4. CASE Quiet
  BY <1>1, <1>2, <1>4, BusyWhenHoldsEnd DEF Quiet, Request
<1>5. ASSUME NEW k \in Keys, NEW r \in Requests, NEW s \in Slots,
             NEW replaced \in SUBSET Keys, HoldPlaced(k, r, s, replaced)
      PROVE  /\ appointments'[i].request = appointments'[j].request
             /\ ~(i \in Confirmed' /\ j \in Confirmed')
  <2>1. \A b \in Busy : Overlaps(s, appointments[b].slot) => Request(b) = r
    BY <1>5 DEF HoldPlaced, PlaceHold, NoConflict
  <2>2. /\ k \notin DOMAIN appointments
        /\ Busy' \subseteq Busy \cup {k}
        /\ Confirmed' = Confirmed
        /\ appointments'[k].request = r
        /\ appointments'[k].slot = s
        /\ \A b \in DOMAIN appointments : b # k /\ appointments'[b] = appointments[b]
    BY <1>1, <1>5, BusyWhenPlaced
  <2>3. k \notin Confirmed'
    BY <2>2 DEF Confirmed
  <2>4. CASE i = k
    <3>1. j \in Busy /\ appointments'[j] = appointments[j]
      BY <1>3, <2>2, <2>4
    <3> QED BY <2>1, <2>2, <2>3, <2>4, <3>1 DEF Request
  <2>5. CASE j = k
    <3>1. i \in Busy /\ appointments'[i] = appointments[i]
      BY <1>3, <2>2, <2>5
    <3>2. Overlaps(s, appointments[i].slot)
      BY <2>2, <2>5, <3>1, OverlapsSymmetric
    <3> QED BY <2>1, <2>2, <2>3, <2>5, <3>1, <3>2 DEF Request
  <2>6. CASE i # k /\ j # k
    BY <1>2, <1>3, <2>2, <2>6 DEF Request
  <2> QED BY <2>4, <2>5, <2>6
<1>6. ASSUME NEW k \in Keys, Confirm(k)
      PROVE  /\ appointments'[i].request = appointments'[j].request
             /\ ~(i \in Confirmed' /\ j \in Confirmed')
  <2>1. /\ Busy' \subseteq Busy
        /\ Confirmed' = Confirmed \cup {k}
        /\ \A b \in DOMAIN appointments :
             /\ appointments'[b].request = appointments[b].request
             /\ appointments'[b].slot = appointments[b].slot
        /\ NoConflict(Request(k), appointments[k].slot, {k})
    BY <1>1, <1>6, BusyWhenConfirmed
  <2>2. \A b \in Busy \ {k} : ~Overlaps(appointments[k].slot, appointments[b].slot)
    BY <2>1 DEF NoConflict
  <2>3. i # k /\ j # k
    BY <1>3, <2>1, <2>2, OverlapsSymmetric
  <2> QED BY <1>2, <1>3, <2>1, <2>3 DEF Request
<1>7. ASSUME NEW k \in Keys, Cancel(k)
      PROVE  /\ appointments'[i].request = appointments'[j].request
             /\ ~(i \in Confirmed' /\ j \in Confirmed')
  BY <1>1, <1>2, <1>3, <1>7, BusyWhenCancelled DEF Request
<1>8. ASSUME NEW old \in Keys, NEW new \in Keys, CompleteReschedule(old, new)
      PROVE  /\ appointments'[i].request = appointments'[j].request
             /\ ~(i \in Confirmed' /\ j \in Confirmed')
  <2>1. /\ Busy' \subseteq Busy \ ({old} \ {new})
        /\ Confirmed' = (Confirmed \ {old}) \cup {new}
        /\ \A b \in DOMAIN appointments :
             /\ appointments'[b].request = appointments[b].request
             /\ appointments'[b].slot = appointments[b].slot
        /\ NoConflict(Request(new), appointments[new].slot, {new, old})
    BY <1>1, <1>8, BusyWhenSwapped
  <2>2. \A b \in Busy \ {new, old} : ~Overlaps(appointments[new].slot, appointments[b].slot)
    BY <2>1 DEF NoConflict
  <2>3. i # new /\ j # new
    BY <1>3, <2>1, <2>2, OverlapsSymmetric
  <2> QED BY <1>2, <1>3, <2>1, <2>3 DEF Request
<1> QED BY <1>1, <1>4, <1>5, <1>6, <1>7, <1>8, StepKinds DEF Booking

\* No step gives a request a second confirmed appointment, or leaves it BOOKED without one.
LEMMA OneBookingStep ==
  ASSUME BookingInv, DataTypeOK', [Next]_vars
  PROVE  OneBookingPerRequest'
<1>1. DataTypeOK /\ SchedulingTypeOK
  BY DEF BookingInv, MovesOK, SchedulingTypeOK
<1>2. /\ \A i, j \in Confirmed : Request(i) = Request(j) => i = j
      /\ \A r \in DOMAIN requests :
           requests[r].status = "BOOKED" => \E k \in Confirmed : Request(k) = r
  BY DEF BookingInv, OneBookingPerRequest
<1>3. Confirmed \subseteq Busy /\ Busy \subseteq DOMAIN appointments
  BY DEF Busy, Confirmed
<1>4. SUFFICES
        /\ \A i, j \in Confirmed' :
             appointments'[i].request = appointments'[j].request => i = j
        /\ \A r \in DOMAIN requests' :
             requests'[r].status = "BOOKED" =>
               \E k \in Confirmed' : appointments'[k].request = r
  BY DEF OneBookingPerRequest, Request
<1> DEFINE Goal == /\ \A i, j \in Confirmed' :
                        appointments'[i].request = appointments'[j].request => i = j
                   /\ \A r \in DOMAIN requests' :
                        requests'[r].status = "BOOKED" =>
                          \E k \in Confirmed' : appointments'[k].request = r
<1>5. CASE Quiet
  <2>1. Confirmed' = Confirmed /\ \A k \in Confirmed : appointments'[k] = appointments[k]
    BY <1>1, <1>5, BusyWhenHoldsEnd DEF Quiet, HoldsEnd, Confirmed
  <2> QED BY <1>2, <1>5, <2>1 DEF Quiet, NoneBooked, Request
<1>6. ASSUME NEW k \in Keys, NEW r \in Requests, NEW s \in Slots,
             NEW replaced \in SUBSET Keys, HoldPlaced(k, r, s, replaced)
      PROVE  Goal
  <2>1. /\ Confirmed' = Confirmed
        /\ requests' = requests
        /\ \A b \in DOMAIN appointments : appointments'[b] = appointments[b]
    BY <1>1, <1>6, BusyWhenPlaced
  <2> QED BY <1>2, <1>3, <2>1 DEF Request
<1>7. ASSUME NEW k \in Keys, Confirm(k) PROVE Goal
  <2>1. /\ k \in Busy
        /\ Confirmed' = Confirmed \cup {k}
        /\ \A b \in DOMAIN appointments : appointments'[b].request = appointments[b].request
        /\ \A b \in Busy \ {k} : Request(b) # Request(k)
    BY <1>1, <1>7, BusyWhenConfirmed DEF NoConflict, Request
  <2>2. requests' = SetRequest(Request(k), "BOOKED")
    BY <1>7 DEF Confirm
  <2>3. \A r \in DOMAIN requests' :
          requests'[r].status = "BOOKED" => r = Request(k) \/ requests[r].status = "BOOKED"
    BY <2>2 DEF SetRequest
  <2>4. DOMAIN requests' = DOMAIN requests
    BY <2>2 DEF SetRequest
  <2> QED BY <1>2, <1>3, <2>1, <2>3, <2>4 DEF Request
<1>8. ASSUME NEW k \in Keys, Cancel(k) PROVE Goal
  <2>1. /\ k \in DOMAIN appointments
        /\ Confirmed' = Confirmed \ {k}
        /\ \A b \in DOMAIN appointments : appointments'[b].request = appointments[b].request
        /\ requests' = SetRequest(Request(k), "OPEN")
    BY <1>1, <1>8, BusyWhenCancelled
  <2>2. /\ DOMAIN requests' = DOMAIN requests
        /\ \A r \in DOMAIN requests' :
             requests'[r].status = "BOOKED" => r # Request(k) /\ requests[r].status = "BOOKED"
    BY <1>1, <2>1 DEF SetRequest, DataTypeOK, ServiceRequest
  <2> QED BY <1>2, <1>3, <2>1, <2>2 DEF Request
<1>9. ASSUME NEW old \in Keys, NEW new \in Keys, CompleteReschedule(old, new) PROVE Goal
  <2>1. /\ new \in Busy
        /\ Confirmed' = (Confirmed \ {old}) \cup {new}
        /\ \A b \in DOMAIN appointments : appointments'[b].request = appointments[b].request
        /\ \A b \in Busy \ {new, old} : Request(b) # Request(new)
        /\ requests' = SetRequest(Request(old), "BOOKED")
    BY <1>1, <1>9, BusyWhenSwapped DEF NoConflict, Request
  <2>2. old # new /\ Request(old) = Request(new)
    BY <1>9 DEF CompleteReschedule, CanSwap, BookingInv, MovesOK
  <2>3. /\ DOMAIN requests' = DOMAIN requests
        /\ \A r \in DOMAIN requests' :
             requests'[r].status = "BOOKED" =>
               r = Request(new) \/ (r # Request(old) /\ requests[r].status = "BOOKED")
    BY <2>1, <2>2 DEF SetRequest
  <2> QED BY <1>2, <1>3, <2>1, <2>2, <2>3 DEF Request
<1> QED BY <1>1, <1>5, <1>6, <1>7, <1>8, <1>9, StepKinds DEF Booking

\* The invariant is inductive.
LEMMA BookingInvStep == BookingInv /\ [Next]_vars => BookingInv'
<1> SUFFICES ASSUME BookingInv, [Next]_vars PROVE BookingInv'
  OBVIOUS
<1>1. DataTypeOK'
  BY DataStep DEF BookingInv, MovesOK, SchedulingTypeOK
<1> QED
  BY <1>1, MovesStep, NoDoubleBookingStep, OneBookingStep DEF BookingInv

\* The invariant holds in every reachable state.
LEMMA BookingInvariant == Spec => []BookingInv
BY BookingInvInit, BookingInvStep, PTL DEF Spec

\* The scheduling service never promises a team twice, for any number of requests, keys,
\* teams and settings.
THEOREM NeverDoubleBooked == Spec => []NoDoubleBooking
<1>1. BookingInv => NoDoubleBooking
  BY DEF BookingInv
<1> QED BY <1>1, BookingInvariant, PTL

\* No service request ever has two confirmed appointments, and a booked one has one.
THEOREM OneBookingAlways == Spec => []OneBookingPerRequest
<1>1. BookingInv => OneBookingPerRequest
  BY DEF BookingInv
<1> QED BY <1>1, BookingInvariant, PTL

----------------------------------------------------------------------------
(* What a step may never do. *)

\* What is not busy does not become busy: confirm() and reschedule() ask for a live hold.
LEMMA HoldsDoNotReviveStep ==
  ASSUME BookingInv, DataTypeOK', [Next]_vars, NEW k \in DOMAIN appointments \ Busy
  PROVE  k \notin Busy'
<1>1. DataTypeOK /\ SchedulingTypeOK
  BY DEF BookingInv, MovesOK, SchedulingTypeOK
<1>2. CASE Quiet
  BY <1>1, <1>2, BusyWhenHoldsEnd DEF Quiet
<1>3. ASSUME NEW j \in Keys, NEW r \in Requests, NEW s \in Slots,
             NEW replaced \in SUBSET Keys, HoldPlaced(j, r, s, replaced)
      PROVE  k \notin Busy'
  <2>1. Busy' \subseteq Busy \cup {j} /\ j \notin DOMAIN appointments
    BY <1>1, <1>3, BusyWhenPlaced
  <2> QED BY <2>1
<1>4. ASSUME NEW j \in Keys, Confirm(j) PROVE k \notin Busy'
  BY <1>1, <1>4, BusyWhenConfirmed
<1>5. ASSUME NEW j \in Keys, Cancel(j) PROVE k \notin Busy'
  BY <1>1, <1>5, BusyWhenCancelled
<1>6. ASSUME NEW old \in Keys, NEW new \in Keys, CompleteReschedule(old, new)
      PROVE  k \notin Busy'
  BY <1>1, <1>6, BusyWhenSwapped
<1> QED BY <1>1, <1>2, <1>3, <1>4, <1>5, <1>6, StepKinds DEF Booking

\* Each of the two ways to a confirmed appointment looks at the hazard flag.
LEMMA DangerStep ==
  ASSUME BookingInv, DataTypeOK', [Next]_vars, NEW k \in Confirmed' \ Confirmed
  PROVE  ~requests[Request(k)'].hazardous
<1>1. DataTypeOK /\ SchedulingTypeOK
  BY DEF BookingInv, MovesOK, SchedulingTypeOK
<1>2. Busy \subseteq DOMAIN appointments
  BY DEF Busy
<1>7. CASE Quiet
  BY <1>1, <1>7, BusyWhenHoldsEnd DEF Quiet
<1>3. ASSUME NEW j \in Keys, NEW r \in Requests, NEW s \in Slots,
             NEW replaced \in SUBSET Keys, HoldPlaced(j, r, s, replaced)
      PROVE  FALSE
  BY <1>1, <1>3, BusyWhenPlaced
<1>4. ASSUME NEW j \in Keys, Confirm(j) PROVE ~requests[Request(k)'].hazardous
  <2>1. /\ j \in Busy
        /\ Confirmed' = Confirmed \cup {j}
        /\ \A b \in DOMAIN appointments : appointments'[b].request = appointments[b].request
    BY <1>1, <1>4, BusyWhenConfirmed
  <2>2. k = j
    BY <2>1
  <2>3. Request(k)' = Request(j)
    BY <1>2, <2>1, <2>2 DEF Request
  <2> QED BY <1>4, <2>2, <2>3 DEF Confirm, CanConfirm, Bookable
<1>5. ASSUME NEW j \in Keys, Cancel(j) PROVE FALSE
  BY <1>1, <1>5, BusyWhenCancelled
<1>6. ASSUME NEW old \in Keys, NEW new \in Keys, CompleteReschedule(old, new)
      PROVE  ~requests[Request(k)'].hazardous
  <2>1. /\ new \in Busy
        /\ Confirmed' = (Confirmed \ {old}) \cup {new}
        /\ \A b \in DOMAIN appointments : appointments'[b].request = appointments[b].request
    BY <1>1, <1>6, BusyWhenSwapped
  <2>2. k = new
    BY <2>1
  <2>3. Request(k)' = Request(new)
    BY <1>2, <2>1, <2>2 DEF Request
  <2> QED BY <1>6, <2>2, <2>3 DEF CompleteReschedule, CanSwap, Bookable
<1> QED BY <1>1, <1>3, <1>4, <1>5, <1>6, <1>7, StepKinds DEF Booking

\* A hold that lapsed, or was released, never occupies its team again.
THEOREM LapsedHoldsStayLapsed == Spec => HoldsDoNotRevive
<1>1. BookingInv /\ BookingInv' /\ [Next]_vars =>
        [\A k \in DOMAIN appointments \ Busy : k \notin Busy']_vars
  BY HoldsDoNotReviveStep DEF BookingInv
<1> QED BY <1>1, BookingInvariant, PTL DEF Spec, HoldsDoNotRevive

\* No step confirms an appointment of a request that is reported as dangerous.
THEOREM DangerNeverBooked == Spec => DangerIsNotBooked
<1>1. BookingInv /\ BookingInv' /\ [Next]_vars =>
        [\A k \in Keys : k \in Confirmed' \ Confirmed => ~requests[Request(k)'].hazardous]_vars
  BY DangerStep DEF BookingInv
<1> QED BY <1>1, BookingInvariant, PTL DEF Spec, DangerIsNotBooked

----------------------------------------------------------------------------
(* Type correctness of the whole. *)

\* A binding belongs to the connection of its team, which is never removed: without this the
\* calendar that an event is written to would not be known to be one.
BoundTeams == \A k \in DOMAIN bindings : HasConnection(Team(k))

CalendarInv == CalendarTypeOK /\ BoundTeams

CalendarUnchanged == UNCHANGED <<connections, exchanging, bindings, events, outside>>

\* Appointments may be added and ended while the calendar's tables stay as they are.
LEMMA CalendarKept ==
  ASSUME CalendarInv, CalendarUnchanged, \A k \in DOMAIN appointments : RowStays(k)
  PROVE  CalendarInv'
BY DEF CalendarInv, CalendarUnchanged, CalendarTypeOK, BoundTeams, RowStays, HasConnection, Team

\* Writing the event of a bound appointment, and what a confirmation does to its binding.
LEMMA PublishedTyped ==
  ASSUME DataTypeOK, CalendarInv, NEW k \in DOMAIN appointments
  PROVE  /\ DOMAIN Published(k) \subseteq DOMAIN appointments
         /\ Published(k) \in [DOMAIN Published(k) -> Event]
         /\ DOMAIN MarkSynced(k) = DOMAIN bindings
         /\ MarkSynced(k) \in [DOMAIN bindings -> BindingStatus]
<1>1. MarkSynced(k) \in [DOMAIN bindings -> BindingStatus]
  BY DEF MarkSynced, CalendarInv, CalendarTypeOK, BindingStatus
<1>2. CASE k \in DOMAIN bindings
  <2> DEFINE event == [calendar |-> Calendar(k), slot |-> appointments[k].slot, live |-> TRUE]
  <2>1. Calendar(k) \in Calendars
    BY <1>2 DEF CalendarInv, CalendarTypeOK, BoundTeams, HasConnection, Calendar, Connection
  <2>2. event \in Event
    BY <2>1 DEF Event, DataTypeOK, Appointment
  <2>3. Published(k) = Write(events, k, event)
    BY <1>2 DEF Published
  <2> HIDE DEF event
  <2>4. Published(k) \in [DOMAIN events \cup {k} -> Event]
    BY <2>2, <2>3 DEF Write, CalendarInv, CalendarTypeOK
  <2> QED BY <1>1, <2>4 DEF CalendarInv, CalendarTypeOK
<1>3. CASE k \notin DOMAIN bindings
  BY <1>1, <1>3 DEF Published, CalendarInv, CalendarTypeOK
<1> QED BY <1>2, <1>3

\* The three tables that a publishing handler writes.
LEMMA CalendarPublished ==
  ASSUME DataTypeOK, CalendarInv, NEW k \in DOMAIN appointments,
         \A j \in DOMAIN appointments : RowStays(j),
         events' = Published(k),
         bindings' \in {bindings, MarkSynced(k)},
         UNCHANGED <<connections, exchanging, outside>>
  PROVE  CalendarInv'
<1>1. /\ DOMAIN events' \subseteq DOMAIN appointments
      /\ events' \in [DOMAIN events' -> Event]
      /\ DOMAIN bindings' = DOMAIN bindings
      /\ bindings' \in [DOMAIN bindings' -> BindingStatus]
  BY PublishedTyped DEF CalendarInv, CalendarTypeOK
<1>2. CalendarTypeOK'
  BY <1>1 DEF CalendarInv, CalendarTypeOK, RowStays
<1>3. BoundTeams'
  BY <1>1 DEF CalendarInv, CalendarTypeOK, BoundTeams, RowStays, HasConnection, Team
<1> QED BY <1>2, <1>3 DEF CalendarInv

\* A hold is bound when its team has a calendar.
LEMMA CalendarBound ==
  ASSUME DataTypeOK, CalendarInv, NEW k, NEW r, NEW s \in Slots, NEW replaced,
         HoldPlaced(k, r, s, replaced)
  PROVE  CalendarInv'
<1>1. /\ DOMAIN appointments' = DOMAIN appointments \cup {k}
      /\ appointments'[k].slot = s
      /\ \A j \in DOMAIN appointments : j # k /\ appointments'[j] = appointments[j]
  BY BusyWhenPlaced
<1>2. /\ bindings' = Bound(k, s)
      /\ UNCHANGED <<connections, exchanging, events, outside>>
  BY DEF HoldPlaced, PlaceHold
<1>3. CASE HasConnection(s.team)
  <2>1. bindings' = Write(bindings, k, "PENDING")
    BY <1>2, <1>3 DEF Bound
  <2>2. /\ DOMAIN bindings' = DOMAIN bindings \cup {k}
        /\ bindings' \in [DOMAIN bindings \cup {k} -> BindingStatus]
    BY <2>1 DEF Write, CalendarInv, CalendarTypeOK, BindingStatus
  <2>3. CalendarTypeOK'
    BY <1>1, <1>2, <2>2 DEF CalendarInv, CalendarTypeOK
  <2>4. BoundTeams'
    BY <1>1, <1>2, <1>3, <2>2 DEF CalendarInv, CalendarTypeOK, BoundTeams, HasConnection, Team
  <2> QED BY <2>3, <2>4 DEF CalendarInv
<1>4. CASE ~HasConnection(s.team)
  <2>1. UNCHANGED bindings
    BY <1>2, <1>4 DEF Bound
  <2> QED
    BY <1>1, <1>2, <2>1 DEF CalendarInv, CalendarTypeOK, BoundTeams, HasConnection, Team
<1> QED BY <1>3, <1>4

\* All that a reconciliation does to the calendar's tables, whichever way it ends.
Touches(k) ==
  /\ \/ UNCHANGED bindings
     \/ \E status \in BindingStatus : bindings' = [bindings EXCEPT ![k] = status]
  /\ UNCHANGED events \/ events' = [events EXCEPT ![k].live = FALSE]
  /\ \/ UNCHANGED connections
     \/ connections' = [connections EXCEPT ![Team(k)].status = "REAUTH_REQUIRED"]

\* A reconciliation touches one booking.
LEMMA ReconcileTouches ==
  ASSUME NEW k, ReconcileBooking(k) \/ Verified(k)
  PROVE  Touches(k)
BY DEF ReconcileBooking, CleanedUp, Verified, NeedsAttention, Unauthorized, EventRemoved,
       BindingStatus, Touches

\* Touching one booking keeps the calendar tables typed and the bindings of connected teams.
LEMMA CalendarTouched ==
  ASSUME DataTypeOK, CalendarInv, NEW k, Touches(k),
         \A j \in DOMAIN appointments : RowStays(j),
         UNCHANGED <<exchanging, outside>>
  PROVE  CalendarInv'
<1>1. /\ DOMAIN bindings' = DOMAIN bindings
      /\ bindings' \in [DOMAIN bindings' -> BindingStatus]
  BY DEF Touches, CalendarInv, CalendarTypeOK
<1>2. /\ DOMAIN events' = DOMAIN events
      /\ events' \in [DOMAIN events' -> Event]
  <2>1. CASE UNCHANGED events
    BY <2>1 DEF CalendarInv, CalendarTypeOK
  <2>2. CASE events' = [events EXCEPT ![k].live = FALSE]
    BY <2>2 DEF CalendarInv, CalendarTypeOK, Event
  <2> QED BY <2>1, <2>2 DEF Touches
<1>3. /\ DOMAIN connections' = DOMAIN connections
      /\ connections' \in [DOMAIN connections' -> Connection]
  BY DEF Touches, CalendarInv, CalendarTypeOK, Connection, ConnectionStatus
<1>4. CalendarTypeOK'
  BY <1>1, <1>2, <1>3 DEF CalendarInv, CalendarTypeOK, RowStays
<1>5. BoundTeams'
  BY <1>1, <1>3 DEF CalendarInv, CalendarTypeOK, BoundTeams, RowStays, HasConnection, Team
<1> QED BY <1>4, <1>5 DEF CalendarInv

\* The calendar jobs and the connection routes keep them.
LEMMA CalendarStepKeepsInv ==
  ASSUME DataTypeOK, CalendarInv, CalendarStep, \A j \in DOMAIN appointments : RowStays(j)
  PROVE  CalendarInv'
<1>1. ASSUME NEW k \in Keys, ReconcileBookingJob(k) PROVE CalendarInv'
  BY <1>1, ReconcileTouches, CalendarTouched DEF ReconcileBookingJob, othersOfReconcile
<1>2. ASSUME NEW k \in Keys, ReconcileBookingLost(k) PROVE CalendarInv'
  BY <1>2
  DEF ReconcileBookingLost, EventRemoved, dataVars, CalendarInv, CalendarTypeOK, BoundTeams,
      Event, HasConnection, Team
<1>3. ASSUME NEW team \in Teams, ReconcileConnectionJob(team) PROVE CalendarInv'
  BY <1>3
  DEF ReconcileConnectionJob, Unauthorized, othersOfReconcile, CalendarInv, CalendarTypeOK,
      BoundTeams, Connection, ConnectionStatus, HasConnection, Team
<1>4. ASSUME NEW team \in Teams, Disconnect(team) PROVE CalendarInv'
  BY <1>4
  DEF Disconnect, dataVars, CalendarInv, CalendarTypeOK, BoundTeams, Connection,
      ConnectionStatus, HasConnection, Team
<1>5. ASSUME NEW team \in Teams, NEW calendar \in Calendars, BeginConnect(team, calendar)
      PROVE  CalendarInv'
  BY <1>5
  DEF BeginConnect, dataVars, CalendarInv, CalendarTypeOK, BoundTeams, Exchange,
      HasConnection, Team
<1>6. ASSUME NEW x \in exchanging, FinishConnect(x) PROVE CalendarInv'
  <2> DEFINE row == [calendar |-> x.calendar, status |-> "CONNECTED"]
  <2>1. row \in Connection /\ x.team \in Teams
    BY DEF CalendarInv, CalendarTypeOK, Exchange, Connection, ConnectionStatus
  <2>2. connections' = Write(connections, x.team, row)
    BY <1>6 DEF FinishConnect
  <2>3. /\ DOMAIN connections' = DOMAIN connections \cup {x.team}
        /\ connections' \in [DOMAIN connections' -> Connection]
    BY <2>1, <2>2 DEF Write, CalendarInv, CalendarTypeOK
  <2>4. UNCHANGED <<appointments, bindings, events, outside>> /\ exchanging' \subseteq exchanging
    BY <1>6 DEF FinishConnect, dataVars
  <2>5. CalendarTypeOK'
    BY <2>1, <2>3, <2>4 DEF CalendarInv, CalendarTypeOK
  <2>6. BoundTeams'
    BY <2>3, <2>4 DEF CalendarInv, CalendarTypeOK, BoundTeams, HasConnection, Team
  <2> QED BY <2>5, <2>6 DEF CalendarInv
<1>7. ASSUME NEW x \in exchanging, AbandonConnect(x) PROVE CalendarInv'
  BY <1>7
  DEF AbandonConnect, dataVars, CalendarInv, CalendarTypeOK, BoundTeams, HasConnection, Team
<1> QED BY <1>1, <1>2, <1>3, <1>4, <1>5, <1>6, <1>7 DEF CalendarStep

\* So do people who edit the calendar.
LEMMA PersonStepKeepsInv ==
  ASSUME CalendarInv, PersonStep
  PROVE  CalendarInv'
<1> USE DEF dataVars, CalendarInv, CalendarTypeOK, BoundTeams, HasConnection, Team
<1>1. ASSUME NEW k \in Keys, NEW s \in Slots, PersonMoves(k, s) PROVE CalendarInv'
  BY <1>1 DEF PersonMoves, Event
<1>2. ASSUME NEW k \in Keys, PersonTogglesEvent(k) PROVE CalendarInv'
  BY <1>2 DEF PersonTogglesEvent, Event
<1>3. ASSUME NEW o \in OutsideEvents, PersonTogglesBusy(o) PROVE CalendarInv'
  BY <1>3 DEF PersonTogglesBusy
<1> QED BY <1>1, <1>2, <1>3 DEF PersonStep

\* What a delivery does to the calendar's tables.
LEMMA DeliveryKeepsCalendar ==
  ASSUME DataTypeOK, CalendarInv, DeliveryStep, \A j \in DOMAIN appointments : RowStays(j)
  PROVE  CalendarInv'
<1>1. PICK n \in Notice :
        \/ SkipObsolete(n) \/ PostponeDelivery(n) \/ SkipReminder(n) \/ GiveUp(n)
        \/ StampFirstAttempt(n)
        \/ SendAccepted(n) \/ SendRejected(n) \/ SendAnswerLost(n) \/ SendCrashed(n)
        \/ ApplyReports(n)
        \/ \E status \in Reports : ReceiveReport(n, status)
  BY DEF DeliveryStep
<1>2. CASE CalendarUnchanged
  BY <1>2, CalendarKept
<1>3. CASE UNCHANGED othersOfDelivery /\ (CalendarInOrder(n) \/ ReconcileBooking(n.key))
  <2>1. UNCHANGED <<exchanging, outside>>
    BY <1>3 DEF othersOfDelivery
  <2>2. CASE ReconcileBooking(n.key) \/ Verified(n.key)
    BY <2>1, <2>2, ReconcileTouches, CalendarTouched
  <2>3. CASE UNCHANGED <<connections, bindings, events>>
    BY <1>2, <2>1, <2>3 DEF CalendarUnchanged
  <2> QED BY <1>3, <2>2, <2>3 DEF CalendarInOrder
<1>4. CASE SkipObsolete(n) \/ SendCrashed(n) \/ ApplyReports(n)
             \/ \E status \in Reports : ReceiveReport(n, status)
  BY <1>2, <1>4
  DEF SkipObsolete, SendCrashed, ApplyReports, ReceiveReport, calendarVars, CalendarUnchanged
<1>5. CASE PostponeDelivery(n) \/ SkipReminder(n) \/ GiveUp(n) \/ StampFirstAttempt(n)
             \/ SendAccepted(n) \/ SendRejected(n) \/ SendAnswerLost(n)
  BY <1>3, <1>5
  DEF PostponeDelivery, SkipReminder, GiveUp, StampFirstAttempt,
      SendAccepted, SendRejected, SendAnswerLost
<1> QED BY <1>1, <1>4, <1>5

\* Every step keeps the calendar tables typed and binds only teams with a connection.
LEMMA CalendarInvStep ==
  ASSUME DataTypeOK, SchedulingTypeOK, CalendarInv, [Next]_vars
  PROVE  CalendarInv'
<1>1. \A j \in DOMAIN appointments : RowStays(j)
  BY RowsStay
<1>2. CASE CalendarUnchanged
  BY <1>1, <1>2, CalendarKept
<1>3. CASE ServiceStep
  <2>1. ASSUME NEW r \in Requests, NEW k \in Keys, NEW s \in Slots, Reserve(k, r, s)
        PROVE  CalendarInv'
    BY <2>1, CalendarBound DEF Reserve, HoldPlaced
  <2>2. ASSUME NEW k \in Keys, Confirm(k) \/ ConfirmLost(k) PROVE CalendarInv'
    BY <1>1, <2>2, CalendarPublished DEF Confirm, ConfirmLost, CanConfirm
  <2> QED
    BY <1>2, <1>3, <2>1, <2>2
    DEF ServiceStep, Configure, CreateRequest, FlagHazard, ReleaseHold, Cancel,
        calendarVars, CalendarUnchanged
<1>4. CASE RescheduleStep
  <2>1. ASSUME NEW old \in Keys, NEW new \in Keys, NEW s \in Slots,
               BeginReschedule(old, new, s)
        PROVE  CalendarInv'
    <3>1. HoldPlaced(new, Request(old), s, {old})
      BY <2>1 DEF BeginReschedule, HoldPlaced, MayMove
    <3> QED BY <3>1, CalendarBound
  <2>2. ASSUME NEW old \in Keys, NEW new \in Keys,
               CompleteReschedule(old, new) \/ RescheduleLost(old, new)
        PROVE  CalendarInv'
    <3>1. new \in DOMAIN appointments
      BY <2>2 DEF CompleteReschedule, RescheduleLost, CanSwap, SchedulingTypeOK
    <3> QED BY <1>1, <2>2, <3>1, CalendarPublished DEF CompleteReschedule, RescheduleLost
  <2> QED
    BY <1>2, <1>4, <2>1, <2>2
    DEF RescheduleStep, ResumeReschedule, AbandonReschedule, calendarVars, CalendarUnchanged
<1>5. CASE Tick \/ UNCHANGED vars
  BY <1>2, <1>5 DEF Tick, vars, calendarVars, CalendarUnchanged
<1> QED
  BY <1>1, <1>3, <1>4, <1>5, CalendarStepKeepsInv, PersonStepKeepsInv, DeliveryKeepsCalendar
  DEF Next

----------------------------------------------------------------------------
(* The outbox. *)

AppointmentsStay == \A j \in DOMAIN appointments : RowStays(j)

\* The outbox stays typed when it is left alone, since appointments stay.
LEMMA MailKept ==
  ASSUME MailTypeOK, UNCHANGED mailVars, AppointmentsStay
  PROVE  MailTypeOK'
BY DEF MailTypeOK, mailVars, AppointmentsStay, RowStays

\* Suppressing changes statuses only.
LEMMA SuppressedTyped ==
  ASSUME MailTypeOK, NEW k
  PROVE  Suppressed(k) \in [DOMAIN notifications -> NoticeRow]
BY DEF Suppressed, MailTypeOK, NoticeRow, NoticeStatus

\* Queued rows are new rows of the appointment they are queued for.
LEMMA EnqueuedTyped ==
  ASSUME NEW Ids, NEW table \in [Ids -> NoticeRow], NEW k, NEW kind \in Kinds
  PROVE  /\ Enqueued(table, k, kind) \in [DOMAIN Enqueued(table, k, kind) -> NoticeRow]
         /\ Ids \subseteq DOMAIN Enqueued(table, k, kind)
         /\ DOMAIN Enqueued(table, k, kind) \subseteq Ids \cup [key : {k}, kind : Kinds]
<1>1. QueuedKinds(k, kind) \subseteq Kinds
  BY DEF QueuedKinds, Kinds
<1>2. NewRow(k) \in NoticeRow
  BY DEF NewRow, NoticeRow, NoticeStatus, Never, NoDelivery
<1> QED BY <1>1, <1>2 DEF Enqueued

\* What a scheduling handler does to the outbox.
LEMMA MailQueued ==
  ASSUME MailTypeOK, AppointmentsStay, UNCHANGED <<mailed, receipts>>,
         NEW table \in [DOMAIN notifications -> NoticeRow],
         NEW k \in DOMAIN appointments, NEW kind \in Kinds,
         notifications' \in {table, Enqueued(table, k, kind)}
  PROVE  MailTypeOK'
<1>1. DOMAIN appointments \subseteq DOMAIN appointments'
  BY DEF AppointmentsStay, RowStays
<1>2. /\ notifications' \in [DOMAIN notifications' -> NoticeRow]
      /\ DOMAIN notifications \subseteq DOMAIN notifications'
      /\ DOMAIN notifications' \subseteq DOMAIN notifications \cup [key : {k}, kind : Kinds]
  BY EnqueuedTyped
<1>3. DOMAIN notifications' \subseteq [key : DOMAIN appointments', kind : Kinds]
  BY <1>1, <1>2 DEF MailTypeOK
<1> QED BY <1>2, <1>3 DEF MailTypeOK

\* The provider mails only what is queued, and counts the copies.
LEMMA MailedTyped ==
  ASSUME DataTypeOK, MailTypeOK, NEW n \in DOMAIN notifications
  PROVE  /\ DOMAIN mailed \subseteq DOMAIN Mailed(n)
         /\ DOMAIN Mailed(n) \subseteq DOMAIN notifications
         /\ Mailed(n) \in [DOMAIN Mailed(n) -> [at : Nat, copies : Nat]]
<1>1. now \in Nat
  BY TimeAssumption DEF DataTypeOK
<1>2. CASE n \in DOMAIN mailed
  BY <1>1, <1>2 DEF Mailed, MailTypeOK
<1>3. CASE n \notin DOMAIN mailed
  <2> DEFINE row == [at |-> now, copies |-> 1]
  <2>1. row \in [at : Nat, copies : Nat]
    BY <1>1
  <2>2. Mailed(n) = Write(mailed, n, row)
    BY <1>3 DEF Mailed
  <2> QED BY <2>1, <2>2 DEF Write, MailTypeOK
<1> QED BY <1>2, <1>3

\* The outbox after a step of its own.
LEMMA MailDelivered ==
  ASSUME DataTypeOK, MailTypeOK, AppointmentsStay, NEW n \in DOMAIN notifications,
         \/ UNCHANGED notifications
         \/ \E status \in NoticeStatus : notifications' = SetNotice(n, status)
         \/ \E rank \in 1..7 : notifications' = [notifications EXCEPT ![n].delivery = rank]
         \/ notifications' = [notifications EXCEPT ![n].first = now],
         mailed' \in {mailed, Mailed(n)},
         UNCHANGED receipts
  PROVE  MailTypeOK'
<1>1. now \in Nat
  BY TimeAssumption DEF DataTypeOK
<1>2. notifications' \in [DOMAIN notifications -> NoticeRow]
  <2>1. CASE UNCHANGED notifications
    BY <2>1 DEF MailTypeOK
  <2>2. ASSUME NEW status \in NoticeStatus, notifications' = SetNotice(n, status)
        PROVE  notifications' \in [DOMAIN notifications -> NoticeRow]
    BY <2>2 DEF MailTypeOK, SetNotice, NoticeRow
  <2>3. ASSUME NEW rank \in 1..7, notifications' = [notifications EXCEPT ![n].delivery = rank]
        PROVE  notifications' \in [DOMAIN notifications -> NoticeRow]
    <3>1. rank \in 0..7
      OBVIOUS
    <3>2. notifications[n] \in NoticeRow
      BY DEF MailTypeOK
    <3>3. [notifications[n] EXCEPT !.delivery = rank] \in NoticeRow
      BY <3>1, <3>2 DEF NoticeRow
    <3> QED BY <2>3, <3>3 DEF MailTypeOK
  <2>4. CASE notifications' = [notifications EXCEPT ![n].first = now]
    BY <1>1, <2>4 DEF MailTypeOK, NoticeRow
  <2> QED BY <2>1, <2>2, <2>3, <2>4
<1>3. /\ DOMAIN mailed \subseteq DOMAIN mailed'
      /\ DOMAIN mailed' \subseteq DOMAIN notifications
      /\ mailed' \in [DOMAIN mailed' -> [at : Nat, copies : Nat]]
  BY MailedTyped DEF MailTypeOK
<1>4. DOMAIN appointments \subseteq DOMAIN appointments'
  BY DEF AppointmentsStay, RowStays
<1>5. DOMAIN notifications' = DOMAIN notifications
  BY <1>2
<1>6. DOMAIN notifications \subseteq [key : DOMAIN appointments', kind : Kinds]
  BY <1>4 DEF MailTypeOK
<1>7. receipts' \subseteq [notice : DOMAIN mailed', rank : 1..7]
  BY <1>3 DEF MailTypeOK
<1> QED BY <1>2, <1>3, <1>5, <1>6, <1>7 DEF MailTypeOK

\* Delivery outcomes are ranked from 1 to 7.
LEMMA RankTyped == \A status \in DOMAIN Rank : Rank[status] \in 1..7
BY DEF Rank

\* The steps of the delivery job and of the webhooks keep the outbox typed.
LEMMA DeliveryKeepsMail ==
  ASSUME DataTypeOK, MailTypeOK, DeliveryStep, AppointmentsStay
  PROVE  MailTypeOK'
<1>1. PICK n \in Notice :
        \/ SkipObsolete(n) \/ PostponeDelivery(n) \/ SkipReminder(n) \/ GiveUp(n)
        \/ StampFirstAttempt(n)
        \/ SendAccepted(n) \/ SendRejected(n) \/ SendAnswerLost(n) \/ SendCrashed(n)
        \/ ApplyReports(n)
        \/ \E status \in Reports : ReceiveReport(n, status)
  BY DEF DeliveryStep
<1>2. CASE PostponeDelivery(n)
  BY <1>2, MailKept DEF PostponeDelivery
<1>3. CASE SkipObsolete(n) \/ SkipReminder(n) \/ GiveUp(n) \/ StampFirstAttempt(n)
  BY <1>3, MailDelivered
  DEF SkipObsolete, SkipReminder, GiveUp, StampFirstAttempt, PendingAndDue, NoticeStatus
<1>4. CASE SendAccepted(n) \/ SendRejected(n) \/ SendAnswerLost(n) \/ SendCrashed(n)
  BY <1>4, MailDelivered
  DEF SendAccepted, SendRejected, SendAnswerLost, SendCrashed, MaySend, PendingAndDue,
      NoticeStatus
<1>5. CASE ApplyReports(n)
  <2>1. PICK e \in receipts : notifications' = [notifications EXCEPT ![n].delivery = e.rank]
    BY <1>5 DEF ApplyReports
  <2>2. e.rank \in 1..7
    BY DEF MailTypeOK
  <2> QED BY <1>5, <2>1, <2>2, MailDelivered DEF ApplyReports
<1>6. ASSUME NEW status \in Reports, ReceiveReport(n, status) PROVE MailTypeOK'
  <2>1. Rank[status] \in 1..7
    BY RankTyped, EmailAssumption
  <2>2. /\ receipts' = receipts \cup {[notice |-> n, rank |-> Rank[status]]}
        /\ n \in DOMAIN mailed
        /\ UNCHANGED <<notifications, mailed, appointments>>
    BY <1>6 DEF ReceiveReport, dataVars
  <2> QED BY <2>1, <2>2 DEF MailTypeOK
<1> QED BY <1>1, <1>2, <1>3, <1>4, <1>5, <1>6

\* Every step keeps the outbox typed.
LEMMA MailStep ==
  ASSUME DataTypeOK, SchedulingTypeOK, MailTypeOK, [Next]_vars
  PROVE  MailTypeOK'
<1>1. AppointmentsStay
  BY RowsStay DEF AppointmentsStay
<1>2. CASE UNCHANGED mailVars
  BY <1>1, <1>2, MailKept
<1>3. notifications \in [DOMAIN notifications -> NoticeRow]
  BY DEF MailTypeOK
<1>4. CASE ServiceStep
  <2>1. ASSUME NEW k \in Keys, ReleaseHold(k) PROVE MailTypeOK'
    BY <1>1, <2>1, SuppressedTyped, MailQueued DEF ReleaseHold, Kinds
  <2>2. ASSUME NEW k \in Keys, Confirm(k) PROVE MailTypeOK'
    BY <1>1, <1>3, <2>2, MailQueued DEF Confirm, CanConfirm, Kinds
  <2>3. ASSUME NEW k \in Keys, Cancel(k) PROVE MailTypeOK'
    BY <1>1, <2>3, SuppressedTyped, MailQueued DEF Cancel, Kinds
  <2> QED
    BY <1>2, <1>4, <2>1, <2>2, <2>3
    DEF ServiceStep, Configure, CreateRequest, FlagHazard, Reserve, PlaceHold, ConfirmLost
<1>5. CASE RescheduleStep
  <2>1. ASSUME NEW old \in Keys, NEW new \in Keys, CompleteReschedule(old, new)
        PROVE  MailTypeOK'
    <3>1. new \in DOMAIN appointments
      BY <2>1 DEF CompleteReschedule, CanSwap, SchedulingTypeOK
    <3> QED BY <1>1, <2>1, <3>1, SuppressedTyped, MailQueued DEF CompleteReschedule, Kinds
  <2> QED
    BY <1>2, <1>5, <2>1
    DEF RescheduleStep, BeginReschedule, PlaceHold, ResumeReschedule, RescheduleLost,
        AbandonReschedule
<1>6. CASE CalendarStep \/ PersonStep \/ Tick \/ UNCHANGED vars
  BY <1>2, <1>6 DEF CalendarStep, PersonStep, Tick, vars, mailVars
<1> QED BY <1>1, <1>4, <1>5, <1>6, DeliveryKeepsMail DEF Next

----------------------------------------------------------------------------
(* Type correctness. *)

TypeInv == DataTypeOK /\ MovesOK /\ CalendarInv /\ MailTypeOK

\* The strengthened types are an inductive invariant.
LEMMA TypeInvariant == Spec => []TypeInv
<1>1. Init => TypeInv
  BY TimeAssumption
  DEF Init, DataInit, CalendarInit, MailInit, SchedulingInit, NoRows, TypeInv, DataTypeOK,
      MovesOK, CalendarInv, CalendarTypeOK, BoundTeams, MailTypeOK
<1>2. TypeInv /\ [Next]_vars => TypeInv'
  <2> SUFFICES ASSUME TypeInv, [Next]_vars PROVE TypeInv'
    OBVIOUS
  <2>1. DataTypeOK /\ SchedulingTypeOK /\ MovesOK /\ CalendarInv /\ MailTypeOK
    BY DEF TypeInv, MovesOK, SchedulingTypeOK
  <2> QED BY <2>1, DataStep, MovesStep, CalendarInvStep, MailStep DEF TypeInv
<1> QED BY <1>1, <1>2, PTL DEF Spec

\* Every row of every table has the type of its columns, every row refers to a row that
\* exists, and the two sides of a reschedule under way are appointments.
THEOREM TypeCorrect == Spec => []TypeOK
<1>1. TypeInv => TypeOK
  BY DEF TypeInv, TypeOK, MovesOK, SchedulingTypeOK, CalendarInv
<1> QED BY <1>1, TypeInvariant, PTL
=============================================================================
