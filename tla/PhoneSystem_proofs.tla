------------------------- MODULE PhoneSystem_proofs -------------------------
(***************************************************************************)
(* Proofs about PhoneSystem, for any number of calls, any policies and any *)
(* lengths of days and calls: types, that calls that are over stay over    *)
(* and return their places, that the limits are kept, that confirmed       *)
(* readbacks, callbacks and transfer results reach leads and handoffs, and *)
(* what alone opens a handoff again that is dealt with.                    *)
(***************************************************************************)
EXTENDS PhoneSystem, FiniteSetTheorems, TLAPS

----------------------------------------------------------------------------
(* Tables. *)

\* What Put() returns.
LEMMA PutTyped ==
  ASSUME NEW T, NEW Ids, NEW table \in [Ids -> T], NEW id, NEW row \in T
  PROVE  /\ Put(table, id, row) \in [Ids \cup {id} -> T]
         /\ Put(table, id, row)[id] = row
         /\ \A i \in Ids \ {id} : Put(table, id, row)[i] = table[i]
BY DEF Put

\* An event leads to a status.
LEMMA StatusAfterTyped ==
  ASSUME NEW call \in Call, NEW type \in EventType, NEW at
  PROVE  StatusAfter(call, type, at) \in CallStatus
BY DEF StatusAfter, EventType, Fallback, CallStatus, ActiveCallStatuses, TerminalCallStatuses, Call

\* No call but c changes, and none changes its adapter.
OthersStay(c) ==
  /\ DOMAIN calls' = DOMAIN calls
  /\ \A d \in DOMAIN calls :
       /\ calls'[d].adapter = calls[d].adapter
       /\ d # c => calls'[d] = calls[d]

\* No session but that of c changes.
OtherSessionsStay(c) ==
  /\ DOMAIN sessions' = DOMAIN sessions
  /\ sessions' \in [DOMAIN sessions -> [status : SessionStatus, expires : Nat]]
  /\ \A d \in DOMAIN sessions : d # c => sessions'[d] = sessions[d]

\* Moving a call on changes nothing else about it.
LEMMA CallMoved ==
  ASSUME CallsTypeOK, NEW c \in DOMAIN calls, NEW status \in CallStatus,
         calls' = [calls EXCEPT ![c].status = status]
  PROVE  /\ DOMAIN calls' = DOMAIN calls
         /\ calls' \in [DOMAIN calls -> Call]
         /\ \A d \in DOMAIN calls :
              /\ calls'[d].adapter = calls[d].adapter
              /\ calls'[d].lead = calls[d].lead
              /\ calls'[d].received = calls[d].received
              /\ d # c => calls'[d] = calls[d]
         /\ calls'[c].status = status
BY DEF CallsTypeOK, Call

\* What Transition() does.
LEMMA CallTransits ==
  ASSUME CallsTypeOK, NEW c \in DOMAIN calls, NEW type \in EventType, NEW at,
         Transition(c, type, at)
  PROVE  /\ calls[c].status \in EventsAllowedIn[type]
         /\ OthersStay(c)
         /\ calls'[c].lead = calls[c].lead
         /\ calls'[c].status = StatusAfter(calls[c], type, at)
         /\ calls' \in [DOMAIN calls -> Call]
         /\ UNCHANGED <<policy, numberActive>>
<1> DEFINE next == StatusAfter(calls[c], type, at)
<1>1. next \in CallStatus
  BY StatusAfterTyped DEF CallsTypeOK
<1>2. /\ calls[c].status \in EventsAllowedIn[type]
      /\ calls' = [calls EXCEPT ![c].status = next]
      /\ UNCHANGED <<policy, numberActive>>
  BY DEF Transition
<1> HIDE DEF next
<1>3. /\ DOMAIN calls' = DOMAIN calls
      /\ calls' \in [DOMAIN calls -> Call]
      /\ \A d \in DOMAIN calls :
           /\ calls'[d].adapter = calls[d].adapter
           /\ calls'[d].lead = calls[d].lead
           /\ d # c => calls'[d] = calls[d]
      /\ calls'[c].status = next
  BY <1>1, <1>2, CallMoved
<1> QED
  BY <1>2, <1>3 DEF next, OthersStay

\* The event that is stored when a call moves on.
StoredEvent(c, key, type, at) ==
  [call |-> c, key |-> key, type |-> type,
   action |-> Directive(StatusAfter(calls[c], type, at))]

\* What ApplyEvent() does: the call moves on, and one new event tells of it.
LEMMA EventApplied ==
  ASSUME CallsTypeOK, NEW c \in DOMAIN calls, NEW key, NEW type \in EventType, NEW at,
         ApplyEvent(c, key, type, at)
  PROVE  /\ ~Stored(c, key)
         /\ calls[c].status \in EventsAllowedIn[type]
         /\ OthersStay(c)
         /\ calls'[c].lead = calls[c].lead
         /\ calls'[c].status = StatusAfter(calls[c], type, at)
         /\ callEvents' = callEvents \cup {StoredEvent(c, key, type, at)}
         /\ CallsTypeOK'
<1>1. Transition(c, type, at) /\ ~Stored(c, key)
      /\ callEvents' = callEvents \cup {Event(c, key, type)}
  BY DEF ApplyEvent
<1>2. /\ calls[c].status \in EventsAllowedIn[type]
      /\ OthersStay(c)
      /\ calls'[c].lead = calls[c].lead
      /\ calls'[c].status = StatusAfter(calls[c], type, at)
      /\ calls' \in [DOMAIN calls -> Call]
      /\ UNCHANGED <<policy, numberActive>>
  BY <1>1, CallTransits
<1>3. Event(c, key, type) = StoredEvent(c, key, type, at)
  BY <1>2 DEF Event, StoredEvent
<1>4. StoredEvent(c, key, type, at).call = c
  BY DEF StoredEvent
<1>5. CallsTypeOK'
  BY <1>1, <1>2, <1>3, <1>4 DEF CallsTypeOK, OthersStay
<1> QED
  BY <1>1, <1>2, <1>3, <1>5

\* What StaffEvent() does: the same, and the event is kept of some.
LEMMA StaffApplied ==
  ASSUME CallsTypeOK, NEW c, NEW type \in EventType, NEW at, StaffEvent(c, type, at)
  PROVE  /\ c \in DOMAIN calls
         /\ calls[c].status \in EventsAllowedIn[type]
         /\ OthersStay(c)
         /\ calls'[c].lead = calls[c].lead
         /\ calls'[c].status = StatusAfter(calls[c], type, at)
         /\ IF c \in PhoneCalls /\ type \in ReadAfterCall
            THEN callEvents' = callEvents \cup {StoredEvent(c, "staff", type, at)}
            ELSE UNCHANGED callEvents
         /\ UNCHANGED <<leadsVars, now>>
         /\ CallsTypeOK'
<1>1. /\ c \in DOMAIN calls /\ Transition(c, type, at)
      /\ callEvents' = callEvents \cup
           {e \in {Event(c, "staff", type)} : c \in PhoneCalls /\ type \in ReadAfterCall}
      /\ UNCHANGED <<leadsVars, now>>
  BY DEF StaffEvent
<1>2. /\ calls[c].status \in EventsAllowedIn[type]
      /\ OthersStay(c)
      /\ calls'[c].lead = calls[c].lead
      /\ calls'[c].status = StatusAfter(calls[c], type, at)
      /\ calls' \in [DOMAIN calls -> Call]
      /\ UNCHANGED <<policy, numberActive>>
  BY <1>1, CallTransits
<1>3. Event(c, "staff", type) = StoredEvent(c, "staff", type, at)
  BY <1>2 DEF Event, StoredEvent
<1>4. IF c \in PhoneCalls /\ type \in ReadAfterCall
      THEN callEvents' = callEvents \cup {StoredEvent(c, "staff", type, at)}
      ELSE UNCHANGED callEvents
  BY <1>1, <1>3
<1>5. StoredEvent(c, "staff", type, at).call = c
  BY DEF StoredEvent
<1>6. CallsTypeOK'
  BY <1>1, <1>2, <1>4, <1>5 DEF CallsTypeOK, OthersStay
<1> QED
  BY <1>1, <1>2, <1>4, <1>6

----------------------------------------------------------------------------
(* Types. *)

\* The part of the state that only the receptionist writes.
ReceptionTypeOK ==
  /\ DOMAIN sessions \subseteq DOMAIN calls
  /\ sessions \in [DOMAIN sessions -> [status : SessionStatus, expires : Nat]]
  /\ receipts \subseteq DOMAIN sessions
  /\ requests \subseteq (DOMAIN sessions) \X HandoffKind
  /\ DOMAIN dials \subseteq DOMAIN calls
  /\ dials \in [DOMAIN dials -> DialState]
  /\ reconciling \subseteq DOMAIN calls

\* PhoneTypeOK has four parts.
LEMMA TypeParts ==
  PhoneTypeOK <=> now \in Times /\ LeadsTypeOK /\ CallsTypeOK /\ ReceptionTypeOK
BY DEF PhoneTypeOK, ReceptionTypeOK

\* And primed.
LEMMA TypePartsAfter ==
  PhoneTypeOK' <=> (now \in Times)' /\ LeadsTypeOK' /\ CallsTypeOK' /\ ReceptionTypeOK'
BY DEF PhoneTypeOK, ReceptionTypeOK

\* A handler that leaves some tables alone keeps their types.
LEMMA Untouched ==
  ASSUME PhoneTypeOK
  PROVE  /\ UNCHANGED now => (now \in Times)'
         /\ UNCHANGED leadsVars => LeadsTypeOK'
         /\ UNCHANGED callsVars => CallsTypeOK'
         /\ UNCHANGED phoneVars /\ DOMAIN calls \subseteq DOMAIN calls' => ReceptionTypeOK'
BY DEF PhoneTypeOK, leadsVars, callsVars, phoneVars, ReceptionTypeOK, LeadsTypeOK, CallsTypeOK

\* A new session's expiry.
LEMMA ExpiryTyped ==
  ASSUME PhoneTypeOK, NEW c \in DOMAIN calls
  PROVE  AuthorizedUntil(c) \in Nat
<1>1. calls[c].received \in Nat /\ now \in Nat /\ MaxDuration \in Nat
  BY DurationAssumption, ClockAssumption DEF PhoneTypeOK, CallsTypeOK, Call, Times
<1> QED
  BY <1>1 DEF AuthorizedUntil

\* Where a call stays, unless it fails, when it is reported over.
Settled == {"TRANSFER_PENDING", "TRANSFERRED", "FAILED"}

\* The end of a call.
LEMMA FinishedStatus ==
  ASSUME CallsTypeOK, NEW c \in DOMAIN calls, NEW at
  PROVE  /\ Finished(c, at) \in CallStatus
         /\ Finished(c, at) \in {"FAILED", "COMPLETED", calls[c].status}
         /\ Finished(c, at) \notin {"RECEIVED", "CONNECTED"}
         /\ calls[c].status \in Settled =>
              Finished(c, at) \in {"FAILED", calls[c].status}
BY DEF Finished, CallsTypeOK, Call, CallStatus, ActiveCallStatuses, TerminalCallStatuses, Settled

\* Who has a session, a receipt or a transfer is one of the calls, whatever else happens.
LEMMA NewSessionTyped ==
  ASSUME PhoneTypeOK, NEW c \in DOMAIN calls, AcceptConsent(c)
  PROVE  PhoneTypeOK'
<1> DEFINE T == [status : SessionStatus, expires : Nat]
           row == [status |-> "AUTHORIZED", expires |-> AuthorizedUntil(c)]
<1>1. row \in T
  BY ExpiryTyped DEF SessionStatus
<1>2. sessions \in [DOMAIN sessions -> T] /\ sessions' = Put(sessions, c, row)
  BY DEF AcceptConsent, PhoneTypeOK
<1> HIDE DEF T, row
<1>3. DOMAIN sessions' = DOMAIN sessions \cup {c} /\ sessions' \in [DOMAIN sessions' -> T]
  BY <1>1, <1>2 DEF Put
<1>4. UNCHANGED <<receipts, requests, dials, reconciling, callsVars, leadsVars, now>>
  BY DEF AcceptConsent
<1>5. ReceptionTypeOK'
  BY <1>3, <1>4 DEF PhoneTypeOK, ReceptionTypeOK, callsVars, T
<1> QED
  BY <1>4, <1>5, Untouched, TypePartsAfter

\* A session changes its status and nothing else.
LEMMA SessionMoved ==
  ASSUME PhoneTypeOK, NEW c \in DOMAIN sessions, NEW status \in SessionStatus,
         sessions' = [sessions EXCEPT ![c].status = status]
  PROVE  /\ DOMAIN sessions' = DOMAIN sessions
         /\ sessions' \in [DOMAIN sessions -> [status : SessionStatus, expires : Nat]]
         /\ sessions'[c].status = status
         /\ \A d \in DOMAIN sessions \ {c} : sessions'[d] = sessions[d]
BY DEF PhoneTypeOK

\* A row of handoffs is written.
LEMMA HandoffWritten ==
  ASSUME LeadsTypeOK, NEW c \in HandoffIds, NEW l \in LeadIds, NEW kind \in HandoffKind,
         NEW status \in HandoffStatus, CallHandoff(c, l, kind, status)
  PROVE  /\ c \notin DOMAIN handoffs
         /\ DOMAIN handoffs' = DOMAIN handoffs \cup {c}
         /\ handoffs'[c] = [lead |-> l, kind |-> kind, status |-> status]
         /\ \A h \in DOMAIN handoffs : handoffs'[h] = handoffs[h]
         /\ (DOMAIN handoffs \subseteq HandoffIds)'
         /\ (handoffs \in [DOMAIN handoffs -> Handoff])'
<1> DEFINE row == [lead |-> l, kind |-> kind, status |-> status]
<1>1. row \in Handoff
  BY DEF Handoff
<1>2. c \notin DOMAIN handoffs /\ handoffs' = Put(handoffs, c, row)
  BY DEF CallHandoff
<1> HIDE DEF row
<1>3. /\ DOMAIN handoffs' = DOMAIN handoffs \cup {c}
      /\ handoffs'[c] = row
      /\ \A h \in DOMAIN handoffs : handoffs'[h] = handoffs[h]
  BY <1>2 DEF Put
<1>4. handoffs' \in [DOMAIN handoffs' -> Handoff]
  BY <1>1, <1>2 DEF Put, LeadsTypeOK
<1> QED
  BY <1>2, <1>3, <1>4 DEF LeadsTypeOK, row

\* A call that is accepted starts as a call.
LEMMA CallReceived ==
  ASSUME PhoneTypeOK, NEW c \in Calls, NEW adapter \in AdapterName, NEW at \in Times,
         Receive(c, adapter, at)
  PROVE  /\ c \notin DOMAIN calls
         /\ DOMAIN calls' = DOMAIN calls \cup {c}
         /\ calls'[c] = NewCall(adapter, at)
         /\ \A d \in DOMAIN calls : calls'[d] = calls[d]
         /\ UNCHANGED <<policy, numberActive, callEvents, leadsVars, now>>
         /\ CallsTypeOK'
<1>1. /\ c \notin DOMAIN calls
      /\ calls' = Put(calls, c, NewCall(adapter, at))
      /\ UNCHANGED <<policy, numberActive, callEvents, leadsVars, now>>
  BY DEF Receive
<1>2. NewCall(adapter, at) \in Call
  <2>1. policy \in PolicyType
    BY PoliciesAssumption DEF PhoneTypeOK, CallsTypeOK
  <2>2. at \in Nat
    BY ClockAssumption DEF Times
  <2> QED
    BY <2>1, <2>2 DEF NewCall, Call, PolicyType, CallStatus, ActiveCallStatuses
<1>3. DOMAIN calls' = DOMAIN calls \cup {c}
  BY <1>1 DEF Put
<1>4. calls'[c] = NewCall(adapter, at) /\ \A d \in DOMAIN calls : calls'[d] = calls[d]
  BY <1>1 DEF Put
<1>5. calls' \in [DOMAIN calls' -> Call]
  BY <1>1, <1>2 DEF Put, PhoneTypeOK, CallsTypeOK
<1>6. CallsTypeOK'
  BY <1>1, <1>3, <1>5 DEF PhoneTypeOK, CallsTypeOK
<1> QED
  BY <1>1, <1>3, <1>4, <1>6

\* What link_lead() does.
LEMMA LeadLinked ==
  ASSUME PhoneTypeOK, NEW c \in Calls, NEW l \in LeadIds, LinkLead(c, l)
  PROVE  /\ c \in DOMAIN calls /\ calls[c].lead = NoLead /\ l \in DOMAIN leads
         /\ OthersStay(c)
         /\ calls'[c].lead = l
         /\ \/ /\ calls'[c].status = "CALLBACK_REQUESTED"
               /\ calls[c].status = "CALLBACK_PENDING"
               /\ CallHandoff(c, l, "CALLBACK", "REQUESTED")
            \/ /\ calls'[c].status = calls[c].status
               /\ calls[c].status \in {"RECEIVED", "CONNECTED"}
               /\ UNCHANGED handoffs
         /\ UNCHANGED <<policy, numberActive, callEvents, leads, now>>
         /\ CallsTypeOK'
         /\ LeadsTypeOK'
<1>1. /\ c \in DOMAIN calls /\ calls[c].lead = NoLead /\ l \in DOMAIN leads
      /\ UNCHANGED <<policy, numberActive, callEvents, leads, now>>
  BY DEF LinkLead
<1>2. CASE /\ calls[c].status = "CALLBACK_PENDING"
           /\ CallHandoff(c, l, "CALLBACK", "REQUESTED")
           /\ calls' = [calls EXCEPT ![c].lead = l, ![c].status = "CALLBACK_REQUESTED"]
  <2>1. LeadsTypeOK'
    BY <1>1, <1>2, HandoffWritten, CallsAssumption
    DEF HandoffKind, HandoffStatus, PhoneTypeOK, LeadsTypeOK
  <2>2. calls' \in [DOMAIN calls -> Call]
    <3> DEFINE linked == [calls EXCEPT ![c].lead = l]
    <3>1. linked \in [DOMAIN calls -> Call]
      BY <1>1 DEF PhoneTypeOK, CallsTypeOK, Call
    <3>2. calls' = [linked EXCEPT ![c].status = "CALLBACK_REQUESTED"]
      BY <1>1, <1>2
    <3>3. "CALLBACK_REQUESTED" \in CallStatus
      BY DEF CallStatus, TerminalCallStatuses
    <3> HIDE DEF linked
    <3> QED
      BY <3>1, <3>2, <3>3 DEF Call
  <2>3. CallsTypeOK'
    BY <1>1, <2>2 DEF PhoneTypeOK, CallsTypeOK
  <2> QED
    BY <1>1, <1>2, <2>1, <2>2, <2>3 DEF PhoneTypeOK, CallsTypeOK, Call, OthersStay, OtherSessionsStay
<1>3. CASE /\ calls[c].status \in {"RECEIVED", "CONNECTED"}
           /\ calls' = [calls EXCEPT ![c].lead = l]
           /\ UNCHANGED handoffs
  <2>1. LeadsTypeOK'
    BY <1>1, <1>3 DEF PhoneTypeOK, LeadsTypeOK
  <2>2. calls' \in [DOMAIN calls -> Call]
    BY <1>3 DEF PhoneTypeOK, CallsTypeOK, Call
  <2>3. CallsTypeOK'
    BY <1>1, <2>2 DEF PhoneTypeOK, CallsTypeOK
  <2> QED
    BY <1>1, <1>3, <2>1, <2>2, <2>3 DEF PhoneTypeOK, CallsTypeOK, Call, OthersStay, OtherSessionsStay
<1> QED
  BY <1>2, <1>3 DEF LinkLead

\* The event that a handler of the post-call webhook stores.
PostCallEvent(c, key) ==
  [call |-> c, key |-> key, type |-> "PHONE_POST_CALL_FINALIZED", action |-> "NONE"]

\* A report after the call, of one the caller confirmed nothing in or that never began.
LEMMA ReportStored ==
  ASSUME CallsTypeOK, NEW c \in DOMAIN calls, NEW key, NEW status \in CallStatus,
         StorePostCall(c, key), calls' = [calls EXCEPT ![c].status = status],
         UNCHANGED <<policy, numberActive>>
  PROVE  /\ ~Stored(c, key)
         /\ callEvents' = callEvents \cup {PostCallEvent(c, key)}
         /\ OthersStay(c)
         /\ calls'[c].lead = calls[c].lead
         /\ calls'[c].status = status
         /\ CallsTypeOK'
<1>1. ~Stored(c, key) /\ callEvents' = callEvents \cup {PostCallEvent(c, key)}
  BY DEF StorePostCall, PostCallEvent
<1>2. /\ DOMAIN calls' = DOMAIN calls
      /\ calls' \in [DOMAIN calls -> Call]
      /\ \A d \in DOMAIN calls :
           /\ calls'[d].adapter = calls[d].adapter
           /\ calls'[d].lead = calls[d].lead
           /\ d # c => calls'[d] = calls[d]
      /\ calls'[c].status = status
  BY CallMoved
<1>3. PostCallEvent(c, key).call = c
  BY DEF PostCallEvent
<1>4. CallsTypeOK'
  BY <1>1, <1>2, <1>3 DEF CallsTypeOK
<1> QED
  BY <1>1, <1>2, <1>4 DEF OthersStay, OtherSessionsStay

\* What becomes of the session when nothing was confirmed.
LEMMA SessionsFailed ==
  ASSUME PhoneTypeOK, NEW c,
         \/ UNCHANGED sessions
         \/ c \in DOMAIN sessions /\ sessions' = [sessions EXCEPT ![c].status = "FAILED"]
  PROVE  /\ DOMAIN sessions' = DOMAIN sessions
         /\ sessions' \in [DOMAIN sessions -> [status : SessionStatus, expires : Nat]]
         /\ \A d \in DOMAIN sessions : d # c => sessions'[d] = sessions[d]
BY SessionMoved DEF PhoneTypeOK, SessionStatus

\* The end of a call without a receipt.
LEMMA EndedUnconfirmed ==
  ASSUME PhoneTypeOK, NEW c \in PhoneCalls, NEW at, EndUnconfirmed(c, at)
  PROVE  /\ ~Stored(c, "post-call")
         /\ c \notin receipts
         /\ callEvents' = callEvents \cup {PostCallEvent(c, "post-call")}
         /\ OthersStay(c)
         /\ calls'[c].lead = calls[c].lead
         /\ calls'[c].status \in {"FAILED", "COMPLETED", calls[c].status}
         /\ calls'[c].status \notin {"RECEIVED", "CONNECTED", "CALLBACK_PENDING"}
         /\ calls[c].status \in Settled =>
              calls'[c].status \in {"FAILED", calls[c].status}
         /\ OtherSessionsStay(c)
         /\ c \in DOMAIN sessions =>
              IF sessions[c].status \in {"AUTHORIZED", "REVIEW_PENDING"}
              THEN sessions'[c].status = "FAILED" ELSE sessions'[c] = sessions[c]
         /\ UNCHANGED <<receipts, requests, dials, reconciling, leadsVars, now>>
         /\ CallsTypeOK'
<1> DEFINE end == Finished(c, at)
           status == IF end = "CALLBACK_PENDING" THEN "FAILED" ELSE end
<1>1. CallsTypeOK /\ c \in DOMAIN calls
  BY DEF PhoneTypeOK, PhoneCalls
<1>2. /\ end \in CallStatus
      /\ end \in {"FAILED", "COMPLETED", calls[c].status}
      /\ end \notin {"RECEIVED", "CONNECTED"}
      /\ calls[c].status \in Settled => end \in {"FAILED", calls[c].status}
  BY <1>1, FinishedStatus
<1>3. /\ c \notin receipts
      /\ StorePostCall(c, "post-call")
      /\ calls' = [calls EXCEPT ![c].status = status]
      /\ sessions' = IF c \in DOMAIN sessions /\ sessions[c].status \in
                           {"AUTHORIZED", "REVIEW_PENDING"}
                     THEN [sessions EXCEPT ![c].status = "FAILED"] ELSE sessions
      /\ UNCHANGED <<receipts, requests, dials, reconciling, policy, numberActive, leadsVars, now>>
  BY DEF EndUnconfirmed
<1> HIDE DEF end
<1>4. status \in CallStatus
  BY <1>2 DEF CallStatus, TerminalCallStatuses
<1>5. /\ status \in {"FAILED", "COMPLETED", calls[c].status}
      /\ status \notin {"RECEIVED", "CONNECTED", "CALLBACK_PENDING"}
      /\ calls[c].status \in Settled => status \in {"FAILED", calls[c].status}
  BY <1>2
<1> HIDE DEF status
<1>6. /\ ~Stored(c, "post-call")
      /\ callEvents' = callEvents \cup {PostCallEvent(c, "post-call")}
      /\ DOMAIN calls' = DOMAIN calls
      /\ \A d \in DOMAIN calls :
           /\ calls'[d].adapter = calls[d].adapter
           /\ calls'[d].lead = calls[d].lead
           /\ d # c => calls'[d] = calls[d]
      /\ calls'[c].status = status
      /\ CallsTypeOK'
  BY <1>1, <1>3, <1>4, ReportStored DEF OthersStay, OtherSessionsStay
<1>7. /\ DOMAIN sessions' = DOMAIN sessions
      /\ sessions' \in [DOMAIN sessions -> [status : SessionStatus, expires : Nat]]
      /\ \A d \in DOMAIN sessions : d # c => sessions'[d] = sessions[d]
  BY <1>3, SessionsFailed
<1>8. c \in DOMAIN sessions =>
        IF sessions[c].status \in {"AUTHORIZED", "REVIEW_PENDING"}
        THEN sessions'[c].status = "FAILED" ELSE sessions'[c] = sessions[c]
  BY <1>3, SessionMoved DEF SessionStatus
<1> QED
  BY <1>3, <1>5, <1>6, <1>7, <1>8 DEF OthersStay, OtherSessionsStay

\* A call that the voice provider could not start.
LEMMA InitiationFailed ==
  ASSUME PhoneTypeOK, NEW c \in PhoneCalls, InitiationFailure(c)
  PROVE  /\ c \in DOMAIN sessions => sessions[c].status # "CONFIRMED"
         /\ callEvents' = callEvents \cup {PostCallEvent(c, "initiation-failure")}
         /\ OthersStay(c)
         /\ calls'[c].lead = calls[c].lead
         /\ calls'[c].status = "FAILED"
         /\ OtherSessionsStay(c)
         /\ c \in DOMAIN sessions => sessions'[c].status = "FAILED"
         /\ ~Stored(c, "initiation-failure")
         /\ UNCHANGED <<receipts, requests, dials, reconciling, leadsVars, now>>
         /\ CallsTypeOK'
<1>1. CallsTypeOK /\ c \in DOMAIN calls /\ "FAILED" \in CallStatus
  BY DEF PhoneTypeOK, PhoneCalls, CallStatus, TerminalCallStatuses
<1>2. /\ c \in DOMAIN sessions => sessions[c].status # "CONFIRMED"
      /\ StorePostCall(c, "initiation-failure")
      /\ calls' = [calls EXCEPT ![c].status = "FAILED"]
      /\ sessions' = IF c \in DOMAIN sessions
                     THEN [sessions EXCEPT ![c].status = "FAILED"] ELSE sessions
      /\ UNCHANGED <<receipts, requests, dials, reconciling, policy, numberActive, leadsVars, now>>
  BY DEF InitiationFailure
<1>3. /\ ~Stored(c, "initiation-failure")
      /\ callEvents' = callEvents \cup {PostCallEvent(c, "initiation-failure")}
      /\ DOMAIN calls' = DOMAIN calls
      /\ \A d \in DOMAIN calls :
           /\ calls'[d].adapter = calls[d].adapter
           /\ calls'[d].lead = calls[d].lead
           /\ d # c => calls'[d] = calls[d]
      /\ calls'[c].status = "FAILED"
      /\ CallsTypeOK'
  BY <1>1, <1>2, ReportStored DEF OthersStay, OtherSessionsStay
<1>4. /\ DOMAIN sessions' = DOMAIN sessions
      /\ sessions' \in [DOMAIN sessions -> [status : SessionStatus, expires : Nat]]
      /\ \A d \in DOMAIN sessions : d # c => sessions'[d] = sessions[d]
  BY <1>2, SessionsFailed
<1>5. c \in DOMAIN sessions => sessions'[c].status = "FAILED"
  BY <1>2, SessionMoved DEF SessionStatus
<1> QED
  BY <1>2, <1>3, <1>4, <1>5 DEF OthersStay, OtherSessionsStay

\* The handoff that comes with the lead of a confirmed readback.
HandoffMaterialized(c) ==
  \/ RequestedHandoffKind(c) = {} /\ UNCHANGED handoffs
  \/ \E kind \in RequestedHandoffKind(c) :
       CallHandoff(c, c, kind, IF HasEvent(c, "TRANSFER_SUCCEEDED")
                               THEN "COMPLETED" ELSE "REQUESTED")

\* The end of a call whose caller confirmed the readback.
LEMMA Materialized ==
  ASSUME PhoneTypeOK, NEW c \in PhoneCalls, NEW at, Materialize(c, at)
  PROVE  /\ ~Stored(c, "post-call")
         /\ c \in receipts
         /\ c \notin DOMAIN leads
         /\ DOMAIN leads' = DOMAIN leads \cup {c}
         /\ callEvents' = callEvents \cup {PostCallEvent(c, "post-call")}
         /\ OthersStay(c)
         /\ calls'[c].lead = c
         /\ calls'[c].status \in {"FAILED", "COMPLETED", "CALLBACK_REQUESTED", calls[c].status}
         /\ calls'[c].status \notin {"RECEIVED", "CONNECTED", "CALLBACK_PENDING"}
         /\ calls'[c].status = "CALLBACK_REQUESTED" =>
              calls[c].status \in {"CALLBACK_PENDING", "CALLBACK_REQUESTED"}
         /\ calls[c].status \in Settled =>
              calls'[c].status \in {"FAILED", calls[c].status}
         /\ OtherSessionsStay(c)
         /\ c \in DOMAIN sessions
         /\ sessions'[c].status = "CONFIRMED"
         /\ HandoffMaterialized(c)
         /\ UNCHANGED <<receipts, requests, dials, reconciling, now>>
         /\ CallsTypeOK'
         /\ LeadsTypeOK'
<1> DEFINE end == Finished(c, at)
           status == IF end = "CALLBACK_PENDING" THEN "CALLBACK_REQUESTED" ELSE end
           outcome == IF HasEvent(c, "TRANSFER_SUCCEEDED") THEN "COMPLETED" ELSE "REQUESTED"
           linked == [calls EXCEPT ![c].lead = c]
<1>1. /\ CallsTypeOK /\ LeadsTypeOK
      /\ c \in DOMAIN calls /\ c \in LeadIds /\ c \in HandoffIds
      /\ receipts \subseteq DOMAIN sessions
  BY CallsAssumption DEF PhoneTypeOK, PhoneCalls, CallsTypeOK
<1>2. /\ end \in CallStatus
      /\ end \in {"FAILED", "COMPLETED", calls[c].status}
      /\ end \notin {"RECEIVED", "CONNECTED"}
      /\ calls[c].status \in Settled => end \in {"FAILED", calls[c].status}
  BY <1>1, FinishedStatus
<1>3. /\ c \in receipts
      /\ StorePostCall(c, "post-call")
      /\ AddLead(c)
      /\ \/ RequestedHandoffKind(c) = {} /\ UNCHANGED handoffs
         \/ \E kind \in RequestedHandoffKind(c) : CallHandoff(c, c, kind, outcome)
      /\ sessions' = [sessions EXCEPT ![c].status = "CONFIRMED"]
      /\ calls' = [calls EXCEPT ![c].lead = c, ![c].status = status]
      /\ UNCHANGED <<receipts, requests, dials, reconciling, policy, numberActive, now>>
  BY DEF Materialize
<1> HIDE DEF end
<1>4. status \in CallStatus
  BY <1>2 DEF CallStatus, TerminalCallStatuses
<1>5. /\ status \in {"FAILED", "COMPLETED", "CALLBACK_REQUESTED", calls[c].status}
      /\ status \notin {"RECEIVED", "CONNECTED", "CALLBACK_PENDING"}
      /\ status = "CALLBACK_REQUESTED" =>
           calls[c].status \in {"CALLBACK_PENDING", "CALLBACK_REQUESTED"}
      /\ calls[c].status \in Settled => status \in {"FAILED", calls[c].status}
  BY <1>2 DEF Settled
<1> HIDE DEF status, outcome
<1>6. /\ linked \in [DOMAIN calls -> Call]
      /\ \A d \in DOMAIN calls : /\ linked[d].adapter = calls[d].adapter
                                 /\ d # c => linked[d] = calls[d]
      /\ linked[c].lead = c
  BY <1>1 DEF CallsTypeOK, Call
<1>7. calls' = [linked EXCEPT ![c].status = status]
  BY <1>1, <1>3
<1> HIDE DEF linked
<1>8. /\ DOMAIN calls' = DOMAIN calls
      /\ calls' \in [DOMAIN calls -> Call]
      /\ \A d \in DOMAIN calls :
           calls'[d].adapter = calls[d].adapter /\ (d # c => calls'[d] = calls[d])
      /\ calls'[c].lead = c
      /\ calls'[c].status = status
  BY <1>1, <1>4, <1>6, <1>7 DEF Call
<1>9. ~Stored(c, "post-call") /\ callEvents' = callEvents \cup {PostCallEvent(c, "post-call")}
  BY <1>3 DEF StorePostCall, PostCallEvent
<1>10. CallsTypeOK'
  <2>1. PostCallEvent(c, "post-call").call = c
    BY DEF PostCallEvent
  <2> QED
    BY <1>1, <1>3, <1>8, <1>9, <2>1 DEF CallsTypeOK
<1>11. /\ c \in DOMAIN sessions
       /\ DOMAIN sessions' = DOMAIN sessions
       /\ sessions' \in [DOMAIN sessions -> [status : SessionStatus, expires : Nat]]
       /\ \A d \in DOMAIN sessions : d # c => sessions'[d] = sessions[d]
       /\ sessions'[c].status = "CONFIRMED"
  BY <1>1, <1>3, SessionMoved DEF SessionStatus
<1>12. c \notin DOMAIN leads /\ leads' = Put(leads, c, "NEW")
  BY <1>3 DEF AddLead
<1>13. DOMAIN leads' = DOMAIN leads \cup {c} /\ leads' \in [DOMAIN leads' -> LeadStatus]
  BY <1>1, <1>12 DEF Put, LeadsTypeOK, LeadStatus
<1>14. LeadsTypeOK'
  <2>1. RequestedHandoffKind(c) \subseteq HandoffKind /\ outcome \in HandoffStatus
    BY DEF RequestedHandoffKind, HandoffKind, HandoffStatus, outcome
  <2>2. (DOMAIN handoffs \subseteq HandoffIds)' /\ (handoffs \in [DOMAIN handoffs -> Handoff])'
    BY <1>1, <1>3, <2>1, HandoffWritten DEF LeadsTypeOK
  <2> QED
    BY <1>1, <1>13, <2>2 DEF LeadsTypeOK
<1> QED
  <2>1. HandoffMaterialized(c)
    BY <1>3 DEF HandoffMaterialized, outcome
  <2>2. OthersStay(c) /\ OtherSessionsStay(c)
    BY <1>8, <1>11 DEF OthersStay, OtherSessionsStay
  <2> QED
    BY <1>3, <1>5, <1>8, <1>9, <1>10, <1>11, <1>12, <1>13, <1>14, <2>1, <2>2

\* Staff and the network's reconciliation rewrite a row of handoffs.
LEMMA HandoffRewritten ==
  ASSUME LeadsTypeOK, NEW h \in DOMAIN handoffs, NEW row \in Handoff,
         handoffs' = [handoffs EXCEPT ![h] = row], UNCHANGED leads
  PROVE  LeadsTypeOK'
BY DEF LeadsTypeOK

\* The policy and the number change; a call keeps the policy it came under.
LEMMA AdministrationTyped == PhoneTypeOK /\ Administration => PhoneTypeOK'
<1> SUFFICES ASSUME PhoneTypeOK, Administration PROVE PhoneTypeOK'
  OBVIOUS
<1>1. UNCHANGED <<calls, callEvents, leadsVars, now, phoneVars>> /\ CallsTypeOK'
  BY DEF Administration, ReplacePolicy, SetNumberStatus, PhoneTypeOK, CallsTypeOK
<1> QED
  BY <1>1, Untouched, TypePartsAfter

\* What staff send and link.
LEMMA StaffOnCallsTyped == PhoneTypeOK /\ StaffOnCalls => PhoneTypeOK'
<1> SUFFICES ASSUME PhoneTypeOK, StaffOnCalls PROVE PhoneTypeOK'
  OBVIOUS
<1>1. ASSUME NEW c \in Calls, NEW type \in EventType, NEW at, StaffEvent(c, type, at)
      PROVE  /\ UNCHANGED <<leadsVars, now>> /\ CallsTypeOK'
             /\ DOMAIN calls \subseteq DOMAIN calls'
  BY <1>1, StaffApplied DEF PhoneTypeOK, OthersStay
<1>2. ASSUME NEW c \in Calls, NEW l \in LeadIds, LinkLead(c, l)
      PROVE  /\ UNCHANGED now /\ LeadsTypeOK' /\ CallsTypeOK'
             /\ DOMAIN calls \subseteq DOMAIN calls'
  BY <1>2, LeadLinked DEF OthersStay, OtherSessionsStay
<1>3. UNCHANGED phoneVars
  BY DEF StaffOnCalls
<1> QED
  BY <1>1, <1>2, <1>3, Untouched, TypePartsAfter DEF StaffOnCalls

\* What the tools of the agent write.
LEMMA ToolsTyped == PhoneTypeOK /\ Tools => PhoneTypeOK'
<1> SUFFICES ASSUME PhoneTypeOK, NEW c \in PhoneCalls,
                    \/ RegistrationFails(c) \/ AcceptConsent(c) \/ Answer(c)
                    \/ ConfirmIntake(c)
                    \/ \E kind \in HandoffKind : AskForPerson(c, kind)
                    \/ RequestCallback(c) \/ RequestTransfer(c)
             PROVE  PhoneTypeOK'
  BY DEF Tools
<1>1. c \in DOMAIN calls /\ CallsTypeOK
  BY DEF PhoneCalls, PhoneTypeOK
<1>2. ASSUME NEW key, NEW type \in EventType, ApplyEvent(c, key, type, now)
      PROVE  CallsTypeOK' /\ DOMAIN calls \subseteq DOMAIN calls'
  BY <1>1, <1>2, EventApplied DEF OthersStay, OtherSessionsStay
<1>3. CASE RegistrationFails(c) \/ Answer(c) \/ RequestCallback(c)
  <2>1. CallsTypeOK' /\ DOMAIN calls \subseteq DOMAIN calls'
    BY <1>2, <1>3 DEF RegistrationFails, Answer, RequestCallback, EventType
  <2>2. UNCHANGED <<phoneVars, leadsVars, now>>
    BY <1>3 DEF RegistrationFails, Answer, RequestCallback
  <2> QED
    BY <2>1, <2>2, Untouched, TypePartsAfter
<1>4. CASE AcceptConsent(c)
  BY <1>1, <1>4, NewSessionTyped
<1>5. CASE ConfirmIntake(c)
  <2>1. /\ c \in DOMAIN sessions
        /\ receipts' = receipts \cup {c}
        /\ sessions' = [sessions EXCEPT ![c].status = "REVIEW_PENDING"]
        /\ UNCHANGED <<requests, dials, reconciling, callsVars, leadsVars, now>>
    BY <1>5 DEF ConfirmIntake, InContext
  <2>2. /\ DOMAIN sessions' = DOMAIN sessions
        /\ sessions' \in [DOMAIN sessions -> [status : SessionStatus, expires : Nat]]
    BY <2>1, SessionMoved DEF SessionStatus
  <2>3. ReceptionTypeOK'
    BY <2>1, <2>2 DEF PhoneTypeOK, ReceptionTypeOK, callsVars
  <2> QED
    BY <2>1, <2>3, Untouched, TypePartsAfter
<1>6. CASE RequestTransfer(c)
  <2>1. CallsTypeOK' /\ DOMAIN calls' = DOMAIN calls
    BY <1>1, <1>6, EventApplied DEF RequestTransfer, EventType, OthersStay, OtherSessionsStay
  <2>2. /\ UNCHANGED <<sessions, receipts, requests, reconciling, leadsVars, now>>
        /\ dials' \in {dials, Put(dials, c, "directed")}
    BY <1>6 DEF RequestTransfer
  <2>3. /\ DOMAIN Put(dials, c, "directed") \subseteq DOMAIN calls
        /\ Put(dials, c, "directed") \in [DOMAIN Put(dials, c, "directed") -> DialState]
    BY <1>1 DEF Put, DialState, PhoneTypeOK
  <2>4. ReceptionTypeOK'
    BY <2>1, <2>2, <2>3 DEF PhoneTypeOK, ReceptionTypeOK
  <2> QED
    BY <2>1, <2>2, <2>4, Untouched, TypePartsAfter
<1>7. CASE \E kind \in HandoffKind : AskForPerson(c, kind)
  <2>1. PICK kind \in HandoffKind : AskForPerson(c, kind)
    BY <1>7
  <2>2. /\ c \in DOMAIN sessions
        /\ requests' = requests \cup {<<c, kind>>}
        /\ UNCHANGED <<sessions, receipts, dials, reconciling, callsVars, leadsVars, now>>
    BY <2>1 DEF AskForPerson, MayAskForPerson, InContext
  <2>3. ReceptionTypeOK'
    BY <2>2 DEF PhoneTypeOK, ReceptionTypeOK, callsVars
  <2> QED
    BY <2>2, <2>3, Untouched, TypePartsAfter
<1> QED
  BY <1>3, <1>4, <1>5, <1>6, <1>7

\* A transfer's command and result.
LEMMA TransfersTyped == PhoneTypeOK /\ Transfers => PhoneTypeOK'
<1> SUFFICES ASSUME PhoneTypeOK, NEW c \in PhoneCalls,
                    \/ CommandTransfer(c) \/ LoseTransferCommand(c) \/ RefuseTransferCommand(c)
                    \/ \E result \in {"answered", "missed"} : DialEnds(c, result)
                    \/ TransferResult(c) \/ Reconcile(c)
             PROVE  PhoneTypeOK'
  BY DEF Transfers
<1>1. c \in DOMAIN calls /\ CallsTypeOK /\ LeadsTypeOK
  BY DEF PhoneCalls, PhoneTypeOK
<1>2. ASSUME NEW key, NEW type \in EventType,
             ApplyEvent(c, key, type, now) \/ UNCHANGED callsVars
      PROVE  CallsTypeOK' /\ DOMAIN calls' = DOMAIN calls
  BY <1>1, <1>2, EventApplied, Untouched DEF callsVars, OthersStay, OtherSessionsStay
<1>3. ASSUME NEW from, NEW to \in DialState, Dial(c, from, to)
      PROVE  (DOMAIN dials \subseteq DOMAIN calls /\ dials' \in [DOMAIN dials' -> DialState])
               /\ DOMAIN dials' = DOMAIN dials
  BY <1>3 DEF Dial, PhoneTypeOK
<1>4. CASE CommandTransfer(c) \/ LoseTransferCommand(c)
             \/ \E result \in {"answered", "missed"} : DialEnds(c, result)
  <2>1. \E from \in DialState, to \in DialState : Dial(c, from, to)
    BY <1>4 DEF CommandTransfer, LoseTransferCommand, DialEnds, DialState
  <2>2. UNCHANGED <<sessions, receipts, requests, reconciling, callsVars, leadsVars, now>>
    BY <1>4 DEF CommandTransfer, LoseTransferCommand, DialEnds
  <2>3. ReceptionTypeOK'
    BY <1>3, <2>1, <2>2 DEF PhoneTypeOK, ReceptionTypeOK, callsVars
  <2> QED
    BY <2>2, <2>3, Untouched, TypePartsAfter
<1>5. CASE RefuseTransferCommand(c)
  <2>1. Dial(c, "directed", "over") /\ "over" \in DialState
    BY <1>5 DEF RefuseTransferCommand, DialState
  <2>2. UNCHANGED <<sessions, receipts, requests, reconciling, leadsVars, now>>
    BY <1>5 DEF RefuseTransferCommand
  <2>3. CallsTypeOK' /\ DOMAIN calls' = DOMAIN calls
    BY <1>2, <1>5 DEF RefuseTransferCommand, EventType
  <2>4. ReceptionTypeOK'
    BY <1>3, <2>1, <2>2, <2>3 DEF PhoneTypeOK, ReceptionTypeOK
  <2> QED
    BY <2>2, <2>3, <2>4, Untouched, TypePartsAfter
<1>6. CASE TransferResult(c)
  <2>1. /\ reconciling' = reconciling \cup {c}
        /\ UNCHANGED <<sessions, receipts, requests, dials, leadsVars, now>>
    BY <1>6 DEF TransferResult
  <2>2. ResultType(c) \in EventType
    BY DEF ResultType, EventType
  <2>3. CallsTypeOK' /\ DOMAIN calls' = DOMAIN calls
    BY <1>2, <1>6, <2>2 DEF TransferResult
  <2>4. ReceptionTypeOK'
    BY <1>1, <2>1, <2>3 DEF PhoneTypeOK, ReceptionTypeOK
  <2> QED
    BY <2>1, <2>3, <2>4, Untouched, TypePartsAfter
<1>7. CASE Reconcile(c)
  <2>1. /\ reconciling' \subseteq reconciling
        /\ UNCHANGED <<sessions, receipts, requests, dials, callsVars, leads, now>>
    BY <1>7 DEF Reconcile
  <2>2. ReceptionTypeOK'
    BY <2>1 DEF PhoneTypeOK, ReceptionTypeOK, callsVars
  <2>3. LeadsTypeOK'
    <3>1. CASE c \notin DOMAIN handoffs
      BY <1>7, <2>1, <3>1, Untouched DEF Reconcile, leadsVars
    <3>2. CASE c \in DOMAIN handoffs
      <4> DEFINE row == Reconciled(handoffs[c], dials[c] = "answered")
      <4>1. row \in Handoff
        BY <1>1, <3>2 DEF Reconciled, LeadsTypeOK, Handoff, HandoffKind, HandoffStatus
      <4>2. handoffs' = [handoffs EXCEPT ![c] = row]
        BY <1>7, <3>2 DEF Reconcile
      <4> HIDE DEF row
      <4> QED
        BY <1>1, <2>1, <3>2, <4>1, <4>2, HandoffRewritten
    <3> QED
      BY <3>1, <3>2
  <2> QED
    BY <2>1, <2>2, <2>3, Untouched, TypePartsAfter
<1> QED
  BY <1>4, <1>5, <1>6, <1>7

\* What is written after a call.
LEMMA PostCallTyped == PhoneTypeOK /\ PostCall => PhoneTypeOK'
<1> SUFFICES ASSUME PhoneTypeOK, NEW c \in PhoneCalls,
                    \/ \E at \in 0..now : EndUnconfirmed(c, at) \/ Materialize(c, at)
                    \/ InitiationFailure(c)
                    \/ ExpireStaleSession(c)
             PROVE  PhoneTypeOK'
  BY DEF PostCall
<1>1. CASE /\ CallsTypeOK' /\ DOMAIN calls' = DOMAIN calls
           /\ DOMAIN sessions' = DOMAIN sessions
           /\ sessions' \in [DOMAIN sessions -> [status : SessionStatus, expires : Nat]]
           /\ UNCHANGED <<receipts, requests, dials, reconciling, now>>
           /\ LeadsTypeOK'
  <2>1. ReceptionTypeOK'
    BY <1>1 DEF PhoneTypeOK, ReceptionTypeOK
  <2> QED
    BY <1>1, <2>1, Untouched, TypePartsAfter
<1>2. ASSUME NEW at, EndUnconfirmed(c, at) PROVE PhoneTypeOK'
  BY <1>1, <1>2, EndedUnconfirmed, Untouched DEF OthersStay, OtherSessionsStay
<1>3. ASSUME NEW at, Materialize(c, at) PROVE PhoneTypeOK'
  BY <1>1, <1>3, Materialized DEF OthersStay, OtherSessionsStay
<1>4. CASE InitiationFailure(c)
  BY <1>1, <1>4, InitiationFailed, Untouched DEF OthersStay, OtherSessionsStay
<1>5. CASE ExpireStaleSession(c)
  <2>1. /\ c \in DOMAIN sessions
        /\ sessions' = [sessions EXCEPT ![c].status = "EXPIRED"]
        /\ UNCHANGED <<receipts, requests, dials, reconciling, callsVars, leadsVars, now>>
    BY <1>5 DEF ExpireStaleSession
  <2>2. /\ DOMAIN sessions' = DOMAIN sessions
        /\ sessions' \in [DOMAIN sessions -> [status : SessionStatus, expires : Nat]]
    BY <2>1, SessionMoved DEF SessionStatus
  <2>3. LeadsTypeOK' /\ CallsTypeOK' /\ DOMAIN calls' = DOMAIN calls
    BY <2>1, Untouched DEF callsVars
  <2> QED
    BY <1>1, <2>1, <2>2, <2>3
<1> QED
  BY <1>2, <1>3, <1>4, <1>5

\* Every step keeps the types.
LEMMA TypeStep == PhoneTypeOK /\ [Next]_allVars => PhoneTypeOK'
<1> SUFFICES ASSUME PhoneTypeOK, [Next]_allVars PROVE PhoneTypeOK'
  OBVIOUS
<1>1. CASE Advance
  <2>1. (now \in Times)' /\ UNCHANGED <<phoneVars, callsVars, leadsVars>>
    BY <1>1, ClockAssumption DEF Advance, Tick, PhoneTypeOK, Times
  <2> QED
    BY <2>1, Untouched, TypePartsAfter DEF callsVars
<1>2. CASE Reception
  <2>1. PICK c \in Calls, adapter \in AdapterName, at \in Times : Receive(c, adapter, at)
    BY <1>2 DEF Reception
  <2>2. /\ CallsTypeOK' /\ DOMAIN calls \subseteq DOMAIN calls'
        /\ UNCHANGED <<leadsVars, now>>
    BY <2>1, CallReceived
  <2>3. UNCHANGED phoneVars
    BY <1>2 DEF Reception
  <2> QED
    BY <2>2, <2>3, Untouched, TypePartsAfter
<1>3. CASE Staff
  <2>1. PICK h \in HandoffIds, s \in HandoffStatus : SetHandoffStatus(h, s)
    BY <1>3 DEF Staff
  <2>2. [handoffs[h] EXCEPT !.status = s] \in Handoff
    BY <2>1 DEF SetHandoffStatus, PhoneTypeOK, LeadsTypeOK, Handoff
  <2>3. handoffs' = [handoffs EXCEPT ![h] = [handoffs[h] EXCEPT !.status = s]]
    BY <2>1 DEF SetHandoffStatus
  <2>4. LeadsTypeOK'
    BY <2>1, <2>2, <2>3, HandoffRewritten DEF SetHandoffStatus, PhoneTypeOK
  <2>5. UNCHANGED <<phoneVars, callsVars, now>>
    BY <1>3 DEF Staff
  <2> QED
    BY <2>4, <2>5, Untouched, TypePartsAfter DEF callsVars
<1>4. CASE UNCHANGED allVars
  BY <1>4, Untouched, TypePartsAfter DEF allVars, callsVars
<1> QED
  BY <1>1, <1>2, <1>3, <1>4, AdministrationTyped, StaffOnCallsTyped, ToolsTyped, TransfersTyped,
     PostCallTyped DEF Next

\* The initial state has no rows.
LEMMA InitTyped == Init => PhoneTypeOK
BY ClockAssumption
DEF Init, PhoneInit, CallsInit, Nothing, PhoneTypeOK, LeadsTypeOK, LeadStatus, CallsTypeOK, Times

\* The tables stay typed and refer to rows that exist.
THEOREM PhoneIsTyped == Spec => []TypeOK
<1>1. Init => PhoneTypeOK
  BY InitTyped
<1>2. PhoneTypeOK /\ [Next]_allVars => PhoneTypeOK'
  BY TypeStep
<1>3. Spec => []PhoneTypeOK
  BY <1>1, <1>2, PTL DEF Spec
<1> QED
  BY <1>3, PTL DEF TypeOK

----------------------------------------------------------------------------
(* Calls that are over, and the limits. *)

\* Only the end of a call is accepted when it is over, and leaves it as it is.
LEMMA EventAfterEnd ==
  ASSUME NEW call \in Call, NEW type \in EventType, NEW at,
         call.status \in EventsAllowedIn[type], call.status \notin ActiveCallStatuses
  PROVE  StatusAfter(call, type, at) = call.status
<1>1. type = "CALL_ENDED" /\ call.status = "CALLBACK_REQUESTED"
  BY DEF EventsAllowedIn, EventType, ActiveCallStatuses
<1> QED
  BY <1>1 DEF StatusAfter

\* A call that was over before a step, and is so after it.
StaysEnded(c) ==
  /\ c \in DOMAIN calls'
  /\ calls'[c].status \notin ActiveCallStatuses
  /\ calls[c].status = "FAILED" => calls'[c].status = "FAILED"

\* A call the step does not touch, or an event that is not accepted, leaves it over.
LEMMA EndedStep ==
  ASSUME PhoneTypeOK, [Next]_allVars, NEW c \in DOMAIN calls,
         calls[c].status \notin ActiveCallStatuses
  PROVE  StaysEnded(c)
<1>1. CallsTypeOK /\ calls[c] \in Call
  BY DEF PhoneTypeOK, CallsTypeOK
<1>2. CASE c \in DOMAIN calls' /\ calls'[c] = calls[c]
  BY <1>2 DEF StaysEnded
<1>3. ASSUME NEW d \in DOMAIN calls, NEW key, NEW type \in EventType, NEW at,
             ApplyEvent(d, key, type, at)
      PROVE  StaysEnded(c)
  <2>1. /\ calls[d].status \in EventsAllowedIn[type]
        /\ DOMAIN calls' = DOMAIN calls
        /\ d # c => calls'[c] = calls[c]
        /\ calls'[d].status = StatusAfter(calls[d], type, at)
    BY <1>1, <1>3, EventApplied DEF OthersStay, OtherSessionsStay
  <2>2. CASE d = c
    BY <1>1, <2>1, <2>2, EventAfterEnd DEF StaysEnded
  <2> QED
    BY <1>2, <2>1, <2>2
<1>4. CASE Advance \/ Administration \/ Staff \/ UNCHANGED allVars
  BY <1>2, <1>4
  DEF Advance, Administration, ReplacePolicy, SetNumberStatus, Staff, callsVars, allVars
<1>5. CASE Reception
  BY <1>2, <1>5, CallReceived DEF Reception
<1>6. CASE StaffOnCalls
  <2>1. ASSUME NEW d \in Calls, NEW type \in EventType, NEW at, StaffEvent(d, type, at)
        PROVE  StaysEnded(c)
    <3>1. /\ d \in DOMAIN calls
          /\ calls[d].status \in EventsAllowedIn[type]
          /\ DOMAIN calls' = DOMAIN calls
          /\ d # c => calls'[c] = calls[c]
          /\ calls'[d].status = StatusAfter(calls[d], type, at)
      BY <1>1, <2>1, StaffApplied DEF OthersStay
    <3>2. CASE d = c
      BY <1>1, <3>1, <3>2, EventAfterEnd DEF StaysEnded
    <3> QED
      BY <1>2, <3>1, <3>2
  <2>2. ASSUME NEW d \in Calls, NEW l \in LeadIds, LinkLead(d, l)
        PROVE  StaysEnded(c)
    BY <2>2, LeadLinked DEF StaysEnded, ActiveCallStatuses, OthersStay, OtherSessionsStay
  <2> QED
    BY <1>6, <2>1, <2>2 DEF StaffOnCalls
<1>7. CASE Tools
  <2>1. PICK d \in PhoneCalls :
          \/ RegistrationFails(d) \/ AcceptConsent(d) \/ Answer(d) \/ ConfirmIntake(d)
          \/ \E kind \in HandoffKind : AskForPerson(d, kind)
          \/ RequestCallback(d) \/ RequestTransfer(d)
    BY <1>7 DEF Tools
  <2>2. CASE UNCHANGED callsVars
    BY <1>2, <2>2 DEF callsVars
  <2>3. d \in DOMAIN calls
    BY DEF PhoneCalls
  <2> QED
    BY <1>3, <2>1, <2>2, <2>3
    DEF RegistrationFails, AcceptConsent, Answer, ConfirmIntake, AskForPerson, RequestCallback,
        RequestTransfer, EventType
<1>8. CASE Transfers
  <2>1. PICK d \in PhoneCalls :
          \/ CommandTransfer(d) \/ LoseTransferCommand(d) \/ RefuseTransferCommand(d)
          \/ \E result \in {"answered", "missed"} : DialEnds(d, result)
          \/ TransferResult(d) \/ Reconcile(d)
    BY <1>8 DEF Transfers
  <2>2. CASE UNCHANGED callsVars
    BY <1>2, <2>2 DEF callsVars
  <2>3. d \in DOMAIN calls /\ ResultType(d) \in EventType /\ "TRANSFER_FAILED" \in EventType
    BY DEF PhoneCalls, ResultType, EventType
  <2> QED
    BY <1>3, <2>1, <2>2, <2>3
    DEF CommandTransfer, LoseTransferCommand, RefuseTransferCommand, DialEnds, TransferResult,
        Reconcile
<1>9. CASE PostCall
  <2>1. PICK d \in PhoneCalls :
          \/ \E at \in 0..now : EndUnconfirmed(d, at) \/ Materialize(d, at)
          \/ InitiationFailure(d)
          \/ ExpireStaleSession(d)
    BY <1>9 DEF PostCall
  <2>2. d \in DOMAIN calls
    BY DEF PhoneCalls
  <2>3. CASE ExpireStaleSession(d)
    BY <1>2, <2>3 DEF ExpireStaleSession, callsVars
  <2>4. CASE d # c
    <3>1. ASSUME NEW at, EndUnconfirmed(d, at) PROVE StaysEnded(c)
      BY <1>2, <2>4, <3>1, EndedUnconfirmed DEF StaysEnded, OthersStay, OtherSessionsStay
    <3>2. ASSUME NEW at, Materialize(d, at) PROVE StaysEnded(c)
      <4>1. OthersStay(d)
        BY <3>2, Materialized
      <4> QED
        BY <1>2, <2>4, <4>1 DEF OthersStay
    <3>3. CASE InitiationFailure(d)
      BY <1>2, <2>4, <3>3, InitiationFailed DEF OthersStay, OtherSessionsStay
    <3> QED
      BY <2>1, <2>3, <3>1, <3>2, <3>3
  <2>5. CASE d = c /\ \E at \in 0..now : EndUnconfirmed(d, at)
    BY <2>5, EndedUnconfirmed DEF StaysEnded, ActiveCallStatuses, Settled, OthersStay
  <2>6. CASE d = c /\ \E at \in 0..now : Materialize(d, at)
    BY <2>6, Materialized DEF StaysEnded, ActiveCallStatuses, Settled, OthersStay
  <2>7. CASE d = c /\ InitiationFailure(d)
    BY <2>7, InitiationFailed DEF StaysEnded, ActiveCallStatuses, Settled, OthersStay
  <2> QED
    BY <2>1, <2>3, <2>4, <2>5, <2>6, <2>7
<1> QED
  BY <1>4, <1>5, <1>6, <1>7, <1>8, <1>9 DEF Next

\* A call that is over stays over, and one that failed stays failed.
THEOREM CallsStayEnded == Spec => EndedStaysEnded
<1>1. PhoneTypeOK /\ [Next]_allVars =>
        [\A c \in DOMAIN calls \ ActiveCalls :
           /\ c \notin ActiveCalls'
           /\ calls[c].status = "FAILED" => calls'[c].status = "FAILED"]_allVars
  <2> SUFFICES ASSUME PhoneTypeOK, [Next]_allVars, NEW c \in DOMAIN calls \ ActiveCalls
               PROVE  /\ c \notin ActiveCalls'
                      /\ calls[c].status = "FAILED" => calls'[c].status = "FAILED"
    OBVIOUS
  <2>1. calls[c].status \notin ActiveCallStatuses
    BY DEF ActiveCalls
  <2>2. StaysEnded(c)
    BY <2>1, EndedStep
  <2> QED
    BY <2>2 DEF StaysEnded, ActiveCalls
<1>2. Spec => []PhoneTypeOK
  BY PhoneIsTyped, PTL DEF TypeOK
<1> QED
  BY <1>1, <1>2, PTL DEF Spec, EndedStaysEnded

\* A tick is not before the start of its day.
LEMMA DayStarts ==
  ASSUME NEW t \in Nat
  PROVE  DayOf(t) \in Nat /\ t >= DayOf(t) * DayLength
BY ClockAssumption DEF DayOf

\* The calls accepted so far are finitely many.
FinitelyMany == IsFiniteSet(DOMAIN calls)

\* Calls are added one at a time.
LEMMA CallsAdded ==
  ASSUME PhoneTypeOK, [Next]_allVars
  PROVE  \/ DOMAIN calls' = DOMAIN calls
         \/ \E c \in Calls, adapter \in AdapterName, at \in Times : Receive(c, adapter, at)
<1>1. CallsTypeOK
  BY DEF PhoneTypeOK
<1>2. ASSUME NEW d \in DOMAIN calls, NEW key, NEW type \in EventType, NEW at,
             ApplyEvent(d, key, type, at)
      PROVE  DOMAIN calls' = DOMAIN calls
  BY <1>1, <1>2, EventApplied DEF OthersStay
<1>3. CASE Advance \/ Administration \/ Staff \/ UNCHANGED allVars
  BY <1>3 DEF Advance, Administration, ReplacePolicy, SetNumberStatus, Staff, callsVars, allVars
<1>4. CASE StaffOnCalls
  BY <1>4, <1>1, StaffApplied DEF StaffOnCalls, LinkLead, OthersStay
<1>5. CASE Tools
  <2>1. PICK d \in PhoneCalls :
          \/ RegistrationFails(d) \/ AcceptConsent(d) \/ Answer(d) \/ ConfirmIntake(d)
          \/ \E kind \in HandoffKind : AskForPerson(d, kind)
          \/ RequestCallback(d) \/ RequestTransfer(d)
    BY <1>5 DEF Tools
  <2>2. d \in DOMAIN calls
    BY DEF PhoneCalls
  <2> QED
    BY <1>2, <2>1, <2>2
    DEF RegistrationFails, AcceptConsent, Answer, ConfirmIntake, AskForPerson, RequestCallback,
        RequestTransfer, EventType, callsVars
<1>6. CASE Transfers
  <2>1. PICK d \in PhoneCalls :
          \/ CommandTransfer(d) \/ LoseTransferCommand(d) \/ RefuseTransferCommand(d)
          \/ \E result \in {"answered", "missed"} : DialEnds(d, result)
          \/ TransferResult(d) \/ Reconcile(d)
    BY <1>6 DEF Transfers
  <2>2. d \in DOMAIN calls /\ ResultType(d) \in EventType /\ "TRANSFER_FAILED" \in EventType
    BY DEF PhoneCalls, ResultType, EventType
  <2> QED
    BY <1>2, <2>1, <2>2
    DEF CommandTransfer, LoseTransferCommand, RefuseTransferCommand, DialEnds, TransferResult,
        Reconcile, callsVars
<1>7. CASE PostCall
  BY <1>7, EndedUnconfirmed, Materialized, InitiationFailed
  DEF PostCall, ExpireStaleSession, callsVars, OthersStay
<1> QED
  BY <1>3, <1>4, <1>5, <1>6, <1>7 DEF Next, Reception

\* So they stay finitely many.
LEMMA FinitelyManyCalls == Spec => []FinitelyMany
<1>1. Init => FinitelyMany
  BY FS_EmptySet DEF Init, PhoneInit, CallsInit, Nothing, FinitelyMany
<1>2. PhoneTypeOK /\ FinitelyMany /\ [Next]_allVars => FinitelyMany'
  <2> SUFFICES ASSUME PhoneTypeOK, FinitelyMany, [Next]_allVars PROVE FinitelyMany'
    OBVIOUS
  <2>1. ASSUME NEW c \in Calls, NEW adapter \in AdapterName, NEW at \in Times,
               Receive(c, adapter, at)
        PROVE  FinitelyMany'
    <3>1. DOMAIN calls' = DOMAIN calls \cup {c}
      BY <2>1, CallReceived
    <3> QED
      BY <3>1, FS_AddElement DEF FinitelyMany
  <2> QED
    BY <2>1, CallsAdded DEF FinitelyMany
<1>3. Spec => []PhoneTypeOK
  BY PhoneIsTyped, PTL DEF TypeOK
<1> QED
  BY <1>1, <1>2, <1>3, PTL DEF Spec

\* A call that starts to occupy a place has been accepted just now, within the limits.
LEMMA PlaceTaken ==
  ASSUME PhoneTypeOK, FinitelyMany, [Next]_allVars,
         NEW c \in Calls, c \in ActiveCalls', c \notin ActiveCalls
  PROVE  /\ Cardinality(ActiveCalls') <= policy.concurrent
         /\ Cardinality({d \in DOMAIN calls' : DayOf(calls'[d].received)
                                                 = DayOf(calls'[c].received)})
              <= policy.daily
<1>1. c \notin DOMAIN calls
  <2>1. c \in DOMAIN calls => calls[c].status \notin ActiveCallStatuses
    BY DEF ActiveCalls
  <2>2. calls'[c].status \in ActiveCallStatuses
    BY DEF ActiveCalls
  <2> QED
    BY <2>1, <2>2, EndedStep DEF StaysEnded
<1>2. c \in DOMAIN calls'
  BY DEF ActiveCalls
<1>3. PICK d \in Calls, adapter \in AdapterName, at \in Times : Receive(d, adapter, at)
  BY <1>1, <1>2, CallsAdded
<1>4. /\ DOMAIN calls' = DOMAIN calls \cup {c}
      /\ calls'[c] = NewCall(adapter, at)
      /\ \A e \in DOMAIN calls : calls'[e] = calls[e]
  BY <1>1, <1>2, <1>3, CallReceived
<1>5. WithinLimits(at)
  BY <1>3 DEF Receive
<1>6. policy.concurrent \in Nat /\ policy.daily \in Nat /\ at \in Nat
  BY PoliciesAssumption, ClockAssumption DEF PhoneTypeOK, CallsTypeOK, PolicyType, Times
<1>7. Cardinality(ActiveCalls') <= policy.concurrent
  <2>1. ActiveCalls' \subseteq ActiveCalls \cup {c}
    BY <1>4 DEF ActiveCalls
  <2>2. ActiveCalls \subseteq DOMAIN calls
    BY DEF ActiveCalls
  <2>3. IsFiniteSet(ActiveCalls) /\ IsFiniteSet(ActiveCalls \cup {c})
    BY <2>2, FS_Subset, FS_AddElement DEF FinitelyMany
  <2>4. Cardinality(ActiveCalls') <= Cardinality(ActiveCalls \cup {c})
    BY <2>1, <2>3, FS_Subset
  <2>5. Cardinality(ActiveCalls \cup {c}) = Cardinality(ActiveCalls) + 1
    BY <2>3, FS_AddElement
  <2>6. Cardinality(ActiveCalls) \in Nat /\ Cardinality(ActiveCalls') \in Nat
    BY <2>1, <2>3, FS_Subset, FS_CardinalityType
  <2> QED
    BY <1>5, <1>6, <2>4, <2>5, <2>6 DEF WithinLimits
<1>8. Cardinality({e \in DOMAIN calls' : DayOf(calls'[e].received) = DayOf(calls'[c].received)})
        <= policy.daily
  <2> DEFINE old == ReceivedSince(DayOf(at) * DayLength)
             new == {e \in DOMAIN calls' : DayOf(calls'[e].received)
                                             = DayOf(calls'[c].received)}
  <2>1. calls'[c].received = at
    BY <1>4 DEF NewCall
  <2>2. \A e \in DOMAIN calls : calls[e].received \in Nat
    BY DEF PhoneTypeOK, CallsTypeOK, Call
  <2>3. \A e \in DOMAIN calls : DayOf(calls[e].received) = DayOf(at) => e \in old
    BY <2>2, DayStarts DEF ReceivedSince
  <2>4. new \subseteq old \cup {c}
    BY <1>4, <2>1, <2>3
  <2>5. old \subseteq DOMAIN calls
    BY DEF ReceivedSince
  <2> HIDE DEF old, new
  <2>6. IsFiniteSet(old) /\ IsFiniteSet(old \cup {c})
    BY <2>5, FS_Subset, FS_AddElement DEF FinitelyMany
  <2>7. Cardinality(new) <= Cardinality(old \cup {c})
    BY <2>4, <2>6, FS_Subset
  <2>8. Cardinality(old \cup {c}) = Cardinality(old) + 1
    BY <1>1, <2>5, <2>6, FS_AddElement
  <2>9. Cardinality(old) \in Nat /\ Cardinality(new) \in Nat
    BY <2>4, <2>6, FS_Subset, FS_CardinalityType
  <2>10. Cardinality(old) < policy.daily
    BY <1>5 DEF WithinLimits, old
  <2>11. Cardinality(new) <= policy.daily
    BY <1>6, <2>7, <2>8, <2>9, <2>10
  <2> QED
    BY <2>11 DEF new
<1> QED
  BY <1>7, <1>8

\* Whenever a call starts to occupy a place the agency's limits allow it.
THEOREM LimitsAlwaysKept == Spec => LimitsAreKept
<1>1. PhoneTypeOK /\ FinitelyMany /\ [Next]_allVars =>
        [\A c \in Calls :
           (c \in ActiveCalls' /\ c \notin ActiveCalls) =>
              /\ Cardinality(ActiveCalls') <= policy.concurrent
              /\ Cardinality({d \in DOMAIN calls' : DayOf(calls'[d].received)
                                                      = DayOf(calls'[c].received)})
                   <= policy.daily]_allVars
  BY PlaceTaken
<1>2. Spec => []PhoneTypeOK
  BY PhoneIsTyped, PTL DEF TypeOK
<1> QED
  BY <1>1, <1>2, FinitelyManyCalls, PTL DEF Spec, LimitsAreKept

----------------------------------------------------------------------------
(* What the limits come to, however often the policy is replaced. *)

OnDay(d) == {c \in DOMAIN calls : DayOf(calls[c].received) = d}

PlacesFit(most, perDay) ==
  /\ Cardinality(ActiveCalls) <= most
  /\ \A d \in Nat : Cardinality(OnDay(d)) <= perDay

\* A call that moves on, or is linked to a lead, came when it came.
LEMMA TimesKept ==
  ASSUME CallsTypeOK, NEW d, NEW status, NEW l,
         calls' \in {[calls EXCEPT ![d].status = status], [calls EXCEPT ![d].lead = l],
                     [calls EXCEPT ![d].lead = l, ![d].status = status]}
  PROVE  /\ DOMAIN calls' = DOMAIN calls
         /\ \A c \in DOMAIN calls : calls'[c].received = calls[c].received
<1>1. \A c \in DOMAIN calls : calls[c] \in Call
  BY DEF CallsTypeOK
<1>2. CASE calls' = [calls EXCEPT ![d].status = status]
  BY <1>1, <1>2 DEF Call
<1>3. CASE calls' = [calls EXCEPT ![d].lead = l]
  BY <1>1, <1>3 DEF Call
<1>4. CASE calls' = [calls EXCEPT ![d].lead = l, ![d].status = status]
  BY <1>1, <1>4 DEF Call
<1> QED
  BY <1>2, <1>3, <1>4

\* Nor does any other step change that.
LEMMA TimesStay ==
  ASSUME PhoneTypeOK, [Next]_allVars, NEW c \in DOMAIN calls
  PROVE  c \in DOMAIN calls' /\ calls'[c].received = calls[c].received
<1>1. CallsTypeOK
  BY DEF PhoneTypeOK
<1>2. CASE UNCHANGED calls
  BY <1>2
<1>3. CASE Advance \/ Administration \/ Staff \/ UNCHANGED allVars
  BY <1>2, <1>3 DEF Advance, Administration, ReplacePolicy, SetNumberStatus, Staff, callsVars,
                    allVars
<1>4. CASE Reception
  BY <1>4, CallReceived DEF Reception
<1>5. CASE StaffOnCalls
  <2>1. \E d, status, l :
          calls' \in {[calls EXCEPT ![d].status = status], [calls EXCEPT ![d].lead = l],
                      [calls EXCEPT ![d].lead = l, ![d].status = status]}
    <3>1. CASE \E d \in Calls, type \in EventType, at \in SimulatedTimes :
                 StaffEvent(d, type, at)
      BY <3>1 DEF StaffEvent, Transition
    <3>2. CASE \E d \in Calls, l \in LeadIds : LinkLead(d, l)
      BY <3>2 DEF LinkLead
    <3> QED
      BY <1>5, <3>1, <3>2 DEF StaffOnCalls
  <2> QED
    BY <1>1, <2>1, TimesKept
<1>6. ASSUME NEW d, NEW key, NEW type, NEW at, ApplyEvent(d, key, type, at)
      PROVE  c \in DOMAIN calls' /\ calls'[c].received = calls[c].received
  BY <1>1, <1>6, TimesKept DEF ApplyEvent, Transition
<1>7. CASE Tools
  BY <1>2, <1>6, <1>7
  DEF Tools, RegistrationFails, AcceptConsent, Answer, ConfirmIntake, AskForPerson,
      RequestCallback, RequestTransfer, callsVars
<1>8. CASE Transfers
  BY <1>2, <1>6, <1>8
  DEF Transfers, CommandTransfer, LoseTransferCommand, RefuseTransferCommand, DialEnds,
      TransferResult, Reconcile, callsVars
<1>9. CASE PostCall
  <2>1. ASSUME NEW d, NEW at, EndUnconfirmed(d, at)
        PROVE  c \in DOMAIN calls' /\ calls'[c].received = calls[c].received
    <3>1. PICK status : calls' = [calls EXCEPT ![d].status = status]
      BY <2>1 DEF EndUnconfirmed
    <3> QED
      BY <1>1, <3>1, TimesKept
  <2>2. ASSUME NEW d, NEW at, Materialize(d, at)
        PROVE  c \in DOMAIN calls' /\ calls'[c].received = calls[c].received
    <3>1. PICK l, status : calls' = [calls EXCEPT ![d].lead = l, ![d].status = status]
      BY <2>2 DEF Materialize
    <3> QED
      BY <1>1, <3>1, TimesKept
  <2>3. ASSUME NEW d, InitiationFailure(d)
        PROVE  c \in DOMAIN calls' /\ calls'[c].received = calls[c].received
    <3>1. PICK status : calls' = [calls EXCEPT ![d].status = status]
      BY <2>3 DEF InitiationFailure
    <3> QED
      BY <1>1, <3>1, TimesKept
  <2>4. ASSUME NEW d, ExpireStaleSession(d) PROVE UNCHANGED calls
    BY <2>4 DEF ExpireStaleSession, callsVars
  <2> QED
    BY <1>2, <1>9, <2>1, <2>2, <2>3, <2>4 DEF PostCall
<1> QED
  BY <1>3, <1>4, <1>5, <1>7, <1>8, <1>9 DEF Next

\* A new call fits the policy of the moment, and without one nothing is added.
LEMMA PlacesFitStep ==
  ASSUME NEW most \in Nat, NEW perDay \in Nat,
         \A p \in Policies : p.concurrent <= most /\ p.daily <= perDay,
         PhoneTypeOK, PhoneTypeOK', FinitelyMany, PlacesFit(most, perDay), [Next]_allVars
  PROVE  PlacesFit(most, perDay)'
<1>1. /\ policy.concurrent \in Nat /\ policy.daily \in Nat
      /\ policy.concurrent <= most /\ policy.daily <= perDay
  BY PoliciesAssumption DEF PhoneTypeOK, CallsTypeOK, PolicyType
<1>2. IsFiniteSet(ActiveCalls) /\ \A d \in Nat : IsFiniteSet(OnDay(d))
  BY FS_Subset DEF FinitelyMany, ActiveCalls, OnDay
<1>3. Cardinality(ActiveCalls) \in Nat /\ \A d \in Nat : Cardinality(OnDay(d)) \in Nat
  BY <1>2, FS_CardinalityType
<1>4. ASSUME NEW c \in Calls, c \in ActiveCalls', c \notin ActiveCalls,
             DOMAIN calls' = DOMAIN calls \cup {c}
      PROVE  PlacesFit(most, perDay)'
  <2>1. /\ Cardinality(ActiveCalls') <= policy.concurrent
        /\ \A d : d = DayOf(calls'[c].received) => Cardinality(OnDay(d)') <= policy.daily
    <3>1. /\ Cardinality(ActiveCalls') <= policy.concurrent
          /\ Cardinality({e \in DOMAIN calls' : DayOf(calls'[e].received)
                                                  = DayOf(calls'[c].received)})
               <= policy.daily
      BY <1>4, PlaceTaken
    <3> QED
      BY <3>1 DEF OnDay
  <2>2. IsFiniteSet(DOMAIN calls')
    BY <1>4, FS_AddElement DEF FinitelyMany
  <2>3. IsFiniteSet(ActiveCalls') /\ \A d \in Nat : IsFiniteSet(OnDay(d)')
    BY <2>2, FS_Subset DEF ActiveCalls, OnDay
  <2>4. Cardinality(ActiveCalls') \in Nat /\ \A d \in Nat : Cardinality(OnDay(d)') \in Nat
    BY <2>3, FS_CardinalityType
  <2>5. Cardinality(ActiveCalls') <= most
    BY <1>1, <2>1, <2>4
  <2>6. ASSUME NEW d \in Nat PROVE Cardinality(OnDay(d)') <= perDay
    <3>1. CASE d = DayOf(calls'[c].received)
      BY <1>1, <2>1, <2>4, <3>1
    <3>2. CASE d # DayOf(calls'[c].received)
      <4>1. OnDay(d)' \subseteq OnDay(d)
        BY <1>4, <3>2, TimesStay DEF OnDay
      <4>2. Cardinality(OnDay(d)') <= Cardinality(OnDay(d))
        BY <1>2, <4>1, FS_Subset
      <4> QED
        BY <1>3, <2>4, <4>2 DEF PlacesFit
    <3> QED
      BY <3>1, <3>2
  <2> QED
    BY <2>5, <2>6 DEF PlacesFit
<1>5. CASE DOMAIN calls' = DOMAIN calls
  <2>1. ActiveCalls' \subseteq ActiveCalls
    BY <1>5, EndedStep DEF ActiveCalls, StaysEnded
  <2>2. Cardinality(ActiveCalls') <= Cardinality(ActiveCalls) /\ Cardinality(ActiveCalls') \in Nat
    BY <1>2, <2>1, FS_Subset, FS_CardinalityType
  <2>3. ASSUME NEW d \in Nat PROVE Cardinality(OnDay(d)') <= perDay
    <3>1. OnDay(d)' = OnDay(d)
      BY <1>5, TimesStay DEF OnDay
    <3> QED
      BY <3>1 DEF PlacesFit
  <2> QED
    BY <1>3, <2>2, <2>3 DEF PlacesFit
<1>6. ASSUME NEW c \in Calls, NEW adapter \in AdapterName, NEW at \in Times,
             Receive(c, adapter, at)
      PROVE  PlacesFit(most, perDay)'
  <2>1. /\ c \notin DOMAIN calls
        /\ DOMAIN calls' = DOMAIN calls \cup {c}
        /\ calls'[c] = NewCall(adapter, at)
    BY <1>6, CallReceived
  <2>2. calls'[c].status = "RECEIVED"
    BY <2>1 DEF NewCall
  <2> QED
    BY <1>4, <2>1, <2>2 DEF ActiveCalls, ActiveCallStatuses
<1> QED
  BY <1>5, <1>6, CallsAdded

\* At no time are more calls under way, and on no day are more accepted, than the most generous
\* of the policies allows, whenever staff replace one by another and whatever reports come late.
THEOREM PlacesAreBounded ==
  ASSUME NEW most \in Nat, NEW perDay \in Nat,
         \A p \in Policies : p.concurrent <= most /\ p.daily <= perDay
  PROVE  Spec => []PlacesFit(most, perDay)
<1>1. Init => PlacesFit(most, perDay)
  <2> SUFFICES ASSUME Init PROVE PlacesFit(most, perDay)
    OBVIOUS
  <2>1. ActiveCalls = {} /\ \A d \in Nat : OnDay(d) = {}
    BY DEF Init, PhoneInit, CallsInit, Nothing, ActiveCalls, OnDay
  <2> QED
    BY <2>1, FS_EmptySet DEF PlacesFit
<1>2. PhoneTypeOK /\ PhoneTypeOK' /\ FinitelyMany /\ PlacesFit(most, perDay) /\ [Next]_allVars =>
        PlacesFit(most, perDay)'
  BY PlacesFitStep
<1> QED
  BY <1>1, <1>2, PhoneIsTyped, FinitelyManyCalls, PTL DEF Spec, TypeOK

----------------------------------------------------------------------------
(* The inductive invariant: what is true of each phone call. *)

\* The agent was told to collect a callback.
CallbackAsked(c) ==
  \E e \in EventsOf(c) :
    \/ e.type \in {"TRANSFER_FAILED", "CALLBACK_REQUESTED"}
    \/ e.type = "TRANSFER_REQUESTED" /\ e.action = "COLLECT_CALLBACK"

\* The status of a call is backed by its events.  A transfer that was attempted and of which no
\* failure is stored is pending, was answered, or failed with its call: so a callback that is
\* collected after it is what the events ask for.
StatusSound(c) ==
  /\ calls[c].status = "TRANSFER_PENDING" => TransferAttempted(c)
  /\ calls[c].status \in {"CALLBACK_PENDING", "CALLBACK_REQUESTED"} => CallbackAsked(c)
  /\ TransferAttempted(c) => HasEvent(c, "TRANSFER_FAILED") \/ calls[c].status \in Settled
  /\ HasEvent(c, "TRANSFER_SUCCEEDED") => calls[c].status \in {"TRANSFERRED", "FAILED"}
  /\ Stored(c, "post-call") => calls[c].status # "RECEIVED"
  /\ Stored(c, "post-call") /\ calls[c].status \in ActiveCallStatuses => TransferAttempted(c)

\* A call is dialled for once, and its stored result is the one Twilio reported.
TransferSound(c) ==
  /\ c \in DOMAIN dials => Stored(c, "phone-handoff-transfer")
  /\ c \in reconciling => Stored(c, "transfer-result")
  /\ \A e \in EventsOf(c) :
       /\ e.key = "transfer-result" => HasResult(c) /\ e.type = ResultType(c)
       /\ e.key = "transfer-command-failed" => c \in DOMAIN dials /\ dials[c] = "over"

\* A confirmed readback becomes a lead with the post-call report; after it no intake can be
\* confirmed any more, because the session is over.
LeadSound(c) ==
  /\ c \in DOMAIN leads <=> (c \in receipts /\ Stored(c, "post-call"))
  /\ c \in DOMAIN leads <=> (c \in DOMAIN sessions /\ sessions[c].status = "CONFIRMED")
  /\ c \in DOMAIN leads => calls[c].lead = c
  /\ c \in DOMAIN sessions /\ Stored(c, "post-call") =>
       sessions[c].status \notin {"AUTHORIZED", "REVIEW_PENDING"}

\* The handoff has the result, unless it is being written.
ResultSound(c) ==
  c \in DOMAIN handoffs /\ c \notin reconciling =>
    /\ Reported(c, "TRANSFER_FAILED") => handoffs[c].kind = "CALLBACK"
    /\ Reported(c, "TRANSFER_SUCCEEDED") => handoffs[c].status = "COMPLETED"

PhoneCallSound(c) ==
  StatusSound(c) /\ TransferSound(c) /\ LeadSound(c) /\ ResultSound(c)

\* A call whose caller was told so has a callback.
Booked(c) ==
  calls[c].status = "CALLBACK_REQUESTED" =>
    /\ calls[c].lead \in DOMAIN leads
    /\ c \in DOMAIN handoffs
    /\ handoffs[c].lead = calls[c].lead
    /\ handoffs[c].kind = "CALLBACK"

\* Nothing is kept of a call before it is received, or of a simulated one with the phone's.
RowsSound ==
  /\ \A e \in callEvents : e.call \in PhoneCalls
  /\ Calls \cap DOMAIN leads \subseteq DOMAIN calls
  /\ DOMAIN handoffs \subseteq DOMAIN calls

PhoneInv ==
  /\ RowsSound
  /\ \A c \in PhoneCalls : PhoneCallSound(c)
  /\ \A c \in DOMAIN calls : Booked(c)

----------------------------------------------------------------------------
(* A step touches one call at most. *)

\* Nothing that the invariant says of c has changed.
SameView(c) ==
  /\ c \in DOMAIN calls'
  /\ calls'[c] = calls[c]
  /\ EventsOf(c)' = EventsOf(c)
  /\ c \in DOMAIN sessions' <=> c \in DOMAIN sessions
  /\ c \in DOMAIN sessions => sessions'[c] = sessions[c]
  /\ c \in receipts' <=> c \in receipts
  /\ c \in DOMAIN dials' <=> c \in DOMAIN dials
  /\ c \in DOMAIN dials => dials'[c] = dials[c]
  /\ c \in reconciling' <=> c \in reconciling
  /\ c \in DOMAIN leads' <=> c \in DOMAIN leads
  /\ c \in DOMAIN handoffs' <=> c \in DOMAIN handoffs
  /\ c \in DOMAIN handoffs => handoffs'[c] = handoffs[c]

\* What is read of the events of c is the same.
EventsStay(c) ==
  /\ \A key : Stored(c, key)' <=> Stored(c, key)
  /\ \A type : HasEvent(c, type)' <=> HasEvent(c, type)
  /\ \A type : Reported(c, type)' <=> Reported(c, type)
  /\ TransferAttempted(c)' <=> TransferAttempted(c)
  /\ CallbackAsked(c)' <=> CallbackAsked(c)

\* So it is when the events are.
LEMMA EventsKept ==
  ASSUME NEW c, EventsOf(c)' = EventsOf(c)
  PROVE  EventsStay(c)
BY DEF EventsStay, Stored, HasEvent, Reported, TransferAttempted, CallbackAsked

\* Of a call whose view is the same the invariant stays true.
LEMMA SameViewSound ==
  ASSUME NEW c \in DOMAIN calls, SameView(c)
  PROVE  /\ PhoneCallSound(c) => PhoneCallSound(c)'
         /\ Booked(c) /\ DOMAIN leads \subseteq DOMAIN leads' => Booked(c)'
<1>1. EventsStay(c)
  BY EventsKept DEF SameView
<1>3. StatusSound(c) => StatusSound(c)'
  BY <1>1 DEF SameView, EventsStay, StatusSound
<1>4. TransferSound(c) => TransferSound(c)'
  BY <1>1 DEF SameView, EventsStay, TransferSound, HasResult, ResultType
<1>5. LeadSound(c) => LeadSound(c)'
  BY <1>1 DEF SameView, EventsStay, LeadSound
<1>6. ResultSound(c) => ResultSound(c)'
  BY <1>1 DEF SameView, EventsStay, ResultSound
<1>7. Booked(c) /\ DOMAIN leads \subseteq DOMAIN leads' => Booked(c)'
  BY DEF SameView, Booked
<1> QED
  BY <1>3, <1>4, <1>5, <1>6, <1>7 DEF PhoneCallSound

\* An event changes the events of its call only.
LEMMA OneMoreEvent ==
  ASSUME NEW c, NEW event, event.call = c, callEvents' = callEvents \cup {event}
  PROVE  /\ EventsOf(c)' = EventsOf(c) \cup {event}
         /\ \A d : d # c => EventsOf(d)' = EventsOf(d)
BY DEF EventsOf

\* A call has one event more.
Told(c, event) ==
  /\ EventsOf(c)' = EventsOf(c) \cup {event}
  /\ \A d : d # c => EventsOf(d)' = EventsOf(d)
  /\ \A key : Stored(c, key)' <=> Stored(c, key) \/ key = event.key
  /\ \A type : HasEvent(c, type)' <=> HasEvent(c, type) \/ type = event.type
  /\ \A type : Reported(c, type)' <=>
       Reported(c, type) \/ (event.key = "transfer-result" /\ event.type = type)
  /\ TransferAttempted(c)' <=>
       TransferAttempted(c) \/ (event.type = "TRANSFER_REQUESTED" /\ event.action = "TRANSFER")
  /\ CallbackAsked(c)' <=>
       \/ CallbackAsked(c)
       \/ event.type \in {"TRANSFER_FAILED", "CALLBACK_REQUESTED"}
       \/ event.type = "TRANSFER_REQUESTED" /\ event.action = "COLLECT_CALLBACK"

\* Storing it does that.
LEMMA EventTold ==
  ASSUME NEW c, NEW event, event.call = c, callEvents' = callEvents \cup {event}
  PROVE  Told(c, event)
<1>1. /\ EventsOf(c)' = EventsOf(c) \cup {event}
      /\ \A d : d # c => EventsOf(d)' = EventsOf(d)
  BY OneMoreEvent
<1>2. /\ \A key : Stored(c, key)' <=> Stored(c, key) \/ key = event.key
      /\ \A type : HasEvent(c, type)' <=> HasEvent(c, type) \/ type = event.type
  BY <1>1 DEF Stored, HasEvent
<1>3. /\ TransferAttempted(c)' <=>
           TransferAttempted(c) \/ (event.type = "TRANSFER_REQUESTED" /\ event.action = "TRANSFER")
      /\ \A type : Reported(c, type)' <=>
           Reported(c, type) \/ (event.key = "transfer-result" /\ event.type = type)
  BY <1>1 DEF TransferAttempted, Reported
<1>4. CallbackAsked(c)' <=>
        \/ CallbackAsked(c)
        \/ event.type \in {"TRANSFER_FAILED", "CALLBACK_REQUESTED"}
        \/ event.type = "TRANSFER_REQUESTED" /\ event.action = "COLLECT_CALLBACK"
  BY <1>1 DEF CallbackAsked
<1> QED
  BY <1>1, <1>2, <1>3, <1>4 DEF Told

\* The rest of the system, when one call alone is touched.
Elsewhere(c) ==
  /\ \A d \in DOMAIN calls : d # c => SameView(d)
  /\ \A d \in DOMAIN calls' : d \in DOMAIN calls \/ d = c
  /\ DOMAIN leads \subseteq DOMAIN leads'
  /\ RowsSound'

\* So the invariant is a matter of that call.
LEMMA OneCallTouched ==
  ASSUME PhoneInv, NEW c, Elsewhere(c), c \in PhoneCalls' => PhoneCallSound(c)',
         c \in DOMAIN calls' => Booked(c)'
  PROVE  PhoneInv'
<1>1. ASSUME NEW d \in DOMAIN calls', d # c
      PROVE  (d \in PhoneCalls' => PhoneCallSound(d)') /\ Booked(d)'
  <2>1. d \in DOMAIN calls /\ SameView(d)
    BY <1>1 DEF Elsewhere
  <2>2. d \in PhoneCalls' => d \in PhoneCalls
    BY <2>1 DEF PhoneCalls, SameView
  <2> QED
    BY <2>1, <2>2, SameViewSound DEF PhoneInv, Elsewhere
<1>2. PhoneCalls' \subseteq DOMAIN calls'
  BY DEF PhoneCalls
<1> QED
  BY <1>1, <1>2 DEF PhoneInv, Elsewhere

\* No transfer is reported for another call.
OtherTransfersStay(c) ==
  \A d \in DOMAIN calls : d # c =>
    /\ d \in DOMAIN dials' <=> d \in DOMAIN dials
    /\ d \in DOMAIN dials => dials'[d] = dials[d]
    /\ d \in reconciling' <=> d \in reconciling

\* Where the events lead, from where they are accepted.
LEMMA WhereEventsLead ==
  ASSUME NEW call \in Call, NEW type \in EventType, NEW at, call.status \in EventsAllowedIn[type]
  PROVE  LET status == StatusAfter(call, type, at)
         IN /\ status # "RECEIVED"
            /\ status = "TRANSFER_PENDING" => type = "TRANSFER_REQUESTED"
            /\ status = "CALLBACK_PENDING" =>
                 type \in {"TRANSFER_REQUESTED", "CALLBACK_REQUESTED", "TRANSFER_FAILED"}
            /\ status = "CALLBACK_REQUESTED" => call.status = "CALLBACK_REQUESTED"
            /\ status \in ActiveCallStatuses => call.status \in ActiveCallStatuses
            /\ call.status \in Settled => type = "TRANSFER_FAILED" \/ status \in Settled
            /\ type = "TRANSFER_SUCCEEDED" => status = "TRANSFERRED"
            /\ call.status \in {"TRANSFERRED", "FAILED"} => status \in {"TRANSFERRED", "FAILED"}
            /\ Directive(status) = "TRANSFER" => status = "TRANSFER_PENDING"
            /\ status = "TRANSFER_PENDING" => Directive(status) = "TRANSFER"
            /\ status = "CALLBACK_PENDING" => Directive(status) = "COLLECT_CALLBACK"
<1> DEFINE status == StatusAfter(call, type, at)
<1>1. CASE type = "ANSWERED"
  BY <1>1 DEF StatusAfter, EventsAllowedIn, ActiveCallStatuses, Settled, Directive
<1>2. CASE type = "TRANSFER_REQUESTED"
  BY <1>2 DEF StatusAfter, Fallback, EventsAllowedIn, ActiveCallStatuses, Settled, Directive
<1>3. CASE type = "CALLBACK_REQUESTED"
  BY <1>3 DEF StatusAfter, Fallback, EventsAllowedIn, ActiveCallStatuses, Settled, Directive
<1>4. CASE type = "TRANSFER_FAILED"
  BY <1>4 DEF StatusAfter, Fallback, EventsAllowedIn, ActiveCallStatuses, Settled, Directive
<1>5. CASE type = "TRANSFER_SUCCEEDED"
  BY <1>5 DEF StatusAfter, EventsAllowedIn, ActiveCallStatuses, Settled, Directive
<1>6. CASE type = "CALL_ENDED"
  BY <1>6 DEF StatusAfter, EventsAllowedIn, ActiveCallStatuses, Settled, Directive
<1>7. CASE type = "PROVIDER_FAILED"
  BY <1>7 DEF StatusAfter, EventsAllowedIn, ActiveCallStatuses, Settled, Directive
<1> QED
  BY <1>1, <1>2, <1>3, <1>4, <1>5, <1>6, <1>7 DEF EventType

\* A call moves on; sessions, receipts, leads and handoffs stay as they are.
Moves(c, type, at) ==
  /\ calls[c].status \in EventsAllowedIn[type]
  /\ OthersStay(c)
  /\ calls'[c].lead = calls[c].lead
  /\ calls'[c].status = StatusAfter(calls[c], type, at)
  /\ UNCHANGED <<sessions, receipts, leadsVars>>

\* A call that moves on without an event of the phone's keeps what it was told of a callback.
LEMMA BookedMove ==
  ASSUME PhoneTypeOK, PhoneInv, NEW c \in DOMAIN calls, NEW type \in EventType, NEW at,
         Moves(c, type, at)
  PROVE  Booked(c)'
<1>1. calls[c] \in Call /\ Booked(c)
  BY DEF PhoneTypeOK, CallsTypeOK, PhoneInv
<1>2. StatusAfter(calls[c], type, at) = "CALLBACK_REQUESTED" =>
        calls[c].status = "CALLBACK_REQUESTED"
  BY <1>1, WhereEventsLead DEF Moves
<1> QED
  BY <1>1, <1>2 DEF Booked, Moves, leadsVars

\* An event that is stored keeps the invariant, if it keeps what is known of the transfer.
LEMMA EventStep ==
  ASSUME PhoneTypeOK, PhoneInv, NEW c \in PhoneCalls, NEW key, NEW type \in EventType, NEW at,
         Moves(c, type, at), callEvents' = callEvents \cup {StoredEvent(c, key, type, at)},
         key # "post-call",
         OtherTransfersStay(c), TransferSound(c)', ResultSound(c)'
  PROVE  PhoneInv'
<1> DEFINE status == StatusAfter(calls[c], type, at)
           event == StoredEvent(c, key, type, at)
<1>1. /\ c \in DOMAIN calls /\ PhoneCallSound(c) /\ calls[c] \in Call
      /\ calls[c].adapter # "development"
  BY DEF PhoneTypeOK, CallsTypeOK, PhoneCalls, PhoneInv
<1>2. /\ event.call = c /\ event.key = key /\ event.type = type
      /\ event.action = Directive(status)
  BY DEF StoredEvent
<1>3. /\ status # "RECEIVED"
      /\ status = "TRANSFER_PENDING" => type = "TRANSFER_REQUESTED"
      /\ status = "CALLBACK_PENDING" =>
           type \in {"TRANSFER_REQUESTED", "CALLBACK_REQUESTED", "TRANSFER_FAILED"}
      /\ status = "CALLBACK_REQUESTED" => calls[c].status = "CALLBACK_REQUESTED"
      /\ status \in ActiveCallStatuses => calls[c].status \in ActiveCallStatuses
      /\ calls[c].status \in Settled => type = "TRANSFER_FAILED" \/ status \in Settled
      /\ type = "TRANSFER_SUCCEEDED" => status = "TRANSFERRED"
      /\ calls[c].status \in {"TRANSFERRED", "FAILED"} => status \in {"TRANSFERRED", "FAILED"}
      /\ Directive(status) = "TRANSFER" => status = "TRANSFER_PENDING"
      /\ status = "TRANSFER_PENDING" => Directive(status) = "TRANSFER"
      /\ status = "CALLBACK_PENDING" => Directive(status) = "COLLECT_CALLBACK"
  BY <1>1, WhereEventsLead DEF Moves
<1>4. /\ calls'[c].status = status /\ callEvents' = callEvents \cup {event}
      /\ OthersStay(c) /\ calls'[c].lead = calls[c].lead
      /\ UNCHANGED <<sessions, receipts, leadsVars>>
  BY DEF Moves
<1> HIDE DEF status, event
<1>5. Told(c, event)
  BY <1>2, <1>4, EventTold
<1>7. StatusSound(c)'
  <2>1. "TRANSFER_PENDING" \in Settled
    BY DEF Settled
  <2> QED
    BY <1>1, <1>2, <1>3, <1>4, <1>5, <2>1 DEF PhoneCallSound, StatusSound, Told
<1>8. LeadSound(c)'
  BY <1>1, <1>2, <1>4, <1>5 DEF PhoneCallSound, LeadSound, Told, leadsVars
<1>9. Booked(c)'
  BY <1>1, BookedMove
<1>10. Elsewhere(c)
  <2>1. \A d \in DOMAIN calls : d # c => SameView(d)
    BY <1>4, <1>5 DEF SameView, Told, OthersStay, OtherTransfersStay, leadsVars
  <2>2. PhoneCalls' = PhoneCalls
    BY <1>4 DEF OthersStay, PhoneCalls
  <2>3. RowsSound'
    BY <1>2, <1>4, <2>2 DEF RowsSound, PhoneInv, OthersStay, leadsVars
  <2> QED
    BY <1>4, <2>1, <2>3 DEF Elsewhere, OthersStay, leadsVars
<1> QED
  BY <1>7, <1>8, <1>9, <1>10, OneCallTouched DEF PhoneCallSound

\* An accepted event moves its call.
LEMMA EventMoves ==
  ASSUME PhoneTypeOK, NEW c \in PhoneCalls, NEW key, NEW type \in EventType, NEW at,
         ApplyEvent(c, key, type, at), UNCHANGED <<sessions, receipts, leadsVars>>
  PROVE  /\ Moves(c, type, at)
         /\ ~Stored(c, key)
         /\ callEvents' = callEvents \cup {StoredEvent(c, key, type, at)}
         /\ Told(c, StoredEvent(c, key, type, at))
<1>1. CallsTypeOK /\ c \in DOMAIN calls
  BY DEF PhoneTypeOK, PhoneCalls
<1>2. /\ Moves(c, type, at)
      /\ ~Stored(c, key)
      /\ callEvents' = callEvents \cup {StoredEvent(c, key, type, at)}
  BY <1>1, EventApplied DEF Moves
<1>3. StoredEvent(c, key, type, at).call = c
  BY DEF StoredEvent
<1> QED
  BY <1>2, <1>3, EventTold

\* Reports of the voice provider that have nothing to do with a transfer.
LEMMA PlainEvents ==
  ASSUME PhoneTypeOK, PhoneInv, NEW c \in PhoneCalls,
         RegistrationFails(c) \/ Answer(c) \/ RequestCallback(c)
  PROVE  PhoneInv'
<1>1. PhoneCallSound(c)
  BY DEF PhoneInv
<1>2. PICK key \in {"registration-failed", "phone-consent", "phone-handoff-callback"},
           type \in {"PROVIDER_FAILED", "ANSWERED", "CALLBACK_REQUESTED"} :
        ApplyEvent(c, key, type, now) /\ UNCHANGED <<phoneVars, leadsVars>>
  BY DEF RegistrationFails, Answer, RequestCallback
<1>3. type \in EventType
  BY DEF EventType
<1> DEFINE event == StoredEvent(c, key, type, now)
<1>4. event.call = c /\ event.key = key /\ event.type = type
  BY DEF StoredEvent
<1>5. /\ Moves(c, type, now) /\ ~Stored(c, key)
      /\ callEvents' = callEvents \cup {event} /\ Told(c, event)
  BY <1>2, <1>3, EventMoves DEF phoneVars
<1> HIDE DEF event
<1>6. TransferSound(c)'
  BY <1>1, <1>2, <1>4, <1>5
  DEF PhoneCallSound, TransferSound, Told, HasResult, ResultType, phoneVars
<1>7. ResultSound(c)'
  BY <1>1, <1>2, <1>4, <1>5 DEF PhoneCallSound, ResultSound, Told, phoneVars, leadsVars
<1>8. OtherTransfersStay(c)
  BY <1>2 DEF OtherTransfersStay, phoneVars
<1> QED
  BY <1>2, <1>3, <1>5, <1>6, <1>7, <1>8, EventStep DEF event

\* A transfer is asked for, and directed unless a callback stands in for it.
LEMMA RequestTransferStep ==
  ASSUME PhoneTypeOK, PhoneInv, NEW c \in PhoneCalls, RequestTransfer(c)
  PROVE  PhoneInv'
<1> DEFINE key == "phone-handoff-transfer"
           event == StoredEvent(c, key, "TRANSFER_REQUESTED", now)
<1>1. PhoneCallSound(c) /\ "TRANSFER_REQUESTED" \in EventType
  BY DEF PhoneInv, EventType
<1>2. /\ ApplyEvent(c, key, "TRANSFER_REQUESTED", now)
      /\ dials' \in {dials, Put(dials, c, "directed")}
      /\ UNCHANGED <<sessions, receipts, reconciling, leadsVars>>
  BY DEF RequestTransfer
<1>3. event.call = c /\ event.key = key /\ event.type = "TRANSFER_REQUESTED"
  BY DEF StoredEvent
<1>4. /\ Moves(c, "TRANSFER_REQUESTED", now) /\ ~Stored(c, key)
      /\ callEvents' = callEvents \cup {event} /\ Told(c, event)
  BY <1>1, <1>2, EventMoves
<1> HIDE DEF event
<1>6. c \notin DOMAIN dials
  BY <1>1, <1>4 DEF PhoneCallSound, TransferSound
<1>7. TransferSound(c)'
  <2>1. \A e \in EventsOf(c)' : e.key \notin {"transfer-result", "transfer-command-failed"}
    BY <1>1, <1>3, <1>4, <1>6 DEF PhoneCallSound, TransferSound, Told, HasResult
  <2>2. Stored(c, key)'
    BY <1>3, <1>4 DEF Told
  <2>3. c \notin reconciling'
    BY <1>1, <1>2, <1>6 DEF PhoneCallSound, TransferSound, Stored, HasResult
  <2> QED
    BY <2>1, <2>2, <2>3 DEF TransferSound
<1>8. ResultSound(c)'
  BY <1>1, <1>2, <1>3, <1>4 DEF PhoneCallSound, ResultSound, Told, leadsVars
<1>9. OtherTransfersStay(c)
  BY <1>2 DEF OtherTransfersStay, Put
<1> QED
  BY <1>1, <1>2, <1>4, <1>7, <1>8, <1>9, EventStep DEF event

\* Twilio refuses the command while the call waits for it.
LEMMA RefuseStep ==
  ASSUME PhoneTypeOK, PhoneInv, NEW c \in PhoneCalls, RefuseTransferCommand(c),
         ApplyEvent(c, "transfer-command-failed", "TRANSFER_FAILED", now)
  PROVE  PhoneInv'
<1> DEFINE key == "transfer-command-failed"
           event == StoredEvent(c, key, "TRANSFER_FAILED", now)
<1>1. PhoneCallSound(c) /\ "TRANSFER_FAILED" \in EventType
  BY DEF PhoneInv, EventType
<1>2. /\ c \in DOMAIN dials /\ dials[c] = "directed"
      /\ dials' = [dials EXCEPT ![c] = "over"]
      /\ UNCHANGED <<sessions, receipts, reconciling, leadsVars>>
  BY DEF RefuseTransferCommand, Dial
<1>3. event.call = c /\ event.key = key /\ event.type = "TRANSFER_FAILED"
  BY DEF StoredEvent
<1>4. /\ Moves(c, "TRANSFER_FAILED", now) /\ ~Stored(c, key)
      /\ callEvents' = callEvents \cup {event} /\ Told(c, event)
  BY <1>1, <1>2, EventMoves
<1> HIDE DEF event
<1>6. /\ c \in DOMAIN dials' /\ dials'[c] = "over"
      /\ \A d \in DOMAIN dials : d # c => dials'[d] = dials[d]
      /\ DOMAIN dials' = DOMAIN dials
  BY <1>2
<1>7. ~Stored(c, "transfer-result")
  BY <1>1, <1>2 DEF PhoneCallSound, TransferSound, Stored, HasResult
<1>8. TransferSound(c)'
  BY <1>1, <1>2, <1>3, <1>4, <1>6, <1>7 DEF PhoneCallSound, TransferSound, Told, Stored
<1>9. ResultSound(c)'
  BY <1>3, <1>4, <1>7 DEF ResultSound, Told, Reported, Stored
<1>10. OtherTransfersStay(c)
  BY <1>2, <1>6 DEF OtherTransfersStay
<1> QED
  BY <1>1, <1>2, <1>4, <1>8, <1>9, <1>10, EventStep DEF event

\* The result Twilio reports is stored, and its reconciliation begins.
LEMMA ResultStep ==
  ASSUME PhoneTypeOK, PhoneInv, NEW c \in PhoneCalls, TransferResult(c),
         ApplyEvent(c, "transfer-result", ResultType(c), now)
  PROVE  PhoneInv'
<1> DEFINE key == "transfer-result"
           event == StoredEvent(c, key, ResultType(c), now)
<1>1. /\ PhoneCallSound(c) /\ ResultType(c) \in EventType
      /\ ResultType(c) \in {"TRANSFER_SUCCEEDED", "TRANSFER_FAILED"}
  BY DEF PhoneInv, EventType, ResultType
<1>2. /\ HasResult(c)
      /\ reconciling' = reconciling \cup {c}
      /\ UNCHANGED <<sessions, receipts, dials, leadsVars>>
  BY DEF TransferResult
<1>3. event.call = c /\ event.key = key /\ event.type = ResultType(c)
  BY DEF StoredEvent
<1>4. /\ Moves(c, ResultType(c), now) /\ ~Stored(c, key)
      /\ callEvents' = callEvents \cup {event} /\ Told(c, event)
  BY <1>1, <1>2, EventMoves
<1> HIDE DEF event
<1>6. TransferSound(c)'
  BY <1>1, <1>2, <1>3, <1>4 DEF PhoneCallSound, TransferSound, Told, HasResult, ResultType
<1>7. ResultSound(c)'
  BY <1>2 DEF ResultSound
<1>8. OtherTransfersStay(c)
  BY <1>2 DEF OtherTransfersStay
<1> QED
  BY <1>1, <1>2, <1>4, <1>6, <1>7, <1>8, EventStep DEF event

\* No event is stored and no call moves.
OnlyTransfers(c) ==
  /\ UNCHANGED <<calls, callEvents, sessions, receipts, leadsVars>>
  /\ OtherTransfersStay(c)

\* Then what is known of the transfer is all there is to show.
LEMMA OnlyTransfersStep ==
  ASSUME PhoneTypeOK, PhoneInv, NEW c \in PhoneCalls, OnlyTransfers(c),
         TransferSound(c)', ResultSound(c)'
  PROVE  PhoneInv'
<1>1. c \in DOMAIN calls /\ PhoneCallSound(c) /\ Booked(c)
  BY DEF PhoneCalls, PhoneInv
<1>2. \A d : EventsOf(d)' = EventsOf(d)
  BY DEF OnlyTransfers, EventsOf
<1>3. EventsStay(c)
  BY <1>2, EventsKept
<1>4. PhoneCallSound(c)'
  BY <1>1, <1>2, <1>3
  DEF PhoneCallSound, EventsStay, StatusSound, LeadSound, OnlyTransfers, leadsVars
<1>5. Booked(c)'
  BY <1>1 DEF Booked, OnlyTransfers, leadsVars
<1>6. Elsewhere(c)
  BY <1>2 DEF Elsewhere, SameView, OnlyTransfers, OtherTransfersStay, RowsSound, PhoneInv,
              PhoneCalls, leadsVars
<1> QED
  BY <1>4, <1>5, <1>6, OneCallTouched

\* The dial goes on: commanded, lost, refused too late, ended.
LEMMA DialStep ==
  ASSUME PhoneTypeOK, PhoneInv, NEW c \in PhoneCalls,
         NEW from \in {"directed", "dialing"}, NEW to \in DialState, Dial(c, from, to),
         from = "directed" \/ to \in {"answered", "missed"},
         UNCHANGED <<sessions, receipts, requests, reconciling, callsVars, leadsVars, now>>
  PROVE  PhoneInv'
<1>1. /\ c \in DOMAIN dials /\ dials[c] = from
      /\ DOMAIN dials' = DOMAIN dials /\ dials'[c] = to
      /\ \A d \in DOMAIN dials : d # c => dials'[d] = dials[d]
  BY DEF Dial
<1>2. OnlyTransfers(c)
  BY <1>1 DEF OnlyTransfers, OtherTransfersStay, callsVars
<1>3. EventsOf(c)' = EventsOf(c) /\ PhoneCallSound(c)
  BY DEF callsVars, EventsOf, PhoneInv
<1>4. ~Stored(c, "transfer-result") /\ ~Stored(c, "transfer-command-failed")
  BY <1>1, <1>3 DEF PhoneCallSound, TransferSound, Stored, HasResult
<1>5. TransferSound(c)'
  BY <1>1, <1>3, <1>4 DEF PhoneCallSound, TransferSound, Stored
<1>6. ResultSound(c)'
  BY <1>3, <1>4 DEF ResultSound, Reported, Stored
<1> QED
  BY <1>2, <1>5, <1>6, OnlyTransfersStep

\* A result that is found stored is reconciled again.
LEMMA RepeatedResultStep ==
  ASSUME PhoneTypeOK, PhoneInv, NEW c \in PhoneCalls, TransferResult(c),
         Stored(c, "transfer-result"), UNCHANGED callsVars
  PROVE  PhoneInv'
<1>1. /\ reconciling' = reconciling \cup {c}
      /\ UNCHANGED <<sessions, receipts, requests, dials, leadsVars, now>>
  BY DEF TransferResult
<1>2. OnlyTransfers(c)
  BY <1>1 DEF OnlyTransfers, OtherTransfersStay, callsVars
<1>3. EventsOf(c)' = EventsOf(c) /\ PhoneCallSound(c)
  BY DEF callsVars, EventsOf, PhoneInv
<1>4. TransferSound(c)'
  BY <1>1, <1>3 DEF PhoneCallSound, TransferSound, Stored, HasResult, ResultType
<1>5. ResultSound(c)'
  BY <1>1 DEF ResultSound
<1> QED
  BY <1>2, <1>4, <1>5, OnlyTransfersStep

\* The transfers of all phone calls.
LEMMA TransfersStep ==
  ASSUME PhoneTypeOK, PhoneInv, NEW c \in PhoneCalls,
         \/ CommandTransfer(c) \/ LoseTransferCommand(c) \/ RefuseTransferCommand(c)
         \/ \E result \in {"answered", "missed"} : DialEnds(c, result)
         \/ TransferResult(c)
  PROVE  PhoneInv'
<1>1. CASE CommandTransfer(c) \/ LoseTransferCommand(c)
  BY <1>1, DialStep DEF CommandTransfer, LoseTransferCommand, DialState
<1>2. CASE RefuseTransferCommand(c)
  BY <1>2, DialStep, RefuseStep DEF RefuseTransferCommand, DialState
<1>3. CASE \E result \in {"answered", "missed"} : DialEnds(c, result)
  BY <1>3, DialStep DEF DialEnds, DialState
<1>4. CASE TransferResult(c)
  BY <1>4, ResultStep, RepeatedResultStep DEF TransferResult
<1> QED
  BY <1>1, <1>2, <1>3, <1>4

\* What is stored of the result is what Twilio reported.
LEMMA ResultKnown ==
  ASSUME NEW c, TransferSound(c), Stored(c, "transfer-result")
  PROVE  /\ Reported(c, "TRANSFER_SUCCEEDED") <=> dials[c] = "answered"
         /\ Reported(c, "TRANSFER_FAILED") <=> dials[c] # "answered"
         /\ Reported(c, "TRANSFER_SUCCEEDED") => HasEvent(c, "TRANSFER_SUCCEEDED")
<1>1. PICK e \in EventsOf(c) : e.key = "transfer-result"
  BY DEF Stored
<1>2. \A f \in EventsOf(c) : f.key = "transfer-result" => f.type = ResultType(c)
  BY DEF TransferSound
<1> QED
  BY <1>1, <1>2 DEF HasEvent, Reported, ResultType

\* The result reaches the handoff.
LEMMA ReconcileStep ==
  ASSUME PhoneTypeOK, PhoneInv, NEW c \in PhoneCalls, Reconcile(c)
  PROVE  PhoneInv'
<1>1. /\ c \in reconciling
      /\ reconciling' = reconciling \ {c}
      /\ handoffs' = IF c \in DOMAIN handoffs
                     THEN [handoffs EXCEPT ![c] = Reconciled(handoffs[c], dials[c] = "answered")]
                     ELSE handoffs
      /\ UNCHANGED <<sessions, receipts, requests, dials, calls, callEvents, leads>>
  BY DEF Reconcile, callsVars
<1>2. /\ c \in DOMAIN calls /\ PhoneCallSound(c) /\ Booked(c)
      /\ handoffs \in [DOMAIN handoffs -> Handoff]
  BY DEF PhoneCalls, PhoneInv, PhoneTypeOK, LeadsTypeOK
<1>3. /\ Reported(c, "TRANSFER_SUCCEEDED") <=> dials[c] = "answered"
      /\ Reported(c, "TRANSFER_FAILED") <=> dials[c] # "answered"
      /\ dials[c] = "answered" => HasEvent(c, "TRANSFER_SUCCEEDED")
  BY <1>1, <1>2, ResultKnown DEF PhoneCallSound, TransferSound
<1>4. /\ DOMAIN handoffs' = DOMAIN handoffs
      /\ \A h \in DOMAIN handoffs : h # c => handoffs'[h] = handoffs[h]
      /\ c \in DOMAIN handoffs =>
           /\ handoffs'[c].lead = handoffs[c].lead
           /\ handoffs'[c].kind = IF dials[c] = "answered" THEN "LIVE_TRANSFER" ELSE "CALLBACK"
           /\ dials[c] = "answered" => handoffs'[c].status = "COMPLETED"
  BY <1>1, <1>2 DEF Reconciled, Handoff
<1>5. \A d : EventsOf(d)' = EventsOf(d)
  BY <1>1 DEF EventsOf
<1>6. EventsStay(c)
  BY <1>5, EventsKept
<1>7. StatusSound(c)' /\ LeadSound(c)'
  BY <1>1, <1>2, <1>5, <1>6 DEF PhoneCallSound, EventsStay, StatusSound, LeadSound
<1>8. TransferSound(c)'
  BY <1>1, <1>2, <1>5, <1>6 DEF PhoneCallSound, EventsStay, TransferSound, HasResult, ResultType
<1>9. ResultSound(c)'
  BY <1>3, <1>4, <1>6 DEF ResultSound, EventsStay
<1>10. Booked(c)'
  BY <1>1, <1>2, <1>3, <1>4 DEF Booked, PhoneCallSound, StatusSound
<1>11. Elsewhere(c)
  BY <1>1, <1>4, <1>5 DEF Elsewhere, SameView, RowsSound, PhoneInv, PhoneCalls
<1> QED
  BY <1>7, <1>8, <1>9, <1>10, <1>11, OneCallTouched DEF PhoneCallSound

\* Only the session of a call, and whether its caller confirmed, has changed.
OnlySession(c) ==
  /\ UNCHANGED <<calls, callEvents, dials, reconciling, leadsVars>>
  /\ \A d \in DOMAIN calls : d # c =>
       /\ d \in DOMAIN sessions' <=> d \in DOMAIN sessions
       /\ d \in DOMAIN sessions => sessions'[d] = sessions[d]
       /\ d \in receipts' <=> d \in receipts

\* Then what is known of its lead is all there is to show.
LEMMA OnlySessionStep ==
  ASSUME PhoneTypeOK, PhoneInv, NEW c \in PhoneCalls, OnlySession(c), LeadSound(c)'
  PROVE  PhoneInv'
<1>1. c \in DOMAIN calls /\ PhoneCallSound(c) /\ Booked(c)
  BY DEF PhoneCalls, PhoneInv
<1>2. \A d : EventsOf(d)' = EventsOf(d)
  BY DEF OnlySession, EventsOf
<1>3. EventsStay(c)
  BY <1>2, EventsKept
<1>4. StatusSound(c)'
  BY <1>1, <1>2, <1>3 DEF PhoneCallSound, EventsStay, StatusSound, OnlySession
<1>5. TransferSound(c)' /\ ResultSound(c)'
  BY <1>1, <1>2, <1>3
  DEF PhoneCallSound, EventsStay, TransferSound, ResultSound, HasResult, ResultType, OnlySession,
      leadsVars
<1>6. Booked(c)'
  BY <1>1 DEF Booked, OnlySession, leadsVars
<1>7. Elsewhere(c)
  BY <1>2 DEF Elsewhere, SameView, OnlySession, RowsSound, PhoneInv, PhoneCalls, leadsVars
<1> QED
  BY <1>4, <1>5, <1>6, <1>7, OneCallTouched DEF PhoneCallSound

\* In its tools' context a phone call has not been reported over.
LEMMA NotOverInContext ==
  ASSUME NEW c, LeadSound(c), InContext(c)
  PROVE  ~Stored(c, "post-call")
BY DEF LeadSound, InContext

\* Consent opens a session, the readback is confirmed, a session that was not used expires.
LEMMA SessionStep ==
  ASSUME PhoneTypeOK, PhoneInv, NEW c \in PhoneCalls,
         AcceptConsent(c) \/ ConfirmIntake(c) \/ ExpireStaleSession(c)
  PROVE  PhoneInv'
<1>1. /\ c \in DOMAIN calls /\ PhoneCallSound(c)
      /\ receipts \subseteq DOMAIN sessions
      /\ sessions \in [DOMAIN sessions -> [status : SessionStatus, expires : Nat]]
  BY DEF PhoneCalls, PhoneInv, PhoneTypeOK
<1>2. CASE AcceptConsent(c)
  <2> DEFINE row == [status |-> "AUTHORIZED", expires |-> AuthorizedUntil(c)]
  <2>1. /\ c \notin DOMAIN sessions
        /\ calls[c].status = "RECEIVED"
        /\ sessions' = Put(sessions, c, row)
        /\ UNCHANGED <<receipts, requests, dials, reconciling, calls, callEvents, leadsVars>>
    BY <1>2 DEF AcceptConsent, callsVars
  <2>2. row.status = "AUTHORIZED"
    OBVIOUS
  <2> HIDE DEF row
  <2>3. /\ DOMAIN sessions' = DOMAIN sessions \cup {c}
        /\ sessions'[c] = row
        /\ \A d \in DOMAIN sessions : sessions'[d] = sessions[d]
    BY <2>1 DEF Put
  <2>4. OnlySession(c)
    BY <2>1, <2>3 DEF OnlySession
  <2>5. \A key : Stored(c, key)' <=> Stored(c, key)
    BY <2>1 DEF Stored, EventsOf
  <2>6. LeadSound(c)'
    BY <1>1, <2>1, <2>2, <2>3, <2>5 DEF PhoneCallSound, LeadSound, StatusSound, leadsVars
  <2> QED
    BY <2>4, <2>6, OnlySessionStep
<1>3. CASE ConfirmIntake(c)
  <2>1. /\ InContext(c) /\ c \in DOMAIN sessions
        /\ sessions[c].status = "AUTHORIZED"
        /\ receipts' = receipts \cup {c}
        /\ sessions' = [sessions EXCEPT ![c].status = "REVIEW_PENDING"]
        /\ UNCHANGED <<dials, reconciling, calls, callEvents, leadsVars>>
    BY <1>3 DEF ConfirmIntake, InContext, callsVars
  <2>2. /\ DOMAIN sessions' = DOMAIN sessions
        /\ sessions'[c].status = "REVIEW_PENDING"
        /\ \A d \in DOMAIN sessions : d # c => sessions'[d] = sessions[d]
    BY <1>1, <2>1
  <2>3. OnlySession(c)
    BY <2>1, <2>2 DEF OnlySession
  <2>4. \A key : Stored(c, key)' <=> Stored(c, key)
    BY <2>1 DEF Stored, EventsOf
  <2>5. ~Stored(c, "post-call")
    BY <1>1, <2>1, NotOverInContext DEF PhoneCallSound
  <2>6. LeadSound(c)'
    BY <1>1, <2>1, <2>2, <2>4, <2>5 DEF PhoneCallSound, LeadSound, leadsVars
  <2> QED
    BY <2>3, <2>6, OnlySessionStep
<1>4. CASE ExpireStaleSession(c)
  <2>1. /\ c \in DOMAIN sessions
        /\ sessions[c].status = "AUTHORIZED"
        /\ sessions' = [sessions EXCEPT ![c].status = "EXPIRED"]
        /\ UNCHANGED <<receipts, requests, dials, reconciling, calls, callEvents, leadsVars>>
    BY <1>4 DEF ExpireStaleSession, callsVars
  <2>2. /\ DOMAIN sessions' = DOMAIN sessions
        /\ sessions'[c].status = "EXPIRED"
        /\ \A d \in DOMAIN sessions : d # c => sessions'[d] = sessions[d]
    BY <1>1, <2>1
  <2>3. OnlySession(c)
    BY <2>1, <2>2 DEF OnlySession
  <2>4. \A key : Stored(c, key)' <=> Stored(c, key)
    BY <2>1 DEF Stored, EventsOf
  <2>5. LeadSound(c)'
    BY <1>1, <2>1, <2>2, <2>4 DEF PhoneCallSound, LeadSound, leadsVars
  <2> QED
    BY <2>3, <2>5, OnlySessionStep
<1> QED
  BY <1>2, <1>3, <1>4

\* A report after the call: events and status of the call it is about.
LEMMA ReportSound ==
  ASSUME PhoneInv, NEW c \in PhoneCalls, NEW key \in {"post-call", "initiation-failure"},
         ~Stored(c, key), callEvents' = callEvents \cup {PostCallEvent(c, key)},
         calls'[c].status \in {"FAILED", "COMPLETED", "CALLBACK_REQUESTED", calls[c].status},
         calls'[c].status \notin {"RECEIVED", "CONNECTED", "CALLBACK_PENDING"},
         calls[c].status \in Settled =>
           calls'[c].status \in {"FAILED", calls[c].status},
         calls'[c].status = "CALLBACK_REQUESTED" =>
           calls[c].status \in {"CALLBACK_PENDING", "CALLBACK_REQUESTED"},
         key = "initiation-failure" => calls'[c].status = "FAILED",
         UNCHANGED <<dials, reconciling>>
  PROVE  /\ Told(c, PostCallEvent(c, key))
         /\ StatusSound(c)' /\ TransferSound(c)'
<1> DEFINE event == PostCallEvent(c, key)
<1>1. /\ event.call = c /\ event.key = key /\ event.action = "NONE"
      /\ event.type = "PHONE_POST_CALL_FINALIZED"
  BY DEF PostCallEvent
<1> HIDE DEF event
<1>2. Told(c, event)
  BY <1>1, EventTold DEF event
<1>3. PhoneCallSound(c)
  BY DEF PhoneInv
<1>5. StatusSound(c)'
  BY <1>1, <1>2, <1>3 DEF PhoneCallSound, StatusSound, Told, ActiveCallStatuses, Settled
<1>6. TransferSound(c)'
  BY <1>1, <1>2, <1>3 DEF PhoneCallSound, TransferSound, Told, HasResult, ResultType
<1> QED
  BY <1>2, <1>5, <1>6 DEF event

\* The other calls, when one is reported over.
LEMMA ReportElsewhere ==
  ASSUME PhoneInv, NEW c \in PhoneCalls, NEW key, Told(c, PostCallEvent(c, key)),
         callEvents' = callEvents \cup {PostCallEvent(c, key)},
         OthersStay(c), OtherSessionsStay(c), UNCHANGED <<receipts, requests, dials, reconciling>>,
         \A d \in DOMAIN calls : d # c =>
           /\ d \in DOMAIN leads' <=> d \in DOMAIN leads
           /\ d \in DOMAIN handoffs' <=> d \in DOMAIN handoffs
           /\ d \in DOMAIN handoffs => handoffs'[d] = handoffs[d],
         DOMAIN leads \subseteq DOMAIN leads', DOMAIN leads' \subseteq DOMAIN leads \cup {c},
         DOMAIN handoffs' \subseteq DOMAIN handoffs \cup {c}
  PROVE  Elsewhere(c)
<1>1. PostCallEvent(c, key).call = c /\ c \in DOMAIN calls
  BY DEF PostCallEvent, PhoneCalls
<1>2. \A d \in DOMAIN calls : d # c => SameView(d)
  BY DEF SameView, Told, OthersStay, OtherSessionsStay
<1>3. PhoneCalls' = PhoneCalls
  BY DEF OthersStay, PhoneCalls
<1>4. RowsSound'
  BY <1>1, <1>3 DEF RowsSound, PhoneInv, OthersStay
<1> QED
  BY <1>2, <1>4 DEF Elsewhere, OthersStay

\* The end of a call in which nothing was confirmed.
LEMMA EndUnconfirmedStep ==
  ASSUME PhoneTypeOK, PhoneInv, NEW c \in PhoneCalls, NEW at, EndUnconfirmed(c, at)
  PROVE  PhoneInv'
<1>1. c \in DOMAIN calls /\ PhoneCallSound(c) /\ Booked(c)
  BY DEF PhoneCalls, PhoneInv
<1>2. /\ ~Stored(c, "post-call") /\ c \notin receipts
      /\ callEvents' = callEvents \cup {PostCallEvent(c, "post-call")}
      /\ OthersStay(c) /\ OtherSessionsStay(c)
      /\ calls'[c].lead = calls[c].lead
      /\ calls'[c].status \in {"FAILED", "COMPLETED", calls[c].status}
      /\ calls'[c].status \notin {"RECEIVED", "CONNECTED", "CALLBACK_PENDING"}
      /\ calls[c].status \in Settled =>
           calls'[c].status \in {"FAILED", calls[c].status}
      /\ c \in DOMAIN sessions =>
           IF sessions[c].status \in {"AUTHORIZED", "REVIEW_PENDING"}
           THEN sessions'[c].status = "FAILED" ELSE sessions'[c] = sessions[c]
      /\ UNCHANGED <<receipts, requests, dials, reconciling, leads, handoffs>>
  BY EndedUnconfirmed DEF leadsVars
<1> DEFINE event == PostCallEvent(c, "post-call")
<1>3. Told(c, event) /\ StatusSound(c)' /\ TransferSound(c)'
  BY <1>2, ReportSound
<1>4. event.key = "post-call" /\ event.type = "PHONE_POST_CALL_FINALIZED"
  BY DEF PostCallEvent
<1>5. LeadSound(c)'
  BY <1>1, <1>2, <1>3, <1>4 DEF PhoneCallSound, LeadSound, Told, OtherSessionsStay
<1>6. ResultSound(c)'
  BY <1>1, <1>2, <1>3, <1>4 DEF PhoneCallSound, ResultSound, Told
<1>7. Booked(c)'
  BY <1>1, <1>2 DEF Booked
<1>8. Elsewhere(c)
  BY <1>2, <1>3, ReportElsewhere
<1> QED
  BY <1>3, <1>5, <1>6, <1>7, <1>8, OneCallTouched DEF PhoneCallSound

\* A call that the provider could not start.
LEMMA InitiationFailureStep ==
  ASSUME PhoneTypeOK, PhoneInv, NEW c \in PhoneCalls, InitiationFailure(c)
  PROVE  PhoneInv'
<1>1. c \in DOMAIN calls /\ PhoneCallSound(c)
  BY DEF PhoneCalls, PhoneInv
<1>2. /\ c \in DOMAIN sessions => sessions[c].status # "CONFIRMED"
      /\ ~Stored(c, "initiation-failure")
      /\ callEvents' = callEvents \cup {PostCallEvent(c, "initiation-failure")}
      /\ OthersStay(c) /\ OtherSessionsStay(c)
      /\ calls'[c].lead = calls[c].lead
      /\ calls'[c].status = "FAILED"
      /\ c \in DOMAIN sessions => sessions'[c].status = "FAILED"
      /\ UNCHANGED <<receipts, requests, dials, reconciling, leads, handoffs>>
  BY InitiationFailed DEF leadsVars
<1> DEFINE event == PostCallEvent(c, "initiation-failure")
<1>3. Told(c, event) /\ StatusSound(c)' /\ TransferSound(c)'
  BY <1>2, ReportSound
<1>4. event.key = "initiation-failure" /\ event.type = "PHONE_POST_CALL_FINALIZED"
  BY DEF PostCallEvent
<1>5. LeadSound(c)'
  BY <1>1, <1>2, <1>3, <1>4 DEF PhoneCallSound, LeadSound, Told, OtherSessionsStay
<1>6. ResultSound(c)'
  BY <1>1, <1>2, <1>3, <1>4 DEF PhoneCallSound, ResultSound, Told
<1>7. Booked(c)'
  BY <1>2 DEF Booked
<1>8. Elsewhere(c)
  BY <1>2, <1>3, ReportElsewhere
<1> QED
  BY <1>3, <1>5, <1>6, <1>7, <1>8, OneCallTouched DEF PhoneCallSound

\* The kind of handoff that the events of a call ask for: a callback that is collected is none
\* that came of a transfer, unless the transfer failed.
LEMMA KindRequested ==
  ASSUME NEW c, StatusSound(c)
  PROVE  /\ HasEvent(c, "TRANSFER_FAILED") => RequestedHandoffKind(c) = {"CALLBACK"}
         /\ calls[c].status \in {"CALLBACK_PENDING", "CALLBACK_REQUESTED"} =>
              RequestedHandoffKind(c) = {"CALLBACK"}
<1>1. HasEvent(c, "TRANSFER_FAILED") \/ HasEvent(c, "CALLBACK_REQUESTED") =>
        RequestedHandoffKind(c) = {"CALLBACK"}
  BY DEF RequestedHandoffKind
<1>2. ASSUME calls[c].status \in {"CALLBACK_PENDING", "CALLBACK_REQUESTED"},
             ~HasEvent(c, "TRANSFER_FAILED"), ~HasEvent(c, "CALLBACK_REQUESTED")
      PROVE  RequestedHandoffKind(c) = {"CALLBACK"}
  <2>1. ~TransferAttempted(c)
    BY <1>2 DEF StatusSound, Settled
  <2>2. \E e \in EventsOf(c) : e.action = "COLLECT_CALLBACK"
    BY <1>2 DEF StatusSound, CallbackAsked, HasEvent
  <2> QED
    BY <2>1, <2>2 DEF RequestedHandoffKind
<1> QED
  BY <1>1, <1>2

\* The end of a call whose caller confirmed the readback: lead and handoff.
LEMMA MaterializeStep ==
  ASSUME PhoneTypeOK, PhoneInv, NEW c \in PhoneCalls, NEW at, Materialize(c, at)
  PROVE  PhoneInv'
<1>1. /\ c \in DOMAIN calls /\ PhoneCallSound(c) /\ Booked(c) /\ StatusSound(c)
      /\ LeadsTypeOK /\ c \in HandoffIds /\ c \in LeadIds
  BY CallsAssumption DEF PhoneCalls, PhoneInv, PhoneCallSound, PhoneTypeOK, CallsTypeOK
<1>2. /\ ~Stored(c, "post-call") /\ c \in receipts /\ c \notin DOMAIN leads
      /\ DOMAIN leads' = DOMAIN leads \cup {c}
      /\ callEvents' = callEvents \cup {PostCallEvent(c, "post-call")}
      /\ OthersStay(c) /\ OtherSessionsStay(c)
      /\ calls'[c].lead = c
      /\ calls'[c].status \in {"FAILED", "COMPLETED", "CALLBACK_REQUESTED", calls[c].status}
      /\ calls'[c].status \notin {"RECEIVED", "CONNECTED", "CALLBACK_PENDING"}
      /\ calls'[c].status = "CALLBACK_REQUESTED" =>
           calls[c].status \in {"CALLBACK_PENDING", "CALLBACK_REQUESTED"}
      /\ calls[c].status \in Settled =>
           calls'[c].status \in {"FAILED", calls[c].status}
      /\ c \in DOMAIN sessions /\ sessions'[c].status = "CONFIRMED"
      /\ HandoffMaterialized(c)
      /\ UNCHANGED <<receipts, requests, dials, reconciling, now>>
  BY Materialized
<1> DEFINE event == PostCallEvent(c, "post-call")
<1>3. Told(c, event) /\ StatusSound(c)' /\ TransferSound(c)'
  BY <1>2, ReportSound
<1>4. event.key = "post-call" /\ event.type = "PHONE_POST_CALL_FINALIZED"
  BY DEF PostCallEvent
<1>5. LeadSound(c)'
  BY <1>2, <1>3, <1>4 DEF LeadSound, Told, OtherSessionsStay
<1>6. \/ RequestedHandoffKind(c) = {} /\ UNCHANGED handoffs
      \/ /\ c \notin DOMAIN handoffs
         /\ DOMAIN handoffs' = DOMAIN handoffs \cup {c}
         /\ handoffs'[c].lead = c
         /\ handoffs'[c].kind \in RequestedHandoffKind(c)
         /\ HasEvent(c, "TRANSFER_SUCCEEDED") => handoffs'[c].status = "COMPLETED"
         /\ \A h \in DOMAIN handoffs : handoffs'[h] = handoffs[h]
  <2> DEFINE outcome == IF HasEvent(c, "TRANSFER_SUCCEEDED") THEN "COMPLETED" ELSE "REQUESTED"
  <2>1. outcome \in HandoffStatus /\ RequestedHandoffKind(c) \subseteq HandoffKind
    BY DEF HandoffStatus, RequestedHandoffKind, HandoffKind
  <2>2. HasEvent(c, "TRANSFER_SUCCEEDED") => outcome = "COMPLETED"
    OBVIOUS
  <2>3. \/ RequestedHandoffKind(c) = {} /\ UNCHANGED handoffs
        \/ \E kind \in RequestedHandoffKind(c) : CallHandoff(c, c, kind, outcome)
    BY <1>2 DEF HandoffMaterialized
  <2> HIDE DEF outcome
  <2>4. ASSUME NEW kind \in RequestedHandoffKind(c), CallHandoff(c, c, kind, outcome)
        PROVE  /\ c \notin DOMAIN handoffs
               /\ DOMAIN handoffs' = DOMAIN handoffs \cup {c}
               /\ handoffs'[c] = [lead |-> c, kind |-> kind, status |-> outcome]
               /\ \A h \in DOMAIN handoffs : handoffs'[h] = handoffs[h]
    BY <1>1, <2>1, <2>4, HandoffWritten
  <2>5. CASE \E kind \in RequestedHandoffKind(c) : CallHandoff(c, c, kind, outcome)
    <3>1. PICK kind \in RequestedHandoffKind(c) : CallHandoff(c, c, kind, outcome)
      BY <2>5
    <3>2. /\ c \notin DOMAIN handoffs
          /\ DOMAIN handoffs' = DOMAIN handoffs \cup {c}
          /\ handoffs'[c] = [lead |-> c, kind |-> kind, status |-> outcome]
          /\ \A h \in DOMAIN handoffs : handoffs'[h] = handoffs[h]
      BY <2>4, <3>1
    <3> QED
      BY <2>2, <3>1, <3>2
  <2> QED
    BY <2>3, <2>5
<1>7. /\ HasEvent(c, "TRANSFER_FAILED") => RequestedHandoffKind(c) = {"CALLBACK"}
      /\ calls[c].status \in {"CALLBACK_PENDING", "CALLBACK_REQUESTED"} =>
           RequestedHandoffKind(c) = {"CALLBACK"}
  BY <1>1, KindRequested
<1>8. ResultSound(c)'
  <2>1. \A type : Reported(c, type)' <=> Reported(c, type)
    BY <1>3, <1>4 DEF Told
  <2>2. \A type : Reported(c, type) => HasEvent(c, type)
    BY DEF Reported, HasEvent
  <2> QED
    BY <1>1, <1>2, <1>6, <1>7, <2>1, <2>2 DEF PhoneCallSound, ResultSound
<1>9. Booked(c)'
  <2> SUFFICES ASSUME calls'[c].status = "CALLBACK_REQUESTED" PROVE Booked(c)'
    BY DEF Booked
  <2>1. calls[c].status \in {"CALLBACK_PENDING", "CALLBACK_REQUESTED"}
    BY <1>2
  <2> QED
    BY <1>2, <1>6, <1>7, <2>1 DEF Booked
<1>10. Elsewhere(c)
  BY <1>2, <1>3, <1>6, ReportElsewhere
<1> QED
  BY <1>3, <1>5, <1>8, <1>9, <1>10, OneCallTouched DEF PhoneCallSound

\* A call is received of which nothing is known yet.
LEMMA ReceptionStep ==
  ASSUME PhoneTypeOK, PhoneInv, Reception
  PROVE  PhoneInv'
<1>1. PICK c \in Calls, adapter \in AdapterName, at \in Times : Receive(c, adapter, at)
  BY DEF Reception
<1>2. UNCHANGED phoneVars
  BY DEF Reception
<1>3. /\ c \notin DOMAIN calls
      /\ DOMAIN calls' = DOMAIN calls \cup {c}
      /\ calls'[c] = NewCall(adapter, at)
      /\ \A d \in DOMAIN calls : calls'[d] = calls[d]
      /\ UNCHANGED <<callEvents, leadsVars>>
  BY <1>1, CallReceived
<1>4. calls'[c].status = "RECEIVED"
  BY <1>3 DEF NewCall
<1>5. /\ c \notin DOMAIN sessions /\ c \notin receipts /\ c \notin DOMAIN dials
      /\ c \notin reconciling /\ c \notin DOMAIN leads /\ c \notin DOMAIN handoffs
  BY <1>3 DEF PhoneTypeOK, PhoneInv, RowsSound
<1>6. \A d : EventsOf(d)' = EventsOf(d)
  BY <1>3 DEF EventsOf
<1>7. EventsOf(c) = {}
  BY <1>3 DEF EventsOf, PhoneInv, RowsSound, PhoneCalls
<1>8. StatusSound(c)' /\ TransferSound(c)' /\ LeadSound(c)' /\ ResultSound(c)'
  <2>1. EventsOf(c)' = {}
    BY <1>6, <1>7
  <2>2. /\ \A key : ~Stored(c, key)'
        /\ \A type : ~HasEvent(c, type)'
        /\ ~TransferAttempted(c)'
    BY <2>1 DEF Stored, HasEvent, TransferAttempted
  <2> QED
    BY <1>2, <1>3, <1>4, <1>5, <2>1, <2>2
    DEF StatusSound, TransferSound, LeadSound, ResultSound, phoneVars, leadsVars
<1>9. Booked(c)'
  BY <1>4 DEF Booked
<1>10. \A d \in DOMAIN calls : SameView(d)
  BY <1>2, <1>3, <1>6 DEF SameView, phoneVars, leadsVars
<1>11. PhoneCalls \subseteq PhoneCalls'
  BY <1>3 DEF PhoneCalls
<1>12. RowsSound'
  BY <1>3, <1>11 DEF RowsSound, PhoneInv, leadsVars
<1>13. Elsewhere(c)
  BY <1>3, <1>10, <1>12 DEF Elsewhere, leadsVars
<1> QED
  BY <1>8, <1>9, <1>13, OneCallTouched DEF PhoneCallSound

\* Staff send an event to a call, of which something is read later or nothing is.
LEMMA StaffEventStep ==
  ASSUME PhoneTypeOK, PhoneInv, NEW c, NEW type \in EventType, NEW at,
         StaffEvent(c, type, at), UNCHANGED phoneVars
  PROVE  PhoneInv'
<1>1. /\ c \in DOMAIN calls /\ CallsTypeOK /\ calls[c] \in Call
      /\ Moves(c, type, at)
      /\ IF c \in PhoneCalls /\ type \in ReadAfterCall
         THEN callEvents' = callEvents \cup {StoredEvent(c, "staff", type, at)}
         ELSE UNCHANGED callEvents
  BY StaffApplied DEF PhoneTypeOK, CallsTypeOK, Moves, phoneVars
<1>2. OtherTransfersStay(c)
  BY DEF OtherTransfersStay, phoneVars
<1>3. CASE c \in PhoneCalls /\ type \in ReadAfterCall
  <2> DEFINE event == StoredEvent(c, "staff", type, at)
  <2>1. event.call = c /\ event.key = "staff" /\ event.type = type
    BY DEF StoredEvent
  <2>2. callEvents' = callEvents \cup {event}
    BY <1>1, <1>3
  <2> HIDE DEF event
  <2>3. Told(c, event)
    BY <2>1, <2>2, EventTold
  <2>4. PhoneCallSound(c)
    BY <1>3 DEF PhoneInv
  <2>5. TransferSound(c)'
    BY <2>1, <2>3, <2>4 DEF PhoneCallSound, TransferSound, Told, HasResult, ResultType, phoneVars
  <2>6. ResultSound(c)'
    BY <1>1, <2>1, <2>3, <2>4 DEF PhoneCallSound, ResultSound, Told, Moves, phoneVars, leadsVars
  <2> QED
    BY <1>1, <1>2, <1>3, <2>2, <2>5, <2>6, EventStep DEF event
<1>4. CASE ~(c \in PhoneCalls /\ type \in ReadAfterCall)
  <2>1. UNCHANGED <<callEvents, phoneVars, leadsVars>> /\ OthersStay(c)
    BY <1>1, <1>4 DEF Moves
  <2>2. \A d : EventsOf(d)' = EventsOf(d)
    BY <2>1 DEF EventsOf
  <2>3. EventsStay(c)
    BY <2>2, EventsKept
  <2>4. PhoneCalls' = PhoneCalls
    BY <2>1 DEF OthersStay, PhoneCalls
  <2>5. ASSUME c \in PhoneCalls PROVE PhoneCallSound(c)'
    <3> DEFINE status == StatusAfter(calls[c], type, at)
    <3>1. PhoneCallSound(c) /\ type \notin ReadAfterCall
      BY <1>4, <2>5 DEF PhoneInv
    <3>2. /\ status # "RECEIVED"
          /\ status = "TRANSFER_PENDING" => type = "TRANSFER_REQUESTED"
          /\ status = "CALLBACK_PENDING" =>
               type \in {"TRANSFER_REQUESTED", "CALLBACK_REQUESTED", "TRANSFER_FAILED"}
          /\ status = "CALLBACK_REQUESTED" => calls[c].status = "CALLBACK_REQUESTED"
          /\ status \in ActiveCallStatuses => calls[c].status \in ActiveCallStatuses
          /\ calls[c].status \in Settled => type = "TRANSFER_FAILED" \/ status \in Settled
          /\ calls[c].status \in {"TRANSFERRED", "FAILED"} =>
               status \in {"TRANSFERRED", "FAILED"}
      BY <1>1, WhereEventsLead DEF Moves
    <3>3. calls'[c].status = status /\ calls'[c].lead = calls[c].lead
      BY <1>1 DEF Moves
    <3>4. {"TRANSFER_REQUESTED", "CALLBACK_REQUESTED", "TRANSFER_FAILED"} \subseteq ReadAfterCall
      BY DEF ReadAfterCall
    <3> HIDE DEF status
    <3>5. StatusSound(c)'
      BY <2>3, <3>1, <3>2, <3>3, <3>4 DEF PhoneCallSound, StatusSound, EventsStay
    <3>6. LeadSound(c)'
      BY <2>1, <2>3, <3>1, <3>3 DEF PhoneCallSound, LeadSound, EventsStay, phoneVars, leadsVars
    <3>7. TransferSound(c)' /\ ResultSound(c)'
      BY <2>1, <2>2, <2>3, <3>1
      DEF PhoneCallSound, TransferSound, ResultSound, HasResult, ResultType, EventsStay,
          phoneVars, leadsVars
    <3> QED
      BY <3>5, <3>6, <3>7 DEF PhoneCallSound
  <2>6. Booked(c)'
    BY <1>1, BookedMove
  <2>7. Elsewhere(c)
    BY <2>1, <2>2, <2>4
    DEF Elsewhere, SameView, OthersStay, RowsSound, PhoneInv, phoneVars, leadsVars
  <2> QED
    BY <2>4, <2>5, <2>6, <2>7, OneCallTouched
<1> QED
  BY <1>3, <1>4

\* Staff link a lead: its call has none, so its own readback has not become one.
LEMMA LinkStep ==
  ASSUME PhoneTypeOK, PhoneInv, NEW c \in Calls, NEW l \in LeadIds, LinkLead(c, l),
         UNCHANGED phoneVars
  PROVE  PhoneInv'
<1>1. /\ c \in DOMAIN calls /\ calls[c].lead = NoLead /\ l \in DOMAIN leads
      /\ OthersStay(c)
      /\ calls'[c].lead = l
      /\ \/ /\ calls'[c].status = "CALLBACK_REQUESTED"
            /\ calls[c].status = "CALLBACK_PENDING"
            /\ CallHandoff(c, l, "CALLBACK", "REQUESTED")
         \/ /\ calls'[c].status = calls[c].status
            /\ calls[c].status \in {"RECEIVED", "CONNECTED"}
            /\ UNCHANGED handoffs
      /\ UNCHANGED <<callEvents, leads>>
  BY LeadLinked
<1>2. \/ /\ calls'[c].status = "CALLBACK_REQUESTED"
         /\ calls[c].status = "CALLBACK_PENDING"
         /\ DOMAIN handoffs' = DOMAIN handoffs \cup {c}
         /\ handoffs'[c].lead = l /\ handoffs'[c].kind = "CALLBACK"
         /\ \A h \in DOMAIN handoffs : h # c => handoffs'[h] = handoffs[h]
      \/ /\ calls'[c].status = calls[c].status
         /\ calls[c].status \in {"RECEIVED", "CONNECTED"}
         /\ UNCHANGED handoffs
  <2>1. LeadsTypeOK /\ c \in HandoffIds /\ "CALLBACK" \in HandoffKind
        /\ "REQUESTED" \in HandoffStatus
    BY CallsAssumption DEF PhoneTypeOK, HandoffKind, HandoffStatus
  <2>2. CASE CallHandoff(c, l, "CALLBACK", "REQUESTED")
    <3>1. /\ DOMAIN handoffs' = DOMAIN handoffs \cup {c}
          /\ handoffs'[c] = [lead |-> l, kind |-> "CALLBACK", status |-> "REQUESTED"]
          /\ \A h \in DOMAIN handoffs : handoffs'[h] = handoffs[h]
      BY <2>1, <2>2, HandoffWritten
    <3>2. handoffs'[c].lead = l /\ handoffs'[c].kind = "CALLBACK"
      BY <3>1
    <3> QED
      BY <1>1, <2>2, <3>1, <3>2
  <2> QED
    BY <1>1, <2>2
<1>3. \A d : EventsOf(d)' = EventsOf(d)
  BY <1>1 DEF EventsOf
<1>4. EventsStay(c)
  BY <1>3, EventsKept
<1>5. PhoneCalls' = PhoneCalls
  BY <1>1 DEF OthersStay, PhoneCalls
<1>6. ASSUME c \in PhoneCalls PROVE PhoneCallSound(c)'
  <2>1. PhoneCallSound(c)
    BY <1>6 DEF PhoneInv
  <2>2. StatusSound(c)'
    BY <1>1, <1>4, <2>1
    DEF PhoneCallSound, StatusSound, EventsStay, ActiveCallStatuses, Settled
  <2>3. c \notin DOMAIN leads
    BY <1>1, <2>1, NoLeadAssumption DEF PhoneCallSound, LeadSound, PhoneTypeOK, LeadsTypeOK
  <2>4. LeadSound(c)'
    BY <1>1, <1>4, <2>1, <2>3 DEF PhoneCallSound, LeadSound, EventsStay, phoneVars
  <2>5. TransferSound(c)'
    BY <1>3, <1>4, <2>1
    DEF PhoneCallSound, TransferSound, HasResult, ResultType, EventsStay, phoneVars
  <2>6. ~Reported(c, "TRANSFER_SUCCEEDED")
    BY <1>1, <2>1 DEF PhoneCallSound, StatusSound, Reported, HasEvent
  <2>7. ResultSound(c)'
    BY <1>2, <1>4, <2>1, <2>6 DEF PhoneCallSound, ResultSound, EventsStay, phoneVars
  <2> QED
    BY <2>2, <2>4, <2>5, <2>7 DEF PhoneCallSound
<1>7. Booked(c)'
  BY <1>1, <1>2 DEF Booked
<1>8. Elsewhere(c)
  <2>1. \A d \in DOMAIN calls : d # c => SameView(d)
    BY <1>1, <1>2, <1>3 DEF SameView, OthersStay, phoneVars
  <2>2. RowsSound'
    BY <1>1, <1>2, <1>5 DEF RowsSound, PhoneInv, OthersStay
  <2> QED
    BY <1>1, <2>1, <2>2 DEF Elsewhere, OthersStay
<1> QED
  BY <1>5, <1>6, <1>7, <1>8, OneCallTouched

\* What staff do with calls.
LEMMA StaffOnCallsStep ==
  ASSUME PhoneTypeOK, PhoneInv, StaffOnCalls
  PROVE  PhoneInv'
<1>1. UNCHANGED phoneVars
  BY DEF StaffOnCalls
<1>2. CASE \E c \in Calls, type \in EventType, at \in SimulatedTimes : StaffEvent(c, type, at)
  BY <1>1, <1>2, StaffEventStep
<1>3. CASE \E c \in Calls, l \in LeadIds : LinkLead(c, l)
  BY <1>1, <1>3, LinkStep
<1> QED
  BY <1>2, <1>3 DEF StaffOnCalls

\* Time passes, the policy or the number changes, or nothing does.
LEMMA NoCallTouched ==
  ASSUME PhoneInv,
         UNCHANGED <<sessions, receipts, dials, reconciling, calls, callEvents, leadsVars>>
  PROVE  PhoneInv'
<1>1. \A d : EventsOf(d)' = EventsOf(d)
  BY DEF EventsOf
<1>2. \A d \in DOMAIN calls : SameView(d)
  BY <1>1 DEF SameView, leadsVars
<1>3. PhoneCalls' = PhoneCalls /\ PhoneCalls \subseteq DOMAIN calls
  BY DEF PhoneCalls
<1>4. DOMAIN leads \subseteq DOMAIN leads' /\ RowsSound'
  BY <1>3 DEF RowsSound, PhoneInv, leadsVars
<1> QED
  BY <1>2, <1>3, <1>4, SameViewSound DEF PhoneInv

\* A session asks for a person: nothing that the invariant speaks of is written.
LEMMA AskStep ==
  ASSUME PhoneInv, NEW c, NEW kind, AskForPerson(c, kind)
  PROVE  PhoneInv'
BY NoCallTouched DEF AskForPerson, callsVars

\* Staff do not open a handoff again that a transfer's success has completed.
LEMMA StaffStep ==
  ASSUME PhoneTypeOK, PhoneInv, Staff
  PROVE  PhoneInv'
<1>1. PICK h \in HandoffIds, s \in HandoffStatus : SetHandoffStatus(h, s)
  BY DEF Staff
<1>2. UNCHANGED <<phoneVars, calls, callEvents, leads>>
  BY <1>1 DEF Staff, SetHandoffStatus, callsVars
<1>3. /\ h \in DOMAIN handoffs
      /\ handoffs[h].status # "COMPLETED"
      /\ handoffs' = [handoffs EXCEPT ![h].status = s]
      /\ handoffs \in [DOMAIN handoffs -> Handoff]
  BY <1>1 DEF SetHandoffStatus, HandoffTransitions, PhoneTypeOK, LeadsTypeOK
<1>4. /\ DOMAIN handoffs' = DOMAIN handoffs
      /\ \A k \in DOMAIN handoffs : k # h => handoffs'[k] = handoffs[k]
      /\ handoffs'[h].lead = handoffs[h].lead /\ handoffs'[h].kind = handoffs[h].kind
  BY <1>3 DEF Handoff
<1>5. \A d : EventsOf(d)' = EventsOf(d)
  BY <1>2 DEF EventsOf
<1>6. EventsStay(h)
  BY <1>5, EventsKept
<1>7. PhoneCalls' = PhoneCalls
  BY <1>2 DEF PhoneCalls
<1>8. h \in PhoneCalls => PhoneCallSound(h)'
  <2> SUFFICES ASSUME h \in PhoneCalls PROVE PhoneCallSound(h)'
    OBVIOUS
  <2>1. PhoneCallSound(h)
    BY DEF PhoneInv
  <2>2. StatusSound(h)' /\ LeadSound(h)'
    BY <1>2, <1>5, <1>6, <2>1
    DEF PhoneCallSound, EventsStay, StatusSound, LeadSound, phoneVars
  <2>3. TransferSound(h)'
    BY <1>2, <1>5, <1>6, <2>1
    DEF PhoneCallSound, EventsStay, TransferSound, HasResult, ResultType, phoneVars
  <2>4. ResultSound(h)'
    BY <1>2, <1>3, <1>4, <1>6, <2>1 DEF PhoneCallSound, EventsStay, ResultSound, phoneVars
  <2> QED
    BY <2>2, <2>3, <2>4 DEF PhoneCallSound
<1>9. h \in DOMAIN calls' => Booked(h)'
  BY <1>2, <1>4 DEF Booked, PhoneInv
<1>10. \A d \in DOMAIN calls : d # h => SameView(d)
  BY <1>2, <1>4, <1>5 DEF SameView, phoneVars
<1>11. RowsSound'
  BY <1>2, <1>4, <1>7 DEF RowsSound, PhoneInv
<1>12. Elsewhere(h)
  BY <1>2, <1>10, <1>11 DEF Elsewhere
<1> QED
  BY <1>7, <1>8, <1>9, <1>12, OneCallTouched

\* The invariant is inductive.
LEMMA PhoneStep == PhoneTypeOK /\ PhoneInv /\ [Next]_allVars => PhoneInv'
<1> SUFFICES ASSUME PhoneTypeOK, PhoneInv, [Next]_allVars PROVE PhoneInv'
  OBVIOUS
<1>1. CASE Advance \/ Administration \/ UNCHANGED allVars
  BY <1>1, NoCallTouched
  DEF Advance, Administration, ReplacePolicy, SetNumberStatus, phoneVars, callsVars, allVars
<1>2. CASE Reception \/ StaffOnCalls \/ Staff
  BY <1>2, ReceptionStep, StaffOnCallsStep, StaffStep
<1>3. CASE Tools
  BY <1>3, PlainEvents, SessionStep, AskStep, RequestTransferStep DEF Tools
<1>4. CASE Transfers
  BY <1>4, TransfersStep, ReconcileStep DEF Transfers
<1>5. CASE PostCall
  BY <1>5, EndUnconfirmedStep, MaterializeStep, InitiationFailureStep, SessionStep DEF PostCall
<1> QED
  BY <1>1, <1>2, <1>3, <1>4, <1>5 DEF Next

\* And it holds at first, when there are no calls.
LEMMA PhoneInvAlways == Spec => []PhoneInv
<1>1. Init => PhoneInv
  BY DEF Init, PhoneInit, CallsInit, Nothing, PhoneInv, RowsSound, PhoneCalls
<1>2. Spec => []PhoneTypeOK
  BY PhoneIsTyped, PTL DEF TypeOK
<1> QED
  BY <1>1, <1>2, PhoneStep, PTL DEF Spec

----------------------------------------------------------------------------
(* What the invariant says. *)

\* A confirmed readback becomes a lead exactly when the post-call report is processed.
THEOREM ReceiptsAreNotLost == Spec => []ReceiptsBecomeLeads
<1>1. PhoneInv => ReceiptsBecomeLeads
  BY DEF PhoneInv, PhoneCallSound, LeadSound, ReceiptsBecomeLeads
<1> QED
  BY <1>1, PhoneInvAlways, PTL

\* Nobody is told of a callback that staff do not have.
THEOREM CallbacksAreBooked == Spec => []CallbackIsBooked
<1>1. PhoneInv => CallbackIsBooked
  BY DEF PhoneInv, Booked, CallbackIsBooked
<1> QED
  BY <1>1, PhoneInvAlways, PTL

\* Whichever report came first, the handoff has the transfer's result.
THEOREM ResultsReachHandoffs == Spec => []ResultReachesHandoff
<1>1. PhoneInv => ResultReachesHandoff
  <2> SUFFICES ASSUME PhoneInv, NEW c \in DOMAIN handoffs \ reconciling, NEW type,
                      Reported(c, type)
               PROVE  ResultSound(c)
    BY DEF ResultSound, ResultReachesHandoff
  <2>1. c \in PhoneCalls
    BY DEF Reported, EventsOf, PhoneInv, RowsSound
  <2> QED
    BY <2>1 DEF PhoneInv, PhoneCallSound
<1> QED
  BY <1>1, PhoneInvAlways, PTL

\* After its report a call occupies a place only on account of a transfer.
THEOREM PlacesAreReturned == Spec => []PlaceIsReturned
<1>1. PhoneInv => PlaceIsReturned
  <2> SUFFICES ASSUME PhoneInv, NEW c \in ActiveCalls, Stored(c, "post-call")
               PROVE  TransferAttempted(c)
    BY DEF PlaceIsReturned
  <2>1. c \in PhoneCalls
    BY DEF Stored, EventsOf, PhoneInv, RowsSound
  <2> QED
    BY <2>1 DEF PhoneInv, PhoneCallSound, StatusSound, ActiveCalls
<1> QED
  BY <1>1, PhoneInvAlways, PTL

----------------------------------------------------------------------------
(* A handoff that staff have dealt with. *)

\* No transfer result is written to a handoff that is dealt with and says otherwise.
ResultsMeetOpenHandoffs ==
  \A c \in PhoneCalls :
    Reconcile(c) /\ c \in DOMAIN handoffs /\ handoffs[c].status \in {"COMPLETED", "CANCELLED"} =>
      dials[c] = "answered" /\ handoffs[c].status = "COMPLETED"

HandoffsStayHandled ==
  \A h \in DOMAIN handoffs :
    handoffs[h].status \in {"COMPLETED", "CANCELLED"} =>
      handoffs'[h].status = handoffs[h].status

\* A row that is written is a new one, and what staff have dealt with they cannot open again.
LEMMA HandledUnlessReconciled ==
  ASSUME PhoneTypeOK, [Next]_allVars, ~(\E c \in PhoneCalls : Reconcile(c))
  PROVE  HandoffsStayHandled
<1>1. CASE UNCHANGED handoffs
  BY <1>1 DEF HandoffsStayHandled
<1>2. CASE StaffOnCalls
  <2>1. ASSUME NEW c \in Calls, NEW l \in LeadIds, LinkLead(c, l)
        PROVE  HandoffsStayHandled
    <3>1. CallHandoff(c, l, "CALLBACK", "REQUESTED") \/ UNCHANGED handoffs
      BY <2>1, LeadLinked
    <3>2. LeadsTypeOK /\ c \in HandoffIds /\ "CALLBACK" \in HandoffKind
          /\ "REQUESTED" \in HandoffStatus
      BY CallsAssumption DEF PhoneTypeOK, HandoffKind, HandoffStatus
    <3> QED
      BY <1>1, <3>1, <3>2, HandoffWritten DEF HandoffsStayHandled
  <2> QED
    BY <1>1, <1>2, <2>1 DEF StaffOnCalls, StaffEvent, leadsVars
<1>3. CASE PostCall
  <2>1. ASSUME NEW c \in PhoneCalls, NEW at, Materialize(c, at)
        PROVE  HandoffsStayHandled
    <3>1. HandoffMaterialized(c)
      BY <2>1, Materialized
    <3>2. LeadsTypeOK /\ c \in LeadIds /\ c \in HandoffIds
      BY CallsAssumption DEF PhoneTypeOK, PhoneCalls, CallsTypeOK
    <3>3. RequestedHandoffKind(c) \subseteq HandoffKind
      BY DEF RequestedHandoffKind, HandoffKind
    <3>4. {"COMPLETED", "REQUESTED"} \subseteq HandoffStatus
      BY DEF HandoffStatus
    <3> QED
      BY <1>1, <3>1, <3>2, <3>3, <3>4, HandoffWritten
      DEF HandoffMaterialized, HandoffsStayHandled
  <2> QED
    BY <1>1, <1>3, <2>1
    DEF PostCall, EndUnconfirmed, InitiationFailure, ExpireStaleSession, leadsVars
<1>4. CASE Staff
  <2>1. PICK h \in HandoffIds, s \in HandoffStatus : SetHandoffStatus(h, s)
    BY <1>4 DEF Staff
  <2>2. /\ h \in DOMAIN handoffs
        /\ handoffs[h].status \notin {"COMPLETED", "CANCELLED"}
        /\ \A k \in DOMAIN handoffs : k # h => handoffs'[k] = handoffs[k]
    BY <2>1 DEF SetHandoffStatus, HandoffTransitions
  <2> QED
    BY <2>2 DEF HandoffsStayHandled
<1>5. CASE Advance \/ Administration \/ Reception \/ UNCHANGED allVars
  BY <1>1, <1>5
  DEF Advance, Administration, ReplacePolicy, SetNumberStatus, Reception, Receive, allVars,
      leadsVars
<1>6. CASE Tools
  BY <1>1, <1>6
  DEF Tools, RegistrationFails, AcceptConsent, Answer, ConfirmIntake, AskForPerson,
      RequestCallback, RequestTransfer, leadsVars
<1>7. CASE Transfers
  BY <1>1, <1>7
  DEF Transfers, CommandTransfer, LoseTransferCommand, RefuseTransferCommand, DialEnds,
      TransferResult, leadsVars
<1> QED
  BY <1>2, <1>3, <1>4, <1>5, <1>6, <1>7 DEF Next

\* A handoff that staff have dealt with is opened again in one way only: the result of the
\* transfer is written to it late and says otherwise.  (With such results it is: the run
\* handled shows how.)
THEOREM OnlyResultsReopenHandoffs ==
  Spec /\ [][ResultsMeetOpenHandoffs]_allVars => HandledStaysHandled
<1>1. ASSUME PhoneTypeOK, ResultsMeetOpenHandoffs, NEW c \in PhoneCalls, Reconcile(c)
      PROVE  HandoffsStayHandled
  <2>1. \A h \in DOMAIN handoffs : h # c => handoffs'[h] = handoffs[h]
    BY <1>1 DEF Reconcile
  <2>2. CASE c \in DOMAIN handoffs /\ handoffs[c].status \in {"COMPLETED", "CANCELLED"}
    <3>1. dials[c] = "answered" /\ handoffs[c].status = "COMPLETED"
      BY <1>1, <2>2 DEF ResultsMeetOpenHandoffs
    <3>2. handoffs[c] \in Handoff
      BY <1>1, <2>2 DEF PhoneTypeOK, LeadsTypeOK
    <3>3. handoffs'[c] = Reconciled(handoffs[c], TRUE)
      BY <1>1, <2>2, <3>1 DEF Reconcile
    <3>4. handoffs'[c].status = "COMPLETED"
      BY <3>2, <3>3 DEF Reconciled, Handoff
    <3> QED
      BY <2>1, <3>1, <3>4 DEF HandoffsStayHandled
  <2>3. CASE ~(c \in DOMAIN handoffs /\ handoffs[c].status \in {"COMPLETED", "CANCELLED"})
    BY <2>1, <2>3 DEF HandoffsStayHandled
  <2> QED
    BY <2>2, <2>3
<1>2. PhoneTypeOK /\ [Next]_allVars /\ [ResultsMeetOpenHandoffs]_allVars => HandoffsStayHandled
  <2> SUFFICES ASSUME PhoneTypeOK, [Next]_allVars, [ResultsMeetOpenHandoffs]_allVars
               PROVE  HandoffsStayHandled
    OBVIOUS
  <2>1. CASE UNCHANGED allVars
    BY <2>1 DEF allVars, leadsVars, HandoffsStayHandled
  <2>2. CASE ResultsMeetOpenHandoffs
    BY <1>1, <2>2, HandledUnlessReconciled
  <2> QED
    BY <2>1, <2>2
<1>3. HandledStaysHandled <=> [][HandoffsStayHandled]_allVars
  BY PTL DEF HandledStaysHandled, HandoffsStayHandled
<1> QED
  BY <1>2, <1>3, PhoneIsTyped, PTL DEF Spec, TypeOK
=============================================================================
