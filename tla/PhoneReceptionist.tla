------------------------- MODULE PhoneReceptionist --------------------------
(***************************************************************************)
(* The phone receptionist: telephony/phone_service.py, ingress.py, sip.py  *)
(* and the Twilio adapter, over the calls of InboundCalls and the leads of *)
(* Leads.                                                                  *)
(*                                                                         *)
(* The voice provider's agent calls tools while the caller speaks, and     *)
(* reports after the call; Twilio reports how a transfer went.  Each       *)
(* report may come late, in any order, twice or never.  A handler that     *)
(* makes several transactions is one action for each, so other handlers,   *)
(* or its own death, come between.  What a dead handler left undone is     *)
(* done when the request is repeated, which finds what was stored.         *)
(***************************************************************************)
EXTENDS InboundCalls

CONSTANT MaxDuration  \* phone_max_duration_seconds, in ticks

ASSUME DurationAssumption == MaxDuration \in Nat \ {0}

VARIABLES
  sessions,     \* the conversation session of a call: [status, expires]
  receipts,     \* calls whose caller confirmed the intake read back to them
  requests,     \* <<call, kind>>: handoffs asked for in a session that was found in order
  dials,        \* the transfer commanded for a call, see DialState
  reconciling   \* calls whose transfer result is stored and not yet in the handoff

phoneVars == <<sessions, receipts, requests, dials, reconciling>>

allVars == <<phoneVars, callsVars, leadsVars, now>>

\* directed: the event is stored and Twilio not asked yet; dialing: Twilio dials; over: the
\* command was refused or lost; the others are the results Twilio reports.
DialState == {"directed", "dialing", "over", "answered", "missed"}

SessionStatus == {"AUTHORIZED", "REVIEW_PENDING", "CONFIRMED", "FAILED", "EXPIRED"}

PhoneTypeOK ==
  /\ now \in Times
  /\ LeadsTypeOK
  /\ CallsTypeOK
  /\ DOMAIN sessions \subseteq DOMAIN calls
  /\ sessions \in [DOMAIN sessions -> [status : SessionStatus, expires : Nat]]
  /\ receipts \subseteq DOMAIN sessions
  /\ requests \subseteq (DOMAIN sessions) \X HandoffKind
  /\ DOMAIN dials \subseteq DOMAIN calls
  /\ dials \in [DOMAIN dials -> DialState]
  /\ reconciling \subseteq DOMAIN calls

\* The website has left the leads that no call gives.
PhoneInit ==
  /\ now = 0
  /\ leads = [l \in LeadIds \ Calls |-> "NEW"]
  /\ handoffs = Nothing
  /\ CallsInit
  /\ sessions = Nothing
  /\ receipts = {}
  /\ requests = {}
  /\ dials = Nothing
  /\ reconciling = {}

----------------------------------------------------------------------------
(* Ingress. *)

\* _mark_registration_failed(): every delivery of the inbound webhook registers the call with
\* the voice provider unless its answer is cached; by the time the failure is stored the call
\* may have moved on.
RegistrationFails(c) ==
  /\ c \in DOMAIN calls
  /\ calls[c].adapter = "twilio"
  /\ ApplyEvent(c, "registration-failed", "PROVIDER_FAILED", now)
  /\ UNCHANGED <<phoneVars, leadsVars, now>>

----------------------------------------------------------------------------
(* Tools the agent calls. *)

\* When the authorization of a session ends that starts now.
AuthorizedUntil(c) ==
  IF calls[c].adapter = "telnyx_sip" THEN calls[c].received + MaxDuration ELSE now + MaxDuration

\* accept_consent(), first transaction.
AcceptConsent(c) ==
  /\ c \in PhoneCalls
  /\ c \notin DOMAIN sessions
  /\ calls[c].status = "RECEIVED"
  /\ AuthorizedUntil(c) > now
  /\ sessions' = Put(sessions, c, [status |-> "AUTHORIZED", expires |-> AuthorizedUntil(c)])
  /\ UNCHANGED <<receipts, requests, dials, reconciling, callsVars, leadsVars, now>>

\* accept_consent(), second transaction, of the first request or of a repeated one.
Answer(c) ==
  /\ c \in DOMAIN sessions
  /\ ApplyEvent(c, "phone-consent", "ANSWERED", now)
  /\ UNCHANGED <<phoneVars, leadsVars, now>>

\* require_phone_session_context()
InContext(c) ==
  /\ c \in DOMAIN sessions
  /\ sessions[c].status \in {"AUTHORIZED", "REVIEW_PENDING"}
  /\ calls[c].status \in {"CONNECTED", "CALLBACK_PENDING", "TRANSFER_PENDING"}

\* confirm_intake(): a repetition finds the receipt.
ConfirmIntake(c) ==
  /\ InContext(c)
  /\ c \notin receipts
  /\ sessions[c].status = "AUTHORIZED"
  /\ sessions[c].expires > now
  /\ receipts' = receipts \cup {c}
  /\ sessions' = [sessions EXCEPT ![c].status = "REVIEW_PENDING"]
  /\ UNCHANGED <<requests, dials, reconciling, callsVars, leadsVars, now>>

MayAskForPerson(c) == InContext(c) /\ sessions[c].expires > now

\* request_handoff(), first transaction: nothing is locked, so anything may happen before the
\* second.  A request whose second transaction is refused, answered from the store or never
\* comes stays here, like one that is slow.
AskForPerson(c, kind) ==
  /\ MayAskForPerson(c)
  /\ requests' = requests \cup {<<c, kind>>}
  /\ UNCHANGED <<sessions, receipts, dials, reconciling, callsVars, leadsVars, now>>

\* request_handoff(), second transaction.
RequestCallback(c) ==
  /\ <<c, "CALLBACK">> \in requests
  /\ ApplyEvent(c, "phone-handoff-callback", "CALLBACK_REQUESTED", now)
  /\ UNCHANGED <<phoneVars, leadsVars, now>>

\* The same; if the event says so the transfer is commanded next.
RequestTransfer(c) ==
  /\ <<c, "LIVE_TRANSFER">> \in requests
  /\ ApplyEvent(c, "phone-handoff-transfer", "TRANSFER_REQUESTED", now)
  /\ dials' = IF calls'[c].status = "TRANSFER_PENDING"
              THEN Put(dials, c, "directed") ELSE dials
  /\ UNCHANGED <<sessions, receipts, requests, reconciling, leadsVars, now>>

Dial(c, from, to) ==
  /\ c \in DOMAIN dials
  /\ dials[c] = from
  /\ dials' = [dials EXCEPT ![c] = to]

\* request_transfer() reaches Twilio.
CommandTransfer(c) ==
  /\ Dial(c, "directed", "dialing")
  /\ UNCHANGED <<sessions, receipts, requests, reconciling, callsVars, leadsVars, now>>

\* The handler dies before Twilio has the command; a repeated request commands nothing.
LoseTransferCommand(c) ==
  /\ Dial(c, "directed", "over")
  /\ UNCHANGED <<sessions, receipts, requests, reconciling, callsVars, leadsVars, now>>

\* Twilio refuses the command, and the failure is stored if the call still waits for it.
RefuseTransferCommand(c) ==
  /\ Dial(c, "directed", "over")
  /\ \/ ApplyEvent(c, "transfer-command-failed", "TRANSFER_FAILED", now)
     \/ calls[c].status # "TRANSFER_PENDING" /\ UNCHANGED callsVars
  /\ UNCHANGED <<sessions, receipts, requests, reconciling, leadsVars, now>>

----------------------------------------------------------------------------
(* The transfer's result. *)

DialEnds(c, result) ==
  /\ result \in {"answered", "missed"}
  /\ Dial(c, "dialing", result)
  /\ UNCHANGED <<sessions, receipts, requests, reconciling, callsVars, leadsVars, now>>

ResultType(c) == IF dials[c] = "answered" THEN "TRANSFER_SUCCEEDED" ELSE "TRANSFER_FAILED"

HasResult(c) == c \in DOMAIN dials /\ dials[c] \in {"answered", "missed"}

\* apply_transfer_result(), first transaction: the report is stored, or found stored.  A
\* report that the call is in no state for is refused and goes no further.
TransferResult(c) ==
  /\ HasResult(c)
  /\ \/ ApplyEvent(c, "transfer-result", ResultType(c), now)
     \/ Stored(c, "transfer-result") /\ UNCHANGED callsVars
  /\ reconciling' = reconciling \cup {c}
  /\ UNCHANGED <<sessions, receipts, requests, dials, leadsVars, now>>

\* Mutant of Reconciled: a failed transfer keeps the kind of handoff that was asked for.
ReconciledKeepingKind(handoff, succeeded) ==
  [handoff EXCEPT !.status = IF succeeded THEN "COMPLETED" ELSE "REQUESTED"]

Reconciled(handoff, succeeded) ==
  [handoff EXCEPT !.kind = IF succeeded THEN "LIVE_TRANSFER" ELSE "CALLBACK",
                  !.status = IF succeeded THEN "COMPLETED" ELSE "REQUESTED"]

\* _reconcile_materialized_transfer(): whatever staff did with the handoff is overwritten.
Reconcile(c) ==
  /\ c \in reconciling
  /\ reconciling' = reconciling \ {c}
  /\ handoffs' = IF c \in DOMAIN handoffs
                 THEN [handoffs EXCEPT ![c] = Reconciled(@, dials[c] = "answered")]
                 ELSE handoffs
  /\ UNCHANGED <<sessions, receipts, requests, dials, callsVars, leads, now>>

----------------------------------------------------------------------------
(* After the call. *)

\* Mutant of Finished: whatever is not waiting for a person is completed.
FinishedAsCompleted(c, at) ==
  LET status == calls[c].status
      duration == Later(at, calls[c].received) - calls[c].received
  IN IF duration > MaxDuration THEN "FAILED"
     ELSE IF status \in {"TRANSFER_PENDING", "CALLBACK_PENDING"} THEN status
     ELSE "COMPLETED"

\* Mutant of Finished: a call that was too long expires like a session.
FinishedAsExpired(c, at) ==
  LET status == calls[c].status
      duration == Later(at, calls[c].received) - calls[c].received
  IN IF duration > MaxDuration THEN "EXPIRED"
     ELSE IF status \in {"RECEIVED", "CONNECTED"} THEN "COMPLETED" ELSE status

\* finish_call()
Finished(c, at) ==
  LET status == calls[c].status
      duration == Later(at, calls[c].received) - calls[c].received
  IN IF duration > MaxDuration THEN "FAILED"
     ELSE IF status \in {"RECEIVED", "CONNECTED"} THEN "COMPLETED" ELSE status

StorePostCall(c, key) ==
  /\ ~Stored(c, key)
  /\ callEvents' = callEvents \cup
       {[call |-> c, key |-> key, type |-> "PHONE_POST_CALL_FINALIZED", action |-> "NONE"]}

\* Mutant of EndUnconfirmed: a callback that was not captured stays open.
EndUnconfirmedAsIs(c, at) ==
  /\ c \in PhoneCalls
  /\ c \notin receipts
  /\ StorePostCall(c, "post-call")
  /\ calls' = [calls EXCEPT ![c].status = Finished(c, at)]
  /\ sessions' = IF c \in DOMAIN sessions /\ sessions[c].status \in
                       {"AUTHORIZED", "REVIEW_PENDING"}
                 THEN [sessions EXCEPT ![c].status = "FAILED"] ELSE sessions
  /\ UNCHANGED <<receipts, requests, dials, reconciling, policy, numberActive, leadsVars, now>>

\* _record_unconfirmed_end(): there is no session, or no receipt.
EndUnconfirmed(c, at) ==
  LET end == Finished(c, at)
  IN /\ c \in PhoneCalls
     /\ c \notin receipts
     /\ StorePostCall(c, "post-call")
     /\ calls' = [calls EXCEPT ![c].status =
                    IF end = "CALLBACK_PENDING" THEN "FAILED" ELSE end]
     /\ sessions' = IF c \in DOMAIN sessions /\ sessions[c].status \in
                          {"AUTHORIZED", "REVIEW_PENDING"}
                    THEN [sessions EXCEPT ![c].status = "FAILED"] ELSE sessions
     /\ UNCHANGED <<receipts, requests, dials, reconciling, policy, numberActive, leadsVars, now>>

HasEvent(c, type) == \E e \in EventsOf(c) : e.type = type

TransferAttempted(c) ==
  \E e \in EventsOf(c) : e.type = "TRANSFER_REQUESTED" /\ e.action = "TRANSFER"

\* requested_handoff_kind(): a set of at most one kind.
RequestedHandoffKind(c) ==
  IF HasEvent(c, "TRANSFER_FAILED") \/ HasEvent(c, "CALLBACK_REQUESTED") THEN {"CALLBACK"}
  ELSE IF TransferAttempted(c) THEN {"LIVE_TRANSFER"}
  ELSE IF \E e \in EventsOf(c) : e.action = "COLLECT_CALLBACK" THEN {"CALLBACK"} ELSE {}

\* _materialize_confirmed_intake(): intake, lead and handoff in one transaction, whatever
\* became of the session meanwhile.
Materialize(c, at) ==
  LET end == Finished(c, at)
      outcome == IF HasEvent(c, "TRANSFER_SUCCEEDED") THEN "COMPLETED" ELSE "REQUESTED"
  IN /\ c \in receipts
     /\ StorePostCall(c, "post-call")
     /\ AddLead(c)
     /\ \/ RequestedHandoffKind(c) = {} /\ UNCHANGED handoffs
        \/ \E kind \in RequestedHandoffKind(c) :
             CallHandoff(c, c, kind, outcome)
     /\ sessions' = [sessions EXCEPT ![c].status = "CONFIRMED"]
     /\ calls' = [calls EXCEPT
          ![c].lead = c,
          ![c].status = IF end = "CALLBACK_PENDING" THEN "CALLBACK_REQUESTED" ELSE end]
     /\ UNCHANGED <<receipts, requests, dials, reconciling, policy, numberActive, now>>

\* Mutant of InitiationFailure: a confirmed session is failed like any other.
InitiationFailureAnyway(c) ==
  /\ c \in PhoneCalls
  /\ calls[c].adapter = "telnyx_sip" => calls[c].status = "RECEIVED"
  /\ StorePostCall(c, "initiation-failure")
  /\ calls' = [calls EXCEPT ![c].status = "FAILED"]
  /\ sessions' = IF c \in DOMAIN sessions
                 THEN [sessions EXCEPT ![c].status = "FAILED"] ELSE sessions
  /\ UNCHANGED <<receipts, requests, dials, reconciling, policy, numberActive, leadsVars, now>>

\* _record_initiation_failure().  The table's constraint on confirmed_at refuses to fail a
\* session that is confirmed.
InitiationFailure(c) ==
  /\ c \in PhoneCalls
  /\ calls[c].adapter = "telnyx_sip" => calls[c].status = "RECEIVED"
  /\ c \in DOMAIN sessions => sessions[c].status # "CONFIRMED"
  /\ StorePostCall(c, "initiation-failure")
  /\ calls' = [calls EXCEPT ![c].status = "FAILED"]
  /\ sessions' = IF c \in DOMAIN sessions
                 THEN [sessions EXCEPT ![c].status = "FAILED"] ELSE sessions
  /\ UNCHANGED <<receipts, requests, dials, reconciling, policy, numberActive, leadsVars, now>>

\* A browser conversation that starts expires the stale sessions of every channel.
ExpireStaleSession(c) ==
  /\ c \in DOMAIN sessions
  /\ sessions[c].status = "AUTHORIZED"
  /\ sessions[c].expires <= now
  /\ sessions' = [sessions EXCEPT ![c].status = "EXPIRED"]
  /\ UNCHANGED <<receipts, requests, dials, reconciling, callsVars, leadsVars, now>>

=============================================================================
