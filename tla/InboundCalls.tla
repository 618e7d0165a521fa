---------------------------- MODULE InboundCalls ----------------------------
(***************************************************************************)
(* Inbound calls of one agency: telephony/service.py.  Reception under the *)
(* agency's policy, the state machine of a call, and the callback that a   *)
(* linked lead confirms.                                                   *)
(*                                                                         *)
(* Reception holds the row of the policy, an event the row of its call,    *)
(* until the transaction ends; each is one step here.                      *)
(*                                                                         *)
(* A Twilio call is named by its source reference, a SIP call by the       *)
(* conversation that initiates it, so the webhook of a call in the table   *)
(* is a repetition: it is answered, or refused when it contradicts what is *)
(* stored, and changes nothing.  Staff use the development routes to       *)
(* simulate calls of the "development" adapter, with times of their choice;*)
(* their events and links are accepted on the calls of every adapter.      *)
(***************************************************************************)
EXTENDS Leads

CONSTANTS
  Calls,
  Adapters,      \* Adapters[c]: the adapters that may report call c
  Policies,      \* the call policies the agency may save
  SimulatedTimes \* the times staff give to simulated calls and to their events

PolicyType ==
  [enabled    : BOOLEAN,     \* inbound_enabled
   concurrent : Nat,         \* max_concurrent_calls
   daily      : Nat,         \* daily_call_limit
   transfer   : BOOLEAN,     \* transfer_enabled
   callback   : BOOLEAN,     \* callback_fallback_enabled
   staffed    : SUBSET Nat]  \* the ticks inside the availability windows

AdapterName == {"twilio", "telnyx_sip", "development"}

ASSUME CallsAssumption == Calls \subseteq LeadIds /\ Calls \subseteq HandoffIds
ASSUME AdaptersAssumption == Adapters \in [Calls -> SUBSET AdapterName]
ASSUME TimesAssumption == SimulatedTimes \subseteq Times
ASSUME PoliciesAssumption == Policies \subseteq PolicyType

VARIABLES
  policy,        \* the agency's current policy
  numberActive,  \* the agency's inbound number is ACTIVE
  calls,         \* calls accepted so far
  callEvents     \* events stored with a call: [call, key, type, action]

callsVars == <<policy, numberActive, calls, callEvents>>

ActiveCallStatuses == {"RECEIVED", "CONNECTED", "TRANSFER_PENDING", "CALLBACK_PENDING"}
TerminalCallStatuses == {"TRANSFERRED", "CALLBACK_REQUESTED", "COMPLETED", "FAILED"}
CallStatus == ActiveCallStatuses \cup TerminalCallStatuses

EventType == {"ANSWERED", "TRANSFER_REQUESTED", "CALLBACK_REQUESTED", "TRANSFER_SUCCEEDED",
              "TRANSFER_FAILED", "CALL_ENDED", "PROVIDER_FAILED"}

NoLead == "no lead"

ASSUME NoLeadAssumption == NoLead \notin LeadIds

Call == [adapter : AdapterName, status : CallStatus, received : Nat, lead : LeadIds \cup {NoLead},
         transfer : BOOLEAN, callback : BOOLEAN, staffed : SUBSET Nat]

CallsTypeOK ==
  /\ policy \in Policies
  /\ numberActive \in BOOLEAN
  /\ DOMAIN calls \subseteq Calls
  /\ calls \in [DOMAIN calls -> Call]
  /\ \A e \in callEvents : e.call \in DOMAIN calls

CallsInit ==
  /\ policy \in Policies
  /\ numberActive = TRUE
  /\ calls = Nothing
  /\ callEvents = {}

\* The calls that require_phone_call() of phone_service.py finds.
PhoneCalls == {c \in DOMAIN calls : calls[c].adapter # "development"}

----------------------------------------------------------------------------
(* Policy and number. *)

\* Calls in progress keep the policy they were accepted under.
ReplacePolicy(p) ==
  /\ policy' = p
  /\ UNCHANGED <<numberActive, calls, callEvents, leadsVars, now>>

SetNumberStatus(active) ==
  /\ numberActive' = active
  /\ UNCHANGED <<policy, calls, callEvents, leadsVars, now>>

----------------------------------------------------------------------------
(* Reception. *)

ActiveCalls == {c \in DOMAIN calls : calls[c].status \in ActiveCallStatuses}

ReceivedSince(t) == {c \in DOMAIN calls : calls[c].received >= t}

\* Mutant of WithinLimits: only calls that wait for an answer count.
WithinLimitsOfWaiting(at) ==
  /\ Cardinality({c \in ActiveCalls : calls[c].status = "RECEIVED"}) < policy.concurrent
  /\ Cardinality(ReceivedSince(DayOf(at) * DayLength)) < policy.daily

\* enforce_call_limits(): the day is the UTC day of the new call.
WithinLimits(at) ==
  /\ Cardinality(ActiveCalls) < policy.concurrent
  /\ Cardinality(ReceivedSince(DayOf(at) * DayLength)) < policy.daily

\* A new call, with what it keeps of the policy.  Telnyx SIP calls cannot be transferred.
NewCall(adapter, at) ==
  [adapter |-> adapter, status |-> "RECEIVED", received |-> at, lead |-> NoLead,
   transfer |-> policy.transfer /\ adapter # "telnyx_sip",
   callback |-> policy.callback,
   staffed |-> policy.staffed]

\* _receive_call(): the provider's clock, or a time that staff give.
Receive(c, adapter, at) ==
  /\ c \notin DOMAIN calls
  /\ adapter \in Adapters[c]
  /\ IF adapter = "development" THEN at \in SimulatedTimes ELSE at = now
  /\ numberActive
  /\ policy.enabled
  /\ WithinLimits(at)
  /\ calls' = Put(calls, c, NewCall(adapter, at))
  /\ UNCHANGED <<policy, numberActive, callEvents, leadsVars, now>>

----------------------------------------------------------------------------
(* The state machine of a call: transition_call(). *)

\* require_call_status(): where each event is accepted.
EventsAllowedIn ==
  [ANSWERED           |-> {"RECEIVED"},
   TRANSFER_REQUESTED |-> {"CONNECTED"},
   CALLBACK_REQUESTED |-> {"CONNECTED"},
   TRANSFER_SUCCEEDED |-> {"TRANSFER_PENDING"},
   TRANSFER_FAILED    |-> {"TRANSFER_PENDING"},
   CALL_ENDED         |-> {"RECEIVED", "CONNECTED", "CALLBACK_PENDING",
                           "CALLBACK_REQUESTED"},
   PROVIDER_FAILED    |-> ActiveCallStatuses]

\* is_staff_available() at the time the event gives, and transfers switched on.
MayTransfer(call, at) == call.transfer /\ at \in call.staffed

\* Where an event leads that can end in collecting a callback.
Fallback(call) == IF call.callback THEN "CALLBACK_PENDING" ELSE "CONNECTED"

\* Mutant of StatusAfter: a call that ends while a callback is collected claims success.
StatusAfterAsIfComplete(call, type, at) ==
  CASE type = "ANSWERED" -> "CONNECTED"
    [] type = "TRANSFER_REQUESTED" ->
         IF MayTransfer(call, at) THEN "TRANSFER_PENDING" ELSE Fallback(call)
    [] type \in {"CALLBACK_REQUESTED", "TRANSFER_FAILED"} -> Fallback(call)
    [] type = "TRANSFER_SUCCEEDED" -> "TRANSFERRED"
    [] type = "CALL_ENDED" ->
         IF call.status = "CALLBACK_PENDING" THEN "CALLBACK_REQUESTED" ELSE "COMPLETED"
    [] type = "PROVIDER_FAILED" -> "FAILED"

StatusAfter(call, type, at) ==
  CASE type = "ANSWERED" -> "CONNECTED"
    [] type = "TRANSFER_REQUESTED" ->
         IF MayTransfer(call, at) THEN "TRANSFER_PENDING" ELSE Fallback(call)
    [] type \in {"CALLBACK_REQUESTED", "TRANSFER_FAILED"} -> Fallback(call)
    [] type = "TRANSFER_SUCCEEDED" -> "TRANSFERRED"
    [] type = "CALL_ENDED" ->
         CASE call.status = "CALLBACK_PENDING" -> "FAILED"
           [] call.status = "CALLBACK_REQUESTED" -> "CALLBACK_REQUESTED"
           [] OTHER -> "COMPLETED"
    [] type = "PROVIDER_FAILED" -> "FAILED"

\* The directive that is answered and stored with the event, given where the event led.
Directive(status) ==
  CASE status = "TRANSFER_PENDING" -> "TRANSFER"
    [] status = "CALLBACK_PENDING" -> "COLLECT_CALLBACK"
    [] status = "CONNECTED" -> "CONTINUE_AI"
    [] OTHER -> "END"

EventsOf(c) == {e \in callEvents : e.call = c}

Stored(c, key) == \E e \in EventsOf(c) : e.key = key

\* What an event does that is accepted: the call moves on and the event is stored.
Transition(c, type, at) ==
  /\ calls[c].status \in EventsAllowedIn[type]
  /\ at >= calls[c].received
  /\ calls' = [calls EXCEPT ![c].status = StatusAfter(calls[c], type, at)]
  /\ UNCHANGED <<policy, numberActive>>

Event(c, key, type) ==
  [call |-> c, key |-> key, type |-> type, action |-> Directive(calls'[c].status)]

\* apply_provider_event(): a stored key is answered from the store and changes nothing.
ApplyEvent(c, key, type, at) ==
  /\ ~Stored(c, key)
  /\ Transition(c, type, at)
  /\ callEvents' = callEvents \cup {Event(c, key, type)}

\* The events of which something is read after the call.
ReadAfterCall ==
  {"TRANSFER_REQUESTED", "TRANSFER_FAILED", "TRANSFER_SUCCEEDED", "CALLBACK_REQUESTED"}

\* apply_event(), on a call of any adapter.  Staff give each event a fresh key and a time of
\* their choice; the model has one key for all of theirs, and keeps of them what is read later,
\* types and actions on phone calls.
StaffEvent(c, type, at) ==
  /\ c \in DOMAIN calls
  /\ Transition(c, type, at)
  /\ callEvents' = callEvents \cup
       {e \in {Event(c, "staff", type)} : c \in PhoneCalls /\ type \in ReadAfterCall}
  /\ UNCHANGED <<leadsVars, now>>

\* The handoff of call c, written by the transaction that has its lead.
CallHandoff(c, l, kind, status) ==
  /\ c \notin DOMAIN handoffs
  /\ handoffs' = Put(handoffs, c, [lead |-> l, kind |-> kind, status |-> status])

\* link_lead(), on a call of any adapter: a lead of the agency completes a callback that is being
\* collected, unless the call has its handoff.  Nothing reads the event that it stores.
LinkLead(c, l) ==
  /\ c \in DOMAIN calls
  /\ calls[c].lead = NoLead
  /\ l \in DOMAIN leads
  /\ \/ /\ calls[c].status = "CALLBACK_PENDING"
        /\ CallHandoff(c, l, "CALLBACK", "REQUESTED")
        /\ calls' = [calls EXCEPT ![c].lead = l, ![c].status = "CALLBACK_REQUESTED"]
     \/ /\ calls[c].status \in {"RECEIVED", "CONNECTED"}
        /\ calls' = [calls EXCEPT ![c].lead = l]
        /\ UNCHANGED handoffs
  /\ UNCHANGED <<policy, numberActive, callEvents, leads, now>>
=============================================================================
