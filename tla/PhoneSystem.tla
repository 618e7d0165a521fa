---------------------------- MODULE PhoneSystem -----------------------------
(***************************************************************************)
(* Inbound calls, the phone receptionist and the work of staff on leads    *)
(* and handoffs, together.                                                 *)
(***************************************************************************)
EXTENDS PhoneReceptionist

Init == PhoneInit

Advance == Tick /\ UNCHANGED <<phoneVars, callsVars, leadsVars>>

Administration ==
  /\ \/ \E p \in Policies \ {policy} : ReplacePolicy(p)
     \/ \E b \in BOOLEAN \ {numberActive} : SetNumberStatus(b)
  /\ UNCHANGED phoneVars

Reception ==
  /\ \E c \in Calls, adapter \in AdapterName, at \in Times : Receive(c, adapter, at)
  /\ UNCHANGED phoneVars

StaffOnCalls ==
  /\ \/ \E c \in Calls, type \in EventType, at \in SimulatedTimes : StaffEvent(c, type, at)
     \/ \E c \in Calls, l \in LeadIds : LinkLead(c, l)
  /\ UNCHANGED phoneVars

Tools ==
  \E c \in PhoneCalls :
    \/ RegistrationFails(c) \/ AcceptConsent(c) \/ Answer(c) \/ ConfirmIntake(c)
    \/ \E kind \in HandoffKind : AskForPerson(c, kind)
    \/ RequestCallback(c) \/ RequestTransfer(c)

Transfers ==
  \E c \in PhoneCalls :
    \/ CommandTransfer(c) \/ LoseTransferCommand(c) \/ RefuseTransferCommand(c)
    \/ \E result \in {"answered", "missed"} : DialEnds(c, result)
    \/ TransferResult(c) \/ Reconcile(c)

PostCall ==
  \E c \in PhoneCalls :
    \/ \E at \in 0..now : EndUnconfirmed(c, at) \/ Materialize(c, at)
    \/ InitiationFailure(c)
    \/ ExpireStaleSession(c)

\* Staff work on the handoffs; what they do with leads, and with handoffs that no call gave
\* rise to, meets nothing here.
Staff ==
  /\ \E h \in HandoffIds, s \in HandoffStatus : SetHandoffStatus(h, s)
  /\ UNCHANGED <<phoneVars, callsVars, now>>

Next ==
  \/ Advance \/ Administration \/ Reception \/ StaffOnCalls
  \/ Tools \/ Transfers \/ PostCall \/ Staff

Spec == Init /\ [][Next]_allVars

----------------------------------------------------------------------------
(* Properties. *)

\* Every row has the values that the tables of models/telephony.py, models/lead.py and
\* models/conversation.py allow, and rows refer to rows that exist.
TypeOK == PhoneTypeOK

\* Whenever a call starts to occupy a place, by its reception or by any later event, the
\* agency's policy allows that many calls at a time, and that many on the call's day
\* (telephony/service.py, enforce_call_limits).
LimitsAreKept ==
  [][\A c \in Calls :
       (c \in ActiveCalls' /\ c \notin ActiveCalls) =>
          /\ Cardinality(ActiveCalls') <= policy.concurrent
          /\ Cardinality({d \in DOMAIN calls' : DayOf(calls'[d].received)
                                                  = DayOf(calls'[c].received)})
               <= policy.daily]_allVars

\* A call that is over stays over, and one that failed stays failed, whatever report arrives
\* late (telephony/service.py, transition_call; phone_service.py, finish_call).
EndedStaysEnded ==
  [][\A c \in DOMAIN calls \ ActiveCalls :
       /\ c \notin ActiveCalls'
       /\ calls[c].status = "FAILED" => calls'[c].status = "FAILED"]_allVars

\* A confirmed readback becomes a lead exactly when the post-call report is processed: no
\* lead without a receipt, none lost with the session that expired or failed meanwhile
\* (phone_service.py, finalize_post_call).
ReceiptsBecomeLeads ==
  \A c \in PhoneCalls :
    /\ c \in DOMAIN leads <=> (c \in receipts /\ Stored(c, "post-call"))
    /\ c \in DOMAIN leads <=> (c \in DOMAIN sessions /\ sessions[c].status = "CONFIRMED")
    /\ c \in DOMAIN leads => calls[c].lead = c

\* The caller was told that a callback is booked only if staff have the handoff, with the
\* lead of that call (phone_service.py, _materialize_confirmed_intake; telephony/service.py,
\* link_lead).
CallbackIsBooked ==
  \A c \in DOMAIN calls :
    calls[c].status = "CALLBACK_REQUESTED" =>
      /\ calls[c].lead \in DOMAIN leads
      /\ c \in DOMAIN handoffs
      /\ handoffs[c].lead = calls[c].lead
      /\ handoffs[c].kind = "CALLBACK"

\* What Twilio said of call c's transfer, as far as it is stored.
Reported(c, type) == \E e \in EventsOf(c) : e.key = "transfer-result" /\ e.type = type

\* Unless its report is being processed, the result Twilio reported is in the handoff, whether
\* report, post-call webhook or a callback that staff linked came first, and whatever staff say
\* of the call: a failed transfer is a callback, a successful one is completed
\* (phone_service.py, apply_transfer_result and _materialize_confirmed_intake).
ResultReachesHandoff ==
  \A c \in DOMAIN handoffs \ reconciling :
    /\ Reported(c, "TRANSFER_FAILED") => handoffs[c].kind = "CALLBACK"
    /\ Reported(c, "TRANSFER_SUCCEEDED") => handoffs[c].status = "COMPLETED"

\* Once the post-call report is processed a call occupies a place only on account of a
\* transfer (phone_service.py, finish_call and its callers).
PlaceIsReturned ==
  \A c \in ActiveCalls :
    Stored(c, "post-call") => TransferAttempted(c)

\* "`COMPLETED` and `CANCELLED` are terminal" (docs/lead-handoff-api.md): a handoff that staff
\* have dealt with is not opened again.
HandledStaysHandled ==
  [][\A h \in DOMAIN handoffs :
       handoffs[h].status \in {"COMPLETED", "CANCELLED"} =>
         handoffs'[h].status = handoffs[h].status]_allVars
=============================================================================
