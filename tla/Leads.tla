------------------------------- MODULE Leads --------------------------------
(***************************************************************************)
(* Leads and requests to hand a customer over to a person:                 *)
(* leads/service.py and database/models/lead.py.                           *)
(*                                                                         *)
(* A confirmed intake gives one lead, which bears the name of the call or  *)
(* conversation it comes from.  A handoff bears the name of its inbound    *)
(* call, which is unique, or of the idempotency key staff created it with. *)
(* Updates carry the row version they were made from; one with a stale     *)
(* version is refused, so every update below is made from the current row. *)
(***************************************************************************)
EXTENDS Tables

CONSTANTS LeadIds, HandoffIds

VARIABLES
  leads,     \* lead id -> status
  handoffs   \* handoff id -> [lead, kind, status]

leadsVars == <<leads, handoffs>>

LeadStatus == {"NEW", "CONTACTED", "QUALIFIED", "CLOSED", "ARCHIVED"}

HandoffKind == {"CALLBACK", "LIVE_TRANSFER"}

HandoffStatus == {"REQUESTED", "ACKNOWLEDGED", "COMPLETED", "CANCELLED"}

Handoff ==
  [lead : LeadIds, kind : HandoffKind, status : HandoffStatus]

LeadTransitions ==
  [NEW       |-> {"CONTACTED", "QUALIFIED", "CLOSED", "ARCHIVED"},
   CONTACTED |-> {"QUALIFIED", "CLOSED", "ARCHIVED"},
   QUALIFIED |-> {"CLOSED", "ARCHIVED"},
   CLOSED    |-> {"ARCHIVED"},
   ARCHIVED  |-> {}]

HandoffTransitions ==
  [REQUESTED    |-> {"ACKNOWLEDGED", "COMPLETED", "CANCELLED"},
   ACKNOWLEDGED |-> {"COMPLETED", "CANCELLED"},
   COMPLETED    |-> {},
   CANCELLED    |-> {}]

LeadsTypeOK ==
  /\ DOMAIN leads \subseteq LeadIds
  /\ leads \in [DOMAIN leads -> LeadStatus]
  /\ DOMAIN handoffs \subseteq HandoffIds
  /\ handoffs \in [DOMAIN handoffs -> Handoff]

LeadsInit ==
  /\ leads = Nothing
  /\ handoffs = Nothing

\* The lead that a handler adds in the transaction that confirms an intake.
AddLead(l) ==
  /\ l \notin DOMAIN leads
  /\ leads' = Put(leads, l, "NEW")

SetLeadStatus(l, status) ==
  /\ l \in DOMAIN leads
  /\ status \in LeadTransitions[leads[l]]
  /\ leads' = [leads EXCEPT ![l] = status]
  /\ UNCHANGED handoffs

\* The idempotency record of key k is written in the same transaction: a repeated request
\* finds it and returns the stored answer.  A contact method that the customer did not give
\* is refused.
CreateHandoff(k, l, kind) ==
  /\ k \notin DOMAIN handoffs
  /\ l \in DOMAIN leads
  /\ handoffs' = Put(handoffs, k, [lead |-> l, kind |-> kind, status |-> "REQUESTED"])
  /\ UNCHANGED leads

\* Staff move a handoff on.  Whether a transfer was attempted is kept with it and decides
\* nothing.
SetHandoffStatus(h, status) ==
  /\ h \in DOMAIN handoffs
  /\ status \in HandoffTransitions[handoffs[h].status]
  /\ handoffs' = [handoffs EXCEPT ![h].status = status]
  /\ UNCHANGED leads

\* Staff at work on the leads and handoffs there are.
Desk ==
  \/ \E l \in LeadIds, s \in LeadStatus : SetLeadStatus(l, s)
  \/ \E k \in HandoffIds, l \in LeadIds, kind \in HandoffKind : CreateHandoff(k, l, kind)
  \/ \E h \in HandoffIds, s \in HandoffStatus : SetHandoffStatus(h, s)
=============================================================================
