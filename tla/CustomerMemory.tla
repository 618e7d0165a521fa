--------------------------- MODULE CustomerMemory ---------------------------
(***************************************************************************)
(* What the receptionist remembers of one customer:                        *)
(* customer_memory/service.py and purge.py.                                *)
(*                                                                         *)
(* Every handler that changes the memory holds the row of the customer's   *)
(* policy, and refuses a request made from an older revision of it unless  *)
(* it repeats the last one, which changes nothing: each change below is    *)
(* made from the current state, the readback of a spoken one included.     *)
(* All browser conversations are this customer's, all WhatsApp calls come  *)
(* from one phone, and the memory is switched on for the deployment.       *)
(***************************************************************************)
EXTENDS Conversations, CustomerAccess

CONSTANTS
  FactKeys,
  Retention,  \* retention_days, in ticks
  PairTicks   \* how long a linking code is good for

VARIABLES
  policy,       \* [enabled, after]: consent, and the history_after it covers
  facts,        \* key -> [source, updated]
  summaries,    \* conversations that have a summary
  link,         \* the customer's WhatsApp identity: [verified, version], or NoLink
  pairings,     \* WhatsApp call -> [expires, consumed]
  linkedCalls,  \* calls whose binding names the customer's account
  forgotten     \* history variable: intakes confirmed before consent ended or memory was erased

memoryVars == <<policy, facts, summaries, link, pairings, linkedCalls, forgotten>>

NoSource == "customer control"

ASSUME MemoryAssumption ==
  /\ Retention \in Nat \ {0} /\ PairTicks \in Nat \ {0}
  /\ NoSource \notin Browsers \cup WhatsAppCalls

NoLink == [verified |-> Never, version |-> 0]

MemoryTypeOK ==
  /\ policy \in [enabled : BOOLEAN, after : Times]
  /\ DOMAIN facts \subseteq FactKeys
  /\ facts \in
       [DOMAIN facts -> [source : DOMAIN confirmedAt \cup {NoSource}, updated : Times]]
  /\ summaries \subseteq DOMAIN confirmedAt
  /\ link \in [verified : Times \cup {Never}, version : Nat]
  /\ DOMAIN pairings \subseteq DOMAIN bindings
  /\ pairings \in [DOMAIN pairings -> [expires : Nat, consumed : BOOLEAN]]
  /\ linkedCalls \subseteq DOMAIN bindings
  /\ forgotten \subseteq DOMAIN confirmedAt

MemoryInit ==
  /\ policy = [enabled |-> FALSE, after |-> 0]
  /\ facts = Nothing
  /\ summaries = {}
  /\ link = NoLink
  /\ pairings = Nothing
  /\ linkedCalls = {}
  /\ forgotten = {}

MemoryOnly == UNCHANGED <<conversationVars, leadsVars, accessVars, now>>

----------------------------------------------------------------------------
(* Consent. *)

\* clear_optional()
Clear == facts' = Nothing /\ summaries' = {} /\ link' = NoLink

Forget == forgotten' = forgotten \cup {c \in DOMAIN confirmedAt : confirmedAt[c] < now}

Enable ==
  /\ policy' = [policy EXCEPT !.enabled = TRUE]
  /\ IF policy.enabled THEN UNCHANGED <<facts, summaries, link>> ELSE Clear
  /\ UNCHANGED <<pairings, linkedCalls, forgotten>>
  /\ MemoryOnly

\* Mutant of Withdraw: history from before counts again once the customer consents.
WithdrawForNow ==
  /\ policy' = [policy EXCEPT !.enabled = FALSE]
  /\ IF policy.enabled THEN Clear ELSE UNCHANGED <<facts, summaries, link>>
  /\ Forget
  /\ UNCHANGED <<pairings, linkedCalls>>
  /\ MemoryOnly

Withdraw ==
  /\ policy' = [enabled |-> FALSE, after |-> now]
  /\ IF policy.enabled THEN Clear ELSE UNCHANGED <<facts, summaries, link>>
  /\ Forget
  /\ UNCHANGED <<pairings, linkedCalls>>
  /\ MemoryOnly

\* set_consent(), without a value: the consent stays as it is.
Erase ==
  /\ policy' = [policy EXCEPT !.after = now]
  /\ Clear
  /\ Forget
  /\ UNCHANGED <<pairings, linkedCalls>>
  /\ MemoryOnly

----------------------------------------------------------------------------
(* Facts and summaries. *)

\* owned_intakes(): a call once linked stays the customer's.
Owned(c) == c \in Browsers \cup linkedCalls

Covered(c) == c \in DOMAIN confirmedAt /\ Owned(c) /\ confirmedAt[c] >= policy.after

\* save(), from the memory settings: the customer's own word, or one of an intake.
Save(key, source) ==
  /\ policy.enabled
  /\ source # NoSource => Covered(source)
  /\ facts' = Put(facts, key, [source |-> source, updated |-> now])
  /\ UNCHANGED <<policy, summaries, link, pairings, linkedCalls, forgotten>>
  /\ MemoryOnly

\* The link that a recognised caller has.
Linked ==
  /\ link # NoLink
  /\ link.verified > now - Retention
  /\ link.version = factor.version
  /\ Enrolled

\* prepare() and save(), in a conversation; on WhatsApp require_whatsapp_link() as well.
Remember(c, key) ==
  /\ Live(c)
  /\ conversations[c].created >= policy.after
  /\ c \in WhatsAppCalls => Bound(c) /\ c \in linkedCalls /\ Linked
  /\ c \in DOMAIN confirmedAt
  /\ Save(key, c)

RemoveFact(key) ==
  /\ facts' = [k \in DOMAIN facts \ {key} |-> facts[k]]
  /\ UNCHANGED <<policy, summaries, link, pairings, linkedCalls, forgotten>>
  /\ MemoryOnly

\* view(), with sync_summaries(): summaries of what consent covers are made when asked for.
View ==
  /\ policy.enabled
  /\ summaries' = summaries \cup
       {c \in DOMAIN confirmedAt : Covered(c) /\ confirmedAt[c] >= now - Retention}
  /\ UNCHANGED <<policy, facts, link, pairings, linkedCalls, forgotten>>
  /\ MemoryOnly

\* purge_expired()
Purge ==
  /\ facts' = [k \in {key \in DOMAIN facts : facts[key].updated + Retention > now} |-> facts[k]]
  /\ summaries' = {c \in summaries : confirmedAt[c] + Retention > now}
  /\ link' = IF link.verified + Retention <= now THEN NoLink ELSE link
  /\ pairings' = [w \in {v \in DOMAIN pairings : pairings[v].expires > now} |-> pairings[w]]
  /\ UNCHANGED <<policy, linkedCalls, forgotten>>
  /\ MemoryOnly

----------------------------------------------------------------------------
(* Linking a WhatsApp caller. *)

\* begin_pairing(): the call's code, which takes the place of an earlier one.
BeginPairing(w) ==
  /\ Bound(w)
  /\ Live(w)
  /\ w \in DOMAIN pairings => ~pairings[w].consumed
  /\ pairings' = Put(pairings, w, [consumed |-> FALSE,
       expires |-> IF bindings[w].expires < now + PairTicks
                   THEN bindings[w].expires ELSE now + PairTicks])
  /\ UNCHANGED <<policy, facts, summaries, link, linkedCalls, forgotten>>
  /\ MemoryOnly

\* approve_pairing(), by the customer who is signed in.
ApprovePairing(w) ==
  /\ policy.enabled
  /\ Enrolled
  /\ w \in DOMAIN pairings
  /\ ~pairings[w].consumed
  /\ pairings[w].expires > now
  /\ Bound(w)
  /\ Live(w)
  /\ link' = [verified |-> now, version |-> factor.version]
  /\ linkedCalls' = linkedCalls \cup {w}
  /\ pairings' = [pairings EXCEPT ![w].consumed = TRUE]
  /\ UNCHANGED <<policy, facts, summaries, forgotten>>
  /\ MemoryOnly

Unlink ==
  /\ link' = NoLink
  /\ UNCHANGED <<policy, facts, summaries, pairings, linkedCalls, forgotten>>
  /\ MemoryOnly

\* whatsapp_actor(): the tools of a call find out whose it is.
Recognise(w) ==
  /\ Bound(w)
  /\ Linked
  /\ policy.enabled
  /\ Live(w)
  /\ conversations[w].created >= policy.after
  /\ linkedCalls' = linkedCalls \cup {w}
  /\ UNCHANGED <<policy, facts, summaries, link, pairings, forgotten>>
  /\ MemoryOnly

MemoryNext ==
  \/ Enable \/ Withdraw \/ Erase \/ View \/ Purge \/ Unlink
  \/ \E key \in FactKeys :
       \/ RemoveFact(key)
       \/ \E source \in DOMAIN confirmedAt \cup {NoSource} : Save(key, source)
       \/ \E c \in DOMAIN conversations : Remember(c, key)
  \/ \E w \in DOMAIN bindings : BeginPairing(w) \/ ApprovePairing(w) \/ Recognise(w)

\* The customer's memory, while conversations and calls come and go, the customer signs in and
\* loses authenticators, staff work on the leads, and the clock runs.
MemorySpec ==
  /\ now = 0 /\ ConversationsInit /\ LeadsInit /\ AccessInit /\ MemoryInit
  /\ [][\/ MemoryNext
        \/ ConversationsNext /\ UNCHANGED <<accessVars, memoryVars>>
        \/ AccessNext /\ UNCHANGED <<conversationVars, leadsVars, memoryVars>>
        \/ Desk /\ UNCHANGED <<conversationVars, accessVars, memoryVars, now>>
        \/ Tick /\ UNCHANGED <<conversationVars, leadsVars, accessVars, memoryVars>>
       ]_<<conversationVars, leadsVars, accessVars, memoryVars, now>>

----------------------------------------------------------------------------
(* Properties. *)

\* What was confirmed before the customer withdrew consent, or had the memory erased, is never
\* remembered again, and nothing is remembered without consent (service.py, set_consent,
\* sync_summaries and prepare).
ForgottenStaysForgotten ==
  /\ summaries \cap forgotten = {}
  /\ \A key \in DOMAIN facts : facts[key].source \notin forgotten
  /\ ~policy.enabled => facts = Nothing /\ summaries = {} /\ link = NoLink
=============================================================================
