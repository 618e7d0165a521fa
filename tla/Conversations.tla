--------------------------- MODULE Conversations ----------------------------
(***************************************************************************)
(* Conversations in the browser and on WhatsApp: conversations/service.py, *)
(* the gate of conversations/booking.py and whatsapp/service.py.           *)
(*                                                                         *)
(* Starting a conversation holds the agency's row, so that starts happen   *)
(* one after the other; the voice provider is asked between two            *)
(* transactions, and a handler that dies there leaves the conversation     *)
(* REQUESTING until it is stale.  A conversation is named by its row, and  *)
(* so is the lead of its intake; a WhatsApp call bears the name of the     *)
(* conversation it may lead to.                                            *)
(*                                                                         *)
(* Conversations on the phone are in the same table.  Nothing limits them, *)
(* but the others wait for their end and count them, so they are here with *)
(* what that takes: how they begin and end is in PhoneReceptionist.        *)
(***************************************************************************)
EXTENDS Leads

CONSTANTS
  Browsers,        \* conversations that may start in the browser
  WhatsAppCalls,
  PhoneSessions,   \* conversations that may start on the phone
  SessionLength,   \* conversation_max_duration_seconds, in ticks
  ConfirmWindow,   \* conversation_confirmation_window_minutes, in ticks
  DailyLimit       \* conversation_daily_session_limit

ASSUME ConversationsAssumption ==
  /\ Browsers \cap WhatsAppCalls = {}
  /\ Browsers \cup WhatsAppCalls \subseteq LeadIds \cap HandoffIds
  /\ IsFiniteSet(PhoneSessions)
  /\ SessionLength \in Nat \ {0} /\ ConfirmWindow \in Nat \ {0} /\ DailyLimit \in Nat

VARIABLES
  conversations, \* id -> [status, created, expires, window, authorized, ended]
  bindings,      \* WhatsApp call -> [initialized, expires, finalized]
  confirmedAt,   \* intakes: the conversation -> when it was confirmed
  phones         \* conversation on the phone -> [authorized, until], until its time or its end

conversationVars == <<conversations, bindings, confirmedAt, phones>>

ConversationStatus ==
  {"REQUESTING", "AUTHORIZED", "REVIEW_PENDING", "CONFIRMED", "FAILED", "EXPIRED"}

ActiveStatuses == {"REQUESTING", "AUTHORIZED"}

Never == -1

Conversation ==
  [status : ConversationStatus, created : Times, expires : Nat, window : Nat,
   authorized : Times \cup {Never}, ended : BOOLEAN]

ConversationsTypeOK ==
  /\ DOMAIN conversations \subseteq Browsers \cup WhatsAppCalls
  /\ conversations \in [DOMAIN conversations -> Conversation]
  /\ DOMAIN bindings \subseteq WhatsAppCalls
  /\ bindings \in
       [DOMAIN bindings -> [initialized : Times, expires : Nat, finalized : BOOLEAN]]
  /\ DOMAIN confirmedAt \subseteq DOMAIN leads \cap DOMAIN conversations
  /\ \A c \in DOMAIN confirmedAt : confirmedAt[c] \in Times
  /\ DOMAIN phones \subseteq PhoneSessions
  /\ phones \in [DOMAIN phones -> [authorized : Times, until : Nat]]

ConversationsInit ==
  /\ conversations = Nothing
  /\ bindings = Nothing
  /\ confirmedAt = Nothing
  /\ phones = Nothing

----------------------------------------------------------------------------
(* Limits. *)

\* _expire_stale_sessions()
WithoutStale ==
  [c \in DOMAIN conversations |->
     IF conversations[c].status \in ActiveStatuses /\ conversations[c].expires <= now
     THEN [conversations[c] EXCEPT !.status = "EXPIRED"] ELSE conversations[c]]

\* The rows that _enforce_concurrency_limit() looks for.
Occupying(table) ==
  {c \in DOMAIN table :
     /\ \/ table[c].status \in ActiveStatuses
        \/ table[c].status = "CONFIRMED" /\ ~table[c].ended
     /\ table[c].expires > now}

Today == DayOf(now) * DayLength

AuthorizedToday == {c \in DOMAIN conversations : conversations[c].authorized >= Today}

PhonesToday == {p \in DOMAIN phones : phones[p].authorized >= Today}

NobodyTalks ==
  /\ Occupying(conversations) = {}
  /\ \A p \in DOMAIN phones : phones[p].until <= now

\* _enforce_concurrency_limit() and _enforce_daily_limit()
Free ==
  /\ NobodyTalks
  /\ Cardinality(AuthorizedToday) + Cardinality(PhonesToday) < DailyLimit

----------------------------------------------------------------------------
(* ConversationService. *)

\* authorize_session(), first transaction.
Authorize(c) ==
  /\ c \in Browsers \ DOMAIN conversations
  /\ Free
  /\ conversations' = Put(WithoutStale, c,
       [status |-> "REQUESTING", created |-> now, expires |-> now + SessionLength,
        window |-> now + ConfirmWindow, authorized |-> Never, ended |-> FALSE])
  /\ UNCHANGED <<bindings, confirmedAt, phones, leadsVars, now>>

\* Mutant of Grant: the provider's answer is stored whatever became of the conversation.
GrantAnyway(c) ==
  /\ c \in DOMAIN conversations
  /\ conversations[c].authorized = Never
  /\ conversations' = [conversations EXCEPT ![c].status = "AUTHORIZED", ![c].authorized = now]
  /\ UNCHANGED <<bindings, confirmedAt, phones, leadsVars, now>>

\* authorize_session(), when the provider has granted its credential.
Grant(c) ==
  /\ c \in DOMAIN conversations
  /\ conversations[c].status = "REQUESTING"
  /\ conversations[c].expires > now
  /\ conversations' = [conversations EXCEPT ![c].status = "AUTHORIZED", ![c].authorized = now]
  /\ UNCHANGED <<bindings, confirmedAt, phones, leadsVars, now>>

\* authorize_session(), when the provider has refused: the conversation fails, closed or not.
ProviderRefuses(c) ==
  /\ c \in DOMAIN conversations
  /\ conversations[c].authorized = Never
  /\ conversations' = [conversations EXCEPT ![c].status = "FAILED", ![c].ended = TRUE]
  /\ UNCHANGED <<bindings, confirmedAt, phones, leadsVars, now>>

\* The row after end_session() with outcome COMPLETED.
Completed(row) ==
  CASE row.status = "AUTHORIZED" ->
         [row EXCEPT !.ended = TRUE,
            !.status = IF now > row.authorized + SessionLength
                       THEN "EXPIRED" ELSE "REVIEW_PENDING"]
    [] row.status = "CONFIRMED" -> [row EXCEPT !.ended = TRUE]
    [] OTHER -> row

\* The row after end_session() with outcome INTERRUPTED or FAILED.
Abandoned(row) ==
  CASE row.status \in ActiveStatuses -> [row EXCEPT !.ended = TRUE, !.status = "FAILED"]
    [] row.status \in {"EXPIRED", "CONFIRMED"} -> [row EXCEPT !.ended = TRUE]
    [] OTHER -> row

EndSession(c) ==
  /\ c \in DOMAIN conversations
  /\ conversations[c].window > now
  /\ \E row \in {Completed(conversations[c]), Abandoned(conversations[c])} :
       conversations' = [conversations EXCEPT ![c] = row]
  /\ UNCHANGED <<bindings, confirmedAt, phones, leadsVars, now>>

\* What the tools of a conversation require: require_live_session() and others like it.
Live(c) ==
  /\ c \in DOMAIN conversations
  /\ conversations[c].status \in {"AUTHORIZED", "CONFIRMED"}
  /\ ~conversations[c].ended
  /\ conversations[c].expires > now

\* confirm_intake(), on the review screen or while the caller speaks.  A repetition finds the
\* idempotency record, or is refused.
ConfirmIntake(c) ==
  /\ c \in DOMAIN conversations
  /\ conversations[c].window > now
  /\ \/ conversations[c].status = "REVIEW_PENDING"
     \/ conversations[c].status = "AUTHORIZED" /\ Live(c)
  /\ AddLead(c)
  /\ conversations' = [conversations EXCEPT ![c].status = "CONFIRMED"]
  /\ confirmedAt' = Put(confirmedAt, c, now)
  /\ UNCHANGED <<bindings, phones, handoffs, now>>

----------------------------------------------------------------------------
(* WhatsAppService. *)

\* initialize(): every call counts against the daily limit, whether it gets a session or not.
Initialize(w) ==
  /\ w \in WhatsAppCalls \ DOMAIN bindings
  /\ NobodyTalks
  /\ \A v \in DOMAIN bindings : bindings[v].expires <= now \/ bindings[v].finalized
  /\ Cardinality({v \in DOMAIN bindings : bindings[v].initialized >= Today})
       + Cardinality(AuthorizedToday \cap Browsers) + Cardinality(PhonesToday) < DailyLimit
  /\ conversations' = WithoutStale
  /\ bindings' = Put(bindings, w,
       [initialized |-> now, expires |-> now + SessionLength, finalized |-> FALSE])
  /\ UNCHANGED <<confirmedAt, phones, leadsVars, now>>

\* require_active_binding()
Bound(w) == w \in DOMAIN bindings /\ ~bindings[w].finalized /\ bindings[w].expires > now

\* Mutant of Consent: initialize() has checked the limits.
ConsentAtOnce(w) ==
  /\ Bound(w)
  /\ w \notin DOMAIN conversations
  /\ conversations' = Put(WithoutStale, w,
       [status |-> "AUTHORIZED", created |-> now, expires |-> bindings[w].expires,
        window |-> bindings[w].expires, authorized |-> now, ended |-> FALSE])
  /\ UNCHANGED <<bindings, confirmedAt, phones, leadsVars, now>>

\* consent(): a browser conversation may have started since the call was initialized.  A
\* repetition finds the session.
Consent(w) ==
  /\ Bound(w)
  /\ w \notin DOMAIN conversations
  /\ Free
  /\ conversations' = Put(WithoutStale, w,
       [status |-> "AUTHORIZED", created |-> now, expires |-> bindings[w].expires,
        window |-> bindings[w].expires, authorized |-> now, ended |-> FALSE])
  /\ UNCHANGED <<bindings, confirmedAt, phones, leadsVars, now>>

\* callback(), after it has confirmed the intake or found it confirmed; the call may end in
\* between.
RequestCallback(w) ==
  /\ w \in WhatsAppCalls
  /\ CreateHandoff(w, w, "CALLBACK")
  /\ UNCHANGED <<conversationVars, now>>

\* finalize(): the post-call webhook, repeated or not.
Finalize(w) ==
  /\ w \in DOMAIN bindings
  /\ ~bindings[w].finalized
  /\ bindings' = [bindings EXCEPT ![w].finalized = TRUE]
  /\ conversations' = IF w \notin DOMAIN conversations THEN conversations
       ELSE [conversations EXCEPT ![w].ended = TRUE,
               ![w].status = IF @ = "CONFIRMED" THEN @ ELSE "FAILED"]
  /\ UNCHANGED <<confirmedAt, phones, leadsVars, now>>

----------------------------------------------------------------------------
(* PhoneReceptionistService, as far as the limits see it. *)

\* accept_consent(): no limit is asked.  The time of a call on SIP has begun with the call.
PhoneBegins(p, until) ==
  /\ p \in PhoneSessions \ DOMAIN phones
  /\ until \in now + 1..now + SessionLength
  /\ phones' = Put(phones, p, [authorized |-> now, until |-> until])
  /\ UNCHANGED <<conversations, bindings, confirmedAt, leadsVars, now>>

\* The post-call report, with or without an intake, or the report of a failed initiation: the
\* session is CONFIRMED and ended, or FAILED.
PhoneEnds(p) ==
  /\ p \in DOMAIN phones
  /\ phones[p].until > now
  /\ phones' = [phones EXCEPT ![p].until = now]
  /\ UNCHANGED <<conversations, bindings, confirmedAt, leadsVars, now>>

ConversationsNext ==
  \/ \E c \in Browsers :
       Authorize(c) \/ Grant(c) \/ ProviderRefuses(c)
  \/ \E c \in DOMAIN conversations : EndSession(c) \/ ConfirmIntake(c)
  \/ \E w \in WhatsAppCalls :
       Initialize(w) \/ Consent(w) \/ RequestCallback(w) \/ Finalize(w)
  \/ \E p \in PhoneSessions :
       (\E until \in now + 1..now + SessionLength : PhoneBegins(p, until)) \/ PhoneEnds(p)

\* Conversations by themselves, while staff work on the leads and the clock runs.
ConversationsSpec ==
  /\ now = 0 /\ ConversationsInit /\ LeadsInit
  /\ [][\/ ConversationsNext
        \/ Desk /\ UNCHANGED <<conversationVars, now>>
        \/ Tick /\ UNCHANGED <<conversationVars, leadsVars>>]_<<conversationVars, leadsVars, now>>

----------------------------------------------------------------------------
(* Properties. *)

\* Of the browser's and WhatsApp's conversations one at a time holds the agency's place, and no
\* day sees more of them admitted than the limit, though the provider and a caller's consent
\* come in between, and conversations on the phone, which nothing limits, at any time
\* (conversations/service.py, authorize_session; whatsapp/service.py, consent).
ConversationLimits ==
  /\ Cardinality(Occupying(conversations)) <= 1
  /\ \A d \in 0..DayOf(MaxTime) :
       Cardinality({c \in DOMAIN conversations :
                      conversations[c].authorized # Never
                        /\ DayOf(conversations[c].authorized) = d}) <= DailyLimit

\* A conversation that ended, failed or expired gets no authorization any more, and no intake is
\* confirmed in one that failed or expired, whatever answer is late (conversations/service.py,
\* authorize_session and confirm_intake).
ClosedStaysClosed ==
  [][\A c \in DOMAIN conversations :
       LET row == conversations[c]
       IN /\ row.ended \/ row.status \in {"FAILED", "EXPIRED"} =>
               conversations'[c].status \notin ActiveStatuses
          /\ row.status \in {"FAILED", "EXPIRED"} =>
               conversations'[c].status # "CONFIRMED"]_conversations
=============================================================================
