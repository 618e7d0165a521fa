------------------------ MODULE Conversations_proofs ------------------------
(***************************************************************************)
(* Proofs about Conversations and CustomerMemory: types, that one          *)
(* conversation holds the agency's place and no day admits too many, that  *)
(* what is closed stays closed, and what is forgotten stays forgotten.     *)
(* The memory implements both of the services that it works beside.        *)
(***************************************************************************)
EXTENDS CustomerMemory, CustomerAccess_proofs, FiniteSetTheorems, TLAPS

\* A step of ConversationsSpec.
TalkSteps ==
  \/ ConversationsNext
  \/ Desk /\ UNCHANGED <<conversationVars, now>>
  \/ Tick /\ UNCHANGED <<conversationVars, leadsVars>>

talkVars == <<conversationVars, leadsVars, now>>

\* A conversation on the phone begins or ends.
PhoneStep ==
  \E p \in PhoneSessions :
    (\E until \in now + 1..now + SessionLength : PhoneBegins(p, until)) \/ PhoneEnds(p)

Typed ==
  /\ ConversationsTypeOK
  /\ now \in Times
  /\ IsFiniteSet(DOMAIN conversations)

----------------------------------------------------------------------------
(* Rows: what a handler makes of one conversation. *)

\* A row that takes the agency's place as long as it has not expired.
Holds(row) == row.status \in ActiveStatuses \/ (row.status = "CONFIRMED" /\ ~row.ended)

\* What has ended is not active, what was not granted was not authorized, and the caller of a
\* conversation under review has left it.
RowOK(row) ==
  /\ row \in Conversation
  /\ row.ended => row.status \notin ActiveStatuses
  /\ row.status = "REQUESTING" => row.authorized = Never
  /\ row.status = "REVIEW_PENDING" => row.ended

\* The changes that take no place and authorize nothing.
RowMoves(old, new) ==
  /\ RowOK(new)
  /\ new.expires = old.expires
  /\ new.authorized = old.authorized
  /\ Holds(new) => Holds(old)
  /\ new.status = "REQUESTING" => old.status = "REQUESTING"
  /\ old.ended \/ old.status \in {"FAILED", "EXPIRED"} => new.status \notin ActiveStatuses
  /\ old.status \in {"FAILED", "EXPIRED"} => new.status # "CONFIRMED"

\* A row that stays, that a later start finds stale, that the provider refuses, or that the
\* webhook of a call finalizes.
LEMMA RowsClose ==
  ASSUME NEW row, RowOK(row)
  PROVE  /\ RowMoves(row, row)
         /\ row.status \in ActiveStatuses => RowMoves(row, [row EXCEPT !.status = "EXPIRED"])
         /\ RowMoves(row, [row EXCEPT !.status = "FAILED", !.ended = TRUE])
         /\ row.status = "CONFIRMED" => RowMoves(row, [row EXCEPT !.ended = TRUE])
  BY DEF RowOK, RowMoves, Holds, Conversation, ConversationStatus, ActiveStatuses

\* A row that its caller completes, or leaves.
LEMMA RowsEnd ==
  ASSUME NEW row, RowOK(row)
  PROVE  RowMoves(row, Completed(row)) /\ RowMoves(row, Abandoned(row))
<1>1. RowMoves(row, Completed(row))
  BY DEF RowOK, RowMoves, Holds, Conversation, ConversationStatus, ActiveStatuses, Completed
<1>2. RowMoves(row, Abandoned(row))
  BY DEF RowOK, RowMoves, Holds, Conversation, ConversationStatus, ActiveStatuses, Abandoned
<1> QED
  BY <1>1, <1>2

\* A row whose intake is confirmed, under review or while the caller speaks.
LEMMA RowsConfirm ==
  ASSUME NEW row, RowOK(row),
         row.status = "REVIEW_PENDING" \/ (row.status = "AUTHORIZED" /\ ~row.ended)
  PROVE  RowMoves(row, [row EXCEPT !.status = "CONFIRMED"])
  BY DEF RowOK, RowMoves, Holds, Conversation, ConversationStatus, ActiveStatuses

----------------------------------------------------------------------------
(* TalkSteps, as three kinds of change to the table. *)

RowsOK == \A c \in DOMAIN conversations : RowOK(conversations[c])

\* Nobody is admitted: the clock runs, a row moves on, or stale rows expire.
Quiet ==
  /\ now <= now'
  /\ conversations' \in [DOMAIN conversations -> Conversation]
  /\ \A c \in DOMAIN conversations : RowMoves(conversations[c], conversations'[c])

\* The provider grants what it was asked for.
Granted(c) ==
  /\ c \in DOMAIN conversations
  /\ conversations[c].status = "REQUESTING"
  /\ conversations[c].expires > now
  /\ conversations' = [conversations EXCEPT ![c].status = "AUTHORIZED", ![c].authorized = now]
  /\ now' = now

\* A conversation is let in, on the provider's word to come or on the caller's consent.
Admitted(c) ==
  /\ c \in (Browsers \cup WhatsAppCalls) \ DOMAIN conversations
  /\ Free
  /\ conversations' \in [DOMAIN conversations \cup {c} -> Conversation]
  /\ RowOK(conversations'[c])
  /\ \/ conversations'[c].authorized = Never
     \/ conversations'[c].authorized = now /\ conversations'[c].status = "AUTHORIZED"
  /\ \A d \in DOMAIN conversations : RowMoves(conversations[d], conversations'[d])
  /\ now' = now

\* One row moves on.
LEMMA OneRowMoves ==
  ASSUME Typed, RowsOK, NEW c \in DOMAIN conversations, NEW row,
         RowMoves(conversations[c], row),
         conversations' = [conversations EXCEPT ![c] = row], now' = now
  PROVE  Quiet
<1>1. row \in Conversation
  BY DEF RowMoves, RowOK
<1>2. conversations' \in [DOMAIN conversations -> Conversation]
  BY <1>1 DEF Typed, ConversationsTypeOK
<1>3. ASSUME NEW d \in DOMAIN conversations
      PROVE  RowMoves(conversations[d], conversations'[d])
  <2>1. CASE d = c
    BY <2>1 DEF Typed, ConversationsTypeOK
  <2>2. CASE d # c
    BY <2>2, RowsClose DEF Typed, ConversationsTypeOK, RowsOK
  <2> QED
    BY <2>1, <2>2
<1> QED
  BY <1>2, <1>3 DEF Quiet, Typed, Times

\* The table as it is, and the table without stale rows.
LEMMA TableMoves ==
  ASSUME Typed, RowsOK
  PROVE  /\ \A c \in DOMAIN conversations : RowMoves(conversations[c], conversations[c])
         /\ WithoutStale \in [DOMAIN conversations -> Conversation]
         /\ \A c \in DOMAIN conversations : RowMoves(conversations[c], WithoutStale[c])
<1>1. \A c \in DOMAIN conversations : RowMoves(conversations[c], conversations[c])
  BY RowsClose DEF RowsOK
<1>2. ASSUME NEW c \in DOMAIN conversations
      PROVE  RowMoves(conversations[c], WithoutStale[c])
  BY RowsClose DEF RowsOK, WithoutStale
<1>3. \A c \in DOMAIN conversations : WithoutStale[c] \in Conversation
  BY <1>2 DEF RowMoves, RowOK
<1>4. WithoutStale \in [DOMAIN conversations -> Conversation]
  BY <1>3 DEF WithoutStale
<1> QED
  BY <1>1, <1>2, <1>4

\* A table that stays is quiet.
LEMMA SameTableIsQuiet ==
  ASSUME Typed, RowsOK, UNCHANGED conversations, now <= now'
  PROVE  Quiet
  BY TableMoves DEF Quiet, Typed, ConversationsTypeOK

\* A new row is put beside the rows that are not stale.
LEMMA NewRowIsAdmitted ==
  ASSUME Typed, RowsOK, NEW c \in (Browsers \cup WhatsAppCalls) \ DOMAIN conversations,
         NEW row, RowOK(row), Free, now' = now,
         conversations' = Put(WithoutStale, c, row),
         row.authorized = Never \/ (row.authorized = now /\ row.status = "AUTHORIZED")
  PROVE  Admitted(c)
<1>1. /\ DOMAIN WithoutStale = DOMAIN conversations
      /\ \A d \in DOMAIN conversations : WithoutStale[d] \in Conversation
      /\ row \in Conversation
  BY TableMoves DEF RowOK
<1>2. /\ conversations' = [i \in DOMAIN conversations \cup {c} |->
                             IF i = c THEN row ELSE WithoutStale[i]]
      /\ conversations'[c] = row
      /\ \A d \in DOMAIN conversations : conversations'[d] = WithoutStale[d]
  BY <1>1 DEF Put
<1>3. conversations' \in [DOMAIN conversations \cup {c} -> Conversation]
  BY <1>1, <1>2
<1>4. \A d \in DOMAIN conversations : RowMoves(conversations[d], conversations'[d])
  BY <1>2, TableMoves
<1> QED
  BY <1>2, <1>3, <1>4 DEF Admitted

\* Starts in the browser.
LEMMA AuthorizeAdmits ==
  ASSUME Typed, RowsOK, NEW c, Authorize(c)
  PROVE  Admitted(c)
<1> DEFINE row == [status |-> "REQUESTING", created |-> now, expires |-> now + SessionLength,
                   window |-> now + ConfirmWindow, authorized |-> Never, ended |-> FALSE]
<1>1. RowOK(row) /\ row.authorized = Never
  BY ConversationsAssumption
     DEF Typed, RowOK, Conversation, ConversationStatus, Times, ActiveStatuses
<1>2. /\ conversations' = Put(WithoutStale, c, row) /\ now' = now /\ Free
      /\ c \in (Browsers \cup WhatsAppCalls) \ DOMAIN conversations
  BY DEF Authorize
<1> HIDE DEF row
<1> QED
  BY <1>1, <1>2, NewRowIsAdmitted

\* Consent on WhatsApp.
LEMMA ConsentAdmits ==
  ASSUME Typed, RowsOK, NEW w, Consent(w)
  PROVE  Admitted(w)
<1> DEFINE row == [status |-> "AUTHORIZED", created |-> now, expires |-> bindings[w].expires,
                   window |-> bindings[w].expires, authorized |-> now, ended |-> FALSE]
<1>1. bindings[w].expires \in Nat /\ w \in WhatsAppCalls
  BY DEF Typed, ConversationsTypeOK, Consent, Bound
<1>2. RowOK(row) /\ row.authorized = now /\ row.status = "AUTHORIZED"
  BY <1>1 DEF Typed, RowOK, Conversation, ConversationStatus, Times, ActiveStatuses
<1>3. /\ conversations' = Put(WithoutStale, w, row) /\ now' = now /\ Free
      /\ w \in (Browsers \cup WhatsAppCalls) \ DOMAIN conversations
  BY <1>1 DEF Consent
<1> HIDE DEF row
<1> QED
  BY <1>2, <1>3, NewRowIsAdmitted

\* A refused, finalized, ended or confirmed conversation is a row that moves.
LEMMA ClosingIsQuiet ==
  ASSUME Typed, RowsOK, NEW c,
         ProviderRefuses(c) \/ EndSession(c) \/ ConfirmIntake(c) \/ Finalize(c)
  PROVE  Quiet
<1>1. CASE ProviderRefuses(c)
  <2> DEFINE row == [conversations[c] EXCEPT !.status = "FAILED", !.ended = TRUE]
  <2>1. /\ c \in DOMAIN conversations
        /\ conversations' = [conversations EXCEPT ![c] = row] /\ now' = now
    BY <1>1 DEF ProviderRefuses
  <2>2. RowMoves(conversations[c], row)
    BY <2>1, RowsClose DEF RowsOK
  <2> HIDE DEF row
  <2> QED
    BY <2>1, <2>2, OneRowMoves
<1>2. CASE EndSession(c)
  <2>1. PICK row \in {Completed(conversations[c]), Abandoned(conversations[c])} :
          /\ c \in DOMAIN conversations
          /\ conversations' = [conversations EXCEPT ![c] = row] /\ now' = now
    BY <1>2 DEF EndSession
  <2>2. RowMoves(conversations[c], row)
    BY <2>1, RowsEnd DEF RowsOK
  <2> QED
    BY <2>1, <2>2, OneRowMoves
<1>3. CASE ConfirmIntake(c)
  <2> DEFINE row == [conversations[c] EXCEPT !.status = "CONFIRMED"]
  <2>1. /\ c \in DOMAIN conversations
        /\ conversations' = [conversations EXCEPT ![c] = row] /\ now' = now
    BY <1>3 DEF ConfirmIntake
  <2>2. RowMoves(conversations[c], row)
    BY <1>3, <2>1, RowsConfirm DEF RowsOK, ConfirmIntake, Live
  <2> HIDE DEF row
  <2> QED
    BY <2>1, <2>2, OneRowMoves
<1>4. CASE Finalize(c)
  <2>1. now' = now
    BY <1>4 DEF Finalize
  <2>2. CASE c \notin DOMAIN conversations
    BY <1>4, <2>1, <2>2, SameTableIsQuiet DEF Finalize, Typed, Times
  <2>3. CASE c \in DOMAIN conversations
    <3> DEFINE row == [conversations[c] EXCEPT !.ended = TRUE,
                         !.status = IF @ = "CONFIRMED" THEN @ ELSE "FAILED"]
    <3>1. conversations' = [conversations EXCEPT ![c] = row]
      BY <1>4, <2>3 DEF Finalize
    <3>2. RowMoves(conversations[c], row)
      BY <2>3, RowsClose DEF RowsOK, RowOK, Conversation
    <3> HIDE DEF row
    <3> QED
      BY <2>1, <2>3, <3>1, <3>2, OneRowMoves
  <2> QED
    BY <2>2, <2>3
<1> QED
  BY <1>1, <1>2, <1>3, <1>4

\* A call that is initialized finds stale rows, and admits nobody yet.
LEMMA InitializeIsQuiet ==
  ASSUME Typed, RowsOK, NEW w, Initialize(w)
  PROVE  Quiet
<1>1. conversations' = WithoutStale /\ now <= now'
  BY DEF Initialize, Typed, Times
<1> QED
  BY <1>1, TableMoves DEF Quiet

\* Every step is of one of the three kinds.
LEMMA StepKinds ==
  ASSUME Typed, RowsOK, [TalkSteps]_talkVars
  PROVE  \/ Quiet
         \/ \E c \in Browsers : Granted(c)
         \/ \E c \in Browsers \cup WhatsAppCalls : Admitted(c)
<1>1. now \in Nat
  BY DEF Typed, Times
<1>2. CASE UNCHANGED talkVars
  BY <1>1, <1>2, SameTableIsQuiet DEF talkVars, conversationVars
<1>3. CASE Desk /\ UNCHANGED <<conversationVars, now>>
  BY <1>1, <1>3, SameTableIsQuiet DEF conversationVars
<1>4. CASE Tick /\ UNCHANGED <<conversationVars, leadsVars>>
  BY <1>1, <1>4, SameTableIsQuiet DEF conversationVars, Tick
<1>5. ASSUME NEW w \in WhatsAppCalls, RequestCallback(w)
      PROVE  Quiet
  BY <1>1, <1>5, SameTableIsQuiet DEF conversationVars, RequestCallback
<1>6. ASSUME NEW c \in Browsers, Grant(c)
      PROVE  Granted(c)
  BY <1>6 DEF Grant, Granted
<1>7. CASE PhoneStep
  <2>1. conversations' = conversations /\ now' = now
    BY <1>7 DEF PhoneStep, PhoneBegins, PhoneEnds
  <2> QED
    BY <1>1, <2>1, SameTableIsQuiet
<1>8. CASE ConversationsNext
  <2>1. CASE PhoneStep
    BY <1>7, <2>1
  <2>2. CASE \E c \in Browsers : Authorize(c) \/ Grant(c) \/ ProviderRefuses(c)
    BY <1>6, <2>2, AuthorizeAdmits, ClosingIsQuiet
  <2>3. CASE \E c \in DOMAIN conversations : EndSession(c) \/ ConfirmIntake(c)
    BY <2>3, ClosingIsQuiet
  <2>4. CASE \E w \in WhatsAppCalls :
               Initialize(w) \/ Consent(w) \/ RequestCallback(w) \/ Finalize(w)
    BY <1>5, <2>4, ConsentAdmits, ClosingIsQuiet, InitializeIsQuiet
  <2> QED
    BY <1>8, <2>1, <2>2, <2>3, <2>4 DEF ConversationsNext, PhoneStep
<1> QED
  BY <1>2, <1>3, <1>4, <1>8 DEF TalkSteps

----------------------------------------------------------------------------
(* Types. *)

\* Each kind of step keeps the rows in order.
LEMMA RowsStayOK ==
  ASSUME Typed, RowsOK, [TalkSteps]_talkVars
  PROVE  RowsOK'
<1>1. CASE Quiet
  BY <1>1 DEF Quiet, RowsOK, RowMoves
<1>2. ASSUME NEW c, Granted(c)
      PROVE  RowsOK'
  <2>1. /\ DOMAIN conversations' = DOMAIN conversations
        /\ conversations'[c] = [conversations[c] EXCEPT !.status = "AUTHORIZED", !.authorized = now]
        /\ \A d \in DOMAIN conversations \ {c} : conversations'[d] = conversations[d]
    BY <1>2 DEF Granted, Typed, ConversationsTypeOK
  <2>2. RowOK(conversations'[c])
    BY <1>2, <2>1
       DEF Granted, Typed, RowsOK, RowOK, Conversation, ConversationStatus, ActiveStatuses
  <2> QED
    BY <2>1, <2>2 DEF RowsOK
<1>3. ASSUME NEW c, Admitted(c)
      PROVE  RowsOK'
  BY <1>3 DEF Admitted, RowsOK, RowMoves
<1> QED
  BY <1>1, <1>2, <1>3, StepKinds

\* The tables besides that of the conversations: rows of leads and intakes stay, and bindings are
\* made by initialize() and finalize() alone, as calls on the phone have sessions of their own.
LEMMA OtherTables ==
  ASSUME [TalkSteps]_talkVars
  PROVE  /\ DOMAIN leads \subseteq DOMAIN leads'
         /\ UNCHANGED confirmedAt \/ \E c \in DOMAIN conversations : ConfirmIntake(c)
         /\ UNCHANGED bindings \/ \E w \in WhatsAppCalls : Initialize(w) \/ Finalize(w)
         /\ UNCHANGED phones \/ PhoneStep
<1>1. CASE UNCHANGED talkVars
  BY <1>1 DEF talkVars, conversationVars, leadsVars
<1>2. CASE Desk /\ UNCHANGED <<conversationVars, now>>
  BY <1>2 DEF conversationVars, Desk, SetLeadStatus, CreateHandoff, SetHandoffStatus
<1>3. CASE Tick /\ UNCHANGED <<conversationVars, leadsVars>>
  BY <1>3 DEF conversationVars, leadsVars
<1>4. ASSUME NEW c \in Browsers, Authorize(c) \/ Grant(c) \/ ProviderRefuses(c)
      PROVE  UNCHANGED <<bindings, confirmedAt, phones, leads>>
  BY <1>4 DEF Authorize, Grant, ProviderRefuses, leadsVars
<1>5. ASSUME NEW c \in DOMAIN conversations, EndSession(c)
      PROVE  UNCHANGED <<bindings, confirmedAt, phones, leads>>
  BY <1>5 DEF EndSession, leadsVars
<1>6. ASSUME NEW c \in DOMAIN conversations, ConfirmIntake(c)
      PROVE  UNCHANGED <<bindings, phones>> /\ DOMAIN leads \subseteq DOMAIN leads'
  BY <1>6 DEF ConfirmIntake, AddLead, Put
<1>7. ASSUME NEW w \in WhatsAppCalls, Initialize(w) \/ Finalize(w)
      PROVE  UNCHANGED <<confirmedAt, phones, leads>>
  BY <1>7 DEF Initialize, Finalize, leadsVars
<1>8. ASSUME NEW w \in WhatsAppCalls, Consent(w) \/ RequestCallback(w)
      PROVE  UNCHANGED <<bindings, confirmedAt, phones, leads>>
  BY <1>8 DEF Consent, RequestCallback, CreateHandoff, conversationVars, leadsVars
<1>9. CASE PhoneStep
  BY <1>9 DEF PhoneStep, PhoneBegins, PhoneEnds, leadsVars
<1> QED
  BY <1>1, <1>2, <1>3, <1>4, <1>5, <1>6, <1>7, <1>8, <1>9
     DEF TalkSteps, ConversationsNext, PhoneStep

\* Conversations are not deleted, and their table keeps its type.
LEMMA TableTyped ==
  ASSUME Typed, RowsOK, [TalkSteps]_talkVars
  PROVE  /\ DOMAIN conversations \subseteq DOMAIN conversations'
         /\ DOMAIN conversations' \subseteq Browsers \cup WhatsAppCalls
         /\ conversations' \in [DOMAIN conversations' -> Conversation]
         /\ IsFiniteSet(DOMAIN conversations')
<1>1. CASE Quiet
  BY <1>1 DEF Quiet, Typed, ConversationsTypeOK
<1>2. CASE \E c \in Browsers : Granted(c)
  <2>1. DOMAIN conversations' = DOMAIN conversations
    BY <1>2 DEF Granted
  <2>2. conversations' = [d \in DOMAIN conversations |-> conversations'[d]]
    BY <1>2, <2>1 DEF Granted
  <2>3. \A d \in DOMAIN conversations' : conversations'[d] \in Conversation
    BY RowsStayOK DEF RowsOK, RowOK
  <2> QED
    BY <2>1, <2>2, <2>3 DEF Typed, ConversationsTypeOK
<1>3. CASE \E c \in Browsers \cup WhatsAppCalls : Admitted(c)
  <2>1. PICK c \in Browsers \cup WhatsAppCalls : Admitted(c)
    BY <1>3
  <2>2. DOMAIN conversations' = DOMAIN conversations \cup {c}
    BY <2>1 DEF Admitted
  <2>3. IsFiniteSet(DOMAIN conversations')
    BY <2>2, FS_AddElement DEF Typed
  <2> QED
    BY <2>1, <2>2, <2>3 DEF Admitted, Typed, ConversationsTypeOK
<1> QED
  BY <1>1, <1>2, <1>3, StepKinds

\* Every step keeps the types.
LEMMA StepTyped ==
  ASSUME Typed, RowsOK, [TalkSteps]_talkVars
  PROVE  Typed'
<1>1. now' \in Times
  <2>1. now' = now \/ (Tick /\ UNCHANGED <<conversationVars, leadsVars>>)
    BY DEF TalkSteps, talkVars, ConversationsNext, Authorize, Grant, ProviderRefuses, EndSession,
           ConfirmIntake, Initialize, Consent, RequestCallback, Finalize, PhoneBegins, PhoneEnds
  <2> QED
    BY <2>1, ClockAssumption DEF Typed, Times, Tick
<1>2. /\ DOMAIN bindings' \subseteq WhatsAppCalls
      /\ bindings' \in
           [DOMAIN bindings' -> [initialized : Times, expires : Nat, finalized : BOOLEAN]]
  <2>1. CASE UNCHANGED bindings
    BY <2>1 DEF Typed, ConversationsTypeOK
  <2>2. ASSUME NEW w \in WhatsAppCalls, Initialize(w)
        PROVE  <1>2!:
    <3> DEFINE row == [initialized |-> now, expires |-> now + SessionLength,
                       finalized |-> FALSE]
    <3>1. row \in [initialized : Times, expires : Nat, finalized : BOOLEAN]
      BY ConversationsAssumption DEF Typed, Times
    <3>2. bindings' = Put(bindings, w, row)
      BY <2>2 DEF Initialize
    <3> HIDE DEF row
    <3> QED
      BY <3>1, <3>2 DEF Put, Typed, ConversationsTypeOK
  <2>3. ASSUME NEW w \in WhatsAppCalls, Finalize(w)
        PROVE  <1>2!:
    BY <2>3 DEF Finalize, Typed, ConversationsTypeOK
  <2> QED
    BY <2>1, <2>2, <2>3, OtherTables
<1>3. /\ DOMAIN confirmedAt' \subseteq DOMAIN leads' \cap DOMAIN conversations'
      /\ \A c \in DOMAIN confirmedAt' : confirmedAt'[c] \in Times
  <2>1. DOMAIN leads \subseteq DOMAIN leads' /\ DOMAIN conversations \subseteq DOMAIN conversations'
    BY OtherTables, TableTyped
  <2>2. CASE UNCHANGED confirmedAt
    BY <2>1, <2>2 DEF Typed, ConversationsTypeOK
  <2>3. ASSUME NEW c \in DOMAIN conversations, ConfirmIntake(c)
        PROVE  <1>3!:
    <3>1. confirmedAt' = Put(confirmedAt, c, now) /\ c \in DOMAIN leads'
      BY <2>3 DEF ConfirmIntake, AddLead, Put
    <3> QED
      BY <2>1, <3>1 DEF Put, Typed, ConversationsTypeOK
  <2> QED
    BY <2>2, <2>3, OtherTables
<1>4. /\ DOMAIN phones' \subseteq PhoneSessions
      /\ phones' \in [DOMAIN phones' -> [authorized : Times, until : Nat]]
  <2>1. CASE UNCHANGED phones
    BY <2>1 DEF Typed, ConversationsTypeOK
  <2>2. ASSUME NEW p \in PhoneSessions, NEW until \in now + 1..now + SessionLength,
               PhoneBegins(p, until)
        PROVE  <1>4!:
    <3> DEFINE row == [authorized |-> now, until |-> until]
    <3>1. row \in [authorized : Times, until : Nat]
      BY <2>2, ConversationsAssumption DEF Typed, Times
    <3>2. phones' = Put(phones, p, row)
      BY <2>2 DEF PhoneBegins
    <3> HIDE DEF row
    <3> QED
      BY <3>1, <3>2 DEF Put, Typed, ConversationsTypeOK
  <2>3. ASSUME NEW p \in PhoneSessions, PhoneEnds(p)
        PROVE  <1>4!:
    BY <2>3 DEF PhoneEnds, Typed, ConversationsTypeOK, Times
  <2> QED
    BY <2>1, <2>2, <2>3, OtherTables DEF PhoneStep
<1> QED
  BY <1>1, <1>2, <1>3, <1>4, TableTyped DEF Typed, ConversationsTypeOK

----------------------------------------------------------------------------
(* Limits. *)

\* Multiples keep their order.
LEMMA Multiples ==
  ASSUME NEW m \in Nat, NEW n \in Nat, NEW k \in Nat \ {0}, m * k < n * k
  PROVE  m < n
<1> SUFFICES ASSUME n <= m PROVE FALSE
  OBVIOUS
<1>1. PICK e \in Nat : m = n + e
  <2>1. m - n \in Nat /\ m = n + (m - n)
    OBVIOUS
  <2> QED
    BY <2>1
<1>2. m * k = n * k + e * k /\ e * k \in Nat /\ n * k \in Nat
  BY <1>1
<1> QED
  BY <1>2

\* A day and its ticks.
LEMMA DayTicks ==
  ASSUME NEW t \in Nat
  PROVE  /\ DayOf(t) \in Nat
         /\ DayOf(t) * DayLength <= t
         /\ t < (DayOf(t) + 1) * DayLength
  BY ClockAssumption DEF DayOf

\* What happened today happened since midnight.
LEMMA SinceMidnight ==
  ASSUME NEW t \in Nat, NEW u \in Nat, t <= u
  PROVE  /\ t >= DayOf(u) * DayLength <=> DayOf(t) = DayOf(u)
         /\ DayOf(t) <= DayOf(u)
<1>1. /\ DayOf(t) \in Nat /\ DayOf(u) \in Nat
      /\ DayOf(t) * DayLength <= t /\ t < (DayOf(t) + 1) * DayLength
      /\ DayOf(u) * DayLength <= u /\ u < (DayOf(u) + 1) * DayLength
      /\ DayLength \in Nat \ {0}
  BY DayTicks, ClockAssumption
<1>2. /\ DayOf(t) * DayLength \in Nat /\ DayOf(u) * DayLength \in Nat
      /\ (DayOf(t) + 1) * DayLength \in Nat /\ (DayOf(u) + 1) * DayLength \in Nat
  BY <1>1
<1>3. DayOf(t) < DayOf(u) + 1
  <2>1. DayOf(t) * DayLength < (DayOf(u) + 1) * DayLength
    BY <1>1, <1>2
  <2> QED
    BY <1>1, <2>1, Multiples
<1>4. ASSUME t >= DayOf(u) * DayLength
      PROVE  DayOf(u) < DayOf(t) + 1
  <2>1. DayOf(u) * DayLength < (DayOf(t) + 1) * DayLength
    BY <1>1, <1>2, <1>4
  <2> QED
    BY <1>1, <2>1, Multiples
<1>5. DayOf(t) = DayOf(u) => t >= DayOf(u) * DayLength
  BY <1>1
<1> QED
  BY <1>1, <1>3, <1>4, <1>5

\* The conversations that were authorized on day d.
AuthorizedOn(d) ==
  {c \in DOMAIN conversations :
     conversations[c].authorized # Never /\ DayOf(conversations[c].authorized) = d}

\* No authorization is of a time to come.
AuthorizedBefore == \A c \in DOMAIN conversations : conversations[c].authorized <= now

\* The place is taken at most once.
OneAtATime == \A c, d \in Occupying(conversations) : c = d

\* Who waits for the provider's answer has a place left on the day that the answer comes.
PlaceIsKept ==
  \A c \in Occupying(conversations) :
    conversations[c].status = "REQUESTING" => Cardinality(AuthorizedToday) < DailyLimit

DaysKeepLimit == \A d \in Nat : Cardinality(AuthorizedOn(d)) <= DailyLimit

\* The inductive invariant.
ConversationsInv ==
  /\ Typed /\ RowsOK /\ AuthorizedBefore
  /\ OneAtATime /\ PlaceIsKept /\ DaysKeepLimit

\* Those authorized since midnight are those authorized today.
LEMMA TodayIsToday ==
  ASSUME Typed, AuthorizedBefore
  PROVE  /\ AuthorizedToday = AuthorizedOn(DayOf(now))
         /\ DayOf(now) \in Nat
         /\ IsFiniteSet(AuthorizedToday) /\ Cardinality(AuthorizedToday) \in Nat
<1>1. now \in Nat
  BY DEF Typed, Times
<1>2. ASSUME NEW c \in DOMAIN conversations
      PROVE  c \in AuthorizedToday <=> c \in AuthorizedOn(DayOf(now))
  <2> DEFINE at == conversations[c].authorized
  <2>1. at \in Nat \cup {Never} /\ at <= now
    BY DEF Typed, ConversationsTypeOK, Conversation, Times, AuthorizedBefore
  <2>2. CASE at = Never
    <3>1. Today \in Nat
      BY <1>1, DayTicks, ClockAssumption DEF Today
    <3> QED
      BY <2>2, <3>1 DEF AuthorizedToday, AuthorizedOn, Never
  <2>3. CASE at \in Nat
    BY <1>1, <2>1, <2>3, SinceMidnight DEF AuthorizedToday, AuthorizedOn, Today, Never
  <2> QED
    BY <2>1, <2>2, <2>3
<1>3. AuthorizedToday \subseteq DOMAIN conversations
  BY DEF AuthorizedToday
<1>4. IsFiniteSet(AuthorizedToday) /\ Cardinality(AuthorizedToday) \in Nat
  BY <1>3, FS_Subset, FS_CardinalityType DEF Typed
<1> QED
  BY <1>1, <1>2, <1>3, <1>4, DayTicks DEF AuthorizedOn

\* A smaller set of conversations is not a larger number.
LEMMA FewerConversations ==
  ASSUME NEW S, NEW T, IsFiniteSet(T), S \subseteq T
  PROVE  /\ IsFiniteSet(S) /\ Cardinality(S) \in Nat /\ Cardinality(T) \in Nat
         /\ Cardinality(S) <= Cardinality(T)
  BY FS_Subset, FS_CardinalityType

\* Quiet steps.
LEMMA QuietKeepsLimits ==
  ASSUME ConversationsInv, Typed', Quiet
  PROVE  /\ AuthorizedBefore' /\ OneAtATime' /\ PlaceIsKept' /\ DaysKeepLimit'
<1>1. /\ DOMAIN conversations' = DOMAIN conversations
      /\ \A c \in DOMAIN conversations : conversations'[c].authorized = conversations[c].authorized
      /\ now \in Nat /\ now' \in Nat /\ now <= now'
  BY DEF Quiet, RowMoves, ConversationsInv, Typed, Times
<1>2. AuthorizedBefore'
  <2>1. ASSUME NEW c \in DOMAIN conversations
        PROVE  conversations[c].authorized \in Int /\ conversations[c].authorized <= now
    BY DEF ConversationsInv, Typed, ConversationsTypeOK, Conversation, Times, Never,
           AuthorizedBefore
  <2> QED
    BY <1>1, <2>1 DEF AuthorizedBefore
<1>3. ASSUME NEW c \in Occupying(conversations)'
      PROVE  /\ c \in Occupying(conversations)
             /\ conversations'[c].status = "REQUESTING" => conversations[c].status = "REQUESTING"
  <2>1. /\ c \in DOMAIN conversations /\ Holds(conversations'[c])
        /\ conversations'[c].expires > now'
    BY <1>1 DEF Occupying, Holds
  <2>2. /\ Holds(conversations[c]) /\ conversations'[c].expires = conversations[c].expires
        /\ conversations'[c].status = "REQUESTING" => conversations[c].status = "REQUESTING"
    BY <2>1 DEF Quiet, RowMoves
  <2>3. conversations[c].expires \in Nat
    BY <2>1 DEF ConversationsInv, Typed, ConversationsTypeOK, Conversation
  <2> QED
    BY <1>1, <2>1, <2>2, <2>3 DEF Occupying, Holds
<1>4. \A d : AuthorizedOn(d)' = AuthorizedOn(d)
  BY <1>1 DEF AuthorizedOn
<1>5. OneAtATime' /\ DaysKeepLimit'
  BY <1>3, <1>4 DEF ConversationsInv, OneAtATime, DaysKeepLimit
<1>6. Cardinality(AuthorizedToday') <= Cardinality(AuthorizedToday)
      /\ Cardinality(AuthorizedToday') \in Nat /\ Cardinality(AuthorizedToday) \in Nat
  <2>1. IsFiniteSet(AuthorizedToday)
    BY TodayIsToday DEF ConversationsInv
  <2>2. ASSUME NEW c \in AuthorizedToday'
        PROVE  c \in AuthorizedToday
    <3> DEFINE at == conversations[c].authorized
    <3>1. c \in DOMAIN conversations /\ at >= DayOf(now') * DayLength
      BY <1>1, <2>2 DEF AuthorizedToday, Today
    <3>2. at \in Nat \cup {Never} /\ at <= now
      BY <3>1 DEF ConversationsInv, Typed, ConversationsTypeOK, Conversation, Times,
                  AuthorizedBefore
    <3>3. DayOf(now') * DayLength \in Nat
      BY <1>1, DayTicks, ClockAssumption
    <3>4. at \in Nat
      BY <3>1, <3>2, <3>3 DEF Never
    <3>5. DayOf(at) = DayOf(now') /\ DayOf(at) <= DayOf(now)
      BY <1>1, <3>1, <3>2, <3>4, SinceMidnight
    <3>6. DayOf(now) <= DayOf(now') /\ DayOf(now) \in Nat /\ DayOf(now') \in Nat
      BY <1>1, SinceMidnight, DayTicks
    <3>7. DayOf(at) = DayOf(now)
      BY <3>5, <3>6
    <3>8. at >= DayOf(now) * DayLength
      BY <1>1, <3>2, <3>4, <3>7, SinceMidnight
    <3> QED
      BY <3>1, <3>8 DEF AuthorizedToday, Today
  <2> QED
    BY <2>1, <2>2, FewerConversations
<1>7. PlaceIsKept'
  BY <1>3, <1>6, ConversationsAssumption DEF ConversationsInv, PlaceIsKept
<1> QED
  BY <1>2, <1>5, <1>7

\* One more authorization today, where there is room for it.
LEMMA OneMoreToday ==
  ASSUME ConversationsInv, Cardinality(AuthorizedToday) < DailyLimit, now' = now, NEW c,
         AuthorizedOn(DayOf(now))' \subseteq AuthorizedOn(DayOf(now)) \cup {c},
         \A d \in Nat : d # DayOf(now) => AuthorizedOn(d)' = AuthorizedOn(d)
  PROVE  DaysKeepLimit'
<1> DEFINE today == AuthorizedOn(DayOf(now))
<1>1. /\ today = AuthorizedToday /\ IsFiniteSet(today) /\ Cardinality(today) \in Nat
      /\ DayOf(now) \in Nat
  BY TodayIsToday DEF ConversationsInv
<1>2. /\ IsFiniteSet(today \cup {c})
      /\ Cardinality(today \cup {c}) <= Cardinality(today) + 1
      /\ Cardinality(today \cup {c}) \in Nat
  <2> HIDE DEF today
  <2>1. /\ IsFiniteSet(today \cup {c})
        /\ Cardinality(today \cup {c})
             = IF c \in today THEN Cardinality(today) ELSE Cardinality(today) + 1
    BY <1>1, FS_AddElement
  <2> QED
    BY <1>1, <2>1
<1>3. /\ Cardinality(AuthorizedOn(DayOf(now))') <= Cardinality(today \cup {c})
      /\ Cardinality(AuthorizedOn(DayOf(now))') \in Nat
  BY <1>2, FewerConversations
<1>4. Cardinality(AuthorizedOn(DayOf(now))') <= DailyLimit
  BY <1>1, <1>2, <1>3, ConversationsAssumption
<1> QED
  BY <1>4 DEF ConversationsInv, DaysKeepLimit

\* A credential is granted to the conversation that waits for it.
LEMMA GrantKeepsLimits ==
  ASSUME ConversationsInv, NEW c, Granted(c)
  PROVE  /\ AuthorizedBefore' /\ OneAtATime' /\ PlaceIsKept' /\ DaysKeepLimit'
<1>1. /\ DOMAIN conversations' = DOMAIN conversations
      /\ c \in DOMAIN conversations
      /\ conversations'[c] = [conversations[c] EXCEPT !.status = "AUTHORIZED", !.authorized = now]
      /\ \A d \in DOMAIN conversations \ {c} : conversations'[d] = conversations[d]
      /\ conversations[c] \in Conversation
  BY DEF Granted, ConversationsInv, Typed, ConversationsTypeOK
<1>2. /\ conversations'[c].status = "AUTHORIZED" /\ conversations'[c].authorized = now
      /\ conversations'[c].expires = conversations[c].expires
      /\ conversations[c].authorized = Never
  BY <1>1 DEF Conversation, Granted, ConversationsInv, RowsOK, RowOK
<1>3. now' = now /\ now \in Nat
  BY DEF Granted, ConversationsInv, Typed, Times
<1>4. AuthorizedBefore'
  <2>1. ASSUME NEW d \in DOMAIN conversations
        PROVE  conversations'[d].authorized <= now
    <3>1. CASE d = c
      BY <1>2, <1>3, <3>1
    <3>2. CASE d # c
      BY <1>1, <3>2 DEF AuthorizedBefore, ConversationsInv
    <3> QED
      BY <3>1, <3>2
  <2> QED
    BY <1>1, <1>3, <2>1 DEF AuthorizedBefore
<1>5. c \in Occupying(conversations)
  BY <1>1 DEF Granted, Occupying, ActiveStatuses
<1>6. \A d \in Occupying(conversations)' : d = c
  <2>1. ASSUME NEW d \in Occupying(conversations)', d # c
        PROVE  d \in Occupying(conversations)
    BY <1>1, <1>3, <2>1 DEF Occupying
  <2> QED
    BY <1>5, <2>1 DEF ConversationsInv, OneAtATime
<1>7. OneAtATime' /\ PlaceIsKept'
  BY <1>2, <1>6 DEF OneAtATime, PlaceIsKept
<1>8. Cardinality(AuthorizedToday) < DailyLimit
  BY <1>5 DEF Granted, ConversationsInv, PlaceIsKept
<1>9. /\ AuthorizedOn(DayOf(now))' \subseteq AuthorizedOn(DayOf(now)) \cup {c}
      /\ \A d \in Nat : d # DayOf(now) => AuthorizedOn(d)' = AuthorizedOn(d)
  BY <1>1, <1>2, <1>3 DEF AuthorizedOn
<1>10. DaysKeepLimit'
  BY <1>3, <1>8, <1>9, OneMoreToday
<1> QED
  BY <1>4, <1>7, <1>10

\* Who finds the agency free finds its place free, and room on the day, however many of the day's
\* conversations were on the phone.
LEMMA FreeHasRoom ==
  ASSUME ConversationsInv, Free
  PROVE  Occupying(conversations) = {} /\ Cardinality(AuthorizedToday) < DailyLimit
<1>1. PhonesToday \subseteq PhoneSessions
  BY DEF PhonesToday, ConversationsInv, Typed, ConversationsTypeOK
<1>2. Cardinality(PhonesToday) \in Nat
  BY <1>1, ConversationsAssumption, FS_Subset, FS_CardinalityType
<1>3. Cardinality(AuthorizedToday) \in Nat
  BY TodayIsToday DEF ConversationsInv
<1> QED
  BY <1>2, <1>3, ConversationsAssumption DEF Free, NobodyTalks

\* A conversation is let in while nobody has the place.
LEMMA AdmissionKeepsLimits ==
  ASSUME ConversationsInv, NEW c, Admitted(c)
  PROVE  /\ AuthorizedBefore' /\ OneAtATime' /\ PlaceIsKept' /\ DaysKeepLimit'
<1>1. /\ DOMAIN conversations' = DOMAIN conversations \cup {c}
      /\ c \notin DOMAIN conversations
      /\ \A d \in DOMAIN conversations : conversations'[d].authorized = conversations[d].authorized
      /\ now' = now /\ now \in Nat
  BY DEF Admitted, RowMoves, ConversationsInv, Typed, Times
<1>2. AuthorizedBefore'
  BY <1>1 DEF AuthorizedBefore, ConversationsInv, Admitted, Never
<1>3. \A d \in Occupying(conversations)' : d = c
  <2>1. ASSUME NEW d \in DOMAIN conversations, d \in Occupying(conversations)'
        PROVE  d \in Occupying(conversations)
    <3>1. Holds(conversations'[d]) /\ conversations'[d].expires > now
      BY <1>1, <2>1 DEF Occupying, Holds
    <3>2. Holds(conversations[d]) /\ conversations[d].expires > now
      BY <3>1 DEF Admitted, RowMoves
    <3> QED
      BY <3>2 DEF Occupying, Holds
  <2>2. Occupying(conversations) = {}
    BY FreeHasRoom DEF Admitted
  <2>3. Occupying(conversations)' \subseteq DOMAIN conversations'
    BY DEF Occupying
  <2> QED
    BY <1>1, <2>1, <2>2, <2>3
<1>4. OneAtATime'
  BY <1>3 DEF OneAtATime
<1>5. Cardinality(AuthorizedToday) < DailyLimit
  BY FreeHasRoom DEF Admitted
<1>6. CASE conversations'[c].authorized = Never
  <2>1. AuthorizedToday' = AuthorizedToday
    <3>1. DayOf(now) * DayLength \in Nat
      BY <1>1, DayTicks, ClockAssumption
    <3> QED
      BY <1>1, <1>6, <3>1 DEF AuthorizedToday, Today, Never
  <2>2. \A d : AuthorizedOn(d)' = AuthorizedOn(d)
    BY <1>1, <1>6 DEF AuthorizedOn
  <2>3. PlaceIsKept' /\ DaysKeepLimit'
    BY <1>5, <2>1, <2>2 DEF PlaceIsKept, DaysKeepLimit, ConversationsInv
  <2> QED
    BY <1>2, <1>4, <2>3
<1>7. CASE conversations'[c].authorized = now /\ conversations'[c].status = "AUTHORIZED"
  <2>1. PlaceIsKept'
    BY <1>3, <1>7 DEF PlaceIsKept
  <2>2. /\ AuthorizedOn(DayOf(now))' \subseteq AuthorizedOn(DayOf(now)) \cup {c}
        /\ \A d \in Nat : d # DayOf(now) => AuthorizedOn(d)' = AuthorizedOn(d)
    BY <1>1, <1>7 DEF AuthorizedOn
  <2>3. DaysKeepLimit'
    BY <1>1, <1>5, <2>2, OneMoreToday
  <2> QED
    BY <1>2, <1>4, <2>1, <2>3
<1> QED
  BY <1>6, <1>7 DEF Admitted

\* The tables start empty.
LEMMA InitInv ==
  ASSUME now = 0, ConversationsInit
  PROVE  ConversationsInv
<1>1. /\ DOMAIN conversations = {} /\ DOMAIN bindings = {} /\ DOMAIN confirmedAt = {}
      /\ DOMAIN phones = {}
      /\ conversations = << >> /\ bindings = << >> /\ phones = << >>
  BY DEF ConversationsInit, Nothing
<1>2. Typed
  <2>1. 0 \in Times
    BY ClockAssumption DEF Times
  <2> QED
    BY <1>1, <2>1, FS_EmptySet DEF Typed, ConversationsTypeOK
<1>3. RowsOK /\ AuthorizedBefore /\ OneAtATime /\ PlaceIsKept
  BY <1>1 DEF RowsOK, AuthorizedBefore, OneAtATime, PlaceIsKept, Occupying
<1>4. \A d \in Nat : Cardinality(AuthorizedOn(d)) = 0
  <2>1. \A d : AuthorizedOn(d) = {}
    BY <1>1 DEF AuthorizedOn
  <2> QED
    BY <2>1, FS_EmptySet
<1> QED
  BY <1>2, <1>3, <1>4, ConversationsAssumption DEF ConversationsInv, DaysKeepLimit

\* Every step keeps the invariant.
LEMMA StepInv ==
  ASSUME ConversationsInv, [TalkSteps]_talkVars
  PROVE  ConversationsInv'
<1>1. Typed' /\ RowsOK'
  BY StepTyped, RowsStayOK DEF ConversationsInv
<1> QED
  BY <1>1, StepKinds, QuietKeepsLimits, GrantKeepsLimits, AdmissionKeepsLimits
     DEF ConversationsInv

\* The invariant holds whatever the provider, the callers and the clock do.
LEMMA ConversationsInvariant == ConversationsSpec => []ConversationsInv
<1>1. now = 0 /\ ConversationsInit /\ LeadsInit => ConversationsInv
  BY InitInv
<1>2. ConversationsInv /\ [TalkSteps]_talkVars => ConversationsInv'
  BY StepInv
<1> QED
  BY <1>1, <1>2, PTL DEF ConversationsSpec, TalkSteps, talkVars

\* Rows have the values that the tables allow, and an intake has its conversation and its lead.
THEOREM ConversationsAreTyped == ConversationsSpec => []ConversationsTypeOK
  BY ConversationsInvariant, PTL DEF ConversationsInv, Typed

\* The invariant in numbers.
LEMMA LimitsFollow ==
  ASSUME ConversationsInv
  PROVE  ConversationLimits
<1>1. Cardinality(Occupying(conversations)) <= 1
  <2>1. CASE Occupying(conversations) = {}
    BY <2>1, FS_EmptySet
  <2>2. ASSUME NEW c \in Occupying(conversations)
        PROVE  Cardinality(Occupying(conversations)) = 1
    <3>1. Occupying(conversations) = {c}
      BY <2>2 DEF ConversationsInv, OneAtATime
    <3> QED
      BY <3>1, FS_Singleton
  <2> QED
    BY <2>1, <2>2
<1>2. ASSUME NEW d \in 0..DayOf(MaxTime)
      PROVE  Cardinality(AuthorizedOn(d)) <= DailyLimit
  BY DEF ConversationsInv, DaysKeepLimit
<1> QED
  BY <1>1, <1>2 DEF ConversationLimits, AuthorizedOn

\* One conversation at a time has the agency's place and no day admits more than the limit,
\* although starting one takes two transactions with the provider in between, and a caller on
\* WhatsApp consents long after the call was initialized (conversations/service.py,
\* authorize_session; whatsapp/service.py, consent).
THEOREM ConversationsStayWithinLimits == ConversationsSpec => []ConversationLimits
<1>1. ConversationsInv => ConversationLimits
  BY LimitsFollow
<1> QED
  BY <1>1, ConversationsInvariant, PTL

\* A conversation that has ended, failed or expired, by itself.
StaysClosed(c) ==
  LET row == conversations[c]
  IN /\ row.ended \/ row.status \in {"FAILED", "EXPIRED"} =>
          conversations'[c].status \notin ActiveStatuses
     /\ row.status \in {"FAILED", "EXPIRED"} =>
          conversations'[c].status # "CONFIRMED"

\* Each kind of step leaves what is closed closed.
LEMMA StepsLeaveClosed ==
  ASSUME ConversationsInv, [TalkSteps]_talkVars, NEW c \in DOMAIN conversations
  PROVE  StaysClosed(c)
<1>1. CASE Quiet
  BY <1>1 DEF Quiet, RowMoves, StaysClosed
<1>2. ASSUME NEW d, Granted(d)
      PROVE  StaysClosed(c)
  <2>1. conversations[d].status = "REQUESTING" /\ ~conversations[d].ended
    BY <1>2 DEF Granted, ConversationsInv, RowsOK, RowOK, ActiveStatuses
  <2>2. CASE c = d
    BY <2>1, <2>2 DEF StaysClosed
  <2>3. CASE c # d
    <3>1. conversations'[c] = conversations[c]
      BY <1>2, <2>3 DEF Granted
    <3>2. RowMoves(conversations[c], conversations[c])
      BY RowsClose DEF ConversationsInv, RowsOK
    <3> QED
      BY <3>1, <3>2 DEF RowMoves, StaysClosed
  <2> QED
    BY <2>2, <2>3
<1>3. ASSUME NEW d, Admitted(d)
      PROVE  StaysClosed(c)
  BY <1>3 DEF Admitted, RowMoves, StaysClosed
<1> QED
  BY <1>1, <1>2, <1>3, StepKinds DEF ConversationsInv

\* A conversation that ended, failed or expired is never authorized, and no intake is confirmed in
\* one that failed or expired, however late the provider, the webhook or the customer answers.
THEOREM ClosedConversationsStayClosed == ConversationsSpec => ClosedStaysClosed
<1>1. ConversationsInv /\ [TalkSteps]_talkVars
        => [\A c \in DOMAIN conversations : StaysClosed(c)]_conversations
  BY StepsLeaveClosed
<1> QED
  BY <1>1, ConversationsInvariant, PTL
     DEF ConversationsSpec, ClosedStaysClosed, StaysClosed, TalkSteps, talkVars

----------------------------------------------------------------------------
(* The customer's memory. *)

\* A step of MemorySpec.
MemorySteps ==
  \/ MemoryNext
  \/ ConversationsNext /\ UNCHANGED <<accessVars, memoryVars>>
  \/ AccessNext /\ UNCHANGED <<conversationVars, leadsVars, memoryVars>>
  \/ Desk /\ UNCHANGED <<conversationVars, accessVars, memoryVars, now>>
  \/ Tick /\ UNCHANGED <<conversationVars, leadsVars, accessVars, memoryVars>>

allVars == <<conversationVars, leadsVars, accessVars, memoryVars, now>>

\* What is forgotten was confirmed before the history that consent covers begins.
CoverBegins ==
  /\ policy \in [enabled : BOOLEAN, after : Times]
  /\ policy.after <= now
  /\ forgotten \subseteq DOMAIN confirmedAt
  /\ \A c \in forgotten : confirmedAt[c] < policy.after

\* The inductive invariant.
MemoryInv == ConversationsInv /\ CoverBegins /\ ForgottenStaysForgotten

\* To the conversations, a step of the memory or of the customer's access is a stutter.
LEMMA MemoryStepsAreSteps ==
  ASSUME [MemorySteps]_allVars
  PROVE  [TalkSteps]_talkVars
<1>1. CASE MemoryNext
  BY <1>1 DEF MemoryNext, Enable, Withdraw, Erase, View, Purge, Unlink, RemoveFact, Save,
              Remember, BeginPairing, ApprovePairing, Recognise, MemoryOnly, talkVars
<1>2. CASE AccessNext /\ UNCHANGED <<conversationVars, leadsVars, memoryVars>>
  <2>1. UNCHANGED now
    BY <1>2 DEF AccessNext, SignIn, Look, Cancel, EnterWrongCode, Logout, Verify, Enroll, Recover
  <2> QED
    BY <1>2, <2>1 DEF talkVars
<1> QED
  BY <1>1, <1>2 DEF MemorySteps, allVars, talkVars, TalkSteps

\* A step of anything but the memory.
Beside ==
  /\ UNCHANGED memoryVars
  /\ now <= now'
  /\ \A c \in DOMAIN confirmedAt : c \in DOMAIN confirmedAt' /\ confirmedAt'[c] = confirmedAt[c]

\* An intake is confirmed once: its lead bears the name of the conversation.
LEMMA IntakesStay ==
  ASSUME MemoryInv, [MemorySteps]_allVars
  PROVE  MemoryNext \/ Beside
<1>1. [TalkSteps]_talkVars
  BY MemoryStepsAreSteps
<1>2. now <= now'
  <2>1. now \in Nat /\ Typed /\ RowsOK
    BY DEF MemoryInv, ConversationsInv, Typed, Times
  <2>2. Quiet \/ now' = now
    BY <1>1, <2>1, StepKinds DEF Granted, Admitted
  <2> QED
    BY <2>1, <2>2 DEF Quiet
<1>3. \A c \in DOMAIN confirmedAt : c \in DOMAIN confirmedAt' /\ confirmedAt'[c] = confirmedAt[c]
  <2>1. DOMAIN confirmedAt \subseteq DOMAIN leads
    BY DEF MemoryInv, ConversationsInv, Typed, ConversationsTypeOK
  <2>2. ASSUME NEW c, ConfirmIntake(c)
        PROVE  c \notin DOMAIN confirmedAt /\ confirmedAt' = Put(confirmedAt, c, now)
    BY <2>1, <2>2 DEF ConfirmIntake, AddLead
  <2> QED
    BY <1>1, <2>2, OtherTables DEF Put
<1> QED
  BY <1>2, <1>3 DEF MemorySteps, allVars, Beside

\* What goes on beside the memory forgets nothing and remembers nothing.
LEMMA BesideKeepsMemory ==
  ASSUME MemoryInv, Beside, now' \in Nat
  PROVE  CoverBegins' /\ ForgottenStaysForgotten'
<1>1. now \in Nat
  BY DEF MemoryInv, ConversationsInv, Typed, Times
<1> QED
  BY <1>1 DEF MemoryInv, Beside, memoryVars, CoverBegins, ForgottenStaysForgotten, Times

\* Consent ends, or the memory is erased: what was confirmed before is no longer covered.
LEMMA ForgettingKeepsMemory ==
  ASSUME MemoryInv, Withdraw \/ Erase
  PROVE  CoverBegins' /\ ForgottenStaysForgotten'
<1>1. /\ UNCHANGED <<confirmedAt, now>> /\ Forget
      /\ now \in Times /\ \A c \in DOMAIN confirmedAt : confirmedAt[c] \in Times
  BY DEF Withdraw, Erase, MemoryOnly, conversationVars, MemoryInv, ConversationsInv, Typed,
         ConversationsTypeOK
<1>2. /\ policy' \in [enabled : BOOLEAN, after : Times]
      /\ policy'.after = now
      /\ policy'.enabled \in {FALSE, policy.enabled}
  <2>1. policy \in [enabled : BOOLEAN, after : Times]
    BY DEF MemoryInv, CoverBegins
  <2>2. CASE Withdraw
    BY <1>1, <2>2 DEF Withdraw
  <2>3. CASE Erase
    BY <1>1, <2>1, <2>3 DEF Erase
  <2> QED
    BY <2>2, <2>3
<1>3. CoverBegins'
  <2>1. ASSUME NEW c \in forgotten'
        PROVE  c \in DOMAIN confirmedAt /\ confirmedAt[c] < now
    BY <1>1, <2>1 DEF Forget, MemoryInv, CoverBegins, Times
  <2> QED
    BY <1>1, <1>2, <2>1 DEF CoverBegins, Times
<1>4. facts' = Nothing /\ summaries' = {} /\ link' = NoLink
  <2>1. CASE Clear
    BY <2>1 DEF Clear
  <2>2. CASE ~policy.enabled /\ UNCHANGED <<facts, summaries, link>>
    BY <2>2 DEF MemoryInv, ForgottenStaysForgotten
  <2> QED
    BY <2>1, <2>2 DEF Withdraw, Erase
<1>5. DOMAIN Nothing = {}
  BY DEF Nothing
<1> QED
  BY <1>3, <1>4, <1>5 DEF ForgottenStaysForgotten

\* What is remembered is the customer's own word, or covered by consent.
LEMMA RememberingKeepsMemory ==
  ASSUME MemoryInv, View \/ \E key, source : Save(key, source)
  PROVE  CoverBegins' /\ ForgottenStaysForgotten'
<1>1. /\ UNCHANGED <<policy, forgotten, confirmedAt, now>>
      /\ policy.enabled
  BY DEF View, Save, MemoryOnly, conversationVars
<1>2. CoverBegins'
  BY <1>1 DEF MemoryInv, CoverBegins
<1>3. ASSUME NEW c, Covered(c)
      PROVE  c \notin forgotten
  BY <1>3 DEF Covered, MemoryInv, CoverBegins, ConversationsInv, Typed, ConversationsTypeOK, Times
<1>4. NoSource \notin forgotten
  BY MemoryAssumption
     DEF MemoryInv, CoverBegins, ConversationsInv, Typed, ConversationsTypeOK
<1>5. CASE View
  BY <1>1, <1>2, <1>3, <1>5 DEF View, MemoryInv, ForgottenStaysForgotten
<1>6. ASSUME NEW key, NEW source, Save(key, source)
      PROVE  ForgottenStaysForgotten'
  <2>1. source \notin forgotten /\ UNCHANGED summaries
    BY <1>3, <1>4, <1>6 DEF Save
  <2>2. ASSUME NEW k \in DOMAIN facts'
        PROVE  facts'[k].source \notin forgotten
    BY <1>6, <2>1, <2>2 DEF Save, Put, MemoryInv, ForgottenStaysForgotten
  <2> QED
    BY <1>1, <2>1, <2>2 DEF MemoryInv, ForgottenStaysForgotten
<1> QED
  BY <1>2, <1>5, <1>6

\* Consent is given, the retention period ends, or a fact or the link is removed.
LEMMA RemovingKeepsMemory ==
  ASSUME MemoryInv, Enable \/ Purge \/ Unlink \/ \E key : RemoveFact(key)
  PROVE  CoverBegins' /\ ForgottenStaysForgotten'
<1>1. UNCHANGED <<forgotten, confirmedAt, now>> /\ policy'.after = policy.after
      /\ policy' \in [enabled : BOOLEAN, after : Times]
  BY DEF Enable, Purge, Unlink, RemoveFact, MemoryOnly, conversationVars, MemoryInv, CoverBegins
<1>2. CoverBegins'
  BY <1>1 DEF MemoryInv, CoverBegins
<1>3. DOMAIN Nothing = {}
  BY DEF Nothing
<1>4. CASE Enable
  <2>1. policy'.enabled
    BY <1>4 DEF Enable, MemoryInv, CoverBegins
  <2> QED
    BY <1>1, <1>2, <1>3, <1>4, <2>1 DEF Enable, Clear, MemoryInv, ForgottenStaysForgotten
<1>5. ASSUME NEW kept, kept \subseteq DOMAIN facts, facts' = [k \in kept |-> facts[k]],
             summaries' \subseteq summaries, link' \in {link, NoLink}, UNCHANGED policy
      PROVE  ForgottenStaysForgotten'
  <2>1. facts = Nothing => facts' = Nothing
    BY <1>3, <1>5 DEF Nothing
  <2> QED
    BY <1>1, <1>5, <2>1 DEF MemoryInv, ForgottenStaysForgotten
<1>6. CASE Purge
  <2>1. {key \in DOMAIN facts : facts[key].updated + Retention > now} \subseteq DOMAIN facts
        /\ summaries' \subseteq summaries
    BY <1>6 DEF Purge
  <2> QED
    BY <1>2, <1>5, <1>6, <2>1 DEF Purge
<1>7. CASE Unlink
  BY <1>1, <1>2, <1>7 DEF Unlink, MemoryInv, ForgottenStaysForgotten
<1>8. ASSUME NEW key, RemoveFact(key)
      PROVE  ForgottenStaysForgotten'
  BY <1>5, <1>8 DEF RemoveFact
<1> QED
  BY <1>2, <1>4, <1>6, <1>7, <1>8

\* Linking a caller takes consent, and remembers nothing.
LEMMA LinkingKeepsMemory ==
  ASSUME MemoryInv, NEW w, BeginPairing(w) \/ ApprovePairing(w) \/ Recognise(w)
  PROVE  CoverBegins' /\ ForgottenStaysForgotten'
<1>1. /\ UNCHANGED <<forgotten, confirmedAt, now, policy, facts, summaries>>
      /\ UNCHANGED link \/ policy.enabled
  BY DEF BeginPairing, ApprovePairing, Recognise, MemoryOnly, conversationVars
<1> QED
  BY <1>1 DEF MemoryInv, CoverBegins, ForgottenStaysForgotten

\* Nothing is remembered at first.
LEMMA MemoryStarts ==
  ASSUME now = 0, ConversationsInit, MemoryInit
  PROVE  MemoryInv
<1>1. DOMAIN Nothing = {} /\ 0 \in Times
  BY ClockAssumption DEF Nothing, Times
<1> QED
  BY <1>1, InitInv DEF MemoryInit, MemoryInv, CoverBegins, ForgottenStaysForgotten

\* Every step of the memory and of what goes on beside it.
LEMMA StepKeepsMemory ==
  ASSUME MemoryInv, [MemorySteps]_allVars
  PROVE  MemoryInv'
<1>1. ConversationsInv'
  BY MemoryStepsAreSteps, StepInv DEF MemoryInv
<1>2. CASE Beside
  BY <1>1, <1>2, BesideKeepsMemory DEF MemoryInv, ConversationsInv, Typed, Times
<1>3. CASE MemoryNext
  BY <1>1, <1>3, ForgettingKeepsMemory, RememberingKeepsMemory, RemovingKeepsMemory,
     LinkingKeepsMemory DEF MemoryNext, Remember, MemoryInv
<1> QED
  BY <1>2, <1>3, IntakesStay

\* What was confirmed before the customer withdrew consent, or had the memory erased, is never
\* remembered again, however often consent comes and goes, and whatever callers are linked or
\* conversations confirmed meanwhile; without consent nothing is remembered
\* (customer_memory/service.py, set_consent, sync_summaries and prepare).
THEOREM ForgottenIsNeverRemembered == MemorySpec => []ForgottenStaysForgotten
<1>1. now = 0 /\ ConversationsInit /\ MemoryInit => MemoryInv
  BY MemoryStarts
<1>2. MemoryInv /\ [MemorySteps]_allVars => MemoryInv'
  BY StepKeepsMemory
<1> QED
  BY <1>1, <1>2, PTL DEF MemorySpec, MemorySteps, allVars, MemoryInv

----------------------------------------------------------------------------
(* The memory beside the conversations and the customer's access: what holds of each of them *)
(* by itself holds of all together.                                                           *)

\* To the customer's access, a step of the memory, of a conversation or of the desk is a stutter.
LEMMA MemoryStepsAreAccessSteps ==
  ASSUME [MemorySteps]_allVars
  PROVE  [AccessSteps]_accessNowVars
<1>1. CASE MemoryNext
  BY <1>1 DEF MemoryNext, Enable, Withdraw, Erase, View, Purge, Unlink, RemoveFact, Save,
              Remember, BeginPairing, ApprovePairing, Recognise, MemoryOnly, accessNowVars
<1>2. CASE ConversationsNext /\ UNCHANGED <<accessVars, memoryVars>>
  <2>1. UNCHANGED now
    BY <1>2 DEF ConversationsNext, Authorize, Grant, ProviderRefuses, EndSession, ConfirmIntake,
                Initialize, Consent, RequestCallback, Finalize, PhoneBegins, PhoneEnds
  <2> QED
    BY <1>2, <2>1 DEF accessNowVars
<1> QED
  BY <1>1, <1>2 DEF MemorySteps, allVars, accessNowVars, AccessSteps

\* The memory does nothing to the conversations that conversations/service.py and
\* whatsapp/service.py do not do by themselves: customer_memory/service.py and purge.py read the
\* sessions, bindings and intakes and write their own tables.
THEOREM MemoryImplementsConversations == MemorySpec => ConversationsSpec
<1>1. [MemorySteps]_allVars => [TalkSteps]_talkVars
  BY MemoryStepsAreSteps
<1> QED
  BY <1>1, PTL DEF MemorySpec, MemorySteps, allVars, ConversationsSpec, TalkSteps, talkVars

\* The memory does nothing to factors, challenges and logins that customer_access/mfa.py does not
\* do by itself: the version that a link is made with is read from the factor and never written.
THEOREM MemoryImplementsAccess == MemorySpec => AccessSpec
<1>1. [MemorySteps]_allVars => [AccessSteps]_accessNowVars
  BY MemoryStepsAreAccessSteps
<1> QED
  BY <1>1, PTL DEF MemorySpec, MemorySteps, allVars, AccessSpec, AccessSteps, accessNowVars

----------------------------------------------------------------------------
(* Types. *)

\* A handoff is added with its type.
LEMMA HandoffAdded ==
  ASSUME LeadsTypeOK, NEW k \in HandoffIds, NEW l \in LeadIds, NEW kind \in HandoffKind,
         CreateHandoff(k, l, kind)
  PROVE  LeadsTypeOK'
<1> DEFINE row == [lead |-> l, kind |-> kind, status |-> "REQUESTED"]
<1>1. row \in Handoff
  BY DEF Handoff, HandoffStatus
<1>2. handoffs' = Put(handoffs, k, row) /\ UNCHANGED leads
  BY DEF CreateHandoff
<1> HIDE DEF row
<1> QED
  BY <1>1, <1>2 DEF Put, LeadsTypeOK

\* The desk keeps the types of leads and handoffs.
LEMMA DeskKeepsLeads ==
  ASSUME LeadsTypeOK, Desk
  PROVE  LeadsTypeOK'
<1>1. ASSUME NEW l \in LeadIds, NEW s \in LeadStatus, SetLeadStatus(l, s)
      PROVE  LeadsTypeOK'
  BY <1>1 DEF SetLeadStatus, LeadsTypeOK
<1>2. ASSUME NEW k \in HandoffIds, NEW l \in LeadIds, NEW kind \in HandoffKind,
             CreateHandoff(k, l, kind)
      PROVE  LeadsTypeOK'
  BY <1>2, HandoffAdded
<1>3. ASSUME NEW h \in HandoffIds, NEW s \in HandoffStatus, SetHandoffStatus(h, s)
      PROVE  LeadsTypeOK'
  <2>1. h \in DOMAIN handoffs /\ [handoffs[h] EXCEPT !.status = s] \in Handoff
    BY <1>3 DEF SetHandoffStatus, LeadsTypeOK, Handoff
  <2> QED
    BY <1>3, <2>1 DEF SetHandoffStatus, LeadsTypeOK
<1> QED
  BY <1>1, <1>2, <1>3 DEF Desk

\* Conversations add leads and handoffs that bear their names.
LEMMA StepKeepsLeads ==
  ASSUME Typed, LeadsTypeOK, [TalkSteps]_talkVars
  PROVE  LeadsTypeOK'
<1>1. CASE UNCHANGED leadsVars
  BY <1>1 DEF leadsVars, LeadsTypeOK
<1>2. CASE Desk
  BY <1>2, DeskKeepsLeads
<1>3. ASSUME NEW c \in DOMAIN conversations, ConfirmIntake(c)
      PROVE  LeadsTypeOK'
  <2>1. c \in LeadIds /\ "NEW" \in LeadStatus
    BY ConversationsAssumption DEF Typed, ConversationsTypeOK, LeadStatus
  <2>2. leads' = Put(leads, c, "NEW") /\ UNCHANGED handoffs
    BY <1>3 DEF ConfirmIntake, AddLead
  <2> QED
    BY <2>1, <2>2 DEF Put, LeadsTypeOK
<1>4. ASSUME NEW w \in WhatsAppCalls, RequestCallback(w)
      PROVE  LeadsTypeOK'
  <2>1. w \in HandoffIds /\ w \in LeadIds /\ "CALLBACK" \in HandoffKind
    BY ConversationsAssumption DEF HandoffKind
  <2> QED
    BY <1>4, <2>1, HandoffAdded DEF RequestCallback
<1> QED
  BY <1>1, <1>2, <1>3, <1>4
     DEF TalkSteps, talkVars, ConversationsNext, Authorize, Grant, ProviderRefuses, EndSession,
         Initialize, Consent, Finalize, PhoneBegins, PhoneEnds

\* The row of a fact.
FactRow == [source : DOMAIN confirmedAt \cup {NoSource}, updated : Times]

\* The row of a pairing.
PairingRow == [expires : Nat, consumed : BOOLEAN]

\* The parts of MemoryTypeOK that CoverBegins leaves open.
FactsTyped == DOMAIN facts \subseteq FactKeys /\ facts \in [DOMAIN facts -> FactRow]

LinkTyped == link \in [verified : Times \cup {Never}, version : Nat]

PairingsTyped ==
  DOMAIN pairings \subseteq DOMAIN bindings /\ pairings \in [DOMAIN pairings -> PairingRow]

MemoryParts ==
  /\ FactsTyped /\ LinkTyped /\ PairingsTyped
  /\ summaries \subseteq DOMAIN confirmedAt
  /\ linkedCalls \subseteq DOMAIN bindings

\* MemoryTypeOK, part by part, before and after a step.
LEMMA MemoryTypeParts ==
  /\ CoverBegins => (MemoryTypeOK <=> MemoryParts)
  /\ CoverBegins' => (MemoryTypeOK' <=> MemoryParts')
<1>1. CoverBegins => (MemoryTypeOK <=> MemoryParts)
  BY DEF CoverBegins, MemoryTypeOK, MemoryParts, FactsTyped, LinkTyped, PairingsTyped, FactRow,
         PairingRow
<1>2. (CoverBegins => (MemoryTypeOK <=> MemoryParts))'
  BY <1>1, PTL
<1> QED
  BY <1>1, <1>2

\* The inductive invariant: a fact or a summary refers to an intake, a pairing to a binding, and
\* neither of these is ever deleted.
WholeInv == MemoryInv /\ AccessInv /\ LeadsTypeOK /\ MemoryTypeOK

\* Intakes and bindings are never deleted.
LEMMA BesideKeepsMemoryTypes ==
  ASSUME WholeInv, [MemorySteps]_allVars, Beside, CoverBegins'
  PROVE  MemoryTypeOK'
<1>1. DOMAIN confirmedAt \subseteq DOMAIN confirmedAt' /\ UNCHANGED memoryVars
  BY DEF Beside
<1>2. DOMAIN bindings \subseteq DOMAIN bindings'
  <2>1. UNCHANGED bindings \/ \E w \in WhatsAppCalls : Initialize(w) \/ Finalize(w)
    BY MemoryStepsAreSteps, OtherTables
  <2>2. ASSUME NEW w, Initialize(w)
        PROVE  DOMAIN bindings \subseteq DOMAIN bindings'
    BY <2>2 DEF Initialize, Put
  <2>3. ASSUME NEW w, Finalize(w)
        PROVE  DOMAIN bindings \subseteq DOMAIN bindings'
    BY <2>3 DEF Finalize
  <2> QED
    BY <2>1, <2>2, <2>3
<1>3. FactsTyped'
  <2>1. FactsTyped
    BY MemoryTypeParts DEF MemoryParts, WholeInv, MemoryInv
  <2>2. FactRow \subseteq FactRow'
    BY <1>1 DEF FactRow
  <2> QED
    BY <1>1, <2>1, <2>2 DEF FactsTyped, memoryVars
<1>4. /\ summaries \subseteq DOMAIN confirmedAt /\ linkedCalls \subseteq DOMAIN bindings
      /\ LinkTyped /\ PairingsTyped
  BY MemoryTypeParts DEF MemoryParts, WholeInv, MemoryInv
<1> QED
  BY <1>1, <1>2, <1>3, <1>4, MemoryTypeParts DEF MemoryParts, LinkTyped, PairingsTyped, PairingRow, memoryVars

\* The steps of the memory that leave pairings and linked calls alone.
LEMMA RememberingKeepsTypes ==
  ASSUME WholeInv, CoverBegins',
         \/ Enable \/ Withdraw \/ Erase \/ View \/ Purge \/ Unlink
         \/ \E key \in FactKeys :
              \/ RemoveFact(key)
              \/ \E source \in DOMAIN confirmedAt \cup {NoSource} : Save(key, source)
  PROVE  MemoryTypeOK'
<1>1. /\ FactsTyped /\ LinkTyped /\ PairingsTyped
      /\ summaries \subseteq DOMAIN confirmedAt /\ linkedCalls \subseteq DOMAIN bindings
      /\ now \in Times
  BY MemoryTypeParts DEF MemoryParts, WholeInv, MemoryInv, ConversationsInv, Typed
<1>2. UNCHANGED <<confirmedAt, bindings, linkedCalls>>
  BY DEF Enable, Withdraw, Erase, View, Purge, Unlink, RemoveFact, Save, MemoryOnly,
         conversationVars
<1>3. FactRow' = FactRow
  BY <1>2 DEF FactRow
<1>4. PairingsTyped'
  <2>1. UNCHANGED pairings \/ Purge
    BY DEF Enable, Withdraw, Erase, View, Unlink, RemoveFact, Save
  <2>2. ASSUME Purge
        PROVE  PairingsTyped'
    BY <1>1, <1>2, <2>2 DEF Purge, PairingsTyped
  <2> QED
    BY <1>1, <1>2, <2>1, <2>2 DEF PairingsTyped, PairingRow
<1>5. LinkTyped'
  <2>1. link' \in {link, NoLink}
    BY DEF Enable, Withdraw, Erase, View, Purge, Unlink, RemoveFact, Save, Clear
  <2> QED
    BY <1>1, <2>1 DEF LinkTyped, NoLink
<1>6. summaries' \subseteq DOMAIN confirmedAt'
  BY <1>1, <1>2 DEF Enable, Withdraw, Erase, View, Purge, Unlink, RemoveFact, Save, Clear
<1>7. FactsTyped'
  <2>1. ASSUME NEW kept, kept \subseteq DOMAIN facts, facts' = [k \in kept |-> facts[k]]
        PROVE  FactsTyped'
    BY <1>1, <1>3, <2>1 DEF FactsTyped
  <2>2. ASSUME NEW key \in FactKeys, NEW source \in DOMAIN confirmedAt \cup {NoSource},
               Save(key, source)
        PROVE  FactsTyped'
    <3> DEFINE row == [source |-> source, updated |-> now]
    <3>1. row \in FactRow /\ facts' = Put(facts, key, row)
      BY <1>1, <2>2 DEF FactRow, Save
    <3> HIDE DEF row
    <3> QED
      BY <1>1, <1>3, <3>1 DEF Put, FactsTyped
  <2>3. facts' = Nothing => FactsTyped'
    BY DEF Nothing, FactsTyped
  <2>4. UNCHANGED facts => FactsTyped'
    BY <1>1, <1>3 DEF FactsTyped
  <2>5. CASE Purge
    BY <2>1, <2>5 DEF Purge
  <2>6. ASSUME NEW key \in FactKeys, RemoveFact(key)
        PROVE  FactsTyped'
    BY <2>1, <2>6 DEF RemoveFact
  <2>7. CASE Enable \/ Withdraw \/ Erase \/ View \/ Unlink
    BY <2>3, <2>4, <2>7 DEF Enable, Withdraw, Erase, View, Unlink, Clear
  <2> QED
    BY <2>2, <2>5, <2>6, <2>7
<1> QED
  BY <1>1, <1>2, <1>4, <1>5, <1>6, <1>7, MemoryTypeParts DEF MemoryParts

\* Linking a caller: the link bears the version of the factor that the customer is signed in with.
LEMMA LinkingKeepsTypes ==
  ASSUME WholeInv, CoverBegins', NEW w \in DOMAIN bindings,
         BeginPairing(w) \/ ApprovePairing(w) \/ Recognise(w)
  PROVE  MemoryTypeOK'
<1>1. /\ FactsTyped /\ LinkTyped /\ PairingsTyped
      /\ summaries \subseteq DOMAIN confirmedAt /\ linkedCalls \subseteq DOMAIN bindings
      /\ now \in Times
  BY MemoryTypeParts DEF MemoryParts, WholeInv, MemoryInv, ConversationsInv, Typed
<1>2. /\ UNCHANGED <<confirmedAt, bindings, facts, summaries>>
      /\ linkedCalls' \in {linkedCalls, linkedCalls \cup {w}}
  BY DEF BeginPairing, ApprovePairing, Recognise, MemoryOnly, conversationVars
<1>3. FactsTyped'
  BY <1>1, <1>2 DEF FactsTyped, FactRow
<1>4. LinkTyped'
  <2>1. factor.version \in Nat
    BY DEF WholeInv, AccessInv, CountInv, AccessTyped, AccessTypeOK, Factor
  <2>2. UNCHANGED link \/ link' = [verified |-> now, version |-> factor.version]
    BY DEF BeginPairing, ApprovePairing, Recognise
  <2> QED
    BY <1>1, <2>1, <2>2 DEF LinkTyped
<1>5. PairingsTyped'
  <2>1. CASE BeginPairing(w)
    <3> DEFINE until == IF bindings[w].expires < now + PairTicks
                        THEN bindings[w].expires ELSE now + PairTicks
               row == [consumed |-> FALSE, expires |-> until]
    <3>1. until \in Nat
      BY <1>1, MemoryAssumption
         DEF WholeInv, MemoryInv, ConversationsInv, Typed, ConversationsTypeOK, Times
    <3>2. row \in PairingRow /\ pairings' = Put(pairings, w, row)
      BY <2>1, <3>1 DEF BeginPairing, PairingRow
    <3> HIDE DEF row
    <3> QED
      BY <1>1, <1>2, <3>2 DEF Put, PairingsTyped, PairingRow
  <2>2. CASE ApprovePairing(w)
    <3>1. [pairings[w] EXCEPT !.consumed = TRUE] \in PairingRow
      BY <1>1, <2>2 DEF ApprovePairing, PairingsTyped, PairingRow
    <3> QED
      BY <1>1, <1>2, <2>2, <3>1 DEF ApprovePairing, PairingsTyped, PairingRow
  <2>3. CASE Recognise(w)
    BY <1>1, <1>2, <2>3 DEF Recognise, PairingsTyped, PairingRow
  <2> QED
    BY <2>1, <2>2, <2>3
<1> QED
  BY <1>1, <1>2, <1>3, <1>4, <1>5, MemoryTypeParts DEF MemoryParts

\* Every step of the memory and of what goes on beside it.
LEMMA StepKeepsWhole ==
  ASSUME WholeInv, [MemorySteps]_allVars
  PROVE  WholeInv'
<1>1. MemoryInv'
  BY StepKeepsMemory DEF WholeInv
<1>2. AccessInv' /\ LeadsTypeOK'
  BY MemoryStepsAreAccessSteps, MemoryStepsAreSteps, StepKeepsAccess, StepKeepsLeads
     DEF WholeInv, MemoryInv, ConversationsInv
<1>3. ASSUME Beside
      PROVE  MemoryTypeOK'
  BY <1>1, <1>3, BesideKeepsMemoryTypes DEF MemoryInv
<1>4. ASSUME MemoryNext
      PROVE  MemoryTypeOK'
  BY <1>1, <1>4, RememberingKeepsTypes, LinkingKeepsTypes DEF MemoryNext, Remember, MemoryInv
<1> QED
  BY <1>1, <1>2, <1>3, <1>4, IntakesStay DEF WholeInv, MemoryInv

\* The tables are empty at first.
LEMMA WholeStarts ==
  ASSUME now = 0, ConversationsInit, LeadsInit, AccessInit, MemoryInit
  PROVE  WholeInv
<1>1. DOMAIN Nothing = {} /\ Nothing = << >> /\ 0 \in Times
  BY ClockAssumption DEF Nothing, Times
<1>2. MemoryInv
  BY MemoryStarts
<1>3. LeadsTypeOK
  BY <1>1 DEF LeadsInit, LeadsTypeOK
<1>4. FactsTyped /\ LinkTyped /\ PairingsTyped
  BY <1>1 DEF MemoryInit, FactsTyped, LinkTyped, NoLink, PairingsTyped
<1> QED
  BY <1>2, <1>3, <1>4, AccessStarts, MemoryTypeParts DEF MemoryParts, WholeInv, MemoryInit, MemoryInv

\* The memory refers to what exists: facts and summaries to confirmed intakes, pairings and linked
\* calls to bindings of WhatsApp, though intakes and calls are written by others
\* (customer_memory/service.py, save, sync_summaries, begin_pairing and approve_pairing;
\* database/models/customer_memory.py).
THEOREM MemoryIsTyped == MemorySpec => [](MemoryTypeOK /\ LeadsTypeOK)
<1>1. now = 0 /\ ConversationsInit /\ LeadsInit /\ AccessInit /\ MemoryInit => WholeInv
  BY WholeStarts
<1>2. WholeInv /\ [MemorySteps]_allVars => WholeInv'
  BY StepKeepsWhole
<1>3. WholeInv => MemoryTypeOK /\ LeadsTypeOK
  BY DEF WholeInv
<1> QED
  BY <1>1, <1>2, <1>3, PTL DEF MemorySpec, MemorySteps, allVars
=============================================================================
