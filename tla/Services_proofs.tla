--------------------------- MODULE Services_proofs --------------------------
(***************************************************************************)
(* Proofs about HomepageChat, ApprovedFaqs and BookingJobs (a visitor gets *)
(* one answer, an approved question its own answer or none, a row of work  *)
(* is passed over only so often), and about all services as MCServices     *)
(* puts them together.                                                     *)
(***************************************************************************)
EXTENDS MCServices, Conversations_proofs, FiniteSetTheorems, WellFoundedInduction, TLAPS

----------------------------------------------------------------------------
(* The homepage chat. *)

\* A step of ChatSpec.
ChatSteps == ChatNext \/ (Tick /\ UNCHANGED chatVars)

allChatVars == <<chatVars, now>>

\* A handler's reservation stands as long as the handler is at work, nobody else works for its
\* visitor, and it alone has sent a message.
HandlersOwn ==
  \A h \in handlers :
    /\ visitors[h.visitor].state = "PROCESSING"
    /\ visitors[h.visitor].request = h.request
    /\ messages[h.visitor] = IF h.sent THEN 1 ELSE 0
    /\ \A g \in handlers : g.visitor = h.visitor => g = h

\* Who has no row has sent nothing.
StrangersAreSilent == \A v \in Visitors \ DOMAIN visitors : messages[v] = 0

\* The inductive invariant.
ChatInv == ChatTypeOK /\ now \in Nat /\ HandlersOwn /\ StrangersAreSilent /\ AnsweredOnce

\* No visitor, no handler, no message.
LEMMA ChatStarts ==
  ASSUME now = 0, ChatInit
  PROVE  ChatInv
<1>1. visitors = << >> /\ DOMAIN visitors = {} /\ handlers = {}
  BY DEF ChatInit, Nothing
<1>2. ChatTypeOK
  BY <1>1, ChatAssumption DEF ChatInit, ChatTypeOK
<1> QED
  BY <1>1, <1>2 DEF ChatInit, ChatInv, HandlersOwn, StrangersAreSilent, AnsweredOnce

\* A reservation is made for a visitor who has no handler and sent nothing.
LEMMA ReserveKeepsChat ==
  ASSUME ChatInv, NEW v \in Visitors, NEW r \in Requests, Reserve(v, r)
  PROVE  ChatInv'
<1> DEFINE row == [state |-> "PROCESSING", request |-> r, lease |-> now + Lease]
           own == [visitor |-> v, request |-> r, sent |-> FALSE]
<1>1. row \in [state : VisitorState, request : Requests, lease : Nat]
  BY ChatAssumption DEF ChatInv, VisitorState
<1>2. /\ visitors' = Put(visitors, v, row) /\ handlers' = handlers \cup {own}
      /\ UNCHANGED <<messages, now>>
  BY DEF Reserve
<1>3. row.state = "PROCESSING" /\ row.request = r
  OBVIOUS
<1> HIDE DEF row
<1>4. /\ DOMAIN visitors' = DOMAIN visitors \cup {v}
      /\ visitors' \in [DOMAIN visitors' -> [state : VisitorState, request : Requests, lease : Nat]]
      /\ visitors'[v] = row
      /\ \A u \in DOMAIN visitors \ {v} : visitors'[u] = visitors[u]
  BY <1>1, <1>2 DEF Put, ChatInv, ChatTypeOK
<1>5. generations' \in [0..DayOf(MaxTime) -> 0..ChatsPerDay]
  <2> DEFINE d == DayOf(now)
             days == 0..DayOf(MaxTime)
  <2>1. /\ generations \in [days -> 0..ChatsPerDay] /\ generations[d] < ChatsPerDay
        /\ generations' = [generations EXCEPT ![d] = generations[d] + 1]
    BY DEF Reserve, ChatInv, ChatTypeOK
  <2> HIDE DEF d, days
  <2>2. d \in days => generations[d] + 1 \in 0..ChatsPerDay
    BY <2>1, ChatAssumption
  <2>3. generations' \in [days -> 0..ChatsPerDay]
    BY <2>1, <2>2
  <2> QED
    BY <2>3 DEF days
<1>6. own \in [visitor : DOMAIN visitors', request : Requests, sent : BOOLEAN]
  BY <1>4
<1>7. ChatTypeOK'
  BY <1>2, <1>4, <1>5, <1>6 DEF ChatInv, ChatTypeOK
<1>8. \A h \in handlers : h.visitor \in DOMAIN visitors /\ h.visitor # v
  BY DEF ChatInv, ChatTypeOK, HandlersOwn, Reserve, MayReserve
<1>9. messages[v] = 0
  BY DEF ChatInv, StrangersAreSilent, AnsweredOnce, Reserve, MayReserve
<1>10. HandlersOwn'
  <2>1. ASSUME NEW h \in handlers
        PROVE  /\ visitors'[h.visitor] = visitors[h.visitor]
               /\ \A g \in handlers' : g.visitor = h.visitor => g \in handlers
    BY <1>2, <1>4, <1>8
  <2>2. \A g \in handlers' : g.visitor = v => g = own
    BY <1>2, <1>8
  <2>3. /\ own.visitor = v /\ own.request = r /\ ~own.sent
        /\ visitors'[v].state = "PROCESSING" /\ visitors'[v].request = r
    BY <1>3, <1>4
  <2>4. ASSUME NEW h \in handlers', h # own
        PROVE  h \in handlers
    BY <1>2, <2>4
  <2> HIDE DEF own
  <2> QED
    BY <1>2, <1>9, <2>1, <2>2, <2>3, <2>4 DEF ChatInv, HandlersOwn
<1>11. StrangersAreSilent' /\ AnsweredOnce'
  BY <1>2, <1>3, <1>4 DEF ChatInv, StrangersAreSilent, AnsweredOnce
<1> QED
  BY <1>2, <1>7, <1>10, <1>11 DEF ChatInv

\* A message goes out once for a handler, whose visitor has sent none.
LEMMA SendKeepsChat ==
  ASSUME ChatInv, NEW h, SendMessage(h)
  PROVE  ChatInv'
<1> DEFINE sent == [h EXCEPT !.sent = TRUE]
<1>1. /\ h \in [visitor : DOMAIN visitors, request : Requests, sent : BOOLEAN]
      /\ h \in handlers /\ ~h.sent /\ handlers' = (handlers \ {h}) \cup {sent}
      /\ messages' = [messages EXCEPT ![h.visitor] = @ + 1]
      /\ UNCHANGED <<visitors, generations, now>>
      /\ h.visitor \in Visitors
  BY DEF SendMessage, ChatInv, ChatTypeOK
<1>2. /\ sent \in [visitor : DOMAIN visitors, request : Requests, sent : BOOLEAN]
      /\ sent.visitor = h.visitor /\ sent.request = h.request /\ sent.sent
  BY <1>1
<1> HIDE DEF sent
<1>3. messages[h.visitor] = 0 /\ visitors[h.visitor].state = "PROCESSING"
      /\ visitors[h.visitor].request = h.request
  BY <1>1 DEF ChatInv, HandlersOwn
<1>4. /\ messages' \in [Visitors -> Nat] /\ messages'[h.visitor] = 1
      /\ \A v \in Visitors \ {h.visitor} : messages'[v] = messages[v]
  BY <1>1, <1>3 DEF ChatInv, ChatTypeOK
<1>5. ChatTypeOK'
  BY <1>1, <1>2, <1>4 DEF ChatInv, ChatTypeOK
<1>6. \A g \in handlers \ {h} : g.visitor \in Visitors /\ g.visitor # h.visitor
  BY <1>1 DEF ChatInv, ChatTypeOK, HandlersOwn
<1>7. HandlersOwn'
  <2>1. ASSUME NEW g \in handlers \ {h}
        PROVE  /\ messages'[g.visitor] = messages[g.visitor]
               /\ \A f \in handlers' : f.visitor = g.visitor => f \in handlers
    BY <1>1, <1>2, <1>4, <1>6
  <2>2. \A g \in handlers' : g.visitor = sent.visitor => g = sent
    BY <1>1, <1>2, <1>6
  <2> QED
    BY <1>1, <1>2, <1>3, <1>4, <2>1, <2>2 DEF ChatInv, HandlersOwn
<1>8. StrangersAreSilent' /\ AnsweredOnce'
  BY <1>1, <1>3, <1>4 DEF ChatInv, ChatTypeOK, StrangersAreSilent, AnsweredOnce
<1> QED
  BY <1>1, <1>5, <1>7, <1>8 DEF ChatInv

\* A handler that ends makes its visitor ready again only if it has sent nothing.
LEMMA FinishKeepsChat ==
  ASSUME ChatInv, NEW h, Finish(h)
  PROVE  ChatInv'
<1>1. /\ h \in [visitor : DOMAIN visitors, request : Requests, sent : BOOLEAN]
      /\ h \in handlers /\ handlers' = handlers \ {h}
      /\ UNCHANGED <<generations, messages, now>>
      /\ h.visitor \in Visitors
  BY DEF Finish, ChatInv, ChatTypeOK
<1>2. PICK used \in BOOLEAN : visitors' = Settled(h, used) /\ (h.sent => used)
  BY <1>1 DEF Finish
<1>3. visitors' = [visitors EXCEPT ![h.visitor].state = IF used THEN "USED" ELSE "READY",
                                   ![h.visitor].lease = 0]
  BY <1>1, <1>2 DEF Settled, ChatInv, HandlersOwn
<1>4. /\ DOMAIN visitors' = DOMAIN visitors
      /\ visitors' \in [DOMAIN visitors -> [state : VisitorState, request : Requests, lease : Nat]]
      /\ visitors'[h.visitor].state = IF used THEN "USED" ELSE "READY"
      /\ \A v \in DOMAIN visitors \ {h.visitor} : visitors'[v] = visitors[v]
  BY <1>1, <1>3 DEF ChatInv, ChatTypeOK, VisitorState
<1>5. ChatTypeOK'
  BY <1>1, <1>4 DEF ChatInv, ChatTypeOK
<1>6. \A g \in handlers' : g \in handlers /\ g.visitor \in DOMAIN visitors \ {h.visitor}
  BY <1>1 DEF ChatInv, ChatTypeOK, HandlersOwn
<1>7. HandlersOwn'
  BY <1>1, <1>4, <1>6 DEF ChatInv, HandlersOwn
<1>8. ~used => messages[h.visitor] = 0
  BY <1>1, <1>2 DEF ChatInv, HandlersOwn
<1>9. StrangersAreSilent' /\ AnsweredOnce'
  BY <1>1, <1>4, <1>8 DEF ChatInv, StrangersAreSilent, AnsweredOnce
<1> QED
  BY <1>1, <1>5, <1>7, <1>9 DEF ChatInv

\* The steps of all handlers keep the invariant.
LEMMA StepKeepsChat ==
  ASSUME ChatInv, [ChatSteps]_allChatVars
  PROVE  ChatInv'
<1>1. ASSUME NEW h, Die(h)
      PROVE  ChatInv'
  BY <1>1 DEF Die, ChatInv, ChatTypeOK, HandlersOwn, StrangersAreSilent, AnsweredOnce
<1>2. CASE (Tick /\ UNCHANGED chatVars) \/ UNCHANGED allChatVars
  BY <1>2 DEF Tick, chatVars, allChatVars, ChatInv, ChatTypeOK, HandlersOwn,
              StrangersAreSilent, AnsweredOnce
<1> QED
  BY <1>1, <1>2, ReserveKeepsChat, SendKeepsChat, FinishKeepsChat DEF ChatSteps, ChatNext

\* The chat by itself.
LEMMA ChatInvariant == ChatSpec => []ChatInv
<1>1. now = 0 /\ ChatInit => ChatInv
  BY ChatStarts
<1>2. ChatInv /\ [ChatSteps]_allChatVars => ChatInv'
  BY StepKeepsChat
<1> QED
  BY <1>1, <1>2, PTL DEF ChatSpec, ChatSteps, allChatVars

\* A visitor's row and the requests under way have their types, and requests belong to visitors.
THEOREM ChatIsTyped == ChatSpec => []ChatTypeOK
<1>1. ChatInv => ChatTypeOK
  BY DEF ChatInv
<1> QED
  BY <1>1, ChatInvariant, PTL

\* One message at most goes out for a visitor, and a visitor who may ask again has sent none,
\* however many visitors and handlers there are, and whichever of them die or outlive their lease
\* (homepage_chat/service.py, _reserve and _finish).
THEOREM VisitorsAreAnsweredOnce == ChatSpec => []AnsweredOnce
<1>1. ChatInv => AnsweredOnce
  BY DEF ChatInv
<1> QED
  BY <1>1, ChatInvariant, PTL

----------------------------------------------------------------------------
(* Products of natural numbers. *)

\* Products keep the order of their factors.
LEMMA ProductsGrow ==
  ASSUME NEW m \in Nat, NEW n \in Nat, NEW k \in Nat, m <= n
  PROVE  m * k \in Nat /\ n * k \in Nat /\ m * k <= n * k
<1>1. PICK e \in Nat : n = m + e
  <2>1. n - m \in Nat /\ n = m + (n - m)
    OBVIOUS
  <2> QED
    BY <2>1
<1>2. n * k = m * k + e * k /\ e * k \in Nat /\ m * k \in Nat
  BY <1>1
<1> QED
  BY <1>2

\* And factors keep the order of products.
LEMMA FactorsGrow ==
  ASSUME NEW m \in Nat, NEW n \in Nat, NEW k \in Nat \ {0}
  PROVE  m * k <= n * k <=> m <= n
<1>1. ASSUME n < m
      PROVE  n * k < m * k
  <2>1. (n + 1) * k <= m * k
    BY <1>1, ProductsGrow
  <2>2. (n + 1) * k = n * k + k /\ n * k \in Nat /\ m * k \in Nat
    OBVIOUS
  <2> QED
    BY <2>1, <2>2
<1>2. m <= n => m * k <= n * k
  BY ProductsGrow
<1>3. m * k \in Nat /\ n * k \in Nat
  OBVIOUS
<1> QED
  BY <1>1, <1>2, <1>3

\* A fraction with a denominator.
Fraction == [over : Nat, under : Nat \ {0}]

AtLeast(s, t) == t.over * s.under <= s.over * t.under

\* Exceeds() by nothing compares fractions.
LEMMA ExceedsIsOrder ==
  ASSUME NEW s \in Fraction, NEW t \in Fraction
  PROVE  Exceeds(s, t, 0) <=> AtLeast(s, t)
<1>1. s.over * t.under \in Nat /\ t.over * s.under \in Nat /\ s.under * t.under \in Nat
  BY DEF Fraction
<1>2. 3 * 0 * s.under * t.under = 0
  <2>1. \A m, n \in Nat : 3 * 0 * m * n = 0
    OBVIOUS
  <2> QED
    BY <2>1 DEF Fraction
<1> QED
  BY <1>1, <1>2 DEF Exceeds, AtLeast

\* The order of fractions is transitive, and strict where one of its steps is.
LEMMA FractionsChain ==
  ASSUME NEW s \in Fraction, NEW t \in Fraction, NEW u \in Fraction,
         AtLeast(s, t), AtLeast(t, u)
  PROVE  /\ AtLeast(s, u)
         /\ ~AtLeast(t, s) \/ ~AtLeast(u, t) => ~AtLeast(u, s)
<1>1. ASSUME NEW x \in Fraction, NEW y \in Fraction, NEW z \in Fraction,
             AtLeast(x, y), AtLeast(y, z)
      PROVE  AtLeast(x, z)
  <2> DEFINE a == x.over  b == x.under  c == y.over  d == y.under  e == z.over  f == z.under
  <2>1. /\ a \in Nat /\ c \in Nat /\ e \in Nat
        /\ b \in Nat \ {0} /\ d \in Nat \ {0} /\ f \in Nat \ {0}
    BY DEF Fraction
  <2>2. c * b <= a * d /\ e * d <= c * f
    BY <1>1 DEF AtLeast
  <2> HIDE DEF a, b, c, d, e, f
  <2>3. c * b \in Nat /\ a * d \in Nat /\ e * d \in Nat /\ c * f \in Nat
        /\ e * b \in Nat /\ a * f \in Nat
    BY <2>1
  <2>4. (c * b) * f <= (a * d) * f /\ (e * d) * b <= (c * f) * b
    BY <2>1, <2>2, <2>3, ProductsGrow
  <2>5. /\ (c * b) * f = (c * f) * b
        /\ (e * d) * b = (e * b) * d
        /\ (a * d) * f = (a * f) * d
    BY <2>1
  <2>6. (e * b) * d <= (a * f) * d
    <3>1. (c * b) * f \in Nat /\ (e * b) * d \in Nat /\ (a * f) * d \in Nat
      BY <2>1, <2>3
    <3> QED
      BY <2>4, <2>5, <3>1
  <2>7. e * b <= a * f
    BY <2>1, <2>3, <2>6, FactorsGrow
  <2> QED
    BY <2>7 DEF AtLeast, a, b, e, f
<1>2. AtLeast(s, u)
  BY <1>1
<1>3. AtLeast(u, s) => AtLeast(t, s) /\ AtLeast(u, t)
  BY <1>1
<1> QED
  BY <1>2, <1>3

\* Any two fractions can be compared.
LEMMA FractionsCompare ==
  ASSUME NEW s \in Fraction, NEW t \in Fraction
  PROVE  AtLeast(s, t) \/ AtLeast(t, s)
<1>1. s.over * t.under \in Nat /\ t.over * s.under \in Nat
  BY DEF Fraction
<1> QED
  BY <1>1 DEF AtLeast

----------------------------------------------------------------------------
(* The first of a finite set. *)

\* Natural numbers have a least one.
LEMMA LeastNumber ==
  ASSUME NEW T, T \subseteq Nat, T # {}
  PROVE  \E n \in T : \A m \in T : n <= m
<1>1. PICK n \in T : \A m \in T : ~(<<m, n>> \in OpToRel(<, Nat))
  BY WFMin, NatLessThanWellFounded
<1>2. ASSUME NEW m \in T
      PROVE  n <= m
  <2>1. ~(m < n)
    BY <1>1 DEF OpToRel
  <2> QED
    BY <2>1
<1> QED
  BY <1>2

\* A finite set has an element that comes before all others of it.
LEMMA FiniteFirst ==
  ASSUME NEW S, IsFiniteSet(S), S # {}, NEW R,
         \A a, b \in S : <<a, b>> \in R \/ <<b, a>> \in R,
         \A a, b, c \in S : <<a, b>> \in R /\ <<b, c>> \in R => <<a, c>> \in R
  PROVE  \E a \in S : \A b \in S : <<a, b>> \in R
<1> DEFINE First(U) == \E a \in U : \A b \in U : <<a, b>> \in R
           lost == {n \in Nat : \E U \in SUBSET S : U # {} /\ Cardinality(U) = n /\ ~First(U)}
<1> SUFFICES ASSUME ~First(S) PROVE FALSE
  OBVIOUS
<1>1. Cardinality(S) \in lost
  BY FS_CardinalityType
<1>2. PICK n \in lost : \A m \in lost : n <= m
  BY <1>1, LeastNumber
<1>3. PICK U \in SUBSET S : U # {} /\ Cardinality(U) = n /\ ~First(U)
  BY <1>2
<1>4. PICK e : e \in U
  BY <1>3
<1> DEFINE V == U \ {e}
<1>5. /\ IsFiniteSet(V) /\ Cardinality(V) = n - 1 /\ Cardinality(V) \in Nat
      /\ V \subseteq S /\ n \in Nat
  <2>1. IsFiniteSet(U)
    BY <1>3, FS_Subset
  <2>2. IsFiniteSet(V) /\ Cardinality(V) = n - 1
    BY <1>3, <1>4, <2>1, FS_RemoveElement
  <2> QED
    BY <2>2, FS_CardinalityType
<1>6. Cardinality(V) \notin lost
  <2> HIDE DEF V, lost
  <2> QED
    BY <1>2, <1>5
<1>7. CASE V = {}
  <2>1. U = {e} /\ <<e, e>> \in R
    BY <1>3, <1>4, <1>7
  <2> QED
    BY <1>3, <2>1
<1>8. CASE V # {}
  <2>1. First(V)
    BY <1>5, <1>6, <1>8
  <2>2. PICK a \in V : \A b \in V : <<a, b>> \in R
    BY <2>1
  <2>3. CASE <<a, e>> \in R
    BY <1>3, <2>2, <2>3
  <2>4. CASE <<e, a>> \in R
    <3>1. \A b \in U : <<e, b>> \in R
      BY <1>3, <1>4, <2>2, <2>4
    <3> QED
      BY <1>3, <1>4, <3>1
  <2> QED
    BY <1>3, <1>4, <2>2, <2>3, <2>4
<1> QED
  BY <1>7, <1>8

----------------------------------------------------------------------------
(* Approved answers. *)

\* The inductive invariant.
FaqsInv == FaqsTypeOK /\ IsFiniteSet(DOMAIN faqs)

\* No row at first.
LEMMA FaqsStart ==
  ASSUME FaqsInit
  PROVE  FaqsInv
<1>1. DOMAIN Nothing = {} /\ Nothing = << >>
  BY DEF Nothing
<1> QED
  BY <1>1, FS_EmptySet DEF FaqsInit, FaqsInv, FaqsTypeOK

\* Staff keep the table's type; rows are archived and never removed.
LEMMA StepKeepsFaqs ==
  ASSUME FaqsInv, [FaqsNext]_faqs
  PROVE  FaqsInv'
<1>1. ASSUME NEW id \in FaqIds, NEW question \in Questions, NEW active \in BOOLEAN,
             CreateFaq(id, question, active)
      PROVE  FaqsInv'
  <2> DEFINE row == [question |-> question, active |-> active]
  <2>1. row \in [question : Questions, active : BOOLEAN] /\ faqs' = Put(faqs, id, row)
    BY <1>1 DEF CreateFaq
  <2> HIDE DEF row
  <2>2. /\ DOMAIN faqs' = DOMAIN faqs \cup {id}
        /\ faqs' \in [DOMAIN faqs' -> [question : Questions, active : BOOLEAN]]
    BY <2>1 DEF Put, FaqsInv, FaqsTypeOK
  <2> QED
    BY <2>2, FS_AddElement DEF FaqsInv, FaqsTypeOK
<1>2. ASSUME NEW id \in FaqIds, NEW question \in Questions, UpdateFaq(id, question)
      PROVE  FaqsInv'
  BY <1>2 DEF UpdateFaq, FaqsInv, FaqsTypeOK
<1>3. ASSUME NEW id \in FaqIds, NEW active \in BOOLEAN, SetFaqStatus(id, active)
      PROVE  FaqsInv'
  BY <1>3 DEF SetFaqStatus, FaqsInv, FaqsTypeOK
<1>4. CASE UNCHANGED faqs
  BY <1>4 DEF FaqsInv, FaqsTypeOK
<1> QED
  BY <1>1, <1>2, <1>3, <1>4 DEF FaqsNext

\* The agency's answers by themselves.
LEMMA FaqsInvariant == FaqsSpec => []FaqsInv
<1>1. FaqsInit => FaqsInv
  BY FaqsStart
<1>2. FaqsInv /\ [FaqsNext]_faqs => FaqsInv'
  BY StepKeepsFaqs
<1> QED
  BY <1>1, <1>2, PTL DEF FaqsSpec

\* Every row has a question the agency may ask and a status, and no id of another table, whatever
\* staff create, reword, archive and restore (approved_faqs/service.py).
THEOREM FaqsAreTyped == FaqsSpec => []FaqsTypeOK
<1>1. FaqsInv => FaqsTypeOK
  BY DEF FaqsInv
<1> QED
  BY <1>1, FaqsInvariant, PTL

\* The words of a question are finitely many.
LEMMA TokensAreFinite ==
  ASSUME NEW question \in Questions
  PROVE  IsFiniteSet(Tokens(question)) /\ Cardinality(Tokens(question)) \in Nat
<1>1. question \in Seq(Range(question))
  BY FaqsAssumption
<1>2. question \in Surjection(1..Len(question), Range(question))
  BY <1>1 DEF Surjection, Range
<1>3. IsFiniteSet(Range(question))
  BY <1>1, <1>2, FS_Interval, FS_Surjection
<1> QED
  BY <1>3, FS_Subset, FS_CardinalityType DEF Tokens

\* A score is a fraction, of at most one.
LEMMA ScoresAreFractions ==
  ASSUME NEW query \in Questions, NEW question \in Questions
  PROVE  /\ Score(query, question) \in Fraction
         /\ Score(query, question).over <= 3 * Score(query, question).under
<1> DEFINE asked == Tokens(query)
           known == Tokens(question)
           a == Cardinality(asked)
           k == Cardinality(known)
           o == Cardinality(asked \cap known)
           score == [over |-> o * (2 * a + k), under |-> a * k]
<1>1. /\ IsFiniteSet(asked) /\ IsFiniteSet(known) /\ a \in Nat /\ k \in Nat
  BY TokensAreFinite
<1>2. /\ o \in Nat /\ o <= a /\ o <= k
  BY <1>1, FS_Subset, FS_CardinalityType
<1>3. ASSUME asked # {}, known # {}
      PROVE  score \in Fraction /\ score.over <= 3 * score.under
  <2>1. a \in Nat \ {0} /\ k \in Nat \ {0}
    BY <1>1, <1>3, FS_EmptySet
  <2> HIDE DEF a, k, o
  <2>2. o * a <= k * a /\ o * k <= a * k /\ o * a \in Nat /\ o * k \in Nat
        /\ k * a = a * k /\ a * k \in Nat \ {0}
    BY <1>2, <2>1, ProductsGrow
  <2>3. o * (2 * a + k) = 2 * (o * a) + o * k
    BY <1>2, <2>1
  <2> QED
    BY <2>2, <2>3 DEF Fraction
<1>4. /\ [over |-> 3, under |-> 1] \in Fraction /\ NoScore \in Fraction
      /\ NoScore.over <= 3 * NoScore.under
  BY DEF Fraction, NoScore
<1>5. \/ Score(query, question) = [over |-> 3, under |-> 1]
      \/ Score(query, question) = NoScore
      \/ asked # {} /\ known # {} /\ Score(query, question) = score
  BY DEF Score
<1> QED
  BY <1>3, <1>4, <1>5

\* There is a best match whenever there is an active row: scores order the rows, and ids those of
\* the same score.
LEMMA BestIsActive ==
  ASSUME FaqsInv, ActiveFaqs # {}, NEW query \in Questions
  PROVE  Best(query) \in ActiveFaqs
<1> DEFINE score(id) == ScoreOf(id, query)
           Outranks(id, other) ==
             /\ AtLeast(score(id), score(other))
             /\ other < id => ~AtLeast(score(other), score(id))
           R == {pair \in ActiveFaqs \X ActiveFaqs : Outranks(pair[1], pair[2])}
<1>1. /\ IsFiniteSet(ActiveFaqs) /\ ActiveFaqs \subseteq Nat
  BY FaqsAssumption, FS_Subset DEF FaqsInv, FaqsTypeOK, ActiveFaqs
<1>2. \A id \in ActiveFaqs : score(id) \in Fraction
  BY ScoresAreFractions DEF FaqsInv, FaqsTypeOK, ActiveFaqs, ScoreOf
<1> HIDE DEF score
<1>3. \A id, other \in ActiveFaqs : Outranks(id, other) \/ Outranks(other, id)
  BY <1>1, <1>2, FractionsCompare
<1>4. ASSUME NEW a \in ActiveFaqs, NEW b \in ActiveFaqs, NEW c \in ActiveFaqs,
             Outranks(a, b), Outranks(b, c)
      PROVE  Outranks(a, c)
  <2>1. /\ AtLeast(score(a), score(c))
        /\ ~AtLeast(score(b), score(a)) \/ ~AtLeast(score(c), score(b))
             => ~AtLeast(score(c), score(a))
    BY <1>2, <1>4, FractionsChain
  <2>2. c < a => b < a \/ c < b
    BY <1>1
  <2> QED
    BY <1>4, <2>1, <2>2
<1>5. \A a, b \in ActiveFaqs : <<a, b>> \in R <=> Outranks(a, b)
  OBVIOUS
<1> HIDE DEF Outranks, R
<1>6. PICK id \in ActiveFaqs : \A other \in ActiveFaqs : <<id, other>> \in R
  BY <1>1, <1>3, <1>4, <1>5, FiniteFirst
<1>7. ASSUME NEW other \in ActiveFaqs \ {id}
      PROVE  /\ Exceeds(score(id), score(other), 0)
             /\ other < id => ~Exceeds(score(other), score(id), 0)
  BY <1>2, <1>5, <1>6, ExceedsIsOrder DEF Outranks
<1> QED
  BY <1>6, <1>7 DEF Best, score

\* The exact row is the best one, or its rival.
LEMMA ExactQuestionsMatch ==
  ASSUME FaqsInv
  PROVE  ExactQuestionIsAnswered
<1>1. ASSUME NEW id \in ActiveFaqs, Match(faqs[id].question) # NoAnswer
      PROVE  Match(faqs[id].question) = id
  <2> DEFINE query == faqs[id].question
             best == Best(query)
             score == ScoreOf(best, query)
             exact == ScoreOf(id, query)
  <2>1. query \in Questions /\ best \in ActiveFaqs
    BY <1>1, BestIsActive DEF FaqsInv, FaqsTypeOK, ActiveFaqs
  <2>2. exact = [over |-> 3, under |-> 1]
    BY DEF ScoreOf, Score
  <2>3. score \in Fraction /\ score.over <= 3 * score.under
    BY <1>1, <2>1, ScoresAreFractions DEF FaqsInv, FaqsTypeOK, ActiveFaqs, ScoreOf
  <2>4. Good(exact)
    BY <2>2 DEF Good, Exceeds, NoScore
  <2>5. ~Exceeds(score, exact, 8)
    BY <2>2, <2>3 DEF Exceeds, Fraction
  <2>6. Match(query) = best /\ Rivals(query) = {}
    BY <1>1 DEF Match
  <2>7. best # id => id \in Rivals(query)
    BY <2>4, <2>5 DEF Rivals
  <2> QED
    BY <2>6, <2>7
<1> QED
  BY <1>1 DEF ExactQuestionIsAnswered

\* Whoever asks an approved question word for word gets its own answer or none, however many
\* answers are approved and whatever words they share: a question that is as close as the exact
\* one is its rival (approved_faqs/service.py, select_faq_match).
THEOREM ExactQuestionsAreAnswered == FaqsSpec => []ExactQuestionIsAnswered
<1>1. FaqsInv => ExactQuestionIsAnswered
  BY ExactQuestionsMatch
<1> QED
  BY <1>1, FaqsInvariant, PTL

----------------------------------------------------------------------------
(* Queues of work. *)

\* A step of JobsSpec.
JobsSteps == JobsNext \/ (Tick /\ UNCHANGED jobsVars)

allJobsVars == <<jobsVars, now>>

JobsTyped ==
  /\ DOMAIN waiting \subseteq Work
  /\ waiting \in [DOMAIN waiting -> [due : Nat, passed : Nat]]
  /\ DOMAIN batches \subseteq Runners
  /\ batches \in [DOMAIN batches -> Batch]
  /\ now \in Nat

\* The lock is held by one batch.
OneGuard == \A v, w \in DOMAIN batches : batches[v].guarded /\ batches[w].guarded => v = w

\* Row r has been waiting since it became due at d.
WaitsSince(r, d) == r \in DOMAIN waiting /\ waiting[r].due = d

\* The batches that have passed r over since then.
Passed(r, d) == IF WaitsSince(r, d) THEN waiting[r].passed ELSE 0

\* The rows that wait for their turn; connections do not, new ones come first.
Waiters == {r \in Work : Queue[r] # Connections}

\* The other rows of r's queue, and those of them that come before r.
Others(r) == WorkOf(Queue[r]) \ {r}

Before(r, d) ==
  {q \in DOMAIN waiting \cap Others(r) :
     waiting[q].due < d \/ (waiting[q].due = d /\ q < r /\ WaitsSince(r, d))}

\* A row is passed over only when it is due.
PassedWhenDue ==
  \A r \in DOMAIN waiting \cap Waiters : waiting[r].due > now => waiting[r].passed = 0

\* Each batch that passed a row over has served another one that came before it, for good.
TurnsAreCounted ==
  \A r \in Waiters, d \in Nat :
    Passed(r, d) + Cardinality(Before(r, d)) <= Cardinality(Others(r))

\* When it passed the row over for the first time, it held as many rows as a batch can.
BatchesAreFull ==
  \A r \in Waiters, d \in Nat :
    Passed(r, d) > 0 => Passed(r, d) + BatchSize <= Cardinality(Others(r)) + 1

\* A batch that leaves r out has served no row of r's queue yet and can only serve rows before r,
\* or has served one of those.
Serves(w, r, d) ==
  \/ /\ Queue[r] \notin batches[w].served
     /\ \A job \in batches[w].jobs : Queue[job.row] = Queue[r] => job.row \in Before(r, d)
  \/ Passed(r, d) + Cardinality(Before(r, d)) < Cardinality(Others(r))

BatchesServe ==
  \A w \in DOMAIN batches : batches[w].guarded =>
    \A r \in Waiters, d \in Nat : <<r, d>> \in batches[w].passed =>
      /\ d <= now
      /\ Passed(r, d) + BatchSize <= Cardinality(Others(r))
      /\ Serves(w, r, d)

\* The inductive invariant.
JobsInv ==
  JobsTyped /\ OneGuard /\ PassedWhenDue /\ TurnsAreCounted /\ BatchesAreFull /\ BatchesServe

\* Rows before a row are others of its queue, and there are finitely many.
LEMMA BeforeIsFinite ==
  ASSUME NEW r, NEW d, NEW S, S \subseteq Others(r)
  PROVE  /\ IsFiniteSet(Others(r)) /\ Cardinality(Others(r)) \in Nat
         /\ IsFiniteSet(S) /\ Cardinality(S) \in Nat
         /\ Cardinality(S) <= Cardinality(Others(r))
<1>1. Others(r) \subseteq Work
  BY DEF Others, WorkOf
<1>2. IsFiniteSet(Others(r))
  BY <1>1, JobsAssumption, FS_Subset
<1> QED
  BY <1>2, FS_Subset, FS_CardinalityType

\* No row comes before r that did not before, and no batch more has passed r over.
Eases(r, d) == Before(r, d)' \subseteq Before(r, d) /\ Passed(r, d)' <= Passed(r, d)

\* How the counts of a row change when a step eases it.
LEMMA EasedCounts ==
  ASSUME JobsInv, JobsTyped', NEW r \in Waiters, NEW d \in Nat, Eases(r, d)
  PROVE  /\ Passed(r, d)' + Cardinality(Before(r, d)') <= Passed(r, d) + Cardinality(Before(r, d))
         /\ Passed(r, d)' + Cardinality(Before(r, d)') <= Cardinality(Others(r))
         /\ Before(r, d)' # Before(r, d) =>
              Passed(r, d)' + Cardinality(Before(r, d)') < Cardinality(Others(r))
<1>1. Passed(r, d) \in Nat /\ Passed(r, d)' \in Nat
  BY DEF JobsInv, JobsTyped, Passed, WaitsSince
<1>2. Before(r, d) \subseteq Others(r) /\ Before(r, d)' \subseteq Before(r, d)
  BY DEF Before, Eases
<1>3. /\ IsFiniteSet(Before(r, d)) /\ Cardinality(Before(r, d)) \in Nat
      /\ Cardinality(Before(r, d)') \in Nat /\ Cardinality(Others(r)) \in Nat
  BY <1>2, BeforeIsFinite
<1>4. /\ Cardinality(Before(r, d)') <= Cardinality(Before(r, d))
      /\ Cardinality(Before(r, d)) = Cardinality(Before(r, d)') => Before(r, d) = Before(r, d)'
  BY <1>2, <1>3, FS_Subset
<1>5. Passed(r, d) + Cardinality(Before(r, d)) <= Cardinality(Others(r))
  BY DEF JobsInv, TurnsAreCounted
<1>6. Passed(r, d)' <= Passed(r, d)
  BY DEF Eases
<1> QED
  BY <1>1, <1>3, <1>4, <1>5, <1>6

\* A step that eases every row that is due.
Easing ==
  /\ now <= now'
  /\ \A r \in Waiters, d \in Nat : d <= now => Eases(r, d)
  /\ \A r \in DOMAIN waiting' \cap Waiters : waiting'[r].due > now => waiting'[r].passed = 0

\* A row that comes before none that is due.
LastNow(q) == \A r \in Waiters, d \in Nat : d <= now => q \notin Before(r, d)'

\* A batch gets no jobs, and if it serves a row, that row comes last.
BatchesGoOn ==
  \A w \in DOMAIN batches' : batches'[w].guarded =>
    /\ w \in DOMAIN batches /\ batches[w].guarded
    /\ batches'[w].passed = batches[w].passed
    /\ batches'[w].jobs \subseteq batches[w].jobs
    /\ \A queue \in batches'[w].served \ batches[w].served :
         \E job \in batches[w].jobs : Queue[job.row] = queue /\ LastNow(job.row)

\* Such a step keeps the counts.
LEMMA EasingKeepsCounts ==
  ASSUME JobsInv, JobsTyped', Easing
  PROVE  PassedWhenDue' /\ TurnsAreCounted' /\ BatchesAreFull'
<1>1. /\ now \in Nat /\ now' \in Nat /\ now <= now'
      /\ waiting' \in [DOMAIN waiting' -> [due : Nat, passed : Nat]]
  BY DEF JobsInv, JobsTyped, Easing
<1>2. PassedWhenDue'
  BY <1>1 DEF Easing, PassedWhenDue, Waiters
<1>3. ASSUME NEW r \in Waiters, NEW d \in Nat
      PROVE  /\ Passed(r, d)' + Cardinality(Before(r, d)') <= Cardinality(Others(r))
             /\ Passed(r, d)' > 0 => Passed(r, d)' + BatchSize <= Cardinality(Others(r)) + 1
  <2>1. CASE d <= now
    <3>1. Eases(r, d)
      BY <2>1 DEF Easing
    <3>2. Passed(r, d) \in Nat /\ Passed(r, d)' \in Nat /\ Passed(r, d)' <= Passed(r, d)
      BY <3>1 DEF Eases, JobsInv, JobsTyped, Passed, WaitsSince
    <3>3. Passed(r, d) > 0 => Passed(r, d) + BatchSize <= Cardinality(Others(r)) + 1
      BY DEF JobsInv, BatchesAreFull
    <3>4. Cardinality(Others(r)) \in Nat /\ BatchSize \in Nat
      BY BeforeIsFinite, JobsAssumption
    <3>5. Passed(r, d)' > 0 => Passed(r, d)' + BatchSize <= Cardinality(Others(r)) + 1
      BY <3>2, <3>3, <3>4
    <3> QED
      BY <3>1, <3>5, EasedCounts
  <2>2. CASE ~(d <= now)
    <3>1. Passed(r, d)' = 0
      BY <1>1, <2>2 DEF Passed, WaitsSince, Easing
    <3>2. Before(r, d)' \subseteq Others(r)
      BY DEF Before
    <3> QED
      BY <3>1, <3>2, BeforeIsFinite
  <2> QED
    BY <2>1, <2>2
<1> QED
  BY <1>2, <1>3 DEF TurnsAreCounted, BatchesAreFull, Others, Waiters

\* And its batches go on to serve.
LEMMA EasingKeepsServing ==
  ASSUME JobsInv, JobsTyped', Easing, BatchesGoOn
  PROVE  OneGuard' /\ BatchesServe'
<1>1. OneGuard'
  BY DEF JobsInv, OneGuard, BatchesGoOn
<1>2. ASSUME NEW w \in DOMAIN batches', batches'[w].guarded, NEW r \in Waiters, NEW d \in Nat,
             <<r, d>> \in batches'[w].passed
      PROVE  /\ d <= now' /\ Passed(r, d)' + BatchSize <= Cardinality(Others(r))
             /\ Serves(w, r, d)'
  <2>1. /\ w \in DOMAIN batches /\ batches[w].guarded /\ <<r, d>> \in batches[w].passed
        /\ batches'[w].jobs \subseteq batches[w].jobs
    BY <1>2 DEF BatchesGoOn
  <2>2. d <= now /\ Passed(r, d) + BatchSize <= Cardinality(Others(r)) /\ Serves(w, r, d)
    BY <2>1 DEF JobsInv, BatchesServe
  <2>3. d <= now'
    BY <2>2 DEF Easing, JobsInv, JobsTyped
  <2>4. Eases(r, d)
    BY <2>2 DEF Easing
  <2>5. /\ Passed(r, d) \in Nat /\ Passed(r, d)' \in Nat /\ Passed(r, d)' <= Passed(r, d)
        /\ Cardinality(Before(r, d)) \in Nat /\ Cardinality(Before(r, d)') \in Nat
        /\ Cardinality(Others(r)) \in Nat /\ BatchSize \in Nat
    <3>1. Passed(r, d) \in Nat /\ Passed(r, d)' \in Nat
      BY DEF JobsInv, JobsTyped, Passed, WaitsSince
    <3> QED
      BY <2>4, <3>1, BeforeIsFinite, JobsAssumption DEF Before, Eases
  <2>6. Passed(r, d)' + BatchSize <= Cardinality(Others(r))
    BY <2>2, <2>5
  <2>7. CASE Passed(r, d) + Cardinality(Before(r, d)) < Cardinality(Others(r))
    <3>1. Passed(r, d)' + Cardinality(Before(r, d)') < Cardinality(Others(r))
      BY <2>4, <2>5, <2>7, EasedCounts
    <3> QED
      BY <2>3, <2>6, <3>1 DEF Serves, Others
  <2>8. CASE Before(r, d)' # Before(r, d)
    BY <2>3, <2>4, <2>6, <2>8, EasedCounts DEF Serves, Others
  <2>9. CASE /\ Before(r, d)' = Before(r, d)
             /\ Queue[r] \notin batches[w].served
             /\ \A job \in batches[w].jobs :
                  Queue[job.row] = Queue[r] => job.row \in Before(r, d)
    <3>1. Queue[r] \notin batches'[w].served
      <4>1. ASSUME Queue[r] \in batches'[w].served
            PROVE  FALSE
        <5>1. PICK job \in batches[w].jobs : Queue[job.row] = Queue[r] /\ LastNow(job.row)
          BY <1>2, <2>9, <4>1 DEF BatchesGoOn
        <5> QED
          BY <2>2, <2>9, <5>1 DEF LastNow
      <4> QED
        BY <4>1
    <3> QED
      BY <2>1, <2>3, <2>6, <2>9, <3>1 DEF Serves
  <2> QED
    BY <2>2, <2>7, <2>8, <2>9 DEF Serves
<1> QED
  BY <1>1, <1>2 DEF BatchesServe, Others, Waiters

\* A table that stays, while the clock may run.
LEMMA SameRowsEase ==
  ASSUME JobsInv, UNCHANGED waiting, now <= now'
  PROVE  Easing
<1>1. \A r, d : Before(r, d)' = Before(r, d) /\ Passed(r, d)' = Passed(r, d)
  BY DEF Before, Passed, WaitsSince, Others
<1>2. \A r, d : Passed(r, d) \in Nat
  BY DEF JobsInv, JobsTyped, Passed, WaitsSince
<1>3. \A r \in Waiters, d \in Nat : Eases(r, d)
  BY <1>1, <1>2 DEF Eases
<1> QED
  BY <1>3 DEF Easing, JobsInv, PassedWhenDue

\* A row that is added, or wanted now, comes after all that are due: no other of its queue became
\* due at the same moment.
LEMMA ScheduleEases ==
  ASSUME JobsInv, NEW j \in Work, NEW at \in Times, Schedule(j, at)
  PROVE  Easing /\ JobsTyped'
<1>1. /\ at \in Nat /\ now \in Nat /\ at >= now /\ now' = now
      /\ waiting' = Put(waiting, j, [due |-> at, passed |-> 0])
      /\ Distinct(j, at)
  BY ClockAssumption DEF Schedule, Times, JobsInv, JobsTyped
<1>2. /\ DOMAIN waiting' = DOMAIN waiting \cup {j}
      /\ waiting' \in [DOMAIN waiting' -> [due : Nat, passed : Nat]]
      /\ waiting'[j].due = at /\ waiting'[j].passed = 0
      /\ \A r \in DOMAIN waiting \ {j} : waiting'[r] = waiting[r]
  BY <1>1 DEF Put, JobsInv, JobsTyped
<1>3. JobsTyped'
  BY <1>1, <1>2 DEF Schedule, JobsInv, JobsTyped
<1>4. ASSUME NEW r \in Waiters, NEW d \in Nat, d <= now
      PROVE  Eases(r, d)
  <2>1. Passed(r, d) \in Nat
    BY DEF JobsInv, JobsTyped, Passed, WaitsSince
  <2>2. Passed(r, d)' <= Passed(r, d)
    BY <1>2, <2>1 DEF Passed, WaitsSince
  <2>3. ASSUME NEW q \in Before(r, d)'
        PROVE  q \in Before(r, d)
    <3>1. /\ q \in DOMAIN waiting' /\ q \in Others(r) /\ q # r
          /\ waiting'[q].due < d \/ (waiting'[q].due = d /\ q < r /\ WaitsSince(r, d)')
      BY <2>3 DEF Before, Others
    <3>2. Queue[q] = Queue[r] /\ q \in WorkOf(Queue[r]) /\ r \in WorkOf(Queue[r])
      BY <3>1 DEF Others, WorkOf, Waiters
    <3>3. q # j
      <4>1. ASSUME q = j
            PROVE  FALSE
        <5>1. at = d /\ r \in DOMAIN waiting /\ waiting[r].due = d
          BY <1>1, <1>2, <1>4, <3>1, <4>1 DEF WaitsSince
        <5> QED
          BY <1>1, <3>2, <4>1, <5>1 DEF Distinct
      <4> QED
        BY <4>1
    <3>4. q \in DOMAIN waiting /\ waiting'[q] = waiting[q]
      BY <1>2, <3>1, <3>3
    <3>5. waiting[q].due = d => r # j
      BY <1>1, <1>2, <1>4, <3>1, <3>2, <3>4 DEF Distinct, WaitsSince
    <3>6. r # j /\ WaitsSince(r, d)' => WaitsSince(r, d)
      BY <1>2 DEF WaitsSince
    <3>7. waiting[q].due < d \/ (waiting[q].due = d /\ q < r /\ WaitsSince(r, d))
      BY <3>1, <3>4, <3>5, <3>6
    <3> QED
      BY <3>1, <3>4, <3>7 DEF Before
  <2> QED
    BY <2>2, <2>3 DEF Eases
<1>5. \A r \in DOMAIN waiting' \cap Waiters : waiting'[r].due > now => waiting'[r].passed = 0
  BY <1>2 DEF JobsInv, PassedWhenDue
<1> QED
  BY <1>1, <1>3, <1>4, <1>5 DEF Easing

\* A connection is of no other queue than its own.
LEMMA ConnectEases ==
  ASSUME JobsInv, NEW j \in Work, NEW at \in 0..now, Connect(j, at)
  PROVE  Easing /\ JobsTyped'
<1>1. /\ at \in Nat /\ now \in Nat /\ now' = now /\ Queue[j] = Connections
      /\ waiting' = Put(waiting, j, [due |-> at, passed |-> 0])
  BY DEF Connect, WorkOf, JobsInv, JobsTyped
<1>2. /\ DOMAIN waiting' = DOMAIN waiting \cup {j}
      /\ waiting' \in [DOMAIN waiting' -> [due : Nat, passed : Nat]]
      /\ \A r \in DOMAIN waiting \ {j} : waiting'[r] = waiting[r]
  BY <1>1 DEF Put, JobsInv, JobsTyped
<1>3. JobsTyped'
  BY <1>1, <1>2 DEF Connect, JobsInv, JobsTyped
<1>4. ASSUME NEW r \in Waiters, NEW d \in Nat
      PROVE  Eases(r, d)
  <2>1. r # j /\ j \notin Others(r)
    BY <1>1 DEF Waiters, Others, WorkOf
  <2>2. WaitsSince(r, d)' <=> WaitsSince(r, d)
    BY <1>2, <2>1 DEF WaitsSince
  <2>3. Before(r, d)' \subseteq Before(r, d)
    <3>1. ASSUME NEW q \in Before(r, d)'
          PROVE  q \in Before(r, d)
      BY <1>2, <2>1, <2>2 DEF Before, Others
    <3> QED
      BY <3>1
  <2>4. Passed(r, d)' = Passed(r, d)
    BY <1>2, <2>1, <2>2 DEF Passed, WaitsSince
  <2> QED
    BY <2>3, <2>4 DEF Eases, JobsInv, JobsTyped, Passed, WaitsSince
<1>5. \A r \in DOMAIN waiting' \cap Waiters : waiting'[r].due > now => waiting'[r].passed = 0
  BY <1>1, <1>2 DEF JobsInv, PassedWhenDue, Waiters
<1> QED
  BY <1>1, <1>3, <1>4, <1>5 DEF Easing

\* A row that is settled, withdrawn or given a later time is no longer before any that is due.
LEMMA JobEases ==
  ASSUME JobsInv, NEW j \in DOMAIN waiting, waiting' \in AfterJob(j), now' = now
  PROVE  /\ Easing /\ LastNow(j)
         /\ DOMAIN waiting' \subseteq Work
         /\ waiting' \in [DOMAIN waiting' -> [due : Nat, passed : Nat]]
<1>1. /\ now \in Nat /\ RetryTicks \in Nat
      /\ waiting \in [DOMAIN waiting -> [due : Nat, passed : Nat]] /\ DOMAIN waiting \subseteq Work
  BY JobsAssumption DEF JobsInv, JobsTyped
<1>2. \/ waiting' = [q \in DOMAIN waiting \ {j} |-> waiting[q]]
      \/ \E ticks \in 1..RetryTicks :
           waiting' = Put(waiting, j, [due |-> now + ticks, passed |-> 0])
  BY DEF AfterJob, Unscheduled
<1>3. /\ DOMAIN waiting' \subseteq DOMAIN waiting
      /\ waiting' \in [DOMAIN waiting' -> [due : Nat, passed : Nat]]
      /\ \A q \in DOMAIN waiting' \ {j} : waiting'[q] = waiting[q]
      /\ j \in DOMAIN waiting' => waiting'[j].due > now /\ waiting'[j].passed = 0
  <2>1. CASE waiting' = [q \in DOMAIN waiting \ {j} |-> waiting[q]]
    BY <1>1, <2>1
  <2>2. ASSUME NEW ticks \in 1..RetryTicks,
               waiting' = Put(waiting, j, [due |-> now + ticks, passed |-> 0])
        PROVE  <1>3!:
    <3> DEFINE row == [due |-> now + ticks, passed |-> 0]
    <3>1. row \in [due : Nat, passed : Nat] /\ row.due > now /\ row.passed = 0
      BY <1>1
    <3>2. waiting' = Put(waiting, j, row)
      BY <2>2
    <3> HIDE DEF row
    <3> QED
      BY <1>1, <3>1, <3>2 DEF Put
  <2> QED
    BY <1>2, <2>1, <2>2
<1>4. ASSUME NEW r \in Waiters, NEW d \in Nat, d <= now
      PROVE  Eases(r, d) /\ j \notin Before(r, d)'
  <2>1. WaitsSince(r, d)' => r # j /\ WaitsSince(r, d)
    BY <1>1, <1>3, <1>4 DEF WaitsSince
  <2>2. j \notin Before(r, d)'
    BY <1>1, <1>3, <1>4 DEF Before
  <2>3. ASSUME NEW q \in Before(r, d)'
        PROVE  q \in Before(r, d)
    BY <1>3, <2>1, <2>2 DEF Before, Others
  <2>4. Passed(r, d) \in Nat
    BY <1>1 DEF Passed, WaitsSince
  <2>5. Passed(r, d)' <= Passed(r, d)
    BY <1>3, <2>1, <2>4 DEF Passed, WaitsSince
  <2> QED
    BY <2>2, <2>3, <2>5 DEF Eases
<1>5. \A r \in DOMAIN waiting' \cap Waiters : waiting'[r].due > now => waiting'[r].passed = 0
  BY <1>3 DEF JobsInv, PassedWhenDue
<1> QED
  BY <1>1, <1>3, <1>4, <1>5 DEF Easing, LastNow

\* Handlers that schedule, connect and withdraw rows leave the batches alone.
LEMMA HandlersKeepJobs ==
  ASSUME JobsInv, NEW j \in Work,
         \/ \E at \in Times : Schedule(j, at)
         \/ \E at \in 0..now : Connect(j, at)
         \/ WithdrawRow(j)
  PROVE  JobsInv'
<1>1. UNCHANGED batches
  BY DEF Schedule, Connect, WithdrawRow
<1>2. BatchesGoOn
  BY <1>1 DEF BatchesGoOn
<1>3. CASE WithdrawRow(j)
  <2>1. waiting' \in AfterJob(j) /\ j \in DOMAIN waiting /\ now' = now
    BY <1>3 DEF WithdrawRow, AfterJob
  <2>2. JobsTyped'
    BY <1>1, <2>1, JobEases DEF JobsInv, JobsTyped
  <2> QED
    BY <1>2, <2>1, <2>2, JobEases, EasingKeepsCounts, EasingKeepsServing DEF JobsInv
<1>4. Easing /\ JobsTyped' => JobsInv'
  BY <1>2, EasingKeepsCounts, EasingKeepsServing DEF JobsInv
<1> QED
  BY <1>3, <1>4, ScheduleEases, ConnectEases

\* A job serves its row or leaves it.
LEMMA JobKeepsJobs ==
  ASSUME JobsInv, NEW w \in Runners, ServeRow(w) \/ LeaveRow(w)
  PROVE  JobsInv'
<1>1. PICK job \in batches[w].jobs :
        /\ batches'[w].jobs = batches[w].jobs \ {job}
        /\ \/ /\ waiting' \in AfterJob(job.row) /\ job.row \in Due
              /\ batches'[w].served = batches[w].served \cup {Queue[job.row]}
           \/ UNCHANGED waiting /\ batches'[w].served = batches[w].served
        /\ batches'[w].passed = batches[w].passed
        /\ batches'[w].guarded = batches[w].guarded
        /\ DOMAIN batches' = DOMAIN batches
        /\ batches' \in [DOMAIN batches -> Batch]
        /\ \A v \in DOMAIN batches \ {w} : batches'[v] = batches[v]
  <2>1. w \in DOMAIN batches /\ batches \in [DOMAIN batches -> Batch] /\ batches[w] \in Batch
    BY DEF ServeRow, LeaveRow, JobsInv, JobsTyped
  <2>2. CASE ServeRow(w)
    <3>1. PICK job \in batches[w].jobs :
            /\ waiting' \in AfterJob(job.row) /\ job.row \in Due
            /\ batches' = [batches EXCEPT ![w].jobs = @ \ {job},
                                          ![w].served = @ \cup {Queue[job.row]}]
      BY <2>2 DEF ServeRow
    <3> DEFINE batch == [batches[w] EXCEPT !.jobs = @ \ {job},
                                          !.served = @ \cup {Queue[job.row]}]
    <3>2. job.row \in Work /\ Queue[job.row] \in {Messages, Bindings, Connections}
      BY <2>1, JobsAssumption DEF Batch
    <3>3. /\ batch \in Batch /\ batch.jobs = batches[w].jobs \ {job}
          /\ batch.served = batches[w].served \cup {Queue[job.row]}
          /\ batch.passed = batches[w].passed /\ batch.guarded = batches[w].guarded
      BY <2>1, <3>2 DEF Batch
    <3>4. batches' = [batches EXCEPT ![w] = batch]
      BY <3>1
    <3> HIDE DEF batch
    <3>5. /\ batches'[w] = batch /\ DOMAIN batches' = DOMAIN batches
          /\ batches' \in [DOMAIN batches -> Batch]
          /\ \A v \in DOMAIN batches \ {w} : batches'[v] = batches[v]
      BY <2>1, <3>3, <3>4
    <3> QED
      BY <3>1, <3>3, <3>5
  <2>3. CASE LeaveRow(w)
    <3>1. PICK job \in batches[w].jobs : batches' = [batches EXCEPT ![w].jobs = @ \ {job}]
      BY <2>3 DEF LeaveRow
    <3> DEFINE batch == [batches[w] EXCEPT !.jobs = @ \ {job}]
    <3>2. /\ batch \in Batch /\ batch.jobs = batches[w].jobs \ {job}
          /\ batch.served = batches[w].served
          /\ batch.passed = batches[w].passed /\ batch.guarded = batches[w].guarded
      BY <2>1 DEF Batch
    <3>3. batches' = [batches EXCEPT ![w] = batch]
      BY <3>1
    <3> HIDE DEF batch
    <3>4. /\ batches'[w] = batch /\ DOMAIN batches' = DOMAIN batches
          /\ batches' \in [DOMAIN batches -> Batch]
          /\ \A v \in DOMAIN batches \ {w} : batches'[v] = batches[v]
      BY <2>1, <3>2, <3>3
    <3> QED
      BY <2>3, <3>2, <3>4 DEF LeaveRow
  <2> QED
    BY <2>2, <2>3
<1>2. now' = now /\ w \in DOMAIN batches
  BY DEF ServeRow, LeaveRow
<1>3. Easing /\ JobsTyped' /\ (batches'[w].served # batches[w].served => LastNow(job.row))
  <2>1. CASE UNCHANGED waiting /\ batches'[w].served = batches[w].served
    BY <1>1, <1>2, <2>1, SameRowsEase DEF JobsInv, JobsTyped
  <2>2. CASE waiting' \in AfterJob(job.row) /\ job.row \in Due
    <3>1. job.row \in DOMAIN waiting
      BY <2>2 DEF Due
    <3> QED
      BY <1>1, <1>2, <2>2, <3>1, JobEases DEF JobsInv, JobsTyped
  <2> QED
    BY <1>1, <2>1, <2>2
<1>4. BatchesGoOn
  <2>1. ASSUME NEW queue \in batches'[w].served \ batches[w].served
        PROVE  \E other \in batches[w].jobs : Queue[other.row] = queue /\ LastNow(other.row)
    BY <1>1, <1>3, <2>1
  <2> QED
    BY <1>1, <1>2, <2>1 DEF BatchesGoOn
<1> QED
  BY <1>3, <1>4, EasingKeepsCounts, EasingKeepsServing DEF JobsInv

\* A batch that ends early or loses the lock, and the clock.
LEMMA EasingStepKeepsJobs ==
  ASSUME JobsInv, [JobsSteps]_allJobsVars,
         ~\E w \in Runners : StartBatch(w) \/ FinishBatch(w)
  PROVE  JobsInv'
<1>1. CASE (Tick /\ UNCHANGED jobsVars) \/ UNCHANGED allJobsVars
  <2>1. UNCHANGED <<waiting, batches>> /\ now <= now' /\ JobsTyped'
    BY <1>1 DEF Tick, jobsVars, allJobsVars, JobsInv, JobsTyped
  <2>2. BatchesGoOn
    BY <2>1 DEF BatchesGoOn
  <2> QED
    BY <2>1, <2>2, SameRowsEase, EasingKeepsCounts, EasingKeepsServing DEF JobsInv
<1>2. ASSUME NEW w \in Runners, BreakOff(w) \/ LoseLock(w)
      PROVE  JobsInv'
  <2>1. UNCHANGED <<waiting, now>> /\ JobsTyped'
    <3>1. CASE BreakOff(w)
      BY <3>1 DEF BreakOff, Without, JobsInv, JobsTyped
    <3>2. CASE LoseLock(w)
      <4>1. w \in DOMAIN batches /\ batches[w] \in Batch
        BY <3>2 DEF LoseLock, JobsInv, JobsTyped
      <4>2. [batches[w] EXCEPT !.guarded = FALSE] \in Batch
        BY <4>1 DEF Batch
      <4> QED
        BY <3>2, <4>2 DEF LoseLock, JobsInv, JobsTyped
    <3> QED
      BY <1>2, <3>1, <3>2
  <2>2. BatchesGoOn
    <3>1. CASE BreakOff(w)
      BY <3>1 DEF BreakOff, Without, BatchesGoOn
    <3>2. CASE LoseLock(w)
      <4>1. /\ w \in DOMAIN batches /\ DOMAIN batches' = DOMAIN batches
            /\ batches'[w] = [batches[w] EXCEPT !.guarded = FALSE]
            /\ \A v \in DOMAIN batches \ {w} : batches'[v] = batches[v]
        BY <3>2 DEF LoseLock, JobsInv, JobsTyped
      <4>2. batches[w] \in Batch
        BY <4>1 DEF JobsInv, JobsTyped
      <4>3. ~batches'[w].guarded
        BY <4>1, <4>2 DEF Batch
      <4> QED
        BY <4>1, <4>3 DEF BatchesGoOn
    <3> QED
      BY <1>2, <3>1, <3>2
  <2>3. Easing
    BY <2>1, SameRowsEase DEF JobsInv, JobsTyped
  <2> QED
    BY <2>1, <2>2, <2>3, EasingKeepsCounts, EasingKeepsServing DEF JobsInv
<1>3. CASE \E w \in Runners : ServeRow(w) \/ LeaveRow(w)
  BY <1>3, JobKeepsJobs
<1>4. CASE JobsNext
  <2>1. CASE \E w \in Runners :
               \/ StartBatch(w) \/ ServeRow(w) \/ LeaveRow(w)
               \/ FinishBatch(w) \/ BreakOff(w) \/ LoseLock(w)
    BY <1>2, <1>3, <2>1
  <2>2. CASE \E r \in Work, at \in Times : Schedule(r, at)
    BY <2>2, HandlersKeepJobs
  <2>3. CASE \E r \in Work, at \in 0..now : Connect(r, at)
    BY <2>3, HandlersKeepJobs
  <2>4. CASE \E r \in Work : WithdrawRow(r)
    BY <2>4, HandlersKeepJobs
  <2> QED
    BY <1>4, <2>1, <2>2, <2>3, <2>4 DEF JobsNext
<1> QED
  BY <1>1, <1>4 DEF JobsSteps

\* A batch that leaves a row out is full, and of the row's queue it holds only rows that come before.
LEMMA CollectedComeBefore ==
  ASSUME JobsInv, NEW r \in Due, Cardinality(Ahead(r)) >= BatchSize
  PROVE  /\ BatchSize <= Cardinality(Before(r, waiting[r].due))
         /\ \A job \in Collected :
              Queue[job.row] = Queue[r] => job.row \in Before(r, waiting[r].due)
<1> DEFINE due(q) == waiting[q].due
<1>1. /\ Due \subseteq DOMAIN waiting /\ Due \subseteq Work /\ Work \subseteq Nat /\ BatchSize \in Nat
      /\ \A q \in Due : q \in Nat /\ due(q) \in Nat
      /\ IsFiniteSet(Due)
  <2>1. Due \subseteq Work
    BY DEF Due, JobsInv, JobsTyped
  <2> QED
    BY <2>1, JobsAssumption, FS_Subset DEF Due, JobsInv, JobsTyped
<1>2. \A q, x : q \in Ahead(x) <=>
        /\ q \in Due /\ Queue[q] = Queue[x]
        /\ due(q) < due(x) \/ (due(q) = due(x) /\ q < x)
  BY DEF Ahead
<1> HIDE DEF due
<1>3. Ahead(r) \subseteq Before(r, waiting[r].due)
  <2>1. ASSUME NEW q \in Ahead(r)
        PROVE  q \in Before(r, waiting[r].due)
    <3>1. q \in DOMAIN waiting \cap Others(r)
      BY <1>1, <1>2, <2>1 DEF Others, WorkOf
    <3>2. WaitsSince(r, waiting[r].due)
      BY <1>1 DEF WaitsSince
    <3> QED
      BY <1>2, <2>1, <3>1, <3>2 DEF Before, due
  <2> QED
    BY <2>1
<1>4. BatchSize <= Cardinality(Before(r, waiting[r].due))
  <2> DEFINE B == Before(r, waiting[r].due)
  <2>1. B \subseteq Others(r)
    BY DEF Before
  <2>2. IsFiniteSet(B) /\ Cardinality(B) \in Nat
    BY <2>1, BeforeIsFinite
  <2> HIDE DEF B
  <2>3. Cardinality(Ahead(r)) <= Cardinality(B) /\ Cardinality(Ahead(r)) \in Nat
    BY <1>3, <2>2, FS_Subset, FS_CardinalityType DEF B
  <2> QED
    BY <1>1, <2>2, <2>3 DEF B
<1>5. ASSUME NEW q \in Due, Queue[q] = Queue[r], Cardinality(Ahead(q)) < BatchSize
      PROVE  q \in Ahead(r)
  <2>1. ASSUME q = r \/ r \in Ahead(q)
        PROVE  Ahead(r) \subseteq Ahead(q)
    <3>1. CASE q = r
      BY <3>1
    <3>2. ASSUME r \in Ahead(q), NEW p \in Ahead(r)
          PROVE  p \in Ahead(q)
      <4>1. /\ p \in Due /\ p \in Nat /\ q \in Nat /\ r \in Nat
            /\ due(p) \in Nat /\ due(q) \in Nat /\ due(r) \in Nat
            /\ Queue[p] = Queue[q]
            /\ due(p) < due(r) \/ (due(p) = due(r) /\ p < r)
            /\ due(r) < due(q) \/ (due(r) = due(q) /\ r < q)
        BY <1>1, <1>2, <1>5, <3>2
      <4>2. due(p) < due(q) \/ (due(p) = due(q) /\ p < q)
        BY <4>1
      <4> QED
        BY <1>2, <4>1, <4>2
    <3> QED
      BY <2>1, <3>1, <3>2
  <2>2. /\ IsFiniteSet(Ahead(q)) /\ Cardinality(Ahead(q)) \in Nat
        /\ Ahead(r) \subseteq Ahead(q) =>
             Cardinality(Ahead(r)) \in Nat /\ Cardinality(Ahead(r)) <= Cardinality(Ahead(q))
    <3>1. Ahead(q) \subseteq Due
      BY <1>2
    <3>2. IsFiniteSet(Ahead(q))
      BY <1>1, <3>1, FS_Subset
    <3> QED
      BY <3>2, FS_Subset, FS_CardinalityType
  <2>3. q # r /\ r \notin Ahead(q)
    BY <1>1, <1>5, <2>1, <2>2
  <2> QED
    BY <1>1, <1>2, <1>5, <2>3
<1>6. \A job \in Collected : Queue[job.row] = Queue[r] => job.row \in Before(r, waiting[r].due)
  BY <1>3, <1>5 DEF Collected
<1> QED
  BY <1>4, <1>6

\* A batch that starts is the only one with the lock, and has room for rows before each that it
\* leaves out.
LEMMA StartKeepsJobs ==
  ASSUME JobsInv, NEW w \in Runners, StartBatch(w)
  PROVE  JobsInv'
<1> DEFINE batch == [jobs |-> Collected, passed |-> PassedOver, served |-> {}, guarded |-> TRUE]
<1>1. /\ w \notin DOMAIN batches /\ \A v \in DOMAIN batches : ~batches[v].guarded
      /\ batches' = Put(batches, w, batch) /\ UNCHANGED <<waiting, now>>
      /\ batches \in [DOMAIN batches -> Batch]
  BY DEF StartBatch, JobsInv, JobsTyped
<1>2. batch \in Batch
  <2>1. /\ Due \subseteq Work /\ \A r \in Due : waiting[r].due \in Nat
    BY DEF Due, JobsInv, JobsTyped
  <2>2. \A r \in Due : Cardinality(Ahead(r)) \in Nat
    <3>1. \A r \in Due : Ahead(r) \subseteq Work /\ IsFiniteSet(Work)
      BY <2>1, JobsAssumption DEF Ahead
    <3> QED
      BY <3>1, FS_Subset, FS_CardinalityType
  <2>3. Collected \in SUBSET [row : Work, turn : Nat]
    BY <2>1, <2>2 DEF Collected
  <2>4. PassedOver \in SUBSET (Work \X Nat)
    BY <2>1 DEF PassedOver
  <2> QED
    BY <2>3, <2>4 DEF Batch
<1>3. batch.jobs = Collected /\ batch.passed = PassedOver /\ batch.served = {}
  OBVIOUS
<1> HIDE DEF batch
<1>4. /\ DOMAIN batches' = DOMAIN batches \cup {w} /\ batches' \in [DOMAIN batches' -> Batch]
      /\ batches'[w] = batch /\ \A v \in DOMAIN batches : batches'[v] = batches[v]
  BY <1>1, <1>2 DEF Put
<1>5. \A v \in DOMAIN batches' : batches'[v].guarded => v = w
  BY <1>1, <1>4
<1>6. JobsTyped' /\ OneGuard'
  BY <1>1, <1>4, <1>5 DEF JobsInv, JobsTyped, OneGuard
<1>7. PassedWhenDue' /\ TurnsAreCounted' /\ BatchesAreFull'
  BY <1>1, SameRowsEase, <1>6, EasingKeepsCounts DEF JobsInv, JobsTyped
<1>8. ASSUME NEW r \in Waiters, NEW d \in Nat, <<r, d>> \in PassedOver
      PROVE  /\ d <= now' /\ Passed(r, d)' + BatchSize <= Cardinality(Others(r))
             /\ Serves(w, r, d)'
  <2>1. r \in Due /\ d = waiting[r].due /\ Cardinality(Ahead(r)) >= BatchSize
    BY <1>8 DEF PassedOver
  <2>2. Before(r, d)' = Before(r, d) /\ Passed(r, d)' = Passed(r, d)
    BY <1>1 DEF Before, Passed, WaitsSince, Others
  <2>3. Serves(w, r, d)'
    BY <1>3, <1>4, <2>1, <2>2, CollectedComeBefore DEF Serves
  <2>4. d <= now'
    BY <1>1, <2>1 DEF Due
  <2>5. Passed(r, d) + BatchSize <= Cardinality(Others(r))
    <3>1. /\ Cardinality(Before(r, d)) \in Nat /\ Cardinality(Others(r)) \in Nat
          /\ BatchSize \in Nat /\ Passed(r, d) \in Nat
      <4>1. Before(r, d) \subseteq Others(r)
        BY DEF Before
      <4> QED
        BY <4>1, BeforeIsFinite, JobsAssumption DEF JobsInv, JobsTyped, Passed, WaitsSince
    <3>2. BatchSize <= Cardinality(Before(r, d))
      BY <2>1, CollectedComeBefore
    <3>3. Passed(r, d) + Cardinality(Before(r, d)) <= Cardinality(Others(r))
      BY DEF JobsInv, TurnsAreCounted
    <3> QED
      BY <3>1, <3>2, <3>3
  <2> QED
    BY <2>2, <2>3, <2>4, <2>5
<1>9. BatchesServe'
  BY <1>3, <1>4, <1>5, <1>8 DEF BatchesServe, Others, Waiters
<1> QED
  BY <1>6, <1>7, <1>9 DEF JobsInv

\* A batch that ends and has served a row's queue has served a row before each that it left out, so
\* these still have a turn to spare.
LEMMA FinishKeepsJobs ==
  ASSUME JobsInv, NEW w \in Runners, FinishBatch(w)
  PROVE  JobsInv'
<1> DEFINE Left(r, d) == <<r, d>> \in batches[w].passed /\ Queue[r] \in batches[w].served
<1>1. /\ w \in DOMAIN batches /\ batches[w].jobs = {} /\ batches[w].guarded
      /\ batches' = Without(w) /\ now' = now /\ now \in Nat
      /\ waiting' = [r \in DOMAIN waiting |-> IF Left(r, waiting[r].due)
                       THEN [waiting[r] EXCEPT !.passed = @ + 1] ELSE waiting[r]]
      /\ waiting \in [DOMAIN waiting -> [due : Nat, passed : Nat]] /\ DOMAIN waiting \subseteq Work
      /\ batches \in [DOMAIN batches -> Batch]
  BY DEF FinishBatch, JobsInv, JobsTyped
<1> HIDE DEF Left
<1>2. /\ DOMAIN waiting' = DOMAIN waiting
      /\ waiting' \in [DOMAIN waiting' -> [due : Nat, passed : Nat]]
      /\ \A r \in DOMAIN waiting :
           /\ waiting'[r].due = waiting[r].due
           /\ Left(r, waiting[r].due) => waiting'[r].passed = waiting[r].passed + 1
           /\ ~Left(r, waiting[r].due) => waiting'[r].passed = waiting[r].passed
  BY <1>1
<1>3. /\ DOMAIN batches' = DOMAIN batches \ {w} /\ \A v \in DOMAIN batches' : batches'[v] = batches[v]
  BY <1>1 DEF Without
<1>4. JobsTyped'
  <2>1. batches' \in [DOMAIN batches' -> Batch]
    BY <1>1 DEF Without
  <2>2. DOMAIN batches' \subseteq Runners
    BY <1>3 DEF JobsInv, JobsTyped
  <2> QED
    BY <1>1, <1>2, <2>1, <2>2 DEF JobsTyped
<1>5. \A v \in DOMAIN batches' : ~batches'[v].guarded
  BY <1>1, <1>3 DEF JobsInv, OneGuard
<1>6. OneGuard' /\ BatchesServe'
  BY <1>5 DEF OneGuard, BatchesServe
<1>7. ASSUME NEW r \in Waiters, NEW d \in Nat, Left(r, d)
      PROVE  /\ d <= now /\ Passed(r, d) + BatchSize <= Cardinality(Others(r))
             /\ Passed(r, d) + Cardinality(Before(r, d)) < Cardinality(Others(r))
  BY <1>1, <1>7 DEF JobsInv, BatchesServe, Serves, Left
<1>8. PassedWhenDue'
  <2>1. ASSUME NEW r \in DOMAIN waiting' \cap Waiters, waiting'[r].due > now'
        PROVE  waiting'[r].passed = 0
    <3>1. r \in DOMAIN waiting /\ r \in Waiters /\ waiting[r].due > now /\ waiting[r].due \in Nat
      BY <1>1, <1>2, <2>1
    <3>2. ~Left(r, waiting[r].due)
      BY <1>1, <1>7, <3>1
    <3> QED
      BY <1>2, <3>1, <3>2 DEF JobsInv, PassedWhenDue
  <2> QED
    BY <2>1 DEF PassedWhenDue, Waiters
<1>9. TurnsAreCounted' /\ BatchesAreFull'
  <2>1. ASSUME NEW r \in Waiters, NEW d \in Nat
        PROVE  /\ Passed(r, d)' + Cardinality(Before(r, d)') <= Cardinality(Others(r))
               /\ Passed(r, d)' > 0 => Passed(r, d)' + BatchSize <= Cardinality(Others(r)) + 1
    <3>1. WaitsSince(r, d)' <=> WaitsSince(r, d)
      BY <1>2 DEF WaitsSince
    <3>2. Before(r, d)' = Before(r, d)
      BY <1>2, <3>1 DEF Before, Others
    <3>3. /\ Passed(r, d) \in Nat /\ Cardinality(Before(r, d)) \in Nat
          /\ Cardinality(Others(r)) \in Nat /\ BatchSize \in Nat
      <4>1. Before(r, d) \subseteq Others(r)
        BY DEF Before
      <4> QED
        BY <1>1, <4>1, BeforeIsFinite, JobsAssumption DEF Passed, WaitsSince
    <3>4. /\ Passed(r, d) + Cardinality(Before(r, d)) <= Cardinality(Others(r))
          /\ Passed(r, d) > 0 => Passed(r, d) + BatchSize <= Cardinality(Others(r)) + 1
      BY DEF JobsInv, TurnsAreCounted, BatchesAreFull
    <3>5. \/ Passed(r, d)' = Passed(r, d)
          \/ Passed(r, d)' = Passed(r, d) + 1 /\ Left(r, d)
      BY <1>2, <3>1 DEF Passed, WaitsSince
    <3>6. CASE Passed(r, d)' = Passed(r, d)
      BY <3>2, <3>4, <3>6
    <3>7. CASE Passed(r, d)' = Passed(r, d) + 1 /\ Left(r, d)
      <4>1. /\ Passed(r, d) + BatchSize <= Cardinality(Others(r))
            /\ Passed(r, d) + Cardinality(Before(r, d)) < Cardinality(Others(r))
        BY <1>7, <3>7
      <4> QED
        BY <3>2, <3>3, <3>7, <4>1
    <3> QED
      BY <3>5, <3>6, <3>7
  <2> QED
    BY <2>1 DEF TurnsAreCounted, BatchesAreFull, Others, Waiters
<1> QED
  BY <1>4, <1>6, <1>8, <1>9 DEF JobsInv

\* No row and no batch at first.
LEMMA JobsStart ==
  ASSUME now = 0, JobsInit
  PROVE  JobsInv
<1>1. waiting = << >> /\ batches = << >> /\ DOMAIN waiting = {} /\ DOMAIN batches = {}
  BY DEF JobsInit, Nothing
<1>2. JobsTyped
  BY <1>1 DEF JobsTyped
<1>3. \A r, d : Passed(r, d) = 0 /\ Before(r, d) = {}
  BY <1>1 DEF Passed, WaitsSince, Before
<1>4. TurnsAreCounted /\ BatchesAreFull
  <2>1. \A r, d : Cardinality(Others(r)) \in Nat /\ Before(r, d) \subseteq Others(r)
    BY BeforeIsFinite DEF Before
  <2> QED
    BY <1>3, <2>1, FS_EmptySet DEF TurnsAreCounted, BatchesAreFull
<1> QED
  BY <1>1, <1>2, <1>4 DEF JobsInv, OneGuard, PassedWhenDue, BatchesServe

\* The steps of all runners keep the invariant.
LEMMA StepKeepsJobs ==
  ASSUME JobsInv, [JobsSteps]_allJobsVars
  PROVE  JobsInv'
  BY StartKeepsJobs, FinishKeepsJobs, EasingStepKeepsJobs

\* The queues by themselves.
LEMMA JobsInvariant == JobsSpec => []JobsInv
<1>1. now = 0 /\ JobsInit => JobsInv
  BY JobsStart
<1>2. JobsInv /\ [JobsSteps]_allJobsVars => JobsInv'
  BY StepKeepsJobs
<1> QED
  BY <1>1, <1>2, PTL DEF JobsSpec, JobsSteps, allJobsVars

\* The batches that hold the lock, of which there is one, are counted.
LEMMA JobsTypeChecks ==
  ASSUME JobsInv
  PROVE  JobsTypeOK
<1> DEFINE holders == {w \in DOMAIN batches : batches[w].guarded}
<1>1. Cardinality(holders) <= 1
  <2>1. CASE holders = {}
    BY <2>1, FS_EmptySet
  <2>2. CASE \E w \in holders : TRUE
    <3>1. PICK w \in holders : TRUE
      BY <2>2
    <3>2. holders = {w}
      BY <3>1 DEF JobsInv, OneGuard
    <3> QED
      BY <3>2, FS_Singleton
  <2> QED
    BY <2>1, <2>2
<1> QED
  BY <1>1 DEF JobsInv, JobsTyped, JobsTypeOK

\* Rows of work and batches have their types, and one batch at most holds the advisory lock, though
\* a runner may lose it without knowing and the next one start (booking_jobs.py,
\* process_booking_jobs).
THEOREM JobsAreTyped == JobsSpec => []JobsTypeOK
<1>1. JobsInv => JobsTypeOK
  BY JobsTypeChecks
<1> QED
  BY <1>1, JobsInvariant, PTL

\* The count of the invariant, for the moment since when a row waits.
LEMMA TurnsAreBounded ==
  ASSUME JobsInv
  PROVE  TurnsCome
<1> SUFFICES ASSUME NEW r \in DOMAIN waiting, Queue[r] # Connections, waiting[r].passed > 0
             PROVE  waiting[r].passed + BatchSize <= Cardinality(WorkOf(Queue[r]))
  BY DEF TurnsCome
<1> DEFINE d == waiting[r].due
<1>1. /\ r \in Work /\ r \in Waiters /\ d \in Nat /\ Passed(r, d) = waiting[r].passed
  BY DEF JobsInv, JobsTyped, Passed, WaitsSince, Waiters
<1>2. Passed(r, d) + BatchSize <= Cardinality(Others(r)) + 1
  BY <1>1 DEF JobsInv, BatchesAreFull
<1>3. Cardinality(WorkOf(Queue[r])) = Cardinality(Others(r)) + 1
  <2>1. WorkOf(Queue[r]) = Others(r) \cup {r} /\ r \notin Others(r)
    BY <1>1 DEF Others, WorkOf
  <2>2. IsFiniteSet(Others(r))
    BY BeforeIsFinite
  <2> HIDE DEF Others
  <2> QED
    BY <2>1, <2>2, FS_AddElement
<1> QED
  BY <1>1, <1>2, <1>3

\* A message or a binding that is due is left out by no more of the completed batches that serve
\* its queue than its queue has other rows, less the rows that a batch holds beside one, for any
\* rows, runners and sizes of a batch, and whichever rows find their agency locked or keep failing
\* (booking_jobs.py, collect_booking_jobs and process_booking_jobs).
THEOREM TurnsAlwaysCome == JobsSpec => []TurnsCome
<1>1. JobsInv => TurnsCome
  BY TurnsAreBounded
<1> QED
  BY <1>1, JobsInvariant, PTL

----------------------------------------------------------------------------
(* All services, as MCServices puts them together. *)

\* Every service keeps its invariant, whichever is at work.
ServicesInv == WholeInv /\ ChatInv /\ FaqsInv /\ JobsInv

\* The clock alone is no service's step.
LEMMA ServicesLeaveTheClock ==
  ConversationsNext \/ MemoryNext \/ AccessNext \/ ChatNext \/ FaqsNext \/ JobsNext => UNCHANGED now
<1>1. ConversationsNext => UNCHANGED now
  <2>1. \A c : Authorize(c) \/ Grant(c) \/ ProviderRefuses(c) => UNCHANGED now
    BY DEF Authorize, Grant, ProviderRefuses
  <2>2. \A c : EndSession(c) \/ ConfirmIntake(c) => UNCHANGED now
    BY DEF EndSession, ConfirmIntake
  <2>3. \A w : Initialize(w) \/ Consent(w) \/ RequestCallback(w) \/ Finalize(w) => UNCHANGED now
    BY DEF Initialize, Consent, RequestCallback, Finalize
  <2>4. \A p, until : PhoneBegins(p, until) \/ PhoneEnds(p) => UNCHANGED now
    BY DEF PhoneBegins, PhoneEnds
  <2> QED
    BY <2>1, <2>2, <2>3, <2>4 DEF ConversationsNext
<1>2. MemoryNext => MemoryOnly
  BY DEF MemoryNext, Enable, Withdraw, Erase, View, Purge, Unlink, RemoveFact, Save, Remember,
         BeginPairing, ApprovePairing, Recognise
<1>3. AccessNext => UNCHANGED now
  BY DEF AccessNext, SignIn, Look, Cancel, EnterWrongCode, Logout, Verify, Enroll, Recover
<1>4. ChatNext => UNCHANGED now
  BY DEF ChatNext, Reserve, SendMessage, Finish, Die
<1>5. FaqsNext => UNCHANGED now
  BY DEF FaqsNext, CreateFaq, UpdateFaq, SetFaqStatus
<1>6. JobsNext => UNCHANGED now
  BY DEF JobsNext, Schedule, Connect, WithdrawRow, StartBatch, ServeRow, LeaveRow, FinishBatch,
         BreakOff, LoseLock
<1> QED
  BY <1>1, <1>2, <1>3, <1>4, <1>5, <1>6 DEF MemoryOnly

\* What the memory's service does is a step of the memory, of a conversation or of the access.
LEMMA MemoryWorkIsMemorySteps ==
  ASSUME MemoryWork
  PROVE  MemorySteps /\ UNCHANGED now
<1>1. CASE MemoryNext
  BY <1>1, ServicesLeaveTheClock DEF MemorySteps
<1>2. ASSUME ConfirmIntake(w1) \/ EndSession(w1) \/ Finalize(w1),
             UNCHANGED <<accessVars, memoryVars>>
      PROVE  MemorySteps /\ UNCHANGED now
  <2>1. w1 \in WhatsAppCalls
    BY StartAssumption
  <2>2. ConversationsNext
    BY <1>2, <2>1 DEF ConversationsNext, ConfirmIntake, EndSession
  <2> QED
    BY <1>2, <2>2, ServicesLeaveTheClock DEF MemorySteps
<1>3. ASSUME NEW code \in recoveryCodes, Recover("second", "third", code),
             UNCHANGED <<conversationVars, leadsVars, memoryVars>>
      PROVE  MemorySteps /\ UNCHANGED now
  <2>1. "second" \in Challenges /\ "third" \in Challenges
    BY StartAssumption
  <2>2. AccessNext
    BY <1>3, <2>1 DEF AccessNext
  <2> QED
    BY <1>3, <2>2, ServicesLeaveTheClock DEF MemorySteps
<1> QED
  BY <1>1, <1>2, <1>3 DEF MemoryWork

\* To each service a step of the whole is one of its own, or a stutter.
LEMMA ServicesStepsAreSteps ==
  ASSUME [Next]_servicesVars
  PROVE  /\ [MemorySteps]_allVars
         /\ [ChatSteps]_allChatVars
         /\ [FaqsNext]_faqs
         /\ [JobsSteps]_allJobsVars
<1>1. CASE UNCHANGED servicesVars
  BY <1>1 DEF servicesVars, allVars, allChatVars, allJobsVars, faqsVars
<1>2. CASE Advance
  BY <1>2 DEF Advance, MemorySteps, ChatSteps, JobsSteps, faqsVars
<1>3. CASE ConversationsWork
  BY <1>3, ServicesLeaveTheClock
     DEF ConversationsWork, MemorySteps, allVars, allChatVars, allJobsVars, faqsVars
<1>4. CASE DeskWork
  BY <1>4 DEF DeskWork, MemorySteps, allVars, allChatVars, allJobsVars, faqsVars
<1>5. CASE AccessWork
  BY <1>5, ServicesLeaveTheClock
     DEF AccessWork, MemorySteps, allVars, allChatVars, allJobsVars, faqsVars
<1>6. CASE MemoryWork
  BY <1>6, MemoryWorkIsMemorySteps DEF MemoryWork, allChatVars, allJobsVars, faqsVars
<1>7. CASE ChatWork
  BY <1>7, ServicesLeaveTheClock
     DEF ChatWork, ChatSteps, allVars, allChatVars, allJobsVars, faqsVars
<1>8. CASE FaqsWork
  BY <1>8, ServicesLeaveTheClock DEF FaqsWork, allVars, allChatVars, allJobsVars, faqsVars
<1>9. CASE JobsWork
  BY <1>9, ServicesLeaveTheClock
     DEF JobsWork, JobsSteps, allVars, allChatVars, allJobsVars, faqsVars
<1> QED
  BY <1>1, <1>2, <1>3, <1>4, <1>5, <1>6, <1>7, <1>8, <1>9 DEF Next

\* Every step of the whole.
LEMMA StepKeepsServices ==
  ASSUME ServicesInv, [Next]_servicesVars
  PROVE  ServicesInv'
  BY ServicesStepsAreSteps, StepKeepsWhole, StepKeepsChat, StepKeepsFaqs, StepKeepsJobs
     DEF ServicesInv

\* The customer who is enrolled: the secret comes from a challenge that is closed, and the one that
\* is open has counted nothing.
LEMMA EnrolmentStarts ==
  ASSUME now = 0, Enrolment
  PROVE  AccessInv
<1> DEFINE enrolled == [purpose |-> "ENROLL", version |-> 1, attempts |-> 0,
                        expires |-> ChallengeTicks, open |-> FALSE]
           asked == [purpose |-> "VERIFY", version |-> 2, attempts |-> 0,
                     expires |-> ChallengeTicks, open |-> TRUE]
           login == [version |-> 2, code |-> <<"first", 0>>, expires |-> LoginTicks,
                     revoked |-> FALSE]
<1>1. "first" \in Challenges /\ "second" \in Challenges /\ MaxAttempts \in Nat \ {0}
  BY StartAssumption, AccessAssumption
<1>2. /\ DOMAIN challenges = {"first", "second"} /\ DOMAIN logins = {"first"}
      /\ challenges \in [{"first", "second"} -> Challenge] /\ logins \in [{"first"} -> Login]
      /\ challenges["first"] = enrolled /\ challenges["second"] = asked
      /\ logins["first"] = login
  <2>1. enrolled \in Challenge /\ asked \in Challenge /\ login \in Login
    BY <1>1, AccessAssumption DEF Challenge, Login, Purpose
  <2>2. challenges = [d \in {"first", "second"} |-> IF d = "first" THEN enrolled ELSE asked]
    BY DEF Enrolment
  <2>3. logins = [d \in {"first"} |-> login]
    BY DEF Enrolment
  <2> HIDE DEF enrolled, asked, login
  <2> QED
    BY <2>1, <2>2, <2>3
<1>3. /\ factor \in Factor /\ factor.secret = "first" /\ factor.version = 2
      /\ factor.counter = 0 /\ factor.failed = 0 /\ factor.lockedUntil = 0
  BY <1>1 DEF Enrolment, Factor
<1>4. AccessTyped
  BY <1>1, <1>2, <1>3 DEF Enrolment, AccessTyped, AccessTypeOK, AttemptsLeft
<1>5. OneOpen /\ Counted
  BY <1>2, <1>3, AccessAssumption DEF OneOpen, Counted
<1>6. CodesAreSpent /\ CodesWorkOnce
  BY <1>2, <1>3 DEF CodesAreSpent, ChallengeClosed, CodesWorkOnce
<1>7. LoginsMatchFactor
  BY <1>1, <1>2, <1>3, AccessAssumption DEF LoginsMatchFactor, SignedIn, Enrolled, NoSecret
<1> QED
  BY <1>4, <1>5, <1>6, <1>7 DEF AccessInv, CountInv, CodesInv

\* The customer who calls after a conversation in the browser: the call has the place, and the day
\* has room for both.
LEMMA ConversingStarts ==
  ASSUME now = 0, Conversing, OldLead
  PROVE  ConversationsInv
<1> DEFINE past == [status |-> "CONFIRMED", created |-> 0, expires |-> SessionLength,
                    window |-> ConfirmWindow, authorized |-> 0, ended |-> TRUE]
           call == [status |-> "AUTHORIZED", created |-> 0, expires |-> SessionLength,
                    window |-> SessionLength, authorized |-> 0, ended |-> FALSE]
           bound == [initialized |-> 0, expires |-> SessionLength, finalized |-> FALSE]
<1>1. b1 \in Browsers /\ w1 \in WhatsAppCalls /\ b1 # w1 /\ 0 \in Times
  BY StartAssumption, ConversationsAssumption, ClockAssumption DEF Times
<1>2. /\ DOMAIN conversations = {b1, w1} /\ conversations \in [{b1, w1} -> Conversation]
      /\ conversations[b1] = past /\ conversations[w1] = call
      /\ RowOK(past) /\ RowOK(call)
  <2>1. past \in Conversation /\ call \in Conversation
    BY <1>1, ConversationsAssumption DEF Conversation, ConversationStatus
  <2>2. RowOK(past) /\ RowOK(call)
    BY <2>1 DEF RowOK, ActiveStatuses
  <2>3. conversations = [c \in {b1, w1} |-> IF c = b1 THEN past ELSE call]
    BY <1>1 DEF Conversing
  <2> HIDE DEF past, call
  <2> QED
    BY <1>1, <2>1, <2>2, <2>3
<1>3. IsFiniteSet({b1, w1}) /\ Cardinality({b1, w1}) = 2
  <2>1. IsFiniteSet({b1}) /\ Cardinality({b1}) = 1
    BY FS_Singleton
  <2>2. {b1, w1} = {b1} \cup {w1} /\ w1 \notin {b1}
    BY <1>1
  <2>3. /\ IsFiniteSet({b1} \cup {w1})
        /\ Cardinality({b1} \cup {w1}) = Cardinality({b1}) + 1
    BY <2>1, <2>2, FS_AddElement
  <2> HIDE DEF past, call, bound
  <2> QED
    BY <2>1, <2>2, <2>3
<1>4. Typed
  <2>1. bound \in [initialized : Times, expires : Nat, finalized : BOOLEAN]
    BY <1>1, ConversationsAssumption
  <2>2. bindings = [w \in {w1} |-> bound] /\ confirmedAt = [c \in {b1} |-> 0]
        /\ leads = [c \in {b1} |-> "NEW"] /\ phones = << >>
    BY DEF Conversing, OldLead, Nothing
  <2> HIDE DEF bound
  <2>3. bindings \in [{w1} -> [initialized : Times, expires : Nat, finalized : BOOLEAN]]
    BY <2>1, <2>2
  <2> QED
    BY <1>1, <1>2, <1>3, <2>2, <2>3 DEF Typed, ConversationsTypeOK
<1>5. RowsOK /\ AuthorizedBefore
  <2>1. \A c \in DOMAIN conversations : conversations[c] \in {past, call}
    BY <1>2
  <2>2. past.authorized <= now /\ call.authorized <= now
    OBVIOUS
  <2> HIDE DEF past, call
  <2> QED
    BY <1>2, <2>1, <2>2 DEF RowsOK, AuthorizedBefore
<1>6. Occupying(conversations) \subseteq {w1} /\ conversations[w1].status # "REQUESTING"
  BY <1>1, <1>2 DEF Occupying, ActiveStatuses
<1>7. OneAtATime /\ PlaceIsKept
  BY <1>6 DEF OneAtATime, PlaceIsKept
<1>8. DaysKeepLimit
  <2>1. ASSUME NEW d \in Nat
        PROVE  Cardinality(AuthorizedOn(d)) <= DailyLimit
    <3>1. AuthorizedOn(d) \subseteq {b1, w1}
      BY <1>2 DEF AuthorizedOn
    <3> QED
      BY <1>3, <3>1, FewerConversations, StartAssumption, ConversationsAssumption
  <2> QED
    BY <2>1 DEF DaysKeepLimit
<1> QED
  BY <1>4, <1>5, <1>7, <1>8 DEF ConversationsInv

\* The old lead has its type.
LEMMA OldLeadTyped ==
  ASSUME OldLead
  PROVE  LeadsTypeOK
<1>1. b1 \in LeadIds /\ "NEW" \in LeadStatus
  BY StartAssumption, ConversationsAssumption DEF LeadStatus
<1>2. leads = [c \in {b1} |-> "NEW"] /\ handoffs = << >>
  BY DEF OldLead, Nothing
<1> QED
  BY <1>1, <1>2 DEF LeadsTypeOK

\* Each of the initial states.
LEMMA ServicesStart ==
  ASSUME Init
  PROVE  ServicesInv
<1>1. now = 0 /\ MemoryInit /\ ChatInv /\ FaqsInv /\ JobsInv
  BY ChatStarts, FaqsStart, JobsStart DEF Init
<1>2. LeadsTypeOK
  <2>1. LeadsInit => LeadsTypeOK
    BY DEF LeadsInit, LeadsTypeOK, Nothing
  <2> QED
    BY <2>1, OldLeadTyped DEF Init
<1>3. ConversationsInv /\ AccessInv
  <2>1. CASE service = "memory"
    BY <1>1, <2>1, ConversingStarts, EnrolmentStarts DEF Init
  <2>2. CASE service # "memory"
    BY <1>1, <2>2, InitInv, AccessStarts DEF Init
  <2> QED
    BY <2>1, <2>2
<1>4. CoverBegins /\ ForgottenStaysForgotten
  BY <1>1, ClockAssumption DEF MemoryInit, CoverBegins, ForgottenStaysForgotten, Nothing, Times
<1>5. MemoryParts
  BY <1>1 DEF MemoryInit, Nothing, MemoryParts, FactsTyped, LinkTyped, NoLink, PairingsTyped
<1> QED
  BY <1>1, <1>2, <1>3, <1>4, <1>5, MemoryTypeParts DEF ServicesInv, WholeInv, MemoryInv

\* The whole keeps the invariants of all services.
LEMMA ServicesInvariant == Spec => []ServicesInv
<1>1. Init => ServicesInv
  BY ServicesStart
<1>2. ServicesInv /\ [Next]_servicesVars => ServicesInv'
  BY StepKeepsServices
<1> QED
  BY <1>1, <1>2, PTL DEF Spec

\* Every table of every service has the type that the models of the database give it, and rows refer
\* to rows that exist, from a new deployment as well as from the middle of a customer's call.
THEOREM ServicesAreTyped == Spec => []TypeOK
<1>1. ServicesInv => TypeOK
  BY AccessIsSafe, JobsTypeChecks
     DEF ServicesInv, WholeInv, MemoryInv, ConversationsInv, Typed, ChatInv, FaqsInv, TypeOK
<1> QED
  BY <1>1, ServicesInvariant, PTL

\* What the services promise in the composition that TLC looks at, for any conversations,
\* challenges, guests, questions and rows: limits, codes that work once, logins of the present
\* factor, wrong codes that count, forgetting, one answer for a visitor, exact questions, turns
\* that come, and conversations that stay closed.  The memory is at work while the customer's call
\* goes on and the authenticator may be lost.
THEOREM ServicesKeepPromises ==
  Spec => /\ [](ConversationLimits /\ CodesWorkOnce /\ LoginsMatchFactor /\ GuessesAreCounted)
          /\ [](ForgottenStaysForgotten /\ AnsweredOnce /\ ExactQuestionIsAnswered /\ TurnsCome)
          /\ ClosedStaysClosed
<1>1. ServicesInv =>
        /\ ConversationLimits /\ CodesWorkOnce /\ LoginsMatchFactor /\ GuessesAreCounted
        /\ ForgottenStaysForgotten /\ AnsweredOnce /\ ExactQuestionIsAnswered /\ TurnsCome
  BY LimitsFollow, AccessIsSafe, ExactQuestionsMatch, TurnsAreBounded
     DEF ServicesInv, WholeInv, MemoryInv, ChatInv
<1>2. ServicesInv /\ [Next]_servicesVars
        => [\A c \in DOMAIN conversations : StaysClosed(c)]_conversations
  <2> SUFFICES ASSUME ServicesInv, [Next]_servicesVars, NEW c \in DOMAIN conversations
               PROVE  StaysClosed(c)
    OBVIOUS
  <2>1. [TalkSteps]_talkVars
    BY ServicesStepsAreSteps, MemoryStepsAreSteps
  <2> QED
    BY <2>1, StepsLeaveClosed DEF ServicesInv, WholeInv, MemoryInv
<1>3. Spec => ClosedStaysClosed
  BY <1>2, ServicesInvariant, PTL DEF Spec, ClosedStaysClosed, StaysClosed
<1> QED
  BY <1>1, <1>3, ServicesInvariant, PTL
=============================================================================
