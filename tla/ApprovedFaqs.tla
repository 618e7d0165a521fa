---------------------------- MODULE ApprovedFaqs ----------------------------
(***************************************************************************)
(* Answers the agency has approved, and which of them a customer's         *)
(* question is given: approved_faqs/service.py.  The agency has set its    *)
(* receptionist up, which every lookup requires.                           *)
(*                                                                         *)
(* A question is a normalised one: the sequence of its words.  Scores are  *)
(* fractions; where one meets a threshold exactly, floating point may      *)
(* decide otherwise.                                                       *)
(* Updates carry the row version they were made from, so that each is      *)
(* made from the current row.                                              *)
(***************************************************************************)
EXTENDS Tables, Sequences, Functions

CONSTANTS
  FaqIds,       \* numbers: ties are broken by the order of ids
  Questions,    \* sequences of words
  IgnoredWords  \* _IGNORED_MATCH_WORDS

ASSUME FaqsAssumption ==
  /\ FaqIds \subseteq Nat \ {0}
  /\ \A question \in Questions : question \in Seq(Range(question))

VARIABLES
  faqs  \* id -> [question, active]

faqsVars == <<faqs>>

FaqsTypeOK ==
  /\ DOMAIN faqs \subseteq FaqIds
  /\ faqs \in [DOMAIN faqs -> [question : Questions, active : BOOLEAN]]

FaqsInit == faqs = Nothing

----------------------------------------------------------------------------
(* The agency's staff. *)

\* The unique constraint on questions, which archived ones keep.
Unused(question, id) ==
  \A other \in DOMAIN faqs \ {id} : faqs[other].question # question

CreateFaq(id, question, active) ==
  /\ id \in FaqIds \ DOMAIN faqs
  /\ Unused(question, id)
  /\ faqs' = Put(faqs, id, [question |-> question, active |-> active])
  /\ UNCHANGED now

UpdateFaq(id, question) ==
  /\ id \in DOMAIN faqs
  /\ Unused(question, id)
  /\ faqs' = [faqs EXCEPT ![id].question = question]
  /\ UNCHANGED now

SetFaqStatus(id, active) ==
  /\ id \in DOMAIN faqs
  /\ faqs' = [faqs EXCEPT ![id].active = active]
  /\ UNCHANGED now

FaqsNext ==
  \E id \in FaqIds :
    \/ \E question \in Questions :
         UpdateFaq(id, question) \/ \E active \in BOOLEAN : CreateFaq(id, question, active)
    \/ \E active \in BOOLEAN : SetFaqStatus(id, active)

\* The agency's answers by themselves.
FaqsSpec == FaqsInit /\ [][FaqsNext]_faqs

----------------------------------------------------------------------------
(* Lookup. *)

\* meaningful_tokens()
Tokens(question) == Range(question) \ IgnoredWords

NoScore == [over |-> 0, under |-> 1]

\* faq_match_score(): three times the score is the fraction over / under.
Score(query, question) ==
  LET asked == Tokens(query)
      known == Tokens(question)
      overlap == Cardinality(asked \cap known)
      needed == IF Cardinality(known) = 1 THEN 1 ELSE 2
  IN IF query = question \/ (asked = known /\ asked # {}) THEN [over |-> 3, under |-> 1]
     ELSE IF asked = {} \/ known = {} \/ overlap < needed \/ 4 * overlap < 3 * Cardinality(known)
     THEN NoScore
     ELSE [over |-> overlap * (2 * Cardinality(asked) + Cardinality(known)),
           under |-> Cardinality(asked) * Cardinality(known)]

\* s is higher than t by at least so many hundredths.
Exceeds(s, t, hundredths) ==
  100 * (s.over * t.under - t.over * s.under) >= 3 * hundredths * s.under * t.under

Good(score) == Exceeds(score, NoScore, 80)

NoAnswer == 0

ActiveFaqs == {id \in DOMAIN faqs : faqs[id].active}

ScoreOf(id, query) == Score(query, faqs[id].question)

\* The first of select_faq_match()'s sorted list.
Best(query) ==
  CHOOSE id \in ActiveFaqs :
    \A other \in ActiveFaqs \ {id} :
      /\ Exceeds(ScoreOf(id, query), ScoreOf(other, query), 0)
      /\ other < id => ~Exceeds(ScoreOf(other, query), ScoreOf(id, query), 0)

\* Mutant of Rivals: the best match is the answer.
NoRivals(query) == {}

\* Good matches that are too close to the best one.
Rivals(query) ==
  {id \in ActiveFaqs \ {Best(query)} :
     /\ Good(ScoreOf(id, query))
     /\ ~Exceeds(ScoreOf(Best(query), query), ScoreOf(id, query), 8)}

\* select_faq_match()
Match(query) ==
  IF ActiveFaqs # {} /\ Good(ScoreOf(Best(query), query)) /\ Rivals(query) = {}
  THEN Best(query) ELSE NoAnswer

----------------------------------------------------------------------------
(* Properties. *)

\* Whoever asks an approved question word for word is given its own answer or none, never that
\* of a question that says nearly the same (approved_faqs/service.py, select_faq_match).
ExactQuestionIsAnswered ==
  \A id \in ActiveFaqs : Match(faqs[id].question) \in {id, NoAnswer}
=============================================================================
