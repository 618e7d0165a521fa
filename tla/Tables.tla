------------------------------- MODULE Tables -------------------------------
(***************************************************************************)
(* Database tables as functions from ids to rows, and the wall clock.      *)
(***************************************************************************)
EXTENDS Integers, FiniteSets

CONSTANTS
  MaxTime,    \* bound: the model's clock stops here
  DayLength   \* ticks in a UTC day

ASSUME ClockAssumption == MaxTime \in Nat /\ DayLength \in Nat \ {0}

VARIABLE now  \* the current tick

Times == 0..MaxTime

DayOf(t) == t \div DayLength

Tick ==
  /\ now < MaxTime
  /\ now' = now + 1

Later(s, t) == IF s < t THEN t ELSE s

Nothing == [id \in {} |-> id]

\* The table with one row inserted, or put in the place of an older one.
Put(table, id, row) ==
  [i \in DOMAIN table \cup {id} |-> IF i = id THEN row ELSE table[i]]
=============================================================================
