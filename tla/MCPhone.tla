------------------------------ MODULE MCPhone -------------------------------
(***************************************************************************)
(* Small instances of PhoneSystem for TLC.                                 *)
(***************************************************************************)
EXTENDS PhoneSystem, TLC

CONSTANTS
  c1, c2,
  w       \* a lead that the website has left

CallPolicy(daily, callback) ==
  [enabled |-> TRUE, concurrent |-> 1, daily |-> daily, transfer |-> TRUE,
   callback |-> callback, staffed |-> {0, 2}]

\* One call at a time; with and without the callback that stands in for a transfer.
TightPolicies == {CallPolicy(2, TRUE), CallPolicy(1, FALSE)}

CallbackPolicy == {CallPolicy(2, TRUE)}

\* The bound on two calls: while both are in the table staff send no event that is kept, and
\* no session asks for a person.  A call that is alone has no such bound.
OneBusyCall ==
  Cardinality(DOMAIN calls) = 2 =>
    requests = {} /\ \A e \in callEvents : e.key # "staff"

\* A phone call and one that staff simulate.
PhoneAndSimulation == (c1 :> {"twilio", "telnyx_sip"}) @@ (c2 :> {"development"})

TwilioCalls == [c \in Calls |-> {"twilio"}]
=============================================================================
