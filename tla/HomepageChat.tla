---------------------------- MODULE HomepageChat ----------------------------
(***************************************************************************)
(* The guest chat of the homepage: homepage_chat/service.py and            *)
(* provider.py.  Each visitor is given one answer.                         *)
(*                                                                         *)
(* A handler reserves the visitor's row under the lock of the agency,      *)
(* talks to the provider without a transaction, and settles the row; it    *)
(* may die on the way, or be so slow that its lease runs out.  Rows live   *)
(* for thirty days, longer than the model's clock runs.                    *)
(***************************************************************************)
EXTENDS Tables

CONSTANTS
  Visitors,
  Requests,       \* request ids, which browsers make up
  Lease,          \* ticks a reservation counts as busy
  ChatsPerDay,    \* homepage_chat_daily_limit
  ChatsAtOnce     \* homepage_chat_concurrent_limit

ASSUME ChatAssumption == Lease \in Nat \ {0} /\ ChatsPerDay \in Nat /\ ChatsAtOnce \in Nat

VARIABLES
  visitors,     \* visitor -> [state, request, lease]
  generations,  \* reservations made on each day
  handlers,     \* handlers that talk to the provider: [visitor, request, sent]
  messages      \* history variable: messages sent to the provider for a visitor

chatVars == <<visitors, generations, handlers, messages>>

VisitorState == {"READY", "PROCESSING", "USED"}

\* lease is 0 when there is none.
ChatTypeOK ==
  /\ DOMAIN visitors \subseteq Visitors
  /\ visitors \in [DOMAIN visitors -> [state : VisitorState, request : Requests, lease : Nat]]
  /\ generations \in [0..DayOf(MaxTime) -> 0..ChatsPerDay]
  /\ handlers \subseteq [visitor : DOMAIN visitors, request : Requests, sent : BOOLEAN]
  /\ messages \in [Visitors -> Nat]

ChatInit ==
  /\ visitors = Nothing
  /\ generations = [d \in 0..DayOf(MaxTime) |-> 0]
  /\ handlers = {}
  /\ messages = [v \in Visitors |-> 0]

Busy ==
  {v \in DOMAIN visitors : visitors[v].state = "PROCESSING" /\ visitors[v].lease > now}

\* Mutant of MayReserve: a reservation whose lease has run out is given up for lost.
MayReserveAgain(v) ==
  v \in DOMAIN visitors =>
    \/ visitors[v].state = "READY"
    \/ visitors[v].state = "PROCESSING" /\ visitors[v].lease <= now

\* A row that is being processed stays taken when its lease has run out.
MayReserve(v) == v \in DOMAIN visitors => visitors[v].state = "READY"

\* _reserve().  A request id used again must come with the same message.
Reserve(v, r) ==
  /\ MayReserve(v)
  /\ generations[DayOf(now)] < ChatsPerDay
  /\ Cardinality(Busy) < ChatsAtOnce
  /\ visitors' = Put(visitors, v,
       [state |-> "PROCESSING", request |-> r, lease |-> now + Lease])
  /\ generations' = [generations EXCEPT ![DayOf(now)] = @ + 1]
  /\ handlers' = handlers \cup {[visitor |-> v, request |-> r, sent |-> FALSE]}
  /\ UNCHANGED <<messages, now>>

\* The provider is ready: the message goes out, if the connection holds.
SendMessage(h) ==
  /\ h \in handlers
  /\ ~h.sent
  /\ handlers' = (handlers \ {h}) \cup {[h EXCEPT !.sent = TRUE]}
  /\ messages' = [messages EXCEPT ![h.visitor] = @ + 1]
  /\ UNCHANGED <<visitors, generations, now>>

\* _finish(): what becomes of a reservation that the handler's row still bears.
Settled(h, used) ==
  IF visitors[h.visitor].request = h.request /\ visitors[h.visitor].state = "PROCESSING"
  THEN [visitors EXCEPT ![h.visitor].state = IF used THEN "USED" ELSE "READY",
                        ![h.visitor].lease = 0]
  ELSE visitors

\* reply() ends: with an answer, with the provider's failure, or with an error of its own.
Finish(h) ==
  /\ h \in handlers
  /\ \/ visitors' = Settled(h, h.sent)
     \/ visitors' = Settled(h, TRUE)
  /\ handlers' = handlers \ {h}
  /\ UNCHANGED <<generations, messages, now>>

\* The process dies, or its last transaction fails.
Die(h) ==
  /\ h \in handlers
  /\ handlers' = handlers \ {h}
  /\ UNCHANGED <<visitors, generations, messages, now>>

ChatNext ==
  \/ \E v \in Visitors, r \in Requests : Reserve(v, r)
  \/ \E h \in handlers : SendMessage(h) \/ Finish(h) \/ Die(h)

\* The chat by itself, as the clock runs.
ChatSpec ==
  /\ now = 0
  /\ ChatInit
  /\ [][ChatNext \/ (Tick /\ UNCHANGED chatVars)]_<<chatVars, now>>

----------------------------------------------------------------------------
(* Properties. *)

\* One message at most goes out for a visitor, and a visitor who may ask again has sent none,
\* whichever handlers died or were slow (homepage_chat/service.py, _reserve and _finish).
AnsweredOnce ==
  \A v \in Visitors :
    /\ messages[v] <= 1
    /\ (v \in DOMAIN visitors /\ visitors[v].state = "READY") => messages[v] = 0
=============================================================================
