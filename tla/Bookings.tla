------------------------------ MODULE Bookings ------------------------------
(***************************************************************************)
(* What the business promises about appointments, whatever holds, keys,    *)
(* transactions, calendars and clocks do underneath: a service request has *)
(* at most one appointment, no two overlap on a team, a reschedule is one  *)
(* step that moves it, and a request reported as dangerous gets no new     *)
(* one.                                                                    *)
(***************************************************************************)
CONSTANTS
  Requests,
  Slots,
  Overlaps(_, _)   \* two slots need the same team at the same time

VARIABLES
  booked,   \* the slot of each service request that has an appointment
  danger    \* requests that need a human

bookingVars == <<booked, danger>>

Init ==
  /\ booked = [r \in {} |-> r]
  /\ danger = {}

\* Nobody but request r needs the team of slot s at that time.
Free(r, s) == \A q \in DOMAIN booked \ {r} : ~Overlaps(s, booked[q])

Give(r, s) == booked' = [q \in DOMAIN booked \cup {r} |-> IF q = r THEN s ELSE booked[q]]

Book(r, s) ==
  /\ r \notin DOMAIN booked \cup danger
  /\ Free(r, s)
  /\ Give(r, s)
  /\ UNCHANGED danger

Move(r, s) ==
  /\ r \in DOMAIN booked \ danger
  /\ Free(r, s)
  /\ Give(r, s)
  /\ UNCHANGED danger

Drop(r) ==
  /\ r \in DOMAIN booked
  /\ booked' = [q \in DOMAIN booked \ {r} |-> booked[q]]
  /\ UNCHANGED danger

Flag(r) ==
  /\ r \in Requests \ danger
  /\ danger' = danger \cup {r}
  /\ UNCHANGED booked

Next ==
  \E r \in Requests :
    \/ \E s \in Slots : Book(r, s) \/ Move(r, s)
    \/ Drop(r)
    \/ Flag(r)

Spec == Init /\ [][Next]_bookingVars
=============================================================================
