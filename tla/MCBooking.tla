----------------------------- MODULE MCBooking -----------------------------
(***************************************************************************)
(* Small instances of BookingSystem for TLC.                               *)
(***************************************************************************)
EXTENDS BookingSystem, TLC

CONSTANTS t1, t2, r1, r2, k1, k2, k3, alice, cal1, cal2

KeySymmetry == Permutations(Keys)

Slot(team, start, end) == [team |-> team, start |-> start, end |-> end]

\* Two overlapping times of one team and one time of another team.
TwoTeamSlots == {Slot(t1, 2, 4), Slot(t1, 3, 5), Slot(t2, 2, 4)}

\* One time soon and one later, which overlap.
OneTeamSlots == {Slot(t1, 2, 4), Slot(t1, 3, 5)}

Setting(grid, served, notice) ==
  [enabled |-> TRUE, teams |-> Teams, grid |-> grid, served |-> served,
   notice |-> notice, horizon |-> 9, cancellation_notice |-> notice]

\* The business withdraws a time, or stops serving an area and asks for notice.
TwoTeamSettings ==
  {Setting(TwoTeamSlots, Requests, 0), Setting(TwoTeamSlots \ {Slot(t1, 3, 5)}, {r1}, 1)}

OneTeamSettings == {Setting(OneTeamSlots, Requests, 0)}

\* One visit directly after the other.
AdjacentSlots == {Slot(t1, 1, 2), Slot(t1, 2, 3)}
AdjacentSettings == {Setting(AdjacentSlots, Requests, 0)}

\* Only the first is on offer; people drag events to the second.
FirstSettings == {Setting({Slot(t1, 1, 2)}, Requests, 0)}

OneSlot == {Slot(t1, 2, 4)}
OneSlotSettings == {Setting(OneSlot, Requests, 0)}

Shared == [r \in Requests |-> alice]           \* all requests of one customer
FirstOwned == [r \in Requests |-> IF r = r1 THEN alice ELSE NoOwner]
Nobody == [r \in Requests |-> NoOwner]

NoEvents == {}
LunchBreak == {[calendar |-> cal1, slot |-> Slot(t1, 1, 2)]}
NoneEmail == {}
AllEmail == Requests
BothTeams == {t1, t2}
=============================================================================
