------------------------- MODULE MCCandidateTracker --------------------------
EXTENDS CandidateTracker, TLC

CONSTANTS m1, m2, m3, c1, c2

MCLevelLists == {<<>>, <<[price |-> 1, quantity |-> 1], [price |-> 2, quantity |-> 1]>>}
MCChange == {-1}
MCGeneration == 1..2
MCSequence == 1..3
Leg(m, o) == [market |-> m, outcome |-> o]
MCLegsOf == (c1 :> <<Leg(m1, "yes"), Leg(m2, "yes")>>)
         @@ (c2 :> <<Leg(m2, "no"), Leg(m3, "yes")>>)
=============================================================================
