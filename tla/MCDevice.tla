------------------------------ MODULE MCDevice ------------------------------
(* A device with settings of one, no and two endpoints, listed in any order *)
(* after the first, not all of them listed in every layout.                *)
EXTENDS Device

CONSTANTS t1, t2, b1, b2, p1, p2, e1, e2, a0, a1, a2

OneThread == {t1}
TwoThreads == {t1, t2}
TwoDescBlocks == {b1, b2}
TwoPipeBlocks == {p1, p2}
OnePipeBlock == {p1}
MCAddrs == {e1, e2}
OneAddr == {e1}
ThreeAlts == {a0, a1, a2}
OneAlt == {a0}
ThreePipesOf == [a \in ThreeAlts |->
    IF a = a0 THEN <<e1>> ELSE IF a = a1 THEN <<>> ELSE <<e2, e1>>]
OnePipesOf == [a \in OneAlt |-> <<e1>>]
MCLayouts == {<<a0, a1, a2>>, <<a0, a2, a1>>, <<a0, a2>>}
OneLayout == {<<a0>>}
AllRequests == {"deviceDesc", "confDesc"} \cup Selections \cup PipeRequests
MutexRequests == {"confDesc"} \cup Selections
=============================================================================
