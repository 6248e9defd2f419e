---------------------------- MODULE MCPipeTable -----------------------------
(* An interface with a setting of one endpoint and one of two. *)
EXTENDS PipeTable

CONSTANTS t1, t2, b1, b2, e1, e2, a0, a1

OneThread == {t1}
TwoThreads == {t1, t2}
MCBlocks == {b1, b2}
MCAddrs == {e1, e2}
MCAlts == {a0, a1}
MCPipesOf == [a \in MCAlts |-> IF a = a0 THEN <<e1>> ELSE <<e2, e1>>]
=============================================================================
