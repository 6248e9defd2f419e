---------------------------- MODULE MCDescCache -----------------------------
(* Threads asking for descriptors over a small pool of blocks. *)
EXTENDS DescCache

CONSTANTS t1, t2, b1, b2, b3

OneThread == {t1}
TwoThreads == {t1, t2}
MCBlocks == {b1, b2, b3}
=============================================================================
