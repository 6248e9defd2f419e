---------------------------- MODULE MCSubmitUrb -----------------------------
(* Two threads submitting URBs at the same time over a pool of three IRPs. *)
EXTENDS SubmitUrb

CONSTANTS c1, c2, i1, i2, i3

MCCallers == {c1, c2}
MCIrps == {i1, i2, i3}
=============================================================================
