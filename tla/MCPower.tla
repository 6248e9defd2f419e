------------------------------ MODULE MCPower -------------------------------
(* System power IRPs and up to two threads calling SetPwr. *)
EXTENDS Power

CONSTANTS u1, u2

NoUser == {}
OneUser == {u1}
TwoUsers == {u1, u2}
OnOff == {"D0", "D3"}
NoSystemIrp == {}
\* Nobody asks whether the system may start working again.
MCSystemIrps == [minor : {"query", "set"}, state : {"sleeping"}] \cup
                    {[minor |-> "set", state |-> "working"]}
=============================================================================
