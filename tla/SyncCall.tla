------------------------------ MODULE SyncCall ------------------------------
(***************************************************************************)
(* What SubmitUrbSync promises its callers (GetDeviceDesc, SelectInterface,*)
(* AbortPipe, ...): a URB is lent to the bus driver at most once per call, *)
(* the call does not return while it is lent, and the status returned is   *)
(* the one the bus driver completed it with.  A call that could not lend   *)
(* the URB at all fails.                                                   *)
(***************************************************************************)
CONSTANT Callers            \* threads that are in, or may enter, SubmitUrbSync

VARIABLES
    urb,    \* urb[c]: "mine", "lent", or the status the bus gave it
    ret     \* ret[c]: the status c's last call returned, "none" before that

vars == <<urb, ret>>

Status == {"ok", "fail"}

TypeOK ==
    /\ urb \in [Callers -> {"mine", "lent"} \cup Status]
    /\ ret \in [Callers -> {"none"} \cup Status]

Init ==
    /\ urb = [c \in Callers |-> "mine"]
    /\ ret = [c \in Callers |-> "none"]

\* The call gives up before the URB reaches the bus driver.
GiveUp(c) ==
    /\ urb[c] = "mine"
    /\ ret' = [ret EXCEPT ![c] = "fail"]
    /\ UNCHANGED urb

Lend(c) ==
    /\ urb[c] = "mine"
    /\ urb' = [urb EXCEPT ![c] = "lent"]
    /\ UNCHANGED ret

HandBack(c, s) ==
    /\ urb[c] = "lent"
    /\ urb' = [urb EXCEPT ![c] = s]
    /\ UNCHANGED ret

Return(c) ==
    /\ urb[c] \in Status
    /\ urb' = [urb EXCEPT ![c] = "mine"]
    /\ ret' = [ret EXCEPT ![c] = urb[c]]

Next ==
    \E c \in Callers :
        \/ GiveUp(c)
        \/ Lend(c)
        \/ \E s \in Status : HandBack(c, s)
        \/ Return(c)

Spec == Init /\ [][Next]_vars
=============================================================================
