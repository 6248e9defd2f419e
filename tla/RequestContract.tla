-------------------------- MODULE RequestContract ---------------------------
(***************************************************************************)
(* What DispatchDeviceIOControl owes the I/O manager for each request: it  *)
(* is completed once, with a status that stays until the request is freed; *)
(* the dispatch routine returns once, either that status or STATUS_PENDING,*)
(* and STATUS_PENDING just for a request that is completed with the pending*)
(* mark, then or later.  A request may be dropped: the dispatch routine    *)
(* returns a status without having completed it, and nobody ever will.     *)
(***************************************************************************)
CONSTANT Requests

VARIABLES
    sent,       \* the requests that exist
    done,       \* done[r]: the status r was completed with, or "none"
    marked,     \* marked[r]: r was completed with the pending mark
    ret         \* ret[r]: what the dispatch routine returned, or "none"

vars == <<sent, done, marked, ret>>

Status == {"ok", "fail", "junk"}        \* "junk": an uninitialised variable

Init ==
    /\ sent = {}
    /\ done = [r \in Requests |-> "none"]
    /\ marked = [r \in Requests |-> FALSE]
    /\ ret = [r \in Requests |-> "none"]

Send(r) ==
    /\ r \notin sent
    /\ sent' = sent \cup {r}
    /\ UNCHANGED <<done, marked, ret>>

Complete(r, s, m) ==
    /\ r \in sent
    /\ done[r] = "none"
    /\ ret[r] = "none" \/ (ret[r] = "pending" /\ m)
    /\ done' = [done EXCEPT ![r] = s]
    /\ marked' = [marked EXCEPT ![r] = m]
    /\ UNCHANGED <<sent, ret>>

Return(r) ==
    /\ r \in sent
    /\ ret[r] = "none"
    /\ ret' = [ret EXCEPT ![r] =
                IF done[r] = "none" \/ marked[r] THEN "pending" ELSE done[r]]
    /\ UNCHANGED <<sent, done, marked>>

\* A handler completes the request and returns the status it was given.
Answer(r, s) ==
    /\ r \in sent
    /\ done[r] = "none" /\ ret[r] = "none"
    /\ done' = [done EXCEPT ![r] = s]
    /\ ret' = [ret EXCEPT ![r] = s]
    /\ UNCHANGED <<sent, marked>>

Drop(r, s) ==
    /\ r \in sent
    /\ done[r] = "none" /\ ret[r] = "none"
    /\ ret' = [ret EXCEPT ![r] = s]
    /\ UNCHANGED <<sent, done, marked>>

\* The I/O manager frees a request that was completed and returned from.
Free(r) ==
    /\ r \in sent
    /\ done[r] # "none" /\ ret[r] # "none"
    /\ sent' = sent \ {r}
    /\ done' = [done EXCEPT ![r] = "none"]
    /\ marked' = [marked EXCEPT ![r] = FALSE]
    /\ ret' = [ret EXCEPT ![r] = "none"]

Next ==
    \E r \in Requests :
        \/ Send(r)
        \/ \E s \in Status, m \in BOOLEAN : Complete(r, s, m)
        \/ Return(r)
        \/ \E s \in Status : Answer(r, s) \/ Drop(r, s)
        \/ Free(r)

Spec == Init /\ [][Next]_vars
=============================================================================
