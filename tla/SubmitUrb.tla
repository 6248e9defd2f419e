----------------------------- MODULE SubmitUrb ------------------------------
(***************************************************************************)
(* Synchronous URB submission (submiturb.cpp): SubmitUrbSync allocates an  *)
(* IRP, hands it to the next device of the stack and, when that driver     *)
(* answers STATUS_PENDING, waits on an event of its own stack frame that   *)
(* UrbSyncCompletionRoutine signals.  The threads calling it, the driver   *)
(* below and the I/O manager that runs the completion routine interleave.  *)
(*                                                                         *)
(* Irps is the pool IoAllocateIrp draws from: it returns NULL when the     *)
(* pool is exhausted, and may do so earlier.                               *)
(***************************************************************************)
CONSTANTS
    Callers,    \* threads that call SubmitUrbSync
    Irps,       \* the IRPs IoAllocateIrp can hand out
    NULL        \* no IRP

ASSUME NullAssumption == NULL \notin Callers \cup Irps

VARIABLES
    pc,         \* pc[c]: where c is in SubmitUrbSync
    irp,        \* irp[c]: the local variable Irp of c's call
    event,      \* event[c]: kEvent, "gone" when c's frame does not exist
    owner,      \* owner[i]: "pool", "driver" or "lower"
    context,    \* context[i]: whose kEvent the completion routine was given
    pended,     \* pended[i]: Irp->PendingReturned, set by IoMarkIrpPending
    status,     \* status[i]: Irp->IoStatus.Status, "unset" until completed
    ret,        \* ret[c]: the status c's last call returned
    leaked      \* history: IRPs whose call returned without freeing them

vars == <<pc, irp, event, owner, context, pended, status, ret, leaked>>

Status == {"ok", "fail"}

TypeOK ==
    /\ pc \in [Callers -> {"idle", "built", "calling", "waiting", "result"}]
    /\ irp \in [Callers -> Irps \cup {NULL}]
    /\ event \in [Callers -> {"gone", "clear", "set"}]
    /\ owner \in [Irps -> {"pool", "driver", "lower"}]
    /\ context \in [Irps -> Callers \cup {NULL}]
    /\ pended \in [Irps -> BOOLEAN]
    /\ status \in [Irps -> {"unset"} \cup Status]
    /\ ret \in [Callers -> {"none"} \cup Status]
    /\ leaked \in SUBSET Irps

Init ==
    /\ pc = [c \in Callers |-> "idle"]
    /\ irp = [c \in Callers |-> NULL]
    /\ event = [c \in Callers |-> "gone"]
    /\ owner = [i \in Irps |-> "pool"]
    /\ context = [i \in Irps |-> NULL]
    /\ pended = [i \in Irps |-> FALSE]
    /\ status = [i \in Irps |-> "unset"]
    /\ ret = [c \in Callers |-> "none"]
    /\ leaked = {}

-----------------------------------------------------------------------------
(* SubmitUrbSync                                                           *)

\* IoAllocateIrp succeeds; the next stack location is filled in and kEvent
\* initialised.
Allocate(c) ==
    /\ pc[c] = "idle"
    /\ \E i \in Irps :
        /\ owner[i] = "pool"
        /\ owner' = [owner EXCEPT ![i] = "driver"]
        /\ pended' = [pended EXCEPT ![i] = FALSE]
        /\ status' = [status EXCEPT ![i] = "unset"]
        /\ irp' = [irp EXCEPT ![c] = i]
    /\ event' = [event EXCEPT ![c] = "clear"]
    /\ pc' = [pc EXCEPT ![c] = "built"]
    /\ UNCHANGED <<context, ret, leaked>>

\* IoAllocateIrp returns NULL: STATUS_INSUFFICIENT_RESOURCES.
AllocateFails(c) ==
    /\ pc[c] = "idle"
    /\ ret' = [ret EXCEPT ![c] = "fail"]
    /\ UNCHANGED <<pc, irp, event, owner, context, pended, status, leaked>>

\* The label Exit with a failure status: IoFreeIrp, and the frame goes away.
FreeAndReturn(c) ==
    /\ owner' = [owner EXCEPT ![irp[c]] = "pool"]
    /\ ret' = [ret EXCEPT ![c] = "fail"]
    /\ UNCHANGED leaked

\* The label Exit with a success status: IoFreeIrp is skipped.
KeepAndReturn(c) ==
    /\ ret' = [ret EXCEPT ![c] = "ok"]
    /\ leaked' = leaked \cup {irp[c]}
    /\ UNCHANGED owner

LeaveFrame(c) ==
    /\ pc' = [pc EXCEPT ![c] = "idle"]
    /\ irp' = [irp EXCEPT ![c] = NULL]
    /\ event' = [event EXCEPT ![c] = "gone"]

BugExitWithoutFree(c) ==    \* an early return instead of goto Exit
    /\ pc[c] = "built"
    /\ ret' = [ret EXCEPT ![c] = "fail"]
    /\ LeaveFrame(c)
    /\ UNCHANGED <<owner, context, pended, status, leaked>>

\* IoSetCompletionRoutineEx fails: goto Exit.
SetCompletionFails(c) ==
    /\ pc[c] = "built"
    /\ FreeAndReturn(c)
    /\ LeaveFrame(c)
    /\ UNCHANGED <<context, pended, status>>

\* IoSetCompletionRoutineEx succeeds and IoCallDriver is entered.
CallDriver(c) ==
    /\ pc[c] = "built"
    /\ context' = [context EXCEPT ![irp[c]] = c]
    /\ owner' = [owner EXCEPT ![irp[c]] = "lower"]
    /\ pc' = [pc EXCEPT ![c] = "calling"]
    /\ UNCHANGED <<irp, event, pended, status, ret, leaked>>

BugNoWait(c) ==             \* the test for STATUS_PENDING is missing
    /\ pc[c] = "calling"
    /\ pended[irp[c]] \/ status[irp[c]] # "unset"
    /\ pc' = [pc EXCEPT ![c] = "result"]
    /\ UNCHANGED <<irp, event, owner, context, pended, status, ret, leaked>>

\* IoCallDriver returns: STATUS_PENDING if the lower driver marked the IRP
\* pending, the final status otherwise.
CallReturns(c) ==
    /\ pc[c] = "calling"
    /\ pended[irp[c]] \/ status[irp[c]] # "unset"
    /\ pc' = [pc EXCEPT ![c] = IF pended[irp[c]] THEN "waiting" ELSE "result"]
    /\ UNCHANGED <<irp, event, owner, context, pended, status, ret, leaked>>

\* KeWaitForSingleObject, without a timeout, is satisfied.
WaitDone(c) ==
    /\ pc[c] = "waiting"
    /\ event[c] = "set"
    /\ pc' = [pc EXCEPT ![c] = "result"]
    /\ UNCHANGED <<irp, event, owner, context, pended, status, ret, leaked>>

\* Irp->IoStatus.Status is read and returned.
ReturnStatus(c) ==
    /\ pc[c] = "result"
    /\ \/ status[irp[c]] = "ok" /\ KeepAndReturn(c)
       \/ status[irp[c]] # "ok" /\ FreeAndReturn(c)
    /\ LeaveFrame(c)
    /\ UNCHANGED <<context, pended, status>>

-----------------------------------------------------------------------------
(* The driver below and the I/O manager (external).  The lower driver keeps*)
(* the rules of the I/O manager: it marks the IRP pending in its dispatch  *)
(* routine or completes it there, and completes every IRP once.            *)

MarkPending(i) ==
    /\ owner[i] = "lower"
    /\ ~ pended[i]
    /\ pended' = [pended EXCEPT ![i] = TRUE]
    /\ UNCHANGED <<pc, irp, event, owner, context, status, ret, leaked>>

BugSignalUnlessPended(i) == \* the test of PendingReturned inverted
    event' = IF pended[i] THEN event ELSE [event EXCEPT ![context[i]] = "set"]

\* The completion routine: kEvent is signalled if the IRP was pended, and
\* STATUS_MORE_PROCESSING_REQUIRED gives the IRP back to SubmitUrbSync.
UrbSyncCompletionRoutine(i) ==
    event' = IF pended[i] THEN [event EXCEPT ![context[i]] = "set"] ELSE event

BugCompleteAsPending(i) ==  \* IoStatus still holds STATUS_PENDING
    /\ owner[i] = "lower"
    /\ status' = [status EXCEPT ![i] = "pending"]
    /\ owner' = [owner EXCEPT ![i] = "driver"]
    /\ UrbSyncCompletionRoutine(i)
    /\ UNCHANGED <<pc, irp, context, pended, ret, leaked>>

\* IoCompleteRequest by the lower driver, which runs the completion routine.
CompleteRequest(i) ==
    /\ owner[i] = "lower"
    /\ \E s \in Status : status' = [status EXCEPT ![i] = s]
    /\ owner' = [owner EXCEPT ![i] = "driver"]
    /\ UrbSyncCompletionRoutine(i)
    /\ UNCHANGED <<pc, irp, context, pended, ret, leaked>>

-----------------------------------------------------------------------------
SubmitUrbSync(c) ==
    \/ Allocate(c)
    \/ AllocateFails(c)
    \/ SetCompletionFails(c)
    \/ CallDriver(c)
    \/ CallReturns(c)
    \/ WaitDone(c)
    \/ ReturnStatus(c)

LowerDriver(i) == MarkPending(i) \/ CompleteRequest(i)

Next ==
    \/ \E c \in Callers : SubmitUrbSync(c)
    \/ \E i \in Irps : LowerDriver(i)

Spec == Init /\ [][Next]_vars

\* A thread inside the call is scheduled again, and the bus driver completes
\* every IRP it holds (with a failure when the device is gone).
FairSpec ==
    /\ Spec
    /\ \A c \in Callers :
        WF_vars(CallDriver(c) \/ CallReturns(c) \/ WaitDone(c) \/ ReturnStatus(c))
    /\ \A i \in Irps : WF_vars(CompleteRequest(i))

-----------------------------------------------------------------------------
(* Properties                                                              *)

\* While the lower driver holds an IRP, the frame whose event the completion
\* routine will signal still exists and is waiting for that very IRP: the
\* driver never lets KeSetEvent write to a dead stack frame.
EventFrameAlive ==
    \A i \in Irps : owner[i] = "lower" =>
        /\ context[i] \in Callers
        /\ irp[context[i]] = i
        /\ event[context[i]] # "gone"
        /\ pc[context[i]] \in {"calling", "waiting"}

\* An IRP is out of the pool only because a call is using it or because a
\* call that SUCCEEDED kept it: no failing path of SubmitUrbSync loses one.
\* (Every successful call does: IoFreeIrp is under the failure test.)
FailureFreesIrp ==
    \A i \in Irps : owner[i] # "pool" =>
        \/ \E c \in Callers : irp[c] = i
        \/ i \in leaked /\ status[i] = "ok"

\* A thread that waits is woken: its event is set, or the lower driver still
\* holds its IRP, marked so that the completion routine will signal that event.
\* KeSetEvent may come before IoCallDriver returns, and the wait has no timeout.
WaitIsWoken ==
    \A c \in Callers : pc[c] = "waiting" =>
        \/ event[c] = "set"
        \/ owner[irp[c]] = "lower" /\ pended[irp[c]] /\ context[irp[c]] = c

\* SubmitUrbSync implements the contract of SyncCall: it returns only what
\* the bus driver answered, and only after it has answered.
urbOf == [c \in Callers |->
    IF irp[c] = NULL THEN "mine"
    ELSE IF owner[irp[c]] = "lower" THEN "lent"
    ELSE IF status[irp[c]] = "unset" THEN "mine"
    ELSE status[irp[c]]]

Contract == INSTANCE SyncCall WITH urb <- urbOf

ImplementsSyncCall == Contract!Spec

\* Every call returns: whichever way the completion of the IRP, the return of
\* IoCallDriver and the wait interleave, no thread waits for an event that
\* nobody signals.
CallReturnsEventually ==
    \A c \in Callers : pc[c] # "idle" ~> pc[c] = "idle"

-----------------------------------------------------------------------------
(* The inductive invariant of the proofs: what each place in SubmitUrbSync *)
(* knows of its IRP, and which IRPs nobody but the lower driver may touch. *)

CallState(c) ==
    /\ pc[c] = "idle" <=> irp[c] = NULL
    /\ pc[c] = "idle" <=> event[c] = "gone"
    /\ pc[c] = "built" =>
        owner[irp[c]] = "driver" /\ status[irp[c]] = "unset" /\ event[c] = "clear"
    /\ pc[c] = "waiting" => pended[irp[c]]
    /\ pc[c] \in {"calling", "waiting"} =>
        /\ context[irp[c]] = c
        /\ \/ owner[irp[c]] = "lower" /\ status[irp[c]] = "unset"
           \/ owner[irp[c]] = "driver" /\ status[irp[c]] \in Status
    /\ pc[c] \in {"calling", "waiting"} =>
        (event[c] = "set" <=> owner[irp[c]] = "driver" /\ pended[irp[c]])
    /\ pc[c] = "result" => owner[irp[c]] = "driver" /\ status[irp[c]] \in Status

IrpState(i) ==
    /\ owner[i] = "lower" =>
        \E c \in Callers : irp[c] = i /\ pc[c] \in {"calling", "waiting"}
    /\ owner[i] = "driver" =>
        (\E c \in Callers : irp[c] = i) \/ (i \in leaked /\ status[i] = "ok")
    /\ i \in leaked => owner[i] = "driver" /\ \A c \in Callers : irp[c] # i

OneCallPerIrp ==
    \A c, d \in Callers : irp[c] = irp[d] /\ irp[c] # NULL => c = d

IInv ==
    /\ TypeOK
    /\ \A c \in Callers : CallState(c)
    /\ \A i \in Irps : IrpState(i)
    /\ OneCallPerIrp
=============================================================================
