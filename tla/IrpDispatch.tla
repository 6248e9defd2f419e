---------------------------- MODULE IrpDispatch -----------------------------
(***************************************************************************)
(* The life of a device control request: DispatchDeviceIOControl           *)
(* (stdroutine.cpp), the handlers of its table (ioctrl.cpp), the helpers   *)
(* for endpoint 0 and the registry (ioctrlhelper.cpp) and SubmitUrbAsync   *)
(* with its completion routine (submiturb.cpp).  A handler either completes*)
(* the request itself, after it has waited for a URB or not, or passes it  *)
(* down (SendNonEP0Ctl), or forgets it.                                    *)
(*                                                                         *)
(* SubmitUrbSync is its contract (module SyncCall): the handler waits at   *)
(* "bus" until a status comes back.  What the descriptor cache, the pipe   *)
(* table and the power management do for a request is in modules DescCache,*)
(* PipeTable, Device and Power; here such a handler is "away" and returns. *)
(***************************************************************************)
EXTENDS Naturals

CONSTANTS
    Irps,           \* the requests an application may have outstanding
    CodesOf(_),     \* CodesOf(i): the kinds of request i is used for
    AllocMayFail,   \* ExAllocatePool, USBD_UrbAllocate, ... may fail
    BusMayFail,     \* the bus driver may complete a URB with a failure
    UserMayFault    \* the application's buffers may be, or become, invalid

\* Requests that build one URB in memory from ExAllocatePool.
PipeUrbs == {"abortPipe", "resetPipe"}
PoolUrbs == PipeUrbs \cup
    {"getAltSetting", "getStatus", "clearFeature", "setFeature", "setAddress",
     "getConfiguration", "getInterface"}

\* Requests served by the modules named above.
Delegated == {"getDescriptor", "setConfiguration", "setInterface", "setPower"}

Codes == PoolUrbs \cup Delegated \cup
    {"unimplemented", "unknown", "setDescriptor", "otherEp0", "getUsbdiVersion",
     "getNumEndpoints", "getPowerState", "vendor", "resetPort",
     "getFriendlyName", "nonEp0", "direct"}

VARIABLES
    code,       \* code[i]: what i asks for, "none" before the first request
    pc,         \* pc[i]: where the thread that sent i is
    status,     \* status[i]: the handler's variable, then the request's status
    ret,        \* ret[i]: what DispatchDeviceIOControl returned
    answers,    \* answers[i]: how often i was completed (bounded by 2)
    below,      \* below[i]: the bus driver holds i
    lowPended,  \* lowPended[i]: it has marked i pending in its stack location
    pended,     \* pended[i]: i is marked pending in this driver's location
    held,       \* held[i]: what was allocated for i and not given back
    fault,      \* fault[i]: an exception was caught while i was handled
    feature,    \* a feature of the device (halt, remote wakeup) is set
    bugcheck    \* a NULL or wild pointer was used: the system has stopped

vars == <<code, pc, status, ret, answers, below, lowPended, pended, held,
          fault, feature, bugcheck>>

Status == {"ok", "fail", "junk"}        \* "junk": an uninitialised variable
Resources == {"urb", "irp", "kernelBuf", "info", "key"}

TypeOK ==
    /\ code \in [Irps -> Codes \cup {"none"}]
    /\ pc \in [Irps -> {"idle", "handler", "bus", "away", "calling", "answer"}]
    /\ status \in [Irps -> Status \cup {"none"}]
    /\ ret \in [Irps -> Status \cup {"none", "pending"}]
    /\ answers \in [Irps -> 0 .. 2]
    /\ below \in [Irps -> BOOLEAN]
    /\ lowPended \in [Irps -> BOOLEAN]
    /\ pended \in [Irps -> BOOLEAN]
    /\ held \in [Irps -> SUBSET Resources]
    /\ fault \in [Irps -> BOOLEAN]
    /\ feature \in BOOLEAN
    /\ bugcheck \in BOOLEAN

Init ==
    /\ code = [i \in Irps |-> "none"]
    /\ pc = [i \in Irps |-> "idle"]
    /\ status = [i \in Irps |-> "none"]
    /\ ret = [i \in Irps |-> "none"]
    /\ answers = [i \in Irps |-> 0]
    /\ below = [i \in Irps |-> FALSE]
    /\ lowPended = [i \in Irps |-> FALSE]
    /\ pended = [i \in Irps |-> FALSE]
    /\ held = [i \in Irps |-> {}]
    /\ fault = [i \in Irps |-> FALSE]
    /\ feature = FALSE
    /\ bugcheck = FALSE

-----------------------------------------------------------------------------
(* What the steps are made of                                              *)

Goto(i, l) == pc' = [pc EXCEPT ![i] = l]
SetStatus(i, s) == status' = [status EXCEPT ![i] = s]
Hold(i, r) == held' = [held EXCEPT ![i] = r]

\* The statuses a URB, or an IRP sent down, may come back with.
BusStatus == IF BusMayFail THEN {"ok", "fail"} ELSE {"ok"}

\* IoCompleteRequest, in the driver that owns the request.
IoCompleteRequest(i) == answers' = [answers EXCEPT ![i] = @ + 1]

lower == <<below, lowPended, pended>>
request == <<code, ret, answers, lower>>
system == <<feature, bugcheck>>

\* i's handler, for one of the codes cs, has just been called.
Called(i, cs) == pc[i] = "handler" /\ code[i] \in cs

\* The handler comes to its end, where it completes the request, having kept r.
ToAnswer(i, s, r) ==
    /\ Goto(i, "answer")
    /\ SetStatus(i, s)
    /\ Hold(i, r)
    /\ UNCHANGED request

\* The handler waits at l, having allocated r.
Await(i, l, r) ==
    /\ Goto(i, l)
    /\ Hold(i, r)
    /\ UNCHANGED <<request, status, fault, system>>

Bugcheck ==
    /\ bugcheck' = TRUE
    /\ UNCHANGED <<request, pc, status, held, fault, feature>>

-----------------------------------------------------------------------------
(* DispatchDeviceIOControl                                                 *)

\* A request is over, for the application and the I/O manager, when it was
\* answered and its thread has returned.
Over(i) == code[i] = "none" \/ (answers[i] > 0 /\ pc[i] = "idle")

\* i stands for a new request from here on, a request for c.
Renew(i, c) ==
    /\ code' = [code EXCEPT ![i] = c]
    /\ SetStatus(i, "none")
    /\ ret' = [ret EXCEPT ![i] = "none"]
    /\ answers' = [answers EXCEPT ![i] = 0]
    /\ lowPended' = [lowPended EXCEPT ![i] = FALSE]
    /\ pended' = [pended EXCEPT ![i] = FALSE]
    /\ Hold(i, {})
    /\ fault' = [fault EXCEPT ![i] = FALSE]
    /\ UNCHANGED <<below, system>>

\* The table leads to the handler of the new request.
DispatchDeviceIOControl(i, c) ==
    /\ code[i] = "none"
    /\ Renew(i, c)
    /\ Goto(i, "handler")

\* The I/O manager frees a request that is over.
Free(i) ==
    /\ Over(i) /\ code[i] # "none"
    /\ Renew(i, "none")
    /\ UNCHANGED pc

\* The end of every handler but SendNonEP0Ctl: IoStatus is set, the request
\* completed, and the same status returned.
Answer(i) ==
    /\ pc[i] = "answer"
    /\ IoCompleteRequest(i)
    /\ ret' = [ret EXCEPT ![i] = status[i]]
    /\ Goto(i, "idle")
    /\ UNCHANGED <<code, lower, status, held, fault, system>>

-----------------------------------------------------------------------------
(* Handlers that do not wait                                               *)

\* A code outside the table.
DidNotMatch(i) ==
    /\ Called(i, {"unknown"})
    /\ ToAnswer(i, "fail", {})
    /\ UNCHANGED <<fault, system>>

\* GetDriverVersion, GetAddress, CyclePort, GetTransSize, SetTransSize,
\* GetDiName, GetSpeed and GetCurrentFrame all fail.
Unimplemented(i) ==
    /\ Called(i, {"unimplemented"})
    /\ ToAnswer(i, "fail", {})
    /\ UNCHANGED <<fault, system>>

\* SendEP0Ctl refuses SET_DESCRIPTOR, and what its switches do not name.
RefuseEP0(i) ==
    /\ Called(i, {"setDescriptor", "otherEp0"})
    /\ ToAnswer(i, "fail", {})
    /\ UNCHANGED <<fault, system>>

\* The result of ExAllocatePool is not looked at.
GetUsbDIVersion(i) ==
    /\ Called(i, {"getUsbdiVersion"})
    /\ \/ ToAnswer(i, "ok", {}) /\ UNCHANGED <<fault, system>>
       \/ AllocMayFail /\ Bugcheck

GetNumEndpoints(i) ==
    /\ Called(i, {"getNumEndpoints"})
    /\ \E s \in {"ok", "fail"} : ToAnswer(i, s, {})
    /\ UNCHANGED <<fault, system>>

GetPwrState(i) ==
    /\ Called(i, {"getPowerState"})
    /\ ToAnswer(i, "ok", {})
    /\ UNCHANGED <<fault, system>>

\* GetRegister closes the key on its failing paths only and never frees info;
\* without memory for it, the second query is given NULL.
GetFriendlyName(i) ==
    /\ Called(i, {"getFriendlyName"})
    /\ \/ /\ \/ ToAnswer(i, "fail", {})
             \/ ToAnswer(i, "fail", {"info"})
             \/ ToAnswer(i, "ok", {"info", "key"})
          /\ UNCHANGED <<fault, system>>
       \/ AllocMayFail /\ Bugcheck

-----------------------------------------------------------------------------
(* Handlers that wait                                                      *)

\* AbortPipe and ResetPipe find nothing to ask the bus driver for: no pipes,
\* no such pipe, or a pipe that is not open.
NoSuchPipe(i) ==
    /\ Called(i, PipeUrbs)
    /\ \E s \in {"ok", "fail"} : ToAnswer(i, s, {})
    /\ UNCHANGED <<fault, system>>

\* GetStatus, Feature, SetAddress, GetConfiguration, GetInterface, AbortPipe,
\* ResetPipe: one URB is allocated, filled and submitted.
SubmitPoolUrb(i) ==
    /\ Called(i, PoolUrbs)
    /\ \/ Await(i, "bus", {"urb"})
       \/ AllocMayFail /\ ToAnswer(i, "fail", {}) /\ UNCHANGED <<fault, system>>

\* GetStatus and Feature know no URB for the recipient asked for, and leave
\* their status as it is.
UnknownRecipient(i) ==
    /\ Called(i, {"getStatus", "clearFeature", "setFeature"})
    /\ ToAnswer(i, "junk", {})
    /\ UNCHANGED <<fault, system>>

\* The status of USBD_UrbAllocate is not looked at.
VendorRequest(i) ==
    /\ Called(i, {"vendor"})
    /\ \/ Await(i, "bus", {"urb"})
       \/ AllocMayFail /\ Bugcheck

\* The I/O manager frees the IRP it built when it is completed.
ResetParentPort(i) ==
    /\ Called(i, {"resetPort"})
    /\ \/ Await(i, "bus", {"irp"})
       \/ AllocMayFail /\ ToAnswer(i, "fail", {}) /\ UNCHANGED <<fault, system>>

\* The function of the URB that Feature(pdx, bset, ...) builds.
Feature(bset) == IF bset THEN "SET_FEATURE" ELSE "CLEAR_FEATURE"

\* The functions of the URBs of the two requests, as SendEP0Ctl asks for them.
UrbFunction(c) ==
    CASE c = "clearFeature" -> Feature(TRUE)
      [] c = "setFeature" -> Feature(FALSE)
      [] OTHER -> "OTHER"

\* The feature after the device has served a URB.
FeatureAfter(f) ==
    IF f = "OTHER" THEN feature ELSE f = "SET_FEATURE"

BugExitEarly(i) ==          \* return instead of goto Exit after a failure
    /\ pc[i] = "bus" /\ code[i] # "direct"
    /\ \E s \in BusStatus :
        /\ ToAnswer(i, s, IF s = "fail" THEN held[i] ELSE {})
        /\ feature' = IF s = "ok" THEN FeatureAfter(UrbFunction(code[i])) ELSE feature
    /\ UNCHANGED <<fault, bugcheck>>

BugAnswerPending(i) ==      \* SubmitUrbSync without its wait
    /\ pc[i] = "bus" /\ code[i] # "direct"
    /\ ToAnswer(i, "pending", {})
    /\ UNCHANGED <<fault, system>>

\* The URB comes back, and is freed whatever its status.
BusAnswers(i) ==
    /\ pc[i] = "bus" /\ code[i] # "direct"
    /\ \E s \in BusStatus :
        /\ ToAnswer(i, s, {})
        /\ feature' = IF s = "ok" THEN FeatureAfter(UrbFunction(code[i])) ELSE feature
    /\ UNCHANGED <<fault, bugcheck>>

Delegate(i) ==
    /\ Called(i, Delegated)
    /\ Await(i, "away", {})

\* SetPwr always returns a success.
DelegateReturns(i) ==
    /\ pc[i] = "away"
    /\ \E s \in IF code[i] = "setPower" THEN {"ok"} ELSE {"ok", "fail"} :
        ToAnswer(i, s, {})
    /\ UNCHANGED <<fault, system>>

-----------------------------------------------------------------------------
(* SendNonEP0Direct and SendNonEP0CtlData without a request: the transfer  *)
(* goes through a buffer of the kernel, inside a __try.                    *)

Caught(i, s, r) ==
    /\ UserMayFault
    /\ ToAnswer(i, s, r)
    /\ fault' = [fault EXCEPT ![i] = TRUE]

\* Up to the URB.  The application's buffers are probed, and then read; the
\* status is not set when the endpoint is not found, and may look like a success.
SendNonEP0Direct(i) ==
    /\ Called(i, {"direct"})
    /\ \/ Caught(i, "fail", {}) /\ UNCHANGED system
       \/ Caught(i, "fail", {"kernelBuf"}) /\ UNCHANGED system
       \/ ToAnswer(i, "junk", {}) /\ UNCHANGED <<fault, system>>
       \/ Caught(i, "junk", {"kernelBuf"}) /\ UNCHANGED system
       \/ Await(i, "bus", {"kernelBuf", "urb"})
       \/ AllocMayFail /\ ToAnswer(i, "fail", {}) /\ UNCHANGED <<fault, system>>

\* Without a kernel buffer an OUT transfer faults in its copy.  An IN transfer
\* goes on: with no URB, ExFreePool is given NULL.
NoKernelBuf(i) ==
    /\ Called(i, {"direct"})
    /\ AllocMayFail
    /\ \/ /\ ToAnswer(i, "fail", {})
          /\ fault' = [fault EXCEPT ![i] = TRUE]
          /\ UNCHANGED system
       \/ Await(i, "bus", {"urb"})
       \/ Bugcheck

BugLeaveInHandler(i) ==     \* return in the __except block
    /\ pc[i] = "bus" /\ code[i] = "direct" /\ "kernelBuf" \in held[i]
    /\ \/ \E s \in BusStatus : ToAnswer(i, s, {}) /\ UNCHANGED fault
       \/ /\ UserMayFault
          /\ Goto(i, "idle")
          /\ UNCHANGED <<request, status, held, fault>>
    /\ UNCHANGED system

\* The URB comes back.  Copying the packet lengths to the application may
\* fault before SendNonEP0CtlData has returned a status, copying the data after
\* it: the request then succeeds, without them.
DirectReturns(i) ==
    /\ pc[i] = "bus" /\ code[i] = "direct" /\ "kernelBuf" \in held[i]
    /\ \/ \E s \in BusStatus : ToAnswer(i, s, {}) /\ UNCHANGED fault
       \/ Caught(i, "ok", {"kernelBuf"})
       \/ Caught(i, "fail", {"kernelBuf", "urb"})
    /\ UNCHANGED system

\* The URB without a buffer comes back: copying from NULL faults, and after a
\* failure ExFreePool is given NULL.
NullReturns(i) ==
    /\ pc[i] = "bus" /\ code[i] = "direct" /\ "kernelBuf" \notin held[i]
    /\ \/ /\ ToAnswer(i, "ok", {})
          /\ fault' = [fault EXCEPT ![i] = TRUE]
          /\ UNCHANGED system
       \/ BusMayFail /\ Bugcheck

-----------------------------------------------------------------------------
(* SendNonEP0Ctl, SendNonEP0CtlData with the request, SubmitUrbAsync       *)

\* SendNonEP0Ctl returns s and does not complete the request.
Forget(i, s, r) ==
    /\ Goto(i, "idle")
    /\ ret' = [ret EXCEPT ![i] = s]
    /\ Hold(i, r)
    /\ UNCHANGED <<code, answers, lower, status, fault, system>>

\* The endpoint is not found (the status is not set), or there is no URB.
SendNonEP0Fails(i) ==
    /\ Called(i, {"nonEp0"})
    /\ Forget(i, "junk", {}) \/ (AllocMayFail /\ Forget(i, "fail", {}))

\* IoSetCompletionRoutineEx fails.
SetCompletionFails(i) ==
    /\ Called(i, {"nonEp0"})
    /\ AllocMayFail
    /\ Forget(i, "fail", {"urb"})

\* IoCallDriver is entered.
SubmitUrbAsync(i) ==
    /\ Called(i, {"nonEp0"})
    /\ Goto(i, "calling")
    /\ below' = [below EXCEPT ![i] = TRUE]
    /\ Hold(i, {"urb"})
    /\ UNCHANGED <<code, ret, answers, lowPended, pended, status, fault, system>>

\* The bus driver queues the transfer.
LowerPends(i) ==
    /\ below[i] /\ pc[i] = "calling" /\ ~ lowPended[i]
    /\ lowPended' = [lowPended EXCEPT ![i] = TRUE]
    /\ UNCHANGED <<code, pc, status, ret, answers, below, pended, held, fault,
                   system>>

BugNotMarked(i) ==          \* IoMarkIrpPending missing
    /\ below[i] /\ (lowPended[i] \/ pc[i] = "calling")
    /\ below' = [below EXCEPT ![i] = FALSE]
    /\ \E s \in BusStatus : SetStatus(i, s)
    /\ IoCompleteRequest(i)
    /\ UNCHANGED <<code, pc, ret, lowPended, pended, held, fault, system>>

\* The bus driver completes the request, inside IoCallDriver or, if it has
\* queued it, at any time.  The completion routine passes the pending mark on
\* and lets the request go on to the application; nobody frees the URB.
UrbAsyncSyncCompletionRoutine(i) ==
    /\ below[i] /\ (lowPended[i] \/ pc[i] = "calling")
    /\ below' = [below EXCEPT ![i] = FALSE]
    /\ pended' = [pended EXCEPT ![i] = lowPended[i]]
    /\ \E s \in BusStatus : SetStatus(i, s)
    /\ IoCompleteRequest(i)
    /\ UNCHANGED <<code, pc, ret, lowPended, held, fault, system>>

BugCompletePending(i) ==    \* "if (status != STATUS_SUCCESS) complete it"
    /\ pc[i] = "calling"
    /\ lowPended[i] \/ ~ below[i]
    /\ Goto(i, "idle")
    /\ ret' = [ret EXCEPT ![i] = IF lowPended[i] THEN "pending" ELSE status[i]]
    /\ IF lowPended[i] THEN IoCompleteRequest(i) ELSE UNCHANGED answers
    /\ UNCHANGED <<code, lower, status, held, fault, system>>

\* IoCallDriver, and with it the handler, returns.
CallReturns(i) ==
    /\ pc[i] = "calling"
    /\ lowPended[i] \/ ~ below[i]
    /\ Goto(i, "idle")
    /\ ret' = [ret EXCEPT ![i] = IF lowPended[i] THEN "pending" ELSE status[i]]
    /\ UNCHANGED <<code, answers, lower, status, held, fault, system>>

-----------------------------------------------------------------------------
Handler(i) ==
    \/ DidNotMatch(i)
    \/ Unimplemented(i)
    \/ RefuseEP0(i)
    \/ GetUsbDIVersion(i)
    \/ GetNumEndpoints(i)
    \/ GetPwrState(i)
    \/ GetFriendlyName(i)
    \/ NoSuchPipe(i)
    \/ SubmitPoolUrb(i)
    \/ UnknownRecipient(i)
    \/ VendorRequest(i)
    \/ ResetParentPort(i)
    \/ BusAnswers(i)
    \/ Delegate(i)
    \/ DelegateReturns(i)
    \/ SendNonEP0Direct(i)
    \/ NoKernelBuf(i)
    \/ DirectReturns(i)
    \/ NullReturns(i)
    \/ SendNonEP0Fails(i)
    \/ SetCompletionFails(i)
    \/ SubmitUrbAsync(i)
    \/ CallReturns(i)
    \/ Answer(i)

Step(i) == Handler(i) \/ LowerPends(i) \/ UrbAsyncSyncCompletionRoutine(i)

Next ==
    /\ ~ bugcheck
    /\ \E i \in Irps :
        \/ \E c \in CodesOf(i) \cap Codes : DispatchDeviceIOControl(i, c)
        \/ Step(i)
        \/ Free(i)

Spec == Init /\ [][Next]_vars

-----------------------------------------------------------------------------
(* Properties                                                              *)

\* No request is completed twice, and none is completed while the bus driver
\* still holds it, in whatever order IoCallDriver, the completion routine and
\* the handler come to their ends.
AnsweredOnce ==
    \A i \in Irps : answers[i] <= IF below[i] THEN 0 ELSE 1

\* What the dispatch routine returns agrees with the request: STATUS_PENDING
\* exactly when the request is, or will be, marked pending; the status it was
\* completed with otherwise.
ReturnAgrees ==
    \A i \in Irps : pc[i] = "idle" /\ ~ below[i] /\ answers[i] > 0 =>
        /\ ret[i] = "pending" <=> pended[i]
        /\ ret[i] # "pending" => ret[i] = status[i]

\* Together, and for every step: what the I/O manager is promised.  A request
\* completed for the second time has no outcome the promise allows.
outcome == [i \in Irps |-> IF answers[i] = 0 THEN "none"
                           ELSE IF answers[i] = 1 THEN status[i] ELSE "twice"]

C == INSTANCE RequestContract WITH
        Requests <- Irps, sent <- {i \in Irps : code[i] # "none"},
        done <- outcome, marked <- pended

ImplementsContract == C!Spec

Kept(i) ==
    \/ held[i] = {}
    \/ code[i] = "nonEp0" /\ held[i] = {"urb"}
    \/ code[i] = "direct" /\ fault[i]
    \/ code[i] = "getFriendlyName"

\* A request that is over has given back all it allocated, whichever step of
\* it failed.  Three keep something: an asynchronous transfer its URB, a
\* direct transfer that faulted its buffer, a registry access that got as far
\* as the value.
ResourcesReturned == \A i \in Irps : Over(i) => Kept(i)

\* A request nobody will answer: its handler has returned without completing
\* it, and the bus driver does not have it.
Forgotten(i) ==
    /\ code[i] = "nonEp0" /\ pc[i] = "idle"
    /\ ~ below[i] /\ answers[i] = 0

\* Every request is answered in the end, whatever fails, except a transfer to
\* another endpoint that could not be handed to the bus driver.
EveryRequestAnswered ==
    \A i \in Irps : ~ Over(i) ~>
        Over(i) \/ bugcheck \/ Forgotten(i)

\* A request to clear a feature that succeeds leaves it cleared.
ClearFeatureClears ==
    [][\A i \in Irps :
        code[i] = "clearFeature" /\ BusAnswers(i) /\ status'[i] = "ok" => ~ feature']_vars

-----------------------------------------------------------------------------
(* The inductive invariant (module IrpDispatchProofs)                      *)

\* Where the request is: only a transfer to another endpoint is ever below, and
\* what was answered is neither below nor in the hands of a handler.
WhereItIs(i) ==
    /\ pc[i] \in {"handler", "bus", "away", "answer"} => answers[i] = 0 /\ ~ below[i]
    /\ pc[i] = "calling" => (answers[i] = IF below[i] THEN 0 ELSE 1)
    /\ answers[i] <= IF below[i] THEN 0 ELSE 1
    /\ below[i] => pc[i] \in {"idle", "calling"}
    /\ below[i] \/ pc[i] = "calling" => code[i] = "nonEp0"
    /\ code[i] = "none" => pc[i] = "idle" /\ answers[i] = 0

\* The pending mark follows that of the driver below, once it has completed.
Marks(i) ==
    /\ pended[i] <=> lowPended[i] /\ ~ below[i]
    /\ lowPended[i] => below[i] \/ answers[i] = 1
    /\ pc[i] \notin {"idle", "calling"} => ~ lowPended[i]
    /\ pc[i] = "idle" /\ (below[i] \/ answers[i] = 1) =>
        IF lowPended[i] THEN ret[i] = "pending" ELSE ret[i] = status[i] /\ ~ below[i]

\* What the request holds when it is, or is about to be, answered.
Holds(i) ==
    /\ pc[i] = "answer" \/ answers[i] > 0 => Kept(i)
    /\ below[i] \/ pc[i] = "calling" => held[i] = {"urb"}
    /\ code[i] = "none" => held[i] = {}

\* The dispatch routine has a result once it has returned, and the request a
\* status when it is completed.
Returned(i) ==
    /\ ret[i] = "none" <=> code[i] = "none" \/ pc[i] # "idle"
    /\ pc[i] = "answer" \/ answers[i] > 0 => status[i] \in Status

IInv ==
    /\ TypeOK
    /\ \A i \in Irps : WhereItIs(i) /\ Marks(i) /\ Holds(i) /\ Returned(i)
=============================================================================
