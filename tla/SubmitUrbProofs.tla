-------------------------- MODULE SubmitUrbProofs ---------------------------
(***************************************************************************)
(* Proofs about SubmitUrb for any number of threads and IRPs.  IInv says   *)
(* what a thread knows of its IRP at each place of SubmitUrbSync; every    *)
(* other result is read off it.                                            *)
(***************************************************************************)
EXTENDS SubmitUrb, TLAPS

LEMMA InitInv == Init => IInv
  BY NullAssumption
  DEF Init, IInv, TypeOK, CallState, IrpState, OneCallPerIrp, Status

\* Every step of a thread, of the lower driver and of the completion routine
\* keeps the inductive invariant.
LEMMA StepInv == IInv /\ [Next]_vars => IInv'
<1> SUFFICES ASSUME IInv, [Next]_vars PROVE IInv'
  OBVIOUS
<1> USE NullAssumption DEF Status
<1>0. /\ TypeOK
      /\ \A c \in Callers : CallState(c)
      /\ \A i \in Irps : IrpState(i)
      /\ OneCallPerIrp
  BY DEF IInv
<1> USE <1>0
<1>1. ASSUME NEW c \in Callers, Allocate(c) PROVE IInv'
  <2>1. TypeOK'
    BY <1>1 DEF TypeOK, CallState, Allocate
  <2>2. ASSUME NEW d \in Callers PROVE CallState(d)'
    BY <1>1, <2>2 DEF TypeOK, CallState, IrpState, OneCallPerIrp, Allocate
  <2>3. ASSUME NEW j \in Irps PROVE IrpState(j)'
    BY <1>1, <2>3 DEF TypeOK, CallState, IrpState, OneCallPerIrp, Allocate
  <2>4. OneCallPerIrp'
    BY <1>1 DEF TypeOK, CallState, IrpState, OneCallPerIrp, Allocate
  <2> QED BY <2>1, <2>2, <2>3, <2>4 DEF IInv
<1>2. ASSUME NEW c \in Callers, AllocateFails(c) PROVE IInv'
  <2>1. TypeOK'
    BY <1>2 DEF TypeOK, CallState, AllocateFails
  <2>2. ASSUME NEW d \in Callers PROVE CallState(d)'
    BY <1>2, <2>2 DEF TypeOK, CallState, IrpState, OneCallPerIrp, AllocateFails
  <2>3. ASSUME NEW j \in Irps PROVE IrpState(j)'
    BY <1>2, <2>3 DEF TypeOK, CallState, IrpState, OneCallPerIrp, AllocateFails
  <2>4. OneCallPerIrp'
    BY <1>2 DEF TypeOK, CallState, IrpState, OneCallPerIrp, AllocateFails
  <2> QED BY <2>1, <2>2, <2>3, <2>4 DEF IInv
<1>3. ASSUME NEW c \in Callers, SetCompletionFails(c) PROVE IInv'
  <2>1. TypeOK'
    BY <1>3 DEF TypeOK, CallState, SetCompletionFails, FreeAndReturn, LeaveFrame
  <2>2. ASSUME NEW d \in Callers PROVE CallState(d)'
    BY <1>3, <2>2 DEF TypeOK, CallState, IrpState, OneCallPerIrp, SetCompletionFails, FreeAndReturn, LeaveFrame
  <2>3. ASSUME NEW j \in Irps PROVE IrpState(j)'
    BY <1>3, <2>3 DEF TypeOK, CallState, IrpState, OneCallPerIrp, SetCompletionFails, FreeAndReturn, LeaveFrame
  <2>4. OneCallPerIrp'
    BY <1>3 DEF TypeOK, CallState, IrpState, OneCallPerIrp, SetCompletionFails, FreeAndReturn, LeaveFrame
  <2> QED BY <2>1, <2>2, <2>3, <2>4 DEF IInv
<1>4. ASSUME NEW c \in Callers, CallDriver(c) PROVE IInv'
  <2>0. irp[c] \in Irps
    BY <1>4 DEF TypeOK, CallState, CallDriver
  <2>1. TypeOK'
    BY <1>4, <2>0 DEF TypeOK, CallDriver
  <2>2. ASSUME NEW d \in Callers PROVE CallState(d)'
    <3>1. CASE d = c
      BY <1>4, <2>0, <2>2, <3>1 DEF TypeOK, CallState, CallDriver
    <3>2. CASE d # c
      <4>1. irp[d] # irp[c]
        BY <2>0, <2>2, <3>2 DEF OneCallPerIrp
      <4> QED BY <1>4, <2>0, <2>2, <3>2, <4>1 DEF TypeOK, CallState, CallDriver
    <3> QED BY <3>1, <3>2
  <2>3. ASSUME NEW j \in Irps PROVE IrpState(j)'
    BY <1>4, <2>3 DEF TypeOK, CallState, IrpState, OneCallPerIrp, CallDriver
  <2>4. OneCallPerIrp'
    BY <1>4 DEF TypeOK, CallState, IrpState, OneCallPerIrp, CallDriver
  <2> QED BY <2>1, <2>2, <2>3, <2>4 DEF IInv
<1>5. ASSUME NEW c \in Callers, CallReturns(c) PROVE IInv'
  <2>1. TypeOK'
    BY <1>5 DEF TypeOK, CallState, CallReturns
  <2>2. ASSUME NEW d \in Callers PROVE CallState(d)'
    BY <1>5, <2>2 DEF TypeOK, CallState, IrpState, OneCallPerIrp, CallReturns
  <2>3. ASSUME NEW j \in Irps PROVE IrpState(j)'
    BY <1>5, <2>3 DEF TypeOK, CallState, IrpState, OneCallPerIrp, CallReturns
  <2>4. OneCallPerIrp'
    BY <1>5 DEF TypeOK, CallState, IrpState, OneCallPerIrp, CallReturns
  <2> QED BY <2>1, <2>2, <2>3, <2>4 DEF IInv
<1>6. ASSUME NEW c \in Callers, WaitDone(c) PROVE IInv'
  <2>1. TypeOK'
    BY <1>6 DEF TypeOK, CallState, WaitDone
  <2>2. ASSUME NEW d \in Callers PROVE CallState(d)'
    BY <1>6, <2>2 DEF TypeOK, CallState, IrpState, OneCallPerIrp, WaitDone
  <2>3. ASSUME NEW j \in Irps PROVE IrpState(j)'
    BY <1>6, <2>3 DEF TypeOK, CallState, IrpState, OneCallPerIrp, WaitDone
  <2>4. OneCallPerIrp'
    BY <1>6 DEF TypeOK, CallState, IrpState, OneCallPerIrp, WaitDone
  <2> QED BY <2>1, <2>2, <2>3, <2>4 DEF IInv
<1>7. ASSUME NEW c \in Callers, ReturnStatus(c) PROVE IInv'
  <2>1. TypeOK'
    BY <1>7 DEF TypeOK, CallState, ReturnStatus, FreeAndReturn, KeepAndReturn, LeaveFrame
  <2>2. ASSUME NEW d \in Callers PROVE CallState(d)'
    BY <1>7, <2>2 DEF TypeOK, CallState, IrpState, OneCallPerIrp, ReturnStatus, FreeAndReturn, KeepAndReturn, LeaveFrame
  <2>3. ASSUME NEW j \in Irps PROVE IrpState(j)'
    BY <1>7, <2>3 DEF TypeOK, CallState, IrpState, OneCallPerIrp, ReturnStatus, FreeAndReturn, KeepAndReturn, LeaveFrame
  <2>4. OneCallPerIrp'
    BY <1>7 DEF TypeOK, CallState, IrpState, OneCallPerIrp, ReturnStatus, FreeAndReturn, KeepAndReturn, LeaveFrame
  <2> QED BY <2>1, <2>2, <2>3, <2>4 DEF IInv
<1>8. ASSUME NEW i \in Irps, MarkPending(i) PROVE IInv'
  <2>1. TypeOK'
    BY <1>8 DEF TypeOK, CallState, MarkPending
  <2>2. ASSUME NEW d \in Callers PROVE CallState(d)'
    BY <1>8, <2>2 DEF TypeOK, CallState, IrpState, OneCallPerIrp, MarkPending
  <2>3. ASSUME NEW j \in Irps PROVE IrpState(j)'
    BY <1>8, <2>3 DEF TypeOK, CallState, IrpState, OneCallPerIrp, MarkPending
  <2>4. OneCallPerIrp'
    BY <1>8 DEF TypeOK, CallState, IrpState, OneCallPerIrp, MarkPending
  <2> QED BY <2>1, <2>2, <2>3, <2>4 DEF IInv
<1>9. ASSUME NEW i \in Irps, CompleteRequest(i) PROVE IInv'
  <2>0. PICK c \in Callers : irp[c] = i /\ pc[c] \in {"calling", "waiting"}
    BY <1>9 DEF IrpState, CompleteRequest
  <2>1. TypeOK'
    <3>1. context[i] = c
      BY <2>0 DEF CallState
    <3>2. event' \in [Callers -> {"gone", "clear", "set"}]
      BY <1>9, <3>1 DEF TypeOK, CompleteRequest, UrbSyncCompletionRoutine
    <3> QED BY <1>9, <3>2 DEF TypeOK, CompleteRequest
  <2>2. ASSUME NEW d \in Callers PROVE CallState(d)'
    BY <1>9, <2>2 DEF TypeOK, CallState, IrpState, OneCallPerIrp, CompleteRequest, UrbSyncCompletionRoutine
  <2>3. ASSUME NEW j \in Irps PROVE IrpState(j)'
    BY <1>9, <2>3 DEF TypeOK, CallState, IrpState, OneCallPerIrp, CompleteRequest, UrbSyncCompletionRoutine
  <2>4. OneCallPerIrp'
    BY <1>9 DEF TypeOK, CallState, IrpState, OneCallPerIrp, CompleteRequest, UrbSyncCompletionRoutine
  <2> QED BY <2>1, <2>2, <2>3, <2>4 DEF IInv
<1>10. CASE UNCHANGED vars
  <2> USE <1>10 DEF vars
  <2>1. TypeOK'
    BY DEF TypeOK
  <2>2. ASSUME NEW d \in Callers PROVE CallState(d)'
    BY <2>2 DEF CallState
  <2>3. ASSUME NEW j \in Irps PROVE IrpState(j)'
    BY <2>3 DEF IrpState
  <2>4. OneCallPerIrp'
    BY DEF OneCallPerIrp
  <2> QED BY <2>1, <2>2, <2>3, <2>4 DEF IInv
<1>11. QED
  BY <1>1, <1>2, <1>3, <1>4, <1>5, <1>6, <1>7, <1>8, <1>9, <1>10
  DEF Next, SubmitUrbSync, LowerDriver

\* The inductive invariant holds in every reachable state.
THEOREM Inductive == Spec => []IInv
  BY InitInv, StepInv, PTL DEF Spec

\* Every variable keeps its type: no call ever runs with a status that the
\* bus driver did not give it.
THEOREM Typing == Spec => []TypeOK
  BY Inductive, PTL DEF IInv

LEMMA InvFrame == IInv => EventFrameAlive
  BY NullAssumption
  DEF IInv, EventFrameAlive, TypeOK, CallState, IrpState

\* For any number of threads and IRPs, the completion routine always signals
\* an event of a frame that still exists.
THEOREM FrameSafety == Spec => []EventFrameAlive
  BY Inductive, InvFrame, PTL

LEMMA InvFree == IInv => FailureFreesIrp
  BY DEF IInv, FailureFreesIrp, TypeOK, IrpState

\* For any number of threads and IRPs, a failing call gives its IRP back.
THEOREM IrpAccounting == Spec => []FailureFreesIrp
  BY Inductive, InvFree, PTL

LEMMA InvWoken == IInv => WaitIsWoken
  BY DEF IInv, WaitIsWoken, CallState

\* For any number of threads and IRPs, no wake-up is lost: what is left to
\* fairness is that the lower driver completes the IRPs it holds.
THEOREM NoLostWakeUp == Spec => []WaitIsWoken
  BY Inductive, InvWoken, PTL

-----------------------------------------------------------------------------
(* Refinement: SubmitUrbSync implements SyncCall                           *)

LEMMA InitMaps == Init => Contract!Init
  BY DEF Init, Contract!Init, urbOf

\* Only the URB of the call that steps can change state.
LEMMA UrbUpdate ==
  ASSUME NEW c \in Callers, \A d \in Callers \ {c} : urbOf'[d] = urbOf[d]
  PROVE  urbOf' = [urbOf EXCEPT ![c] = urbOf'[c]]
<1>1. urbOf = [d \in Callers |-> urbOf[d]]
  BY DEF urbOf
<1>2. urbOf' = [d \in Callers |-> urbOf'[d]]
  BY DEF urbOf
<1> QED BY <1>1, <1>2

\* A call whose IRP keeps its owner and its status keeps the URB's state.
LEMMA UrbSame ==
  ASSUME IInv, NEW d \in Callers, irp[d]' = irp[d],
         irp[d] \in Irps => /\ owner'[irp[d]] = owner[irp[d]]
                            /\ status'[irp[d]] = status[irp[d]]
  PROVE  urbOf'[d] = urbOf[d]
<1>1. irp[d] \in Irps \cup {NULL}
  BY DEF IInv, TypeOK
<1>2. CASE irp[d] = NULL
  BY <1>2 DEF urbOf
<1>3. CASE irp[d] \in Irps
  <2>1. owner[irp[d]]' = owner[irp[d]] /\ status[irp[d]]' = status[irp[d]]
    BY <1>3
  <2> QED BY <1>3, <2>1 DEF urbOf
<1> QED BY <1>1, <1>2, <1>3

\* No other call uses the IRP of a call in progress.
LEMMA OtherIrp ==
  ASSUME IInv, NEW c \in Callers, pc[c] # "idle",
         NEW d \in Callers \ {c}
  PROVE  irp[d] # irp[c]
  BY DEF IInv, CallState, OneCallPerIrp

\* Every step of the driver is a step of the contract, or changes neither the
\* state of a URB nor a status returned.
LEMMA StepMaps == IInv /\ [Next]_vars => [Contract!Next]_(Contract!vars)
<1> SUFFICES ASSUME IInv, [Next]_vars
             PROVE  Contract!Next \/ UNCHANGED <<urbOf, ret>>
  BY DEF Contract!vars
<1> USE NullAssumption
<1>0. TypeOK /\ (\A c \in Callers : CallState(c)) /\ (\A i \in Irps : IrpState(i))
  BY DEF IInv
<1>1. ASSUME NEW c \in Callers, Allocate(c) PROVE UNCHANGED <<urbOf, ret>>
  <2>1. PICK i \in Irps : /\ owner[i] = "pool"
                          /\ irp' = [irp EXCEPT ![c] = i]
                          /\ owner' = [owner EXCEPT ![i] = "driver"]
                          /\ status' = [status EXCEPT ![i] = "unset"]
    BY <1>1 DEF Allocate
  <2>2. ASSUME NEW d \in Callers \ {c} PROVE urbOf'[d] = urbOf[d]
    <3>1. irp[d] # i
      BY <1>0, <2>1, <2>2 DEF TypeOK, CallState
    <3> QED BY <1>0, <2>1, <2>2, <3>1, UrbSame DEF TypeOK
  <2>3. urbOf'[c] = "mine" /\ urbOf[c] = "mine"
    BY <1>0, <1>1, <2>1 DEF Allocate, TypeOK, CallState, urbOf
  <2>4. urbOf' = urbOf
    BY <2>2, <2>3, UrbUpdate DEF urbOf
  <2> QED BY <1>1, <2>4 DEF Allocate
<1>2. ASSUME NEW c \in Callers, AllocateFails(c) PROVE Contract!GiveUp(c)
  BY <1>0, <1>2 DEF AllocateFails, CallState, Contract!GiveUp, urbOf
<1>3. ASSUME NEW c \in Callers, SetCompletionFails(c) PROVE Contract!GiveUp(c)
  <2>1. irp[c] \in Irps /\ urbOf[c] = "mine" /\ urbOf'[c] = "mine"
    BY <1>0, <1>3 DEF SetCompletionFails, LeaveFrame, TypeOK, CallState, urbOf
  <2>2. ASSUME NEW d \in Callers \ {c} PROVE urbOf'[d] = urbOf[d]
    <3>1. irp[d] # irp[c]
      BY <1>3, <2>2, OtherIrp DEF SetCompletionFails
    <3> QED BY <1>0, <1>3, <2>1, <2>2, <3>1, UrbSame
            DEF SetCompletionFails, FreeAndReturn, LeaveFrame, TypeOK
  <2>3. urbOf' = urbOf
    BY <2>1, <2>2, UrbUpdate DEF urbOf
  <2> QED BY <1>3, <2>1, <2>3
          DEF SetCompletionFails, FreeAndReturn, Contract!GiveUp
<1>4. ASSUME NEW c \in Callers, CallDriver(c) PROVE Contract!Lend(c)
  <2>1. irp[c] \in Irps /\ urbOf[c] = "mine" /\ urbOf'[c] = "lent"
    BY <1>0, <1>4 DEF CallDriver, TypeOK, CallState, urbOf
  <2>2. ASSUME NEW d \in Callers \ {c} PROVE urbOf'[d] = urbOf[d]
    <3>1. irp[d] # irp[c]
      BY <1>4, <2>2, OtherIrp DEF CallDriver
    <3> QED BY <1>0, <1>4, <2>1, <2>2, <3>1, UrbSame DEF CallDriver, TypeOK
  <2>3. urbOf' = [urbOf EXCEPT ![c] = "lent"]
    BY <2>1, <2>2, UrbUpdate
  <2> QED BY <1>4, <2>1, <2>3 DEF CallDriver, Contract!Lend
<1>5. ASSUME NEW c \in Callers, ReturnStatus(c) PROVE Contract!Return(c)
  <2>1. /\ irp[c] \in Irps
        /\ status[irp[c]] \in Status
        /\ urbOf[c] = status[irp[c]]
        /\ urbOf'[c] = "mine"
    BY <1>0, <1>5 DEF ReturnStatus, LeaveFrame, TypeOK, CallState, Status, urbOf
  <2>2. ASSUME NEW d \in Callers \ {c} PROVE urbOf'[d] = urbOf[d]
    <3>1. irp[d] # irp[c]
      BY <1>5, <2>2, OtherIrp DEF ReturnStatus
    <3> QED BY <1>0, <1>5, <2>1, <2>2, <3>1, UrbSame
            DEF ReturnStatus, KeepAndReturn, FreeAndReturn, LeaveFrame, TypeOK
  <2>3. urbOf' = [urbOf EXCEPT ![c] = "mine"]
    BY <2>1, <2>2, UrbUpdate
  <2>4. ret' = [ret EXCEPT ![c] = urbOf[c]]
    BY <1>5, <2>1 DEF ReturnStatus, KeepAndReturn, FreeAndReturn, Status
  <2> QED BY <2>1, <2>3, <2>4 DEF Contract!Return, Contract!Status, Status
<1>6. ASSUME NEW i \in Irps, CompleteRequest(i)
      PROVE  \E c \in Callers, s \in Status : Contract!HandBack(c, s)
  <2>1. PICK s \in Status : status' = [status EXCEPT ![i] = s]
    BY <1>6 DEF CompleteRequest
  <2>2. PICK c \in Callers : irp[c] = i /\ pc[c] # "idle"
    BY <1>0, <1>6 DEF CompleteRequest, IrpState
  <2>3. urbOf[c] = "lent" /\ urbOf'[c] = s
    BY <1>0, <1>6, <2>1, <2>2 DEF CompleteRequest, TypeOK, Status, urbOf
  <2>4. ASSUME NEW d \in Callers \ {c} PROVE urbOf'[d] = urbOf[d]
    <3>1. irp[d] # i
      BY <2>2, <2>4, OtherIrp
    <3> QED BY <1>0, <1>6, <2>1, <2>4, <3>1, UrbSame DEF CompleteRequest, TypeOK
  <2>5. urbOf' = [urbOf EXCEPT ![c] = s]
    BY <2>3, <2>4, UrbUpdate
  <2> QED BY <1>6, <2>3, <2>5 DEF CompleteRequest, Contract!HandBack
<1>7. ASSUME NEW c \in Callers, CallReturns(c) \/ WaitDone(c)
      PROVE  UNCHANGED <<urbOf, ret>>
  BY <1>7 DEF CallReturns, WaitDone, urbOf
<1>8. ASSUME NEW i \in Irps, MarkPending(i) PROVE UNCHANGED <<urbOf, ret>>
  BY <1>8 DEF MarkPending, urbOf
<1>9. CASE UNCHANGED vars
  BY <1>9 DEF vars, urbOf
<1>10. QED
  BY <1>1, <1>2, <1>3, <1>4, <1>5, <1>6, <1>7, <1>8, <1>9
  DEF Next, SubmitUrbSync, LowerDriver, Contract!Next, Contract!Status, Status

\* SubmitUrbSync implements the contract its callers rely on, for any number
\* of threads and IRPs.
THEOREM Implements == Spec => ImplementsSyncCall
  BY InitMaps, StepMaps, Inductive, PTL DEF Spec, ImplementsSyncCall, Contract!Spec
=============================================================================
