-------------------------- MODULE DescCacheProofs ---------------------------
(***************************************************************************)
(* Who owns the blocks of the descriptor cache: proofs for any number of   *)
(* threads and blocks, with every allocation and every transfer allowed to *)
(* fail.                                                                   *)
(***************************************************************************)
EXTENDS DescCache, TLAPS

LEMMA InitInv == Init => IInv
<1> SUFFICES ASSUME Init PROVE IInv
  OBVIOUS
<1>1. TypeOK
  BY DEF Init, TypeOK, Slots, Lengths
<1>2. MutexHeld /\ Dangling
  BY DescCacheAssumption DEF Init, MutexHeld, Dangling
<1>3. NoLeak /\ AbsentIdle
  BY DEF Init, NoLeak, AbsentIdle
<1> QED BY <1>1, <1>2, <1>3 DEF IInv

\* A thread moves without touching the mutex or the blocks' allocation.
LEMMA QuietStep ==
  ASSUME IInv, TypeOK',
         NEW t \in Threads, NEW l,
         Goto(t, l), pc[t] # "alloc", l # "alloc", present,
         UNCHANGED <<ptr, mutex, present>>,
         \A b \in Blocks : mem'[b] = "free" <=> mem[b] = "free",
         \A u \in Threads : pc[u] = "alloc" => slot'[u] = slot[u]
  PROVE  IInv'
<1>1. MutexHeld'
  BY DEF IInv, TypeOK, MutexHeld, Goto
<1>2. Dangling'
  <2>1. \A u \in Threads : pc'[u] = "alloc" <=> pc[u] = "alloc"
    BY DEF IInv, TypeOK, Goto
  <2>2. \A s \in Slots : (\E u \in Threads : pc'[u] = "alloc" /\ slot'[u] = s)
                        <=> (\E u \in Threads : pc[u] = "alloc" /\ slot[u] = s)
    BY <2>1
  <2>3. ptr \in [Slots -> Blocks \cup {NULL}]
    BY DEF IInv, TypeOK
  <2> QED BY <2>2, <2>3 DEF IInv, Dangling
<1>3. NoLeak'
  BY DEF IInv, NoLeak
<1>4. AbsentIdle'
  BY DEF AbsentIdle
<1> QED BY <1>1, <1>2, <1>3, <1>4 DEF IInv

\* A request comes to its end without touching the mutex or the blocks.
LEMMA LeaveStep ==
  ASSUME IInv, TypeOK', NEW t \in Threads, Leave(t), pc[t] # "alloc", present,
         UNCHANGED <<ptr, mem, mutex, present>>
  PROVE  IInv'
<1>1. \A u \in Threads : pc[u] = "alloc" => slot'[u] = slot[u]
  BY DEF IInv, TypeOK, Leave
<1> QED BY <1>1, QuietStep DEF Leave

LEMMA LengthTyped == \A t \in Threads : Length(t) \in Lengths
  BY DEF Length, Lengths

\* An answer does not change whether a block is allocated.
LEMMA ArrivedTyped ==
  ASSUME TypeOK, NEW t \in Threads, NEW b \in Blocks
  PROVE  /\ Arrived(t, b) \in {"free", "blank", "head", "whole", "junk"}
         /\ Arrived(t, b) = "free" <=> mem[b] = "free"
  BY DEF TypeOK, Arrived, Payload

\* Every step of a request, of the removal and of the arrival of the device
\* keeps the inductive invariant.
LEMMA StepInv == IInv /\ [Next]_vars => IInv'
<1> SUFFICES ASSUME IInv, [Next]_vars PROVE IInv'
  OBVIOUS
<1> USE DescCacheAssumption
<1>0. TypeOK /\ MutexHeld /\ Dangling /\ NoLeak /\ AbsentIdle
  BY DEF IInv
<1>1. ASSUME NEW t \in Threads, NEW s \in Slots, Lookup(t, s) PROVE IInv'
  <2>1. TypeOK'
    BY <1>0, <1>1 DEF Lookup, AfterSuccess, Goto, TypeOK
  <2>2. PICK l \in {"lock", "measure", "copy"} : Goto(t, l)
    BY <1>1 DEF Lookup, AfterSuccess
  <2>3. \A u \in Threads : pc[u] = "alloc" => slot'[u] = slot[u]
    BY <1>0, <1>1 DEF Lookup, TypeOK
  <2> QED BY <1>1, <2>1, <2>2, <2>3, QuietStep DEF Lookup
<1>2. ASSUME NEW t \in Threads, LockAndFree(t) PROVE IInv'
  <2>1. TypeOK'
    <3>1. room' \in [Blocks -> Lengths]
      BY <1>0, <1>2 DEF LockAndFree, ExFreePool, TypeOK, Lengths
    <3> QED BY <1>0, <1>2, <3>1 DEF LockAndFree, ExFreePool, Goto, TypeOK
  <2>2. MutexHeld'
    BY <1>0, <1>2 DEF LockAndFree, Goto, TypeOK, MutexHeld
  <2>0. present /\ slot[t] \in Slots /\ \A u \in Threads : pc[u] # "alloc"
    BY <1>0, <1>2 DEF LockAndFree, AbsentIdle, MutexHeld, TypeOK
  <2>3. \A r \in Slots \ {slot[t]} : ptr[r] # NULL => ptr[r] # ptr[slot[t]]
    BY <1>0, <2>0 DEF TypeOK, Dangling, NoLeak
  <2>8. \A u \in Threads : pc'[u] = "alloc" <=> u = t
    BY <1>0, <1>2, <2>0 DEF LockAndFree, Goto, TypeOK
  <2>4. Dangling'
    <3>1. ASSUME NEW s \in Slots, ptr[s] # NULL
          PROVE  mem'[ptr[s]] = "free" <=> s = slot[t]
      BY <1>0, <1>2, <2>0, <2>3, <3>1 DEF LockAndFree, ExFreePool, TypeOK, Dangling
    <3> QED BY <1>2, <2>8, <3>1 DEF LockAndFree, Dangling
  <2>5. NoLeak'
    BY <1>0, <1>2 DEF LockAndFree, ExFreePool, TypeOK, NoLeak
  <2>6. AbsentIdle'
    BY <1>0, <1>2 DEF LockAndFree, AbsentIdle
  <2> QED BY <2>1, <2>2, <2>4, <2>5, <2>6 DEF IInv
<1>3. ASSUME NEW t \in Threads, AllocAndUnlock(t) PROVE IInv'
  <2>1. TypeOK'
    <3>1. /\ ptr' \in [Slots -> Blocks \cup {NULL}]
          /\ mem' \in [Blocks -> {"free", "blank", "head", "whole", "junk"}]
          /\ room' \in [Blocks -> Lengths]
      BY <1>0, <1>3, LengthTyped DEF AllocAndUnlock, ExAllocatePool, TypeOK
    <3>2. starved' \in BOOLEAN
      BY <1>0, <1>3, Zenon DEF AllocAndUnlock, TypeOK
    <3> QED BY <1>0, <1>3, <3>1, <3>2 DEF AllocAndUnlock, Goto, TypeOK
  <2>2. mutex = t /\ present
    BY <1>0, <1>3 DEF AllocAndUnlock, MutexHeld, AbsentIdle
  <2>3. MutexHeld'
    BY <1>0, <1>3, <2>2 DEF AllocAndUnlock, Goto, TypeOK, MutexHeld
  <2>6. \A s \in Slots : ptr[s] # NULL => (mem[ptr[s]] = "free" <=> slot[t] = s)
    BY <1>0, <1>3, <2>2 DEF AllocAndUnlock, Dangling, MutexHeld
  <2>7. \A u \in Threads : pc'[u] # "alloc"
    BY <1>0, <1>3, <2>2 DEF AllocAndUnlock, Goto, TypeOK, MutexHeld
  <2>4. Dangling' /\ NoLeak'
    <3>1. CASE \E b \in Blocks : ExAllocatePool(t, b)
      <4>1. PICK b \in Blocks : /\ mem[b] = "free"
                                /\ ptr' = [ptr EXCEPT ![slot[t]] = b]
                                /\ mem' = [mem EXCEPT ![b] = "blank"]
        BY <3>1 DEF ExAllocatePool
      <4>2. \A r \in Slots \ {slot[t]} : ptr[r] # b /\ ptr'[r] = ptr[r]
        BY <1>0, <2>6, <4>1 DEF TypeOK
      <4>3. Dangling'
        BY <1>0, <1>3, <2>6, <2>7, <4>1, <4>2 DEF AllocAndUnlock, TypeOK, Dangling
      <4>4. NoLeak'
        BY <1>0, <1>3, <2>2, <2>6, <4>1, <4>2 DEF AllocAndUnlock, TypeOK, NoLeak
      <4> QED BY <4>3, <4>4
    <3>2. CASE ptr' = [ptr EXCEPT ![slot[t]] = NULL] /\ UNCHANGED mem
      <4>1. Dangling'
        BY <1>0, <1>3, <2>6, <2>7, <3>2 DEF AllocAndUnlock, TypeOK, Dangling
      <4>2. NoLeak'
        BY <1>0, <1>3, <2>2, <2>6, <3>2 DEF AllocAndUnlock, TypeOK, NoLeak
      <4> QED BY <4>1, <4>2
    <3> QED BY <1>3, <3>1, <3>2 DEF AllocAndUnlock
  <2>5. AbsentIdle'
    BY <1>3, <2>2 DEF AllocAndUnlock, AbsentIdle
  <2> QED BY <2>1, <2>3, <2>4, <2>5 DEF IInv
<1>4. ASSUME NEW t \in Threads, Check(t) PROVE IInv'
  <2>1. present /\ pc[t] # "alloc"
    BY <1>0, <1>4 DEF Check, AbsentIdle
  <2>2. CASE Goto(t, "build") /\ UNCHANGED <<slot, pass, len, buf, got>>
    <3>1. TypeOK'
      BY <1>0, <1>4, <2>2 DEF Check, Goto, TypeOK
    <3> QED BY <1>0, <1>4, <2>1, <2>2, <3>1, QuietStep DEF Check
  <2>3. CASE Return(t, "failed")
    <3>1. TypeOK'
      BY <1>0, <1>4, <2>3 DEF Check, Return, Leave, Goto, TypeOK, Slots
    <3> QED BY <1>4, <2>1, <2>3, <3>1, LeaveStep DEF Check, Return
  <2> QED BY <1>4, <2>2, <2>3 DEF Check
<1>5. ASSUME NEW t \in Threads, Build(t) PROVE IInv'
  <2>1. TypeOK'
    BY <1>0, <1>5 DEF Build, Goto, TypeOK, Slots
  <2> QED BY <1>0, <1>5, <2>1, QuietStep DEF Build, AbsentIdle
<1>6. ASSUME NEW t \in Threads, BusCompletes(t) PROVE IInv'
  <2>0. buf[t] \in Blocks
    BY <1>0, <1>6 DEF BusCompletes, TypeOK
  <2>1. /\ buf[t] \in Blocks
        /\ Arrived(t, buf[t]) \in {"free", "blank", "head", "whole", "junk"}
        /\ Arrived(t, buf[t]) = "free" <=> mem[buf[t]] = "free"
    BY <1>0, <2>0, ArrivedTyped
  <2>2. TypeOK'
    BY <1>0, <1>6, <2>1 DEF BusCompletes, AfterSuccess, Goto, TypeOK
  <2>3. \A b \in Blocks : mem'[b] = "free" <=> mem[b] = "free"
    BY <1>0, <1>6, <2>1 DEF BusCompletes, TypeOK
  <2>4. PICK l \in {"size", "measure", "copy"} : Goto(t, l)
    BY <1>6 DEF BusCompletes, AfterSuccess
  <2> QED BY <1>0, <1>6, <2>2, <2>3, <2>4, QuietStep DEF BusCompletes, AbsentIdle
<1>7. ASSUME NEW t \in Threads, BusFails(t) PROVE IInv'
  <2>1. TypeOK'
    BY <1>0, <1>7 DEF BusFails, Return, Leave, Goto, TypeOK, Slots
  <2> QED BY <1>0, <1>7, <2>1, LeaveStep DEF BusFails, Return, AbsentIdle
<1>8. ASSUME NEW t \in Threads, ReadTotalLength(t) PROVE IInv'
  <2>1. TypeOK'
    BY <1>0, <1>8 DEF ReadTotalLength, LengthsIn, Goto, TypeOK
  <2> QED BY <1>0, <1>8, <2>1, QuietStep DEF ReadTotalLength, AbsentIdle
<1>9. ASSUME NEW t \in Threads, Measure(t) PROVE IInv'
  <2>1. TypeOK'
    BY <1>0, <1>9 DEF Measure, LengthsIn, Goto, TypeOK
  <2> QED BY <1>0, <1>9, <2>1, QuietStep DEF Measure, AbsentIdle
<1>10. ASSUME NEW t \in Threads, Copy(t) PROVE IInv'
  <2>1. TypeOK'
    BY <1>0, <1>10 DEF Copy, Return, Leave, Goto, TypeOK, Slots
  <2> QED BY <1>0, <1>10, <2>1, LeaveStep DEF Copy, Return, AbsentIdle
<1>11. ASSUME Bugcheck, starved' \in BOOLEAN PROVE IInv'
  BY <1>0, <1>11 DEF Bugcheck, IInv, TypeOK, MutexHeld, Dangling, NoLeak, AbsentIdle
<1>12. CASE PnpRemoveDevice
  <2>1. TypeOK'
    <3>1. room' \in [Blocks -> Lengths]
      BY <1>0, <1>12 DEF PnpRemoveDevice, ExFreePool, TypeOK, Lengths
    <3> QED BY <1>0, <1>12, <3>1 DEF PnpRemoveDevice, ExFreePool, TypeOK
  <2>2. NoLeak'
    BY <1>0, <1>12 DEF PnpRemoveDevice, ExFreePool, TypeOK, NoLeak
  <2> QED BY <1>0, <1>12, <2>1, <2>2
          DEF PnpRemoveDevice, IInv, MutexHeld, Dangling, AbsentIdle
<1>13. CASE AddDevice
  <2>1. TypeOK'
    BY <1>0, <1>13 DEF AddDevice, TypeOK
  <2>2. NoLeak' /\ Dangling'
    BY <1>0, <1>13 DEF AddDevice, TypeOK, NoLeak, Dangling
  <2> QED BY <1>0, <1>13, <2>1, <2>2 DEF AddDevice, IInv, MutexHeld, AbsentIdle
<1>14. CASE UNCHANGED vars
  BY <1>0, <1>14
  DEF vars, IInv, TypeOK, MutexHeld, Dangling, NoLeak, AbsentIdle
<1>15. ASSUME NEW t \in Threads, \/ FreeNull(t) \/ UrbAllocateFails(t)
                                \/ BusOverwrites(t) \/ ReadNull(t)
       PROVE  IInv'
  <2>1. Bugcheck
    BY <1>15 DEF FreeNull, UrbAllocateFails, BusOverwrites, ReadNull
  <2>2. starved' \in {starved, TRUE}
    BY <1>15 DEF FreeNull, UrbAllocateFails, BusOverwrites, ReadNull
  <2>3. starved' \in BOOLEAN
    BY <1>0, <2>2 DEF TypeOK
  <2> QED BY <1>11, <2>1, <2>3
<1>16. QED
  BY <1>1, <1>2, <1>3, <1>4, <1>5, <1>6, <1>7, <1>8, <1>9, <1>10,
     <1>12, <1>13, <1>14, <1>15
  DEF Next, Request

\* The inductive invariant holds in every reachable state.
THEOREM Inductive == Spec => []IInv
  BY InitInv, StepInv, PTL DEF Spec

\* Every variable keeps its type, whatever overlaps or fails.
THEOREM Typing == Spec => []TypeOK
  BY Inductive, PTL DEF IInv

LEMMA InvLive == IInv => CachedBlocksLive
<1> SUFFICES ASSUME IInv, mutex = NULL PROVE \A t \in Threads : pc[t] # "alloc"
  BY DEF IInv, Dangling, CachedBlocksLive
<1> QED BY DescCacheAssumption DEF DescCacheAssumption, IInv, MutexHeld

\* No descriptor block is freed twice, for any number of threads.
THEOREM NoDoubleFree == Spec => []CachedBlocksLive
  BY Inductive, InvLive, PTL

\* No descriptor block is lost or shared, for any number of threads.
THEOREM BlocksAccounted == Spec => []NoLeak
  BY Inductive, PTL DEF IInv

\* While memory lasts, no request finds NULL where it has had a block.
LEMMA BlockStep == IInv /\ HasBlock /\ [Next]_vars => HasBlock'
<1> SUFFICES ASSUME IInv, HasBlock, [Next]_vars PROVE HasBlock'
  OBVIOUS
<1>1. TypeOK /\ MutexHeld
  BY DEF IInv
<1>2. ASSUME NEW t \in Threads, NEW s \in Slots, Lookup(t, s) PROVE HasBlock'
  BY <1>1, <1>2 DEF Lookup, AfterSuccess, Goto, HasBlock, TypeOK
<1>3. ASSUME NEW t \in Threads, LockAndFree(t) PROVE HasBlock'
  BY <1>1, <1>3 DEF LockAndFree, Goto, HasBlock, TypeOK
<1>4. ASSUME NEW t \in Threads, AllocAndUnlock(t) PROVE HasBlock'
  <2>1. CASE starved'
    BY <1>1, <1>4, <2>1 DEF AllocAndUnlock, Goto, HasBlock, TypeOK
  <2>2. CASE ~ starved'
    <3>1. PICK b \in Blocks : ptr' = [ptr EXCEPT ![slot[t]] = b] /\ UNCHANGED starved
      BY <1>4, <2>2 DEF AllocAndUnlock, ExAllocatePool
    <3>2. b # NULL
      BY DescCacheAssumption DEF DescCacheAssumption
    <3> QED BY <1>1, <1>4, <2>2, <3>1, <3>2 DEF AllocAndUnlock, Goto, HasBlock, TypeOK
  <2> QED BY <2>1, <2>2
<1>5. ASSUME NEW t \in Threads, Check(t) PROVE HasBlock'
  BY <1>1, <1>5 DEF Check, Return, Leave, Goto, HasBlock, TypeOK
<1>6. ASSUME NEW t \in Threads, Build(t) PROVE HasBlock'
  BY <1>1, <1>6 DEF Build, Goto, HasBlock, TypeOK
<1>7. ASSUME NEW t \in Threads, BusCompletes(t) \/ BusFails(t) PROVE HasBlock'
  BY <1>1, <1>7 DEF BusCompletes, BusFails, AfterSuccess, Return, Leave, Goto, HasBlock, TypeOK
<1>8. ASSUME NEW t \in Threads, ReadTotalLength(t) PROVE HasBlock'
  BY <1>1, <1>8 DEF ReadTotalLength, Goto, HasBlock, TypeOK
<1>9. ASSUME NEW t \in Threads, Measure(t) \/ Copy(t) PROVE HasBlock'
  BY <1>1, <1>9 DEF Measure, Copy, Return, Leave, Goto, HasBlock, TypeOK
<1>10. ASSUME NEW t \in Threads, \/ FreeNull(t) \/ UrbAllocateFails(t)
                                \/ BusOverwrites(t) \/ ReadNull(t)
       PROVE  HasBlock'
  BY <1>1, <1>10
  DEF FreeNull, UrbAllocateFails, BusOverwrites, ReadNull, Bugcheck, HasBlock
<1>11. CASE PnpRemoveDevice
  BY <1>1, <1>11 DEF PnpRemoveDevice, HasBlock
<1>12. CASE AddDevice
  BY <1>1, <1>12 DEF AddDevice, IInv, AbsentIdle, HasBlock
<1>13. CASE UNCHANGED vars
  BY <1>13 DEF vars, HasBlock
<1> QED
  BY <1>2, <1>3, <1>4, <1>5, <1>6, <1>7, <1>8, <1>9, <1>10, <1>11, <1>12, <1>13
  DEF Next, Request

\* However many requests overlap, none builds over, reads through or frees NULL
\* before an allocation has failed.
THEOREM NeverNull == Spec => []PointerNeverNull
<1>1. Init => HasBlock
  BY DEF Init, HasBlock
<1>2. HasBlock => PointerNeverNull
  BY DEF HasBlock, UsesPointer, PointerNeverNull
<1> QED BY <1>1, <1>2, Inductive, BlockStep, PTL DEF Spec

-----------------------------------------------------------------------------
(* Where the cache is one component of several.                            *)

\* What others do with the mutex does not concern the cache.
LEMMA MutexStep ==
  IInv /\ UNCHANGED <<ptr, mem, room, pc, slot, pass, len, buf, got, present,
                      starved, bugcheck>>
  /\ mutex' \in Threads \cup {NULL} /\ MutexHeld'
  => IInv'
  BY DEF IInv, TypeOK, MutexHeld, Dangling, NoLeak, AbsentIdle

\* A caller of GetConfDesc that is not SendEP0Ctl goes on without the copy.
LEMMA LeaveKeeps ==
  ASSUME IInv, HasBlock, NEW t \in Threads, pc[t] = "measure", Leave(t),
         UNCHANGED <<ptr, mem, room, mutex, got, present, starved, bugcheck>>
  PROVE  IInv' /\ HasBlock'
<1>1. TypeOK'
  BY DescCacheAssumption DEF IInv, TypeOK, Leave, Goto, Slots
<1>2. present
  BY DEF IInv, AbsentIdle
<1>3. IInv'
  BY <1>1, <1>2, LeaveStep
<1>4. HasBlock'
  BY DEF IInv, TypeOK, Leave, Goto, HasBlock
<1> QED BY <1>3, <1>4

\* The system stops on a read of the descriptor.
LEMMA StopKeeps ==
  IInv /\ HasBlock /\ bugcheck' = TRUE
  /\ UNCHANGED <<ptr, mem, room, mutex, pc, slot, pass, len, buf, got, present,
                 starved>>
  => IInv' /\ HasBlock'
  BY DEF IInv, TypeOK, MutexHeld, Dangling, NoLeak, AbsentIdle, HasBlock

-----------------------------------------------------------------------------
(* One request at a time, and a bus driver that does not fail.             *)

\* What Serial says when t is the only thread.
LEMMA SerialOne ==
  ASSUME NEW t, Threads = {t}
  PROVE  Serial <=> /\ FetchState(t)
                    /\ present => \A s \in Slots :
                        \/ ptr[s] = NULL
                        \/ mem[ptr[s]] = "whole"
                        \/ slot[t] = s /\ Fetching(t)
  BY DEF Serial

LEMMA SerialOneNext ==
  ASSUME NEW t, Threads = {t}
  PROVE  Serial' <=> /\ FetchState(t)'
                     /\ present' => \A s \in Slots :
                         \/ ptr'[s] = NULL
                         \/ mem'[ptr'[s]] = "whole"
                         \/ slot'[t] = s /\ Fetching(t)'
  BY DEF Serial, Slots

LEMMA SerialInit == Init => Serial
  BY DEF Init, Serial, FetchState

\* Every step keeps what the one request knows of its block.
LEMMA SerialStep ==
  ASSUME OneRequest, ~ BusMayFail, IInv, Serial, [Next]_vars
  PROVE  Serial'
<1>1. PICK t \in Threads : Threads = {t}
  BY DEF OneRequest
<1>2. /\ FetchState(t)
      /\ present => \A s \in Slots :
            ptr[s] = NULL \/ mem[ptr[s]] = "whole" \/ (slot[t] = s /\ Fetching(t))
  BY <1>1, SerialOne
<1>3. TypeOK /\ MutexHeld /\ Dangling /\ NoLeak /\ AbsentIdle
  BY DEF IInv
<1> SUFFICES
      /\ FetchState(t)'
      /\ present' => \A s \in Slots :
            ptr'[s] = NULL \/ mem'[ptr'[s]] = "whole" \/ (slot'[t] = s /\ Fetching(t)')
  BY <1>1, SerialOneNext
<1> USE DescCacheAssumption, <1>2, <1>3 DEF TypeOK, Goto
<1>4. ASSUME NEW s \in Slots, Lookup(t, s)
      PROVE  /\ FetchState(t)'
             /\ present' => \A r \in Slots :
                   ptr'[r] = NULL \/ mem'[ptr'[r]] = "whole"
                   \/ (slot'[t] = r /\ Fetching(t)')
  BY <1>4 DEF Lookup, AfterSuccess, FetchState, Fetching
<1>5. CASE LockAndFree(t)
  BY <1>5 DEF LockAndFree, ExFreePool, FetchState, Fetching, NoLeak, AbsentIdle
<1>6. CASE AllocAndUnlock(t)
  BY <1>6 DEF AllocAndUnlock, ExAllocatePool, Length, FetchState, Fetching, AbsentIdle,
              Dangling
<1>19. ASSUME UNCHANGED <<slot, pass, len>> PROVE Length(t)' = Length(t)
  BY <1>19 DEF Length
<1>7. CASE Check(t)
  <2>1. CASE Return(t, "failed")
    BY <1>7, <2>1 DEF Check, Return, Leave, FetchState, Fetching
  <2>2. CASE Goto(t, "build") /\ UNCHANGED <<slot, pass, len, buf, got>>
    <3>1. pc'[t] = "build" /\ pc[t] = "check"
      BY <1>7, <2>2 DEF Check
    <3>2. /\ UNCHANGED <<ptr, mem, room, present, bugcheck, slot, pass, len, buf, got>>
          /\ ptr[slot[t]] # NULL
      BY <1>7, <2>1, <2>2 DEF Check, Return, Leave
    <3>3. Length(t)' = Length(t)
      BY <1>19, <3>2
    <3>4. FetchState(t)'
      BY <3>1, <3>2, <3>3 DEF FetchState
    <3>5. Fetching(t) /\ Fetching(t)'
      BY <3>1 DEF Fetching
    <3> QED BY <3>2, <3>4, <3>5
  <2> QED BY <1>7, <2>1, <2>2 DEF Check
<1>8. CASE ~ bugcheck /\ Build(t)
  <2>1. buf'[t] = ptr[slot[t]] /\ pc'[t] = "bus"
    BY <1>8 DEF Build
  <2> QED BY <1>8, <1>19, <2>1 DEF Build, FetchState, Fetching
<1>9. CASE BusCompletes(t)
  <2> DEFINE b == ptr[slot[t]]
  <2>1. /\ present /\ pc[t] = "bus" /\ buf[t] = b /\ b \in Blocks /\ mem[b] # "free"
        /\ slot[t] \in Slots
    BY <1>1, <1>9 DEF BusCompletes, FetchState, AbsentIdle, Dangling
  <2>2. mem' = [mem EXCEPT ![b] = Arrived(t, b)]
    BY <1>9, <2>1 DEF BusCompletes
  <2>3. \A r \in Slots \ {slot[t]} : ptr[r] # b
    BY <2>1 DEF NoLeak
  <2>4. /\ UNCHANGED <<ptr, slot, pass, len, got, present, bugcheck>>
        /\ pc' = [pc EXCEPT ![t] = IF slot[t] = "confDesc" /\ pass[t] = 1 THEN "size"
                                   ELSE IF slot[t] = "confDesc" THEN "measure" ELSE "copy"]
    BY <1>9 DEF BusCompletes, AfterSuccess
  <2>5. Arrived(t, b) \in IF slot[t] = "confDesc" /\ pass[t] = 1 THEN {"head", "whole"}
                          ELSE {"whole"}
    BY <2>1 DEF Arrived, RoomFor, Payload, FetchState
  <2>6. FetchState(t)'
    BY <2>1, <2>2, <2>4, <2>5 DEF FetchState
  <2>7. ASSUME NEW s \in Slots
        PROVE  ptr'[s] = NULL \/ mem'[ptr'[s]] = "whole" \/ (slot'[t] = s /\ Fetching(t)')
    <3>1. CASE s = slot[t]
      BY <2>1, <2>2, <2>4, <2>5, <3>1 DEF Fetching
    <3>2. CASE s # slot[t]
      BY <2>1, <2>2, <2>3, <2>4, <3>2
    <3> QED BY <3>1, <3>2
  <2> QED BY <2>6, <2>7
<1>10. CASE BusFails(t)
  BY <1>10 DEF BusFails, FetchState
<1>11. CASE ReadTotalLength(t)
  BY <1>11 DEF ReadTotalLength, LengthsIn, FetchState, Fetching
<1>12. CASE Measure(t)
  <2>1. mem[ptr["confDesc"]] = "whole"
    BY <1>12 DEF Measure, Fetching, AbsentIdle, Slots
  <2> QED BY <1>12, <2>1 DEF Measure, LengthsIn, FetchState, Fetching
<1>13. CASE Copy(t)
  <2>1. present /\ mem[ptr[slot[t]]] = "whole"
    BY <1>13 DEF Copy, Fetching, AbsentIdle
  <2> QED BY <1>13, <2>1 DEF Copy, Return, Leave, FetchState, Fetching
<1>14. CASE UrbAllocateFails(t)
  BY <1>14 DEF UrbAllocateFails, Bugcheck, Length, FetchState, Fetching
<1>18. ~ FreeNull(t) /\ ~ BusOverwrites(t) /\ ~ ReadNull(t)
  BY DEF FreeNull, BusOverwrites, WritesWild, RoomFor, ReadNull, FetchState
<1>15. CASE PnpRemoveDevice
  BY <1>15 DEF PnpRemoveDevice, ExFreePool, FetchState
<1>16. CASE AddDevice
  BY <1>16 DEF AddDevice, FetchState, AbsentIdle
<1>17. CASE UNCHANGED vars
  BY <1>17, <1>19 DEF vars, FetchState, Fetching
<1> QED
  BY <1>1, <1>4, <1>5, <1>6, <1>7, <1>8, <1>9, <1>10, <1>11, <1>12, <1>13,
     <1>14, <1>15, <1>16, <1>17, <1>18
  DEF Next, Request

\* A caller that is not SendEP0Ctl goes on without the copy.
LEMMA SerialLeave ==
  ASSUME OneRequest, IInv, Serial, NEW t \in Threads, pc[t] = "measure", Leave(t),
         UNCHANGED <<ptr, mem, got, present, bugcheck>>
  PROVE  Serial'
<1>1. Threads = {t}
  BY DEF OneRequest
<1>2. TypeOK
  BY DEF IInv
<1> QED BY <1>1, <1>2, SerialOne, SerialOneNext
        DEF TypeOK, Leave, Goto, FetchState, Fetching

\* What a reader of the configuration descriptor finds.
LEMMA SerialWhole ==
  ASSUME OneRequest, IInv, Serial, NEW t \in Threads, pc[t] = "measure",
         ptr["confDesc"] # NULL
  PROVE  mem[ptr["confDesc"]] = "whole"
<1>1. Threads = {t}
  BY DEF OneRequest
<1> QED BY <1>1, SerialOne DEF IInv, AbsentIdle, Fetching, Slots

\* The properties of one request at a time.
LEMMA SerialProperties ==
  ASSUME OneRequest, IInv, Serial
  PROVE  DeliversComplete /\ CacheIsComplete
<1>1. PICK t \in Threads : Threads = {t}
  BY DEF OneRequest
<1>3. DeliversComplete
  BY <1>1, SerialOne DEF FetchState, DeliversComplete
<1>4. CacheIsComplete
  BY <1>1, SerialOne DEF Fetching, CacheIsComplete
<1> QED BY <1>3, <1>4
=============================================================================
