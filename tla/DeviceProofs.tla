---------------------------- MODULE DeviceProofs ----------------------------
(***************************************************************************)
(* Proofs about Device.  A step is one of the descriptor cache, one of the *)
(* pipe table, one of both (the beginning of a selection, the removal and  *)
(* the arrival of the device), or the end of one of them without the rest, *)
(* so that the invariants proved of the two hold in it.  The mutex is the  *)
(* only variable one of them changes under the other: its owner is in one  *)
(* of them at a time.                                                      *)
(***************************************************************************)
EXTENDS Device, WellFoundedInduction, TLAPS

\* The two modules with their theorems, over the variables of Device.
DP == INSTANCE DescCacheProofs WITH
        Blocks <- DescBlocks, AllocMayFail <- DescAllocMayFail,
        BusMayFail <- DescBusMayFail, pc <- descPc, bugcheck <- descBugcheck

PP == INSTANCE PipeTableProofs WITH
        Blocks <- PipeBlocks, AllocMayFail <- PipeAllocMayFail,
        BusMayFail <- PipeBusMayFail, pc <- pipePc, bugcheck <- pipeBugcheck

LEMMA CacheAssumption == DP!DescCacheAssumption
  BY DeviceAssumption DEF DeviceAssumption, DP!DescCacheAssumption

LEMMA TableAssumption == PP!PipeTableAssumption /\ PP!EntryAssumption
<1>1. PP!PipeTableAssumption
  BY DeviceAssumption DEF DeviceAssumption, PP!PipeTableAssumption
<1>2. PP!EntryAssumption
  BY EntryAssumption
  DEF EntryAssumption, PP!EntryAssumption, P!Entries, PP!Entries, P!Handles,
      PP!Handles, P!Gens, PP!Gens
<1> QED BY <1>1, <1>2

\* D and DP instantiate the same definitions: nothing but expanding them all.
LEMMA SameCache ==
  /\ (D!IInv <=> DP!IInv) /\ (D!IInv' <=> DP!IInv')
  /\ (D!HasBlock <=> DP!HasBlock) /\ (D!HasBlock' <=> DP!HasBlock')
  /\ (D!Serial <=> DP!Serial) /\ (D!Serial' <=> DP!Serial')
  BY DEF D!Slots, DP!Slots, D!Lengths, DP!Lengths, D!Length, DP!Length, D!TypeOK,
         DP!TypeOK, D!NoLeak, DP!NoLeak,
         D!MutexHeld, DP!MutexHeld, D!Dangling, DP!Dangling,
         D!HasBlock, DP!HasBlock, D!AbsentIdle, DP!AbsentIdle, D!IInv,
         DP!IInv, D!Fetching, DP!Fetching, D!FetchState, DP!FetchState,
         D!Serial, DP!Serial

LEMMA SameCacheSteps == [D!Next]_(D!vars) <=> [DP!Next]_(DP!vars)
  BY DEF D!vars, DP!vars, D!Slots, DP!Slots, D!Goto, DP!Goto, D!Leave, DP!Leave,
         D!Return, DP!Return, D!AfterSuccess, DP!AfterSuccess,
         D!LengthsIn, DP!LengthsIn, D!Length, DP!Length, D!RoomFor, DP!RoomFor,
         D!ExFreePool, DP!ExFreePool, D!ExAllocatePool, DP!ExAllocatePool,
         D!WritesWild, DP!WritesWild, D!Arrived, DP!Arrived, D!BusOverwrites,
         DP!BusOverwrites, D!Bugcheck, DP!Bugcheck, D!Lookup,
         DP!Lookup, D!LockAndFree, DP!LockAndFree, D!FreeNull,
         DP!FreeNull, D!AllocAndUnlock, DP!AllocAndUnlock, D!Check,
         DP!Check, D!Build, DP!Build, D!UrbAllocateFails,
         DP!UrbAllocateFails, D!Payload, DP!Payload, D!BusCompletes,
         DP!BusCompletes, D!BusFails, DP!BusFails, D!ReadTotalLength,
         DP!ReadTotalLength, D!Measure, DP!Measure, D!Copy, DP!Copy,
         D!ReadNull, DP!ReadNull, D!PnpRemoveDevice,
         DP!PnpRemoveDevice, D!AddDevice, DP!AddDevice, D!Request,
         DP!Request, D!Next, DP!Next

\* So do P and PP.
LEMMA SameTable ==
  /\ (P!IInv <=> PP!IInv) /\ (P!IInv' <=> PP!IInv')
  /\ (P!Serial <=> PP!Serial) /\ (P!Serial' <=> PP!Serial')
  BY DEF P!Gens, PP!Gens, P!Handles, PP!Handles, P!Entries, PP!Entries,
         P!TypeOK, PP!TypeOK, P!Entry, PP!Entry, P!Settled, PP!Settled,
         P!NoLeak, PP!NoLeak, P!ArgOK, PP!ArgOK, P!MutexHeld,
         PP!MutexHeld, P!Replacing, PP!Replacing, P!ArrayThere,
         PP!ArrayThere, P!AbsentIdle, PP!AbsentIdle, P!IInv, PP!IInv,
         P!Describes, PP!Describes, P!SelectState, PP!SelectState,
         P!UseState, PP!UseState, P!Serial, PP!Serial

LEMMA SameTableSteps == [P!Next]_(P!vars) <=> [PP!Next]_(PP!vars)
  BY DEF P!vars, PP!vars, P!device, PP!device, P!table, PP!table, P!request,
         PP!request, P!Gens, PP!Gens, P!Handles, PP!Handles, P!Goto,
         PP!Goto, P!Return, PP!Return, P!FreeTable, PP!FreeTable,
         P!Bugcheck, PP!Bugcheck, P!Entry, PP!Entry, P!LiveHandle,
         PP!LiveHandle, P!StartSelect, PP!StartSelect,
         P!SelectCompletes, PP!SelectCompletes, P!SelectFails,
         PP!SelectFails, P!Publish, PP!Publish, P!AllocAndUnlock,
         PP!AllocAndUnlock, P!TestArray, PP!TestArray, P!Filled,
         PP!Filled, P!Fill, PP!Fill, P!FillOutside, PP!FillOutside,
         P!StartPipe, PP!StartPipe, P!NoPipes, PP!NoPipes, P!Scan,
         PP!Scan, P!NotFound, PP!NotFound, P!UseEntry, PP!UseEntry,
         P!UrbFails, PP!UrbFails, P!Transfer, PP!Transfer,
         P!PipeRequest, PP!PipeRequest, P!BusFails, PP!BusFails,
         P!Mark, PP!Mark, P!TableFault, PP!TableFault, P!TransferDone,
         PP!TransferDone, P!PnpRemoveDevice, PP!PnpRemoveDevice,
         P!AddDevice, PP!AddDevice, P!Selection, PP!Selection,
         P!PipeUse, PP!PipeUse, P!Next, PP!Next

-----------------------------------------------------------------------------
(* What the two proof modules say, in terms of D and P.                    *)

LEMMA CacheInit == D!Init => D!IInv /\ D!HasBlock /\ D!Serial
<1>1. D!Init <=> DP!Init
  BY DEF D!Init, DP!Init, D!Slots, DP!Slots, D!Lengths, DP!Lengths
<1>2. DP!Init => DP!HasBlock
  BY DEF DP!Init, DP!HasBlock
<1> QED BY <1>1, <1>2, CacheAssumption, SameCache, DP!InitInv, DP!SerialInit

LEMMA CacheStep == D!IInv /\ D!HasBlock /\ [D!Next]_(D!vars) => D!IInv' /\ D!HasBlock'
  BY CacheAssumption, SameCache, SameCacheSteps, DP!StepInv, DP!BlockStep

LEMMA CacheSerialStep ==
  ASSUME OneAtATime, D!IInv, D!Serial, [D!Next]_(D!vars) PROVE D!Serial'
<1>1. DP!OneRequest /\ ~ DescBusMayFail
  BY DEF OneAtATime, D!OneRequest, DP!OneRequest
<1> QED BY <1>1, CacheAssumption, SameCache, SameCacheSteps, DP!SerialStep

LEMMA CacheMutexStep ==
  ASSUME D!IInv, D!HasBlock, UNCHANGED <<cache, present>>,
         mutex' \in Threads \cup {NULL}, D!MutexHeld'
  PROVE  D!IInv' /\ D!HasBlock'
<1>1. DP!MutexHeld' /\ DP!IInv
  BY SameCache DEF D!MutexHeld, DP!MutexHeld
<1>2. DP!IInv'
  BY <1>1, CacheAssumption, DP!MutexStep DEF cache
<1>3. D!HasBlock'
  BY DEF cache, D!HasBlock
<1> QED BY <1>2, <1>3, SameCache

LEMMA CacheLeave ==
  ASSUME D!IInv, D!HasBlock, NEW t \in Threads, descPc[t] = "measure", D!Leave(t),
         UNCHANGED <<ptr, mem, room, mutex, got, present, starved, descBugcheck>>
  PROVE  D!IInv' /\ D!HasBlock'
<1>1. DP!Leave(t)
  BY DEF D!Leave, DP!Leave, D!Goto, DP!Goto
<1> QED BY <1>1, CacheAssumption, SameCache, DP!LeaveKeeps

LEMMA CacheSerialLeave ==
  ASSUME OneAtATime, D!IInv, D!Serial, NEW t \in Threads, descPc[t] = "measure", D!Leave(t),
         UNCHANGED <<ptr, mem, room, got, present, descBugcheck>>
  PROVE  D!Serial'
<1>1. DP!Leave(t) /\ DP!OneRequest
  BY DEF D!Leave, DP!Leave, D!Goto, DP!Goto, OneAtATime, D!OneRequest, DP!OneRequest
<1> QED BY <1>1, CacheAssumption, SameCache, DP!SerialLeave

LEMMA CacheStop ==
  ASSUME D!IInv, D!HasBlock, descBugcheck' = TRUE,
         UNCHANGED <<ptr, mem, room, mutex, descPc, slot, pass, len, buf, got, present,
                     starved>>
  PROVE  D!IInv' /\ D!HasBlock'
  BY CacheAssumption, SameCache, DP!StopKeeps

LEMMA TableInit == P!Init => P!IInv /\ P!Serial
<1>1. P!Init <=> PP!Init
  BY DEF P!Init, PP!Init
<1> QED BY <1>1, TableAssumption, SameTable, PP!InitInv, PP!SerialInit

LEMMA TableStep == P!IInv /\ [P!Next]_(P!vars) => P!IInv'
  BY TableAssumption, SameTable, SameTableSteps, PP!StepInv

LEMMA TableSerialStep ==
  ASSUME OneAtATime, P!IInv, P!Serial, [P!Next]_(P!vars) PROVE P!Serial'
<1>1. PP!OneRequest /\ ~ PipeAllocMayFail
  BY DEF OneAtATime, D!OneRequest, PP!OneRequest
<1> QED BY <1>1, TableAssumption, SameTable, SameTableSteps, PP!SerialStep

LEMMA TableMutexStep ==
  ASSUME P!IInv, UNCHANGED <<pipes, present>>,
         mutex' \in Threads \cup {NULL}, P!MutexHeld'
  PROVE  P!IInv'
<1>1. PP!MutexHeld' /\ PP!IInv
  BY SameTable DEF P!MutexHeld, PP!MutexHeld
<1>2. UNCHANGED <<PP!device, pipeCount, pipeInfos, alloc, tab, pipePc, PP!request,
                  pipeBugcheck>>
  BY DEF pipes, PP!device, PP!request
<1>3. PP!IInv'
  BY <1>1, <1>2, TableAssumption, PP!MutexStep
<1> QED BY <1>3, SameTable

LEMMA TableReturn ==
  ASSUME P!IInv, NEW t \in Threads, NEW r \in {"ok", "failed"}, P!Return(t, r),
         pipePc[t] \notin {"idle", "alloc"}, UNCHANGED <<device, table, pipeBugcheck>>
  PROVE  P!IInv'
<1>1. PP!Return(t, r) /\ UNCHANGED <<PP!device, PP!table, pipeBugcheck>>
  BY DEF P!Return, PP!Return, P!Goto, PP!Goto, device, table, PP!device, PP!table
<1> QED BY <1>1, TableAssumption, SameTable, PP!ReturnKeeps

LEMMA TableSerialReturn ==
  ASSUME OneAtATime, P!IInv, P!Serial, NEW t \in Threads, NEW r, P!Return(t, r),
         pipePc[t] \notin {"publish", "alloc", "test", "fill"},
         UNCHANGED <<device, table, pipeBugcheck>>
  PROVE  P!Serial'
<1>1. PP!Return(t, r) /\ PP!OneRequest
  BY DEF P!Return, PP!Return, P!Goto, PP!Goto, OneAtATime, D!OneRequest, PP!OneRequest
<1> QED BY <1>1, TableAssumption, SameTable, PP!SerialReturn DEF device, table

-----------------------------------------------------------------------------
(* What a step of a thread in one of them may do to the other.             *)

\* A step inside a descriptor request, seen from a selection.
LEMMA CacheEffect ==
  ASSUME D!TypeOK, D!MutexHeld, NEW t \in Threads, D!Request(t)
  PROVE  /\ descPc[t] # "idle"
         /\ \A u \in Threads \ {t} : descPc'[u] = descPc[u] /\ slot'[u] = slot[u]
         /\ descPc'[t] # "idle" => slot'[t] = slot[t]
         /\ descPc'[t] \in {"size", "measure"} =>
                slot[t] = "confDesc" \/ descPc'[t] = descPc[t]
         /\ UNCHANGED mutex \/ mutex = NULL \/ (mutex = t /\ descPc[t] = "alloc")
         /\ UNCHANGED present
<1> USE DEF D!TypeOK, D!Goto
<1>1. CASE D!LockAndFree(t)
  BY <1>1 DEF D!LockAndFree
<1>2. CASE D!AllocAndUnlock(t)
  BY <1>2 DEF D!AllocAndUnlock, D!MutexHeld
<1>3. CASE D!FreeNull(t) \/ D!UrbAllocateFails(t) \/ D!BusOverwrites(t) \/ D!ReadNull(t)
  BY <1>3 DEF D!FreeNull, D!UrbAllocateFails, D!BusOverwrites, D!ReadNull, D!Bugcheck
<1>4. CASE D!Check(t) \/ D!BusFails(t) \/ D!Copy(t)
  BY <1>4 DEF D!Check, D!BusFails, D!Copy, D!Return, D!Leave
<1>5. CASE D!BusCompletes(t)
  BY <1>5 DEF D!BusCompletes, D!AfterSuccess
<1>6. CASE D!Build(t) \/ D!ReadTotalLength(t) \/ D!Measure(t)
  BY <1>6 DEF D!Build, D!ReadTotalLength, D!Measure
<1> QED BY <1>1, <1>2, <1>3, <1>4, <1>5, <1>6 DEF D!Request

\* The cached pointer becomes NULL only where an allocation fails.
LEMMA PointerStays ==
  ASSUME D!TypeOK, NEW t \in Threads, D!Request(t)
  PROVE  starved' \/ (~ starved /\ (ptr["confDesc"] # NULL => ptr'["confDesc"] # NULL))
<1>1. CASE UNCHANGED <<ptr, starved>>
  BY <1>1, Zenon
<1>2. CASE D!AllocAndUnlock(t)
  <2>1. CASE starved' = TRUE
    BY <2>1
  <2>2. CASE UNCHANGED starved /\ \E b \in DescBlocks : D!ExAllocatePool(t, b)
    <3>1. PICK b \in DescBlocks : ptr' = [ptr EXCEPT ![slot[t]] = b]
      BY <2>2 DEF D!ExAllocatePool
    <3>2. b # NULL /\ "confDesc" \in D!Slots
      BY DeviceAssumption DEF DeviceAssumption, D!Slots
    <3>3. ptr["confDesc"] # NULL => ptr'["confDesc"] # NULL
      BY <3>1, <3>2 DEF D!TypeOK
    <3> QED BY <2>2, <3>3, Zenon
  <2> QED BY <1>2, <2>1, <2>2 DEF D!AllocAndUnlock
<1>3. CASE D!FreeNull(t) \/ D!BusOverwrites(t) \/ D!ReadNull(t)
  BY <1>1, <1>3 DEF D!FreeNull, D!BusOverwrites, D!ReadNull, D!Bugcheck
<1>4. CASE D!UrbAllocateFails(t)
  BY <1>4 DEF D!UrbAllocateFails
<1> QED
  BY <1>1, <1>2, <1>3, <1>4
  DEF D!Request, D!LockAndFree, D!Check, D!Build, D!BusCompletes, D!BusFails,
      D!ReadTotalLength, D!Measure, D!Copy

\* A step inside a table request.
LEMMA TableEffect ==
  ASSUME P!TypeOK, P!MutexHeld, NEW t \in Threads, P!Selection(t) \/ P!PipeUse(t)
  PROVE  /\ pipePc[t] # "idle"
         /\ \A u \in Threads \ {t} : pipePc'[u] = pipePc[u]
         /\ UNCHANGED mutex \/ mutex = NULL \/ (mutex = t /\ pipePc[t] = "alloc")
         /\ UNCHANGED present
<1> USE DEF P!TypeOK, P!Goto, P!device, P!table
<1>1. CASE P!Publish(t)
  BY <1>1 DEF P!Publish
<1>2. CASE P!AllocAndUnlock(t)
  BY <1>2 DEF P!AllocAndUnlock, P!MutexHeld
<1>3. CASE P!FillOutside(t) \/ P!TableFault(t)
  BY <1>3 DEF P!FillOutside, P!TableFault, P!Bugcheck
<1>4. CASE P!SelectCompletes(t) \/ P!SelectFails(t) \/ P!TestArray(t) \/ P!Fill(t)
  BY <1>4 DEF P!SelectCompletes, P!SelectFails, P!TestArray, P!Fill, P!Return
<1>5. CASE P!NoPipes(t) \/ P!NotFound(t) \/ P!UrbFails(t) \/ P!BusFails(t)
  BY <1>5 DEF P!NoPipes, P!NotFound, P!UrbFails, P!BusFails, P!Return
<1>6. CASE P!Scan(t) \/ P!UseEntry(t)
  BY <1>6 DEF P!Scan, P!UseEntry, P!Return
<1>7. CASE P!Transfer(t) \/ P!PipeRequest(t) \/ P!Mark(t)
  BY <1>7 DEF P!Transfer, P!PipeRequest, P!Mark, P!Return
<1> QED BY <1>1, <1>2, <1>3, <1>4, <1>5, <1>6, <1>7 DEF P!Selection, P!PipeUse

\* The mutex passes from nobody to the thread that takes it and back: the other
\* component's owner, if there is one, keeps it.
LEMMA OwnerStays ==
  ASSUME IInv, NEW t \in Threads,
         UNCHANGED mutex \/ mutex = NULL
            \/ (mutex = t /\ (descPc[t] = "alloc" \/ pipePc[t] = "alloc"))
  PROVE  /\ UNCHANGED pipePc /\ pipePc[t] # "alloc" => P!MutexHeld'
         /\ UNCHANGED descPc /\ descPc[t] # "alloc" => D!MutexHeld'
  BY DeviceAssumption
  DEF DeviceAssumption, IInv, D!IInv, P!IInv, D!MutexHeld, P!MutexHeld

-----------------------------------------------------------------------------
(* The inductive invariant                                                 *)

LEMMA InitInv == Init => IInv
<1> SUFFICES ASSUME Init PROVE IInv
  OBVIOUS
<1>1. D!IInv /\ D!HasBlock /\ P!IInv
  BY CacheInit, TableInit DEF Init
<1>2. SelectionState /\ SizesConfDesc /\ DescriptorThere
  BY DEF Init, D!Init, P!Init, SelectionState, SizesConfDesc, DescriptorThere
<1> QED BY <1>1, <1>2 DEF IInv

\* A step inside a descriptor request, of SendEP0Ctl or of a selection.
LEMMA RequestStep ==
  ASSUME IInv, Running, NEW t \in Threads, D!Request(t),
         sel[t] = "none" \/ InGetConfDesc(t), UNCHANGED <<pipes, selection>>
  PROVE  IInv'
<1> USE DEF pipes, selection
<1>1. D!TypeOK /\ D!MutexHeld /\ SelectionState
  BY DEF IInv, D!IInv
<1>2. /\ descPc[t] # "idle"
      /\ \A u \in Threads \ {t} : descPc'[u] = descPc[u] /\ slot'[u] = slot[u]
      /\ descPc'[t] # "idle" => slot'[t] = slot[t]
      /\ descPc'[t] \in {"size", "measure"} =>
            slot[t] = "confDesc" \/ descPc'[t] = descPc[t]
      /\ UNCHANGED mutex \/ mutex = NULL \/ (mutex = t /\ descPc[t] = "alloc")
      /\ UNCHANGED present
  BY <1>1, CacheEffect
<1>3. pipePc[t] # "alloc"
  BY <1>1, <1>2 DEF SelectionState
<1>4. D!Next
  BY DEF Running, D!Next
<1>5. D!IInv' /\ D!HasBlock'
  BY <1>4, CacheStep DEF IInv
<1>6. P!IInv'
  <2>1. P!MutexHeld'
    BY <1>2, <1>3, OwnerStays
  <2>2. mutex' \in Threads \cup {NULL}
    BY <1>5 DEF D!IInv, D!TypeOK
  <2> QED BY <1>2, <2>1, <2>2, TableMutexStep DEF IInv
<1>7. SelectionState'
  BY <1>1, <1>2 DEF SelectionState, InGetConfDesc
<1>8. SizesConfDesc'
  BY <1>1, <1>2 DEF IInv, SizesConfDesc
<1>9. DescriptorThere'
  BY <1>1, PointerStays DEF IInv, DescriptorThere
<1> QED BY <1>5, <1>6, <1>7, <1>8, <1>9 DEF IInv

\* A step inside a request that uses or replaces the table.
LEMMA TableRequestStep ==
  ASSUME IInv, Running, NEW t \in Threads,
         \/ ReplaceTable(t)
         \/ P!PipeUse(t) /\ UNCHANGED <<cache, selection>>
  PROVE  IInv'
<1> USE DEF cache, selection
<1>1. P!TypeOK /\ P!MutexHeld /\ P!AbsentIdle /\ SelectionState /\ SizesConfDesc
  BY DEF IInv, P!IInv
<1>2. P!Selection(t) \/ P!PipeUse(t)
  BY DEF ReplaceTable
<1>3. /\ pipePc[t] # "idle"
      /\ \A u \in Threads \ {t} : pipePc'[u] = pipePc[u]
      /\ UNCHANGED mutex \/ mutex = NULL \/ (mutex = t /\ pipePc[t] = "alloc")
      /\ UNCHANGED present
  BY <1>1, <1>2, TableEffect
<1>4. pipePc[t] \notin {"idle", "select"}
  BY <1>1, <1>3
  DEF ReplaceTable, P!PipeUse, P!NoPipes, P!Scan, P!NotFound, P!UseEntry, P!UrbFails,
      P!Transfer, P!PipeRequest, P!BusFails, P!Mark, P!TableFault
<1>5. descPc[t] = "idle" /\ sel[t] \notin {"describe", "found"}
  BY <1>1, <1>4 DEF SelectionState
<1>6. sel[t] = "count" => UNCHANGED pipePc
  <2>1. P!PipeUse(t) => pipePc[t] # "publish"
    BY DEF P!PipeUse, P!NoPipes, P!Scan, P!NotFound, P!UseEntry, P!UrbFails,
           P!Transfer, P!PipeRequest, P!BusFails, P!Mark, P!TableFault
  <2> QED BY <1>1, <2>1 DEF ReplaceTable, SelectionState
<1>7. /\ UNCHANGED <<cache, layout, by, where>>
      /\ sel' = sel \/ sel' = [sel EXCEPT ![t] = "none"]
  BY DEF ReplaceTable
<1>8. P!Next
  BY <1>2 DEF Running, P!Next
<1>9. P!IInv'
  BY <1>8, TableStep DEF IInv
<1>10. D!IInv' /\ D!HasBlock'
  <2>1. D!MutexHeld'
    BY <1>3, <1>5, <1>7, OwnerStays
  <2>2. mutex' \in Threads \cup {NULL}
    BY <1>9 DEF P!IInv, P!TypeOK
  <2> QED BY <1>3, <1>7, <2>1, <2>2, CacheMutexStep DEF IInv
<1>11. SelectionState'
  BY <1>1, <1>3, <1>5, <1>6, <1>7 DEF SelectionState
<1>12. SizesConfDesc' /\ DescriptorThere'
  <2>1. /\ sel' \in [Threads -> {"none", "describe", "found", "count", "recount"}]
        /\ \A u \in Threads : sel'[u] = sel[u] \/ sel'[u] = "none"
    BY <1>1, <1>7 DEF SelectionState
  <2> QED BY <1>1, <1>7, <2>1 DEF IInv, SizesConfDesc, DescriptorThere
<1> QED BY <1>9, <1>10, <1>11, <1>12 DEF IInv

\* A selection ends without a change of the device, the table or the cache.
LEMMA EndStep ==
  ASSUME IInv, NEW t \in Threads, NEW r \in {"ok", "failed"}, P!Return(t, r),
         pipePc[t] \notin {"idle", "alloc"}, descPc[t] = "idle",
         sel' = [sel EXCEPT ![t] = "none"],
         UNCHANGED <<cache, device, table, pipeBugcheck>>
  PROVE  IInv'
<1> USE DEF cache, device, table
<1>1. P!TypeOK /\ D!MutexHeld /\ SelectionState
  BY DEF IInv, D!IInv, P!IInv
<1>2. P!IInv'
  BY TableReturn DEF IInv
<1>3. D!IInv' /\ D!HasBlock'
  BY <1>1, CacheMutexStep DEF IInv, P!TypeOK, D!MutexHeld
<1>4. pipePc' = [pipePc EXCEPT ![t] = "idle"]
  BY DEF P!Return, P!Goto
<1>5. SelectionState'
  BY <1>1, <1>4 DEF SelectionState, P!TypeOK
<1>6. SizesConfDesc' /\ DescriptorThere'
  BY <1>1 DEF IInv, SelectionState, SizesConfDesc, DescriptorThere
<1> QED BY <1>2, <1>3, <1>5, <1>6 DEF IInv

\* The beginning of a request or of a selection.
LEMMA BeginStep ==
  ASSUME IInv, Running, NEW t \in Threads, Idle(t),
         \/ \E s \in D!Slots : D!Lookup(t, s) /\ UNCHANGED <<pipes, selection>>
         \/ \E o \in PipeRequests, a \in Addrs :
                P!StartPipe(t, o, a) /\ UNCHANGED <<cache, selection>>
         \/ \E f \in Selections, a \in Alts : BeginSelect(t, f, a)
  PROVE  IInv'
<1>1. D!TypeOK /\ P!TypeOK /\ D!MutexHeld /\ P!MutexHeld /\ SelectionState
  BY DEF IInv, D!IInv, P!IInv
<1>2. SizesConfDesc /\ DescriptorThere
  BY DEF IInv
<1>3. ASSUME NEW s \in D!Slots, D!Lookup(t, s)
      PROVE  /\ D!IInv' /\ D!HasBlock'
             /\ \E l \in {"lock", "measure", "copy"} :
                    /\ descPc' = [descPc EXCEPT ![t] = l]
                    /\ l = "measure" => s = "confDesc"
             /\ slot' = [slot EXCEPT ![t] = s]
             /\ UNCHANGED <<ptr, starved, mutex, present>> /\ present
  <2>1. D!Next
    BY <1>3 DEF Running, D!Next
  <2> QED BY <1>3, <2>1, CacheStep DEF IInv, D!Lookup, D!AfterSuccess, D!Goto
<1>4. ASSUME NEW l \in {"select", "scan"}, P!Goto(t, l), P!Next,
             UNCHANGED <<mutex, present>>
      PROVE  P!IInv' /\ pipePc' = [pipePc EXCEPT ![t] = l]
  BY <1>4, TableStep DEF IInv, P!Goto
<1>5. CASE \E s \in D!Slots : D!Lookup(t, s) /\ UNCHANGED <<pipes, selection>>
  <2> USE DEF pipes, selection
  <2>1. PICK s \in D!Slots : D!Lookup(t, s) /\ UNCHANGED <<pipes, selection>>
    BY <1>5
  <2>2. /\ D!IInv' /\ D!HasBlock'
        /\ slot' = [slot EXCEPT ![t] = s]
        /\ UNCHANGED <<ptr, starved, mutex, present>> /\ present
    BY <1>3, <2>1
  <2>3. PICK l \in {"lock", "measure", "copy"} :
            descPc' = [descPc EXCEPT ![t] = l] /\ (l = "measure" => s = "confDesc")
    BY <1>3, <2>1
  <2>4. P!IInv'
    BY <1>1, <2>1, <2>2, TableMutexStep DEF IInv, D!TypeOK, P!MutexHeld
  <2>5. SelectionState'
    BY <1>1, <2>1, <2>2, <2>3 DEF SelectionState, Idle, D!TypeOK
  <2>6. SizesConfDesc' /\ DescriptorThere'
    BY <1>1, <1>2, <2>1, <2>2, <2>3 DEF SizesConfDesc, DescriptorThere, Idle, D!TypeOK
  <2> QED BY <2>2, <2>4, <2>5, <2>6 DEF IInv
<1>6. CASE \E o \in PipeRequests, a \in Addrs :
              P!StartPipe(t, o, a) /\ UNCHANGED <<cache, selection>>
  <2> USE DEF cache, selection
  <2>1. PICK o \in PipeRequests, a \in Addrs :
            P!StartPipe(t, o, a) /\ UNCHANGED <<cache, selection>>
    BY <1>6
  <2>2. P!Next
    BY <2>1 DEF Running, P!Next, PipeRequests
  <2>3. UNCHANGED <<mutex, present>> /\ P!Goto(t, "scan")
    BY <2>1 DEF P!StartPipe, P!device, P!table
  <2>4. P!IInv' /\ pipePc' = [pipePc EXCEPT ![t] = "scan"]
    BY <1>4, <2>2, <2>3
  <2>5. D!IInv' /\ D!HasBlock'
    BY <1>1, <2>1, <2>3, CacheMutexStep DEF IInv, D!TypeOK, D!MutexHeld
  <2>6. SelectionState'
    BY <1>1, <2>1, <2>3, <2>4 DEF SelectionState, Idle, P!TypeOK
  <2>7. SizesConfDesc' /\ DescriptorThere'
    BY <1>2, <2>1 DEF SizesConfDesc, DescriptorThere
  <2> QED BY <2>4, <2>5, <2>6, <2>7 DEF IInv
<1>7. CASE \E f \in Selections, a \in Alts : BeginSelect(t, f, a)
  <2>1. PICK f \in Selections, a \in Alts : BeginSelect(t, f, a)
    BY <1>7
  <2>2. /\ P!StartSelect(t, a) /\ D!Lookup(t, "confDesc")
        /\ sel' = [sel EXCEPT ![t] = "describe"]
    BY <2>1 DEF BeginSelect
  <2>3. "confDesc" \in D!Slots
    BY DEF D!Slots
  <2>4. /\ D!IInv' /\ D!HasBlock'
        /\ slot' = [slot EXCEPT ![t] = "confDesc"]
        /\ UNCHANGED <<ptr, starved, mutex, present>> /\ present
    BY <1>3, <2>2, <2>3
  <2>5. PICK l \in {"lock", "measure", "copy"} : descPc' = [descPc EXCEPT ![t] = l]
    BY <1>3, <2>2, <2>3
  <2>6. P!Next /\ P!Goto(t, "select")
    BY <2>2 DEF Running, P!Next, P!StartSelect
  <2>7. P!IInv' /\ pipePc' = [pipePc EXCEPT ![t] = "select"]
    BY <1>4, <2>4, <2>6
  <2>8. SelectionState'
    BY <1>1, <2>2, <2>4, <2>5, <2>7 DEF SelectionState, Idle, D!TypeOK, P!TypeOK
  <2>9. SizesConfDesc' /\ DescriptorThere'
    BY <1>1, <1>2, <2>2, <2>4, <2>5
    DEF SizesConfDesc, DescriptorThere, SelectionState, D!TypeOK
  <2> QED BY <2>4, <2>7, <2>8, <2>9 DEF IInv
<1> QED BY <1>5, <1>6, <1>7

\* Every step of Device keeps the inductive invariant.
LEMMA StepInv == IInv /\ [Next]_vars => IInv'
<1> SUFFICES ASSUME IInv, [Next]_vars PROVE IInv'
  OBVIOUS
<1>1. /\ D!TypeOK /\ D!MutexHeld /\ P!TypeOK /\ P!MutexHeld
      /\ SelectionState /\ SizesConfDesc /\ DescriptorThere
  BY DEF IInv, D!IInv, P!IInv
<1>2. ASSUME UNCHANGED <<present, mutex, cache, pipes>>
      PROVE  D!IInv' /\ D!HasBlock' /\ P!IInv'
  <2>1. UNCHANGED D!vars /\ UNCHANGED P!vars
    BY <1>2 DEF cache, pipes, D!vars, P!vars
  <2> QED BY <2>1, CacheStep, TableStep DEF IInv
<1>3. CASE UNCHANGED vars
  <2>1. UNCHANGED <<present, mutex, cache, pipes, selection>>
    BY <1>3 DEF vars
  <2>2. SelectionState' /\ SizesConfDesc' /\ DescriptorThere'
    BY <1>1, <2>1
    DEF cache, pipes, selection, SelectionState, SizesConfDesc, DescriptorThere
  <2> QED BY <1>2, <2>1, <2>2 DEF IInv
<1>4. ASSUME NEW t \in Threads, DescribeFails(t) PROVE IInv'
  BY <1>1, <1>4, EndStep DEF DescribeFails, EndSelect, SelectionState
<1>5. ASSUME NEW t \in Threads, FindInterface(t) PROVE IInv'
  <2>1. /\ sel[t] = "describe" /\ descPc[t] = "measure" /\ ptr["confDesc"] # NULL
        /\ D!Leave(t) /\ sel' = [sel EXCEPT ![t] = "found"]
        /\ UNCHANGED <<present, mutex, ptr, mem, room, got, starved, descBugcheck, pipes>>
    BY <1>5 DEF FindInterface
  <2>2. D!IInv' /\ D!HasBlock'
    BY <2>1, CacheLeave DEF IInv
  <2>3. P!IInv'
    BY <1>1, <2>1, TableMutexStep DEF IInv, P!TypeOK, P!MutexHeld, pipes
  <2>4. SelectionState'
    BY <1>1, <2>1 DEF SelectionState, D!Leave, D!Goto, D!TypeOK, pipes
  <2>5. SizesConfDesc' /\ DescriptorThere'
    BY <1>1, <2>1
    DEF SizesConfDesc, DescriptorThere, SelectionState, D!Leave, D!Goto, D!TypeOK
  <2> QED BY <2>2, <2>3, <2>4, <2>5 DEF IInv
<1>6. ASSUME NEW t \in Threads, NotInDescriptor(t) PROVE IInv'
  BY <1>1, <1>6, EndStep DEF NotInDescriptor, EndSelect, SelectionState
<1>7. ASSUME Running, NEW t \in Threads, Select(t) PROVE IInv'
  <2>1. /\ sel[t] = "found" /\ P!SelectCompletes(t)
        /\ UNCHANGED <<mutex, cache>>
        /\ sel' = [sel EXCEPT ![t] = IF by[t] = "configuration" THEN "count" ELSE "none"]
    BY <1>7 DEF Select
  <2>2. P!Next
    BY <1>7, <2>1 DEF Running, P!Next, P!Selection
  <2>3. pipePc' = [pipePc EXCEPT ![t] = "publish"] /\ UNCHANGED present
    BY <2>1 DEF P!SelectCompletes, P!Goto
  <2>4. P!IInv'
    BY <2>2, TableStep DEF IInv
  <2>5. D!IInv' /\ D!HasBlock'
    BY <1>1, <2>1, <2>3, CacheMutexStep DEF IInv, D!TypeOK, D!MutexHeld, cache
  <2>6. SelectionState'
    BY <1>1, <2>1, <2>3 DEF SelectionState, P!TypeOK, P!AbsentIdle, cache, IInv, P!IInv
  <2>7. SizesConfDesc' /\ DescriptorThere'
    BY <1>1, <2>1 DEF SizesConfDesc, DescriptorThere, SelectionState, cache
  <2> QED BY <2>4, <2>5, <2>6, <2>7 DEF IInv
<1>8. ASSUME NEW t \in Threads, SelectFails(t) PROVE IInv'
  <2>1. /\ P!Return(t, "failed") /\ UNCHANGED <<cache, device, table, pipeBugcheck>>
        /\ sel[t] = "found" /\ sel' = [sel EXCEPT ![t] = "none"]
    BY <1>8 DEF SelectFails, P!SelectFails, P!device, P!table, device, table
  <2>2. pipePc[t] = "select" /\ descPc[t] = "idle"
    BY <1>1, <2>1 DEF SelectionState
  <2> QED BY <2>1, <2>2, EndStep
<1>9. ASSUME NEW t \in Threads, CountInterfaces(t) PROVE IInv'
  <2>1. pipePc[t] = "publish" /\ descPc[t] = "idle" /\ sel[t] = "count"
    BY <1>1, <1>9 DEF CountInterfaces, SelectionState
  <2>2. CASE sel' = [sel EXCEPT ![t] = "recount"]
             /\ UNCHANGED <<present, mutex, pipes, layout, by, where>>
    <3>1. UNCHANGED cache
      BY <1>9 DEF CountInterfaces
    <3>2. SelectionState'
      BY <1>1, <2>1, <2>2, <3>1 DEF SelectionState, cache, pipes
    <3>3. SizesConfDesc' /\ DescriptorThere'
      BY <1>1, <2>1, <2>2, <3>1
      DEF SizesConfDesc, DescriptorThere, SelectionState, cache
    <3> QED BY <1>2, <2>2, <3>1, <3>2, <3>3 DEF IInv
  <2>3. CASE EndSelect(t, "ok") /\ UNCHANGED <<device, table, pipeBugcheck>>
    <3>1. UNCHANGED cache
      BY <1>9 DEF CountInterfaces
    <3> QED BY <2>1, <2>3, <3>1, EndStep DEF EndSelect
  <2> QED BY <1>9, <2>2, <2>3 DEF CountInterfaces
<1>10. ASSUME NEW t \in Threads, CountAgain(t) PROVE IInv'
  <2>1. /\ sel' = [sel EXCEPT ![t] = "none"] /\ sel[t] = "recount"
        /\ UNCHANGED <<present, mutex, cache, pipes>>
    BY <1>10 DEF CountAgain
  <2>2. SelectionState' /\ SizesConfDesc' /\ DescriptorThere'
    BY <1>1, <2>1
    DEF cache, pipes, SelectionState, SizesConfDesc, DescriptorThere
  <2> QED BY <1>2, <2>1, <2>2 DEF IInv
<1>11. ASSUME NEW t \in Threads, ReadWrong(t) PROVE IInv'
  <2> USE DEF pipes, selection
  <2>1. /\ descBugcheck' = TRUE
        /\ UNCHANGED <<present, mutex, ptr, mem, room, descPc, slot, pass, len, buf, got,
                       starved, pipes, selection>>
    BY <1>11 DEF ReadWrong
  <2>2. D!IInv' /\ D!HasBlock'
    BY <2>1, CacheStop DEF IInv
  <2>3. P!IInv'
    BY <1>1, <2>1, TableMutexStep DEF IInv, P!TypeOK, P!MutexHeld
  <2>4. SelectionState' /\ SizesConfDesc' /\ DescriptorThere'
    BY <1>1, <2>1 DEF SelectionState, SizesConfDesc, DescriptorThere
  <2> QED BY <2>2, <2>3, <2>4 DEF IInv
<1>12. ASSUME Running, NEW h \in P!Handles, P!TransferDone(h),
              UNCHANGED <<cache, selection>>
       PROVE  IInv'
  <2> USE DEF cache, selection
  <2>1. UNCHANGED <<mutex, pipePc, present>> /\ P!Next
    BY <1>12 DEF Running, P!Next, P!TransferDone, P!table
  <2>2. P!IInv'
    BY <2>1, TableStep DEF IInv
  <2>3. D!IInv' /\ D!HasBlock'
    BY <1>1, <1>12, <2>1, CacheMutexStep DEF IInv, D!TypeOK, D!MutexHeld
  <2>4. SelectionState' /\ SizesConfDesc' /\ DescriptorThere'
    BY <1>1, <1>12, <2>1 DEF SelectionState, SizesConfDesc, DescriptorThere
  <2> QED BY <2>2, <2>3, <2>4 DEF IInv
<1>13. ASSUME Running, PnpRemoveDevice \/ AddDevice PROVE IInv'
  <2>1. D!Next /\ P!Next
    BY <1>13 DEF Running, PnpRemoveDevice, AddDevice, D!Next, P!Next
  <2>2. D!IInv' /\ D!HasBlock' /\ P!IInv'
    BY <2>1, CacheStep, TableStep DEF IInv
  <2>3. \A t \in Threads : sel[t] = "none"
    BY <1>1, <1>13 DEF PnpRemoveDevice, AddDevice, D!AddDevice, SelectionState
  <2>4. UNCHANGED <<descPc, slot, pipePc, sel>>
    BY <1>13
    DEF PnpRemoveDevice, AddDevice, D!PnpRemoveDevice, D!AddDevice,
        P!PnpRemoveDevice, P!AddDevice, selection
  <2>5. SelectionState' /\ SizesConfDesc' /\ DescriptorThere'
    BY <1>1, <2>3, <2>4 DEF SelectionState, SizesConfDesc, DescriptorThere
  <2> QED BY <2>2, <2>5 DEF IInv
<1>14. ASSUME Running, NEW t \in Threads, Step(t) PROVE IInv'
  <2>1. CASE D!Request(t) /\ (sel[t] = "none" \/ InGetConfDesc(t))
             /\ UNCHANGED <<pipes, selection>>
    BY <1>14, <2>1, RequestStep
  <2>2. CASE ReplaceTable(t) \/ (P!PipeUse(t) /\ UNCHANGED <<cache, selection>>)
    BY <1>14, <2>2, TableRequestStep
  <2> QED
    BY <1>4, <1>5, <1>6, <1>7, <1>8, <1>9, <1>10, <1>11, <1>14, <2>1, <2>2 DEF Step
<1>15. ASSUME Running, NEW t \in Threads, NEW s \in D!Slots, Idle(t), D!Lookup(t, s),
              UNCHANGED <<pipes, selection>>
       PROVE  IInv'
  BY <1>15, BeginStep
<1>16. ASSUME Running, NEW t \in Threads, NEW a \in Alts, NEW f \in Selections,
              BeginSelect(t, f, a)
       PROVE  IInv'
  <2>1. Idle(t)
    BY <1>16 DEF BeginSelect
  <2> QED BY <1>16, <2>1, BeginStep
<1>17. ASSUME Running, NEW t \in Threads, NEW o \in PipeRequests, NEW a \in Addrs,
              Idle(t), P!StartPipe(t, o, a), UNCHANGED <<cache, selection>>
       PROVE  IInv'
  BY <1>17, BeginStep
<1> QED
  BY <1>3, <1>12, <1>13, <1>14, <1>15, <1>16, <1>17 DEF Next

-----------------------------------------------------------------------------
(* The mutex                                                               *)

\* A thread between the release and the allocation.
Allocating(t) == descPc[t] = "alloc" \/ pipePc[t] = "alloc"

\* A step of one component takes the mutex on the way to its allocation, gives
\* it back, or is a step of a thread that does not have it.
LEMMA CacheMutexUse ==
  ASSUME D!TypeOK, NEW t \in Threads, D!Request(t)
  PROVE  \/ mutex' = NULL
         \/ mutex' = t /\ descPc'[t] = "alloc"
         \/ UNCHANGED mutex /\ descPc[t] # "alloc"
  BY DEF D!TypeOK, D!Goto, D!Request, D!LockAndFree, D!FreeNull, D!AllocAndUnlock, D!Check,
         D!Build, D!UrbAllocateFails, D!BusCompletes, D!BusOverwrites, D!BusFails,
         D!ReadTotalLength, D!Measure, D!Copy, D!ReadNull, D!Bugcheck

LEMMA TableMutexUse ==
  ASSUME P!TypeOK, NEW t \in Threads, P!Selection(t) \/ P!PipeUse(t)
  PROVE  \/ mutex' = NULL
         \/ mutex' = t /\ pipePc'[t] = "alloc"
         \/ UNCHANGED mutex /\ pipePc[t] # "alloc"
<1> USE DEF P!TypeOK, P!Goto, P!table
<1>1. CASE P!Publish(t) \/ P!AllocAndUnlock(t)
  BY <1>1 DEF P!Publish, P!AllocAndUnlock
<1>2. CASE P!Selection(t) /\ ~ P!Publish(t) /\ ~ P!AllocAndUnlock(t)
  BY <1>2 DEF P!Selection, P!SelectCompletes, P!SelectFails, P!TestArray, P!Fill,
              P!FillOutside, P!Bugcheck
<1>3. CASE P!PipeUse(t)
  BY <1>3 DEF P!PipeUse, P!NoPipes, P!Scan, P!NotFound, P!UseEntry, P!UrbFails,
              P!Transfer, P!PipeRequest, P!BusFails, P!Mark, P!TableFault, P!Bugcheck
<1> QED BY <1>1, <1>2, <1>3

LEMMA MutexUse ==
  ASSUME IInv, [Next]_vars
  PROVE  \/ mutex' = NULL
         \/ \E t \in Threads : mutex' = t /\ Allocating(t)'
         \/ UNCHANGED mutex /\ \A t \in Threads : Allocating(t) => Allocating(t)'
<1>0. D!TypeOK /\ D!MutexHeld /\ P!TypeOK /\ P!MutexHeld /\ SelectionState
  BY DEF IInv, D!IInv, P!IInv
<1> USE <1>0 DEF Allocating
<1>1. CASE UNCHANGED <<mutex, descPc, pipePc>>
  BY <1>1
<1>2. ASSUME NEW t \in Threads, UNCHANGED mutex, ~ Allocating(t),
             \A u \in Threads \ {t} : descPc'[u] = descPc[u] /\ pipePc'[u] = pipePc[u]
      PROVE  UNCHANGED mutex /\ \A u \in Threads : Allocating(u) => Allocating(u)'
  BY <1>2
<1>3. ASSUME NEW t \in Threads, Idle(t),
             \/ \E s \in D!Slots : D!Lookup(t, s) /\ UNCHANGED <<pipes, selection>>
             \/ \E o, a : P!StartPipe(t, o, a) /\ UNCHANGED <<cache, selection>>
             \/ \E f, a : BeginSelect(t, f, a)
      PROVE  UNCHANGED mutex /\ \A u \in Threads : Allocating(u) => Allocating(u)'
  <2>1. UNCHANGED mutex
    BY <1>3 DEF BeginSelect, D!Lookup, P!StartPipe, P!table
  <2>2. \A u \in Threads \ {t} : descPc'[u] = descPc[u] /\ pipePc'[u] = pipePc[u]
    BY <1>3
    DEF BeginSelect, D!Lookup, P!StartPipe, P!StartSelect, D!AfterSuccess, D!Goto, P!Goto,
        D!TypeOK, P!TypeOK, cache, pipes
  <2> QED BY <1>2, <1>3, <2>1, <2>2 DEF Idle
<1>4. ASSUME NEW t \in Threads, D!Request(t), sel[t] = "none" \/ InGetConfDesc(t),
             UNCHANGED <<pipes, selection>>
      PROVE  \/ mutex' = NULL
             \/ mutex' = t /\ Allocating(t)'
             \/ UNCHANGED mutex /\ \A u \in Threads : Allocating(u) => Allocating(u)'
  <2>1. /\ descPc[t] # "idle"
        /\ \A u \in Threads \ {t} : descPc'[u] = descPc[u] /\ pipePc'[u] = pipePc[u]
    BY <1>4, CacheEffect DEF pipes
  <2>2. pipePc[t] # "alloc"
    BY <2>1 DEF SelectionState
  <2> QED BY <1>2, <1>4, <2>1, <2>2, CacheMutexUse
<1>5. ASSUME NEW t \in Threads, P!Selection(t) \/ P!PipeUse(t), UNCHANGED cache,
             sel[t] # "describe"
      PROVE  \/ mutex' = NULL
             \/ mutex' = t /\ Allocating(t)'
             \/ UNCHANGED mutex /\ \A u \in Threads : Allocating(u) => Allocating(u)'
  <2>1. /\ pipePc[t] # "idle"
        /\ \A u \in Threads \ {t} : descPc'[u] = descPc[u] /\ pipePc'[u] = pipePc[u]
    BY <1>5, TableEffect DEF cache
  <2>2. descPc[t] = "idle"
    BY <1>5, <2>1 DEF SelectionState
  <2> QED BY <1>2, <1>5, <2>1, <2>2, TableMutexUse
<1>6. ASSUME NEW t \in Threads, NEW r, P!Return(t, r), UNCHANGED <<cache, table>>,
             sel[t] \in {"describe", "found", "count"}, descPc[t] # "alloc"
      PROVE  UNCHANGED mutex /\ \A u \in Threads : Allocating(u) => Allocating(u)'
  <2>1. /\ UNCHANGED mutex
        /\ \A u \in Threads \ {t} : descPc'[u] = descPc[u] /\ pipePc'[u] = pipePc[u]
    BY <1>6 DEF P!Return, P!Goto, P!TypeOK, cache, table
  <2>2. pipePc[t] # "alloc"
    BY <1>6 DEF SelectionState
  <2> QED BY <1>2, <1>6, <2>1, <2>2
<1>7. ASSUME NEW t \in Threads, Step(t)
      PROVE  \/ mutex' = NULL
             \/ mutex' = t /\ Allocating(t)'
             \/ UNCHANGED mutex /\ \A u \in Threads : Allocating(u) => Allocating(u)'
  <2>1. CASE D!Request(t) /\ (sel[t] = "none" \/ InGetConfDesc(t))
             /\ UNCHANGED <<pipes, selection>>
    BY <1>4, <2>1
  <2>2. CASE ReplaceTable(t) \/ Select(t)
    <3>1. P!Selection(t) /\ UNCHANGED cache
      BY <2>2 DEF ReplaceTable, Select, P!Selection
    <3>2. sel[t] # "describe"
      BY <2>2 DEF ReplaceTable, Select, SelectionState
    <3> QED BY <1>5, <3>1, <3>2
  <2>3. CASE P!PipeUse(t) /\ UNCHANGED <<cache, selection>>
    <3>1. pipePc[t] # "select"
      BY <2>3 DEF P!PipeUse, P!NoPipes, P!Scan, P!NotFound, P!UseEntry, P!UrbFails,
                  P!Transfer, P!PipeRequest, P!BusFails, P!Mark, P!TableFault
    <3> QED BY <1>5, <2>3, <3>1 DEF SelectionState
  <2>4. CASE DescribeFails(t) \/ NotInDescriptor(t) \/ SelectFails(t)
    <3>1. /\ P!Return(t, "failed") /\ UNCHANGED <<cache, table>>
          /\ sel[t] = "found" \/ (sel[t] = "describe" /\ descPc[t] = "idle")
      BY <2>4 DEF DescribeFails, NotInDescriptor, EndSelect, SelectFails, P!SelectFails,
                  P!table, table
    <3>2. descPc[t] # "alloc"
      BY <3>1 DEF SelectionState
    <3> QED BY <1>6, <3>1, <3>2
  <2>5. CASE FindInterface(t)
    <3>1. /\ UNCHANGED <<mutex, pipes>> /\ D!Goto(t, "idle")
          /\ descPc[t] = "measure" /\ sel[t] = "describe"
      BY <2>5 DEF FindInterface, D!Leave
    <3>2. \A u \in Threads \ {t} : descPc'[u] = descPc[u] /\ pipePc'[u] = pipePc[u]
      BY <3>1 DEF D!Goto, D!TypeOK, pipes
    <3> QED BY <1>2, <3>1, <3>2 DEF SelectionState
  <2>6. CASE CountInterfaces(t)
    <3>1. CASE UNCHANGED <<mutex, pipes, cache>>
      BY <1>1, <3>1 DEF cache, pipes
    <3>2. CASE EndSelect(t, "ok") /\ UNCHANGED <<cache, table>>
      <4>1. sel[t] = "count" /\ descPc[t] = "idle"
        BY <2>6 DEF CountInterfaces, SelectionState
      <4> QED BY <1>6, <3>2, <4>1 DEF EndSelect
    <3> QED BY <2>6, <3>1, <3>2 DEF CountInterfaces
  <2>7. CASE CountAgain(t) \/ ReadWrong(t)
    BY <1>1, <2>7 DEF CountAgain, ReadWrong, cache, pipes
  <2> QED BY <1>7, <2>1, <2>2, <2>3, <2>4, <2>5, <2>6, <2>7 DEF Step
<1>8. ASSUME NEW h, P!TransferDone(h), UNCHANGED <<cache, selection>>
      PROVE  UNCHANGED <<mutex, descPc, pipePc>>
  BY <1>8 DEF P!TransferDone, P!table, cache
<1>9. CASE PnpRemoveDevice \/ AddDevice
  BY <1>1, <1>9 DEF PnpRemoveDevice, AddDevice, D!PnpRemoveDevice, D!AddDevice,
                    P!PnpRemoveDevice, P!AddDevice
<1>10. CASE UNCHANGED vars
  BY <1>1, <1>10 DEF vars, cache, pipes
<1> QED BY <1>1, <1>3, <1>7, <1>8, <1>9, <1>10 DEF Next, BeginSelect

-----------------------------------------------------------------------------
(* One request at a time                                                   *)

\* Every step is one of the cache, or leaves it alone, or is one of two reads.
LEMMA CacheProjects ==
  ASSUME [Next]_vars
  PROVE  \/ [D!Next]_(D!vars)
         \/ UNCHANGED <<cache, present>>
         \/ \E t \in Threads : FindInterface(t) \/ ReadWrong(t)
<1> USE DEF pipes, selection
<1>1. CASE UNCHANGED vars
  BY <1>1 DEF vars
<1>2. CASE Running /\ (PnpRemoveDevice \/ AddDevice)
  BY <1>2 DEF Running, PnpRemoveDevice, AddDevice, D!Next
<1>3. ASSUME Running, NEW h, P!TransferDone(h), UNCHANGED <<cache, selection>>
      PROVE  UNCHANGED <<cache, present>>
  BY <1>3 DEF P!TransferDone
<1>4. ASSUME Running, NEW t \in Threads, NEW s \in D!Slots, D!Lookup(t, s) PROVE D!Next
  BY <1>4 DEF Running, D!Next
<1>5. ASSUME Running, NEW t \in Threads, NEW f, NEW a, BeginSelect(t, f, a) PROVE D!Next
  BY <1>4, <1>5 DEF BeginSelect, D!Slots
<1>6. ASSUME NEW t, NEW o, NEW a, P!StartPipe(t, o, a), UNCHANGED <<cache, selection>>
      PROVE  UNCHANGED <<cache, present>>
  BY <1>6 DEF P!StartPipe, P!device
<1>7. ASSUME Running, NEW t \in Threads, Step(t)
      PROVE  D!Next \/ UNCHANGED <<cache, present>> \/ FindInterface(t) \/ ReadWrong(t)
  <2> USE DEF P!device, P!table, device, table
  <2>1. CASE D!Request(t)
    BY <1>7, <2>1 DEF Running, D!Next
  <2>2. ASSUME P!Selection(t) \/ P!PipeUse(t) PROVE UNCHANGED present
    BY <2>2
    DEF P!Selection, P!SelectCompletes, P!SelectFails, P!Publish, P!AllocAndUnlock,
        P!TestArray, P!Fill, P!FillOutside, P!Bugcheck, P!PipeUse, P!NoPipes, P!Scan,
        P!NotFound, P!UseEntry, P!UrbFails, P!Transfer, P!PipeRequest, P!BusFails,
        P!Mark, P!TableFault
  <2>3. CASE ReplaceTable(t) \/ (P!PipeUse(t) /\ UNCHANGED <<cache, selection>>)
    BY <2>2, <2>3 DEF ReplaceTable
  <2>4. CASE DescribeFails(t) \/ NotInDescriptor(t) \/ CountInterfaces(t) \/ CountAgain(t)
    BY <2>4 DEF DescribeFails, NotInDescriptor, CountInterfaces, CountAgain
  <2>5. CASE Select(t) \/ SelectFails(t)
    BY <2>5 DEF Select, P!SelectCompletes, SelectFails, P!SelectFails
  <2> QED BY <1>7, <2>1, <2>3, <2>4, <2>5 DEF Step
<1> QED BY <1>1, <1>2, <1>3, <1>4, <1>5, <1>6, <1>7 DEF Next

\* Every step is one of the table, or leaves it alone, or ends a selection
\* before the table: that its loop finds no interface is the exception.
LEMMA TableProjects ==
  ASSUME IInv, [Next]_vars
  PROVE  \/ [P!Next]_(P!vars)
         \/ UNCHANGED <<pipes, present>>
         \/ \E t \in Threads, r \in {"ok", "failed"} :
                /\ P!Return(t, r) /\ UNCHANGED <<device, table, pipeBugcheck>>
                /\ pipePc[t] = "select" \/ (sel[t] = "count" /\ 0 \in Counts)
<1>0. SelectionState
  BY DEF IInv
<1>1. CASE UNCHANGED vars
  BY <1>1 DEF vars
<1>2. CASE Running /\ (PnpRemoveDevice \/ AddDevice)
  BY <1>2 DEF Running, PnpRemoveDevice, AddDevice, P!Next
<1>3. ASSUME Running, NEW h \in P!Handles, P!TransferDone(h) PROVE P!Next
  BY <1>3 DEF Running, P!Next
<1>4. ASSUME NEW t, NEW s, D!Lookup(t, s), UNCHANGED <<pipes, selection>>
      PROVE  UNCHANGED <<pipes, present>>
  BY <1>4 DEF D!Lookup
<1>5. ASSUME Running, NEW t \in Threads, NEW f, NEW a \in Alts, BeginSelect(t, f, a)
      PROVE  P!Next
  BY <1>5 DEF Running, BeginSelect, P!Next
<1>6. ASSUME Running, NEW t \in Threads, NEW o \in PipeRequests, NEW a \in Addrs,
             P!StartPipe(t, o, a)
      PROVE  P!Next
  BY <1>6 DEF Running, PipeRequests, P!Next
<1>7. ASSUME Running, NEW t \in Threads, Step(t)
      PROVE  \/ P!Next
             \/ UNCHANGED <<pipes, present>>
             \/ \E r \in {"ok", "failed"} :
                    /\ P!Return(t, r) /\ UNCHANGED <<device, table, pipeBugcheck>>
                    /\ pipePc[t] = "select" \/ (sel[t] = "count" /\ 0 \in Counts)
  <2>1. CASE D!Request(t) /\ UNCHANGED <<pipes, selection>>
    <3>1. UNCHANGED present
      BY <2>1, CacheEffect DEF IInv, D!IInv
    <3> QED BY <2>1, <3>1
  <2>2. CASE P!Selection(t) \/ P!PipeUse(t)
    BY <1>7, <2>2 DEF Running, P!Next
  <2>3. CASE ReplaceTable(t) \/ Select(t)
    BY <2>2, <2>3 DEF ReplaceTable, Select, P!Selection
  <2>4. CASE DescribeFails(t) \/ NotInDescriptor(t)
    BY <1>0, <2>4 DEF DescribeFails, NotInDescriptor, EndSelect, SelectionState
  <2>5. CASE SelectFails(t)
    BY <1>0, <2>5
    DEF SelectFails, P!SelectFails, SelectionState, P!device, P!table, device, table
  <2>6. CASE CountInterfaces(t)
    BY <2>6 DEF CountInterfaces, EndSelect
  <2>7. CASE FindInterface(t) \/ CountAgain(t) \/ ReadWrong(t)
    BY <2>7 DEF FindInterface, CountAgain, ReadWrong
  <2> QED BY <1>7, <2>1, <2>2, <2>3, <2>4, <2>5, <2>6, <2>7 DEF Step
<1> QED BY <1>1, <1>2, <1>3, <1>4, <1>5, <1>6, <1>7 DEF Next

\* The descriptor stays where it is while the one selection needs it.
LEMMA HeldStep ==
  ASSUME OneAtATime, IInv, D!Serial, DescriptorHeld, [Next]_vars
  PROVE  DescriptorHeld'
<1>1. PICK t \in Threads : Threads = {t}
  BY DEF OneAtATime, D!OneRequest
<1>2. SelectionState /\ D!IInv /\ D!TypeOK
  BY DEF IInv, D!IInv
<1> DEFINE Held == {"found", "count", "recount"}
<1>3. ASSUME sel[t] \in Held PROVE UNCHANGED <<ptr, mem>>
  <2>1. descPc[t] = "idle" /\ present
    BY <1>2, <1>3 DEF SelectionState
  <2>2. ~ D!Request(t)
    BY <1>2, <2>1, CacheEffect DEF D!IInv
  <2>3. CASE Step(t)
    BY <2>1, <2>2, <2>3
    DEF Step, ReplaceTable, cache, DescribeFails, FindInterface, NotInDescriptor, Select,
        SelectFails, CountInterfaces, CountAgain, ReadWrong
  <2>4. ~ Idle(t) /\ ~ PnpRemoveDevice /\ ~ AddDevice
    BY <1>3, <2>1 DEF Idle, PnpRemoveDevice, AddDevice, D!AddDevice
  <2> QED BY <1>1, <2>3, <2>4 DEF Next, BeginSelect, vars, cache
<1>4. ASSUME sel[t] \notin Held, sel'[t] \in Held PROVE FindInterface(t)
  <2>1. ~ UNCHANGED sel /\ sel[t] \in {"none", "describe"}
    BY <1>2, <1>4 DEF SelectionState
  <2>2. sel' # [sel EXCEPT ![t] = "none"] /\ sel' # [sel EXCEPT ![t] = "describe"]
    BY <1>2, <1>4 DEF SelectionState
  <2>3. Step(t)
    BY <1>1, <2>1, <2>2
    DEF Next, BeginSelect, PnpRemoveDevice, AddDevice, selection, vars
  <2> QED BY <2>1, <2>2, <2>3
          DEF Step, ReplaceTable, DescribeFails, EndSelect, NotInDescriptor, Select,
              SelectFails, CountInterfaces, CountAgain, ReadWrong, selection
<1>5. CASE FindInterface(t)
  <2>1. ptr["confDesc"] # NULL /\ descPc[t] = "measure" /\ UNCHANGED <<ptr, mem>>
    BY <1>5 DEF FindInterface
  <2>2. DP!OneRequest /\ DP!IInv /\ DP!Serial
    BY SameCache DEF IInv, OneAtATime, D!OneRequest, DP!OneRequest
  <2>3. mem[ptr["confDesc"]] = "whole"
    BY <2>1, <2>2, CacheAssumption, DP!SerialWhole
  <2> QED BY <1>1, <2>1, <2>3 DEF DescriptorHeld
<1> QED BY <1>1, <1>3, <1>4, <1>5 DEF DescriptorHeld

\* A selection never reads the descriptor through NULL, nor garbage in it.
LEMMA ReadsRight ==
  ASSUME IInv, D!Serial, DescriptorHeld, NEW t \in Threads
  PROVE  ~ ReadWrong(t)
<1>1. sel[t] = "describe" /\ descPc[t] = "measure" => ptr["confDesc"] # NULL
  BY DEF IInv, SizesConfDesc, D!Serial, D!FetchState
<1>2. sel[t] \in {"count", "recount"} => ptr["confDesc"] # NULL /\ 2 \notin Counts
  BY DEF DescriptorHeld, Counts
<1> QED BY <1>1, <1>2 DEF ReadWrong

\* The step lemma of the serial invariants.
LEMMA SerialInvStep ==
  ASSUME OneAtATime, IInv, SerialInv, [Next]_vars
  PROVE  SerialInv'
<1>1. D!IInv /\ P!IInv /\ D!Serial /\ P!Serial /\ DescriptorHeld /\ P!AbsentIdle
  BY DEF IInv, SerialInv, P!IInv
<1>2. D!Serial'
  <2>1. ASSUME UNCHANGED <<ptr, mem, room, descPc, slot, pass, len, buf, got, present,
                           descBugcheck>>
        PROVE  D!Serial'
    <3>1. \A t : D!Length(t)' = D!Length(t)
      BY <2>1 DEF D!Length
    <3> QED BY <1>1, <2>1, <3>1 DEF D!Serial, D!FetchState, D!Fetching
  <2>2. ASSUME NEW t \in Threads, FindInterface(t) PROVE D!Serial'
    BY <1>1, <2>2, CacheSerialLeave DEF FindInterface
  <2>3. ASSUME NEW t \in Threads PROVE ~ ReadWrong(t)
    BY <1>1, ReadsRight
  <2> QED BY <1>1, <2>1, <2>2, <2>3, CacheProjects, CacheSerialStep DEF cache
<1>3. P!Serial'
  <2>1. ASSUME UNCHANGED <<pipes, present>> PROVE P!Serial'
    <3>1. \A i : P!Entry(i)' = P!Entry(i)
      BY <2>1 DEF pipes, P!Entry
    <3>2. P!Describes' <=> P!Describes
      BY <2>1, <3>1 DEF pipes, P!Describes
    <3> QED BY <1>1, <2>1, <3>1, <3>2
            DEF pipes, P!Serial, P!SelectState, P!UseState, P!Settled
  <2>2. ASSUME NEW t \in Threads, NEW r \in {"ok", "failed"}, P!Return(t, r),
               UNCHANGED <<device, table, pipeBugcheck>>, pipePc[t] = "select"
        PROVE  P!Serial'
    BY <1>1, <2>2, TableSerialReturn
  <2>3. ASSUME NEW t \in Threads, sel[t] = "count" PROVE 0 \notin Counts
    BY <1>1, <2>3 DEF DescriptorHeld, Counts
  <2> QED BY <1>1, <2>1, <2>2, <2>3, TableProjects, TableSerialStep
<1>4. DescriptorHeld'
  BY <1>1, HeldStep
<1> QED BY <1>2, <1>3, <1>4 DEF SerialInv

\* What a step of Device may do to an entry of the table.
LEMMA MarksStep ==
  ASSUME OneAtATime, IInv, SerialInv, [Next]_vars
  PROVE  P!MarksOwn
<1>1. PP!IInv /\ PP!Serial /\ PP!OneRequest
  BY SameTable DEF IInv, SerialInv, OneAtATime, D!OneRequest, PP!OneRequest
<1>2. CASE [P!Next]_(P!vars)
  <2>1. PP!MarksOwn
    BY <1>1, <1>2, TableAssumption, SameTableSteps, PP!MarksStep
  <2> QED BY <2>1 DEF P!MarksOwn, PP!MarksOwn, P!Entry, PP!Entry
<1>3. CASE UNCHANGED <<pipeInfos, alloc, tab>>
  BY <1>3 DEF P!MarksOwn, P!Entry
<1> QED BY <1>2, <1>3, TableProjects DEF pipes, table

-----------------------------------------------------------------------------
(* The search of the descriptor.  Offset and Search are recursive functions;*)
(* what they compute for every layout follows from a least counterexample:  *)
(* a set of numbers, not a predicate, so that no operator parameter is      *)
(* needed.                                                                  *)

\* A set of numbers has a least one.
LEMMA LeastElement ==
  ASSUME NEW T \in SUBSET Nat, T # {}
  PROVE  \E x \in T : \A y \in T : x <= y
<1> DEFINE Less == {ss \in Nat \X Nat : ss[1] < ss[2]}
<1>1. IsWellFoundedOn(Less, Nat)
  BY Zenon, NatLessThanWellFounded DEF OpToRel
<1>2. ASSUME NEW x \in Nat, NEW y \in Nat, <<y, x>> \notin Less PROVE x <= y
  BY <1>2
<1> HIDE DEF Less
<1>3. PICK x \in T : \A y \in T : <<y, x>> \notin Less
  BY <1>1, WFMin
<1>4. ASSUME NEW y \in T PROVE x <= y
  BY <1>2, <1>3
<1> QED BY <1>4

\* The sums of a sequence of sizes: the recursive definition defines a function.
LEMMA PartialSums ==
  ASSUME NEW N \in Nat, NEW c \in Nat, NEW w \in [1 .. N -> Nat]
  PROVE  \E f \in [0 .. N -> Nat] :
            f = [k \in 0 .. N |-> IF k = 0 THEN c ELSE f[k - 1] + w[k]]
<1> DEFINE Sums(m) == {f \in [0 .. m -> Nat] :
                         \A k \in 0 .. m : f[k] = IF k = 0 THEN c ELSE f[k - 1] + w[k]}
           T == {m \in 0 .. N : Sums(m) = {}}
<1>1. T = {}
  <2> SUFFICES ASSUME T # {} PROVE FALSE
    OBVIOUS
  <2>1. PICK m \in T : \A y \in T : m <= y
    <3>1. T \in SUBSET Nat
      OBVIOUS
    <3> HIDE DEF T
    <3> QED BY <3>1, LeastElement
  <2>2. m # 0
    <3>1. [k \in 0 .. 0 |-> c] \in Sums(0)
      OBVIOUS
    <3> QED BY <3>1
  <2>3. m \in 1 .. N /\ m - 1 \in 0 .. N /\ m - 1 \notin T
    <3>1. m \in 0 .. N
      OBVIOUS
    <3> HIDE DEF T
    <3> QED BY <2>1, <2>2, <3>1
  <2>4. PICK f \in [0 .. m - 1 -> Nat] :
          \A k \in 0 .. m - 1 : f[k] = IF k = 0 THEN c ELSE f[k - 1] + w[k]
    BY <2>3
  <2> DEFINE g == [k \in 0 .. m |-> IF k = m THEN f[m - 1] + w[m] ELSE f[k]]
  <2>5. g \in [0 .. m -> Nat]
    BY <2>3, <2>4
  <2>6. ASSUME NEW k \in 0 .. m
        PROVE  g[k] = IF k = 0 THEN c ELSE g[k - 1] + w[k]
    <3>1. CASE k = m
      BY <3>1, <2>3
    <3>2. CASE k # m
      <4>1. k \in 0 .. m - 1 /\ (k # 0 => k - 1 \in 0 .. m /\ k - 1 # m)
        BY <2>3, <3>2
      <4> QED BY <4>1, <2>4
    <3> QED BY <3>1, <3>2
  <2>7. Sums(m) # {}
    <3> HIDE DEF g
    <3> QED BY <2>5, <2>6
  <2> QED BY <2>1, <2>7
<1>2. PICK f \in [0 .. N -> Nat] :
        \A k \in 0 .. N : f[k] = IF k = 0 THEN c ELSE f[k - 1] + w[k]
  <2>1. N \in 0 .. N /\ N \notin T
    <3>1. N \in 0 .. N
      OBVIOUS
    <3> HIDE DEF T
    <3> QED BY <1>1, <3>1
  <2>2. Sums(N) # {}
    BY <2>1
  <2> QED BY <2>2
<1>3. f = [k \in 0 .. N |-> IF k = 0 THEN c ELSE f[k - 1] + w[k]]
  BY <1>2
<1> QED BY <1>2, <1>3

\* Such sums are natural numbers.
LEMMA SumsAreNatural ==
  ASSUME NEW N \in Nat, NEW w \in [1 .. N -> Nat], NEW f, f[0] \in Nat,
         \A n \in 1 .. N : f[n] = f[n - 1] + w[n]
  PROVE  \A n \in 0 .. N : f[n] \in Nat
<1> DEFINE T == {n \in 0 .. N : f[n] \notin Nat}
<1> SUFFICES ASSUME T # {} PROVE FALSE
  OBVIOUS
<1>1. PICK n \in T : \A y \in T : n <= y
  <2>1. T \in SUBSET Nat
    OBVIOUS
  <2> HIDE DEF T
  <2> QED BY <2>1, LeastElement
<1>2. n \in 1 .. N /\ n - 1 \in 0 .. N
  OBVIOUS
<1>3. n - 1 \notin T
  <2> HIDE DEF T
  <2> QED BY <1>1, <1>2
<1> QED BY <1>2, <1>3

\* A function that increases at each step increases.
LEMMA Increasing ==
  ASSUME NEW N \in Nat, NEW f \in [1 .. N + 1 -> Nat],
         \A n \in 1 .. N : f[n] < f[n + 1],
         NEW n \in 1 .. N + 1, NEW m \in 1 .. N + 1, n < m
  PROVE  f[n] < f[m]
<1> DEFINE T == {k \in 1 .. N + 1 : n < k /\ f[n] >= f[k]}
<1> SUFFICES ASSUME f[n] >= f[m] PROVE FALSE
  OBVIOUS
<1>0. m \in T
  OBVIOUS
<1>1. PICK k \in T : \A y \in T : k <= y
  <2>1. T \in SUBSET Nat
    OBVIOUS
  <2> HIDE DEF T
  <2> QED BY <1>0, <2>1, LeastElement
<1>2. k \in 1 .. N + 1 /\ n < k /\ f[n] >= f[k]
  OBVIOUS
<1>3. k - 1 \in 1 .. N /\ k - 1 \notin T /\ k - 1 >= n
  <2> HIDE DEF T
  <2> QED BY <1>1, <1>2
<1>4. f[k - 1] < f[k]
  BY <1>3
<1>5. f[n] <= f[k - 1]
  BY <1>2, <1>3
<1> QED BY <1>2, <1>3, <1>4, <1>5

\* A search that only goes forward, until it stops, comes to an end.
LEMMA ForwardSearch ==
  ASSUME NEW N \in Nat, NEW stop \in [0 .. N -> BOOLEAN], NEW next \in [0 .. N -> Nat],
         \A p \in 0 .. N : ~ stop[p] => p < next[p] /\ next[p] <= N
  PROVE  \E f : f = [p \in 0 .. N |-> IF stop[p] THEN p ELSE f[next[p]]]
<1> DEFINE From(m, f) == \A p \in N - m .. N : f[p] = IF stop[p] THEN p ELSE f[next[p]]
           T == {m \in 0 .. N : \A f \in [N - m .. N -> Nat] : ~ From(m, f)}
<1>1. T = {}
  <2> SUFFICES ASSUME T # {} PROVE FALSE
    OBVIOUS
  <2>1. PICK m \in T : \A y \in T : m <= y
    <3>1. T \in SUBSET Nat
      OBVIOUS
    <3> HIDE DEF T
    <3> QED BY <3>1, LeastElement
  <2>2. m \in 0 .. N /\ \A f \in [N - m .. N -> Nat] : ~ From(m, f)
    OBVIOUS
  <2>3. m # 0
    <3> SUFFICES ASSUME m = 0 PROVE FALSE
      OBVIOUS
    <3> DEFINE g == [p \in N - m .. N |-> N]
    <3>1. N - m .. N = {N} /\ stop[N]
      OBVIOUS
    <3>2. g \in [N - m .. N -> Nat] /\ From(m, g)
      BY <3>1
    <3> QED BY <2>2, <3>2
  <2>4. m - 1 \in 0 .. N /\ m - 1 \notin T
    <3> HIDE DEF T
    <3> QED BY <2>1, <2>2, <2>3
  <2>5. PICK f \in [N - (m - 1) .. N -> Nat] : From(m - 1, f)
    BY <2>4
  <2> DEFINE q == N - m
             g == [p \in q .. N |-> IF p # q THEN f[p]
                                    ELSE IF stop[q] THEN q ELSE f[next[q]]]
  <2>6. q \in 0 .. N /\ N - (m - 1) = q + 1
    BY <2>2
  <2>7. g \in [q .. N -> Nat]
    BY <2>5, <2>6
  <2>8. ASSUME NEW p \in q .. N PROVE g[p] = IF stop[p] THEN p ELSE g[next[p]]
    <3>1. p \in 0 .. N /\ (~ stop[p] => next[p] \in q + 1 .. N)
      BY <2>6
    <3>2. ~ stop[p] => g[next[p]] = f[next[p]]
      BY <3>1, <2>6
    <3>3. CASE p = q
      BY <3>2, <3>3
    <3>4. CASE p # q
      <4>1. f[p] = IF stop[p] THEN p ELSE f[next[p]]
        BY <2>5, <2>6, <3>4
      <4> QED BY <3>2, <3>4, <4>1
    <3> QED BY <3>3, <3>4
  <2>9. From(m, g)
    <3> HIDE DEF g
    <3> QED BY <2>8
  <2> QED
    <3> HIDE DEF g, From
    <3> QED BY <2>2, <2>7, <2>9
<1>2. N \in 0 .. N /\ N \notin T
  <2>1. N \in 0 .. N
    OBVIOUS
  <2> HIDE DEF T
  <2> QED BY <1>1, <2>1
<1>3. PICK f \in [N - N .. N -> Nat] : From(N, f)
  BY <1>2
<1>4. f = [p \in 0 .. N |-> IF stop[p] THEN p ELSE f[next[p]]]
  <2>1. N - N = 0
    OBVIOUS
  <2> QED BY <1>3, <2>1
<1> QED BY <1>4

\* The descriptors lie one behind the other.
LEMMA OffsetStep ==
  ASSUME NEW l \in Seq(Alts)
  PROVE  /\ W!Offset(l, 1) = 9
         /\ \A n \in 1 .. Len(l) + 1 : W!Offset(l, n) \in Nat
         /\ \A n \in 1 .. Len(l) :
                /\ W!InterfaceSize(l[n]) \in Nat /\ W!InterfaceSize(l[n]) >= 9
                /\ W!Offset(l, n + 1) = W!Offset(l, n) + W!InterfaceSize(l[n])
<1> DEFINE N == Len(l)
           w == [n \in 1 .. N |-> W!InterfaceSize(l[n])]
           end[k \in 0 .. N] ==
                IF k = 0 THEN W!HeaderSize ELSE end[k - 1] + W!InterfaceSize(l[k])
<1>1. ASSUME NEW n \in 1 .. N
      PROVE  W!InterfaceSize(l[n]) \in Nat /\ W!InterfaceSize(l[n]) >= 9
  <2>1. l[n] \in Alts /\ Len(PipesOf[l[n]]) \in Nat
    BY DeviceAssumption DEF DeviceAssumption
  <2> QED BY <2>1 DEF W!InterfaceSize
<1>2. w \in [1 .. N -> Nat]
  BY <1>1
<1>3. PICK f \in [0 .. N -> Nat] :
            f = [k \in 0 .. N |-> IF k = 0 THEN 9 ELSE f[k - 1] + w[k]]
  <2>1. N \in Nat /\ 9 \in Nat
    OBVIOUS
  <2> HIDE DEF w, N
  <2> QED BY <1>2, <2>1, PartialSums, Zenon
<1>4. f = [k \in 0 .. N |-> IF k = 0 THEN W!HeaderSize
                            ELSE f[k - 1] + W!InterfaceSize(l[k])]
  <2>1. \A k \in 0 .. N : k # 0 => w[k] = W!InterfaceSize(l[k])
    OBVIOUS
  <2> HIDE DEF w
  <2> QED BY <1>3, <2>1 DEF W!HeaderSize
<1>5. end = [k \in 0 .. N |-> IF k = 0 THEN W!HeaderSize
                              ELSE end[k - 1] + W!InterfaceSize(l[k])]
  BY <1>4
<1>6. \A n : W!Offset(l, n) = end[n - 1]
  BY DEF W!Offset
<1> HIDE DEF end
<1>7. end[0] = 9 /\ \A n \in 1 .. N : end[n] = end[n - 1] + w[n]
  BY <1>5 DEF W!HeaderSize
<1>8. \A n \in 0 .. N : end[n] \in Nat
  <2>1. N \in Nat /\ end[0] \in Nat
    BY <1>7
  <2> HIDE DEF N, w
  <2> QED BY <1>2, <1>7, <2>1, SumsAreNatural, Zenon
<1>9. \A n \in 1 .. N : W!Offset(l, n + 1) = W!Offset(l, n) + W!InterfaceSize(l[n])
  <2> SUFFICES ASSUME NEW n \in 1 .. N
               PROVE  end[n] = end[n - 1] + W!InterfaceSize(l[n])
    BY <1>6
  <2> QED BY <1>7
<1>10. W!Offset(l, 1) = 9 /\ \A n \in 1 .. N + 1 : W!Offset(l, n) \in Nat
  BY <1>6, <1>7, <1>8
<1> QED BY <1>1, <1>9, <1>10

\* An interface descriptor is found where it lies, and nowhere else.
LEMMA DescriptorPlaces ==
  ASSUME NEW l \in Seq(Alts)
  PROVE  /\ \A n \in 1 .. Len(l) : /\ W!DescriptorAt(l, W!Offset(l, n)) = l[n]
                                   /\ W!Offset(l, n) < W!wTotalLength(l)
         /\ \A p : W!DescriptorAt(l, p) # NULL =>
                \E n \in 1 .. Len(l) : p = W!Offset(l, n)
<1> DEFINE N == Len(l)
           off == [n \in 1 .. N + 1 |-> W!Offset(l, n)]
<1>1. N \in Nat /\ off \in [1 .. N + 1 -> Nat] /\ \A n \in 1 .. N : off[n] < off[n + 1]
  BY OffsetStep
<1>2. \A n, m \in 1 .. N + 1 : n < m => off[n] < off[m]
  <2> HIDE DEF off, N
  <2> QED BY <1>1, Increasing
<1>3. \A n, m \in 1 .. N : W!Offset(l, n) = W!Offset(l, m) => n = m
  BY <1>1, <1>2
<1>4. \A n \in 1 .. N : W!DescriptorAt(l, W!Offset(l, n)) = l[n]
  BY <1>3 DEF W!DescriptorAt
<1>5. \A n \in 1 .. N : W!Offset(l, n) < W!wTotalLength(l)
  BY <1>2 DEF W!wTotalLength
<1>6. \A p : W!DescriptorAt(l, p) # NULL => \E n \in 1 .. N : p = W!Offset(l, n)
  BY DEF W!DescriptorAt
<1> QED BY <1>4, <1>5, <1>6

\* The search ends at an interface descriptor of the setting, if the layout
\* has one, and exactly at the end of the configuration descriptor if not.
LEMMA SearchIsRight ==
  ASSUME NEW l \in Seq(Alts), NEW a \in Alts, l # <<>>
  PROVE  IF \E n \in DOMAIN l : l[n] = a
         THEN W!DescriptorAt(l, W!Search(l, a)) = a
         ELSE W!Search(l, a) = W!wTotalLength(l)
<1> DEFINE N == Len(l)
           total == W!wTotalLength(l)
           At(p) == W!DescriptorAt(l, p)
           off(n) == W!Offset(l, n)
           stop == [p \in 0 .. total |-> p >= total \/ At(p) \in {a, NULL}]
           next == [p \in 0 .. total |-> IF stop[p] THEN p ELSE p + W!InterfaceSize(At(p))]
           from[p \in 0 .. total] ==
                LET temp == At(p) IN
                IF p >= total \/ temp \in {a, NULL} THEN p
                ELSE from[p + W!InterfaceSize(temp)]
<1>1. N \in Nat /\ N > 0 /\ DOMAIN l = 1 .. N /\ total \in Nat /\ off(N + 1) = total
  BY OffsetStep DEF W!wTotalLength
<1>2. \A n \in 1 .. N : /\ off(n) \in 0 .. total /\ off(n) < total /\ off(n + 1) <= total
                        /\ At(off(n)) = l[n] /\ l[n] # NULL
                        /\ off(n + 1) = off(n) + W!InterfaceSize(At(off(n)))
                        /\ off(n) < off(n + 1)
  <2> SUFFICES ASSUME NEW n \in 1 .. N
               PROVE  /\ off(n) \in 0 .. total /\ off(n) < total /\ off(n + 1) <= total
                      /\ At(off(n)) = l[n] /\ l[n] # NULL
                      /\ off(n + 1) = off(n) + W!InterfaceSize(At(off(n)))
                      /\ off(n) < off(n + 1)
    OBVIOUS
  <2>1. At(off(n)) = l[n] /\ off(n) < total
    BY DescriptorPlaces
  <2>2. off(n) \in Nat /\ off(n + 1) \in Nat /\ W!InterfaceSize(l[n]) \in Nat
        /\ W!InterfaceSize(l[n]) >= 9 /\ off(n + 1) = off(n) + W!InterfaceSize(l[n])
    BY OffsetStep
  <2>3. off(n + 1) <= total
    <3>1. CASE n = N
      BY <3>1, <1>1
    <3>2. CASE n # N
      <4>1. n + 1 \in 1 .. N
        <5> HIDE DEF N
        <5> QED BY <1>1, <3>2
      <4>2. off(n + 1) < total
        BY <4>1, DescriptorPlaces
      <4> QED BY <2>2, <4>2, <1>1
    <3> QED BY <3>1, <3>2
  <2>4. l[n] # NULL
    BY DeviceAssumption DEF DeviceAssumption
  <2> HIDE DEF off, At, total, N
  <2> QED BY <1>1, <2>1, <2>2, <2>3, <2>4
<1>3. stop \in [0 .. total -> BOOLEAN] /\ next \in [0 .. total -> Nat]
      /\ \A p \in 0 .. total : ~ stop[p] => p < next[p] /\ next[p] <= total
  <2> SUFFICES ASSUME NEW p \in 0 .. total, ~ stop[p]
               PROVE  LET q == p + W!InterfaceSize(At(p)) IN q \in Nat /\ p < q /\ q <= total
    <3> HIDE DEF At, total
    <3> QED BY <1>1
  <2>1. PICK n \in 1 .. N : p = off(n)
    BY DescriptorPlaces
  <2> HIDE DEF off, At, total, N
  <2> QED BY <1>1, <1>2, <2>1
<1>4. \E f : f = [p \in 0 .. total |-> IF stop[p] THEN p ELSE f[next[p]]]
  <2> HIDE DEF stop, next, total
  <2> QED BY <1>1, <1>3, ForwardSearch
<1>5. PICK f : f = [p \in 0 .. total |-> LET temp == At(p) IN
                                         IF p >= total \/ temp \in {a, NULL} THEN p
                                         ELSE f[p + W!InterfaceSize(temp)]]
  <2> HIDE DEF At, total
  <2> QED BY <1>4
<1>6. from = [p \in 0 .. total |-> LET temp == At(p) IN
                                   IF p >= total \/ temp \in {a, NULL} THEN p
                                   ELSE from[p + W!InterfaceSize(temp)]]
  BY <1>5
<1>7. W!Search(l, a) = from[off(1)]
  BY OffsetStep DEF W!Search, W!HeaderSize
<1> HIDE DEF from
<1> DEFINE Right(n) == IF \E m \in n .. N : l[m] = a THEN At(from[off(n)]) = a
                       ELSE from[off(n)] = total
           T == {d \in 0 .. N : ~ Right(N + 1 - d)}
<1> HIDE DEF N, total, At, off, stop, next
<1>8. T = {}
  <2> SUFFICES ASSUME T # {} PROVE FALSE
    OBVIOUS
  <2>1. PICK d \in T : \A y \in T : d <= y
    <3>1. T \in SUBSET Nat
      OBVIOUS
    <3> HIDE DEF T
    <3> QED BY <3>1, LeastElement
  <2> DEFINE n == N + 1 - d
  <2>2. d \in 0 .. N /\ ~ Right(n)
    OBVIOUS
  <2>3. CASE d = 0
    <3>1. n = N + 1 /\ n .. N = {}
      BY <1>1, <2>3
    <3>2. from[total] = total
      BY <1>1, <1>6
    <3> QED BY <1>1, <2>2, <3>1, <3>2
  <2>4. CASE d # 0
    <3>1. n \in 1 .. N
      BY <1>1, <2>2, <2>4
    <3>2. Right(n + 1)
      <4>1. d - 1 \in 0 .. N /\ N + 1 - (d - 1) = n + 1 /\ d - 1 < d
        BY <1>1, <2>2, <2>4
      <4>2. d - 1 \notin T
        <5> HIDE DEF T
        <5> QED BY <2>1, <2>2, <4>1
      <4> HIDE DEF Right
      <4> QED BY <4>1, <4>2
    <3>3. l[n] # a => from[off(n)] = from[off(n + 1)]
      <4>1. At(off(n)) = l[n] /\ l[n] # NULL /\ off(n) \in 0 .. total /\ off(n) < total
            /\ off(n + 1) = off(n) + W!InterfaceSize(At(off(n)))
        BY <1>2, <3>1
      <4>2. from[off(n)] = IF off(n) >= total \/ At(off(n)) \in {a, NULL} THEN off(n)
                           ELSE from[off(n) + W!InterfaceSize(At(off(n)))]
        BY <1>6, <4>1
      <4> QED BY <1>1, <4>1, <4>2
    <3>4. l[n] = a => from[off(n)] = off(n)
      BY <1>2, <1>6, <3>1
    <3>5. l[n] = a => Right(n)
      BY <1>1, <1>2, <3>1, <3>4
    <3>6. l[n] # a => ((\E m \in n .. N : l[m] = a) <=> \E m \in n + 1 .. N : l[m] = a)
      BY <1>1, <3>1
    <3>7. l[n] # a => (Right(n) <=> Right(n + 1))
      BY <3>3, <3>6
    <3> HIDE DEF Right
    <3> QED BY <2>2, <3>2, <3>5, <3>7
  <2> QED BY <2>3, <2>4
<1>9. Right(1)
  <2>1. N \in 0 .. N /\ N + 1 - N = 1 /\ N \notin T
    <3> HIDE DEF T
    <3> QED BY <1>1, <1>8
  <2> HIDE DEF Right
  <2> QED BY <2>1
<1> QED BY <1>1, <1>7, <1>9 DEF N, total, At

\* The search of a selection ends where it should, and neither the setting
\* asked for nor the place found changes before the device has switched.
LEMMA SearchStep ==
  ASSUME OneAtATime, IInv, SerialInv, SearchInv, [Next]_vars
  PROVE  SearchInv'
<1>1. PICK t \in Threads : Threads = {t}
  BY DEF OneAtATime, D!OneRequest
<1>2. /\ SelectionState /\ P!TypeOK /\ P!ArgOK
      /\ layout \in Layouts /\ by \in [Threads -> Selections]
      /\ where \in [Threads -> Bytes]
      /\ sel[t] = "describe" /\ by[t] = "configuration" => arg[t] = Alt0
      /\ SearchFinds
  BY <1>1 DEF IInv, P!IInv, SearchInv
<1>3. layout \in Seq(Alts) /\ layout # <<>> /\ layout[1] = Alt0
  BY <1>2, DeviceAssumption DEF DeviceAssumption
<1>4. DOMAIN layout = 1 .. Len(layout) /\ 1 \in DOMAIN layout
  BY <1>3
<1>5. UNCHANGED layout
  BY DEF Next, Step, BeginSelect, ReplaceTable, DescribeFails, EndSelect, FindInterface,
         NotInDescriptor, Select, SelectFails, CountInterfaces, CountAgain, ReadWrong,
         PnpRemoveDevice, AddDevice, selection, vars
<1>6. Bytes' = Bytes /\ 0 \in Bytes
  BY <1>5 DEF Bytes
<1> DEFINE Found(l, a, p) == IF \E n \in DOMAIN l : l[n] = a
                             THEN W!DescriptorAt(l, p) = a
                             ELSE p = W!wTotalLength(l)
<1>7. SearchFinds' <=> (sel'[t] = "found" => Found(layout', arg'[t], where'[t]))
  BY <1>1 DEF SearchFinds
<1>8. sel[t] = "found" => Found(layout, arg[t], where[t])
  BY <1>2 DEF SearchFinds
<1>9. ASSUME NEW p, NEW a \in Alts, Found(layout, a, p) PROVE p \in Bytes
  <2>1. CASE \E n \in DOMAIN layout : layout[n] = a
    <3>1. W!DescriptorAt(layout, p) # NULL
      BY <1>9, <2>1, DeviceAssumption DEF DeviceAssumption
    <3> QED BY <1>3, <1>4, <3>1, DescriptorPlaces DEF Bytes
  <2>2. CASE ~ \E n \in DOMAIN layout : layout[n] = a
    BY <1>9, <2>2 DEF Bytes
  <2> QED BY <2>1, <2>2
<1>10. CASE FindInterface(t)
  <2>1. /\ sel[t] = "describe" /\ descPc[t] = "measure" /\ ptr["confDesc"] # NULL
        /\ sel' = [sel EXCEPT ![t] = "found"] /\ UNCHANGED <<pipes, by>>
    BY <1>10 DEF FindInterface
  <2>2. DP!OneRequest /\ DP!IInv /\ DP!Serial
    BY SameCache DEF IInv, SerialInv, OneAtATime, D!OneRequest, DP!OneRequest
  <2>3. mem[ptr["confDesc"]] = "whole"
    BY <2>1, <2>2, CacheAssumption, DP!SerialWhole
  <2>4. arg[t] \in Alts /\ arg' = arg
    BY <1>2, <2>1 DEF SelectionState, P!ArgOK, pipes
  <2>5. PICK p : /\ where' = [where EXCEPT ![t] = p]
                 /\ p = IF by[t] = "configuration" THEN W!HeaderSize
                        ELSE W!Search(layout, arg[t])
    BY <1>10, <2>3 DEF FindInterface
  <2>6. Found(layout, arg[t], p)
    <3>1. CASE by[t] = "configuration"
      <4>1. W!DescriptorAt(layout, W!Offset(layout, 1)) = layout[1]
        BY <1>3, <1>4, DescriptorPlaces
      <4>2. W!Offset(layout, 1) = W!HeaderSize
        BY <1>3, OffsetStep DEF W!HeaderSize
      <4> QED BY <1>2, <1>3, <1>4, <2>1, <2>5, <3>1, <4>1, <4>2
    <3>2. CASE by[t] # "configuration"
      BY <1>3, <2>4, <2>5, <3>2, SearchIsRight
    <3> QED BY <3>1, <3>2
  <2>7. p \in Bytes
    <3> HIDE DEF Found
    <3> QED BY <1>9, <2>4, <2>6
  <2>8. where'[t] = p /\ where' \in [Threads -> Bytes] /\ sel'[t] = "found"
    BY <1>2, <2>1, <2>5, <2>7 DEF SelectionState
  <2>9. SearchFinds'
    <3> HIDE DEF Found
    <3> QED BY <1>5, <1>7, <2>4, <2>6, <2>8
  <2> QED BY <1>1, <1>2, <1>5, <1>6, <2>1, <2>8, <2>9 DEF SearchInv
<1>11. CASE \E f \in Selections, a \in Alts : BeginSelect(t, f, a)
  <2>1. PICK f \in Selections, a \in Alts : BeginSelect(t, f, a)
    BY <1>11
  <2>2. /\ sel' = [sel EXCEPT ![t] = "describe"] /\ by' = [by EXCEPT ![t] = f]
        /\ arg' = [arg EXCEPT ![t] = a] /\ UNCHANGED where
        /\ f = "configuration" => a = Alt0
    BY <2>1 DEF BeginSelect, P!StartSelect
  <2>3. /\ sel'[t] = "describe" /\ by' \in [Threads -> Selections] /\ by'[t] = f
        /\ arg'[t] = a
    BY <1>2, <2>2 DEF SelectionState, P!TypeOK
  <2>4. SearchFinds'
    BY <1>7, <2>3
  <2> QED BY <1>1, <1>2, <1>5, <1>6, <2>2, <2>3, <2>4 DEF SearchInv
<1>12. CASE /\ ~ FindInterface(t)
            /\ ~ \E f \in Selections, a \in Alts : BeginSelect(t, f, a)
  <2>1. UNCHANGED by
    BY <1>1, <1>12
    DEF Next, Step, ReplaceTable, DescribeFails, EndSelect, NotInDescriptor, Select,
        SelectFails, CountInterfaces, CountAgain, ReadWrong, PnpRemoveDevice, AddDevice,
        selection, vars
  <2>2. UNCHANGED where \/ where' = [where EXCEPT ![t] = 0]
    BY <1>1, <1>12
    DEF Next, Step, ReplaceTable, DescribeFails, EndSelect, NotInDescriptor, Select,
        SelectFails, CountInterfaces, CountAgain, ReadWrong, PnpRemoveDevice, AddDevice,
        selection, vars
  <2>3. sel'[t] \in {"describe", "found"} => sel'[t] = sel[t] /\ UNCHANGED <<arg, where>>
    <3>1. SUFFICES ASSUME sel'[t] \in {"describe", "found"}
                   PROVE  sel'[t] = sel[t] /\ UNCHANGED <<arg, where>>
      OBVIOUS
    <3>2. CASE UNCHANGED sel
      <4>1. pipePc[t] = "select" /\ sel[t] \in {"describe", "found"} /\ present
        BY <1>2, <3>1, <3>2 DEF SelectionState
      <4>2. CASE Step(t)
        <5>1. ~ ReplaceTable(t) /\ ~ P!PipeUse(t)
          BY <4>1
          DEF ReplaceTable, P!PipeUse, P!NoPipes, P!Scan, P!NotFound, P!UseEntry,
              P!UrbFails, P!Transfer, P!PipeRequest, P!BusFails, P!Mark, P!TableFault
        <5>2. sel' # [sel EXCEPT ![t] = "none"]
          BY <1>2, <3>1 DEF SelectionState
        <5> QED
          BY <1>12, <3>2, <4>1, <4>2, <5>1, <5>2
          DEF Step, DescribeFails, EndSelect, NotInDescriptor, Select, SelectFails,
              CountInterfaces, CountAgain, ReadWrong, selection, pipes
      <4>3. ~ Idle(t) /\ ~ PnpRemoveDevice /\ ~ AddDevice
        BY <4>1 DEF Idle, PnpRemoveDevice, AddDevice, D!AddDevice
      <4> QED BY <1>1, <1>12, <3>2, <4>2, <4>3
              DEF Next, P!TransferDone, P!request, selection, pipes, vars
    <3>3. CASE ~ UNCHANGED sel
      <4>1. sel' # [sel EXCEPT ![t] = "none"]
        BY <1>2, <3>1 DEF SelectionState
      <4>2. sel' # [sel EXCEPT ![t] = "count"] /\ sel' # [sel EXCEPT ![t] = "recount"]
        BY <1>2, <3>1 DEF SelectionState
      <4> QED
        BY <1>1, <1>12, <3>3, <4>1, <4>2
        DEF Next, Step, ReplaceTable, DescribeFails, EndSelect, NotInDescriptor, Select,
            SelectFails, CountInterfaces, CountAgain, ReadWrong, PnpRemoveDevice,
            AddDevice, selection, vars
    <3> QED BY <3>2, <3>3
  <2>4. SearchFinds'
    <3> HIDE DEF Found
    <3> QED BY <1>5, <1>7, <1>8, <2>3
  <2>5. where' \in [Threads -> Bytes]
    BY <1>2, <1>6, <2>2
  <2> QED BY <1>1, <1>2, <1>5, <1>6, <2>1, <2>3, <2>4, <2>5 DEF SearchInv
<1> QED BY <1>10, <1>11, <1>12

-----------------------------------------------------------------------------
(* The theorems                                                            *)

\* The inductive invariant holds in every reachable state.
THEOREM Inductive == Spec => []IInv
  BY InitInv, StepInv, PTL DEF Spec

\* What holds of the blocks of each component alone holds in the composition,
\* where a selection fetches a descriptor and replaces the table with the one
\* mutex: no descriptor block and no array is lost or freed twice.
THEOREM BlocksAccounted ==
  Spec => [](D!CachedBlocksLive /\ D!NoLeak /\ P!CountMatchesArray /\ P!NoLeak)
<1>1. IInv => D!NoLeak /\ P!NoLeak
  BY DEF IInv, D!IInv, P!IInv
<1>2. IInv => D!CachedBlocksLive /\ P!CountMatchesArray
  <2> SUFFICES ASSUME IInv, mutex = NULL PROVE D!CachedBlocksLive /\ P!CountMatchesArray
    BY DEF D!CachedBlocksLive, P!CountMatchesArray
  <2>1. \A t \in Threads : descPc[t] # "alloc" /\ pipePc[t] # "alloc"
    BY DeviceAssumption
    DEF DeviceAssumption, IInv, D!IInv, P!IInv, D!MutexHeld, P!MutexHeld
  <2> QED BY <2>1 DEF IInv, D!IInv, P!IInv, D!Dangling, D!CachedBlocksLive,
                      P!ArrayThere, P!Replacing, P!CountMatchesArray
<1> QED BY <1>1, <1>2, Inductive, PTL

\* However many descriptor requests and selections overlap, none of the places
\* that read the configuration descriptor finds NULL while memory lasts.
THEOREM NeverNull == Spec => []DescriptorNeverNull
<1>1. IInv => DescriptorNeverNull
  <2> SUFFICES ASSUME IInv, ~ starved, NEW t \in Threads, ReadsDescriptor(t)
               PROVE  ptr["confDesc"] # NULL
    BY DEF DescriptorNeverNull
  <2>1. CASE descPc[t] \in {"size", "measure"} \/ (descPc[t] = "copy" /\ slot[t] = "confDesc")
    <3>1. slot[t] = "confDesc"
      BY <2>1 DEF IInv, SizesConfDesc
    <3> QED BY <2>1, <3>1 DEF IInv, D!HasBlock
  <2>2. CASE sel[t] \in {"count", "recount"}
    BY <2>2 DEF IInv, DescriptorThere
  <2> QED BY <2>1, <2>2 DEF ReadsDescriptor
<1> QED BY <1>1, Inductive, PTL

\* No thread sleeps, waits for the bus or leaves the driver with the mutex: it is
\* always the owner's own next step that gives it back.
THEOREM MutexGivenBack == Spec => []NoWaitWithMutex
<1>1. Init => NoWaitWithMutex
  BY DEF Init, D!Init, NoWaitWithMutex
<1>2. IInv /\ NoWaitWithMutex /\ [Next]_vars => NoWaitWithMutex'
  <2> SUFFICES ASSUME IInv, NoWaitWithMutex, [Next]_vars PROVE NoWaitWithMutex'
    OBVIOUS
  <2>1. mutex \in Threads \cup {NULL}
    BY DEF IInv, D!IInv, D!TypeOK
  <2> QED BY <2>1, MutexUse DEF NoWaitWithMutex, Allocating
<1> QED BY <1>1, <1>2, Inductive, PTL DEF Spec

-----------------------------------------------------------------------------
(* With one request at a time, on a bus that serves descriptors and with   *)
(* memory for the table; descriptor allocations may fail, and the bus may  *)
(* fail pipe requests and selections.                                      *)

LEMMA SerialInductive == OneAtATime => (Spec => []SerialInv)
<1> SUFFICES ASSUME OneAtATime PROVE Spec => []SerialInv
  OBVIOUS
<1>1. Init => SerialInv
  BY CacheInit, TableInit DEF Init, SerialInv, DescriptorHeld
<1>2. IInv /\ SerialInv /\ [Next]_vars => SerialInv'
  BY SerialInvStep
<1> QED BY <1>1, <1>2, Inductive, PTL DEF Spec

LEMMA SerialFacts ==
  OneAtATime /\ IInv /\ SerialInv =>
    /\ DeliversComplete /\ CacheIsComplete
    /\ TableMatchesDevice /\ UrbNamesPipe /\ NoBugcheck
<1> SUFFICES ASSUME OneAtATime, IInv, SerialInv
             PROVE  /\ DeliversComplete /\ CacheIsComplete
                    /\ TableMatchesDevice /\ UrbNamesPipe /\ NoBugcheck
  OBVIOUS
<1>1. /\ DP!OneRequest /\ DP!IInv /\ DP!Serial
      /\ PP!OneRequest /\ PP!IInv /\ PP!Serial
  BY SameCache, SameTable
  DEF IInv, SerialInv, OneAtATime, D!OneRequest, DP!OneRequest, PP!OneRequest
<1>2. DP!DeliversComplete /\ DP!CacheIsComplete
  BY <1>1, CacheAssumption, DP!SerialProperties
<1>3. PP!TableMatchesDevice /\ PP!UrbNamesPipe
  BY <1>1, TableAssumption, PP!SerialProperties
<1>4. DeliversComplete /\ CacheIsComplete
  BY <1>2
  DEF DeliversComplete, D!DeliversComplete, DP!DeliversComplete, CacheIsComplete, D!CacheIsComplete,
      DP!CacheIsComplete, D!Slots, DP!Slots
<1>5. TableMatchesDevice
  BY <1>3
  DEF TableMatchesDevice, P!TableMatchesDevice, PP!TableMatchesDevice, P!Settled,
      PP!Settled, P!Entry, PP!Entry, P!LiveHandle, PP!LiveHandle, P!Handles,
      PP!Handles, P!Gens, PP!Gens
<1>6. UrbNamesPipe
  BY <1>3
  DEF UrbNamesPipe, P!UrbNamesPipe, PP!UrbNamesPipe, P!LiveHandle, PP!LiveHandle,
      P!Handles, PP!Handles, P!Gens, PP!Gens
<1>7. NoBugcheck
  <2>1. \E t \in Threads : Threads = {t}
    BY DEF OneAtATime, D!OneRequest
  <2> QED BY <2>1 DEF SerialInv, P!Serial, D!Serial, D!FetchState, NoBugcheck
<1> QED BY <1>4, <1>5, <1>6, <1>7

\* The descriptor a selection has found stays cached and complete until it has
\* been read for the last time, the URB that points into it included.
THEOREM HoldsDescriptor == OneAtATime => (Spec => []DescriptorHeld)
<1> SUFFICES ASSUME OneAtATime PROVE Spec => []DescriptorHeld
  OBVIOUS
<1>1. SerialInv => DescriptorHeld
  BY DEF SerialInv
<1> QED BY <1>1, SerialInductive, PTL

\* SelectInterface finds the interface descriptor of the setting asked for, or
\* the end of the configuration descriptor when the device does not list it, for
\* every layout of every device; SelectConfiguration finds that of its setting.
THEOREM SearchFindsSetting == OneAtATime => (Spec => []SearchFinds)
<1> SUFFICES ASSUME OneAtATime PROVE Spec => []SearchFinds
  OBVIOUS
<1>1. Init => SearchInv
  BY DEF Init, SearchInv, SearchFinds, Selections, Bytes
<1>2. IInv /\ SerialInv /\ SearchInv /\ [Next]_vars => SearchInv'
  BY SearchStep
<1>3. SearchInv => SearchFinds
  BY DEF SearchInv
<1> QED BY <1>1, <1>2, <1>3, Inductive, SerialInductive, PTL DEF Spec

\* A request that succeeds delivers a descriptor that was fetched completely.
THEOREM CompleteDelivered == OneAtATime => (Spec => []DeliversComplete)
<1> SUFFICES ASSUME OneAtATime PROVE Spec => []DeliversComplete
  OBVIOUS
<1>1. IInv /\ SerialInv => DeliversComplete
  BY SerialFacts
<1> QED BY <1>1, Inductive, SerialInductive, PTL

\* Between requests, what is cached is a complete descriptor.
THEOREM CompleteCached == OneAtATime => (Spec => []CacheIsComplete)
<1> SUFFICES ASSUME OneAtATime PROVE Spec => []CacheIsComplete
  OBVIOUS
<1>1. IInv /\ SerialInv => CacheIsComplete
  BY SerialFacts
<1> QED BY <1>1, Inductive, SerialInductive, PTL

\* The table describes the setting the device is in, whatever selections
\* succeeded or failed before.
THEOREM TableFollowsDevice == OneAtATime => (Spec => []TableMatchesDevice)
<1> SUFFICES ASSUME OneAtATime PROVE Spec => []TableMatchesDevice
  OBVIOUS
<1>1. IInv /\ SerialInv => TableMatchesDevice
  BY SerialFacts
<1> QED BY <1>1, Inductive, SerialInductive, PTL

\* A URB names a live handle of the endpoint the request asked for.
THEOREM NamesPipe == OneAtATime => (Spec => []UrbNamesPipe)
<1> SUFFICES ASSUME OneAtATime PROVE Spec => []UrbNamesPipe
  OBVIOUS
<1>1. IInv /\ SerialInv => UrbNamesPipe
  BY SerialFacts
<1> QED BY <1>1, Inductive, SerialInductive, PTL

\* Nothing but a URB that could not be allocated stops the system: no access
\* leaves the table, no URB's block is freed or too short, no pointer is NULL and
\* no count garbage where it is used.
THEOREM NothingStops == OneAtATime => (Spec => []NoBugcheck)
<1> SUFFICES ASSUME OneAtATime PROVE Spec => []NoBugcheck
  OBVIOUS
<1>1. IInv /\ SerialInv => NoBugcheck
  BY SerialFacts
<1> QED BY <1>1, Inductive, SerialInductive, PTL

\* A pipe's open flag changes only by an AbortPipe or ResetPipe for its address.
THEOREM MarksOwnEntry == OneAtATime => (Spec => MarksOwnPipe)
<1> SUFFICES ASSUME OneAtATime PROVE Spec => [][P!MarksOwn]_(P!vars)
  BY DEF MarksOwnPipe, P!MarksOwnPipe
<1>1. IInv /\ SerialInv /\ [Next]_vars => P!MarksOwn
  BY MarksStep
<1> QED BY <1>1, Inductive, SerialInductive, PTL DEF Spec
=============================================================================
