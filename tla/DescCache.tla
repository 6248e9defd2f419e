----------------------------- MODULE DescCache ------------------------------
(***************************************************************************)
(* The descriptor cache of the device extension: GetDeviceDesc and         *)
(* GetConfDesc (ioctrlhelper.cpp) fill pdx->deviceDesc and pdx->confDesc on*)
(* the first request, SendEP0Ctl copies the cached descriptor into the     *)
(* request's buffer, PnpRemoveDevice frees it.  myMutex is held only around*)
(* free-and-allocate: the test of the cache, the wait for the bus driver,  *)
(* the reading of wTotalLength and the final copy all run without it, and  *)
(* each of them reads the shared pointer again.                            *)
(*                                                                         *)
(* SubmitUrbSync appears as its contract (module SyncCall): the URB is at  *)
(* the bus driver in state "bus" and comes back once, with a status.       *)
(* A configuration descriptor is fetched in two passes, its fixed-size     *)
(* header first, then wTotalLength bytes.                                  *)
(***************************************************************************)
CONSTANTS
    Threads,        \* threads inside DispatchDeviceIOControl
    Blocks,         \* pool blocks ExAllocatePool may hand out
    NULL,
    AllocMayFail,   \* ExAllocatePool and USBD_UrbAllocate may fail
    BusMayFail      \* the bus driver may complete a URB with a failure

ASSUME DescCacheAssumption ==
    /\ NULL \notin Threads \cup Blocks
    /\ AllocMayFail \in BOOLEAN
    /\ BusMayFail \in BOOLEAN

VARIABLES
    ptr,        \* ptr[s]: the pointer pdx->deviceDesc or pdx->confDesc
    mem,        \* mem[b]: what block b holds, "free" when it is not allocated
    room,       \* room[b]: the length block b was allocated for (Length)
    mutex,      \* the thread that owns pdx->myMutex
    pc,         \* pc[t]: where t is
    slot,       \* slot[t]: the descriptor t asks for
    pass,       \* pass[t]: 1 or 2, GetConfDesc's two steps
    len,        \* len[t]: the length t works with
    buf,        \* buf[t]: the transfer buffer of t's URB
    got,        \* got[t]: how t's last request ended
    present,    \* the device extension exists
    starved,    \* history: an allocation has failed
    bugcheck    \* the system has stopped: NULL or an uninitialised pointer was
                \* used, or memory was written that is not the block's

vars == <<ptr, mem, room, mutex, pc, slot, pass, len, buf, got, present, starved,
          bugcheck>>

Slots == {"deviceDesc", "confDesc"}

\* The lengths of blocks: a thread stands for the garbage it has read as one.
Lengths == {"none", "device", "header", "total"} \cup Threads

TypeOK ==
    /\ ptr \in [Slots -> Blocks \cup {NULL}]
    /\ mem \in [Blocks -> {"free", "blank", "head", "whole", "junk"}]
    /\ room \in [Blocks -> Lengths]
    /\ mutex \in Threads \cup {NULL}
    /\ pc \in [Threads -> {"idle", "lock", "alloc", "check", "build", "bus",
                           "size", "measure", "copy"}]
    /\ slot \in [Threads -> Slots]
    /\ pass \in [Threads -> {1, 2}]
    /\ len \in [Threads -> {"fixed", "total", "junk"}]
    /\ buf \in [Threads -> Blocks \cup {NULL}]
    /\ got \in [Threads -> {"none", "whole", "partial", "failed"}]
    /\ present \in BOOLEAN
    /\ starved \in BOOLEAN
    /\ bugcheck \in BOOLEAN

Init ==
    /\ ptr = [s \in Slots |-> NULL]
    /\ mem = [b \in Blocks |-> "free"]
    /\ room = [b \in Blocks |-> "none"]
    /\ mutex = NULL
    /\ pc = [t \in Threads |-> "idle"]
    /\ slot = [t \in Threads |-> "deviceDesc"]
    /\ pass = [t \in Threads |-> 1]
    /\ len = [t \in Threads |-> "fixed"]
    /\ buf = [t \in Threads |-> NULL]
    /\ got = [t \in Threads |-> "none"]
    /\ present = TRUE
    /\ starved = FALSE
    /\ bugcheck = FALSE

Goto(t, l) == pc' = [pc EXCEPT ![t] = l]

\* The function's local variables are gone.
Leave(t) ==
    /\ Goto(t, "idle")
    /\ slot' = [slot EXCEPT ![t] = "deviceDesc"]
    /\ pass' = [pass EXCEPT ![t] = 1]
    /\ len' = [len EXCEPT ![t] = "fixed"]
    /\ buf' = [buf EXCEPT ![t] = NULL]

\* The request is completed; its URB is gone.
Return(t, result) ==
    /\ Leave(t)
    /\ got' = [got EXCEPT ![t] = result]

\* Where SendEP0Ctl goes on when the descriptor function returned a success:
\* only a configuration descriptor says how long it is.
AfterSuccess(t, s) == Goto(t, IF s = "confDesc" THEN "measure" ELSE "copy")

\* The values wTotalLength may be read as in block b: garbage unless the
\* header has arrived there.
LengthsIn(b) == IF mem[b] \in {"head", "whole"} THEN {"total"}
                ELSE {"total", "junk"}

\* The length t asks for, of ExAllocatePool and of the device.
Length(t) ==
    IF slot[t] = "deviceDesc" THEN "device"
    ELSE IF pass[t] = 1 THEN "header"
    ELSE IF len[t] = "junk" THEN t ELSE "total"

\* The lengths of the blocks the answer to a request for length l fits in for
\* certain: the device sends no more than the whole descriptor.
RoomFor(l) == {l, "total"} \cup (IF l = "header" THEN {"device"} ELSE {})

\* ExFreePool of the blocks in B.
ExFreePool(B) ==
    /\ mem' = [b \in Blocks |-> IF b \in B THEN "free" ELSE mem[b]]
    /\ room' = [b \in Blocks |-> IF b \in B THEN "none" ELSE room[b]]

\* ExAllocatePool hands out block b, into the shared pointer.
ExAllocatePool(t, b) ==
    /\ mem[b] = "free"
    /\ ptr' = [ptr EXCEPT ![slot[t]] = b]
    /\ mem' = [mem EXCEPT ![b] = "blank"]
    /\ room' = [room EXCEPT ![b] = Length(t)]

Bugcheck ==
    /\ bugcheck' = TRUE
    /\ UNCHANGED <<ptr, mem, room, mutex, pc, slot, pass, len, buf, got, present>>

-----------------------------------------------------------------------------
(* GetDeviceDesc and GetConfDesc                                           *)

\* The test of the pointer on entry, without the mutex.
Lookup(t, s) ==
    /\ present
    /\ pc[t] = "idle"
    /\ slot' = [slot EXCEPT ![t] = s]
    /\ got' = [got EXCEPT ![t] = "none"]
    /\ \/ ptr[s] # NULL /\ AfterSuccess(t, s)
       \/ ptr[s] = NULL /\ Goto(t, "lock")
    /\ UNCHANGED <<ptr, mem, room, mutex, pass, len, buf, present, starved, bugcheck>>

BugFreeUnlocked(t) ==       \* ExFreePool before ExAcquireFastMutex is called
    /\ pc[t] = "lock"
    /\ mutex = NULL
    /\ ptr[slot[t]] # NULL \/ pass[t] = 1
    /\ ExFreePool({ptr[slot[t]]})
    /\ Goto(t, "alloc")
    /\ UNCHANGED <<ptr, mutex, slot, pass, len, buf, got, present, starved, bugcheck>>

BugNoFreeSecondPass(t) ==   \* the second step allocates over the header
    /\ pc[t] = "lock"
    /\ mutex = NULL
    /\ ExFreePool(IF pass[t] = 1 THEN {ptr[slot[t]]} ELSE {})
    /\ mutex' = t
    /\ Goto(t, "alloc")
    /\ UNCHANGED <<ptr, slot, pass, len, buf, got, present, starved, bugcheck>>

BugNullAfterFree(t) ==      \* the pointer cleared after ExFreePool
    /\ pc[t] = "lock"
    /\ mutex = NULL
    /\ ptr[slot[t]] # NULL \/ pass[t] = 1
    /\ ExFreePool({ptr[slot[t]]})
    /\ ptr' = [ptr EXCEPT ![slot[t]] = NULL]
    /\ mutex' = t
    /\ Goto(t, "alloc")
    /\ UNCHANGED <<slot, pass, len, buf, got, present, starved, bugcheck>>

\* ExAcquireFastMutex, then ExFreePool of the current block; the pointer goes
\* on naming it.  The first step tests the pointer, the second does not.
LockAndFree(t) ==
    /\ pc[t] = "lock"
    /\ mutex = NULL
    /\ ptr[slot[t]] # NULL \/ pass[t] = 1
    /\ ExFreePool({ptr[slot[t]]})
    /\ mutex' = t
    /\ Goto(t, "alloc")
    /\ UNCHANGED <<ptr, slot, pass, len, buf, got, present, starved, bugcheck>>

\* The second step's ExFreePool is given NULL.
FreeNull(t) ==
    /\ pc[t] = "lock"
    /\ mutex = NULL
    /\ ptr[slot[t]] = NULL /\ pass[t] = 2
    /\ Bugcheck
    /\ UNCHANGED starved

BugKeepMutex(t) ==          \* the second step ends without ExReleaseFastMutex
    /\ pc[t] = "alloc"
    /\ \E b \in Blocks : ExAllocatePool(t, b)
    /\ mutex' = IF pass[t] = 2 THEN mutex ELSE NULL
    /\ Goto(t, "check")
    /\ UNCHANGED <<slot, pass, len, buf, got, present, starved, bugcheck>>

\* ExAllocatePool into the shared pointer, then ExReleaseFastMutex.
AllocAndUnlock(t) ==
    /\ pc[t] = "alloc"
    /\ \/ /\ \E b \in Blocks : ExAllocatePool(t, b)
          /\ UNCHANGED starved
       \/ /\ AllocMayFail
          /\ ptr' = [ptr EXCEPT ![slot[t]] = NULL]
          /\ starved' = TRUE
          /\ UNCHANGED <<mem, room>>
    /\ mutex' = NULL
    /\ Goto(t, "check")
    /\ UNCHANGED <<slot, pass, len, buf, got, present, bugcheck>>

\* The shared pointer is tested, without the mutex.
Check(t) ==
    /\ pc[t] = "check"
    /\ \/ ptr[slot[t]] = NULL /\ Return(t, "failed")
       \/ /\ ptr[slot[t]] # NULL
          /\ Goto(t, "build")
          /\ UNCHANGED <<slot, pass, len, buf, got>>
    /\ UNCHANGED <<ptr, mem, room, mutex, present, starved, bugcheck>>

\* USBD_UrbAllocate, the request built over the current pointer, and
\* SubmitUrbSync entered.
Build(t) ==
    /\ pc[t] = "build"
    /\ buf' = [buf EXCEPT ![t] = ptr[slot[t]]]
    /\ Goto(t, "bus")
    /\ UNCHANGED <<ptr, mem, room, mutex, slot, pass, len, got, present, starved,
                   bugcheck>>

\* USBD_UrbAllocate fails: its status is not looked at and the request is
\* built through the uninitialised variable urb.
UrbAllocateFails(t) ==
    /\ AllocMayFail
    /\ pc[t] = "build"
    /\ Bugcheck
    /\ starved' = TRUE

\* What the bus driver writes for t's URB.
Payload(t) ==
    IF slot[t] = "confDesc" /\ pass[t] = 1 THEN "head"
    ELSE IF len[t] = "junk" THEN "junk" ELSE "whole"

BugOnePass(t) ==            \* the second step of GetConfDesc is missing
    /\ pc[t] = "bus"
    /\ buf[t] # NULL
    /\ mem' = [mem EXCEPT ![buf[t]] = Payload(t)]
    /\ buf' = [buf EXCEPT ![t] = NULL]
    /\ AfterSuccess(t, slot[t])
    /\ UNCHANGED <<ptr, room, mutex, slot, pass, len, got, present, starved, bugcheck>>

\* The block t's URB was built over is no longer one its answer fits in: it has
\* been freed, handed out again with another length, or was replaced between
\* t's allocation and Build.
WritesWild(t) == buf[t] # NULL /\ room[buf[t]] \notin RoomFor(Length(t))

\* What block b holds when the answer to t's URB has arrived, by what the block
\* is now: free, the other descriptor's, shorter than the answer, or t's own.
Arrived(t, b) ==
    IF mem[b] = "free" THEN "free"
    ELSE IF b # ptr[slot[t]] THEN "junk"
    ELSE IF room[b] \notin RoomFor(Length(t))
         THEN IF room[b] = "header" /\ Payload(t) = "whole" THEN "head" ELSE "junk"
    ELSE IF Payload(t) = "head" /\ mem[b] = "whole" THEN "whole"
    ELSE Payload(t)

\* The URB succeeds.  What it writes beside the block has hit nothing.
BusCompletes(t) ==
    /\ pc[t] = "bus"
    /\ buf[t] # NULL
    /\ mem' = [mem EXCEPT ![buf[t]] = Arrived(t, buf[t])]
    /\ buf' = [buf EXCEPT ![t] = NULL]
    /\ IF slot[t] = "confDesc" /\ pass[t] = 1 THEN Goto(t, "size")
       ELSE AfterSuccess(t, slot[t])
    /\ UNCHANGED <<ptr, room, mutex, slot, pass, len, got, present, starved, bugcheck>>

\* The bus driver writes into freed memory, or beyond the end of a block: into
\* the pool's own data or another driver's.
BusOverwrites(t) ==
    /\ pc[t] = "bus"
    /\ WritesWild(t)
    /\ Bugcheck
    /\ UNCHANGED starved

BugReturnPending(t) ==      \* STATUS_PENDING returned as the final status
    /\ pc[t] = "bus"
    /\ BusMayFail \/ buf[t] = NULL
    /\ Return(t, "pending")
    /\ UNCHANGED <<ptr, mem, room, mutex, present, starved, bugcheck>>

\* The URB fails; what was allocated for it stays cached.
BusFails(t) ==
    /\ pc[t] = "bus"
    /\ BusMayFail \/ buf[t] = NULL
    /\ Return(t, "failed")
    /\ UNCHANGED <<ptr, mem, room, mutex, present, starved, bugcheck>>

\* wTotalLength is read through the current pointer; the second step starts.
ReadTotalLength(t) ==
    /\ pc[t] = "size"
    /\ ptr["confDesc"] # NULL
    /\ \E l \in LengthsIn(ptr["confDesc"]) : len' = [len EXCEPT ![t] = l]
    /\ pass' = [pass EXCEPT ![t] = 2]
    /\ Goto(t, "lock")
    /\ UNCHANGED <<ptr, mem, room, mutex, slot, buf, got, present, starved, bugcheck>>

-----------------------------------------------------------------------------
(* SendEP0Ctl, after a success: realSize, then RtlCopyMemory               *)

Measure(t) ==
    /\ pc[t] = "measure"
    /\ ptr["confDesc"] # NULL
    /\ \E l \in LengthsIn(ptr["confDesc"]) : len' = [len EXCEPT ![t] = l]
    /\ Goto(t, "copy")
    /\ UNCHANGED <<ptr, mem, room, mutex, slot, pass, buf, got, present, starved,
                   bugcheck>>

Copy(t) ==
    /\ pc[t] = "copy"
    /\ ptr[slot[t]] # NULL
    /\ Return(t, IF mem[ptr[slot[t]]] = "whole" /\ len[t] # "junk"
                 THEN "whole" ELSE "partial")
    /\ UNCHANGED <<ptr, mem, room, mutex, present, starved, bugcheck>>

\* Any of these three reads goes through a NULL pointer.
ReadNull(t) ==
    /\ pc[t] \in {"size", "measure", "copy"}
    /\ ptr[slot[t]] = NULL
    /\ Bugcheck
    /\ UNCHANGED starved

-----------------------------------------------------------------------------
(* PnP                                                                     *)

\* PnpRemoveDevice.  The PnP manager sends it when the last handle is closed:
\* no request is in progress.  The extension keeps its dangling pointers.
PnpRemoveDevice ==
    /\ present
    /\ \A t \in Threads : pc[t] = "idle"
    /\ ExFreePool({ptr[s] : s \in Slots})
    /\ present' = FALSE
    /\ UNCHANGED <<ptr, mutex, pc, slot, pass, len, buf, got, starved, bugcheck>>

\* The device comes back: a new extension, both pointers NULL.
AddDevice ==
    /\ ~ present
    /\ ptr' = [s \in Slots |-> NULL]
    /\ present' = TRUE
    /\ UNCHANGED <<mem, room, mutex, pc, slot, pass, len, buf, got, starved, bugcheck>>

-----------------------------------------------------------------------------
Request(t) ==
    \/ LockAndFree(t)
    \/ FreeNull(t)
    \/ AllocAndUnlock(t)
    \/ Check(t)
    \/ Build(t)
    \/ UrbAllocateFails(t)
    \/ BusCompletes(t)
    \/ BusOverwrites(t)
    \/ BusFails(t)
    \/ ReadTotalLength(t)
    \/ Measure(t)
    \/ Copy(t)
    \/ ReadNull(t)

Next ==
    /\ ~ bugcheck
    /\ \/ \E t \in Threads, s \in Slots : Lookup(t, s)
       \/ \E t \in Threads : Request(t)
       \/ PnpRemoveDevice
       \/ AddDevice

Spec == Init /\ [][Next]_vars

\* A thread with a request in progress is scheduled again, the bus driver
\* completes every URB (SyncCall, CallReturnsEventually of SubmitUrb).  Weak
\* fairness only: a thread may be overtaken at the mutex any number of times.
FairSpec == Spec /\ \A t \in Threads : WF_vars(~ bugcheck /\ Request(t))

-----------------------------------------------------------------------------
(* Properties                                                              *)

\* Whenever nobody is between free and allocate, each pointer of a present
\* device is NULL or names an allocated block: no ExFreePool, here or in
\* PnpRemoveDevice, ever frees a block twice, whatever overlaps or fails.
CachedBlocksLive ==
    present /\ mutex = NULL =>
        \A s \in Slots : ptr[s] = NULL \/ mem[ptr[s]] # "free"

\* Every allocated block is named by exactly one pointer of a present device:
\* no fetch, failed or overtaken by another, loses a block, and the two
\* descriptors never share one.
NoLeak ==
    \A b \in Blocks : mem[b] # "free" =>
        present /\ \E s \in Slots : ptr[s] = b /\ \A r \in Slots \ {s} : ptr[r] # b

\* Every request ends as long as memory lasts, also when fetches fail: the
\* mutex is always released, and a request that keeps losing it to others is
\* served in the end, because only a request that found the cache empty ever
\* takes it.  (Where allocations go on failing, it can be overtaken for ever;
\* where a URB has overwritten memory, the system may have stopped.)
RequestReturns ==
    \A t \in Threads : pc[t] # "idle" ~> pc[t] = "idle" \/ starved \/ bugcheck

\* Where t goes on by using the pointer without a test: it builds the request
\* over it, reads or copies through it, or frees it.
UsesPointer(t) ==
    \/ pc[t] \in {"build", "size", "measure", "copy"}
    \/ pc[t] = "lock" /\ pass[t] = 2

\* No request finds NULL where it uses the pointer untested, however many
\* overlap, as long as memory lasts: a fetch replaces a block another request
\* has tested, but never takes the pointer away.  (Only NULL is excluded.  The
\* block a URB writes to may be replaced under it: BusOverwrites.)
PointerNeverNull ==
    \A t \in Threads : UsesPointer(t) => starved \/ ptr[slot[t]] # NULL

\* A request that succeeds delivers a descriptor that was fetched completely.
DeliversComplete == \A t \in Threads : got[t] # "partial"

\* When no request is in progress, a cached descriptor is a complete one.
CacheIsComplete ==
    present /\ (\A t \in Threads : pc[t] = "idle") =>
        \A s \in Slots : ptr[s] # NULL => mem[ptr[s]] = "whole"

-----------------------------------------------------------------------------
(* The inductive invariant of the proofs.                                  *)

MutexHeld == \A t \in Threads : pc[t] = "alloc" => mutex = t

\* The only pointer that may dangle is the one whose block a thread between
\* free and allocate has just freed, and that one does.
Dangling ==
    present => \A s \in Slots : ptr[s] # NULL =>
        (mem[ptr[s]] = "free" <=> \E t \in Threads : pc[t] = "alloc" /\ slot[t] = s)

\* As long as no allocation has failed, a request that has reached the test
\* after the allocation, or started its second step, has a block.
HasBlock ==
    /\ ~ starved => \A t \in Threads :
        pc[t] \in {"check", "build", "bus", "size", "measure", "copy"}
            \/ (pc[t] = "lock" /\ pass[t] = 2) =>
        ptr[slot[t]] # NULL
    /\ \A t \in Threads : pc[t] = "idle" => pass[t] = 1

AbsentIdle == ~ present => \A t \in Threads : pc[t] = "idle"

IInv ==
    /\ TypeOK
    /\ MutexHeld
    /\ Dangling
    /\ NoLeak
    /\ AbsentIdle

-----------------------------------------------------------------------------
(* The same for one request at a time and a bus driver that does not fail. *)

OneRequest == \E t \in Threads : Threads = {t}

\* Where t has not fetched its descriptor yet.
Fetching(t) == pc[t] \in {"lock", "alloc", "check", "build", "bus", "size"}

\* What t knows of the block it works on, from the lookup to the copy.
FetchState(t) ==
    /\ len[t] # "junk" /\ got[t] # "partial"
    /\ pass[t] = 2 => slot[t] = "confDesc"
    /\ pc[t] = "idle" => pass[t] = 1
    /\ pc[t] = "lock" => (ptr[slot[t]] = NULL <=> pass[t] = 1)
    /\ pc[t] \in {"build", "bus", "size", "measure", "copy"} => ptr[slot[t]] # NULL
    /\ pc[t] \in {"check", "build", "bus"} /\ ptr[slot[t]] # NULL =>
            room[ptr[slot[t]]] = Length(t)
    /\ pc[t] = "bus" => buf[t] = ptr[slot[t]]
    /\ pc[t] = "size" =>
            slot[t] = "confDesc" /\ mem[ptr[slot[t]]] \in {"head", "whole"}
    /\ bugcheck => pc[t] = "build"

Serial ==
    /\ \A t \in Threads : FetchState(t)
    /\ present => \A s \in Slots :
        \/ ptr[s] = NULL
        \/ mem[ptr[s]] = "whole"
        \/ \E t \in Threads : slot[t] = s /\ Fetching(t)
=============================================================================
