------------------------------- MODULE Device -------------------------------
(***************************************************************************)
(* The descriptor cache and the pipe table of one device extension,        *)
(* together: they share myMutex, the threads and the life of the device,   *)
(* and SelectConfiguration and SelectInterface use both.  A selection tests*)
(* pdx->confDesc, calls GetConfDesc when it is NULL, reads the descriptor  *)
(* to find the interface descriptor the request is built from, leaves the  *)
(* pointer in the URB while the device switches, and then replaces the     *)
(* table; SelectConfiguration reads the descriptor once more before that.  *)
(*                                                                         *)
(* The steps are those of DescCache and PipeTable.  What is added is the   *)
(* part of the selections before the URB, which PipeTable leaves out, and  *)
(* the rule that a thread is in one function at a time.                    *)
(***************************************************************************)
EXTENDS Naturals, Sequences

CONSTANTS
    Threads, NULL,
    DescBlocks, DescAllocMayFail, DescBusMayFail,       \* of DescCache
    PipeBlocks, Addrs, Alts, Alt0, PipesOf, MaxSelects, \* of PipeTable
    PipeAllocMayFail, PipeBusMayFail,
    Requests,       \* the kinds of request the application sends
    Layouts         \* the orders in which the device may list its settings

Selections == {"configuration", "interface"}
PipeRequests == {"send", "abort", "reset"}

ASSUME DeviceAssumption ==
    /\ Requests \subseteq {"deviceDesc", "confDesc"} \cup Selections \cup PipeRequests
    /\ \A l \in Layouts : l \in Seq(Alts) /\ l # <<>> /\ Head(l) = Alt0
    /\ NULL \notin Threads \cup DescBlocks \cup PipeBlocks \cup Addrs \cup Alts
    /\ Alt0 \in Alts
    /\ PipesOf \in [Alts -> Seq(Addrs)]
    /\ MaxSelects \in Nat
    /\ {DescAllocMayFail, DescBusMayFail, PipeAllocMayFail, PipeBusMayFail}
        \subseteq BOOLEAN

VARIABLES
    present, mutex,                                     \* shared
    ptr, mem, room, descPc, slot, pass, len, buf, got, starved, descBugcheck,
    devAlt, devGen, xfers, pipeCount, pipeInfos, alloc, tab, pipePc, op, arg,
    idx, handle, gen, ret, pipeBugcheck,
    layout,     \* the settings in the device's configuration descriptor
    sel,        \* sel[t]: where t is in a selection before the table
    by,         \* by[t]: which of the two selections it is
    where       \* where[t]: the byte of the descriptor its URB points to

cache == <<ptr, mem, room, descPc, slot, pass, len, buf, got, starved, descBugcheck>>
pipes == <<devAlt, devGen, xfers, pipeCount, pipeInfos, alloc, tab, pipePc, op,
           arg, idx, handle, gen, ret, pipeBugcheck>>
device == <<present, devAlt, devGen, xfers>>
table == <<pipeCount, pipeInfos, alloc, tab, mutex>>
selection == <<layout, sel, by, where>>
vars == <<present, mutex, cache, pipes, selection>>

D == INSTANCE DescCache WITH
        Blocks <- DescBlocks, AllocMayFail <- DescAllocMayFail,
        BusMayFail <- DescBusMayFail, pc <- descPc, bugcheck <- descBugcheck

P == INSTANCE PipeTable WITH
        Blocks <- PipeBlocks, AllocMayFail <- PipeAllocMayFail,
        BusMayFail <- PipeBusMayFail, pc <- pipePc, bugcheck <- pipeBugcheck

ASSUME EntryAssumption == NULL \notin P!Entries

W == INSTANCE DescriptorWalk WITH
        Settings <- Alts, Endpoints <- [a \in Alts |-> Len(PipesOf[a])]

Init ==
    /\ D!Init
    /\ P!Init
    /\ layout \in Layouts
    /\ sel = [t \in Threads |-> "none"]
    /\ by = [t \in Threads |-> "interface"]
    /\ where = [t \in Threads |-> 0]

Idle(t) == descPc[t] = "idle" /\ pipePc[t] = "idle" /\ sel[t] = "none"

-----------------------------------------------------------------------------
(* A selection up to its URB                                               *)

\* The selection begins; with no descriptor it is inside GetConfDesc, with one
\* GetConfDesc would return at once.
BeginSelect(t, f, a) ==
    /\ Idle(t)
    /\ f = "configuration" => a = Alt0
    /\ P!StartSelect(t, a)
    /\ D!Lookup(t, "confDesc")
    /\ sel' = [sel EXCEPT ![t] = "describe"]
    /\ by' = [by EXCEPT ![t] = f]
    /\ UNCHANGED <<layout, where>>

\* GetConfDesc has returned to t: with a success at the place where SendEP0Ctl
\* would go on to "measure".
InGetConfDesc(t) == sel[t] = "describe" /\ descPc[t] \notin {"idle", "measure"}

EndSelect(t, r) ==
    /\ P!Return(t, r)
    /\ sel' = [sel EXCEPT ![t] = "none"]
    /\ where' = [where EXCEPT ![t] = 0]
    /\ UNCHANGED <<layout, by>>

DescribeFails(t) ==
    /\ sel[t] = "describe"
    /\ descPc[t] = "idle"
    /\ EndSelect(t, "failed")
    /\ UNCHANGED <<cache, device, table, pipeBugcheck>>

\* The bytes at which a search may be left: an interface descriptor, the end of
\* the configuration descriptor, or (0) anything that is neither.
Bytes == {0, W!wTotalLength(layout)} \cup
            {W!Offset(layout, n) : n \in DOMAIN layout}

\* The interface descriptor: SelectConfiguration takes the one after the
\* header, SelectInterface searches.  A block that does not hold the whole
\* descriptor can make either of them find anything.
FindInterface(t) ==
    /\ sel[t] = "describe"
    /\ descPc[t] = "measure"
    /\ ptr["confDesc"] # NULL
    /\ D!Leave(t)
    /\ \E p \in IF mem[ptr["confDesc"]] # "whole" THEN Bytes
                ELSE IF by[t] = "configuration" THEN {W!HeaderSize}
                ELSE {W!Search(layout, arg[t])} :
        where' = [where EXCEPT ![t] = p]
    /\ sel' = [sel EXCEPT ![t] = "found"]
    /\ UNCHANGED <<present, mutex, ptr, mem, room, got, starved, descBugcheck,
                   pipes, layout, by>>

\* The search came to the end of the descriptor.
NotInDescriptor(t) ==
    /\ sel[t] = "found"
    /\ where[t] = W!wTotalLength(layout)
    /\ EndSelect(t, "failed")
    /\ UNCHANGED <<cache, device, table, pipeBugcheck>>

\* The device switches to the setting the URB points to.
Select(t) ==
    /\ sel[t] = "found"
    /\ W!DescriptorAt(layout, where[t]) = arg[t]
    /\ P!SelectCompletes(t)
    /\ sel' = [sel EXCEPT ![t] = IF by[t] = "configuration" THEN "count"
                                 ELSE "none"]
    /\ where' = [where EXCEPT ![t] = 0]
    /\ UNCHANGED <<mutex, cache, layout, by>>

\* No memory for the list or the URB, the bus driver refuses, or the URB does
\* not point to the interface descriptor of the setting.
SelectFails(t) ==
    /\ sel[t] = "found"
    /\ where[t] < W!wTotalLength(layout)
    /\ \/ P!SelectFails(t)
       \/ /\ W!DescriptorAt(layout, where[t]) # arg[t]
          /\ P!Return(t, "failed")
          /\ UNCHANGED <<device, table, pipeBugcheck>>
    /\ sel' = [sel EXCEPT ![t] = "none"]
    /\ where' = [where EXCEPT ![t] = 0]
    /\ UNCHANGED <<cache, layout, by>>

-----------------------------------------------------------------------------
(* SelectConfiguration's loop over the interfaces reads bNumInterfaces again*)
(* before the table is replaced ("count") and after ("recount").           *)

\* The values bNumInterfaces may be read as.
Counts == IF mem[ptr["confDesc"]] \in {"head", "whole"} THEN {1} ELSE {0, 1, 2}

CountInterfaces(t) ==
    /\ sel[t] = "count"
    /\ ptr["confDesc"] # NULL
    /\ \/ /\ sel' = [sel EXCEPT ![t] = "recount"]
          /\ UNCHANGED <<present, mutex, pipes, layout, by, where>>
       \/ /\ 0 \in Counts
          /\ EndSelect(t, "ok")
          /\ UNCHANGED <<device, table, pipeBugcheck>>
    /\ UNCHANGED cache

CountAgain(t) ==
    /\ sel[t] = "recount"
    /\ pipePc[t] = "idle"
    /\ ptr["confDesc"] # NULL
    /\ sel' = [sel EXCEPT ![t] = "none"]
    /\ UNCHANGED <<present, mutex, cache, pipes, layout, by, where>>

\* The descriptor is read through a NULL pointer, or bNumInterfaces is garbage
\* and the loop goes on to an interface there is not.
ReadWrong(t) ==
    /\ \/ sel[t] = "describe" /\ descPc[t] = "measure" /\ ptr["confDesc"] = NULL
       \/ sel[t] = "count" /\ ptr["confDesc"] = NULL
       \/ /\ sel[t] = "recount" /\ pipePc[t] = "idle"
          /\ ptr["confDesc"] # NULL => 2 \in Counts
    /\ descBugcheck' = TRUE
    /\ UNCHANGED <<present, mutex, ptr, mem, room, descPc, slot, pass, len, buf,
                   got, starved, pipes, selection>>

\* The rest of a selection is PipeTable's.  Without memory for the array
\* SelectConfiguration leaves its loop.
ReplaceTable(t) ==
    /\ P!Selection(t)
    /\ pipePc[t] # "select"
    /\ sel[t] # "count"
    /\ sel' = IF pipePc[t] = "test" /\ pipePc'[t] = "idle"
              THEN [sel EXCEPT ![t] = "none"] ELSE sel
    /\ UNCHANGED <<cache, layout, by, where>>

-----------------------------------------------------------------------------
\* The steps of a thread inside the driver.
Step(t) ==
    \/ D!Request(t) /\ (sel[t] = "none" \/ InGetConfDesc(t)) /\ UNCHANGED <<pipes, selection>>
    \/ ReplaceTable(t)
    \/ P!PipeUse(t) /\ UNCHANGED <<cache, selection>>
    \/ DescribeFails(t)
    \/ FindInterface(t)
    \/ NotInDescriptor(t)
    \/ Select(t)
    \/ SelectFails(t)
    \/ CountInterfaces(t)
    \/ CountAgain(t)
    \/ ReadWrong(t)

PnpRemoveDevice ==
    /\ \A t \in Threads : sel[t] = "none"
    /\ D!PnpRemoveDevice
    /\ P!PnpRemoveDevice
    /\ UNCHANGED selection

AddDevice ==
    /\ D!AddDevice
    /\ P!AddDevice
    /\ UNCHANGED selection

Running == ~ descBugcheck /\ ~ pipeBugcheck

Next ==
    /\ Running
    /\ \/ \E t \in Threads, s \in D!Slots \cap Requests :
            Idle(t) /\ D!Lookup(t, s) /\ UNCHANGED <<pipes, selection>>
       \/ \E t \in Threads, a \in Alts, f \in Selections \cap Requests :
            BeginSelect(t, f, a)
       \/ \E t \in Threads, o \in PipeRequests \cap Requests, a \in Addrs :
            Idle(t) /\ P!StartPipe(t, o, a) /\ UNCHANGED <<cache, selection>>
       \/ \E t \in Threads : Step(t)
       \/ \E h \in P!Handles : P!TransferDone(h) /\ UNCHANGED <<cache, selection>>
       \/ PnpRemoveDevice
       \/ AddDevice

Spec == Init /\ [][Next]_vars

\* As in DescCache: a thread inside the driver is scheduled again, the bus
\* driver completes every URB.
FairSpec == Spec /\ \A t \in Threads : WF_vars(Running /\ Step(t))

-----------------------------------------------------------------------------
(* Properties.  The first five are those of DescCache and PipeTable for one *)
(* request at a time, here with the selections in between.                 *)

DeliversComplete == D!DeliversComplete
CacheIsComplete == D!CacheIsComplete
TableMatchesDevice == P!TableMatchesDevice
UrbNamesPipe == P!UrbNamesPipe
MarksOwnPipe == P!MarksOwnPipe

\* With one request at a time the system stops only where a URB could not be
\* allocated (the step UrbAllocateFails, at "build"), whatever failed before:
\* no access leaves the table, no URB is at the bus driver over a block that was
\* freed or is too short, nothing is read or freed through NULL, and the loop
\* over the interfaces never counts in a block that is not whole.
NoBugcheck ==
    /\ ~ pipeBugcheck
    /\ descBugcheck => \E t \in Threads : descPc[t] = "build"

\* The search of SelectInterface ends at the interface descriptor of the
\* setting asked for if the device lists it, exactly at the end if not, in
\* whatever order and with however many endpoints the settings are listed: it
\* never reads bytes that are not an interface descriptor.
SearchFinds ==
    \A t \in Threads : sel[t] = "found" =>
        IF \E n \in DOMAIN layout : layout[n] = arg[t]
        THEN W!DescriptorAt(layout, where[t]) = arg[t]
        ELSE where[t] = W!wTotalLength(layout)

\* The descriptor a selection reads, and leaves in its URB, is cached and
\* complete until the selection has read it for the last time.
DescriptorHeld ==
    \A t \in Threads : sel[t] \in {"found", "count", "recount"} =>
        ptr["confDesc"] # NULL /\ mem[ptr["confDesc"]] = "whole"

\* Where t goes on by reading the configuration descriptor.
ReadsDescriptor(t) ==
    \/ descPc[t] \in {"measure", "copy"} /\ slot[t] = "confDesc"
    \/ descPc[t] = "size"
    \/ sel[t] = "count"
    \/ sel[t] = "recount" /\ pipePc[t] = "idle"

\* Although requests overlap, selections and descriptor requests alike, none of
\* the places that read the descriptor finds NULL there, as long as memory
\* lasts: no fetch ever takes a pointer away that a selection has tested.
DescriptorNeverNull ==
    \A t \in Threads : ReadsDescriptor(t) => starved \/ ptr["confDesc"] # NULL

\* Nobody waits for the device, or for anything, with the mutex: the thread
\* that owns it is between the release of the old memory and the allocation of
\* the new, in a descriptor function or in a selection, and lets go of it next.
NoWaitWithMutex ==
    mutex # NULL => descPc[mutex] = "alloc" \/ pipePc[mutex] = "alloc"

\* Every request ends, unless the system has stopped (DescCache's BusOverwrites,
\* ReadWrong): the one mutex is taken by fetches and by selections, and a
\* selection may be inside GetConfDesc before it takes it itself.
RequestReturns == \A t \in Threads : ~ Idle(t) ~> Idle(t) \/ ~ Running

-----------------------------------------------------------------------------
(* The inductive invariant of the proofs.                                  *)

\* Which of the two components a selection is in.
SelectionState ==
    /\ sel \in [Threads -> {"none", "describe", "found", "count", "recount"}]
    /\ \A t \in Threads :
        /\ sel[t] \in {"describe", "found"} => pipePc[t] = "select"
        /\ sel[t] \in {"found", "count", "recount"} => descPc[t] = "idle"
        /\ sel[t] = "count" => pipePc[t] = "publish"
        /\ descPc[t] # "idle" =>
            pipePc[t] = IF sel[t] = "describe" THEN "select" ELSE "idle"
        /\ ~ present => sel[t] = "none"

\* Only a configuration descriptor says how long it is.
SizesConfDesc == \A t \in Threads :
    descPc[t] \in {"size", "measure"} \/ (descPc[t] # "idle" /\ sel[t] = "describe")
        => slot[t] = "confDesc"

\* As long as memory lasts, what a selection has tested stays.
DescriptorThere == \A t \in Threads :
    sel[t] \in {"found", "count", "recount"} => starved \/ ptr["confDesc"] # NULL

IInv ==
    /\ D!IInv
    /\ D!HasBlock
    /\ P!IInv
    /\ SelectionState
    /\ SizesConfDesc
    /\ DescriptorThere

\* One request at a time, on a bus that serves descriptors, with memory for the
\* table.
OneAtATime == D!OneRequest /\ ~ DescBusMayFail /\ ~ PipeAllocMayFail

SerialInv == D!Serial /\ P!Serial /\ DescriptorHeld

\* What the search starts from: SelectConfiguration asks for the setting that
\* is listed first.
SearchInv ==
    /\ layout \in Layouts
    /\ by \in [Threads -> Selections]
    /\ where \in [Threads -> Bytes]
    /\ \A t \in Threads :
        sel[t] = "describe" /\ by[t] = "configuration" => arg[t] = Alt0
    /\ SearchFinds
=============================================================================
