----------------------------- MODULE PipeTable ------------------------------
(***************************************************************************)
(* The pipe table of the device extension: pipeCount and the array         *)
(* pipeInfos.  SelectConfiguration and SelectInterface replace it after the*)
(* device has switched to a setting; SendNonEP0CtlData, AbortPipe and      *)
(* ResetPipe look an endpoint up in it and use the pipe handle found there.*)
(* myMutex is held around free-and-allocate and, in a second critical      *)
(* section, around filling the array; every reader works without it.       *)
(*                                                                         *)
(* A selection makes the USB stack close the pipes of the old setting and  *)
(* open new ones: a handle is good for one selection only.  Reading or     *)
(* writing through a NULL pointer or outside the array stops the system    *)
(* (bugcheck), reading a freed or unfilled entry gives garbage.            *)
(***************************************************************************)
EXTENDS Naturals, Sequences

CONSTANTS
    Threads,        \* threads inside DispatchDeviceIOControl
    Blocks,         \* pool blocks ExAllocatePool may hand out
    Addrs,          \* endpoint addresses
    Alts,           \* alternate settings of the interface
    Alt0,           \* the one SelectConfiguration selects
    PipesOf,        \* PipesOf[a]: the endpoint addresses of setting a
    MaxSelects,     \* bound on the selections of one life of the device
    NULL,
    AllocMayFail,   \* ExAllocatePool and the URB allocations may fail
    BusMayFail      \* the bus driver may fail a request on a live handle

ASSUME PipeTableAssumption ==
    /\ NULL \notin Threads \cup Blocks \cup Addrs \cup Alts
    /\ Alt0 \in Alts
    /\ PipesOf \in [Alts -> Seq(Addrs)]
    /\ MaxSelects \in Nat
    /\ AllocMayFail \in BOOLEAN
    /\ BusMayFail \in BOOLEAN

VARIABLES
    present,    \* the device extension exists
    devAlt,     \* the setting the device is in
    devGen,     \* how many selections the device has made, 0: unconfigured
    xfers,      \* the pipe handles with a transfer outstanding
    pipeCount,
    pipeInfos,  \* the block the pointer names
    alloc,      \* the allocated blocks
    tab,        \* tab[b]: the array in block b, NULL for an unfilled entry;
                \*   empty when b is not allocated
    mutex,      \* the thread that owns myMutex
    pc,         \* pc[t]: where t is
    op,         \* op[t]: the request t serves
    arg,        \* arg[t]: the setting or the address it names
    idx,        \* idx[t]: the loop index i
    handle,     \* handle[t]: the pipe handle in t's URB, NULL for garbage
    gen,        \* gen[t]: the selection t's interface information is of
    ret,        \* ret[t]: how t's last request ended
    bugcheck

vars == <<present, devAlt, devGen, xfers, pipeCount, pipeInfos, alloc, tab,
          mutex, pc, op, arg, idx, handle, gen, ret, bugcheck>>

device == <<present, devAlt, devGen, xfers>>
table == <<pipeCount, pipeInfos, alloc, tab, mutex>>
request == <<op, arg, idx, handle, gen, ret>>

Gens == 0 .. MaxSelects
Handles == [address : Addrs, gen : Gens]
Entries == [address : Addrs, handle : Handles, open : BOOLEAN]

ASSUME EntryAssumption == NULL \notin Entries

TypeOK ==
    /\ present \in BOOLEAN
    /\ devAlt \in Alts
    /\ devGen \in Gens
    /\ xfers \in SUBSET Handles
    /\ pipeCount \in Nat
    /\ pipeInfos \in Blocks \cup {NULL}
    /\ alloc \in SUBSET Blocks
    /\ tab \in [Blocks -> Seq(Entries \cup {NULL})]
    /\ mutex \in Threads \cup {NULL}
    /\ pc \in [Threads -> {"idle", "select", "publish", "alloc", "test",
                           "fill", "scan", "found", "bus", "mark"}]
    /\ op \in [Threads -> {"none", "select", "send", "abort", "reset"}]
    /\ arg \in [Threads -> Alts \cup Addrs \cup {NULL}]
    /\ idx \in [Threads -> Nat]
    /\ handle \in [Threads -> Handles \cup {NULL}]
    /\ gen \in [Threads -> Gens]
    /\ ret \in [Threads -> {"none", "ok", "failed"}]
    /\ bugcheck \in BOOLEAN

Init ==
    /\ present = TRUE
    /\ devAlt = Alt0
    /\ devGen = 0
    /\ xfers = {}
    /\ pipeCount = 0
    /\ pipeInfos = NULL
    /\ alloc = {}
    /\ tab = [b \in Blocks |-> <<>>]
    /\ mutex = NULL
    /\ pc = [t \in Threads |-> "idle"]
    /\ op = [t \in Threads |-> "none"]
    /\ arg = [t \in Threads |-> NULL]
    /\ idx = [t \in Threads |-> 1]
    /\ handle = [t \in Threads |-> NULL]
    /\ gen = [t \in Threads |-> 0]
    /\ ret = [t \in Threads |-> "none"]
    /\ bugcheck = FALSE

Goto(t, l) == pc' = [pc EXCEPT ![t] = l]

Return(t, result) ==
    /\ Goto(t, "idle")
    /\ idx' = [idx EXCEPT ![t] = 1]
    /\ handle' = [handle EXCEPT ![t] = NULL]
    /\ gen' = [gen EXCEPT ![t] = 0]
    /\ ret' = [ret EXCEPT ![t] = result]
    /\ op' = [op EXCEPT ![t] = "none"]
    /\ arg' = [arg EXCEPT ![t] = NULL]

\* ExFreePool(pipeInfos), if the pointer is not NULL.
FreeTable ==
    /\ alloc' = alloc \ {pipeInfos}
    /\ tab' = [b \in Blocks |-> IF b = pipeInfos THEN <<>> ELSE tab[b]]

Bugcheck ==
    /\ bugcheck' = TRUE
    /\ UNCHANGED <<device, table, pc, request>>

\* pipeInfos[i], when it is there and has been filled; garbage otherwise.
Entry(i) ==
    IF pipeInfos \in alloc /\ i \in DOMAIN tab[pipeInfos]
    THEN tab[pipeInfos][i] ELSE NULL

LiveHandle(h) ==
    /\ h \in Handles
    /\ h.gen = devGen
    /\ \E i \in DOMAIN PipesOf[devAlt] : PipesOf[devAlt][i] = h.address

-----------------------------------------------------------------------------
(* SelectConfiguration (setting Alt0) and SelectInterface, for a           *)
(* configuration with one interface; the search of the descriptor has      *)
(* found the setting.                                                      *)

StartSelect(t, a) ==
    /\ present
    /\ pc[t] = "idle"
    /\ Goto(t, "select")
    /\ op' = [op EXCEPT ![t] = "select"]
    /\ arg' = [arg EXCEPT ![t] = a]
    /\ ret' = [ret EXCEPT ![t] = "none"]
    /\ UNCHANGED <<device, table, idx, handle, gen, bugcheck>>

\* The device switches and the URB's interface information is filled in.  An
\* unconfigured device takes only the setting that SelectConfiguration names.
\* The old pipes are closed, their transfers with them.
SelectCompletes(t) ==
    /\ pc[t] = "select"
    /\ devGen < MaxSelects
    /\ devGen = 0 => arg[t] = Alt0
    /\ devAlt' = arg[t]
    /\ devGen' = devGen + 1
    /\ xfers' = {}
    /\ gen' = [gen EXCEPT ![t] = devGen + 1]
    /\ Goto(t, "publish")
    /\ UNCHANGED <<present, table, op, arg, idx, handle, ret, bugcheck>>

SelectFails(t) ==
    /\ pc[t] = "select"
    /\ AllocMayFail \/ BusMayFail \/ devGen = MaxSelects
        \/ (devGen = 0 /\ arg[t] # Alt0)
    /\ Return(t, "failed")
    /\ UNCHANGED <<device, table, bugcheck>>

BugNoFree(t) ==             \* the old array is not given back
    /\ pc[t] = "publish"
    /\ mutex = NULL
    /\ mutex' = t
    /\ pipeCount' = Len(PipesOf[arg[t]])
    /\ Goto(t, "alloc")
    /\ UNCHANGED <<device, pipeInfos, alloc, tab, request, bugcheck>>

BugCountOutside(t) ==       \* pipeCount set before the mutex is taken
    /\ pc[t] = "publish"
    /\ mutex = NULL
    /\ pipeCount' = Len(PipesOf[arg[t]])
    /\ FreeTable
    /\ Goto(t, "alloc")
    /\ UNCHANGED <<device, mutex, pipeInfos, request, bugcheck>>

\* First critical section: pipeCount, and ExFreePool of the old array.
Publish(t) ==
    /\ pc[t] = "publish"
    /\ mutex = NULL
    /\ mutex' = t
    /\ pipeCount' = Len(PipesOf[arg[t]])
    /\ FreeTable
    /\ Goto(t, "alloc")
    /\ UNCHANGED <<device, pipeInfos, request, bugcheck>>

BugAllocShort(t) ==         \* the array is one entry too short
    /\ pc[t] = "alloc"
    /\ \E b \in Blocks \ alloc :
        /\ pipeInfos' = b
        /\ alloc' = alloc \cup {b}
        /\ tab' = [tab EXCEPT ![b] = [i \in 1 .. pipeCount - 1 |-> NULL]]
    /\ mutex' = NULL
    /\ Goto(t, "test")
    /\ UNCHANGED <<device, pipeCount, request, bugcheck>>

\* ... and ExAllocatePool of the new one, sized by the shared pipeCount.
AllocAndUnlock(t) ==
    /\ pc[t] = "alloc"
    /\ \/ \E b \in Blocks \ alloc :
            /\ pipeInfos' = b
            /\ alloc' = alloc \cup {b}
            /\ tab' = [tab EXCEPT ![b] = [i \in 1 .. pipeCount |-> NULL]]
       \/ /\ AllocMayFail
          /\ pipeInfos' = NULL
          /\ UNCHANGED <<alloc, tab>>
    /\ mutex' = NULL
    /\ Goto(t, "test")
    /\ UNCHANGED <<device, pipeCount, request, bugcheck>>

\* Without memory the request still returns the status of the URB, a success.
TestArray(t) ==
    /\ pc[t] = "test"
    /\ \/ pipeInfos = NULL /\ Return(t, "ok")
       \/ pipeInfos # NULL /\ Goto(t, "fill") /\ UNCHANGED request
    /\ UNCHANGED <<device, table, bugcheck>>

\* The entries for setting a as selection g opened its pipes.
Filled(a, g) ==
    [i \in DOMAIN PipesOf[a] |->
        [address |-> PipesOf[a][i],
         handle |-> [address |-> PipesOf[a][i], gen |-> g],
         open |-> TRUE]]

BugFillFromOne(t) ==        \* the loop starts at i = 1
    /\ pc[t] = "fill"
    /\ mutex = NULL
    /\ pipeInfos \in alloc
    /\ DOMAIN PipesOf[arg[t]] \subseteq DOMAIN tab[pipeInfos]
    /\ tab' = [tab EXCEPT ![pipeInfos] = [i \in DOMAIN @ |->
                IF i > 1 /\ i \in DOMAIN PipesOf[arg[t]]
                THEN Filled(arg[t], gen[t])[i] ELSE @[i]]]
    /\ Return(t, "ok")
    /\ UNCHANGED <<device, pipeCount, pipeInfos, alloc, mutex, bugcheck>>

\* Second critical section.  The array filled is the one pipeInfos names now;
\* what another request published meanwhile may be too short for the loop.
Fill(t) ==
    /\ pc[t] = "fill"
    /\ mutex = NULL
    /\ pipeInfos \in alloc
    /\ DOMAIN PipesOf[arg[t]] \subseteq DOMAIN tab[pipeInfos]
    /\ tab' = [tab EXCEPT ![pipeInfos] = [i \in DOMAIN @ |->
                IF i \in DOMAIN PipesOf[arg[t]]
                THEN Filled(arg[t], gen[t])[i] ELSE @[i]]]
    /\ Return(t, "ok")
    /\ UNCHANGED <<device, pipeCount, pipeInfos, alloc, mutex, bugcheck>>

FillOutside(t) ==
    /\ pc[t] = "fill"
    /\ mutex = NULL
    /\ PipesOf[arg[t]] # <<>>
    /\ pipeInfos \in alloc =>
        ~ DOMAIN PipesOf[arg[t]] \subseteq DOMAIN tab[pipeInfos]
    /\ Bugcheck

-----------------------------------------------------------------------------
(* SendNonEP0CtlData, AbortPipe and ResetPipe                              *)

StartPipe(t, o, a) ==
    /\ present
    /\ pc[t] = "idle"
    /\ Goto(t, "scan")
    /\ op' = [op EXCEPT ![t] = o]
    /\ arg' = [arg EXCEPT ![t] = a]
    /\ ret' = [ret EXCEPT ![t] = "none"]
    /\ UNCHANGED <<device, table, idx, handle, gen, bugcheck>>

\* AbortPipe and ResetPipe succeed at once on a device without pipes.
NoPipes(t) ==
    /\ pc[t] = "scan"
    /\ idx[t] = 1
    /\ pipeCount = 0
    /\ Return(t, IF op[t] = "send" THEN "failed" ELSE "ok")
    /\ UNCHANGED <<device, table, bugcheck>>

BugScanDown(t) ==           \* the loop counts the wrong way
    /\ pc[t] = "scan"
    /\ idx[t] <= pipeCount
    /\ pipeInfos # NULL
    /\ LET e == Entry(idx[t]) IN
        \/ /\ (e # NULL => e.address = arg[t])
           /\ Goto(t, "found")
           /\ UNCHANGED request
        \/ /\ (e # NULL => e.address # arg[t])
           /\ idx' = [idx EXCEPT ![t] = @ - 1]
           /\ UNCHANGED <<pc, op, arg, handle, gen, ret>>
    /\ UNCHANGED <<device, table, bugcheck>>

\* One turn of the loop: pipeCount, pipeInfos and the entry are read anew, and
\* an entry that is garbage may or may not seem to be the one looked for.
Scan(t) ==
    /\ pc[t] = "scan"
    /\ idx[t] <= pipeCount
    /\ pipeInfos # NULL
    /\ LET e == Entry(idx[t]) IN
        \/ /\ (e # NULL => e.address = arg[t])
           /\ Goto(t, "found")
           /\ UNCHANGED request
        \/ /\ (e # NULL => e.address # arg[t])
           /\ idx' = [idx EXCEPT ![t] = @ + 1]
           /\ UNCHANGED <<pc, op, arg, handle, gen, ret>>
    /\ UNCHANGED <<device, table, bugcheck>>

NotFound(t) ==
    /\ pc[t] = "scan"
    /\ pipeCount > 0 \/ idx[t] > 1
    /\ idx[t] > pipeCount
    /\ Return(t, "failed")
    /\ UNCHANGED <<device, table, bugcheck>>

BugStaleHandle(t) ==        \* the handle of the entry before
    /\ pc[t] = "found"
    /\ pipeInfos # NULL
    /\ LET e == Entry(idx[t] - 1) IN
        handle' = [handle EXCEPT ![t] = IF e = NULL THEN NULL ELSE e.handle]
    /\ Goto(t, "bus")
    /\ UNCHANGED <<device, table, op, arg, idx, gen, ret, bugcheck>>

\* The entry's handle goes into a URB and the URB to the bus driver.  AbortPipe
\* does so only for a pipe it finds open, and succeeds otherwise.
UseEntry(t) ==
    /\ pc[t] = "found"
    /\ pipeInfos # NULL
    /\ LET e == Entry(idx[t]) IN
        \/ /\ (op[t] = "abort" /\ e # NULL => e.open)
           /\ handle' = [handle EXCEPT ![t] = IF e = NULL THEN NULL ELSE e.handle]
           /\ Goto(t, "bus")
           /\ UNCHANGED <<op, arg, idx, gen, ret>>
        \/ /\ op[t] = "abort"
           /\ (e # NULL => ~ e.open)
           /\ Return(t, "ok")
    /\ UNCHANGED <<device, table, bugcheck>>

\* There is no memory for the URB.
UrbFails(t) ==
    /\ AllocMayFail
    /\ pc[t] = "found"
    /\ Return(t, "failed")
    /\ UNCHANGED <<device, table, bugcheck>>

\* A transfer is accepted and stays outstanding (SubmitUrbAsync).
Transfer(t) ==
    /\ pc[t] = "bus" /\ op[t] = "send"
    /\ LiveHandle(handle[t])
    /\ xfers' = xfers \cup {handle[t]}
    /\ Return(t, "ok")
    /\ UNCHANGED <<present, devAlt, devGen, table, bugcheck>>

\* URB_FUNCTION_ABORT_PIPE ends the pipe's transfers, URB_FUNCTION_RESET_PIPE
\* clears its halt condition (SubmitUrbSync).
PipeRequest(t) ==
    /\ pc[t] = "bus" /\ op[t] \in {"abort", "reset"}
    /\ LiveHandle(handle[t])
    /\ xfers' = IF op[t] = "abort" THEN xfers \ {handle[t]} ELSE xfers
    /\ Goto(t, "mark")
    /\ UNCHANGED <<present, devAlt, devGen, table, request, bugcheck>>

BusFails(t) ==
    /\ pc[t] = "bus"
    /\ BusMayFail \/ ~ LiveHandle(handle[t])
    /\ Return(t, "failed")
    /\ UNCHANGED <<device, table, bugcheck>>

BugMarkFirst(t) ==          \* the loop index is not kept
    /\ pc[t] = "mark"
    /\ Entry(1) # NULL
    /\ tab' = [tab EXCEPT ![pipeInfos][1].open = (op[t] = "reset")]
    /\ Return(t, "ok")
    /\ UNCHANGED <<device, pipeCount, pipeInfos, alloc, mutex, bugcheck>>

\* open is set through the pointer and the index of before the wait.
Mark(t) ==
    /\ pc[t] = "mark"
    /\ pipeInfos \in alloc /\ idx[t] \in DOMAIN tab[pipeInfos]
    /\ tab' = IF Entry(idx[t]) = NULL THEN tab
              ELSE [tab EXCEPT ![pipeInfos][idx[t]].open = (op[t] = "reset")]
    /\ Return(t, "ok")
    /\ UNCHANGED <<device, pipeCount, pipeInfos, alloc, mutex, bugcheck>>

\* The table is read through a NULL pointer, or written outside an array.
TableFault(t) ==
    /\ \/ pc[t] = "scan" /\ idx[t] <= pipeCount /\ pipeInfos = NULL
       \/ pc[t] = "found" /\ pipeInfos = NULL
       \/ /\ pc[t] = "mark"
          /\ pipeInfos \in alloc => idx[t] \notin DOMAIN tab[pipeInfos]
    /\ Bugcheck

-----------------------------------------------------------------------------
(* The device and PnP                                                      *)

\* The device completes a transfer.
TransferDone(h) ==
    /\ h \in xfers
    /\ xfers' = xfers \ {h}
    /\ UNCHANGED <<present, devAlt, devGen, table, pc, request, bugcheck>>

\* PnpRemoveDevice, after the last handle was closed.
PnpRemoveDevice ==
    /\ present
    /\ \A t \in Threads : pc[t] = "idle"
    /\ FreeTable
    /\ present' = FALSE
    /\ xfers' = {}
    /\ devGen' = 0
    /\ UNCHANGED <<devAlt, pipeCount, pipeInfos, mutex, pc, request, bugcheck>>

\* A new device extension, zeroed by IoCreateDevice.
AddDevice ==
    /\ ~ present
    /\ present' = TRUE
    /\ pipeInfos' = NULL
    /\ pipeCount' = 0
    /\ UNCHANGED <<devAlt, devGen, xfers, alloc, tab, mutex, pc, request, bugcheck>>

-----------------------------------------------------------------------------
Selection(t) ==
    \/ SelectCompletes(t)
    \/ SelectFails(t)
    \/ Publish(t)
    \/ AllocAndUnlock(t)
    \/ TestArray(t)
    \/ Fill(t)
    \/ FillOutside(t)

PipeUse(t) ==
    \/ NoPipes(t)
    \/ Scan(t)
    \/ NotFound(t)
    \/ UseEntry(t)
    \/ UrbFails(t)
    \/ Transfer(t)
    \/ PipeRequest(t)
    \/ BusFails(t)
    \/ Mark(t)
    \/ TableFault(t)

Next ==
    /\ ~ bugcheck
    /\ \/ \E t \in Threads, a \in Alts : StartSelect(t, a)
       \/ \E t \in Threads, o \in {"send", "abort", "reset"}, a \in Addrs :
            StartPipe(t, o, a)
       \/ \E t \in Threads : Selection(t) \/ PipeUse(t)
       \/ \E h \in Handles : TransferDone(h)
       \/ PnpRemoveDevice
       \/ AddDevice

Spec == Init /\ [][Next]_vars

-----------------------------------------------------------------------------
(* Properties                                                              *)

\* No selection is between the device's switch and the end of Fill.
Settled == present /\ \A t \in Threads :
    pc[t] \notin {"publish", "alloc", "test", "fill"}

\* Outside the first critical section the array is as long as pipeCount says
\* and is allocated, whatever selections overlap: no reader that stays below
\* pipeCount leaves the array unless a selection comes in between.
CountMatchesArray ==
    present /\ mutex = NULL /\ pipeInfos # NULL =>
        pipeInfos \in alloc /\ DOMAIN tab[pipeInfos] = 1 .. pipeCount

\* The only allocated array is the one pipeInfos of a present device names.
NoLeak == alloc \subseteq (IF present THEN {pipeInfos} ELSE {})

\* With one request at a time, the table describes the setting the device is
\* in, address by address, with the handles of that selection.
TableMatchesDevice ==
    Settled /\ devGen > 0 =>
        /\ pipeCount = Len(PipesOf[devAlt])
        /\ \A i \in 1 .. pipeCount :
            /\ Entry(i) # NULL
            /\ Entry(i).address = PipesOf[devAlt][i]
            /\ LiveHandle(Entry(i).handle)

\* With one request at a time, a URB that reaches the bus driver names a live
\* handle of the endpoint the request asked for.
UrbNamesPipe ==
    \A t \in Threads : pc[t] = "bus" =>
        LiveHandle(handle[t]) /\ handle[t].address = arg[t]

\* The open flag of a pipe that stays is changed by a request for its address.
MarksOwn ==
    \A i \in 1 .. pipeCount :
        Entry(i) # NULL /\ Entry(i)' # NULL /\ Entry(i).handle = Entry(i)'.handle
        /\ Entry(i).open # Entry(i)'.open =>
            \E t \in Threads : pc[t] = "mark" /\ arg[t] = Entry(i).address

\* The open flag of a pipe changes only by an AbortPipe or ResetPipe for its
\* address: with one request at a time it follows the last of them.
MarksOwnPipe == [][MarksOwn]_vars

\* No access leaves the table.
NoBugcheck == ~ bugcheck

\* An AbortPipe that succeeds leaves no transfer outstanding on its pipe.
AbortsAll ==
    [][\A t \in Threads :
        op[t] = "abort" /\ pc[t] # "idle" /\ pc'[t] = "idle" /\ ret'[t] = "ok" =>
            \A h \in xfers' : h.address # arg[t]]_vars

-----------------------------------------------------------------------------
(* The inductive invariant of the proofs.                                  *)

\* Where a request works on a setting, where on an endpoint address.
ArgOK ==
    \A t \in Threads :
        /\ pc[t] \in {"select", "publish", "alloc", "test", "fill"} =>
            arg[t] \in Alts
        /\ pc[t] \in {"scan", "found", "bus", "mark"} => arg[t] \in Addrs

MutexHeld == \A t \in Threads : pc[t] = "alloc" => mutex = t

Replacing == \E t \in Threads : pc[t] = "alloc"

\* Between free and allocate there is no array at all, otherwise it is as long
\* as pipeCount says.
ArrayThere ==
    /\ Replacing => alloc = {}
    /\ present /\ ~ Replacing /\ pipeInfos # NULL =>
        pipeInfos \in alloc /\ DOMAIN tab[pipeInfos] = 1 .. pipeCount

AbsentIdle == ~ present => \A t \in Threads : pc[t] = "idle"

IInv ==
    /\ TypeOK
    /\ ArgOK
    /\ MutexHeld
    /\ ArrayThere
    /\ NoLeak
    /\ AbsentIdle

-----------------------------------------------------------------------------
(* The same for one request at a time, as long as there is memory.         *)

OneRequest == \E t \in Threads : Threads = {t}

\* The table describes the setting the device is in, pipe by pipe.
Describes ==
    /\ pipeCount = Len(PipesOf[devAlt])
    /\ \A i \in 1 .. pipeCount :
        /\ Entry(i) # NULL
        /\ Entry(i).address = PipesOf[devAlt][i]
        /\ Entry(i).handle = [address |-> PipesOf[devAlt][i], gen |-> devGen]

\* From the switch of the device to the end of Fill: t works for the setting
\* the device is in, and the new array is of the right length and empty.
SelectState(t) ==
    /\ pc[t] \in {"publish", "alloc", "test", "fill"} =>
        arg[t] = devAlt /\ gen[t] = devGen /\ devGen > 0
    /\ pc[t] \in {"alloc", "test", "fill"} => pipeCount = Len(PipesOf[devAlt])
    /\ pc[t] \in {"test", "fill"} =>
        pipeInfos # NULL /\ \A i \in 1 .. pipeCount : Entry(i) = NULL

\* From the match to the end of the request: the entry is that of the endpoint.
UseState(t) ==
    /\ pc[t] \in {"found", "bus", "mark"} =>
        /\ idx[t] \in 1 .. pipeCount
        /\ Entry(idx[t]) # NULL
        /\ Entry(idx[t]).address = arg[t]
    /\ pc[t] = "bus" => handle[t] = Entry(idx[t]).handle
    /\ idx[t] > 0

Serial ==
    /\ \A t \in Threads : SelectState(t) /\ UseState(t)
    /\ Settled => IF devGen = 0 THEN pipeCount = 0 ELSE Describes
    /\ ~ present => devGen = 0
    /\ ~ bugcheck
=============================================================================
