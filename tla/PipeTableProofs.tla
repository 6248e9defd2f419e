-------------------------- MODULE PipeTableProofs ---------------------------
(***************************************************************************)
(* The pipe table's array, for any number of threads, endpoints, settings, *)
(* blocks and selections, with every allocation and transfer allowed to    *)
(* fail: it always has pipeCount entries, and none is lost or freed twice. *)
(***************************************************************************)
EXTENDS PipeTable, SequenceTheorems, TLAPS

LEMMA InitInv == Init => IInv
<1> SUFFICES ASSUME Init PROVE IInv
  OBVIOUS
<1> USE PipeTableAssumption DEF Init
<1>1. TypeOK
  <2>1. tab \in [Blocks -> Seq(Entries \cup {NULL})]
    OBVIOUS
  <2>2. devGen \in Gens /\ gen \in [Threads -> Gens]
    BY DEF Gens
  <2> QED BY <2>1, <2>2 DEF TypeOK
<1>2. ArgOK /\ MutexHeld /\ AbsentIdle
  BY DEF ArgOK, MutexHeld, AbsentIdle
<1>3. ArrayThere /\ NoLeak
  BY DEF ArrayThere, Replacing, NoLeak
<1> QED BY <1>1, <1>2, <1>3 DEF IInv

LEMMA EntryType ==
  ASSUME TypeOK, NEW i
  PROVE  Entry(i) \in Entries \cup {NULL}
<1>1. CASE pipeInfos \in alloc /\ i \in DOMAIN tab[pipeInfos]
  <2>1. tab[pipeInfos] \in Seq(Entries \cup {NULL})
    BY <1>1 DEF TypeOK
  <2>2. tab[pipeInfos] \in [1 .. Len(tab[pipeInfos]) -> Entries \cup {NULL}]
    BY <2>1, LenProperties
  <2> QED BY <1>1, <2>2 DEF Entry
<1>2. CASE ~ (pipeInfos \in alloc /\ i \in DOMAIN tab[pipeInfos])
  BY <1>2 DEF Entry
<1> QED BY <1>1, <1>2

LEMMA SeqOfLength ==
  ASSUME NEW S, NEW n \in Nat, NEW f \in [1 .. n -> S]
  PROVE  f \in Seq(S)
  OBVIOUS

\* Type correctness of the fields every request has.
LEMMA ReturnType ==
  ASSUME TypeOK, NEW t \in Threads, NEW r \in {"ok", "failed"}, Return(t, r)
  PROVE  /\ pc' \in [Threads -> {"idle", "select", "publish", "alloc", "test",
                                 "fill", "scan", "found", "bus", "mark"}]
         /\ op' \in [Threads -> {"none", "select", "send", "abort", "reset"}]
         /\ arg' \in [Threads -> Alts \cup Addrs \cup {NULL}]
         /\ idx' \in [Threads -> Nat]
         /\ handle' \in [Threads -> Handles \cup {NULL}]
         /\ gen' \in [Threads -> Gens]
         /\ ret' \in [Threads -> {"none", "ok", "failed"}]
  BY PipeTableAssumption DEF TypeOK, Return, Goto, Gens

\* A request that returns keeps the types if the rest does.
LEMMA ReturnTypeOK ==
  ASSUME TypeOK, NEW t \in Threads, NEW r \in {"ok", "failed"}, Return(t, r),
         UNCHANGED <<present, devAlt, devGen, pipeCount, pipeInfos, alloc, mutex, bugcheck>>,
         xfers' \in SUBSET Handles,
         tab' \in [Blocks -> Seq(Entries \cup {NULL})]
  PROVE  TypeOK'
<1>1. Handles' = Handles /\ Entries' = Entries /\ Gens' = Gens
  BY DEF Handles, Entries, Gens
<1> QED BY <1>1, ReturnType DEF TypeOK

\* A request moves on and leaves the array where and as long as it is.
LEMMA QuietStep ==
  ASSUME IInv, TypeOK', NEW t \in Threads, NEW l,
         Goto(t, l), pc[t] # "alloc", l # "alloc", present,
         ArgOK',
         UNCHANGED <<present, pipeCount, pipeInfos, alloc, mutex>>,
         pipeInfos \in alloc => DOMAIN tab'[pipeInfos] = DOMAIN tab[pipeInfos]
  PROVE  IInv'
<1>1. MutexHeld'
  BY DEF IInv, TypeOK, MutexHeld, Goto
<1>0. Replacing' <=> Replacing
  BY DEF IInv, TypeOK, Replacing, Goto
<1>2. ArrayThere' /\ NoLeak'
  BY <1>0 DEF IInv, ArrayThere, NoLeak
<1>3. AbsentIdle'
  BY DEF AbsentIdle
<1> QED BY <1>1, <1>2, <1>3 DEF IInv

\* ... in particular when it returns.
LEMMA ReturnStep ==
  ASSUME IInv, TypeOK', NEW t \in Threads, NEW r,
         Return(t, r), pc[t] # "alloc", present,
         UNCHANGED <<present, pipeCount, pipeInfos, alloc, mutex>>,
         pipeInfos \in alloc => DOMAIN tab'[pipeInfos] = DOMAIN tab[pipeInfos]
  PROVE  IInv'
<1>1. Goto(t, "idle") /\ arg' = [arg EXCEPT ![t] = NULL]
  BY DEF Return
<1>2. ArgOK'
  BY <1>1 DEF IInv, TypeOK, ArgOK, Goto
<1> QED BY <1>1, <1>2, QuietStep

\* A request ends without a change of the device or the table.
LEMMA ReturnKeeps ==
  ASSUME IInv, NEW t \in Threads, NEW r \in {"ok", "failed"}, Return(t, r),
         pc[t] \notin {"idle", "alloc"}, UNCHANGED <<device, table, bugcheck>>
  PROVE  IInv'
<1>1. TypeOK /\ present
  BY DEF IInv, AbsentIdle
<1>2. TypeOK'
  <2>1. tab' \in [Blocks -> Seq(Entries \cup {NULL})] /\ xfers' \in SUBSET Handles
    BY <1>1 DEF TypeOK, table, device
  <2> QED BY <1>1, <2>1, ReturnTypeOK DEF table, device
<1> QED BY <1>1, <1>2, ReturnStep DEF table, device

\* Every step of a request, of the device, of its removal and of its arrival
\* keeps the inductive invariant.
LEMMA StepInv == IInv /\ [Next]_vars => IInv'
<1> SUFFICES ASSUME IInv, [Next]_vars PROVE IInv'
  OBVIOUS
<1> USE PipeTableAssumption
<1>0. TypeOK /\ ArgOK /\ MutexHeld /\ ArrayThere /\ NoLeak /\ AbsentIdle
  BY DEF IInv
<1>1. ASSUME NEW t \in Threads, NEW a \in Alts, StartSelect(t, a) PROVE IInv'
  <2> USE <1>0, <1>1 DEF StartSelect, device, table
  <2>1. TypeOK'
    BY DEF TypeOK, Goto, Handles, Entries
  <2>2. ArgOK'
    BY DEF TypeOK, ArgOK, Goto
  <2> QED BY <2>1, <2>2, QuietStep
<1>2. ASSUME NEW t \in Threads, NEW o \in {"send", "abort", "reset"},
             NEW a \in Addrs, StartPipe(t, o, a)
      PROVE  IInv'
  <2> USE <1>0, <1>2 DEF StartPipe, device, table
  <2>1. TypeOK'
    BY DEF TypeOK, Goto, Handles, Entries
  <2>2. ArgOK'
    BY DEF TypeOK, ArgOK, Goto
  <2> QED BY <2>1, <2>2, QuietStep
<1>3. ASSUME NEW t \in Threads, SelectCompletes(t) PROVE IInv'
  <2> USE <1>0, <1>3 DEF SelectCompletes, table
  <2>1. TypeOK'
    <3>1. arg[t] \in Alts /\ devGen + 1 \in Gens
      BY DEF TypeOK, ArgOK, Gens
    <3> QED BY <3>1 DEF TypeOK, Goto, Handles, Entries
  <2>2. ArgOK'
    BY DEF TypeOK, ArgOK, Goto
  <2>3. present
    BY DEF AbsentIdle
  <2> QED BY <2>1, <2>2, <2>3, QuietStep
<1>4. ASSUME NEW t \in Threads, Publish(t) PROVE IInv'
  <2> USE <1>0, <1>4 DEF Publish, FreeTable, device, request
  <2>0. present
    BY DEF AbsentIdle
  <2>1. TypeOK'
    <3>1. Len(PipesOf[arg[t]]) \in Nat
      BY LenProperties DEF ArgOK
    <3>2. tab' \in [Blocks -> Seq(Entries \cup {NULL})]
      BY EmptySeq DEF TypeOK
    <3> QED BY <3>1, <3>2 DEF TypeOK, Goto, Handles, Entries
  <2>2. ArgOK' /\ MutexHeld'
    BY DEF TypeOK, ArgOK, MutexHeld, Goto
  <2>4. ~ Replacing /\ Replacing'
    BY DEF TypeOK, MutexHeld, Replacing, Goto
  <2>3. ArrayThere' /\ NoLeak' /\ AbsentIdle'
    BY <2>0, <2>4 DEF ArrayThere, NoLeak, AbsentIdle
  <2> QED BY <2>1, <2>2, <2>3 DEF IInv
<1>5. ASSUME NEW t \in Threads, AllocAndUnlock(t) PROVE IInv'
  <2> USE <1>0, <1>5 DEF AllocAndUnlock, device, request
  <2>0. present /\ mutex = t /\ alloc = {}
    BY DEF AbsentIdle, MutexHeld, ArrayThere, Replacing
  <2>1. ArgOK' /\ MutexHeld' /\ ~ Replacing'
    BY <2>0 DEF TypeOK, ArgOK, MutexHeld, Replacing, Goto
  <2>2. CASE \E b \in Blocks \ alloc :
                /\ pipeInfos' = b
                /\ alloc' = alloc \cup {b}
                /\ tab' = [tab EXCEPT ![b] = [i \in 1 .. pipeCount |-> NULL]]
    <3>1. PICK b \in Blocks :
                /\ pipeInfos' = b
                /\ alloc' = {b}
                /\ tab' = [tab EXCEPT ![b] = [i \in 1 .. pipeCount |-> NULL]]
      BY <2>0, <2>2
    <3>2. [i \in 1 .. pipeCount |-> NULL] \in Seq(Entries \cup {NULL})
      BY DEF TypeOK
    <3>3. TypeOK'
      BY <3>1, <3>2 DEF TypeOK, Goto, Handles, Entries
    <3>4. ArrayThere' /\ NoLeak' /\ AbsentIdle'
      BY <2>0, <2>1, <3>1 DEF TypeOK, ArrayThere, NoLeak, AbsentIdle
    <3> QED BY <2>1, <3>3, <3>4 DEF IInv
  <2>3. CASE pipeInfos' = NULL /\ UNCHANGED <<alloc, tab>>
    <3>1. TypeOK'
      BY <2>3 DEF TypeOK, Goto, Handles, Entries
    <3>2. ArrayThere' /\ NoLeak' /\ AbsentIdle'
      BY <2>0, <2>1, <2>3 DEF ArrayThere, NoLeak, AbsentIdle
    <3> QED BY <2>1, <3>1, <3>2 DEF IInv
  <2> QED BY <2>2, <2>3
<1>6. ASSUME NEW t \in Threads, TestArray(t), pipeInfos # NULL PROVE IInv'
  <2> USE <1>0, <1>6 DEF TestArray, device, table, request
  <2>1. TypeOK'
    BY DEF TypeOK, Goto, Handles, Entries
  <2>2. ArgOK' /\ present
    BY DEF TypeOK, ArgOK, AbsentIdle, Goto
  <2> QED BY <2>1, <2>2, QuietStep
<1>7. ASSUME NEW t \in Threads, Fill(t) PROVE IInv'
  <2> USE <1>0, <1>7 DEF Fill, device
  <2> DEFINE old == tab[pipeInfos]
             a == arg[t]
             new == [i \in DOMAIN old |->
                        IF i \in DOMAIN PipesOf[a] THEN Filled(a, gen[t])[i] ELSE old[i]]
  <2>1. a \in Alts /\ present
    BY DEF ArgOK, AbsentIdle
  <2>2. \A i \in DOMAIN PipesOf[a] : Filled(a, gen[t])[i] \in Entries
    <3>1. PipesOf[a] \in [1 .. Len(PipesOf[a]) -> Addrs] /\ gen[t] \in Gens
      BY <2>1, LenProperties DEF TypeOK
    <3> QED BY <3>1 DEF Filled, Entries, Handles
  <2>3. new \in Seq(Entries \cup {NULL}) /\ DOMAIN new = DOMAIN old
    <3>1. old \in Seq(Entries \cup {NULL})
      BY DEF TypeOK
    <3>2. /\ old \in [1 .. Len(old) -> Entries \cup {NULL}]
          /\ Len(old) \in Nat
      BY <3>1, LenProperties
    <3>3. \A i \in 1 .. Len(old) : new[i] \in Entries \cup {NULL}
      BY <2>2, <3>2
    <3>4. new \in [1 .. Len(old) -> Entries \cup {NULL}]
      BY <3>2, <3>3
    <3> HIDE DEF old, new
    <3> QED BY <3>2, <3>4, SeqOfLength
  <2>4. tab' = [tab EXCEPT ![pipeInfos] = new]
    OBVIOUS
  <2> HIDE DEF new, old
  <2>5. TypeOK'
    <3>1. xfers' \in SUBSET Handles /\ pipeInfos \in Blocks
      BY DEF TypeOK
    <3>2. tab \in [Blocks -> Seq(Entries \cup {NULL})]
      BY DEF TypeOK
    <3>3. tab' \in [Blocks -> Seq(Entries \cup {NULL})]
      <4> HIDE DEF Fill
      <4> QED BY <2>3, <2>4, <3>1, <3>2
    <3> QED BY <3>1, <3>3, ReturnTypeOK
  <2>6. DOMAIN tab'[pipeInfos] = DOMAIN tab[pipeInfos]
    BY <2>3, <2>4 DEF TypeOK, old
  <2> QED BY <2>1, <2>5, <2>6, ReturnStep
<1>8. ASSUME NEW t \in Threads, Scan(t) PROVE IInv'
  <2> USE <1>0, <1>8 DEF device, table, request
  <2>0. /\ pc[t] = "scan"
        /\ UNCHANGED <<device, table, bugcheck, op, arg, handle, gen, ret>>
        /\ \/ Goto(t, "found") /\ UNCHANGED idx
           \/ idx' = [idx EXCEPT ![t] = @ + 1] /\ UNCHANGED pc
    BY DEF Scan
  <2> HIDE <1>8
  <2> USE <2>0
  <2>1. TypeOK'
    <3>1. /\ pc' \in [Threads -> {"idle", "select", "publish", "alloc", "test",
                                  "fill", "scan", "found", "bus", "mark"}]
          /\ idx' \in [Threads -> Nat]
      <4>1. /\ pc \in [Threads -> {"idle", "select", "publish", "alloc", "test",
                                   "fill", "scan", "found", "bus", "mark"}]
            /\ idx \in [Threads -> Nat]
        BY DEF TypeOK
      <4>2. CASE Goto(t, "found") /\ UNCHANGED idx
        BY <4>1, <4>2 DEF Goto
      <4>3. CASE idx' = [idx EXCEPT ![t] = @ + 1] /\ UNCHANGED pc
        BY <4>1, <4>3
      <4> QED BY <2>0, <4>2, <4>3
    <3> QED BY <3>1 DEF TypeOK, Handles, Entries
  <2>2. PICK l \in {"scan", "found"} : Goto(t, l)
    BY DEF TypeOK, Goto
  <2>3. ArgOK' /\ present
    BY <2>2 DEF TypeOK, ArgOK, AbsentIdle, Goto
  <2> QED BY <2>1, <2>2, <2>3, QuietStep
<1>9. ASSUME NEW t \in Threads, UseEntry(t), Goto(t, "bus") PROVE IInv'
  <2> USE <1>0, <1>9 DEF device, table
  <2>1. /\ handle' = [handle EXCEPT ![t] =
                        IF Entry(idx[t]) = NULL THEN NULL ELSE Entry(idx[t]).handle]
        /\ UNCHANGED <<op, arg, idx, gen, ret, device, table, bugcheck>>
    BY DEF UseEntry, Return, Goto, TypeOK
  <2>2. handle'[t] \in Handles \cup {NULL}
    BY <2>1, EntryType DEF Entries, TypeOK
  <2>3. TypeOK'
    BY <2>1, <2>2 DEF TypeOK, Goto, Handles, Entries
  <2>4. ArgOK' /\ present /\ pc[t] = "found"
    BY <2>1 DEF UseEntry, TypeOK, ArgOK, AbsentIdle, Goto
  <2> QED BY <2>1, <2>3, <2>4, QuietStep
<1>10. ASSUME NEW t \in Threads, PipeRequest(t) PROVE IInv'
  <2> USE <1>0, <1>10 DEF PipeRequest, table, request
  <2>1. TypeOK'
    BY DEF TypeOK, Goto, Handles, Entries
  <2>2. ArgOK' /\ present
    BY DEF TypeOK, ArgOK, AbsentIdle, Goto
  <2> QED BY <2>1, <2>2, QuietStep
<1>11. ASSUME NEW t \in Threads, Transfer(t) PROVE IInv'
  <2> USE <1>0, <1>11 DEF Transfer, table
  <2>1. TypeOK'
    <3>1. xfers' \in SUBSET Handles
      BY DEF TypeOK, LiveHandle
    <3> QED BY <3>1, ReturnTypeOK DEF TypeOK
  <2>2. present
    BY DEF AbsentIdle
  <2> QED BY <2>1, <2>2, ReturnStep
<1>12. ASSUME NEW t \in Threads, Mark(t) PROVE IInv'
  <2> USE <1>0, <1>12 DEF Mark, device
  <2>1. present /\ pipeInfos \in Blocks
    BY DEF AbsentIdle, TypeOK
  <2>2. /\ tab' \in [Blocks -> Seq(Entries \cup {NULL})]
        /\ DOMAIN tab'[pipeInfos] = DOMAIN tab[pipeInfos]
    <3>1. CASE Entry(idx[t]) = NULL
      BY <3>1 DEF TypeOK
    <3>2. CASE Entry(idx[t]) # NULL
      <4> DEFINE old == tab[pipeInfos]
                 i == idx[t]
                 new == [old EXCEPT ![i].open = (op[t] = "reset")]
      <4>1. old \in Seq(Entries \cup {NULL}) /\ i \in DOMAIN old /\ old[i] \in Entries
        BY <2>1, <3>2, EntryType DEF TypeOK, Entry
      <4>2. old[i] # NULL => [old[i] EXCEPT !.open = (op[t] = "reset")] \in Entries
        BY <4>1 DEF Entries
      <4>3. new \in Seq(Entries \cup {NULL}) /\ DOMAIN new = DOMAIN old
        BY <3>2, <4>1, <4>2 DEF Entry
      <4>4. tab' = [tab EXCEPT ![pipeInfos] = new]
        BY <3>2
      <4>5. tab \in [Blocks -> Seq(Entries \cup {NULL})]
        BY DEF TypeOK
      <4> HIDE DEF new, Mark
      <4> QED BY <2>1, <4>3, <4>4, <4>5
    <3> QED BY <3>1, <3>2
  <2>3. TypeOK'
    BY <2>2, ReturnTypeOK DEF TypeOK
  <2> QED BY <2>1, <2>2, <2>3, ReturnStep
<1>13. ASSUME NEW t \in Threads, NEW r \in {"ok", "failed"}, Return(t, r),
              pc[t] \notin {"idle", "alloc"},
              UNCHANGED <<device, table, bugcheck>>
       PROVE  IInv'
  BY <1>13, ReturnKeeps
<1>14. CASE Bugcheck
  BY <1>0, <1>14
  DEF Bugcheck, device, table, request, IInv, TypeOK, ArgOK, MutexHeld,
      ArrayThere, Replacing, NoLeak, AbsentIdle
<1>15. ASSUME NEW h \in Handles, TransferDone(h) PROVE IInv'
  <2> USE <1>0, <1>15 DEF TransferDone, table, request
  <2>1. TypeOK'
    BY DEF TypeOK, Handles, Entries
  <2> QED BY <2>1 DEF IInv, ArgOK, MutexHeld, ArrayThere, Replacing,
                      NoLeak, AbsentIdle
<1>16. CASE PnpRemoveDevice
  <2> USE <1>0, <1>16 DEF PnpRemoveDevice, FreeTable, request
  <2>1. TypeOK'
    <3>1. tab' \in [Blocks -> Seq(Entries \cup {NULL})] /\ 0 \in Gens
      BY EmptySeq DEF TypeOK, Gens
    <3> QED BY <3>1 DEF TypeOK, Handles, Entries
  <2> QED BY <2>1 DEF IInv, ArgOK, MutexHeld, ArrayThere, Replacing,
                      NoLeak, AbsentIdle
<1>17. CASE AddDevice
  <2> USE <1>0, <1>17 DEF AddDevice, request
  <2>1. TypeOK'
    BY DEF TypeOK, Handles, Entries
  <2> QED BY <2>1 DEF IInv, ArgOK, MutexHeld, ArrayThere, Replacing,
                      NoLeak, AbsentIdle
<1>18. CASE UNCHANGED vars
  <2> USE <1>0, <1>18 DEF vars
  <2>1. TypeOK'
    BY DEF TypeOK, Handles, Entries
  <2> QED BY <2>1 DEF IInv, ArgOK, MutexHeld, ArrayThere, Replacing,
                      NoLeak, AbsentIdle
<1>19. ASSUME NEW t \in Threads, Selection(t) PROVE IInv'
  <2>1. CASE SelectFails(t)
    BY <1>13, <2>1 DEF SelectFails
  <2>2. CASE TestArray(t)
    BY <1>6, <1>13, <2>2 DEF TestArray
  <2>3. CASE FillOutside(t)
    BY <1>14, <2>3 DEF FillOutside
  <2> QED BY <1>3, <1>4, <1>5, <1>7, <1>19, <2>1, <2>2, <2>3 DEF Selection
<1>20. ASSUME NEW t \in Threads, PipeUse(t) PROVE IInv'
  <2>1. CASE NoPipes(t) \/ NotFound(t) \/ UrbFails(t) \/ BusFails(t)
    BY <1>13, <2>1 DEF NoPipes, NotFound, UrbFails, BusFails
  <2>2. CASE UseEntry(t)
    BY <1>9, <1>13, <2>2 DEF UseEntry
  <2>3. CASE TableFault(t)
    BY <1>14, <2>3 DEF TableFault
  <2> QED BY <1>8, <1>10, <1>11, <1>12, <1>20, <2>1, <2>2, <2>3 DEF PipeUse
<1> QED BY <1>1, <1>2, <1>15, <1>16, <1>17, <1>18, <1>19, <1>20 DEF Next

\* The inductive invariant holds in every reachable state.
THEOREM Inductive == Spec => []IInv
  BY InitInv, StepInv, PTL DEF Spec

\* Every variable keeps its type.
THEOREM Typing == Spec => []TypeOK
  BY Inductive, PTL DEF IInv

\* For any number of overlapping requests, the array has pipeCount entries
\* and is allocated whenever nobody is replacing it.
THEOREM ArrayAsLongAsCount == Spec => []CountMatchesArray
<1>1. IInv => CountMatchesArray
  BY PipeTableAssumption
  DEF IInv, MutexHeld, Replacing, ArrayThere, CountMatchesArray
<1> QED BY <1>1, Inductive, PTL

\* For any number of overlapping requests, no array is lost.
THEOREM ArrayAccounted == Spec => []NoLeak
  BY Inductive, PTL DEF IInv

-----------------------------------------------------------------------------
(* Where the table is one component of several.                            *)

\* What others do with the mutex does not concern the table.
LEMMA MutexStep ==
  ASSUME IInv,
         UNCHANGED <<device, pipeCount, pipeInfos, alloc, tab, pc, request, bugcheck>>,
         mutex' \in Threads \cup {NULL}, MutexHeld'
  PROVE  IInv'
<1> USE DEF device, request
<1>1. TypeOK'
  BY DEF IInv, TypeOK, Handles, Entries
<1> QED BY <1>1 DEF IInv, ArgOK, ArrayThere, Replacing, NoLeak, AbsentIdle

-----------------------------------------------------------------------------
(* One request at a time, with memory.                                     *)

LEMMA SerialOne ==
  ASSUME NEW t, Threads = {t}
  PROVE  Serial <=> /\ SelectState(t) /\ UseState(t)
                    /\ present /\ pc[t] \notin {"publish", "alloc", "test", "fill"} =>
                        IF devGen = 0 THEN pipeCount = 0 ELSE Describes
                    /\ ~ present => devGen = 0
                    /\ ~ bugcheck
  BY DEF Serial, Settled

LEMMA SerialOneNext ==
  ASSUME NEW t, Threads = {t}
  PROVE  Serial' <=> /\ SelectState(t)' /\ UseState(t)'
                     /\ present' /\ pc'[t] \notin {"publish", "alloc", "test", "fill"} =>
                        IF devGen' = 0 THEN pipeCount' = 0 ELSE Describes'
                     /\ ~ present' => devGen' = 0
                     /\ ~ bugcheck'
  BY DEF Serial, Settled

LEMMA SerialInit == Init => Serial
  BY PipeTableAssumption DEF Init, Serial, SelectState, UseState, Settled

\* A request ends, and the table stays as it is.
LEMMA SerialReturn ==
  ASSUME OneRequest, IInv, Serial, NEW t \in Threads, NEW r, Return(t, r),
         pc[t] \notin {"publish", "alloc", "test", "fill"},
         UNCHANGED <<present, devAlt, devGen, pipeCount, pipeInfos, alloc, tab, bugcheck>>
  PROVE  Serial'
<1>1. Threads = {t}
  BY DEF OneRequest
<1>2. TypeOK
  BY DEF IInv
<1>3. \A i : Entry(i)' = Entry(i)
  BY DEF Entry
<1>4. Describes' <=> Describes
  BY <1>3 DEF Describes
<1>5. SelectState(t)' /\ UseState(t)'
  BY <1>2 DEF Return, Goto, TypeOK, SelectState, UseState
<1> QED BY <1>1, <1>2, <1>4, <1>5, SerialOne, SerialOneNext DEF Return, Goto, TypeOK, AbsentIdle, IInv

\* The table stays as it is, and so does the device.
LEMMA SerialQuiet ==
  ASSUME OneRequest, Serial, NEW t \in Threads, SelectState(t)', UseState(t)',
         \/ pc[t] \notin {"publish", "alloc", "test", "fill"}
         \/ pc'[t] \in {"publish", "alloc", "test", "fill"},
         UNCHANGED <<present, devAlt, devGen, pipeCount, pipeInfos, alloc, tab, bugcheck>>
  PROVE  Serial'
<1>1. Threads = {t}
  BY DEF OneRequest
<1>2. \A i : Entry(i)' = Entry(i)
  BY DEF Entry
<1>3. Describes' <=> Describes
  BY <1>2 DEF Describes
<1> QED BY <1>1, <1>3, SerialOne, SerialOneNext

\* Every step keeps what the one request knows of the table and the device.
LEMMA SerialStep ==
  ASSUME OneRequest, ~ AllocMayFail, IInv, Serial, [Next]_vars
  PROVE  Serial'
<1>1. PICK t \in Threads : Threads = {t}
  BY DEF OneRequest
<1>2. /\ SelectState(t) /\ UseState(t)
      /\ present /\ pc[t] \notin {"publish", "alloc", "test", "fill"} =>
            IF devGen = 0 THEN pipeCount = 0 ELSE Describes
      /\ ~ present => devGen = 0
      /\ ~ bugcheck
  BY <1>1, SerialOne
<1>3. TypeOK /\ ArgOK /\ ArrayThere /\ NoLeak /\ AbsentIdle
  BY DEF IInv
<1>4. Replacing <=> pc[t] = "alloc"
  BY <1>1 DEF Replacing
<1>5. (\A i : Entry(i)' = Entry(i)) \/ ~ UNCHANGED <<pipeInfos, alloc, tab>>
  BY DEF Entry
<1> USE PipeTableAssumption
<1>6. ASSUME NEW a \in Alts, StartSelect(t, a) PROVE Serial'
  <2>1. SelectState(t)' /\ UseState(t)'
    BY <1>2, <1>3, <1>6
    DEF StartSelect, device, table, Goto, TypeOK, SelectState, UseState
  <2> QED BY <1>2, <1>6, <2>1, SerialQuiet DEF StartSelect, device, table
<1>7. ASSUME NEW o \in {"send", "abort", "reset"}, NEW a \in Addrs, StartPipe(t, o, a)
      PROVE  Serial'
  <2>1. SelectState(t)' /\ UseState(t)'
    BY <1>2, <1>3, <1>7
    DEF StartPipe, device, table, Goto, TypeOK, SelectState, UseState
  <2> QED BY <1>2, <1>7, <2>1, SerialQuiet DEF StartPipe, device, table
<1>8. CASE SelectCompletes(t)
  <2> USE <1>2, <1>3, <1>8 DEF SelectCompletes, table, Goto, TypeOK
  <2>1. SelectState(t)' /\ UseState(t)'
    BY DEF SelectState, UseState, Gens
  <2>2. present' /\ pc'[t] = "publish" /\ ~ bugcheck'
    BY DEF AbsentIdle
  <2> QED BY <1>1, <2>1, <2>2, SerialOneNext
<1>9. CASE Publish(t)
  <2> USE <1>2, <1>3, <1>9 DEF Publish, device, request, Goto, TypeOK
  <2>1. SelectState(t)' /\ UseState(t)'
    BY DEF SelectState, UseState
  <2>2. present' /\ pc'[t] = "alloc" /\ ~ bugcheck'
    BY DEF AbsentIdle
  <2> QED BY <1>1, <2>1, <2>2, SerialOneNext
<1>10. CASE AllocAndUnlock(t)
  <2> USE <1>2, <1>3, <1>10 DEF AllocAndUnlock, device, request, Goto
  <2>1. PICK b \in Blocks :
            /\ pipeInfos' = b
            /\ alloc' = alloc \cup {b}
            /\ tab' = [tab EXCEPT ![b] = [i \in 1 .. pipeCount |-> NULL]]
    OBVIOUS
  <2>2. tab'[b] = [i \in 1 .. pipeCount |-> NULL]
    BY <2>1 DEF TypeOK
  <2>3. \A i : Entry(i)' = NULL
    BY <2>1, <2>2 DEF Entry
  <2>4. SelectState(t)' /\ UseState(t)'
    BY <2>1, <2>3 DEF TypeOK, SelectState, UseState
  <2>5. present' /\ pc'[t] = "test" /\ ~ bugcheck'
    BY DEF AbsentIdle, TypeOK
  <2> QED BY <1>1, <2>4, <2>5, SerialOneNext
<1>11. CASE TestArray(t)
  <2>1. Goto(t, "fill") /\ UNCHANGED request /\ pc[t] = "test"
    BY <1>2, <1>11 DEF TestArray, SelectState
  <2>2. SelectState(t)' /\ UseState(t)'
    BY <1>2, <1>3, <1>5, <1>11, <2>1
    DEF TestArray, device, table, request, Goto, TypeOK, SelectState, UseState
  <2>3. pc'[t] = "fill"
    BY <1>3, <2>1 DEF Goto, TypeOK
  <2> QED BY <1>11, <2>2, <2>3, SerialQuiet DEF TestArray, device, table
<1>12. CASE Fill(t)
  <2> DEFINE a == arg[t]
  <2>1. /\ a = devAlt /\ gen[t] = devGen /\ devGen > 0 /\ pc[t] = "fill"
        /\ pipeCount = Len(PipesOf[devAlt]) /\ pipeInfos \in Blocks /\ a \in Alts
    BY <1>2, <1>3, <1>12 DEF Fill, SelectState, TypeOK, ArgOK
  <2>2. DOMAIN PipesOf[a] = 1 .. pipeCount
    BY <2>1, LenProperties
  <2>3. DOMAIN tab[pipeInfos] = 1 .. pipeCount
    BY <1>2, <1>3, <1>4, <1>12, <2>1 DEF Fill, ArrayThere, SelectState, AbsentIdle
  <2>4. tab'[pipeInfos] = [i \in 1 .. pipeCount |-> Filled(a, devGen)[i]]
    BY <1>3, <1>12, <2>1, <2>2, <2>3 DEF Fill, TypeOK
  <2>5. \A i \in 1 .. pipeCount : Entry(i)' = Filled(a, devGen)[i]
    BY <1>12, <2>4 DEF Fill, Entry
  <2>6. \A i \in 1 .. pipeCount : Entry(i)' =
            [address |-> PipesOf[a][i],
             handle |-> [address |-> PipesOf[a][i], gen |-> devGen], open |-> TRUE]
    BY <2>2, <2>5 DEF Filled
  <2>7. UNCHANGED <<present, devAlt, devGen, pipeCount, bugcheck>>
    BY <1>12 DEF Fill, device
  <2>8. Describes'
    <3>1. ASSUME NEW i \in 1 .. pipeCount
          PROVE  /\ Entry(i)' # NULL
                 /\ Entry(i)'.address = PipesOf[devAlt][i]
                 /\ Entry(i)'.handle = [address |-> PipesOf[devAlt][i], gen |-> devGen]
      <4>1. Entry(i)' \in Entries
        <5>1. PipesOf[a][i] \in Addrs
          BY <2>1, <2>2, LenProperties
        <5>2. [address |-> PipesOf[a][i], gen |-> devGen] \in Handles
          BY <1>3, <5>1 DEF Handles, TypeOK
        <5>3. [address |-> PipesOf[a][i],
               handle |-> [address |-> PipesOf[a][i], gen |-> devGen],
               open |-> TRUE] \in Entries
          BY <5>1, <5>2 DEF Entries
        <5> QED BY <2>6, <5>3
      <4> QED BY <2>1, <2>6, <4>1, EntryAssumption
    <3> QED BY <2>1, <2>7, <3>1 DEF Describes
  <2>9. SelectState(t)' /\ UseState(t)' /\ pc'[t] = "idle"
    BY <1>3, <1>12 DEF Fill, Return, Goto, TypeOK, SelectState, UseState
  <2> QED BY <1>1, <1>2, <2>1, <2>7, <2>8, <2>9, SerialOneNext
<1>13. CASE SelectFails(t) \/ NoPipes(t) \/ NotFound(t) \/ UrbFails(t) \/ BusFails(t)
            \/ Transfer(t)
  <2>1. PICK r : Return(t, r)
    BY <1>13 DEF SelectFails, NoPipes, NotFound, UrbFails, BusFails, Transfer
  <2> QED BY <1>13, <2>1, SerialReturn
          DEF SelectFails, NoPipes, NotFound, UrbFails, BusFails, Transfer, device, table
<1>14. ASSUME pc[t] \in {"scan", "found", "bus", "mark"}, NEW i \in 1 .. pipeCount
       PROVE  /\ Entry(i) # NULL /\ pipeInfos \in alloc
              /\ i \in DOMAIN tab[pipeInfos] /\ Entry(i) = tab[pipeInfos][i]
  <2>1. present /\ devGen # 0
    BY <1>2, <1>3, <1>14 DEF AbsentIdle
  <2>2. Entry(i) # NULL
    BY <1>2, <1>14, <2>1 DEF Describes
  <2> QED BY <2>2 DEF Entry
<1>15. CASE Scan(t)
  <2>1. pc[t] = "scan" /\ idx[t] \in 1 .. pipeCount
    BY <1>2, <1>3, <1>15 DEF Scan, UseState, TypeOK
  <2>2. Entry(idx[t]) # NULL
    BY <1>14, <2>1
  <2>3. \/ Entry(idx[t]).address = arg[t] /\ Goto(t, "found") /\ UNCHANGED request
        \/ idx' = [idx EXCEPT ![t] = @ + 1] /\ UNCHANGED <<pc, op, arg, handle, gen, ret>>
    BY <1>15, <2>2 DEF Scan
  <2>4. /\ UNCHANGED <<present, devAlt, devGen, pipeCount, pipeInfos, alloc, tab, bugcheck>>
        /\ \A i : Entry(i)' = Entry(i)
    BY <1>15 DEF Scan, device, table, Entry
  <2>5. SelectState(t)'
    BY <1>3, <2>1, <2>3, <2>4 DEF Goto, TypeOK, SelectState, request
  <2>6. UseState(t)'
    BY <1>2, <1>3, <2>1, <2>2, <2>3, <2>4 DEF Goto, TypeOK, UseState, request
  <2> QED BY <2>1, <2>4, <2>5, <2>6, SerialQuiet
<1>16. CASE UseEntry(t)
  <2>1. CASE \E r : Return(t, r)
    <3>1. /\ UNCHANGED <<present, devAlt, devGen, pipeCount, pipeInfos, alloc, tab, bugcheck>>
          /\ pc[t] = "found"
      BY <1>16 DEF UseEntry, device, table
    <3> QED BY <2>1, <3>1, SerialReturn
  <2>2. CASE Goto(t, "bus")
    <3>1. /\ pc[t] = "found" /\ pc'[t] = "bus" /\ Entry(idx[t]) # NULL
          /\ handle'[t] = Entry(idx[t]).handle
          /\ UNCHANGED <<op, arg, idx, gen, ret, present, devAlt, devGen, pipeCount,
                         pipeInfos, alloc, tab, bugcheck>>
          /\ Entry(idx[t])' = Entry(idx[t])
      BY <1>2, <1>3, <1>16, <2>2
      DEF UseEntry, Return, Goto, TypeOK, UseState, device, table, Entry
    <3>2. SelectState(t)' /\ UseState(t)'
      BY <1>2, <3>1 DEF SelectState, UseState
    <3> QED BY <3>1, <3>2, SerialQuiet
  <2> QED BY <1>16, <2>1, <2>2 DEF UseEntry
<1>17. CASE PipeRequest(t)
  <2>1. /\ pc[t] = "bus" /\ pc'[t] = "mark"
        /\ UNCHANGED <<present, devAlt, devGen, pipeCount, pipeInfos, alloc, tab,
                       bugcheck, arg, idx, gen>>
        /\ Entry(idx[t])' = Entry(idx[t])
    BY <1>3, <1>17 DEF PipeRequest, Goto, TypeOK, table, request, Entry
  <2>2. SelectState(t)' /\ UseState(t)'
    BY <1>2, <2>1 DEF SelectState, UseState
  <2> QED BY <2>1, <2>2, SerialQuiet
<1>18. CASE Mark(t)
  <2>1. /\ pc[t] = "mark" /\ idx[t] \in 1 .. pipeCount /\ pipeInfos \in Blocks
        /\ UNCHANGED <<present, devAlt, devGen, pipeCount, pipeInfos, alloc, bugcheck>>
    BY <1>2, <1>3, <1>18 DEF Mark, device, UseState, TypeOK
  <2>2. \A i \in 1 .. pipeCount : /\ Entry(i)' # NULL
                                 /\ Entry(i)'.address = Entry(i).address
                                 /\ Entry(i)'.handle = Entry(i).handle
    <3> SUFFICES ASSUME NEW i \in 1 .. pipeCount
                 PROVE  /\ Entry(i)' # NULL /\ Entry(i)'.address = Entry(i).address
                        /\ Entry(i)'.handle = Entry(i).handle
      OBVIOUS
    <3>1. Entry(idx[t]) # NULL /\ Entry(i) # NULL
      BY <1>14, <2>1
    <3>2. Entry(i) \in Entries /\ Entry(idx[t]) \in Entries
      BY <1>3, <3>1, EntryType
    <3>3. Entry(i)' = IF i = idx[t]
                      THEN [Entry(i) EXCEPT !.open = (op[t] = "reset")] ELSE Entry(i)
      <4> DEFINE j == idx[t]
                 old == tab[pipeInfos]
                 new == [old EXCEPT ![j].open = (op[t] = "reset")]
      <4>1. pipeInfos \in alloc /\ i \in DOMAIN old /\ Entry(i) = old[i]
            /\ j \in DOMAIN old /\ Entry(j) = old[j]
        BY <1>14, <2>1
      <4>2. tab' = [tab EXCEPT ![pipeInfos] = new] /\ UNCHANGED <<pipeInfos, alloc>>
        BY <1>18, <3>1 DEF Mark
      <4>3. tab'[pipeInfos] = new
        BY <1>3, <2>1, <4>2 DEF TypeOK
      <4>4. DOMAIN new = DOMAIN old
            /\ new[i] = IF i = j THEN [old[i] EXCEPT !.open = (op[t] = "reset")] ELSE old[i]
        BY <4>1
      <4> HIDE DEF new, old
      <4>5. Entry(i)' = new[i]
        BY <4>1, <4>2, <4>3, <4>4 DEF Entry
      <4> QED BY <4>1, <4>4, <4>5
    <3>4. [Entry(i) EXCEPT !.open = (op[t] = "reset")] \in Entries
      BY <3>2 DEF Entries
    <3>5. Entry(i)' \in Entries
      BY <3>2, <3>3, <3>4
    <3>6. Entry(i)' # NULL
      BY <3>5, EntryAssumption
    <3> QED BY <3>2, <3>3, <3>6 DEF Entries
  <2>3. Describes => Describes'
    BY <2>1, <2>2 DEF Describes
  <2>4. SelectState(t)' /\ UseState(t)' /\ pc'[t] = "idle"
    BY <1>3, <1>18 DEF Mark, Return, Goto, TypeOK, SelectState, UseState
  <2> QED BY <1>1, <1>2, <2>1, <2>3, <2>4, SerialOneNext
<1>19. ~ FillOutside(t)
  <2> SUFFICES ASSUME FillOutside(t) PROVE FALSE
    OBVIOUS
  <2>1. pc[t] = "fill" /\ pipeInfos # NULL /\ arg[t] \in Alts
        /\ pipeCount = Len(PipesOf[arg[t]])
    BY <1>2, <1>3 DEF FillOutside, SelectState, ArgOK
  <2>2. pipeInfos \in alloc /\ DOMAIN tab[pipeInfos] = 1 .. pipeCount
    BY <1>3, <1>4, <2>1 DEF ArrayThere, AbsentIdle
  <2>3. DOMAIN PipesOf[arg[t]] = 1 .. pipeCount
    BY <2>1, LenProperties
  <2> QED BY <2>2, <2>3 DEF FillOutside
<1>20. ~ TableFault(t)
  <2> SUFFICES ASSUME TableFault(t) PROVE FALSE
    OBVIOUS
  <2>1. pc[t] \in {"scan", "found", "mark"} /\ idx[t] \in 1 .. pipeCount
    BY <1>2, <1>3 DEF TableFault, UseState, TypeOK
  <2>2. pipeInfos \in alloc /\ idx[t] \in DOMAIN tab[pipeInfos]
    BY <1>14, <2>1
  <2> QED BY <1>3, <2>1, <2>2 DEF TableFault, TypeOK
<1>21. ASSUME NEW h, TransferDone(h) PROVE Serial'
  <2>1. \A i : Entry(i)' = Entry(i)
    BY <1>21 DEF TransferDone, table, Entry
  <2>2. Describes' <=> Describes
    BY <1>21, <2>1 DEF TransferDone, table, Describes
  <2> QED BY <1>21, <2>1, <2>2
          DEF TransferDone, table, request, Serial, SelectState, UseState, Settled
<1>22. CASE PnpRemoveDevice
  <2>1. SelectState(t)' /\ UseState(t)'
    BY <1>2, <1>22 DEF PnpRemoveDevice, request, SelectState, UseState
  <2> QED BY <1>1, <1>2, <1>22, <2>1, SerialOneNext DEF PnpRemoveDevice
<1>23. CASE AddDevice
  <2>1. SelectState(t)' /\ UseState(t)'
    BY <1>2, <1>3, <1>23 DEF AddDevice, AbsentIdle, request, SelectState, UseState
  <2> QED BY <1>1, <1>2, <1>3, <1>23, <2>1, SerialOneNext DEF AddDevice, AbsentIdle
<1>24. CASE UNCHANGED vars
  <2>1. \A i : Entry(i)' = Entry(i)
    BY <1>24 DEF vars, Entry
  <2>2. Describes' <=> Describes
    BY <1>24, <2>1 DEF vars, Describes
  <2> QED BY <1>24, <2>1, <2>2 DEF vars, Serial, SelectState, UseState, Settled
<1> QED
  BY <1>1, <1>6, <1>7, <1>8, <1>9, <1>10, <1>11, <1>12, <1>13, <1>15, <1>16,
     <1>17, <1>18, <1>19, <1>20, <1>21, <1>22, <1>23, <1>24
  DEF Next, Selection, PipeUse

\* Who changes an entry without emptying it.
LEMMA MarksStep ==
  ASSUME OneRequest, IInv, Serial, [Next]_vars
  PROVE  MarksOwn
<1>1. PICK t \in Threads : Threads = {t}
  BY DEF OneRequest
<1>2. SelectState(t) /\ UseState(t)
  BY <1>1, SerialOne
<1>3. TypeOK /\ ArrayThere
  BY DEF IInv
<1> SUFFICES ASSUME NEW i \in 1 .. pipeCount, Entry(i) # NULL, Entry(i)' # NULL,
                    Entry(i)' # Entry(i)
             PROVE  pc[t] = "mark" /\ arg[t] = Entry(i).address
  BY DEF MarksOwn
<1> USE PipeTableAssumption
<1>4. ~ UNCHANGED <<pipeInfos, alloc, tab>>
  BY DEF Entry
<1>5. ~ Publish(t) /\ ~ PnpRemoveDevice
  BY DEF Publish, PnpRemoveDevice, FreeTable, Entry
<1>6. ~ AddDevice
  BY <1>3 DEF AddDevice, TypeOK, Entry
<1>7. ~ AllocAndUnlock(t)
  BY <1>3 DEF AllocAndUnlock, ArrayThere, Replacing, Entry
<1>8. ~ Fill(t)
  BY <1>2 DEF Fill, SelectState
<1>9. Mark(t)
  <2>1. ASSUME NEW a, StartSelect(t, a) PROVE FALSE
    BY <1>4, <2>1 DEF StartSelect, table
  <2>2. ASSUME NEW o, NEW a, StartPipe(t, o, a) PROVE FALSE
    BY <1>4, <2>2 DEF StartPipe, table
  <2>3. ASSUME NEW h, TransferDone(h) PROVE FALSE
    BY <1>4, <2>3 DEF TransferDone, table
  <2>4. Selection(t) => FALSE
    BY <1>4, <1>5, <1>7, <1>8
    DEF Selection, SelectCompletes, SelectFails, TestArray, FillOutside, Bugcheck, table
  <2>5. PipeUse(t) => Mark(t)
    BY <1>4
    DEF PipeUse, NoPipes, Scan, NotFound, UseEntry, UrbFails, Transfer, PipeRequest,
        BusFails, TableFault, Bugcheck, table
  <2>6. ~ UNCHANGED vars
    BY <1>4 DEF vars
  <2> QED BY <1>1, <1>5, <1>6, <2>1, <2>2, <2>3, <2>4, <2>5, <2>6 DEF Next
<1>10. i = idx[t]
  BY <1>3, <1>9 DEF Mark, Entry, TypeOK
<1> QED BY <1>2, <1>9, <1>10 DEF Mark, UseState

\* The properties of one request at a time.
LEMMA SerialProperties ==
  ASSUME OneRequest, IInv, Serial
  PROVE  TableMatchesDevice /\ UrbNamesPipe
<1>1. PICK t \in Threads : Threads = {t}
  BY DEF OneRequest
<1>2. TypeOK /\ AbsentIdle
  BY DEF IInv
<1>3. ASSUME Settled, devGen > 0, NEW i \in 1 .. pipeCount
      PROVE  /\ Entry(i) # NULL
             /\ Entry(i).address = PipesOf[devAlt][i]
             /\ LiveHandle(Entry(i).handle)
             /\ pipeCount = Len(PipesOf[devAlt])
  <2>1. Describes
    BY <1>3 DEF Serial
  <2>2. /\ Entry(i) # NULL /\ Entry(i).address = PipesOf[devAlt][i]
        /\ Entry(i).handle = [address |-> PipesOf[devAlt][i], gen |-> devGen]
        /\ pipeCount = Len(PipesOf[devAlt])
    BY <2>1 DEF Describes
  <2>3. i \in DOMAIN PipesOf[devAlt] /\ PipesOf[devAlt][i] \in Addrs /\ devGen \in Gens
    BY <1>2, <2>2, PipeTableAssumption, LenProperties DEF TypeOK
  <2>4. LiveHandle(Entry(i).handle)
    BY <2>2, <2>3 DEF LiveHandle, Handles
  <2> QED BY <2>2, <2>4
<1>4. TableMatchesDevice
  <2>1. ASSUME Settled, devGen > 0 PROVE pipeCount = Len(PipesOf[devAlt])
    BY <2>1 DEF Serial, Describes
  <2> QED BY <1>3, <2>1 DEF TableMatchesDevice
<1>5. UrbNamesPipe
  <2> SUFFICES ASSUME pc[t] = "bus"
               PROVE  LiveHandle(handle[t]) /\ handle[t].address = arg[t]
    BY <1>1 DEF UrbNamesPipe
  <2>1. /\ idx[t] \in 1 .. pipeCount /\ Entry(idx[t]).address = arg[t]
        /\ handle[t] = Entry(idx[t]).handle
    BY DEF Serial, UseState
  <2>2. Settled /\ devGen > 0
    BY <1>1, <1>2, <2>1 DEF Settled, AbsentIdle, Serial, TypeOK, Gens
  <2>3. Describes
    BY <2>2 DEF Serial
  <2>4. /\ handle[t] = [address |-> PipesOf[devAlt][idx[t]], gen |-> devGen]
        /\ PipesOf[devAlt][idx[t]] = arg[t]
    BY <2>1, <2>3 DEF Describes
  <2>5. LiveHandle(handle[t])
    BY <1>3, <2>1, <2>2
  <2> QED BY <2>4, <2>5
<1> QED BY <1>4, <1>5
=============================================================================
