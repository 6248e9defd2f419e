----------------------------- MODULE PowerProofs -----------------------------
(***************************************************************************)
(* Power management for any number of threads calling SetPwr, any device   *)
(* states and any system IRPs, with every request to the power manager and *)
(* every power IRP allowed to fail: each callback finds what it is to      *)
(* signal or to complete, and pwrState follows the device.                 *)
(***************************************************************************)
EXTENDS Power, SequenceTheorems, TLAPS

-----------------------------------------------------------------------------
(* The device IRPs of a set S that are under way: in the queue q, or in a  *)
(* call of the set cs.                                                     *)

In(S, q) == {n \in DOMAIN q : q[n] \in S}
Of(S, cs) == {c \in cs : c.irp \in S}
None(S, q, cs) == In(S, q) = {} /\ Of(S, cs) = {}
One(S, q, cs) ==
    \/ (\E n \in In(S, q) : In(S, q) = {n}) /\ Of(S, cs) = {}
    \/ (\E c \in Of(S, cs) : Of(S, cs) = {c}) /\ In(S, q) = {}

\* A device IRP asked for is under way if it is of the kind S.
LEMMA AppendIn ==
  ASSUME NEW q \in Seq(DeviceIrps), NEW d \in DeviceIrps, NEW S
  PROVE  In(S, Append(q, d)) =
            IF d \in S THEN In(S, q) \cup {Len(q) + 1} ELSE In(S, q)
<1>1. /\ Append(q, d) \in Seq(DeviceIrps)
      /\ Len(Append(q, d)) = Len(q) + 1
      /\ \A i \in 1 .. Len(q) : Append(q, d)[i] = q[i]
      /\ Append(q, d)[Len(q) + 1] = d
  BY AppendProperties
<1>2. DOMAIN q = 1 .. Len(q) /\ DOMAIN Append(q, d) = 1 .. Len(q) + 1 /\ Len(q) \in Nat
  BY <1>1, LenProperties
<1> QED
  BY <1>1, <1>2 DEF In

LEMMA AppendOwn ==
  ASSUME NEW q \in Seq(DeviceIrps), NEW d \in DeviceIrps, NEW S, NEW cs,
         d \in S, None(S, q, cs)
  PROVE  One(S, Append(q, d), cs)
  BY AppendIn DEF None, One

LEMMA AppendOther ==
  ASSUME NEW q \in Seq(DeviceIrps), NEW d \in DeviceIrps, NEW S, NEW cs, d \notin S
  PROVE  /\ None(S, q, cs) => None(S, Append(q, d), cs)
         /\ One(S, q, cs) => One(S, Append(q, d), cs)
  BY AppendIn DEF None, One

\* The first IRP leaves the queue, the others move up.
LEMMA TailIn ==
  ASSUME NEW q \in Seq(DeviceIrps), q # <<>>, NEW S
  PROVE  /\ q[1] = Head(q) /\ Head(q) \in DeviceIrps
         /\ In(S, Tail(q)) = {n \in 1 .. Len(q) - 1 : n + 1 \in In(S, q)}
         /\ q[1] \in S <=> 1 \in In(S, q)
         /\ In(S, q) \subseteq 1 .. Len(q)
         /\ Len(q) \in Nat
<1>1. /\ Head(q) \in DeviceIrps
      /\ Tail(q) \in Seq(DeviceIrps)
      /\ Len(Tail(q)) = Len(q) - 1
      /\ \A i \in 1 .. Len(Tail(q)) : Tail(q)[i] = q[i + 1]
  BY HeadTailProperties
<1>2. DOMAIN q = 1 .. Len(q) /\ DOMAIN Tail(q) = 1 .. Len(q) - 1
      /\ Len(q) \in Nat \ {0}
  BY <1>1, LenProperties, EmptySeq
<1>3. q[1] = Head(q)
  OBVIOUS
<1> QED
  BY <1>1, <1>2, <1>3 DEF In

\* The first IRP is completed, and its callback due, but none of the kind S.
LEMMA CompleteOther ==
  ASSUME NEW q \in Seq(DeviceIrps), q # <<>>, NEW S, NEW cs, NEW s,
         Head(q) \notin S,
         NEW ds, ds = cs \/ ds = cs \cup {[irp |-> Head(q), status |-> s]}
  PROVE  /\ None(S, q, cs) => None(S, Tail(q), ds)
         /\ One(S, q, cs) => One(S, Tail(q), ds)
<1>1. Of(S, ds) = Of(S, cs)
  BY DEF Of
<1>2. ASSUME None(S, q, cs) PROVE None(S, Tail(q), ds)
  BY <1>1, <1>2, TailIn DEF None
<1>3. ASSUME One(S, q, cs) PROVE One(S, Tail(q), ds)
  <2>1. ASSUME NEW n \in In(S, q), In(S, q) = {n}
        PROVE  \E m \in In(S, Tail(q)) : In(S, Tail(q)) = {m}
    <3>1. n - 1 \in 1 .. Len(q) - 1
      BY <2>1, TailIn
    <3>2. In(S, Tail(q)) = {n - 1}
      BY <2>1, <3>1, TailIn
    <3> QED BY <3>2
  <2>2. In(S, q) = {} => In(S, Tail(q)) = {}
    BY TailIn
  <2> QED BY <1>1, <1>3, <2>1, <2>2 DEF One
<1> QED BY <1>2, <1>3

\* The only IRP of the kind S is completed: its callback is due.
LEMMA CompleteOwn ==
  ASSUME NEW q \in Seq(DeviceIrps), q # <<>>, NEW S, NEW cs, NEW s,
         Head(q) \in S, One(S, q, cs)
  PROVE  One(S, Tail(q), cs \cup {[irp |-> Head(q), status |-> s]})
<1>1. 1 \in In(S, q)
  BY TailIn
<1>2. In(S, q) = {1} /\ Of(S, cs) = {}
  BY <1>1 DEF One
<1>3. In(S, Tail(q)) = {}
  BY <1>2, TailIn
<1>4. Of(S, cs \cup {[irp |-> Head(q), status |-> s]}) = {[irp |-> Head(q), status |-> s]}
  BY <1>2 DEF Of
<1> QED BY <1>3, <1>4 DEF One

\* A callback runs.
LEMMA CallOther ==
  ASSUME NEW q, NEW S, NEW cs, NEW c, c.irp \notin S
  PROVE  /\ None(S, q, cs) => None(S, q, cs \ {c})
         /\ One(S, q, cs) => One(S, q, cs \ {c})
<1>1. Of(S, cs \ {c}) = Of(S, cs)
  BY DEF Of
<1> QED BY <1>1 DEF None, One

LEMMA CallOwn ==
  ASSUME NEW q, NEW S, NEW cs, NEW c \in cs, c.irp \in S, One(S, q, cs)
  PROVE  None(S, q, cs \ {c})
<1>1. c \in Of(S, cs)
  BY DEF Of
<1>2. Of(S, cs) = {c} /\ In(S, q) = {}
  BY <1>1 DEF One
<1>3. Of(S, cs \ {c}) = {}
  BY <1>2 DEF Of
<1> QED BY <1>2, <1>3 DEF None

-----------------------------------------------------------------------------
(* The inductive invariant in these terms.                                 *)

Queries(u) == {d \in DeviceIrps : d.from = u /\ d.minor = "query"}
OfSystem == {d \in DeviceIrps : d.from = "system"}
Answers(i) == {d \in OfSystem : /\ d.minor = i.minor
                                /\ d.state = DeviceStateFor(i.state)}

FramesLive == \A u \in Users :
    IF event[u] = "clear" THEN One(Queries(u), queue, calls)
    ELSE None(Queries(u), queue, calls)

SystemAnswered ==
    IF sysAt = "device" THEN /\ One(OfSystem, queue, calls)
                             /\ One(Answers(sysIrp), queue, calls)
    ELSE None(OfSystem, queue, calls)

PInv ==
    /\ TypeOK
    /\ FirstIrp
    /\ UserCalls
    /\ OneSystemIrp
    /\ FramesLive
    /\ SystemAnswered
    /\ SystemSets
    /\ PwrStateFollows

LEMMA UnderWay ==
  ASSUME TypeOK
  PROVE  /\ \A n \in DOMAIN queue : queue[n] \in DeviceIrps
         /\ \A c \in calls : c.irp \in DeviceIrps /\ c.status \in Status
<1>1. queue \in Seq(DeviceIrps)
  BY DEF TypeOK
<1>2. queue \in [1 .. Len(queue) -> DeviceIrps]
  BY <1>1, LenProperties
<1> QED BY <1>2 DEF TypeOK

LEMMA FirstOfQueue ==
  ASSUME TypeOK, queue # <<>>
  PROVE  /\ Head(queue) = queue[1]
         /\ 1 \in DOMAIN queue
         /\ Head(queue) \in DeviceIrps
         /\ Head(queue).state \in DStates
<1>1. queue \in Seq(DeviceIrps)
  BY DEF TypeOK
<1>2. Head(queue) = queue[1] /\ Head(queue) \in DeviceIrps
  BY <1>1, TailIn
<1>3. 1 \in DOMAIN queue
  BY <1>1, LenProperties, EmptySeq
<1> QED BY <1>2, <1>3 DEF DeviceIrps

\* The two ways of saying it are the same.
LEMMA SameInv == IInv <=> PInv
<1> SUFFICES ASSUME TypeOK
             PROVE  /\ SetPwrFrameAlive <=> FramesLive
                    /\ SystemIrpCompletedOnce <=> SystemAnswered
  BY DEF IInv, PInv
<1>0. /\ \A n \in DOMAIN queue : queue[n] \in DeviceIrps
      /\ \A c \in calls : c.irp \in DeviceIrps
  BY UnderWay
<1>1. ASSUME NEW u \in Users
      PROVE  /\ Waiting(LAMBDA d : d.from = u /\ d.minor = "query") = In(Queries(u), queue)
             /\ Due(LAMBDA d : d.from = u /\ d.minor = "query") = Of(Queries(u), calls)
  BY <1>0 DEF Waiting, Due, In, Of, Queries
<1>2. SetPwrFrameAlive <=> FramesLive
  BY <1>1 DEF SetPwrFrameAlive, FramesLive, ExactlyOne, Never, One, None
<1>3. /\ Waiting(LAMBDA d : d.from = "system") = In(OfSystem, queue)
      /\ Due(LAMBDA d : d.from = "system") = Of(OfSystem, calls)
  BY <1>0 DEF Waiting, Due, In, Of, OfSystem
<1>4. /\ Waiting(LAMBDA d : /\ d.from = "system" /\ d.minor = sysIrp.minor
                            /\ d.state = DeviceStateFor(sysIrp.state))
            = In(Answers(sysIrp), queue)
      /\ Due(LAMBDA d : /\ d.from = "system" /\ d.minor = sysIrp.minor
                        /\ d.state = DeviceStateFor(sysIrp.state))
            = Of(Answers(sysIrp), calls)
  BY <1>0 DEF Waiting, Due, In, Of, OfSystem, Answers
<1>5. SystemIrpCompletedOnce <=> SystemAnswered
  BY <1>3, <1>4 DEF SystemIrpCompletedOnce, SystemAnswered, ExactlyOne, Never, One, None
<1> QED BY <1>2, <1>5

LEMMA InitInv == Init => PInv
<1> SUFFICES ASSUME Init PROVE PInv
  OBVIOUS
<1> USE PowerAssumption DEF Init
<1>1. TypeOK
  BY EmptySeq DEF TypeOK
<1>2. \A S : None(S, queue, calls)
  BY DEF None, In, Of
<1>3. FramesLive /\ SystemAnswered
  BY <1>2 DEF FramesLive, SystemAnswered
<1> QED
  BY <1>1, <1>3 DEF PInv, FirstIrp, UserCalls, OneSystemIrp, SystemSets, PwrStateFollows

-----------------------------------------------------------------------------
(* Every step keeps it.                                                    *)

\* What asking for a device IRP, completing the first one and calling a
\* callback leave behind is of the right type.
LEMMA QueueTypes ==
  ASSUME TypeOK
  PROVE  /\ \A f \in Users \cup {"system"}, m \in {"query", "set"}, s \in DStates :
            PoRequestPowerIrp(f, m, s) => queue' \in Seq(DeviceIrps)
         /\ \A s \in Status : queue # <<>> /\ CompleteDevice(s) =>
                /\ queue' \in Seq(DeviceIrps)
                /\ calls' \in SUBSET [irp : DeviceIrps, status : Status]
<1> USE DEF TypeOK
<1>1. ASSUME NEW f \in Users \cup {"system"}, NEW m \in {"query", "set"},
             NEW s \in DStates, PoRequestPowerIrp(f, m, s)
      PROVE  queue' \in Seq(DeviceIrps)
  <2>1. [from |-> f, minor |-> m, state |-> s] \in DeviceIrps
    BY DEF DeviceIrps
  <2> QED BY <1>1, <2>1, AppendProperties DEF PoRequestPowerIrp
<1>2. ASSUME NEW s \in Status, queue # <<>>, CompleteDevice(s)
      PROVE  /\ queue' \in Seq(DeviceIrps)
             /\ calls' \in SUBSET [irp : DeviceIrps, status : Status]
  <2>1. Head(queue) \in DeviceIrps /\ Tail(queue) \in Seq(DeviceIrps)
    BY <1>2, HeadTailProperties
  <2>2. [irp |-> Head(queue), status |-> s] \in [irp : DeviceIrps, status : Status]
    BY <2>1
  <2> QED BY <1>2, <2>1, <2>2 DEF CompleteDevice
<1> QED BY <1>1, <1>2

LEMMA TypeStep == PInv /\ [Next]_vars => TypeOK'
<1> SUFFICES ASSUME PInv, [Next]_vars PROVE TypeOK'
  OBVIOUS
<1> USE PowerAssumption DEF system, device, user
<1>0. TypeOK /\ FirstIrp /\ OneSystemIrp
  BY DEF PInv
<1>1. ASSUME NEW i \in SystemIrps,
             SystemQueryPowerHandler(i) \/ SystemSetPowerHandler(i)
      PROVE  TypeOK'
  BY <1>0, <1>1 DEF SystemQueryPowerHandler, SystemSetPowerHandler, PassDown, TypeOK
<1>2. CASE SystemFails
  BY <1>0, <1>2 DEF SystemFails, CompleteSystem, TypeOK, Status
<1>3. CASE OnQueryRequestComplete \/ OnSetRequestComplete
  <2>1. /\ sysIrp \in SystemIrps /\ sysIrp.minor \in {"query", "set"}
        /\ DeviceStateFor(sysIrp.state) \in DStates
    BY <1>0, <1>3
    DEF OnQueryRequestComplete, OnSetRequestComplete, TypeOK, OneSystemIrp, DeviceStateFor
  <2>2. queue' \in Seq(DeviceIrps) /\ sysAt' \in {"device", "lost"}
    BY <1>0, <1>3, <2>1, QueueTypes
    DEF OnQueryRequestComplete, OnSetRequestComplete, AskForDeviceIrp, TypeOK
  <2> QED BY <1>0, <1>3, <2>2 DEF OnQueryRequestComplete, OnSetRequestComplete, TypeOK
<1>4. CASE DeviceQueryPowerHandler \/ DeviceSetPowerHandler
  BY <1>0, <1>4 DEF DeviceQueryPowerHandler, DeviceSetPowerHandler, TypeOK
<1>5. CASE DeviceSwitches
  <2>1. Head(queue).state \in DStates
    BY <1>0, <1>5, FirstOfQueue DEF DeviceSwitches, FirstIrp
  <2> QED BY <1>0, <1>5, <2>1 DEF DeviceSwitches, TypeOK
<1>6. CASE OnDeviceSetComplete
  <2>1. queue # <<>> /\ "ok" \in Status
    BY <1>0, <1>6 DEF OnDeviceSetComplete, FirstIrp, Status
  <2>2. Head(queue).state \in DStates
    BY <1>0, <2>1, FirstOfQueue
  <2>3. /\ queue' \in Seq(DeviceIrps)
        /\ calls' \in SUBSET [irp : DeviceIrps, status : Status]
    BY <1>0, <1>6, <2>1, QueueTypes DEF OnDeviceSetComplete
  <2> QED BY <1>0, <1>6, <2>2, <2>3 DEF OnDeviceSetComplete, CompleteDevice, TypeOK
<1>7. CASE DeviceIrpReturns
  <2>1. queue # <<>>
    BY <1>0, <1>7 DEF DeviceIrpReturns, FirstIrp
  <2>2. PICK s \in Status : CompleteDevice(s)
    BY <1>7 DEF DeviceIrpReturns, Status
  <2>3. /\ queue' \in Seq(DeviceIrps)
        /\ calls' \in SUBSET [irp : DeviceIrps, status : Status]
    BY <1>0, <2>1, <2>2, QueueTypes
  <2> QED BY <1>0, <1>7, <2>2, <2>3 DEF DeviceIrpReturns, CompleteDevice, TypeOK
<1>8. ASSUME NEW c \in calls, QueryPwrComplete(c) \/ SetPwrComplete(c) PROVE TypeOK'
  <2>1. c.status \in Status /\ c.irp.state \in DStates
    BY <1>0, UnderWay DEF DeviceIrps
  <2> QED
    BY <1>0, <1>8, <2>1 DEF QueryPwrComplete, SetPwrComplete, CompleteSystem, TypeOK
<1>9. ASSUME NEW c \in calls, QueryPwrComplete2(c) PROVE TypeOK'
  <2>1. c.irp.from \in Users /\ c.irp.state \in DStates
    BY <1>0, <1>9, UnderWay DEF QueryPwrComplete2, DeviceIrps
  <2>2. queue' \in Seq(DeviceIrps)
    BY <1>0, <1>9, <2>1, QueueTypes DEF QueryPwrComplete2, TypeOK
  <2>3. userSet' \in BOOLEAN
    BY <1>0, <1>9, Zenon DEF QueryPwrComplete2, TypeOK
  <2> QED BY <1>0, <1>9, <2>1, <2>2, <2>3 DEF QueryPwrComplete2, TypeOK
<1>10. ASSUME NEW u \in Users, NEW s \in DStates, SetPwr(u, s) PROVE TypeOK'
  <2>1. queue' \in Seq(DeviceIrps)
    BY <1>0, <1>10, QueueTypes DEF SetPwr
  <2> QED BY <1>0, <1>10, <2>1 DEF SetPwr, TypeOK
<1>11. ASSUME NEW u \in Users, SetPwrReturns(u) PROVE TypeOK'
  BY <1>0, <1>11 DEF SetPwrReturns, TypeOK
<1>12. CASE UNCHANGED vars
  BY <1>0, <1>12 DEF vars, TypeOK
<1> QED
  BY <1>1, <1>2, <1>3, <1>4, <1>5, <1>6, <1>7, <1>8, <1>9, <1>10, <1>11, <1>12
  DEF Next, Callback

\* What a step may do to the IRPs under way of a kind S: nothing; ask for d;
\* complete the first one; run the callback of c and perhaps ask for d.
Asks(d) ==
    /\ d \in DeviceIrps
    /\ queue' = Append(queue, d)

\* The callback of c runs; only that of a query of SetPwr asks for more, the
\* set IRP.
Calls(c) ==
    /\ c \in calls
    /\ calls' = calls \ {c}
    /\ \/ UNCHANGED queue
       \/ /\ c.irp.from \in Users
          /\ Asks([from |-> c.irp.from, minor |-> "set", state |-> c.irp.state])

Completes(s) ==
    /\ s \in Status
    /\ queue # <<>>
    /\ CompleteDevice(s)

LEMMA SystemAsks ==
  ASSUME PInv, OnQueryRequestComplete \/ OnSetRequestComplete
  PROVE  /\ sysAt = "lower"
         /\ UNCHANGED <<sysIrp, sysRet, phase, calls, device, user>>
         /\ \/ sysAt' = "lost" /\ UNCHANGED queue
            \/ /\ sysAt' = "device"
               /\ Asks([from |-> "system", minor |-> sysIrp.minor,
                        state |-> DeviceStateFor(sysIrp.state)])
<1> USE PowerAssumption DEF PInv
<1>1. /\ sysIrp \in SystemIrps /\ sysIrp.minor \in {"query", "set"}
      /\ DeviceStateFor(sysIrp.state) \in DStates
  BY DEF OnQueryRequestComplete, OnSetRequestComplete, TypeOK, OneSystemIrp, DeviceStateFor
<1>2. [from |-> "system", minor |-> sysIrp.minor,
       state |-> DeviceStateFor(sysIrp.state)] \in DeviceIrps
  BY <1>1 DEF DeviceIrps
<1> QED
  BY <1>2 DEF OnQueryRequestComplete, OnSetRequestComplete, AskForDeviceIrp,
              PoRequestPowerIrp, Asks

LEMMA CallbackCalls ==
  ASSUME TypeOK, NEW c \in calls, Callback(c)
  PROVE  Calls(c)
<1>1. c.irp.from \in Users =>
        [from |-> c.irp.from, minor |-> "set", state |-> c.irp.state] \in DeviceIrps
  BY UnderWay DEF DeviceIrps
<1> QED
  BY <1>1 DEF Callback, QueryPwrComplete, SetPwrComplete, QueryPwrComplete2, Calls, Asks,
              PoRequestPowerIrp

LEMMA ReturnCompletes ==
  ASSUME PInv, OnDeviceSetComplete \/ DeviceIrpReturns
  PROVE  /\ \E s \in Status : Completes(s)
         /\ UNCHANGED <<system, devState, user>>
<1>1. queue # <<>>
  BY DEF PInv, FirstIrp, OnDeviceSetComplete, DeviceIrpReturns
<1>2. PICK s \in Status : CompleteDevice(s)
  BY DEF OnDeviceSetComplete, DeviceIrpReturns, Status
<1>3. UNCHANGED <<system, devState, user>>
  BY DEF OnDeviceSetComplete, DeviceIrpReturns, device
<1> QED BY <1>1, <1>2, <1>3 DEF Completes

LEMMA SetPwrAsks ==
  ASSUME NEW u \in Users, NEW s \in DStates, SetPwr(u, s)
  PROVE  Asks([from |-> u, minor |-> "query", state |-> s])
  BY DEF SetPwr, PoRequestPowerIrp, Asks, DeviceIrps

\* Of an IRP that is completed its callback becomes due, but of SetPwr's set
\* IRP.
LEMMA CompleteKind ==
  ASSUME TypeOK, NEW s, Completes(s), NEW S,
         \A d \in S : ~ SetPwrComplete2(d)
  PROVE  /\ None(S, queue, calls) => None(S, queue', calls')
         /\ One(S, queue, calls) => One(S, queue', calls')
<1>1. queue \in Seq(DeviceIrps) /\ queue # <<>> /\ queue' = Tail(queue)
  BY DEF TypeOK, Completes, CompleteDevice
<1>2. CASE Head(queue) \in S
  <2>1. 1 \in In(S, queue)
    BY <1>1, <1>2, TailIn
  <2>2. ~ None(S, queue, calls)
    BY <2>1 DEF None
  <2>3. calls' = calls \cup {[irp |-> Head(queue), status |-> s]}
    BY <1>2 DEF Completes, CompleteDevice
  <2> QED BY <1>1, <1>2, <2>2, <2>3, CompleteOwn
<1>3. CASE Head(queue) \notin S
  <2>1. calls' = calls \/ calls' = calls \cup {[irp |-> Head(queue), status |-> s]}
    BY DEF Completes, CompleteDevice
  <2> QED BY <1>1, <1>3, <2>1, CompleteOther
<1> QED BY <1>2, <1>3

\* The IRPs of a kind that no callback asks for: the callback of another one.
LEMMA CallOtherKind ==
  ASSUME TypeOK, NEW c, Calls(c), NEW S, \A d \in S : ~ SetPwrComplete2(d),
         c.irp \notin S
  PROVE  /\ None(S, queue, calls) => None(S, queue', calls')
         /\ One(S, queue, calls) => One(S, queue', calls')
<1>1. /\ None(S, queue, calls) => None(S, queue, calls')
      /\ One(S, queue, calls) => One(S, queue, calls')
  BY CallOther DEF Calls
<1>2. CASE UNCHANGED queue
  BY <1>1, <1>2
<1>3. ASSUME NEW d \in DeviceIrps, d \notin S, queue' = Append(queue, d)
      PROVE  /\ None(S, queue, calls) => None(S, queue', calls')
             /\ One(S, queue, calls) => One(S, queue', calls')
  BY <1>1, <1>3, AppendOther DEF TypeOK
<1> QED BY <1>2, <1>3 DEF Calls, Asks, SetPwrComplete2

\* The callback of the only one.
LEMMA CallOwnKind ==
  ASSUME TypeOK, NEW c, Calls(c), NEW S, \A d \in S : ~ SetPwrComplete2(d),
         c.irp \in S
  PROVE  /\ ~ None(S, queue, calls)
         /\ One(S, queue, calls) => None(S, queue', calls')
<1>1. c \in Of(S, calls)
  BY DEF Calls, Of
<1>2. One(S, queue, calls) => None(S, queue, calls')
  BY CallOwn DEF Calls
<1>3. CASE UNCHANGED queue
  BY <1>1, <1>2, <1>3 DEF None
<1>4. ASSUME NEW d \in DeviceIrps, d \notin S, queue' = Append(queue, d)
      PROVE  None(S, queue, calls') => None(S, queue', calls')
  BY <1>4, AppendOther DEF TypeOK
<1> QED BY <1>1, <1>2, <1>3, <1>4 DEF Calls, Asks, SetPwrComplete2, None

\* Every query of SetPwr finds the frame it signals.
LEMMA FramesStep == PInv /\ [Next]_vars => FramesLive'
<1> SUFFICES ASSUME PInv, [Next]_vars, NEW u \in Users
             PROVE  IF event'[u] = "clear" THEN One(Queries(u), queue', calls')
                    ELSE None(Queries(u), queue', calls')
  BY DEF FramesLive
<1> DEFINE S == Queries(u)
<1> USE PowerAssumption DEF system, device, user
<1>0. /\ TypeOK /\ UserCalls
      /\ IF event[u] = "clear" THEN One(S, queue, calls) ELSE None(S, queue, calls)
      /\ queue \in Seq(DeviceIrps)
  BY DEF PInv, FramesLive, TypeOK
<1>1. \A d \in S : d.from = u /\ d.minor = "query" /\ ~ SetPwrComplete2(d)
  BY DEF Queries, SetPwrComplete2
<1>2. S \subseteq DeviceIrps /\ \A d \in DeviceIrps : d.from = u /\ d.minor = "query" => d \in S
  BY DEF Queries
<1> HIDE DEF S
<1>3. ASSUME UNCHANGED <<queue, calls, event>> PROVE
        IF event'[u] = "clear" THEN One(S, queue', calls') ELSE None(S, queue', calls')
  BY <1>0, <1>3
<1>4. CASE \/ \E i \in SystemIrps : SystemQueryPowerHandler(i) \/ SystemSetPowerHandler(i)
           \/ SystemFails \/ DeviceQueryPowerHandler \/ DeviceSetPowerHandler
           \/ DeviceSwitches \/ UNCHANGED vars
  BY <1>3, <1>4 DEF SystemQueryPowerHandler, SystemSetPowerHandler, PassDown,
                    SystemFails, DeviceQueryPowerHandler, DeviceSetPowerHandler,
                    DeviceSwitches, vars, S
<1>5. CASE OnQueryRequestComplete \/ OnSetRequestComplete
  <2>1. UNCHANGED <<calls, event>>
    BY <1>5 DEF OnQueryRequestComplete, OnSetRequestComplete
  <2>2. \/ UNCHANGED queue
        \/ \E d \in DeviceIrps : d \notin S /\ queue' = Append(queue, d)
    BY <1>1, <1>5, SystemAsks DEF Asks
  <2>3. CASE UNCHANGED queue
    BY <1>0, <2>1, <2>3 DEF S
  <2>4. ASSUME NEW d \in DeviceIrps, d \notin S, queue' = Append(queue, d)
        PROVE  IF event'[u] = "clear" THEN One(S, queue', calls')
               ELSE None(S, queue', calls')
    BY <1>0, <2>1, <2>4, AppendOther
  <2> QED BY <2>2, <2>3, <2>4 DEF S
<1>6. CASE OnDeviceSetComplete \/ DeviceIrpReturns
  <2>1. PICK s \in Status : Completes(s)
    BY <1>6, ReturnCompletes
  <2>2. UNCHANGED event
    BY <1>6, ReturnCompletes
  <2> QED BY <1>0, <1>1, <2>1, <2>2, CompleteKind DEF S
<1>7. ASSUME NEW c \in calls, Callback(c) PROVE
        IF event'[u] = "clear" THEN One(S, queue', calls') ELSE None(S, queue', calls')
  <2>1. Calls(c) /\ c.irp \in DeviceIrps
    BY <1>0, <1>7, CallbackCalls, UnderWay
  <2>2. CASE c.irp.from = u
    <3>1. c.irp \in S
      BY <1>0, <1>2, <2>1, <2>2 DEF UserCalls
    <3>2. event'[u] = "set"
      BY <1>0, <1>7, <2>2
      DEF Callback, QueryPwrComplete, SetPwrComplete, QueryPwrComplete2, TypeOK
    <3> QED BY <1>0, <1>1, <2>1, <3>1, <3>2, CallOwnKind
  <2>3. CASE c.irp.from # u
    <3>1. c.irp \notin S
      BY <1>1, <2>3
    <3>2. event'[u] = event[u]
      BY <1>0, <1>7, <2>3
      DEF Callback, QueryPwrComplete, SetPwrComplete, QueryPwrComplete2, TypeOK
    <3> QED BY <1>0, <1>1, <2>1, <3>1, <3>2, CallOtherKind
  <2> QED BY <2>2, <2>3
<1>8. ASSUME NEW v \in Users, NEW s \in DStates, SetPwr(v, s) PROVE
        IF event'[u] = "clear" THEN One(S, queue', calls') ELSE None(S, queue', calls')
  <2> DEFINE d == [from |-> v, minor |-> "query", state |-> s]
  <2>1. d \in DeviceIrps /\ queue' = Append(queue, d) /\ d.from = v /\ d.minor = "query"
    BY <1>8, SetPwrAsks DEF Asks
  <2>2. UNCHANGED calls /\ event[v] = "gone" /\ event' = [event EXCEPT ![v] = "clear"]
    BY <1>8 DEF SetPwr
  <2> HIDE DEF d
  <2>3. CASE v = u
    BY <1>0, <1>2, <2>1, <2>2, <2>3, AppendOwn DEF TypeOK
  <2>4. CASE v # u
    <3>1. d \notin S
      BY <1>1, <2>1, <2>4
    <3> QED BY <1>0, <2>1, <2>2, <2>4, <3>1, AppendOther DEF TypeOK
  <2> QED BY <2>3, <2>4
<1>9. ASSUME NEW v \in Users, SetPwrReturns(v) PROVE
        IF event'[u] = "clear" THEN One(S, queue', calls') ELSE None(S, queue', calls')
  BY <1>0, <1>9 DEF SetPwrReturns, TypeOK
<1> QED
  BY <1>4, <1>5, <1>6, <1>7, <1>8, <1>9 DEF Next, S

\* A kept system IRP has the one callback that completes it, others have none.
LEMMA SystemStep == PInv /\ [Next]_vars => SystemAnswered'
<1> SUFFICES ASSUME PInv, [Next]_vars PROVE SystemAnswered'
  OBVIOUS
<1> DEFINE A == Answers(sysIrp)
<1> USE PowerAssumption DEF system, device, user
<1>0. /\ TypeOK /\ UserCalls /\ SystemAnswered
      /\ queue \in Seq(DeviceIrps)
  BY DEF PInv, TypeOK
<1>1. /\ \A d \in OfSystem : d.from = "system" /\ d.from \notin Users /\ ~ SetPwrComplete2(d)
      /\ \A d \in DeviceIrps : d.from = "system" => d \in OfSystem
  BY DEF OfSystem, SetPwrComplete2
<1>2. A \subseteq OfSystem
  BY DEF Answers
<1>3. (UNCHANGED sysIrp) => Answers(sysIrp)' = A
  BY DEF Answers
<1> HIDE DEF A
<1>4. ASSUME UNCHANGED <<sysIrp, sysAt>>,
             \A S : S = OfSystem \/ S = A =>
                /\ None(S, queue, calls) => None(S, queue', calls')
                /\ One(S, queue, calls) => One(S, queue', calls')
      PROVE  SystemAnswered'
  BY <1>0, <1>3, <1>4 DEF SystemAnswered, A
<1>5. CASE DeviceQueryPowerHandler \/ DeviceSetPowerHandler \/ DeviceSwitches
           \/ UNCHANGED vars \/ \E u \in Users : SetPwrReturns(u)
  BY <1>4, <1>5 DEF DeviceQueryPowerHandler, DeviceSetPowerHandler, DeviceSwitches,
                    SetPwrReturns, vars
<1>6. CASE \/ \E i \in SystemIrps : SystemQueryPowerHandler(i) \/ SystemSetPowerHandler(i)
           \/ SystemFails
  BY <1>0, <1>6 DEF SystemQueryPowerHandler, SystemSetPowerHandler, PassDown,
                    SystemFails, CompleteSystem, SystemAnswered
<1>7. CASE OnQueryRequestComplete \/ OnSetRequestComplete
  <2>1. /\ sysAt = "lower" /\ UNCHANGED <<sysIrp, calls>>
        /\ \/ sysAt' = "lost" /\ UNCHANGED queue
           \/ /\ sysAt' = "device"
              /\ Asks([from |-> "system", minor |-> sysIrp.minor,
                       state |-> DeviceStateFor(sysIrp.state)])
    BY <1>7, SystemAsks
  <2>2. None(OfSystem, queue, calls)
    BY <1>0, <2>1 DEF SystemAnswered
  <2>3. CASE sysAt' = "lost" /\ UNCHANGED queue
    BY <2>1, <2>2, <2>3 DEF SystemAnswered
  <2>4. CASE sysAt' = "device"
    <3> DEFINE d == [from |-> "system", minor |-> sysIrp.minor,
                     state |-> DeviceStateFor(sysIrp.state)]
    <3>1. d \in DeviceIrps /\ queue' = Append(queue, d)
      BY <2>1, <2>4 DEF Asks
    <3>2. d \in OfSystem /\ d \in A
      BY <3>1 DEF OfSystem, Answers, A
    <3>3. None(A, queue, calls)
      BY <1>2, <2>2 DEF None, In, Of
    <3> HIDE DEF d
    <3>4. One(OfSystem, queue', calls) /\ One(A, queue', calls)
      BY <1>0, <2>2, <3>1, <3>2, <3>3, AppendOwn
    <3> QED BY <1>3, <2>1, <2>4, <3>4 DEF SystemAnswered
  <2> QED BY <2>1, <2>3, <2>4
<1>8. CASE OnDeviceSetComplete \/ DeviceIrpReturns
  <2>1. PICK s \in Status : Completes(s)
    BY <1>8, ReturnCompletes
  <2>2. UNCHANGED <<sysIrp, sysAt>>
    BY <1>8, ReturnCompletes
  <2> QED BY <1>0, <1>1, <1>2, <1>4, <2>1, <2>2, CompleteKind
<1>9. ASSUME NEW c \in calls, Callback(c) PROVE SystemAnswered'
  <2>1. Calls(c) /\ c.irp \in DeviceIrps
    BY <1>0, <1>9, CallbackCalls, UnderWay
  <2>2. CASE c.irp.from = "system"
    <3>1. c.irp \in OfSystem
      BY <1>1, <2>1, <2>2
    <3>2. sysAt' = "idle"
      BY <1>9, <2>2 DEF Callback, QueryPwrComplete, SetPwrComplete,
                        QueryPwrComplete2, CompleteSystem
    <3>3. One(OfSystem, queue, calls)
      BY <1>0, <1>1, <2>1, <3>1, CallOwnKind DEF SystemAnswered
    <3>4. None(OfSystem, queue', calls')
      BY <1>0, <1>1, <2>1, <3>1, <3>3, CallOwnKind
    <3> QED BY <3>2, <3>4 DEF SystemAnswered
  <2>3. CASE c.irp.from # "system"
    <3>1. c.irp \notin OfSystem /\ c.irp \notin A
      BY <1>1, <1>2, <2>3
    <3>2. UNCHANGED <<sysIrp, sysAt>>
      BY <1>9, <2>3 DEF Callback, QueryPwrComplete, SetPwrComplete, QueryPwrComplete2
    <3> QED BY <1>0, <1>1, <1>2, <1>4, <2>1, <3>1, <3>2, CallOtherKind
  <2> QED BY <2>2, <2>3
<1>10. ASSUME NEW u \in Users, NEW s \in DStates, SetPwr(u, s) PROVE SystemAnswered'
  <2> DEFINE d == [from |-> u, minor |-> "query", state |-> s]
  <2>1. d \in DeviceIrps /\ queue' = Append(queue, d) /\ d.from = u
    BY <1>10, SetPwrAsks DEF Asks
  <2>2. UNCHANGED <<sysIrp, sysAt, calls>>
    BY <1>10 DEF SetPwr
  <2> HIDE DEF d
  <2>3. d \notin OfSystem /\ d \notin A
    BY <1>1, <1>2, <2>1
  <2> QED BY <1>0, <1>4, <2>1, <2>2, <2>3, AppendOther
<1> QED
  BY <1>5, <1>6, <1>7, <1>8, <1>9, <1>10 DEF Next

LEMMA AppendFirst ==
  ASSUME TypeOK, NEW d, Asks(d)
  PROVE  /\ queue' # <<>>
         /\ queue # <<>> => queue'[1] = queue[1]
<1>1. queue \in Seq(DeviceIrps) /\ d \in DeviceIrps /\ queue' = Append(queue, d)
  BY DEF TypeOK, Asks
<1> QED BY <1>1, AppendProperties, EmptySeq

LEMMA FirstStep == PInv /\ [Next]_vars => FirstIrp' /\ OneSystemIrp'
<1> SUFFICES ASSUME PInv, [Next]_vars PROVE FirstIrp' /\ OneSystemIrp'
  OBVIOUS
<1> USE PowerAssumption DEF system, device, user
<1>0. TypeOK /\ FirstIrp /\ OneSystemIrp /\ SystemAnswered
  BY DEF PInv
<1>1. ASSUME UNCHANGED <<phase, devState>>, UNCHANGED queue \/ \E d : Asks(d) PROVE FirstIrp'
  BY <1>0, <1>1, AppendFirst DEF FirstIrp
<1>2. CASE \/ \E i \in SystemIrps : SystemQueryPowerHandler(i) \/ SystemSetPowerHandler(i)
           \/ SystemFails
  <2>1. FirstIrp'
    BY <1>0, <1>2 DEF SystemQueryPowerHandler, SystemSetPowerHandler, PassDown,
                      SystemFails, FirstIrp
  <2>2. OneSystemIrp'
    BY <1>0, <1>2 DEF SystemQueryPowerHandler, SystemSetPowerHandler, PassDown,
                      SystemFails, CompleteSystem, OneSystemIrp
  <2> QED BY <2>1, <2>2
<1>3. CASE OnQueryRequestComplete \/ OnSetRequestComplete
  <2>1. UNCHANGED queue \/ \E d : Asks(d)
    BY <1>3, SystemAsks
  <2>2. UNCHANGED <<phase, devState, sysIrp>> /\ sysAt = "lower" /\ sysAt' # "idle"
    BY <1>3, SystemAsks
  <2> QED BY <1>0, <1>1, <2>1, <2>2 DEF OneSystemIrp
<1>4. CASE DeviceQueryPowerHandler \/ DeviceSetPowerHandler
  BY <1>0, <1>4 DEF DeviceQueryPowerHandler, DeviceSetPowerHandler, FirstIrp, OneSystemIrp
<1>5. CASE DeviceSwitches
  <2>1. queue # <<>> /\ Head(queue) = queue[1]
    BY <1>0, <1>5, FirstOfQueue DEF DeviceSwitches, FirstIrp
  <2> QED BY <1>0, <1>5, <2>1 DEF DeviceSwitches, FirstIrp, OneSystemIrp
<1>6. CASE OnDeviceSetComplete \/ DeviceIrpReturns
  BY <1>0, <1>6 DEF OnDeviceSetComplete, DeviceIrpReturns, CompleteDevice, FirstIrp,
                    OneSystemIrp
<1>7. ASSUME NEW c \in calls, Callback(c) PROVE FirstIrp' /\ OneSystemIrp'
  <2>1. UNCHANGED queue \/ \E d : Asks(d)
    BY <1>0, <1>7, CallbackCalls DEF Calls
  <2>2. UNCHANGED <<phase, devState>>
    BY <1>7 DEF Callback, QueryPwrComplete, SetPwrComplete, QueryPwrComplete2
  <2>3. OneSystemIrp'
    BY <1>0, <1>7 DEF Callback, QueryPwrComplete, SetPwrComplete, QueryPwrComplete2,
                      CompleteSystem, OneSystemIrp
  <2> QED BY <1>1, <2>1, <2>2, <2>3
<1>8. ASSUME NEW u \in Users, NEW s \in DStates, SetPwr(u, s)
      PROVE  FirstIrp' /\ OneSystemIrp'
  <2>1. \E d : Asks(d)
    BY <1>8, SetPwrAsks
  <2> QED BY <1>0, <1>1, <1>8, <2>1 DEF SetPwr, OneSystemIrp
<1>9. CASE UNCHANGED vars \/ \E u \in Users : SetPwrReturns(u)
  BY <1>0, <1>1, <1>9 DEF vars, SetPwrReturns, OneSystemIrp
<1> QED
  BY <1>2, <1>3, <1>4, <1>5, <1>6, <1>7, <1>8, <1>9 DEF Next

LEMMA CallsStep == PInv /\ [Next]_vars => UserCalls'
<1> SUFFICES ASSUME PInv, [Next]_vars PROVE UserCalls'
  OBVIOUS
<1> USE DEF system, device, user
<1>0. TypeOK /\ UserCalls
  BY DEF PInv
<1>1. ASSUME calls' \subseteq calls PROVE UserCalls'
  BY <1>0, <1>1 DEF UserCalls
<1>2. CASE OnDeviceSetComplete \/ DeviceIrpReturns
  <2>1. PICK s \in Status : Completes(s)
    BY <1>2, ReturnCompletes
  <2>2. Head(queue) \in DeviceIrps
    BY <1>0, <2>1, FirstOfQueue DEF Completes
  <2>3. Head(queue).minor \in {"query", "set"}
    BY <2>2 DEF DeviceIrps
  <2>4. \A c \in calls' :
            \/ c \in calls
            \/ c = [irp |-> Head(queue), status |-> s] /\ ~ SetPwrComplete2(Head(queue))
    BY <2>1 DEF Completes, CompleteDevice, SetPwrComplete2
  <2> QED BY <1>0, <2>3, <2>4 DEF UserCalls, SetPwrComplete2
<1>3. CASE \E c \in calls : Callback(c)
  BY <1>0, <1>1, <1>3, CallbackCalls DEF Calls
<1>4. CASE OnQueryRequestComplete \/ OnSetRequestComplete
  BY <1>1, <1>4 DEF OnQueryRequestComplete, OnSetRequestComplete
<1>5. CASE \/ \E i \in SystemIrps : SystemQueryPowerHandler(i) \/ SystemSetPowerHandler(i)
           \/ SystemFails \/ DeviceQueryPowerHandler \/ DeviceSetPowerHandler
           \/ DeviceSwitches \/ UNCHANGED vars
           \/ \E u \in Users, s \in DStates : SetPwr(u, s)
           \/ \E u \in Users : SetPwrReturns(u)
  BY <1>1, <1>5 DEF SystemQueryPowerHandler, SystemSetPowerHandler, PassDown,
                    SystemFails, DeviceQueryPowerHandler, DeviceSetPowerHandler,
                    DeviceSwitches, SetPwr, SetPwrReturns, vars
<1> QED
  BY <1>2, <1>3, <1>4, <1>5 DEF Next

\* The elements of the queue after a step.
LEMMA Elements ==
  ASSUME TypeOK
  PROVE  /\ \A d : Asks(d) => \A n \in DOMAIN queue' :
                queue'[n] = d \/ \E m \in DOMAIN queue : queue'[n] = queue[m]
         /\ queue # <<>> /\ queue' = Tail(queue) => \A n \in DOMAIN queue' :
                \E m \in DOMAIN queue : queue'[n] = queue[m]
<1>0. queue \in Seq(DeviceIrps) /\ DOMAIN queue = 1 .. Len(queue) /\ Len(queue) \in Nat
  BY LenProperties DEF TypeOK
<1>1. ASSUME NEW d, Asks(d), NEW n \in DOMAIN queue'
      PROVE  queue'[n] = d \/ \E m \in DOMAIN queue : queue'[n] = queue[m]
  <2>1. d \in DeviceIrps /\ queue' = Append(queue, d)
    BY <1>1 DEF Asks
  <2>2. /\ DOMAIN queue' = 1 .. Len(queue) + 1
        /\ \A i \in 1 .. Len(queue) : queue'[i] = queue[i]
        /\ queue'[Len(queue) + 1] = d
    BY <1>0, <2>1, AppendProperties, LenProperties
  <2> QED BY <1>0, <1>1, <2>2
<1>2. ASSUME queue # <<>>, queue' = Tail(queue), NEW n \in DOMAIN queue'
      PROVE  \E m \in DOMAIN queue : queue'[n] = queue[m]
  <2>1. /\ Tail(queue) \in Seq(DeviceIrps) /\ Len(Tail(queue)) = Len(queue) - 1
        /\ \A i \in 1 .. Len(Tail(queue)) : Tail(queue)[i] = queue[i + 1]
    BY <1>0, <1>2, HeadTailProperties
  <2>2. DOMAIN queue' = 1 .. Len(queue) - 1
    BY <1>2, <2>1, LenProperties
  <2> QED BY <1>0, <1>2, <2>1, <2>2
<1> QED BY <1>1, <1>2

\* Without a set IRP of SetPwr, that of the system is the only one, and its
\* callback finds the device where it left it.
LEMMA SetsStep == PInv /\ [Next]_vars => SystemSets'
<1> SUFFICES ASSUME PInv, [Next]_vars, ~ userSet' PROVE SystemSets'
  BY DEF SystemSets
<1> USE DEF system, device, user
<1> DEFINE Old(n) == \E m \in DOMAIN queue : queue'[n] = queue[m]
           Sets == \A n \in DOMAIN queue' :
                        queue'[n].minor = "set" => queue'[n].from = "system"
           Done == \A c \in calls' :
                        c.irp.minor = "set" /\ c.status = "ok" => c.irp.state = devState'
<1>0. TypeOK /\ FirstIrp /\ UserCalls /\ SystemAnswered /\ SystemSets
  BY DEF PInv
<1>1. ASSUME ~ userSet, Sets, Done PROVE SystemSets'
  BY <1>1 DEF SystemSets
<1>2. ASSUME ~ userSet, \A n \in DOMAIN queue' : Old(n) PROVE Sets
  BY <1>0, <1>2 DEF SystemSets
<1>3. ASSUME ~ userSet, calls' \subseteq calls, UNCHANGED devState PROVE Done
  BY <1>0, <1>3 DEF SystemSets
<1>4. ASSUME ~ userSet, NEW d, Asks(d), d.minor = "set" => d.from = "system" PROVE Sets
  <2>1. \A n \in DOMAIN queue' : queue'[n] = d \/ Old(n)
    BY <1>0, <1>4, Elements
  <2> QED BY <1>0, <1>4, <2>1 DEF SystemSets
<1> HIDE DEF Old, Sets, Done
<1>5. (UNCHANGED queue) => \A n \in DOMAIN queue' : Old(n)
  BY DEF Old
<1>6. CASE \/ \E i \in SystemIrps : SystemQueryPowerHandler(i) \/ SystemSetPowerHandler(i)
           \/ SystemFails \/ DeviceQueryPowerHandler \/ DeviceSetPowerHandler
           \/ UNCHANGED vars \/ \E u \in Users : SetPwrReturns(u)
  BY <1>1, <1>2, <1>3, <1>5, <1>6
  DEF SystemQueryPowerHandler, SystemSetPowerHandler, PassDown, SystemFails,
      DeviceQueryPowerHandler, DeviceSetPowerHandler, SetPwrReturns, vars
<1>7. CASE OnQueryRequestComplete \/ OnSetRequestComplete
  <2>1. UNCHANGED <<calls, devState, userSet>>
    BY <1>7 DEF OnQueryRequestComplete, OnSetRequestComplete
  <2>2. UNCHANGED queue \/ \E d : Asks(d) /\ d.from = "system"
    BY <1>7, SystemAsks
  <2>3. Sets
    BY <1>2, <1>4, <1>5, <2>1, <2>2
  <2> QED BY <1>1, <1>3, <2>1, <2>3
<1>8. CASE DeviceSwitches
  <2>1. UNCHANGED <<queue, calls, userSet>> /\ queue # <<>> /\ Head(queue).minor = "set"
    BY <1>0, <1>8 DEF DeviceSwitches, FirstIrp
  <2>2. 1 \in DOMAIN queue /\ Head(queue) = queue[1] /\ queue[1] \in DeviceIrps
    BY <1>0, <2>1, FirstOfQueue
  <2>3. queue[1].from = "system"
    BY <1>0, <2>1, <2>2 DEF SystemSets
  <2>4. 1 \in In(OfSystem, queue)
    BY <2>2, <2>3 DEF In, OfSystem
  <2>5. Of(OfSystem, calls) = {}
    BY <1>0, <2>4 DEF SystemAnswered, None, One
  <2>6. \A c \in calls : c.irp.minor # "set"
    BY <1>0, <2>5, UnderWay DEF UserCalls, Of, OfSystem, DeviceIrps
  <2>7. Done
    BY <2>1, <2>6 DEF Done
  <2> QED BY <1>1, <1>2, <1>5, <2>1, <2>7
<1>9. CASE OnDeviceSetComplete \/ DeviceIrpReturns
  <2>1. PICK s \in Status : Completes(s)
    BY <1>9, ReturnCompletes
  <2>2. UNCHANGED <<devState, userSet>>
    BY <1>9, ReturnCompletes
  <2>3. /\ queue # <<>> /\ queue' = Tail(queue)
        /\ \A c \in calls' : c \in calls \/ c = [irp |-> Head(queue), status |-> s]
    BY <2>1, Zenon DEF Completes, CompleteDevice
  <2>4. Sets
    BY <1>0, <1>2, <2>2, <2>3, Elements DEF Old
  <2>5. CASE OnDeviceSetComplete
    <3>1. Head(queue).state = devState
      BY <1>0, <2>3, <2>5, FirstOfQueue DEF OnDeviceSetComplete, FirstIrp
    <3>2. Done
      BY <1>0, <2>2, <2>3, <3>1 DEF SystemSets, Done
    <3> QED BY <1>1, <2>2, <2>4, <3>2
  <2>6. CASE DeviceIrpReturns
    <3>1. \A c \in calls' : c \in calls \/ c.status = "fail" \/ c.irp.minor = "query"
      <4>1. PICK r \in Status : /\ CompleteDevice(r)
                                /\ r = "fail" \/ Head(queue).minor = "query"
        BY <2>6 DEF DeviceIrpReturns, Status
      <4>2. \A c \in calls' : c \in calls \/ c = [irp |-> Head(queue), status |-> r]
        BY <4>1, Zenon DEF CompleteDevice
      <4> QED BY <4>1, <4>2
    <3>2. Done
      BY <1>0, <2>2, <3>1 DEF SystemSets, Done
    <3> QED BY <1>1, <2>2, <2>4, <3>2
  <2> QED BY <1>9, <2>5, <2>6
<1>10. ASSUME NEW c \in calls, Callback(c) PROVE SystemSets'
  <2>1. UNCHANGED <<queue, userSet>> /\ calls' \subseteq calls /\ UNCHANGED devState
    BY <1>10 DEF Callback, QueryPwrComplete, SetPwrComplete, QueryPwrComplete2
  <2> QED BY <1>1, <1>2, <1>3, <1>5, <2>1
<1>11. ASSUME NEW u \in Users, NEW s \in DStates, SetPwr(u, s) PROVE SystemSets'
  <2>1. UNCHANGED <<calls, devState, userSet>>
    BY <1>11 DEF SetPwr
  <2>2. Sets
    BY <1>4, <1>11, <2>1, SetPwrAsks
  <2> QED BY <1>1, <1>3, <2>1, <2>2
<1> QED
  BY <1>6, <1>7, <1>8, <1>9, <1>10, <1>11 DEF Next

\* What the driver notes as the power state is the state of the device.
LEMMA FollowStep == PInv /\ [Next]_vars => PwrStateFollows'
<1> SUFFICES ASSUME PInv, [Next]_vars PROVE PwrStateFollows'
  OBVIOUS
<1> USE DEF system, device, user, PwrStateFollows
<1>0. TypeOK /\ FirstIrp /\ UserCalls /\ SystemSets /\ PwrStateFollows
  BY DEF PInv
<1>1. CASE \/ \E i \in SystemIrps : SystemQueryPowerHandler(i) \/ SystemSetPowerHandler(i)
           \/ SystemFails \/ DeviceQueryPowerHandler \/ DeviceSetPowerHandler
           \/ OnQueryRequestComplete \/ OnSetRequestComplete
           \/ \E u \in Users, s \in DStates : SetPwr(u, s)
           \/ \E u \in Users : SetPwrReturns(u)
           \/ UNCHANGED vars
  BY <1>0, <1>1
  DEF SystemQueryPowerHandler, SystemSetPowerHandler, PassDown, SystemFails,
      DeviceQueryPowerHandler, DeviceSetPowerHandler, OnQueryRequestComplete,
      OnSetRequestComplete, SetPwr, SetPwrReturns, vars
<1>2. CASE DeviceSwitches
  BY <1>2 DEF DeviceSwitches
<1>3. CASE OnDeviceSetComplete
  <2>1. queue # <<>> /\ Head(queue).state = devState
    BY <1>0, <1>3, FirstOfQueue DEF OnDeviceSetComplete, FirstIrp
  <2> QED BY <1>3, <2>1 DEF OnDeviceSetComplete
<1>4. CASE DeviceIrpReturns
  BY <1>0, <1>4 DEF DeviceIrpReturns
<1>5. ASSUME NEW c \in calls, SetPwrComplete(c) PROVE PwrStateFollows'
  BY <1>0, <1>5 DEF SetPwrComplete, SystemSets
<1>6. ASSUME NEW c \in calls, QueryPwrComplete(c) PROVE PwrStateFollows'
  BY <1>0, <1>6 DEF QueryPwrComplete
<1>7. ASSUME NEW c \in calls, QueryPwrComplete2(c) PROVE PwrStateFollows'
  BY <1>0, <1>7 DEF QueryPwrComplete2
<1> QED
  BY <1>1, <1>2, <1>3, <1>4, <1>5, <1>6, <1>7 DEF Next, Callback

-----------------------------------------------------------------------------
(* The theorems.                                                           *)

\* The inductive invariant holds in every reachable state.
THEOREM Inductive == Spec => []IInv
<1>1. PInv /\ [Next]_vars => PInv'
  BY TypeStep, FirstStep, CallsStep, FramesStep, SystemStep, SetsStep, FollowStep DEF PInv
<1>2. PInv => IInv
  BY SameInv DEF PInv
<1> QED BY InitInv, <1>1, <1>2, PTL DEF Spec

\* Every variable keeps its type: the power manager's queue and the callbacks
\* only ever hold what the driver has asked for.
THEOREM Typing == Spec => []TypeOK
  BY Inductive, PTL DEF IInv

\* QueryPwrComplete2 signals an event that is there, and only once: for any
\* number of threads in SetPwr, whatever else is asked of the power manager.
THEOREM FrameSafety == Spec => []SetPwrFrameAlive
  BY Inductive, PTL DEF IInv

\* Every system IRP that a completion routine has kept is completed by one
\* callback, the one of its own minor function, and none twice.
THEOREM SystemCompletedOnce == Spec => []SystemIrpCompletedOnce
  BY Inductive, PTL DEF IInv

\* As long as SetPwr has asked for no set IRP, which may come in between the
\* system's and the callback of it, pwrState is the state the device is in.
THEOREM StateFollows == Spec => []PwrStateFollows
  BY Inductive, PTL DEF IInv

\* A system set IRP completed with a success finds the device, and pwrState,
\* in the state that belongs to the system state, under the same condition.
THEOREM SetReachesDevice == Spec => SystemSetReachesDevice
<1> DEFINE Reaches == sysIrp # NULL /\ sysIrp.minor = "set" /\ sysIrp' = NULL /\ sysRet' = "ok" =>
                userSet \/ {devState', pwrState'} = {DeviceStateFor(sysIrp.state)}
<1>1. PInv /\ [Next]_vars => [Reaches]_vars
  <2> SUFFICES ASSUME PInv, Next, sysIrp # NULL, sysIrp.minor = "set",
                      sysIrp' = NULL, sysRet' = "ok", ~ userSet
               PROVE  {devState', pwrState'} = {DeviceStateFor(sysIrp.state)}
    OBVIOUS
  <2> USE PowerAssumption DEF system, device, user
  <2>0. TypeOK /\ SystemAnswered /\ SystemSets
    BY DEF PInv
  <2>1. PICK c \in calls : QueryPwrComplete(c) \/ SetPwrComplete(c)
    BY DEF Next, Callback, SystemQueryPowerHandler, SystemSetPowerHandler, PassDown,
           SystemFails, CompleteSystem, OnQueryRequestComplete, OnSetRequestComplete,
           DeviceQueryPowerHandler, DeviceSetPowerHandler, DeviceSwitches,
           OnDeviceSetComplete, DeviceIrpReturns, QueryPwrComplete2, SetPwr, SetPwrReturns
  <2>2. c.irp \in DeviceIrps /\ c.irp.from = "system" /\ c.status = "ok"
    BY <2>0, <2>1, UnderWay DEF QueryPwrComplete, SetPwrComplete, CompleteSystem
  <2>3. c \in Of(OfSystem, calls)
    BY <2>2 DEF Of, OfSystem
  <2>4. One(OfSystem, queue, calls) /\ One(Answers(sysIrp), queue, calls)
    BY <2>0, <2>3 DEF SystemAnswered, None
  <2>5. c.irp \in Answers(sysIrp)
    BY <2>3, <2>4 DEF One, In, Of, Answers
  <2>6. c.irp.minor = "set" /\ c.irp.state = DeviceStateFor(sysIrp.state)
    BY <2>5 DEF Answers
  <2>7. devState = c.irp.state
    BY <2>0, <2>2, <2>6 DEF SystemSets
  <2> QED BY <2>1, <2>2, <2>6, <2>7 DEF QueryPwrComplete, SetPwrComplete
<1>2. Spec => []PInv
  <2>1. PInv /\ [Next]_vars => PInv'
    BY TypeStep, FirstStep, CallsStep, FramesStep, SystemStep, SetsStep, FollowStep DEF PInv
  <2> QED BY InitInv, <2>1, PTL DEF Spec
<1> QED BY <1>1, <1>2, PTL DEF Spec, SystemSetReachesDevice
=============================================================================
