------------------------------- MODULE Power --------------------------------
(***************************************************************************)
(* Power management (power.cpp, and SetPwr with its two callbacks in       *)
(* ioctrlhelper.cpp).  A system power IRP is passed down, and on its way   *)
(* back up turned into a request for a device power IRP whose callback     *)
(* completes it.  SetPwr, on behalf of IOCTL_ADAPT_SET_DEVICE_POWER_STATE, *)
(* asks for a device query IRP and waits until its callback has asked for  *)
(* the set IRP.                                                            *)
(*                                                                         *)
(* The power manager (external) has one system IRP under way at a time and *)
(* sends the device IRPs asked of PoRequestPowerIrp one after the other.   *)
(* Whether it calls a callback before or after it sends the next device    *)
(* IRP is left open.                                                       *)
(***************************************************************************)
EXTENDS Sequences

CONSTANTS
    Users,          \* threads that may call SetPwr
    DStates,        \* the device power states in use
    SystemIrps,     \* the system power IRPs the power manager may send
    NULL,
    PoMayFail,      \* PoRequestPowerIrp may fail
    BusMayFail      \* the drivers below may fail a power IRP

ASSUME PowerAssumption ==
    /\ "system" \notin Users
    /\ {"D0", "D3"} \subseteq DStates
    /\ "unset" \notin DStates
    /\ SystemIrps \subseteq [minor : {"query", "set"},
                             state : {"working", "sleeping"}]
    /\ NULL \notin SystemIrps \cup DStates
    /\ PoMayFail \in BOOLEAN
    /\ BusMayFail \in BOOLEAN

VARIABLES
    sysIrp,     \* the system power IRP under way
    sysAt,      \* "lower": below; "device": kept by OnSetRequestComplete or
                \*   OnQueryRequestComplete; "lost": nobody will complete it
    sysRet,     \* the status the last system IRP was completed with
    queue,      \* the device IRPs asked for, the first one is being processed
    phase,      \* where the first one is
    calls,      \* completed device IRPs whose callback has not run yet
    devState,   \* the power state the device is in
    pwrState,   \* pdx->pwrState, "unset" is PowerDeviceUnspecified
    event,      \* event[u]: the event of u's SetPwr, "gone" without a frame
    want,       \* want[u]: the state u's SetPwr asks for, NULL outside it
    userSet     \* history: a set IRP has been asked for on behalf of SetPwr

vars == <<sysIrp, sysAt, sysRet, queue, phase, calls, devState, pwrState,
          event, want, userSet>>

system == <<sysIrp, sysAt, sysRet>>
device == <<devState, pwrState>>
user == <<event, want, userSet>>

Status == {"ok", "fail"}
DeviceIrps == [from : Users \cup {"system"}, minor : {"query", "set"},
               state : DStates]

TypeOK ==
    /\ sysIrp \in SystemIrps \cup {NULL}
    /\ sysAt \in {"idle", "lower", "device", "lost"}
    /\ sysRet \in {"none"} \cup Status
    /\ queue \in Seq(DeviceIrps)
    /\ phase \in {"waiting", "lower", "switched"}
    /\ calls \in SUBSET [irp : DeviceIrps, status : Status]
    /\ devState \in DStates
    /\ pwrState \in DStates \cup {"unset"}
    /\ event \in [Users -> {"gone", "clear", "set"}]
    /\ want \in [Users -> DStates \cup {NULL}]
    /\ userSet \in BOOLEAN

Init ==
    /\ sysIrp = NULL
    /\ sysAt = "idle"
    /\ sysRet = "none"
    /\ queue = <<>>
    /\ phase = "waiting"
    /\ calls = {}
    /\ devState = "D0"
    /\ pwrState = "unset"
    /\ event = [u \in Users |-> "gone"]
    /\ want = [u \in Users |-> NULL]
    /\ userSet = FALSE

\* PoRequestPowerIrp accepts the request and answers STATUS_PENDING.
PoRequestPowerIrp(f, m, s) ==
    queue' = Append(queue, [from |-> f, minor |-> m, state |-> s])

-----------------------------------------------------------------------------
(* System power IRPs                                                       *)

\* Marked pending and passed down with a completion routine.
PassDown(i) ==
    /\ sysAt = "idle"
    /\ sysIrp' = i
    /\ sysAt' = "lower"
    /\ UNCHANGED <<sysRet, queue, phase, calls, device, user>>

SystemQueryPowerHandler(i) == i.minor = "query" /\ PassDown(i)

SystemSetPowerHandler(i) == i.minor = "set" /\ PassDown(i)

\* The completion of a system IRP, with status s.
CompleteSystem(s) ==
    /\ sysIrp' = NULL
    /\ sysAt' = "idle"
    /\ sysRet' = s

\* The drivers below fail the IRP: the completion routine lets it go on up.
SystemFails ==
    /\ BusMayFail
    /\ sysAt = "lower"
    /\ CompleteSystem("fail")
    /\ UNCHANGED <<queue, phase, calls, device, user>>

DeviceStateFor(s) == IF s = "working" THEN "D0" ELSE "D3"

\* A device IRP is asked for and the system IRP kept.  The status of
\* PoRequestPowerIrp is not looked at: when it fails, no callback will ever
\* complete the IRP.
AskForDeviceIrp ==
    \/ /\ PoRequestPowerIrp("system", sysIrp.minor, DeviceStateFor(sysIrp.state))
       /\ sysAt' = "device"
    \/ /\ PoMayFail
       /\ sysAt' = "lost"
       /\ UNCHANGED queue

BugLetGoOn ==               \* STATUS_SUCCESS instead of MORE_PROCESSING
    /\ sysAt = "lower" /\ sysIrp.minor = "query"
    /\ PoRequestPowerIrp("system", "query", DeviceStateFor(sysIrp.state))
    /\ CompleteSystem("ok")
    /\ UNCHANGED <<phase, calls, device, user>>

\* After a success, STATUS_MORE_PROCESSING_REQUIRED keeps the system IRP.
OnQueryRequestComplete ==
    /\ sysAt = "lower" /\ sysIrp.minor = "query"
    /\ AskForDeviceIrp
    /\ UNCHANGED <<sysIrp, sysRet, phase, calls, device, user>>

BugAskForQuery ==           \* IRP_MN_QUERY_POWER as in the other routine
    /\ sysAt = "lower" /\ sysIrp.minor = "set"
    /\ PoRequestPowerIrp("system", "query", DeviceStateFor(sysIrp.state))
    /\ sysAt' = "device"
    /\ UNCHANGED <<sysIrp, sysRet, phase, calls, device, user>>

OnSetRequestComplete ==
    /\ sysAt = "lower" /\ sysIrp.minor = "set"
    /\ AskForDeviceIrp
    /\ UNCHANGED <<sysIrp, sysRet, phase, calls, device, user>>

-----------------------------------------------------------------------------
(* Device power IRPs.  The power manager sends the first IRP of the queue  *)
(* through DispatchPower.                                                  *)

\* Marked pending, passed down.
DeviceQueryPowerHandler ==
    /\ queue # <<>> /\ Head(queue).minor = "query"
    /\ phase = "waiting"
    /\ phase' = "lower"
    /\ UNCHANGED <<system, queue, calls, device, user>>

\* The same, with a completion routine.
DeviceSetPowerHandler ==
    /\ queue # <<>> /\ Head(queue).minor = "set"
    /\ phase = "waiting"
    /\ phase' = "lower"
    /\ UNCHANGED <<system, queue, calls, device, user>>

\* The bus driver changes the power of the device.
DeviceSwitches ==
    /\ phase = "lower"
    /\ Head(queue).minor = "set"
    /\ devState' = Head(queue).state
    /\ phase' = "switched"
    /\ UNCHANGED <<system, queue, calls, pwrState, user>>

\* SetPwrComplete2, the callback of the set IRP that SetPwr asked for, does
\* nothing: no call of it is remembered.
SetPwrComplete2(d) == d.from \in Users /\ d.minor = "set"

\* The first IRP is completed with status s; its callback is due.
CompleteDevice(s) ==
    /\ calls' = IF SetPwrComplete2(Head(queue)) THEN calls
                ELSE calls \cup {[irp |-> Head(queue), status |-> s]}
    /\ queue' = Tail(queue)
    /\ phase' = "waiting"

\* A set IRP comes back with a success.
OnDeviceSetComplete ==
    /\ phase = "switched"
    /\ pwrState' = Head(queue).state
    /\ CompleteDevice("ok")
    /\ UNCHANGED <<system, devState, user>>

BugRecordsFailure ==        \* OnDeviceSetComplete without the status test
    /\ phase = "lower"
    /\ \/ Head(queue).minor = "query" /\ CompleteDevice("ok") /\ UNCHANGED pwrState
       \/ /\ BusMayFail
          /\ CompleteDevice("fail")
          /\ pwrState' = IF Head(queue).minor = "set" THEN Head(queue).state
                         ELSE pwrState
    /\ UNCHANGED <<system, devState, user>>

\* A query IRP comes back, or any device IRP with a failure.
DeviceIrpReturns ==
    /\ phase = "lower"
    /\ \/ Head(queue).minor = "query" /\ CompleteDevice("ok")
       \/ BusMayFail /\ CompleteDevice("fail")
    /\ UNCHANGED <<system, device, user>>

-----------------------------------------------------------------------------
(* The callbacks of PoRequestPowerIrp                                      *)

BugKeepOnFailure(c) ==      \* the failure branch returns early
    /\ c.irp.from = "system" /\ c.irp.minor = "query"
    /\ calls' = calls \ {c}
    /\ IF c.status = "ok" THEN CompleteSystem("ok") ELSE UNCHANGED system
    /\ UNCHANGED <<queue, phase, device, user>>

QueryPwrComplete(c) ==
    /\ c.irp.from = "system" /\ c.irp.minor = "query"
    /\ calls' = calls \ {c}
    /\ CompleteSystem(c.status)
    /\ UNCHANGED <<queue, phase, device, user>>

BugSystemState(c) ==        \* the SystemState member of the union
    /\ c.irp.from = "system" /\ c.irp.minor = "set"
    /\ calls' = calls \ {c}
    /\ pwrState' = IF c.status = "ok" THEN sysIrp.state ELSE pwrState
    /\ CompleteSystem(c.status)
    /\ UNCHANGED <<queue, phase, devState, user>>

SetPwrComplete(c) ==
    /\ c.irp.from = "system" /\ c.irp.minor = "set"
    /\ calls' = calls \ {c}
    /\ pwrState' = IF c.status = "ok" THEN c.irp.state ELSE pwrState
    /\ CompleteSystem(c.status)
    /\ UNCHANGED <<queue, phase, devState, user>>

BugSignalOnSuccess(c) ==    \* KeSetEvent inside the success branch
    /\ c.irp.from \in Users
    /\ calls' = calls \ {c}
    /\ \/ /\ c.status = "ok"
          /\ PoRequestPowerIrp(c.irp.from, "set", c.irp.state)
          /\ userSet' = TRUE
       \/ (c.status = "fail" \/ PoMayFail) /\ UNCHANGED <<queue, userSet>>
    /\ event' = IF c.status = "ok" THEN [event EXCEPT ![c.irp.from] = "set"]
                ELSE event
    /\ UNCHANGED <<system, phase, device, want>>

\* SetPwr's query was answered: the set IRP is asked for if it succeeded, its
\* status is not looked at, and the waiting thread is released either way.
QueryPwrComplete2(c) ==
    /\ c.irp.from \in Users
    /\ calls' = calls \ {c}
    /\ \/ /\ c.status = "ok"
          /\ PoRequestPowerIrp(c.irp.from, "set", c.irp.state)
          /\ userSet' = TRUE
       \/ (c.status = "fail" \/ PoMayFail) /\ UNCHANGED <<queue, userSet>>
    /\ event' = [event EXCEPT ![c.irp.from] = "set"]
    /\ UNCHANGED <<system, phase, device, want>>

Callback(c) ==
    /\ c \in calls
    /\ \/ QueryPwrComplete(c)
       \/ SetPwrComplete(c)
       \/ QueryPwrComplete2(c)

-----------------------------------------------------------------------------
(* SetPwr                                                                  *)

BugNoWait(u, s) ==          \* returns although the query is pending
    /\ event[u] = "gone"
    /\ PoRequestPowerIrp(u, "query", s)
    /\ UNCHANGED <<system, phase, calls, device, user>>

\* The query is pending: SetPwr waits on the event of its frame.  (When it
\* could not be asked for, SetPwr returns and nothing has changed.)
SetPwr(u, s) ==
    /\ event[u] = "gone"
    /\ want' = [want EXCEPT ![u] = s]
    /\ PoRequestPowerIrp(u, "query", s)
    /\ event' = [event EXCEPT ![u] = "clear"]
    /\ UNCHANGED <<system, phase, calls, device, userSet>>

\* SetPwr returns STATUS_SUCCESS, whatever became of the request.
SetPwrReturns(u) ==
    /\ event[u] = "set"
    /\ event' = [event EXCEPT ![u] = "gone"]
    /\ want' = [want EXCEPT ![u] = NULL]
    /\ UNCHANGED <<system, queue, phase, calls, device, userSet>>

-----------------------------------------------------------------------------
Next ==
    \/ \E i \in SystemIrps : SystemQueryPowerHandler(i) \/ SystemSetPowerHandler(i)
    \/ SystemFails
    \/ OnQueryRequestComplete
    \/ OnSetRequestComplete
    \/ DeviceQueryPowerHandler
    \/ DeviceSetPowerHandler
    \/ DeviceSwitches
    \/ OnDeviceSetComplete
    \/ DeviceIrpReturns
    \/ \E c \in calls : Callback(c)
    \/ \E u \in Users, s \in DStates : SetPwr(u, s)
    \/ \E u \in Users : SetPwrReturns(u)

Spec == Init /\ [][Next]_vars

\* The power manager sends what was asked for and calls the callbacks, the
\* drivers below complete every power IRP, released threads run on.
FairSpec ==
    /\ Spec
    /\ WF_vars(OnQueryRequestComplete \/ OnSetRequestComplete)
    /\ WF_vars(DeviceQueryPowerHandler \/ DeviceSetPowerHandler)
    /\ WF_vars(DeviceSwitches \/ OnDeviceSetComplete \/ DeviceIrpReturns)
    /\ WF_vars(\E c \in calls : c.irp.from = "system" /\ Callback(c))
    /\ \A u \in Users :
        /\ WF_vars(\E c \in calls : c.irp.from = u /\ Callback(c))
        /\ WF_vars(SetPwrReturns(u))

-----------------------------------------------------------------------------
(* Properties                                                              *)

\* How many device IRPs with property P(_) are under way: asked for, or
\* completed and their callback still due.
Waiting(P(_)) == {n \in DOMAIN queue : P(queue[n])}
Due(P(_)) == {c \in calls : P(c.irp)}

Never(P(_)) == Waiting(P) = {} /\ Due(P) = {}

ExactlyOne(P(_)) ==
    \/ (\E n \in Waiting(P) : Waiting(P) = {n}) /\ Due(P) = {}
    \/ (\E c \in Due(P) : Due(P) = {c}) /\ Waiting(P) = {}

\* The callback of a query asked for by SetPwr finds the event it signals:
\* the frame of that SetPwr is there as long as the query is under way, and
\* there is only one.
SetPwrFrameAlive ==
    \A u \in Users :
        LET own(d) == d.from = u /\ d.minor = "query" IN
        IF event[u] = "clear" THEN ExactlyOne(own) ELSE Never(own)

\* A system IRP that a completion routine has kept is completed by exactly one
\* callback, that of a device IRP of its own minor function and state; no other
\* callback is due for it, and none for one that has been completed already.
SystemIrpCompletedOnce ==
    LET own(d) == d.from = "system" IN
    IF sysAt = "device"
    THEN /\ ExactlyOne(own)
         /\ ExactlyOne(LAMBDA d : own(d) /\ d.minor = sysIrp.minor
                                   /\ d.state = DeviceStateFor(sysIrp.state))
    ELSE Never(own)

\* SetPwr returns, whether the query is granted or refused and whatever else
\* is asked of the power manager.
SetPwrEnds == \A u \in Users : event[u] # "gone" ~> event[u] = "gone"

\* Every system IRP is completed, unless the device IRP could not be asked for.
SystemIrpEnds == sysAt # "idle" ~> sysAt \in {"idle", "lost"}

\* As long as no set IRP of SetPwr has come in between, a system set IRP
\* completed with a success finds the device, and pwrState, in the state that
\* belongs to the system state, however the queries of SetPwr are interleaved.
SystemSetReachesDevice ==
    [][sysIrp # NULL /\ sysIrp.minor = "set" /\ sysIrp' = NULL /\ sysRet' = "ok" =>
        userSet \/ {devState', pwrState'} = {DeviceStateFor(sysIrp.state)}]_vars

\* As long as no set IRP of SetPwr has come in between, pwrState is the state
\* the device is in, from the first set IRP on, whenever no set IRP is between
\* the device and the driver: neither a failure nor the second writer,
\* SetPwrComplete, sets it apart.
PwrStateFollows ==
    ~ userSet /\ pwrState # "unset" /\ phase # "switched" => pwrState = devState

\* When SetPwr returns, always with a success, the state asked for is set.
SetPwrSets ==
    [][\A u \in Users : SetPwrReturns(u) => devState = want[u]]_vars

-----------------------------------------------------------------------------
(* The inductive invariant of the proofs.                                  *)

\* Only a device IRP that was asked for is with the drivers below, only a set
\* IRP changes the device, and it leaves it in its own state.
FirstIrp ==
    /\ phase # "waiting" => queue # <<>>
    /\ phase = "switched" =>
        queue[1].minor = "set" /\ queue[1].state = devState

\* Of SetPwr's IRPs only the query has a callback that matters.
UserCalls == \A c \in calls : c.irp.from \in Users => c.irp.minor = "query"

\* As long as no set IRP of SetPwr has come in between, the set IRP of the
\* system is the only one: while its callback is due the device stays in the
\* state it brought it to.
SystemSets ==
    ~ userSet =>
        /\ \A n \in DOMAIN queue : queue[n].minor = "set" => queue[n].from = "system"
        /\ \A c \in calls : c.irp.minor = "set" /\ c.status = "ok" =>
            c.irp.state = devState

OneSystemIrp == sysAt = "idle" <=> sysIrp = NULL

IInv ==
    /\ TypeOK
    /\ FirstIrp
    /\ UserCalls
    /\ OneSystemIrp
    /\ SetPwrFrameAlive
    /\ SystemIrpCompletedOnce
    /\ SystemSets
    /\ PwrStateFollows
=============================================================================
