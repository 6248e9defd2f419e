------------------------------- MODULE Driver -------------------------------
(***************************************************************************)
(* The requests of an application (IrpDispatch) in the life of the device  *)
(* (Pnp).  A handle is opened through the device interface, its cleanup    *)
(* request is sent when the application closes it, its close request when  *)
(* the last request on it is over: the I/O manager (external) keeps the    *)
(* file object that long.  The PnP manager (external) removes a device     *)
(* only when no handle is open, and neither opens one after a surprise     *)
(* removal.  A request that is never answered keeps all this from ending.  *)
(***************************************************************************)
CONSTANTS Irps, CodesOf(_), AllocMayFail, BusMayFail, UserMayFault, SystemMayFail

ASSUME DriverAssumption ==
    {AllocMayFail, BusMayFail, UserMayFault, SystemMayFail} \subseteq BOOLEAN

VARIABLES
    code, pc, status, ret, answers, below, lowPended, pended, held, fault,
    feature, bugcheck,
    loaded, registryPath, dev, own, irp, at, event, marked, result, fwd,
    handle          \* "none", "open", or "cleaned": closed by the application

requests == <<code, pc, status, ret, answers, below, lowPended, pended, held,
              fault, feature, bugcheck>>
life == <<loaded, registryPath, dev, own, irp, at, event, marked, result,
          fwd>>
vars == <<requests, life, handle>>

I == INSTANCE IrpDispatch
P == INSTANCE Pnp

TypeOK == I!TypeOK /\ P!TypeOK /\ handle \in {"none", "open", "cleaned"}

Init == I!Init /\ P!Init /\ handle = "none"

-----------------------------------------------------------------------------
DispatchCreate ==
    /\ handle = "none"
    /\ "enabled" \in own /\ dev \in {"starting", "started"}
    /\ handle' = "open"
    /\ UNCHANGED <<requests, life>>

DispatchDeviceIOControl(i) ==
    /\ handle = "open"
    /\ \E c \in CodesOf(i) \cap I!Codes : I!DispatchDeviceIOControl(i, c)
    /\ UNCHANGED <<life, handle>>

DispatchCleanUp ==
    /\ handle = "open"
    /\ handle' = "cleaned"
    /\ UNCHANGED <<requests, life>>

\* IRP_MJ_CLOSE: the requests on the handle are gone.
DispatchRoutine ==
    /\ handle = "cleaned"
    /\ \A i \in Irps : code[i] = "none"
    /\ handle' = "none"
    /\ UNCHANGED <<requests, life>>

PnpRemoveDevice ==
    /\ handle = "none"
    /\ P!PnpRemoveDevice
    /\ UNCHANGED <<requests, handle>>

Step(i) == (I!Step(i) \/ I!Free(i)) /\ UNCHANGED <<life, handle>>

StartStep == P!StartStep /\ UNCHANGED <<requests, handle>>

OtherPnp ==
    /\ P!DriverEntry \/ P!Unload \/ P!AddDevice \/ P!AddDeviceFails
        \/ P!PnpStartDevice \/ P!DefaultPnpHandler
    /\ UNCHANGED <<requests, handle>>

Next ==
    /\ ~ bugcheck
    /\ \/ DispatchCreate
       \/ \E i \in Irps : DispatchDeviceIOControl(i) \/ Step(i)
       \/ DispatchCleanUp
       \/ DispatchRoutine
       \/ StartStep
       \/ OtherPnp
       \/ PnpRemoveDevice

Spec == Init /\ [][Next]_vars

\* Threads inside the driver run on, the drivers below complete what they
\* hold.  The application closes its handle when the device is gone, and the
\* PnP manager removes a device that is gone or did not start.
FairSpec ==
    /\ Spec
    /\ \A i \in Irps : WF_vars(~ bugcheck /\ Step(i))
    /\ WF_vars(~ bugcheck /\ StartStep)
    /\ WF_vars(~ bugcheck /\ dev = "surprise" /\ DispatchCleanUp)
    /\ WF_vars(~ bugcheck /\ DispatchRoutine)
    /\ WF_vars(~ bugcheck /\ dev \in {"failed", "surprise"} /\ PnpRemoveDevice)

-----------------------------------------------------------------------------
(* Properties: those of the two modules, and what they make together       *)

AnsweredOnce == I!AnsweredOnce
ReturnAgrees == I!ReturnAgrees
ResourcesReturned == I!ResourcesReturned
EveryRequestAnswered == I!EveryRequestAnswered
ImplementsContract == I!ImplementsContract
ImplementsSyncCall == P!ImplementsSyncCall
StartIsWoken == P!StartIsWoken
ClearFeatureClears == I!ClearFeatureClears

\* Wherever the driver or the bus driver is busy with a request, the device
\* object is there and attached: no request is completed so early that the
\* handle could be closed, and the device removed, under it.
DeviceOutlivesRequests ==
    \A i \in Irps : pc[i] # "idle" \/ below[i] => {"fdo", "stack"} \subseteq own

\* What the driver forgets: a start request when the device interface cannot be
\* enabled, a transfer to another endpoint that could not be passed down.
Forgotten ==
    \/ irp = "lost" /\ fwd = "ok"
    \/ \E i \in Irps : I!Forgotten(i)

\* A start request comes to a result, and a device that did not start or was
\* removed by surprise disappears, unless one of the two is forgotten: the
\* first leaves the PnP manager waiting, the second a handle that stays open.
PnpEnds ==
    dev \in {"starting", "failed", "surprise"} ~>
        dev \in {"started", "absent"} \/ Forgotten \/ bugcheck

-----------------------------------------------------------------------------
(* The inductive invariant (module DriverProofs)                           *)

\* A handle is open on a device that is there, and requests are on a handle.
HandleHolds ==
    /\ handle \in {"none", "open", "cleaned"}
    /\ handle # "none" => dev \in {"started", "surprise"} \/ at = "enabled"
    /\ handle = "none" => \A i \in Irps : code[i] = "none"

IInv == I!IInv /\ P!IInv /\ HandleHolds
=============================================================================
