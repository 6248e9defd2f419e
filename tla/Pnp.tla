-------------------------------- MODULE Pnp ---------------------------------
(***************************************************************************)
(* The life of the device: DriverEntry, AddDevice and Unload               *)
(* (stdroutine.cpp), PnpStartDevice with ForwardAndWait and its completion *)
(* routine, PnpRemoveDevice (pnp.cpp).  The other requests go through      *)
(* DefaultPnpHandler, which passes them down and leaves everything as it   *)
(* is; of these only the surprise removal matters here.                    *)
(*                                                                         *)
(* The PnP manager (external) sends one request at a time, removes only a  *)
(* device that was added, and sends nothing more to a device whose start   *)
(* request is not answered.                                                *)
(***************************************************************************)
CONSTANTS
    BusMayFail,     \* the drivers below may fail the start request
    SystemMayFail   \* the I/O manager's functions and ExAllocatePool may fail

VARIABLES
    loaded,         \* DriverEntry has succeeded
    registryPath,   \* registryPath.Buffer is allocated
    dev,            \* the device, as the PnP manager sees it
    own,            \* what the driver has acquired for the device; once that
                    \*   is gone, what it has failed to give back
    irp,            \* where the start request is
    at,             \* where its thread is
    event,          \* the event of ForwardAndWait, "gone" without a frame
    marked,         \* the drivers below have marked the request pending
    result,         \* the status they completed it with
    fwd             \* the status ForwardAndWait returned last

vars == <<loaded, registryPath, dev, own, irp, at, event, marked, result,
          fwd>>

start == <<irp, at, event, marked, result, fwd>>
driver == <<loaded, registryPath>>
device == <<dev, own>>

\* The device object, its place in the stack, the USBD handle, the name of the
\* device interface, the interface's being enabled.
Things == {"fdo", "stack", "usbd", "link", "enabled"}

TypeOK ==
    /\ loaded \in BOOLEAN
    /\ registryPath \in BOOLEAN
    /\ dev \in {"absent", "added", "starting", "started", "failed", "surprise"}
    /\ own \in SUBSET Things
    /\ irp \in {"none", "below", "kept", "answered", "lost"}
    /\ at \in {"idle", "calling", "waiting", "returned", "enabled"}
    /\ event \in {"gone", "clear", "set"}
    /\ marked \in BOOLEAN
    /\ result \in {"none", "ok", "fail"}
    /\ fwd \in {"none", "ok", "fail"}

Init ==
    /\ loaded = FALSE
    /\ registryPath = FALSE
    /\ dev = "absent"
    /\ own = {}
    /\ irp = "none"
    /\ at = "idle"
    /\ event = "gone"
    /\ marked = FALSE
    /\ result = "none"
    /\ fwd = "none"

-----------------------------------------------------------------------------
(* stdroutine.cpp                                                          *)

\* Without memory for the path the driver is not loaded.
DriverEntry ==
    /\ ~ loaded
    /\ loaded' = TRUE
    /\ registryPath' = TRUE
    /\ UNCHANGED <<device, start>>

Unload ==
    /\ loaded
    /\ dev = "absent"
    /\ loaded' = FALSE
    /\ registryPath' = FALSE
    /\ UNCHANGED <<device, start>>

\* When IoCreateDevice fails nothing has happened.  USBD_CreateHandle may fail:
\* AddDevice goes on.
AddDevice ==
    /\ loaded
    /\ dev = "absent"
    /\ dev' = "added"
    /\ \/ own' = {"fdo", "stack", "usbd", "link"}
       \/ SystemMayFail /\ own' = {"fdo", "stack", "link"}
    /\ UNCHANGED <<driver, start>>

\* IoRegisterDeviceInterface fails: the device object is deleted, but neither
\* detached nor its USBD handle closed.
AddDeviceFails ==
    /\ loaded
    /\ dev = "absent"
    /\ SystemMayFail
    /\ own' \in {{"stack", "usbd"}, {"stack"}}
    /\ UNCHANGED <<dev, driver, start>>

-----------------------------------------------------------------------------
(* pnp.cpp                                                                 *)

\* ForwardAndWait: the request is passed down, with a completion routine.
PnpStartDevice ==
    /\ dev = "added"
    /\ dev' = "starting"
    /\ irp' = "below"
    /\ at' = "calling"
    /\ event' = "clear"
    /\ marked' = FALSE
    /\ UNCHANGED <<own, driver, result, fwd>>

\* The drivers below queue the request.
LowerPends ==
    /\ irp = "below" /\ at = "calling" /\ ~ marked
    /\ marked' = TRUE
    /\ UNCHANGED <<device, driver, irp, at, event, result, fwd>>

BugSignalOnSuccess ==       \* KeSetEvent only for a request that succeeded
    /\ irp = "below" /\ (marked \/ at = "calling")
    /\ irp' = "kept"
    /\ \E s \in IF BusMayFail THEN {"ok", "fail"} ELSE {"ok"} :
        /\ result' = s
        /\ event' = IF event = "gone" \/ s = "fail" THEN event ELSE "set"
    /\ UNCHANGED <<device, driver, at, marked, fwd>>

\* They complete it; STATUS_MORE_PROCESSING_REQUIRED keeps it for PnpStartDevice.
OnRequestComplete ==
    /\ irp = "below" /\ (marked \/ at = "calling")
    /\ irp' = "kept"
    /\ event' = IF event = "gone" THEN event ELSE "set"
    /\ \E s \in IF BusMayFail THEN {"ok", "fail"} ELSE {"ok"} : result' = s
    /\ UNCHANGED <<device, driver, at, marked, fwd>>

BugNoWait ==                \* ForwardAndWait does not look for STATUS_PENDING
    /\ at = "calling"
    /\ marked \/ irp = "kept"
    /\ at' = "returned"
    /\ event' = "gone"
    /\ fwd' = IF irp = "kept" THEN result ELSE "ok"
    /\ UNCHANGED <<device, driver, irp, marked, result>>

\* ForwardAndWait returns with the status of the request.
ForwardReturns ==
    /\ at' = "returned"
    /\ event' = "gone"
    /\ fwd' = result

\* IoCallDriver returns, STATUS_PENDING or the final status.
CallReturns ==
    /\ at = "calling"
    /\ \/ marked /\ at' = "waiting" /\ UNCHANGED <<event, fwd>>
       \/ ~ marked /\ irp = "kept" /\ ForwardReturns
    /\ UNCHANGED <<device, driver, irp, marked, result>>

WaitDone ==
    /\ at = "waiting"
    /\ event = "set"
    /\ ForwardReturns
    /\ UNCHANGED <<device, driver, irp, marked, result>>

\* The drivers below have failed the request: so does PnpStartDevice.
StartFails ==
    /\ at = "returned" /\ fwd = "fail"
    /\ at' = "idle"
    /\ irp' = "answered"
    /\ dev' = "failed"
    /\ UNCHANGED <<own, driver, event, marked, result, fwd>>

EnableInterface ==
    /\ at = "returned" /\ fwd = "ok"
    /\ at' = "enabled"
    /\ own' = own \cup {"enabled"}
    /\ UNCHANGED <<dev, driver, irp, event, marked, result, fwd>>

\* IoSetDeviceInterfaceState fails: PnpStartDevice returns without completing
\* the request, which ForwardAndWait has taken from the I/O manager.
EnableFails ==
    /\ SystemMayFail
    /\ at = "returned" /\ fwd = "ok"
    /\ at' = "idle"
    /\ irp' = "lost"
    /\ UNCHANGED <<device, driver, event, marked, result, fwd>>

StartCompletes ==
    /\ at = "enabled"
    /\ at' = "idle"
    /\ irp' = "answered"
    /\ dev' = "started"
    /\ UNCHANGED <<own, driver, event, marked, result, fwd>>

\* DefaultPnpHandler with IRP_MN_SURPRISE_REMOVAL: the device is gone.
DefaultPnpHandler ==
    /\ dev = "started"
    /\ dev' = "surprise"
    /\ UNCHANGED <<own, driver, start>>

\* Passed down first; then the interface is disabled, its name freed, the
\* device detached and deleted.  The USBD handle is not closed.
PnpRemoveDevice ==
    /\ dev \in {"added", "started", "failed", "surprise"}
    /\ dev' = "absent"
    /\ own' = own \ {"enabled", "link", "stack", "fdo"}
    /\ irp' = "none"
    /\ result' = "none"
    /\ UNCHANGED <<driver, at, event, marked, fwd>>

-----------------------------------------------------------------------------
StartStep ==
    \/ LowerPends
    \/ OnRequestComplete
    \/ CallReturns
    \/ WaitDone
    \/ StartFails
    \/ EnableInterface
    \/ EnableFails
    \/ StartCompletes

Next ==
    \/ DriverEntry
    \/ Unload
    \/ AddDevice
    \/ AddDeviceFails
    \/ PnpStartDevice
    \/ StartStep
    \/ DefaultPnpHandler
    \/ PnpRemoveDevice

Spec == Init /\ [][Next]_vars

-----------------------------------------------------------------------------
(* Properties                                                              *)

\* The refinement mapping: the start request in the place of the URB.
requestOf == [c \in {"start"} |->
                IF irp = "below" THEN "lent"
                ELSE IF at \in {"calling", "waiting"} THEN result ELSE "mine"]

S == INSTANCE SyncCall WITH
        Callers <- {"start"}, urb <- requestOf, ret <- [c \in {"start"} |-> fwd]

\* ForwardAndWait returns the final status of the start request, and only when
\* the drivers below have given the request back, whether they complete it at
\* once, before or after IoCallDriver returns, or while the thread waits.
ImplementsSyncCall == S!Spec

\* The thread of PnpStartDevice that waits is woken: its event is set, or the
\* drivers below have queued its request and the completion routine is due.
StartIsWoken ==
    at = "waiting" => event = "set" \/ (irp = "below" /\ marked)

-----------------------------------------------------------------------------
(* The inductive invariant (module PnpProofs)                              *)

\* Where the start request, its thread and the event are together.
RoundTrip ==
    /\ at \in {"calling", "waiting"} =>
        \/ irp = "below" /\ event = "clear"
        \/ irp = "kept" /\ event = "set"
    /\ at = "waiting" => marked
    /\ irp = "below" => at \in {"calling", "waiting"}
    /\ irp = "kept" => result # "none"
    /\ at \in {"returned", "enabled"} => irp = "kept"
    /\ at # "idle" => dev = "starting"

\* A device that was added has a device object, attached to the stack.
Attached == dev # "absent" => {"fdo", "stack"} \subseteq own

\* The interface is enabled from the end of the start to the removal.
Exposed == "enabled" \in own => dev \in {"started", "surprise"} \/ at = "enabled"

IInv == TypeOK /\ RoundTrip /\ Attached /\ Exposed
=============================================================================
