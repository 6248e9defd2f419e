----------------------------- MODULE PnpProofs ------------------------------
(***************************************************************************)
(* Proofs about Pnp: the start request's round trip keeps the contract of  *)
(* SyncCall, and its thread waits only for an event that is due.           *)
(***************************************************************************)
EXTENDS Pnp, TLAPS

LEMMA InitInv == Init => IInv
  BY DEF Init, IInv, TypeOK, RoundTrip, Attached, Exposed

LEMMA NextInv == IInv /\ [Next]_vars => IInv'
<1> SUFFICES ASSUME IInv, [Next]_vars PROVE IInv'
  OBVIOUS
<1> USE DEF IInv, TypeOK, RoundTrip, Attached, Exposed, Things, start, driver, device
<1>1. CASE DriverEntry
  BY <1>1 DEF DriverEntry
<1>2. CASE Unload
  BY <1>2 DEF Unload
<1>3. CASE AddDevice
  BY <1>3 DEF AddDevice
<1>4. CASE AddDeviceFails
  BY <1>4 DEF AddDeviceFails
<1>5. CASE PnpStartDevice
  BY <1>5 DEF PnpStartDevice
<1>6. CASE DefaultPnpHandler
  BY <1>6 DEF DefaultPnpHandler
<1>7. CASE PnpRemoveDevice
  BY <1>7 DEF PnpRemoveDevice
<1>8. CASE StartStep
  <2>1. CASE LowerPends
    BY <2>1 DEF LowerPends
  <2>2. CASE OnRequestComplete
    BY <2>2 DEF OnRequestComplete
  <2>3. CASE CallReturns
    BY <2>3 DEF CallReturns, ForwardReturns
  <2>4. CASE WaitDone
    BY <2>4 DEF WaitDone, ForwardReturns
  <2>5. CASE StartFails
    BY <2>5 DEF StartFails
  <2>6. CASE EnableInterface
    BY <2>6 DEF EnableInterface
  <2>7. CASE EnableFails
    BY <2>7 DEF EnableFails
  <2>8. CASE StartCompletes
    BY <2>8 DEF StartCompletes
  <2> QED
    BY <1>8, <2>1, <2>2, <2>3, <2>4, <2>5, <2>6, <2>7, <2>8 DEF StartStep
<1>9. CASE UNCHANGED vars
  BY <1>9 DEF vars
<1> QED
  BY <1>1, <1>2, <1>3, <1>4, <1>5, <1>6, <1>7, <1>8, <1>9 DEF Next

THEOREM Invariance == Spec => []IInv
  BY InitInv, NextInv, PTL DEF Spec

-----------------------------------------------------------------------------
(* The theorems                                                            *)

\* Every variable keeps its type.
THEOREM Typing == Spec => []TypeOK
<1>1. IInv => TypeOK
  BY DEF IInv
<1> QED
  BY <1>1, Invariance, PTL

\* No wake-up of the start request's thread is lost, whether the request fails
\* or succeeds and whenever the drivers below complete it.
THEOREM StartWakes == Spec => []StartIsWoken
<1>1. IInv => StartIsWoken
  BY DEF IInv, RoundTrip, StartIsWoken
<1> QED
  BY <1>1, Invariance, PTL

LEMMA InitMaps == Init => S!Init
  BY DEF Init, S!Init, requestOf

\* What the contract sees of the start request.
LEMMA StepMaps == IInv /\ [Next]_vars => [S!Next]_(S!vars)
<1> SUFFICES ASSUME IInv, [Next]_vars
             PROVE  S!Next \/ UNCHANGED <<requestOf, fwd>>
  BY DEF S!vars
<1> USE DEF IInv, TypeOK, RoundTrip, start, driver, device
<1>1. CASE PnpStartDevice
  <2>1. S!Lend("start")
    BY <1>1 DEF PnpStartDevice, S!Lend, requestOf
  <2> QED
    BY <2>1 DEF S!Next
<1>2. CASE OnRequestComplete
  <2>1. PICK s \in {"ok", "fail"} : result' = s
    BY <1>2 DEF OnRequestComplete
  <2>2. S!HandBack("start", s)
    BY <1>2, <2>1 DEF OnRequestComplete, S!HandBack, requestOf
  <2> QED
    BY <2>2 DEF S!Next, S!Status
<1>3. CASE CallReturns
  <2>1. CASE at' = "waiting"
    BY <1>3, <2>1 DEF CallReturns, ForwardReturns, requestOf
  <2>2. CASE at' # "waiting"
    <3>1. S!Return("start")
      BY <1>3, <2>2 DEF CallReturns, ForwardReturns, S!Return, S!Status, requestOf
    <3> QED
      BY <3>1 DEF S!Next
  <2> QED
    BY <2>1, <2>2
<1>4. CASE WaitDone
  <2>1. S!Return("start")
    BY <1>4 DEF WaitDone, ForwardReturns, S!Return, S!Status, requestOf
  <2> QED
    BY <2>1 DEF S!Next
<1>5. CASE \/ DriverEntry \/ Unload \/ AddDevice \/ AddDeviceFails
           \/ LowerPends \/ DefaultPnpHandler
  BY <1>5 DEF DriverEntry, Unload, AddDevice, AddDeviceFails, LowerPends,
              DefaultPnpHandler, requestOf
<1>6. CASE StartFails \/ EnableInterface \/ EnableFails \/ StartCompletes
  BY <1>6 DEF StartFails, EnableInterface, EnableFails, StartCompletes, requestOf
<1>7. CASE PnpRemoveDevice
  BY <1>7 DEF PnpRemoveDevice, requestOf
<1>8. CASE UNCHANGED vars
  BY <1>8 DEF vars, requestOf
<1> QED
  BY <1>1, <1>2, <1>3, <1>4, <1>5, <1>6, <1>7, <1>8 DEF Next, StartStep

\* ForwardAndWait is a synchronous call in the sense of SyncCall: whenever the
\* drivers below complete the start request, PnpStartDevice goes on with its
\* final status, and never while they hold it.
THEOREM Implements == Spec => ImplementsSyncCall
  BY InitMaps, StepMaps, Invariance, PTL DEF Spec, ImplementsSyncCall, S!Spec
=============================================================================
