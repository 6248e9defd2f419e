---------------------------- MODULE DriverProofs ----------------------------
(***************************************************************************)
(* Proofs about Driver.  Its steps are steps of IrpDispatch and of Pnp, so *)
(* that the invariants proved of these hold in it; together with what a    *)
(* handle stands for they keep the device there for every request.         *)
(***************************************************************************)
EXTENDS Driver, TLAPS

\* The two modules with their theorems, over the variables of Driver.
IP == INSTANCE IrpDispatchProofs
PP == INSTANCE PnpProofs

\* I and IP instantiate the same definitions: nothing but expanding them all.
LEMMA SameRequests ==
  /\ I!IInv <=> IP!IInv
  /\ I!Next <=> IP!Next
  /\ I!Init <=> IP!Init
<1>1. I!IInv <=> IP!IInv
  BY DEF I!IInv, IP!IInv, I!TypeOK, IP!TypeOK, I!Codes, IP!Codes, I!PipeUrbs,
         IP!PipeUrbs, I!PoolUrbs, IP!PoolUrbs, I!Delegated, IP!Delegated,
         I!Status, IP!Status, I!Resources, IP!Resources, I!WhereItIs,
         IP!WhereItIs, I!Marks, IP!Marks, I!Holds, IP!Holds, I!Kept, IP!Kept,
         I!Returned, IP!Returned
<1>2. I!Next <=> IP!Next
  BY DEF I!PipeUrbs, IP!PipeUrbs, I!PoolUrbs, IP!PoolUrbs, I!Delegated,
         IP!Delegated, I!Codes, IP!Codes, I!Status, IP!Status, I!Goto,
         IP!Goto, I!SetStatus, IP!SetStatus, I!Hold, IP!Hold, I!BusStatus,
         IP!BusStatus, I!IoCompleteRequest, IP!IoCompleteRequest, I!lower,
         IP!lower, I!request, IP!request, I!system, IP!system, I!Called,
         IP!Called, I!ToAnswer, IP!ToAnswer, I!Await, IP!Await, I!Bugcheck,
         IP!Bugcheck, I!Over, IP!Over, I!Renew, IP!Renew,
         I!DispatchDeviceIOControl, IP!DispatchDeviceIOControl, I!Free,
         IP!Free, I!Answer, IP!Answer, I!DidNotMatch, IP!DidNotMatch,
         I!Unimplemented, IP!Unimplemented, I!RefuseEP0, IP!RefuseEP0,
         I!GetUsbDIVersion, IP!GetUsbDIVersion, I!GetNumEndpoints,
         IP!GetNumEndpoints, I!GetPwrState, IP!GetPwrState,
         I!GetFriendlyName, IP!GetFriendlyName, I!NoSuchPipe, IP!NoSuchPipe,
         I!SubmitPoolUrb, IP!SubmitPoolUrb, I!UnknownRecipient,
         IP!UnknownRecipient, I!VendorRequest, IP!VendorRequest,
         I!ResetParentPort, IP!ResetParentPort, I!Feature, IP!Feature,
         I!UrbFunction, IP!UrbFunction, I!FeatureAfter, IP!FeatureAfter,
         I!BusAnswers, IP!BusAnswers, I!Delegate, IP!Delegate,
         I!DelegateReturns, IP!DelegateReturns, I!Caught, IP!Caught,
         I!SendNonEP0Direct, IP!SendNonEP0Direct, I!NoKernelBuf,
         IP!NoKernelBuf, I!DirectReturns, IP!DirectReturns, I!NullReturns,
         IP!NullReturns, I!Forget, IP!Forget, I!SendNonEP0Fails,
         IP!SendNonEP0Fails, I!SetCompletionFails, IP!SetCompletionFails,
         I!SubmitUrbAsync, IP!SubmitUrbAsync, I!LowerPends, IP!LowerPends,
         I!UrbAsyncSyncCompletionRoutine, IP!UrbAsyncSyncCompletionRoutine,
         I!CallReturns, IP!CallReturns, I!Handler, IP!Handler, I!Step,
         IP!Step, I!Next, IP!Next
<1> QED
  BY <1>1, <1>2 DEF I!Init, IP!Init

\* So do P and PP.
LEMMA SameLife ==
  /\ P!IInv <=> PP!IInv
  /\ P!Next <=> PP!Next
  /\ P!Init <=> PP!Init
<1>1. P!IInv <=> PP!IInv
  BY DEF P!IInv, PP!IInv, P!TypeOK, PP!TypeOK, P!Things, PP!Things,
         P!RoundTrip, PP!RoundTrip, P!Attached, PP!Attached, P!Exposed,
         PP!Exposed
<1>2. P!Next <=> PP!Next
  BY DEF P!start, PP!start, P!driver, PP!driver, P!device, PP!device,
         P!DriverEntry, PP!DriverEntry, P!Unload, PP!Unload, P!AddDevice,
         PP!AddDevice, P!AddDeviceFails, PP!AddDeviceFails, P!PnpStartDevice,
         PP!PnpStartDevice, P!LowerPends, PP!LowerPends, P!OnRequestComplete,
         PP!OnRequestComplete, P!ForwardReturns, PP!ForwardReturns,
         P!CallReturns, PP!CallReturns, P!WaitDone, PP!WaitDone,
         P!StartFails, PP!StartFails, P!EnableInterface, PP!EnableInterface,
         P!EnableFails, PP!EnableFails, P!StartCompletes, PP!StartCompletes,
         P!DefaultPnpHandler, PP!DefaultPnpHandler,
         P!PnpRemoveDevice, PP!PnpRemoveDevice, P!StartStep, PP!StartStep,
         P!Next, PP!Next
<1> QED
  BY <1>1, <1>2 DEF P!Init, PP!Init

LEMMA InitInv == Init => IInv
<1> SUFFICES ASSUME Init PROVE IInv
  OBVIOUS
<1>1. I!IInv
  BY SameRequests, IP!InitInv DEF Init
<1>2. P!IInv
  BY SameLife, PP!InitInv DEF Init
<1> QED
  BY <1>1, <1>2 DEF Init, I!Init, IInv, HandleHolds

\* Every step is one of the requests, of the device's life, or of neither.
LEMMA Projects == [Next]_vars => [I!Next]_(I!vars) /\ [P!Next]_(P!vars)
<1> SUFFICES ASSUME [Next]_vars PROVE [I!Next]_(I!vars) /\ [P!Next]_(P!vars)
  OBVIOUS
<1> USE DEF requests, life, I!vars, P!vars
<1>1. CASE UNCHANGED vars
  BY <1>1 DEF vars
<1>2. CASE DispatchCreate \/ DispatchCleanUp \/ DispatchRoutine
  BY <1>2 DEF DispatchCreate, DispatchCleanUp, DispatchRoutine
<1>3. ASSUME ~ bugcheck, NEW i \in Irps, DispatchDeviceIOControl(i) \/ Step(i)
      PROVE  I!Next /\ UNCHANGED life
  BY <1>3 DEF DispatchDeviceIOControl, Step, I!Next
<1>4. CASE StartStep \/ OtherPnp \/ PnpRemoveDevice
  BY <1>4 DEF StartStep, OtherPnp, PnpRemoveDevice, P!Next
<1> QED
  BY <1>1, <1>2, <1>3, <1>4 DEF Next

\* Only a request that is there makes a step.
LEMMA StepNeedsRequest ==
  ASSUME NEW i \in Irps, I!Step(i) PROVE pc[i] # "idle" \/ below[i]
  BY DEF I!Called, I!Answer, I!DidNotMatch, I!Unimplemented, I!RefuseEP0,
         I!GetUsbDIVersion, I!GetNumEndpoints, I!GetPwrState,
         I!GetFriendlyName, I!NoSuchPipe, I!SubmitPoolUrb,
         I!UnknownRecipient, I!VendorRequest, I!ResetParentPort,
         I!BusAnswers, I!Delegate, I!DelegateReturns, I!SendNonEP0Direct,
         I!NoKernelBuf, I!DirectReturns, I!NullReturns, I!SendNonEP0Fails,
         I!SetCompletionFails, I!SubmitUrbAsync, I!LowerPends,
         I!UrbAsyncSyncCompletionRoutine, I!CallReturns, I!Handler, I!Step

LEMMA HandleStep == IInv /\ [Next]_vars => HandleHolds'
<1> SUFFICES ASSUME IInv, [Next]_vars PROVE HandleHolds'
  OBVIOUS
<1> USE DEF HandleHolds, requests, life
<1>0. HandleHolds /\ P!TypeOK /\ P!RoundTrip /\ P!Exposed
  BY DEF IInv, P!IInv
<1>1. CASE UNCHANGED vars
  BY <1>0, <1>1 DEF vars
<1>2. CASE DispatchCreate
  BY <1>0, <1>2 DEF DispatchCreate, P!Exposed
<1>3. CASE DispatchCleanUp \/ DispatchRoutine
  BY <1>0, <1>3 DEF DispatchCleanUp, DispatchRoutine
<1>4. ASSUME NEW i \in Irps, DispatchDeviceIOControl(i) PROVE HandleHolds'
  BY <1>0, <1>4 DEF DispatchDeviceIOControl
<1>5. ASSUME NEW i \in Irps, Step(i) PROVE HandleHolds'
  <2>1. code[i] # "none"
    <3>1. CASE I!Step(i)
      BY <3>1, StepNeedsRequest DEF IInv, I!IInv, I!WhereItIs
    <3>2. CASE I!Free(i)
      BY <3>2 DEF I!Free
    <3> QED
      BY <1>5, <3>1, <3>2 DEF Step
  <2>2. handle # "none" /\ UNCHANGED <<life, handle>>
    BY <1>0, <1>5, <2>1 DEF Step
  <2> QED
    BY <1>0, <2>2
<1>6. CASE StartStep
  <2>1. handle # "none" => dev' \in {"started", "surprise"} \/ at' = "enabled"
    BY <1>0, <1>6 DEF StartStep, P!StartStep, P!LowerPends, P!OnRequestComplete,
       P!CallReturns, P!ForwardReturns, P!WaitDone, P!StartFails,
       P!EnableInterface, P!EnableFails, P!StartCompletes, P!RoundTrip,
       P!device, P!driver
  <2> QED
    BY <1>0, <1>6, <2>1 DEF StartStep
<1>7. CASE OtherPnp
  <2>1. handle # "none" => dev' \in {"started", "surprise"} \/ at' = "enabled"
    BY <1>0, <1>7 DEF OtherPnp, P!DriverEntry, P!Unload, P!AddDevice,
       P!AddDeviceFails, P!PnpStartDevice, P!DefaultPnpHandler, P!RoundTrip,
       P!device, P!driver, P!start
  <2> QED
    BY <1>0, <1>7, <2>1 DEF OtherPnp
<1>8. CASE PnpRemoveDevice
  BY <1>0, <1>8 DEF PnpRemoveDevice
<1> QED
  BY <1>1, <1>2, <1>3, <1>4, <1>5, <1>6, <1>7, <1>8 DEF Next

THEOREM Invariance == Spec => []IInv
<1>1. Init => IInv
  BY InitInv
<1>2. Init => IP!IInv /\ PP!IInv
  BY InitInv, SameRequests, SameLife DEF IInv
<1>3. [Next]_vars => [IP!Next]_(IP!vars) /\ [PP!Next]_(PP!vars)
  BY Projects, SameRequests, SameLife DEF I!vars, IP!vars, P!vars, PP!vars
<1>4. Spec => [](IP!IInv /\ PP!IInv)
  BY <1>2, <1>3, IP!NextInv, PP!NextInv, PTL DEF Spec
<1>5. IP!IInv /\ PP!IInv /\ HandleHolds <=> IInv
  BY SameRequests, SameLife DEF IInv
<1> QED
  BY <1>1, <1>4, <1>5, HandleStep, PTL DEF Spec

-----------------------------------------------------------------------------
(* The theorems                                                            *)

\* Every variable keeps its type in the composition too.
THEOREM Typing == Spec => []TypeOK
<1>1. IInv => TypeOK
  BY DEF IInv, I!IInv, P!IInv, HandleHolds, TypeOK
<1> QED
  BY <1>1, Invariance, PTL

\* No request is completed twice, or below the driver that holds it, although
\* the device may be on its way out meanwhile.
THEOREM CompletedOnce == Spec => []AnsweredOnce
<1>1. IInv => AnsweredOnce
  BY DEF IInv, I!IInv, I!WhereItIs, AnsweredOnce, I!AnsweredOnce
<1> QED
  BY <1>1, Invariance, PTL

\* The dispatch routine's result agrees with the request's pending mark and
\* final status.
THEOREM ReturnMatches == Spec => []ReturnAgrees
<1>1. IInv => ReturnAgrees
  BY DEF IInv, I!IInv, I!TypeOK, I!Status, I!WhereItIs, I!Marks, ReturnAgrees,
         I!ReturnAgrees
<1> QED
  BY <1>1, Invariance, PTL

\* A request that is over keeps nothing, but in the three cases named.
THEOREM NothingKept == Spec => []ResourcesReturned
<1>1. IInv => ResourcesReturned
  BY DEF IInv, I!IInv, I!Holds, I!Kept, I!Over, ResourcesReturned, I!ResourcesReturned
<1> QED
  BY <1>1, Invariance, PTL

\* The composition only restricts the requests: it implements IrpDispatch.
LEMMA ImplementsRequests == Spec => IP!Spec
<1>1. Init => IP!Init
  BY SameRequests DEF Init
<1>2. [Next]_vars => [IP!Next]_(IP!vars)
  BY Projects, SameRequests DEF I!vars, IP!vars
<1> QED
  BY <1>1, <1>2, PTL DEF Spec, IP!Spec

\* Whatever the device does meanwhile, each request an application sends is
\* completed and returned from as the contract with the I/O manager says.
THEOREM KeepsContract == Spec => ImplementsContract
<1>1. IP!outcome = I!outcome /\ IP!outcome' = I!outcome'
  BY DEF I!outcome, IP!outcome
<1>2. IP!C!Init => I!C!Init
  BY <1>1 DEF I!C!Init, IP!C!Init
<1>3. [IP!C!Next]_(IP!C!vars) => [I!C!Next]_(I!C!vars)
  BY <1>1 DEF I!C!Next, IP!C!Next, I!C!vars, IP!C!vars, I!C!Status, IP!C!Status,
              I!C!Send, IP!C!Send, I!C!Complete, IP!C!Complete, I!C!Return,
              IP!C!Return, I!C!Answer, IP!C!Answer, I!C!Drop, IP!C!Drop, I!C!Free,
              IP!C!Free
<1> QED
  BY <1>2, <1>3, ImplementsRequests, IP!KeepsContract, PTL
     DEF ImplementsContract, I!ImplementsContract, IP!ImplementsContract,
         I!C!Spec, IP!C!Spec

\* However requests, the closing of the handle and the removal of the device
\* interleave, the device object is there and attached wherever the driver or
\* the bus driver is busy with a request.
THEOREM Outlives == Spec => []DeviceOutlivesRequests
<1>1. IInv => DeviceOutlivesRequests
  <2> SUFFICES ASSUME IInv, NEW i \in Irps, pc[i] # "idle" \/ below[i]
               PROVE  {"fdo", "stack"} \subseteq own
    BY DEF DeviceOutlivesRequests
  <2>1. code[i] # "none"
    BY DEF IInv, I!IInv, I!WhereItIs
  <2>2. dev # "absent"
    BY <2>1 DEF IInv, HandleHolds, P!IInv, P!RoundTrip
  <2> QED
    BY <2>2 DEF IInv, P!IInv, P!Attached
<1> QED
  BY <1>1, Invariance, PTL

\* The composition only restricts the life of the device: it implements Pnp.
LEMMA ImplementsLife == Spec => PP!Spec
<1>1. Init => PP!Init
  BY SameLife DEF Init
<1>2. [Next]_vars => [PP!Next]_(PP!vars)
  BY Projects, SameLife DEF P!vars, PP!vars
<1> QED
  BY <1>1, <1>2, PTL DEF Spec, PP!Spec

\* Whatever the application does beside it, the thread of PnpStartDevice waits
\* only for an event that is set or whose completion routine is still to come.
THEOREM StartWakes == Spec => []StartIsWoken
<1>1. IInv => StartIsWoken
  BY DEF IInv, P!IInv, P!RoundTrip, StartIsWoken, P!StartIsWoken
<1> QED
  BY <1>1, Invariance, PTL

\* The start request's round trip keeps the contract of SyncCall beside the
\* application's requests.
THEOREM StartImplements == Spec => ImplementsSyncCall
<1>1. PP!S!Init => P!S!Init
  BY DEF P!S!Init, PP!S!Init, P!requestOf, PP!requestOf
<1>2. [PP!S!Next]_(PP!S!vars) => [P!S!Next]_(P!S!vars)
  BY DEF P!S!Next, PP!S!Next, P!S!vars, PP!S!vars, P!requestOf, PP!requestOf,
         P!S!GiveUp, PP!S!GiveUp, P!S!Lend, PP!S!Lend, P!S!HandBack,
         PP!S!HandBack, P!S!Return, PP!S!Return, P!S!Status, PP!S!Status
<1> QED
  BY <1>1, <1>2, ImplementsLife, PP!Implements, PTL
     DEF ImplementsSyncCall, P!ImplementsSyncCall, PP!ImplementsSyncCall,
         P!S!Spec, PP!S!Spec
=============================================================================
