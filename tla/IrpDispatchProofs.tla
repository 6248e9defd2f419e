------------------------- MODULE IrpDispatchProofs --------------------------
(***************************************************************************)
(* Proofs about IrpDispatch: for any number of requests of any kinds, a    *)
(* request is completed at most once and never while the bus driver has it,*)
(* the dispatch routine's result agrees with it, and what it keeps of its  *)
(* resources is what Kept says.                                            *)
(***************************************************************************)
EXTENDS IrpDispatch, TLAPS

\* A request in state s of its own: the conjuncts of IInv about it.
Fine(i) == WhereItIs(i) /\ Marks(i) /\ Holds(i) /\ Returned(i)

LEMMA InitInv == Init => IInv
<1> SUFFICES ASSUME Init PROVE IInv
  OBVIOUS
<1>1. TypeOK
  <2>1. held \in [Irps -> SUBSET Resources]
    BY DEF Init
  <2>2. answers \in [Irps -> 0 .. 2]
    BY DEF Init
  <2> QED
    BY <2>1, <2>2 DEF Init, TypeOK
<1>2. ASSUME NEW i \in Irps PROVE Fine(i)
  BY DEF Init, Fine, WhereItIs, Marks, Holds, Returned
<1> QED
  BY <1>1, <1>2 DEF IInv, Fine

\* A step of one request leaves the invariant of every other as it was.
LEMMA Others ==
  ASSUME IInv, TypeOK', NEW i \in Irps,
         \A j \in Irps \ {i} :
            /\ code'[j] = code[j] /\ pc'[j] = pc[j] /\ status'[j] = status[j]
            /\ ret'[j] = ret[j] /\ answers'[j] = answers[j] /\ below'[j] = below[j]
            /\ lowPended'[j] = lowPended[j] /\ pended'[j] = pended[j]
            /\ held'[j] = held[j] /\ fault'[j] = fault[j],
         Fine(i)'
  PROVE  IInv'
<1>1. ASSUME NEW j \in Irps PROVE Fine(j)'
  <2>1. CASE j = i
    BY <2>1
  <2>2. CASE j # i
    BY <2>2 DEF IInv, Fine, WhereItIs, Marks, Holds, Kept, Returned
  <2> QED
    BY <2>1, <2>2
<1> QED
  BY <1>1 DEF IInv, Fine

\* A handler that ends with a status, in whatever it has kept.
LEMMA ToAnswerStep ==
  ASSUME IInv, NEW i \in Irps, pc[i] \in {"handler", "bus", "away"},
         NEW s \in Status, NEW r \in SUBSET Resources, ToAnswer(i, s, r),
         \/ UNCHANGED fault
         \/ fault' = [fault EXCEPT ![i] = TRUE],
         r = {} \/ (code[i] = "direct" /\ fault'[i]) \/ code[i] = "getFriendlyName",
         feature' \in BOOLEAN, bugcheck' \in BOOLEAN
  PROVE  IInv'
<1> USE DEF ToAnswer, Goto, SetStatus, Hold, request, lower
<1>1. TypeOK'
  BY DEF IInv, TypeOK
<1>2. Fine(i)'
  BY DEF IInv, TypeOK, Fine, WhereItIs, Marks, Holds, Kept, Returned
<1> QED
  BY <1>1, <1>2, Others DEF IInv, TypeOK

\* A handler that goes to wait.
LEMMA AwaitStep ==
  ASSUME IInv, NEW i \in Irps, pc[i] = "handler",
         NEW l \in {"bus", "away"}, NEW r \in SUBSET Resources, Await(i, l, r)
  PROVE  IInv'
<1> USE DEF Await, Goto, Hold, request, lower, system
<1>1. TypeOK'
  BY DEF IInv, TypeOK
<1>2. Fine(i)'
  BY DEF IInv, TypeOK, Fine, WhereItIs, Marks, Holds, Kept, Returned
<1> QED
  BY <1>1, <1>2, Others DEF IInv, TypeOK

LEMMA BugcheckStep == ASSUME IInv, Bugcheck PROVE IInv'
  BY DEF Bugcheck, request, lower, IInv, TypeOK, WhereItIs, Marks, Holds, Kept, Returned

\* The statuses of the bus driver are statuses.
LEMMA BusStatusType == BusStatus \subseteq Status
  BY DEF BusStatus, Status

-----------------------------------------------------------------------------
(* The steps of one request                                                *)

\* Each of these handlers ends at once, with something it has not allocated.
LEMMA HandlerEnds ==
  ASSUME IInv, NEW i \in Irps,
         \/ DidNotMatch(i) \/ Unimplemented(i) \/ RefuseEP0(i)
         \/ GetNumEndpoints(i) \/ GetPwrState(i) \/ NoSuchPipe(i)
         \/ UnknownRecipient(i) \/ DelegateReturns(i)
  PROVE  IInv'
<1>1. PICK s \in Status : ToAnswer(i, s, {})
  BY DEF DidNotMatch, Unimplemented, RefuseEP0, GetNumEndpoints, GetPwrState,
         NoSuchPipe, UnknownRecipient, DelegateReturns, Status
<1>2. pc[i] \in {"handler", "away"} /\ UNCHANGED <<fault, feature, bugcheck>>
  BY DEF DidNotMatch, Unimplemented, RefuseEP0, GetNumEndpoints, GetPwrState,
         NoSuchPipe, UnknownRecipient, DelegateReturns, Called, system
<1>3. feature' \in BOOLEAN /\ bugcheck' \in BOOLEAN
  BY <1>2 DEF IInv, TypeOK
<1> QED
  BY <1>1, <1>2, <1>3, ToAnswerStep

LEMMA GetFriendlyNameStep ==
  ASSUME IInv, NEW i \in Irps, GetFriendlyName(i) PROVE IInv'
<1>1. CASE Bugcheck
  BY <1>1, BugcheckStep
<1>2. CASE ~ Bugcheck
  <2>1. PICK s \in Status, r \in SUBSET Resources : ToAnswer(i, s, r)
    BY <1>2 DEF GetFriendlyName, Status, Resources
  <2>2. pc[i] = "handler" /\ code[i] = "getFriendlyName" /\ UNCHANGED fault
    BY <1>2 DEF GetFriendlyName, Called
  <2>3. feature' \in BOOLEAN /\ bugcheck' \in BOOLEAN
    BY <1>2 DEF GetFriendlyName, system, IInv, TypeOK
  <2> QED
    BY <2>1, <2>2, <2>3, ToAnswerStep
<1> QED
  BY <1>1, <1>2

\* Handlers that allocate for a URB, fail for want of memory, or go on without.
LEMMA SubmitStep ==
  ASSUME IInv, NEW i \in Irps,
         \/ SubmitPoolUrb(i) \/ VendorRequest(i) \/ ResetParentPort(i)
         \/ Delegate(i) \/ GetUsbDIVersion(i)
  PROVE  IInv'
<1> USE DEF SubmitPoolUrb, VendorRequest, ResetParentPort, Delegate, GetUsbDIVersion
<1>1. pc[i] = "handler"
  BY DEF Called
<1>2. CASE \E l \in {"bus", "away"}, r \in SUBSET Resources : Await(i, l, r)
  BY <1>1, <1>2, AwaitStep
<1>3. CASE Bugcheck
  BY <1>3, BugcheckStep
<1>4. CASE \E s \in Status : ToAnswer(i, s, {}) /\ UNCHANGED <<fault, system>>
  <2>1. UNCHANGED fault /\ feature' \in BOOLEAN /\ bugcheck' \in BOOLEAN
    BY <1>4 DEF system, IInv, TypeOK
  <2> QED
    BY <1>1, <1>4, <2>1, ToAnswerStep
<1> QED
  BY <1>2, <1>3, <1>4 DEF Resources, Status

LEMMA BusAnswersStep ==
  ASSUME IInv, NEW i \in Irps, BusAnswers(i) PROVE IInv'
<1>1. PICK s \in Status : ToAnswer(i, s, {})
  BY BusStatusType DEF BusAnswers
<1>2. pc[i] = "bus" /\ UNCHANGED fault
  BY DEF BusAnswers
<1>3. feature' \in BOOLEAN /\ bugcheck' \in BOOLEAN
  BY DEF BusAnswers, FeatureAfter, IInv, TypeOK
<1> QED
  BY <1>1, <1>2, <1>3, ToAnswerStep

\* A direct transfer keeps nothing, or has faulted.
LEMMA DirectStep ==
  ASSUME IInv, NEW i \in Irps,
         \/ SendNonEP0Direct(i) \/ NoKernelBuf(i)
         \/ DirectReturns(i) \/ NullReturns(i)
  PROVE  IInv'
<1> USE DEF SendNonEP0Direct, NoKernelBuf, DirectReturns, NullReturns
<1>1. code[i] = "direct" /\ pc[i] \in {"handler", "bus"}
  BY DEF Called
<1>2. CASE Bugcheck
  BY <1>2, BugcheckStep
<1>3. CASE pc[i] = "handler" /\ \E r \in SUBSET Resources : Await(i, "bus", r)
  BY <1>3, AwaitStep
<1>4. CASE \E s \in Status : ToAnswer(i, s, {}) /\ UNCHANGED <<fault, system>>
  <2>1. UNCHANGED fault /\ feature' \in BOOLEAN /\ bugcheck' \in BOOLEAN
    BY <1>4 DEF system, IInv, TypeOK
  <2> QED
    BY <1>1, <1>4, <2>1, ToAnswerStep
<1>5. CASE \E s \in Status, r \in SUBSET Resources :
                /\ ToAnswer(i, s, r)
                /\ fault' = [fault EXCEPT ![i] = TRUE]
                /\ UNCHANGED system
  <2>1. fault'[i] /\ feature' \in BOOLEAN /\ bugcheck' \in BOOLEAN
    BY <1>5 DEF system, IInv, TypeOK
  <2> QED
    BY <1>1, <1>5, <2>1, ToAnswerStep
<1>6. CASE SendNonEP0Direct(i)
  BY <1>6, <1>3, <1>4, <1>5 DEF Called, Caught, Status, Resources
<1>7. CASE NoKernelBuf(i)
  BY <1>7, <1>2, <1>3, <1>5 DEF Called, Status, Resources
<1>8. CASE DirectReturns(i)
  BY <1>8, <1>4, <1>5, BusStatusType DEF Caught, Status, Resources
<1>9. CASE NullReturns(i)
  BY <1>9, <1>2, <1>5 DEF Status, Resources
<1> QED
  BY <1>6, <1>7, <1>8, <1>9

\* A transfer to another endpoint, from its handler to its completion.
LEMMA AsyncStep ==
  ASSUME IInv, NEW i \in Irps,
         \/ SendNonEP0Fails(i) \/ SetCompletionFails(i) \/ SubmitUrbAsync(i)
         \/ LowerPends(i) \/ UrbAsyncSyncCompletionRoutine(i) \/ CallReturns(i)
  PROVE  IInv'
<1> USE DEF Goto, SetStatus, Hold, lower, system
<1>1. CASE SendNonEP0Fails(i) \/ SetCompletionFails(i)
  <2>1. PICK s \in Status, r \in SUBSET Resources : Forget(i, s, r)
    BY <1>1 DEF SendNonEP0Fails, SetCompletionFails, Status, Resources
  <2>2. pc[i] = "handler" /\ code[i] = "nonEp0"
    BY <1>1 DEF SendNonEP0Fails, SetCompletionFails, Called
  <2>3. TypeOK'
    BY <2>1 DEF Forget, IInv, TypeOK
  <2>4. Fine(i)'
    BY <2>1, <2>2
    DEF Forget, Status, IInv, TypeOK, Fine, WhereItIs, Marks, Holds, Returned
  <2> QED
    BY <2>1, <2>3, <2>4, Others DEF Forget, IInv, TypeOK
<1>2. CASE SubmitUrbAsync(i)
  <2>1. TypeOK'
    BY <1>2 DEF SubmitUrbAsync, Resources, IInv, TypeOK
  <2>2. Fine(i)'
    BY <1>2 DEF SubmitUrbAsync, Called, IInv, TypeOK, Fine, WhereItIs, Marks, Holds, Returned
  <2> QED
    BY <1>2, <2>1, <2>2, Others DEF SubmitUrbAsync, IInv, TypeOK
<1>3. CASE LowerPends(i)
  <2>1. TypeOK'
    BY <1>3 DEF LowerPends, IInv, TypeOK
  <2>2. Fine(i)'
    BY <1>3 DEF LowerPends, IInv, TypeOK, Fine, WhereItIs, Marks, Holds, Returned
  <2> QED
    BY <1>3, <2>1, <2>2, Others DEF LowerPends, IInv, TypeOK
<1>4. CASE UrbAsyncSyncCompletionRoutine(i)
  <2> USE DEF UrbAsyncSyncCompletionRoutine, IoCompleteRequest
  <2>1. answers[i] = 0
    BY <1>4 DEF IInv, TypeOK, WhereItIs
  <2>2. PICK s \in Status : SetStatus(i, s)
    BY <1>4, BusStatusType
  <2>3. TypeOK'
    BY <1>4, <2>1, <2>2 DEF IInv, TypeOK
  <2>4. Fine(i)'
    BY <1>4, <2>1, <2>2 DEF IInv, TypeOK, Fine, WhereItIs, Marks, Holds, Kept, Returned
  <2> QED
    BY <1>4, <2>2, <2>3, <2>4, Others DEF IInv, TypeOK
<1>5. CASE CallReturns(i)
  <2>1. TypeOK'
    BY <1>5 DEF CallReturns, IInv, TypeOK
  <2>2. Fine(i)'
    BY <1>5
    DEF CallReturns, Status, IInv, TypeOK, Fine, WhereItIs, Marks, Holds, Kept, Returned
  <2> QED
    BY <1>5, <2>1, <2>2, Others DEF CallReturns, IInv, TypeOK
<1> QED
  BY <1>1, <1>2, <1>3, <1>4, <1>5

\* A request comes, is completed by its handler, and is freed.
LEMMA RequestStep ==
  ASSUME IInv, NEW i \in Irps,
         \/ \E c \in Codes : DispatchDeviceIOControl(i, c)
         \/ Answer(i) \/ Free(i)
  PROVE  IInv'
<1> USE DEF Goto, SetStatus, Hold, lower, system
<1>1. ASSUME NEW c \in Codes, DispatchDeviceIOControl(i, c) PROVE IInv'
  <2> USE <1>1 DEF DispatchDeviceIOControl, Renew
  <2>1. c # "none"
    BY DEF Codes, PoolUrbs, PipeUrbs, Delegated
  <2>2. TypeOK'
    BY DEF IInv, TypeOK
  <2>3. Fine(i)'
    BY <2>1 DEF IInv, TypeOK, Fine, WhereItIs, Marks, Holds, Returned
  <2> QED
    BY <2>2, <2>3, Others DEF IInv, TypeOK
<1>2. CASE Answer(i)
  <2> USE <1>2 DEF Answer, IoCompleteRequest
  <2>1. answers[i] = 0 /\ ~ below[i]
    BY DEF IInv, TypeOK, WhereItIs
  <2>2. TypeOK'
    BY <2>1 DEF IInv, TypeOK
  <2>3. Fine(i)'
    BY <2>1 DEF Status, IInv, TypeOK, Fine, WhereItIs, Marks, Holds, Kept, Returned
  <2> QED
    BY <2>2, <2>3, Others DEF IInv, TypeOK
<1>3. CASE Free(i)
  <2> USE <1>3 DEF Free, Renew, Over
  <2>1. ~ below[i] /\ pc[i] = "idle"
    BY DEF IInv, TypeOK, WhereItIs
  <2>2. TypeOK'
    BY DEF IInv, TypeOK
  <2>3. Fine(i)'
    BY <2>1 DEF IInv, TypeOK, Fine, WhereItIs, Marks, Holds, Returned
  <2> QED
    BY <2>2, <2>3, Others DEF IInv, TypeOK
<1> QED
  BY <1>1, <1>2, <1>3

LEMMA NextInv == IInv /\ [Next]_vars => IInv'
<1> SUFFICES ASSUME IInv, [Next]_vars PROVE IInv'
  OBVIOUS
<1>1. CASE UNCHANGED vars
  BY <1>1 DEF vars, IInv, TypeOK, WhereItIs, Marks, Holds, Kept, Returned
<1>2. CASE Next
  <2>1. PICK i \in Irps :
            \/ \E c \in CodesOf(i) \cap Codes : DispatchDeviceIOControl(i, c)
            \/ Step(i)
            \/ Free(i)
    BY <1>2 DEF Next
  <2>2. CASE Handler(i)
    BY <2>2, HandlerEnds, GetFriendlyNameStep, SubmitStep, BusAnswersStep,
       DirectStep, AsyncStep, RequestStep DEF Handler
  <2> QED
    BY <2>1, <2>2, AsyncStep, RequestStep DEF Step
<1> QED
  BY <1>1, <1>2

THEOREM Invariance == Spec => []IInv
  BY InitInv, NextInv, PTL DEF Spec

-----------------------------------------------------------------------------
(* The contract: what a step does to a request as the I/O manager sees it. *)

LEMMA InitContract == Init => C!Init
  BY DEF Init, C!Init, outcome

\* One request gets an outcome, or loses it.
LEMMA OutcomeChanges ==
  ASSUME NEW i \in Irps, NEW s,
         \A j \in Irps \ {i} : answers'[j] = answers[j] /\ status'[j] = status[j],
         s = IF answers'[i] = 0 THEN "none"
             ELSE IF answers'[i] = 1 THEN status'[i] ELSE "twice"
  PROVE  outcome' = [outcome EXCEPT ![i] = s]
<1>1. ASSUME NEW j \in Irps PROVE outcome'[j] = IF j = i THEN s ELSE outcome[j]
  BY DEF outcome
<1>2. outcome' = [j \in Irps |-> outcome'[j]] /\ outcome = [j \in Irps |-> outcome[j]]
  BY DEF outcome
<1> QED BY <1>1, <1>2

\* Until the request is completed its status is the handler's own affair.
LEMMA Quiet ==
  ASSUME IInv, NEW i \in Irps, UNCHANGED <<code, ret, answers, pended>>,
         UNCHANGED status \/ (answers[i] = 0 /\ \E s : SetStatus(i, s))
  PROVE  UNCHANGED C!vars
<1>1. outcome' = outcome
  BY DEF outcome, SetStatus, IInv, TypeOK
<1> QED BY <1>1 DEF C!vars

\* A handler that works, waits, or comes to its end.
LEMMA QuietHandler ==
  ASSUME IInv, NEW i \in Irps,
         \/ DidNotMatch(i) \/ Unimplemented(i) \/ RefuseEP0(i) \/ GetUsbDIVersion(i)
         \/ GetNumEndpoints(i) \/ GetPwrState(i) \/ GetFriendlyName(i) \/ NoSuchPipe(i)
         \/ SubmitPoolUrb(i) \/ UnknownRecipient(i) \/ VendorRequest(i)
         \/ ResetParentPort(i) \/ BusAnswers(i) \/ Delegate(i) \/ DelegateReturns(i)
         \/ SendNonEP0Direct(i) \/ NoKernelBuf(i) \/ DirectReturns(i) \/ NullReturns(i)
         \/ SubmitUrbAsync(i) \/ LowerPends(i)
  PROVE  UNCHANGED C!vars
<1>1. UNCHANGED <<code, ret, answers, pended>>
  BY DEF DidNotMatch, Unimplemented, RefuseEP0, GetUsbDIVersion, GetNumEndpoints,
         GetPwrState, GetFriendlyName, NoSuchPipe, SubmitPoolUrb, UnknownRecipient,
         VendorRequest, ResetParentPort, BusAnswers, Delegate, DelegateReturns,
         SendNonEP0Direct, NoKernelBuf, DirectReturns, NullReturns, SubmitUrbAsync,
         LowerPends, ToAnswer, Await, Bugcheck, Caught, request, lower
<1>2. UNCHANGED status \/ (pc[i] \in {"handler", "bus", "away"} /\ \E s : SetStatus(i, s))
  BY DEF DidNotMatch, Unimplemented, RefuseEP0, GetUsbDIVersion, GetNumEndpoints,
         GetPwrState, GetFriendlyName, NoSuchPipe, SubmitPoolUrb, UnknownRecipient,
         VendorRequest, ResetParentPort, BusAnswers, Delegate, DelegateReturns,
         SendNonEP0Direct, NoKernelBuf, DirectReturns, NullReturns, SubmitUrbAsync,
         LowerPends, ToAnswer, Await, Bugcheck, Caught, Called
<1>3. pc[i] \in {"handler", "bus", "away"} => answers[i] = 0
  BY DEF IInv, WhereItIs
<1> QED BY <1>1, <1>2, <1>3, Quiet

\* The handler completes the request and returns.
LEMMA AnswerContract ==
  ASSUME IInv, NEW i \in Irps, Answer(i) PROVE C!Answer(i, status[i]) /\ status[i] \in Status
<1>1. answers[i] = 0 /\ code[i] # "none" /\ ret[i] = "none" /\ status[i] \in Status
  BY DEF Answer, IInv, WhereItIs, Returned
<1>2. outcome[i] = "none"
  BY <1>1 DEF outcome
<1>3. outcome' = [outcome EXCEPT ![i] = status[i]]
  BY <1>1, OutcomeChanges DEF Answer, IoCompleteRequest, IInv, TypeOK
<1> QED BY <1>1, <1>2, <1>3 DEF Answer, C!Answer, lower

\* The bus driver completes it, before or after the dispatch routine returns.
LEMMA CompleteContract ==
  ASSUME IInv, NEW i \in Irps, UrbAsyncSyncCompletionRoutine(i)
  PROVE  \E s \in Status : C!Complete(i, s, lowPended[i])
<1> USE DEF UrbAsyncSyncCompletionRoutine
<1>1. PICK s \in Status : SetStatus(i, s)
  BY BusStatusType
<1>2. answers[i] = 0 /\ code[i] # "none"
  BY DEF IInv, TypeOK, WhereItIs
<1>3. ret[i] = "none" \/ (ret[i] = "pending" /\ lowPended[i])
  BY DEF IInv, TypeOK, WhereItIs, Marks, Returned
<1>4. outcome[i] = "none"
  BY <1>2 DEF outcome
<1>5. outcome' = [outcome EXCEPT ![i] = s]
  BY <1>1, <1>2, OutcomeChanges DEF IoCompleteRequest, SetStatus, IInv, TypeOK
<1> QED BY <1>2, <1>3, <1>4, <1>5 DEF C!Complete

\* The dispatch routine returns what IoCallDriver did.
LEMMA ReturnContract ==
  ASSUME IInv, NEW i \in Irps, CallReturns(i) PROVE C!Return(i)
<1> USE DEF CallReturns
<1>1. code[i] # "none" /\ ret[i] = "none"
  BY DEF IInv, WhereItIs, Returned
<1>2. outcome' = outcome /\ UNCHANGED <<code, pended>>
  BY DEF outcome, lower
<1>3. ret'[i] = IF outcome[i] = "none" \/ pended[i] THEN "pending" ELSE outcome[i]
  BY DEF IInv, TypeOK, Status, WhereItIs, Marks, Returned, outcome
<1> QED BY <1>1, <1>2, <1>3 DEF C!Return, IInv, TypeOK

\* SendNonEP0Ctl returns without having passed the request on.
LEMMA DropContract ==
  ASSUME IInv, NEW i \in Irps, SendNonEP0Fails(i) \/ SetCompletionFails(i)
  PROVE  \E s \in Status : C!Drop(i, s)
<1>1. PICK s \in Status, r \in {{}, {"urb"}} : Forget(i, s, r)
  BY DEF SendNonEP0Fails, SetCompletionFails, Status
<1>2. answers[i] = 0 /\ code[i] # "none" /\ ret[i] = "none"
  BY DEF SendNonEP0Fails, SetCompletionFails, Called, IInv, WhereItIs, Returned
<1>3. outcome[i] = "none" /\ outcome' = outcome
  BY <1>1, <1>2 DEF Forget, outcome
<1> QED BY <1>1, <1>2, <1>3 DEF Forget, lower, C!Drop

\* A request is new, or over.
LEMMA RenewContract ==
  ASSUME IInv, NEW i \in Irps, (\E c \in Codes : DispatchDeviceIOControl(i, c)) \/ Free(i)
  PROVE  C!Send(i) \/ C!Free(i)
<1>1. CASE \E c \in Codes : DispatchDeviceIOControl(i, c)
  <2>1. PICK c \in Codes : DispatchDeviceIOControl(i, c)
    BY <1>1
  <2>2. c # "none" /\ code[i] = "none" /\ Renew(i, c)
    BY <2>1 DEF DispatchDeviceIOControl, Codes, PoolUrbs, PipeUrbs, Delegated
  <2>3. answers[i] = 0 /\ ret[i] = "none" /\ ~ pended[i]
    BY <2>2 DEF IInv, TypeOK, WhereItIs, Marks, Returned
  <2>4. UNCHANGED <<outcome, pended, ret>>
    BY <2>2, <2>3 DEF Renew, SetStatus, outcome, IInv, TypeOK
  <2>5. {j \in Irps : code'[j] # "none"} = {j \in Irps : code[j] # "none"} \cup {i}
    BY <2>2 DEF Renew, IInv, TypeOK
  <2> QED BY <2>2, <2>4, <2>5 DEF C!Send
<1>2. CASE Free(i)
  <2>1. /\ Renew(i, "none") /\ code[i] # "none" /\ answers[i] = 1
        /\ ret[i] # "none" /\ status[i] \in Status
    BY <1>2 DEF Free, Over, IInv, TypeOK, WhereItIs, Returned
  <2>2. outcome[i] # "none"
    BY <2>1 DEF Status, outcome
  <2>3. outcome' = [outcome EXCEPT ![i] = "none"]
    BY <2>1, OutcomeChanges DEF Renew, SetStatus, IInv, TypeOK
  <2>4. {j \in Irps : code'[j] # "none"} = {j \in Irps : code[j] # "none"} \ {i}
    BY <2>1 DEF Renew, IInv, TypeOK
  <2> QED BY <2>1, <2>2, <2>3, <2>4 DEF C!Free, Renew
<1> QED BY <1>1, <1>2

LEMMA ContractStep == IInv /\ [Next]_vars => [C!Next]_(C!vars)
<1> SUFFICES ASSUME IInv, [Next]_vars PROVE [C!Next]_(C!vars)
  OBVIOUS
<1>1. CASE UNCHANGED vars
  BY <1>1 DEF vars, C!vars, outcome
<1>2. CASE Next
  <2>1. PICK i \in Irps :
            \/ \E c \in Codes : DispatchDeviceIOControl(i, c)
            \/ Step(i)
            \/ Free(i)
    BY <1>2 DEF Next
  <2>2. CASE (\E c \in Codes : DispatchDeviceIOControl(i, c)) \/ Free(i)
    BY <2>2, RenewContract DEF C!Next
  <2>3. CASE Answer(i)
    BY <2>3, AnswerContract DEF C!Next, C!Status, Status
  <2>4. CASE UrbAsyncSyncCompletionRoutine(i)
    <3>1. lowPended[i] \in BOOLEAN
      BY DEF IInv, TypeOK
    <3> QED BY <2>4, <3>1, CompleteContract DEF C!Next, C!Status, Status
  <2>5. CASE CallReturns(i)
    BY <2>5, ReturnContract DEF C!Next
  <2>6. CASE SendNonEP0Fails(i) \/ SetCompletionFails(i)
    BY <2>6, DropContract DEF C!Next, C!Status, Status
  <2>7. CASE Step(i) /\ ~ Answer(i) /\ ~ UrbAsyncSyncCompletionRoutine(i)
             /\ ~ CallReturns(i) /\ ~ SendNonEP0Fails(i) /\ ~ SetCompletionFails(i)
    BY <2>7, QuietHandler DEF Step, Handler
  <2> QED BY <2>1, <2>2, <2>3, <2>4, <2>5, <2>6, <2>7
<1> QED BY <1>1, <1>2

-----------------------------------------------------------------------------
(* The theorems                                                            *)

\* Every variable keeps its type: in particular no handler ever ends with
\* STATUS_PENDING for a request it completes itself.
THEOREM Typing == Spec => []TypeOK
<1>1. IInv => TypeOK
  BY DEF IInv
<1> QED
  BY <1>1, Invariance, PTL

\* However many requests overlap, each is completed at most once, and not while
\* the bus driver holds it (SubmitUrbAsync and its completion routine).
THEOREM CompletedOnce == Spec => []AnsweredOnce
<1>1. IInv => AnsweredOnce
  BY DEF IInv, WhereItIs, AnsweredOnce
<1> QED
  BY <1>1, Invariance, PTL

\* DispatchDeviceIOControl returns STATUS_PENDING for a request that is marked
\* pending and for no other, and otherwise the status it was completed with.
THEOREM ReturnMatches == Spec => []ReturnAgrees
<1>1. IInv => ReturnAgrees
  BY DEF IInv, TypeOK, Status, WhereItIs, Marks, ReturnAgrees
<1> QED
  BY <1>1, Invariance, PTL

\* Whatever fails, a request that is over has given its memory back, except in
\* the three places named by Kept.
THEOREM NothingKept == Spec => []ResourcesReturned
<1>1. IInv => ResourcesReturned
  BY DEF IInv, Holds, Kept, Over, ResourcesReturned
<1> QED
  BY <1>1, Invariance, PTL

\* The dispatch routine keeps its contract with the I/O manager, step by step:
\* for every request, whatever its kind, and however many there are, one
\* completion, one return that agrees with it, and no change of either before
\* the request is freed.
THEOREM KeepsContract == Spec => ImplementsContract
<1>1. Init => C!Init
  BY InitContract
<1>2. IInv /\ [Next]_vars => [C!Next]_(C!vars)
  BY ContractStep
<1> QED
  BY <1>1, <1>2, Invariance, PTL DEF Spec, C!Spec, ImplementsContract
=============================================================================
