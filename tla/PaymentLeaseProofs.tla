------------------------- MODULE PaymentLeaseProofs -------------------------
(***************************************************************************)
(* Two properties of PaymentFulfillment with invariants of their own, each *)
(* proved on top of IInv: the lease lets one worker at a time deliver if   *)
(* nobody stalls for five minutes, and a callback is answered 2xx only for *)
(* a payment that was handled or after an error that the code swallows.    *)
(***************************************************************************)
EXTENDS PaymentFulfillmentProofs, FiniteSetTheorems

-----------------------------------------------------------------------------
(* The lease *)

\* A step that lets nobody start to deliver, adds no holder, and leaves the
\* row of whoever delivers RECHARGING and young.
LeaseQuiet ==
  /\ \A w \in Workers : pc'[w] \in Delivering => pc[w] \in Delivering
  /\ \A w \in Workers :
       pc'[w] \in {"markFailed", "completeLost"} =>
         pc[w] \in Delivering \union {"markFailed", "completeLost"}
  /\ holders' \subseteq holders
  /\ \A w \in Workers :
       pc'[w] \in Delivering => status' = "RECHARGING" /\ ~old'

\* Such a step preserves the lease's invariant.
LEMMA QuietKeepsLease ==
  ASSUME LeaseInv, LeaseQuiet PROVE LeaseInv'
<1>1. ASSUME NEW v \in Workers, NEW w \in Workers,
             pc'[v] \in Delivering, pc'[w] \in Delivering
      PROVE  v = w
  BY <1>1 DEF LeaseInv, LeaseQuiet
<1>2. ASSUME NEW w \in Workers, pc'[w] \in Delivering
      PROVE  status' = "RECHARGING" /\ ~old'
  BY <1>2 DEF LeaseQuiet
<1>3. ASSUME NEW v \in Workers, NEW w \in Workers,
             pc'[w] \in Delivering, v \in holders'
      PROVE  pc'[v] \notin {"markFailed", "completeLost"}
  <2>1. pc[w] \in Delivering /\ v \in holders
    BY <1>3 DEF LeaseQuiet
  <2>2. CASE pc[v] \in Delivering
    <3>1. v = w
      BY <2>1, <2>2 DEF LeaseInv
    <3> QED BY <3>1, <1>3 DEF Delivering, FulfilPCs
  <2>3. CASE pc[v] \notin Delivering
    BY <2>1, <2>3 DEF LeaseInv, LeaseQuiet
  <2> QED BY <2>2, <2>3
<1> QED BY <1>1, <1>2, <1>3, Zenon DEF LeaseInv

\* Who creates an order meets no delivery: nothing is paid yet.
LEMMA CreatorsAlone ==
  ASSUME IInv, NEW j \in Workers, pc[j] \in Creating, NEW w \in Workers
  PROVE  pc[w] \notin Delivering
BY DEF IInv, CreationInv, PaymentInv, Unconfirmed, Creating, Delivering,
       FulfilPCs

\* Creation, checks and their faults leave the lease alone.
LEMMA JobLease ==
  ASSUME IInv, LeaseInv, NEW j \in Jobs,
         StartJob(j) \/ JobProgress(j) \/ JobFault(j)
  PROVE  LeaseQuiet
<1> USE DEF Workers, rowVars, answerVars, localVars, Continue, Return,
            Leave, Goto, SetStatus, Touch
<1>p. pc \in [Workers -> PCs]
  BY DEF IInv, TypeOK
<1>1. CASE CreateStep(j)
  BY <1>1, <1>p, CreatorsAlone
     DEF CreateStep, InvokeProvider, SaveDetails, MarkCreateFailed, Creating,
         LeaseQuiet, LeaseInv, Delivering, FulfilPCs
<1>2. CASE StartJob(j)
  BY <1>2, <1>p
     DEF StartJob, CreateOrder, StartCancel, StartExpire, StartVerify,
         StartReconcile, StartRetry, StartCheck, LeaseQuiet, LeaseInv,
         Delivering, FulfilPCs
<1>3. CASE CheckStep(j)
  BY <1>3, <1>p
     DEF CheckStep, QueryOrder, Unanswered, CancelPayment, CancelCas,
         PersistTradeNo, LeaseQuiet, LeaseInv, Delivering, FulfilPCs
<1>4. CASE JobFault(j)
  BY <1>4, <1>p
     DEF JobFault, InvokeFails, QueryFails, Unanswered, Fault, LeaseQuiet, LeaseInv,
         Delivering, FulfilPCs
<1> QED BY <1>1, <1>2, <1>3, <1>4 DEF JobProgress

\* So do callbacks and confirmations.
LEMMA NotifyLease ==
  ASSUME IInv, LeaseInv, NEW w \in Workers,
         StartWebhook(w) \/ RefuseWebhook(w) \/ NotifyStep(w)
  PROVE  LeaseQuiet
<1> USE DEF rowVars, answerVars, localVars, Continue, Return,
            Leave, Goto, SetStatus, Touch
<1>p. pc \in [Workers -> PCs]
  BY DEF IInv, TypeOK
<1>1. CASE StartWebhook(w) \/ RefuseWebhook(w)
  BY <1>1, <1>p DEF StartWebhook, RefuseWebhook, SwallowError, LeaseQuiet,
     LeaseInv, Delivering, FulfilPCs
<1>2. CASE Confirm(w) \/ ToPaid(w) \/ AlreadyProcessed(w)
  BY <1>2, <1>p DEF Confirm, ToPaid, Payable, AlreadyProcessed, LeaseQuiet,
     LeaseInv, Delivering, FulfilPCs
<1>3. CASE ConfirmRejects(w) \/ AfterExpiry(w)
  BY <1>3, <1>p DEF ConfirmRejects, AfterExpiry, SwallowError, LeaseQuiet,
     LeaseInv, Delivering, FulfilPCs
<1> QED BY <1>1, <1>2, <1>3 DEF NotifyStep

\* So does the delivery itself.
LEMMA DeliveryLease ==
  ASSUME IInv, LeaseInv, NEW w \in Workers,
         BalanceStep(w) \/ SubscriptionStep(w)
  PROVE  LeaseQuiet
<1> USE DEF rowVars, answerVars, localVars, Continue, Return,
            Leave, Goto
<1>p. pc \in [Workers -> PCs]
  BY DEF IInv, TypeOK
<1>1. CASE BalanceStep(w)
  BY <1>1, <1>p DEF BalanceStep, LookupCode, CreateCode, Redeem, LeaseQuiet,
     LeaseInv, Delivering, FulfilPCs
<1>2. CASE SubscriptionStep(w)
  BY <1>2, <1>p DEF SubscriptionStep, AssignBegin, AssignCommit,
     InvalidateCaches, LeaseQuiet, LeaseInv, Delivering, FulfilPCs
<1> QED BY <1>1, <1>2

\* The final update is the deliverer's: no other worker that still holds the
\* row's version stands at markFailed.
LEMMA FinishLease ==
  ASSUME IInv, LeaseInv, NEW w \in Workers, FinishStep(w)
  PROVE  LeaseQuiet
<1> USE DEF rowVars, answerVars, localVars, Continue, Return,
            Leave, Goto, SetStatus, Touch
<1>p. pc \in [Workers -> PCs]
  BY DEF IInv, TypeOK
<1>1. CASE RebateClaim(w) \/ RebateCommit(w)
  BY <1>1, <1>p DEF RebateClaim, RebateCommit, LeaseQuiet, LeaseInv,
     Delivering, FulfilPCs
<1>2. CASE MarkCompleted(w)
  BY <1>2, <1>p DEF MarkCompleted, HoldsLease, LeaseQuiet, LeaseInv,
     Delivering, FulfilPCs
<1>3. CASE CompleteLost(w) \/ Notify(w)
  BY <1>3, <1>p DEF CompleteLost, Notify, LeaseQuiet, LeaseInv,
     Delivering, FulfilPCs
<1>4. CASE MarkFailed(w)
  BY <1>4, <1>p DEF MarkFailed, HoldsLease, LeaseQuiet, LeaseInv,
     Delivering, FulfilPCs
<1> QED BY <1>1, <1>2, <1>3, <1>4 DEF FinishStep

\* Faults only stop a delivery.
LEMMA WorkerFaultLease ==
  ASSUME IInv, LeaseInv, NEW w \in Workers, WorkerFault(w)
  PROVE  LeaseQuiet
<1> USE DEF rowVars, answerVars, localVars, Continue, Return,
            Leave, Goto
<1>p. pc \in [Workers -> PCs]
  BY DEF IInv, TypeOK
<1> QED
  BY <1>p DEF WorkerFault, LostRead, SwallowError, HandlerFails, StepFails,
     Crash, LeaseQuiet, LeaseInv, Delivering, FulfilPCs

\* Time passes under a delivery only if it stalls; refunds follow one.
LEMMA EnvironmentLease ==
  ASSUME "slow" \notin FaultKinds, IInv, LeaseInv, Environment
  PROVE  LeaseQuiet
<1> USE DEF rowVars, localVars, SetStatus, Touch
<1>1. CASE UserPays \/ DeadlinePasses
  BY <1>1 DEF UserPays, DeadlinePasses, LeaseQuiet, LeaseInv
<1>2. CASE RowAges
  BY <1>2 DEF RowAges, Busy, LeaseQuiet, LeaseInv, Delivering
<1>3. ~RowAgesUnderWorker
  BY DEF RowAgesUnderWorker, Fault
<1>4. CASE RefundStep
  BY <1>4 DEF RefundStep, Settled, RefundStatuses, LeaseQuiet, LeaseInv
<1> QED BY <1>1, <1>2, <1>3, <1>4 DEF Environment

\* The lease is taken only when nobody delivers, and its holders start anew.
LEMMA LeaseStepLease ==
  ASSUME IInv, LeaseInv, NEW w \in Workers, LeaseStep(w)
  PROVE  LeaseInv'
<1> USE DEF rowVars, answerVars, localVars, Continue, Return,
            Leave, Goto, SetStatus, Touch
<1>p. pc \in [Workers -> PCs]
  BY DEF IInv, TypeOK
<1>1. CASE Fulfil(w) \/ LeaseLost(w)
  <2>1. LeaseQuiet
    BY <1>1, <1>p DEF Fulfil, LeaseLost, LeaseQuiet, LeaseInv, Delivering,
       FulfilPCs
  <2> QED BY <2>1, QuietKeepsLease
<1>2. CASE AcquireLease(w)
  <2>1. CASE Leasable
    <3>1. \A v \in Workers : pc[v] \notin Delivering
      BY <2>1 DEF Leasable, LeaseInv
    <3>2. /\ status' = "RECHARGING" /\ ~old' /\ holders' = {}
          /\ pc' = [pc EXCEPT ![w] = "reload"]
      BY <1>2, <2>1 DEF AcquireLease
    <3> QED BY <1>p, <3>1, <3>2 DEF LeaseInv
  <2>2. CASE ~Leasable
    <3>1. LeaseQuiet
      BY <1>2, <2>2, <1>p DEF AcquireLease, LeaseQuiet, LeaseInv, Delivering,
         FulfilPCs
    <3> QED BY <3>1, QuietKeepsLease
  <2> QED BY <2>1, <2>2
<1>3. CASE ReloadLease(w)
  <2>1. CASE status = "RECHARGING"
    <3>1. /\ holders' = holders \union {w}
          /\ pc' = [pc EXCEPT ![w] = DeliverPC]
          /\ UNCHANGED <<status, old>>
          /\ pc[w] = "reload"
      BY <1>3, <2>1 DEF ReloadLease
    <3>2. DeliverPC \in FulfilPCs
      BY DEF DeliverPC, FulfilPCs
    <3>3. \A v \in Workers : pc'[v] \in Delivering => pc[v] \in Delivering
      BY <3>1, <1>p DEF Delivering
    <3>4. ASSUME NEW v \in Workers, NEW u \in Workers,
                 pc'[u] \in Delivering, v \in holders'
          PROVE  pc'[v] \notin {"markFailed", "completeLost"}
      <4>1. CASE v = w
        BY <3>1, <3>2, <4>1, <1>p DEF FulfilPCs
      <4>2. CASE v # w
        BY <3>1, <3>3, <3>4, <4>2, <1>p DEF LeaseInv
      <4> QED BY <4>1, <4>2
    <3> QED BY <3>1, <3>3, <3>4 DEF LeaseInv
  <2>2. CASE status # "RECHARGING"
    <3>1. LeaseQuiet
      BY <1>3, <2>2, <1>p DEF ReloadLease, LeaseQuiet, LeaseInv, Delivering,
         FulfilPCs
    <3> QED BY <3>1, QuietKeepsLease
  <2> QED BY <2>1, <2>2
<1> QED BY <1>1, <1>2, <1>3 DEF LeaseStep

\* Every step preserves the lease's invariant.
LEMMA LeaseNext ==
  ASSUME "slow" \notin FaultKinds, IInv, LeaseInv, [Next]_vars
  PROVE  LeaseInv'
<1>1. CASE Environment
  BY <1>1, EnvironmentLease, QuietKeepsLease
<1>2. ASSUME NEW c \in Callbacks, StartWebhook(c) \/ RefuseWebhook(c)
      PROVE  LeaseInv'
  BY <1>2, NotifyLease, QuietKeepsLease DEF Workers
<1>3. ASSUME NEW j \in Jobs, StartJob(j) \/ JobProgress(j) \/ JobFault(j)
      PROVE  LeaseInv'
  BY <1>3, JobLease, QuietKeepsLease
<1>4. ASSUME NEW w \in Workers, WorkerProgress(w) \/ WorkerFault(w)
      PROVE  LeaseInv'
  BY <1>4, NotifyLease, LeaseStepLease, DeliveryLease, FinishLease,
     WorkerFaultLease, QuietKeepsLease DEF WorkerProgress
<1>5. CASE UNCHANGED vars
  BY <1>5 DEF vars, rowVars, LeaseInv
<1> QED BY <1>1, <1>2, <1>3, <1>4, <1>5 DEF Next

\* If no worker stalls for five minutes, the lease of
\* acquirePaymentFulfillmentLease lets one worker at a time deliver.
THEOREM OneDelivers ==
  ASSUME "slow" \notin FaultKinds
  PROVE  Spec => []OneDeliverer
<1>1. Init => LeaseInv
  BY DEF Init, InitCommon, LeaseInv, Delivering, FulfilPCs
<1>2. IInv /\ LeaseInv /\ [Next]_vars => LeaseInv'
  BY LeaseNext
<1>3. LeaseInv => OneDeliverer
  <2> SUFFICES ASSUME LeaseInv PROVE OneDeliverer
    OBVIOUS
  <2> DEFINE D == {w \in Workers : pc[w] \in Delivering}
  <2>1. CASE D = {}
    BY <2>1, FS_EmptySet DEF OneDeliverer, Delivering
  <2>2. ASSUME NEW w \in D PROVE OneDeliverer
    <3>1. D = {w}
      BY <2>2 DEF LeaseInv
    <3> QED BY <3>1, FS_Singleton DEF OneDeliverer, Delivering
  <2> QED BY <2>1, <2>2
<1> QED BY <1>1, <1>2, <1>3, Invariance, PTL DEF Spec

-----------------------------------------------------------------------------
(* The answer to a callback *)

\* A step that answers nobody without swallowing an error, keeps what the
\* answers so far stand on, and leads nobody to an answer.
AckQuiet ==
  /\ acked' => acked \/ swallowed'
  /\ swallowed => swallowed'
  /\ audit \subseteq audit'
  /\ status \in Settled => status' \in Settled
  /\ status' \in {"NONE", "PENDING", "CANCELLED"} =>
       status \in {"NONE", "PENDING", "CANCELLED"}
  /\ \A w \in Workers :
       pc'[w] \in {"already", "notify"} => pc'[w] = pc[w]

\* Such a step preserves the invariant of the answers.
LEMMA QuietKeepsAck ==
  ASSUME AckInv, AckQuiet PROVE AckInv'
<1>1. AckMeansHandled'
  BY DEF AckInv, AckMeansHandled, TooLate, AckQuiet, Settled, RefundStatuses
<1>2. ASSUME NEW w \in Workers
      PROVE  /\ pc'[w] = "already" =>
                  status' \notin {"NONE", "PENDING", "CANCELLED"}
             /\ pc'[w] = "notify" => status' \in Settled
  BY DEF AckInv, AckQuiet
<1> QED BY <1>1, <1>2 DEF AckInv, Settled, RefundStatuses

\* Who creates an order meets no settled one.
LEMMA CreatorsUnsettled ==
  ASSUME IInv, NEW j \in Workers, pc[j] \in Creating
  PROVE  status \notin Settled /\ status # "NONE"
BY DEF IInv, TypeOK, CreationInv, DeliveryInv, SettledMeansDelivered

\* A return that answers no callback, or tells it of an error, is quiet.
LEMMA ErrorReturn ==
  ASSUME NEW w, NEW ok, Return(w, ok), ~ok \/ w \notin Callbacks
  PROVE  /\ acked' => acked
         /\ UNCHANGED swallowed
         /\ pc' = [pc EXCEPT ![w] = "idle"]
<1>1. acked' => acked
  BY Zenon DEF Return, Leave
<1> QED BY <1>1 DEF Return, Leave, Goto

\* So is one that swallows an error.
LEMMA SwallowReturn ==
  ASSUME NEW w, SwallowError(w)
  PROVE  /\ acked' => acked \/ swallowed'
         /\ swallowed => swallowed'
         /\ pc' = [pc EXCEPT ![w] = "idle"]
<1>1. acked' => acked \/ swallowed'
  BY Zenon DEF SwallowError, Leave
<1>2. swallowed => swallowed'
  BY Zenon DEF SwallowError
<1> QED BY <1>1, <1>2 DEF SwallowError, Leave, Goto

\* A best-effort row takes nothing from the audit log.
LEMMA WriteAuditGrows ==
  ASSUME NEW row, WriteAudit(row)
  PROVE  audit \subseteq audit'
BY DEF WriteAudit

\* Jobs answer no callback.
LEMMA JobAck ==
  ASSUME IInv, AckInv, NEW j \in Jobs,
         StartJob(j) \/ JobProgress(j) \/ JobFault(j)
  PROVE  AckQuiet
<1> USE DEF rowVars, answerVars, localVars, Continue, Return,
            Leave, Goto, SetStatus, Touch
<1>p. pc \in [Workers -> PCs] /\ j \in Workers /\ j \notin Callbacks
  BY WorkersAssumption DEF IInv, TypeOK, Workers
<1>1. CASE CreateStep(j)
  <2>1. CASE InvokeProvider(j)
    BY <2>1, <1>p DEF InvokeProvider, AckQuiet
  <2>2. CASE SaveDetails(j)
    <3> HIDE DEF Return, Leave
    <3>1. /\ acked' => acked
          /\ UNCHANGED swallowed
          /\ pc' = [pc EXCEPT ![j] = "idle"]
      BY <2>2, <1>p, ErrorReturn DEF SaveDetails
    <3> QED BY <2>2, <3>1, <1>p DEF SaveDetails, AckQuiet
  <2>3. CASE MarkCreateFailed(j)
    <3>1. status \notin Settled /\ status' = "FAILED"
      BY <2>3, <1>p, CreatorsUnsettled
         DEF MarkCreateFailed, CreateFailedStatus, Creating
    <3>2. acked' => acked
      BY <2>3, <1>p DEF MarkCreateFailed
    <3>3. pc' = [pc EXCEPT ![j] = "idle"] /\ UNCHANGED <<swallowed, audit>>
      BY <2>3 DEF MarkCreateFailed
    <3> QED BY <3>1, <3>2, <3>3, <1>p DEF AckQuiet
  <2> QED BY <1>1, <2>1, <2>2, <2>3 DEF CreateStep
<1>2. CASE StartJob(j)
  <2>1. CASE CreateOrder(j)
    BY <2>1, <1>p DEF CreateOrder, AckQuiet, Settled, RefundStatuses
  <2>2. CASE StartRetry(j)
    BY <2>2, <1>p DEF StartRetry, AckQuiet
  <2>3. CASE StartCancel(j) \/ StartExpire(j) \/ StartVerify(j)
               \/ StartReconcile(j)
    BY <2>3, <1>p DEF StartCancel, StartExpire, StartVerify, StartReconcile,
       StartCheck, AckQuiet
  <2> QED BY <1>2, <2>1, <2>2, <2>3 DEF StartJob
<1>3. CASE CheckStep(j)
  <2>1. CASE QueryOrder(j) /\ Return(j, TRUE)
    <3> HIDE DEF Return, Leave
    <3>1. /\ acked' => acked
          /\ UNCHANGED swallowed
          /\ pc' = [pc EXCEPT ![j] = "idle"]
      BY <2>1, <1>p, ErrorReturn DEF QueryOrder
    <3> QED BY <2>1, <3>1, <1>p DEF QueryOrder, AckQuiet
  <2>2. CASE QueryOrder(j) /\ ~Return(j, TRUE)
    <3> HIDE DEF Return, Leave
    <3> QED BY <2>2, <1>p DEF QueryOrder, Unanswered, AckQuiet
  <2>3. CASE CancelCas(j)
    <3> HIDE DEF Return, Leave
    <3>1. /\ acked' => acked
          /\ UNCHANGED swallowed
          /\ pc' = [pc EXCEPT ![j] = "idle"]
      BY <2>3, <1>p, ErrorReturn DEF CancelCas
    <3> QED BY <2>3, <3>1, <1>p DEF CancelCas, AckQuiet, Settled,
            RefundStatuses
  <2>4. CASE CancelPayment(j) \/ PersistTradeNo(j)
    BY <2>4, <1>p DEF CancelPayment, PersistTradeNo, AckQuiet
  <2> QED BY <1>3, <2>1, <2>2, <2>3, <2>4 DEF CheckStep
<1>4. CASE JobFault(j)
  <2>1. CASE InvokeFails(j)
    BY <2>1, <1>p DEF InvokeFails, AckQuiet
  <2>2. CASE QueryFails(j) /\ goal[j] = "none"
    <3> HIDE DEF Return, Leave
    <3>1. /\ acked' => acked
          /\ UNCHANGED swallowed
          /\ pc' = [pc EXCEPT ![j] = "idle"]
      BY <2>2, <1>p, ErrorReturn DEF QueryFails, Unanswered
    <3> QED BY <2>2, <3>1, <1>p DEF QueryFails, Unanswered, AckQuiet
  <2>3. CASE QueryFails(j) /\ goal[j] # "none"
    BY <2>3, <1>p DEF QueryFails, Unanswered, AckQuiet
  <2> QED BY <1>4, <2>1, <2>2, <2>3 DEF JobFault
<1> QED BY <1>1, <1>2, <1>3, <1>4 DEF JobProgress

\* confirmPayment answers at once only what alreadyProcessed finds handled.
LEMMA NotifyAck ==
  ASSUME IInv, AckInv, NEW w \in Workers,
         StartWebhook(w) \/ RefuseWebhook(w) \/ NotifyStep(w)
  PROVE  AckInv'
<1> USE DEF rowVars, answerVars, localVars, Continue, Return,
            Leave, Goto, SetStatus, Touch
<1>p. pc \in [Workers -> PCs]
  BY DEF IInv, TypeOK
<1>1. CASE StartWebhook(w) \/ Confirm(w)
  <2>1. AckQuiet
    BY <1>1, <1>p DEF StartWebhook, Confirm, AckQuiet
  <2> QED BY <2>1, QuietKeepsAck
<1>2. CASE ToPaid(w) /\ Payable
  <2>1. AckQuiet
    BY <1>2, <1>p DEF ToPaid, Payable, AckQuiet, Settled, RefundStatuses
  <2> QED BY <2>1, QuietKeepsAck
<1>3. CASE ToPaid(w) /\ ~Payable
  <2>1. status \notin {"NONE", "PENDING", "CANCELLED"}
    BY <1>3 DEF ToPaid, Payable, IInv, CreationInv, PaymentInv, Unconfirmed,
       Creating
  <2>2. /\ pc' = [pc EXCEPT ![w] = "already"]
        /\ UNCHANGED <<status, audit, acked, swallowed>>
    BY <1>3 DEF ToPaid
  <2> QED BY <2>1, <2>2, <1>p DEF AckInv, AckMeansHandled, TooLate
<1>4. CASE AlreadyProcessed(w) /\ Unfinished
  <2>1. AckQuiet
    BY <1>4, <1>p DEF AlreadyProcessed, AckQuiet
  <2> QED BY <2>1, QuietKeepsAck
<1>5. CASE AlreadyProcessed(w) /\ ~Unfinished
  <2>1. status \in Settled
    BY <1>5 DEF AlreadyProcessed, Unfinished, AckInv, IInv, TypeOK, Statuses
  <2>2. pc' = [pc EXCEPT ![w] = "idle"] /\ UNCHANGED status
    BY <1>5 DEF AlreadyProcessed
  <2> QED BY <2>1, <2>2, <1>p DEF AckInv, AckMeansHandled
<1>6. CASE AfterExpiry(w)
  <2> HIDE DEF Return, Leave
  <2>1. CASE "PAYMENT_AFTER_EXPIRY" \in audit'
    <3>1. pc' = [pc EXCEPT ![w] = "idle"] /\ UNCHANGED status
      BY <1>6, <2>1 DEF AfterExpiry, Return, Leave
    <3> QED BY <2>1, <3>1, <1>p DEF AckInv, AckMeansHandled, TooLate
  <2>2. CASE "PAYMENT_AFTER_EXPIRY" \notin audit'
    <3>1. SwallowError(w) /\ UNCHANGED status
      BY <1>6, <2>2 DEF AfterExpiry
    <3>2. audit \subseteq audit'
      BY <1>6, WriteAuditGrows DEF AfterExpiry
    <3>3. AckQuiet
      BY <3>1, <3>2, <1>p, SwallowReturn DEF AckQuiet
    <3> QED BY <3>3, QuietKeepsAck
  <2> QED BY <2>1, <2>2
<1>7. CASE ConfirmRejects(w)
  <2> HIDE DEF Return, Leave
  <2>1. audit \subseteq audit'
    BY <1>7, WriteAuditGrows DEF ConfirmRejects
  <2>2. Return(w, FALSE) /\ UNCHANGED status
    BY <1>7 DEF ConfirmRejects
  <2>3. AckQuiet
    BY <2>1, <2>2, <1>p, ErrorReturn DEF AckQuiet
  <2> QED BY <2>3, QuietKeepsAck
<1>8. CASE RefuseWebhook(w)
  <2> HIDE DEF Return, Leave
  <2>1. (SwallowError(w) \/ Return(w, FALSE)) /\ UNCHANGED <<status, audit>>
    BY <1>8 DEF RefuseWebhook
  <2>2. AckQuiet
    BY <2>1, <1>p, ErrorReturn, SwallowReturn DEF AckQuiet
  <2> QED BY <2>2, QuietKeepsAck
<1> QED BY <1>1, <1>2, <1>3, <1>4, <1>5, <1>6, <1>7, <1>8 DEF NotifyStep

\* The lease answers what somebody else completed.
LEMMA LeaseAck ==
  ASSUME IInv, AckInv, NEW w \in Workers, LeaseStep(w)
  PROVE  AckInv'
<1> USE DEF rowVars, answerVars, localVars, Continue, Return,
            Leave, Goto, SetStatus, Touch
<1>p. pc \in [Workers -> PCs]
  BY DEF IInv, TypeOK
<1>1. CASE Fulfil(w) \/ LeaseLost(w)
  <2>1. CASE acked' => acked
    <3>1. AckQuiet
      BY <1>1, <2>1, <1>p DEF Fulfil, LeaseLost, AckQuiet
    <3> QED BY <3>1, QuietKeepsAck
  <2>2. CASE acked' /\ ~acked
    <3>1. status = "COMPLETED" /\ pc' = [pc EXCEPT ![w] = "idle"]
      BY <1>1, <2>2 DEF Fulfil, LeaseLost
    <3>2. UNCHANGED status
      BY <1>1 DEF Fulfil, LeaseLost
    <3> QED BY <3>1, <3>2, <1>p DEF AckInv, AckMeansHandled, Settled
  <2> QED BY <2>1, <2>2
<1>2. CASE AcquireLease(w)
  <2>1. AckQuiet
    BY <1>2, <1>p DEF AcquireLease, Leasable, AckQuiet, Settled, RefundStatuses
  <2> QED BY <2>1, QuietKeepsAck
<1>3. CASE ReloadLease(w)
  <2>1. AckQuiet
    BY <1>3, <1>p DEF ReloadLease, DeliverPC, AckQuiet
  <2> QED BY <2>1, QuietKeepsAck
<1> QED BY <1>1, <1>2, <1>3 DEF LeaseStep

\* The delivery answers nobody.
LEMMA DeliveryAck ==
  ASSUME IInv, AckInv, NEW w \in Workers,
         BalanceStep(w) \/ SubscriptionStep(w)
  PROVE  AckQuiet
<1> USE DEF rowVars, deliveryVars, answerVars, localVars, Continue, Goto
<1>p. pc \in [Workers -> PCs]
  BY DEF IInv, TypeOK
<1>1. CASE BalanceStep(w)
  BY <1>1, <1>p DEF BalanceStep, LookupCode, CreateCode, Redeem, AckQuiet
<1>2. CASE SubscriptionStep(w)
  BY <1>2, <1>p DEF SubscriptionStep, AssignBegin, AssignCommit,
     InvalidateCaches, AckQuiet
<1> QED BY <1>1, <1>2

\* markCompleted answers when it, or somebody else, completed the order.
LEMMA FinishAck ==
  ASSUME IInv, AckInv, NEW w \in Workers, FinishStep(w)
  PROVE  AckInv'
<1> USE DEF rowVars, answerVars, localVars, Continue, Return,
            Leave, Goto, SetStatus, Touch
<1>p. pc \in [Workers -> PCs]
  BY DEF IInv, TypeOK
<1>1. CASE RebateClaim(w) \/ RebateCommit(w)
  <2>1. AckQuiet
    BY <1>1, <1>p DEF RebateClaim, RebateCommit, deliveryVars, AckQuiet
  <2> QED BY <2>1, QuietKeepsAck
<1>2. CASE MarkCompleted(w)
  <2>1. CASE HoldsLease(w)
    <3>1. /\ status' = "COMPLETED" /\ UNCHANGED <<acked, audit>>
          /\ pc' = [pc EXCEPT ![w] = "notify"]
      BY <1>2, <2>1 DEF MarkCompleted
    <3> QED BY <3>1, <1>p DEF AckInv, AckMeansHandled, Settled
  <2>2. CASE ~HoldsLease(w)
    <3>1. AckQuiet
      BY <1>2, <2>2, <1>p DEF MarkCompleted, AckQuiet
    <3> QED BY <3>1, QuietKeepsAck
  <2> QED BY <2>1, <2>2
<1>3. CASE CompleteLost(w) /\ status # "COMPLETED"
  <2>1. AckQuiet
    BY <1>3, <1>p DEF CompleteLost, AckQuiet
  <2> QED BY <2>1, QuietKeepsAck
<1>4. CASE Notify(w) \/ (CompleteLost(w) /\ status = "COMPLETED")
  <2>1. status \in Settled
    BY <1>4 DEF Notify, AckInv, Settled
  <2>2. UNCHANGED status /\ pc' = [pc EXCEPT ![w] = "idle"]
    BY <1>4 DEF Notify, CompleteLost
  <2> QED BY <2>1, <2>2, <1>p DEF AckInv, AckMeansHandled
<1>5. CASE MarkFailed(w)
  <2>1. AckQuiet
    BY <1>5, <1>p DEF MarkFailed, HoldsLease, AckQuiet, Settled, RefundStatuses
  <2> QED BY <2>1, QuietKeepsAck
<1> QED BY <1>1, <1>2, <1>3, <1>4, <1>5 DEF FinishStep

\* A worker that fails answers an error, or nothing, or swallows the error.
LEMMA WorkerFaultAck ==
  ASSUME IInv, AckInv, NEW w \in Workers, WorkerFault(w)
  PROVE  AckQuiet
<1> USE DEF rowVars, answerVars, localVars
<1>p. pc \in [Workers -> PCs]
  BY DEF IInv, TypeOK
<1>1. CASE LostRead(w)
  <2>1. SwallowError(w) /\ UNCHANGED <<status, audit>>
    BY <1>1 DEF LostRead
  <2> QED BY <2>1, <1>p, SwallowReturn DEF AckQuiet
<1>2. CASE HandlerFails(w) \/ Crash(w)
  <2>1. Return(w, FALSE) /\ UNCHANGED <<status, audit>>
    BY <1>2 DEF HandlerFails, Crash
  <2> QED BY <2>1, <1>p, ErrorReturn DEF AckQuiet
<1>3. CASE StepFails(w)
  BY <1>3, <1>p DEF StepFails, Continue, Goto, AckQuiet
<1> QED BY <1>1, <1>2, <1>3 DEF WorkerFault

\* Nor do time, users or refunds undo what was handled.
LEMMA EnvironmentAck ==
  ASSUME IInv, Environment PROVE AckQuiet
<1> USE DEF rowVars, answerVars, localVars, SetStatus, Touch
<1>1. CASE UserPays \/ DeadlinePasses \/ RowAges \/ RowAgesUnderWorker
  BY <1>1 DEF UserPays, DeadlinePasses, RowAges, RowAgesUnderWorker, AckQuiet
<1>2. CASE RefundStep
  BY <1>2 DEF RefundStep, AckQuiet, Settled, RefundStatuses
<1> QED BY <1>1, <1>2 DEF Environment

\* Every step preserves the invariant of the answers.
LEMMA AckNext ==
  ASSUME IInv, AckInv, [Next]_vars
  PROVE  AckInv'
<1>1. CASE Environment
  BY <1>1, EnvironmentAck, QuietKeepsAck
<1>2. ASSUME NEW c \in Callbacks, StartWebhook(c) \/ RefuseWebhook(c)
      PROVE  AckInv'
  BY <1>2, NotifyAck DEF Workers
<1>3. ASSUME NEW j \in Jobs, StartJob(j) \/ JobProgress(j) \/ JobFault(j)
      PROVE  AckInv'
  BY <1>3, JobAck, QuietKeepsAck
<1>4. ASSUME NEW w \in Workers, WorkerProgress(w) \/ WorkerFault(w)
      PROVE  AckInv'
  BY <1>4, NotifyAck, LeaseAck, DeliveryAck, FinishAck, WorkerFaultAck,
     QuietKeepsAck DEF WorkerProgress
<1>5. CASE UNCHANGED vars
  BY <1>5 DEF vars, rowVars, answerVars, AckInv, AckMeansHandled, TooLate
<1> QED BY <1>1, <1>2, <1>3, <1>4, <1>5 DEF Next

\* Whatever fails, a callback is answered 2xx only when its payment is settled
\* or on record as too late, or after an error that handleNotify,
\* confirmPayment or alreadyProcessed only logs.
THEOREM AnswersAreEarned == Spec => []AckMeansHandled
<1>1. Init => AckInv
  BY DEF Init, InitCommon, AckInv, AckMeansHandled
<1>2. IInv /\ AckInv /\ [Next]_vars => AckInv'
  BY AckNext
<1>3. AckInv => AckMeansHandled
  BY DEF AckInv
<1> QED BY <1>1, <1>2, <1>3, Invariance, PTL DEF Spec

=============================================================================
