---------------------- MODULE PaymentFulfillmentProofs ----------------------
(***************************************************************************)
(* The safety properties of PaymentFulfillment, and that it implements     *)
(* PaymentContract, for any sets of workers and any number of faults.      *)
(* IInv is inductive: TypeOK is shown action by action, then the protocol  *)
(* part, whose conjuncts support each other.                               *)
(***************************************************************************)
EXTENDS PaymentFulfillment, TLAPS

\* The part of IInv that is about the protocol rather than about types.
ProtocolInv == CreationInv /\ PaymentInv /\ DeliveryInv /\ WorkerInv
                 /\ SettledMeansDelivered

-----------------------------------------------------------------------------
(* Types, split into what the workers carry and what they share *)

LocalType ==
  /\ acked \in BOOLEAN /\ swallowed \in BOOLEAN
  /\ pc \in [Workers -> PCs]
  /\ goal \in [Workers -> {"none", "CANCELLED", "EXPIRED"}]
  /\ persistDue \in [Workers -> BOOLEAN]
  /\ recovered \in [Workers -> BOOLEAN]

SharedType ==
  /\ otype \in OrderTypes
  /\ status \in Statuses
  /\ paidAt \in BOOLEAN /\ tradeUp \in BOOLEAN
  /\ old \in BOOLEAN /\ due \in BOOLEAN
  /\ holders \subseteq Workers /\ owner \subseteq Workers
  /\ code \in {"absent", "unused", "used"}
  /\ credited \in Nat /\ assigned \in Nat /\ rebates \in Nat
  /\ subNote \in BOOLEAN
  /\ audit \subseteq AuditActions
  /\ upstream \in {"none", "open", "offered", "paid", "wrong", "closed"}
  /\ faults \in Nat

\* The two halves are TypeOK, before and after a step.
LEMMA TypeSplit == /\ TypeOK <=> LocalType /\ SharedType
                   /\ TypeOK' <=> LocalType' /\ SharedType'
BY DEF TypeOK, LocalType, SharedType

\* A handler that goes on keeps the workers' variables typed.
LEMMA ContinueType ==
  ASSUME LocalType, NEW w \in Workers, NEW l \in PCs, Continue(w, l)
  PROVE  LocalType'
<1>1. pc' \in [Workers -> PCs]
  BY DEF LocalType, Continue, Goto
<1> QED BY <1>1 DEF LocalType, Continue, answerVars, localVars

\* A handler that returns keeps the workers' variables typed, but for the
\* history of swallowed errors.
LEMMA LeaveType ==
  ASSUME LocalType, NEW w \in Workers, NEW ok, Leave(w, ok),
         swallowed' \in BOOLEAN
  PROVE  LocalType'
<1>1. pc' \in [Workers -> PCs]
  BY DEF LocalType, Leave, Goto, PCs
<1>2. acked' \in BOOLEAN
  BY Zenon DEF Leave
<1>3. /\ goal' \in [Workers -> {"none", "CANCELLED", "EXPIRED"}]
      /\ persistDue' \in [Workers -> BOOLEAN]
      /\ recovered' \in [Workers -> BOOLEAN]
  BY DEF LocalType, Leave
<1> QED BY <1>1, <1>2, <1>3 DEF LocalType

\* So do both ways of returning.
LEMMA ReturnType ==
  ASSUME LocalType, NEW w \in Workers, NEW ok, Return(w, ok)
  PROVE  LocalType'
BY LeaveType DEF Return, LocalType

LEMMA SwallowType ==
  ASSUME LocalType, NEW w \in Workers, SwallowError(w)
  PROVE  LocalType'
<1>1. swallowed' \in BOOLEAN
  BY Zenon DEF SwallowError
<1> QED BY <1>1, LeaveType DEF SwallowError

\* The initial states, new orders and legacy ones, satisfy the invariant.
LEMMA InitInv == Init => IInv
<1> SUFFICES ASSUME Init PROVE IInv
  OBVIOUS
<1> USE DEF Init, InitCommon, Paid, Unconfirmed, RebateDecided
<1>1. CASE InitNew
  <2>1. TypeOK
    BY <1>1 DEF InitNew, TypeOK, OrderTypes, PCs, Statuses
  <2>2. CreationInv /\ PaymentInv /\ WorkerInv
    BY <1>1 DEF InitNew, CreationInv, PaymentInv, WorkerInv, Creating
  <2>3. DeliveryInv /\ SettledMeansDelivered
    BY <1>1 DEF InitNew, DeliveryInv, SettledMeansDelivered, Settled,
         RefundStatuses
  <2> QED BY <2>1, <2>2, <2>3 DEF IInv
<1>2. CASE InitLegacy
  BY <1>2 DEF InitLegacy, IInv, TypeOK, CreationInv, PaymentInv, DeliveryInv,
       WorkerInv, SettledMeansDelivered, Creating, OrderTypes, PCs, Statuses,
       Settled, RefundStatuses
<1> QED BY <1>1, <1>2

\* The rows of which only their presence in the audit log matters.
NoteRows == {"AMOUNT_MISMATCH", "PAYMENT_AFTER_EXPIRY", "SUCCESS"}

\* Such a row is written, or its write fails and is only logged.
LEMMA WriteAuditNotes ==
  ASSUME TypeOK, NEW row \in NoteRows, WriteAudit(row)
  PROVE  /\ faults' \in Nat
         /\ audit' = audit \/ \E r \in NoteRows : audit' = audit \union {r}
BY DEF TypeOK, WriteAudit, Fault

\* A handler that returns, and writes at most such a row, preserves the
\* invariant.
LEMMA LeaveInv ==
  ASSUME IInv, NEW w \in Workers, NEW ok, Leave(w, ok), swallowed' \in BOOLEAN,
         faults' \in Nat,
         audit' = audit \/ \E r \in NoteRows : audit' = audit \union {r},
         UNCHANGED <<otype, rowVars, due, deliveryVars, upstream>>
  PROVE  IInv'
<1> USE DEF rowVars, deliveryVars
<1>1. TypeOK'
  <2>1. LocalType'
    BY TypeSplit, LeaveType DEF IInv
  <2>2. audit' \subseteq AuditActions
    BY DEF IInv, TypeOK, NoteRows, AuditActions
  <2>3. SharedType'
    BY <2>2, TypeSplit DEF IInv, SharedType
  <2> QED BY <2>1, <2>3, TypeSplit
<1>2. pc' = [pc EXCEPT ![w] = "idle"]
  BY DEF Leave, Goto
<1>3. \A r \in {"SUBSCRIPTION_ASSIGNED", "REBATE_APPLIED", "REBATE_SKIPPED"} :
        r \in audit' <=> r \in audit
  BY DEF NoteRows
<1>4. (audit' \intersect RebateRows # {}) <=> (audit \intersect RebateRows # {})
  BY <1>3 DEF RebateRows
<1>5. CreationInv' /\ PaymentInv'
  <2>1. \A v \in Workers : v # w => goal'[v] = goal[v]
    BY DEF Leave, IInv, TypeOK
  <2> QED BY <1>2, <2>1 DEF IInv, TypeOK, CreationInv, PaymentInv, Creating,
             Unconfirmed, Paid
<1>6. DeliveryInv'
  BY <1>3 DEF IInv, DeliveryInv
<1>7. SettledMeansDelivered'
  BY <1>4 DEF IInv, SettledMeansDelivered, RebateDecided
<1>8. WorkerInv'
  <2>1. \A v \in Workers : v # w => recovered'[v] = recovered[v]
    BY DEF Leave, IInv, TypeOK
  <2> QED BY <1>2, <1>3, <1>4, <2>1 DEF IInv, TypeOK, WorkerInv, RebateDecided
<1> QED BY <1>1, <1>5, <1>6, <1>7, <1>8 DEF IInv

\* Creating an order at the provider preserves the invariant.
LEMMA CreateStepInv ==
  ASSUME IInv, NEW w \in Jobs, CreateStep(w) PROVE IInv'
<1> USE DEF Workers, rowVars, deliveryVars, answerVars, localVars,
            Paid, Unconfirmed, RebateDecided
<1>1. CASE InvokeProvider(w)
  <2> USE <1>1 DEF InvokeProvider, Continue, Goto
  <2>1. TypeOK'
    <3> HIDE DEF Continue, Goto
    <3>1. LocalType'
      BY TypeSplit, ContinueType DEF IInv, PCs, FulfilPCs
    <3>2. SharedType'
      BY TypeSplit DEF IInv, SharedType
    <3> QED BY <3>1, <3>2, TypeSplit
  <2>2. ProtocolInv'
    BY DEF IInv, TypeOK, ProtocolInv, CreationInv, PaymentInv, DeliveryInv,
         WorkerInv, SettledMeansDelivered, Creating, FulfilPCs, RebateRows,
         Settled, RefundStatuses, OrderTypes
  <2> QED BY <2>1, <2>2 DEF IInv, ProtocolInv
<1>2. CASE SaveDetails(w)
  <2> USE <1>2 DEF SaveDetails, Touch
  <2>1. TypeOK'
    <3>1. LocalType'
      BY TypeSplit, ReturnType DEF IInv
    <3>2. SharedType'
      BY TypeSplit DEF IInv, SharedType
    <3> QED BY <3>1, <3>2, TypeSplit
  <2>2. CreationInv' /\ PaymentInv'
    BY DEF Return, Leave, Goto, IInv, TypeOK, CreationInv, PaymentInv, Creating
  <2>3. DeliveryInv' /\ SettledMeansDelivered'
    BY DEF IInv, TypeOK, DeliveryInv, SettledMeansDelivered, RebateRows
  <2>4. WorkerInv'
    BY DEF Return, Leave, Goto, IInv, TypeOK, WorkerInv, RebateRows
  <2> QED BY <2>1, <2>2, <2>3, <2>4 DEF IInv
<1>3. CASE MarkCreateFailed(w)
  <2> USE <1>3 DEF MarkCreateFailed, CreateFailedStatus, SetStatus, Touch
  <2>1. TypeOK'
    <3>1. LocalType'
      BY TypeSplit, ReturnType DEF IInv
    <3>2. SharedType'
      BY TypeSplit DEF IInv, SharedType, Statuses
    <3> QED BY <3>1, <3>2, TypeSplit
  <2>2. CreationInv' /\ PaymentInv'
    BY DEF Return, Leave, Goto, IInv, TypeOK, CreationInv, PaymentInv, Creating
  <2>3. DeliveryInv'
    BY DEF IInv, TypeOK, DeliveryInv
  <2>4. SettledMeansDelivered'
    BY DEF IInv, TypeOK, SettledMeansDelivered, RebateRows, Settled,
         RefundStatuses
  <2>5. WorkerInv'
    BY DEF Return, Leave, Goto, IInv, TypeOK, WorkerInv, RebateRows
  <2> QED BY <2>1, <2>2, <2>3, <2>4, <2>5 DEF IInv
<1> QED BY <1>1, <1>2, <1>3 DEF CreateStep

\* So does starting a job: creation, cancellation, expiry, verification,
\* reconciliation, retry.
LEMMA StartJobInv ==
  ASSUME IInv, NEW w \in Jobs, StartJob(w) PROVE IInv'
<1> USE DEF Workers, rowVars, deliveryVars, answerVars, localVars,
            Paid, Unconfirmed, RebateDecided
<1>1. CASE CreateOrder(w)
  <2> USE <1>1 DEF CreateOrder, SetStatus, Continue, Goto, Touch
  <2>1. TypeOK'
    <3> HIDE DEF Continue, Goto
    <3>1. LocalType'
      BY TypeSplit, ContinueType DEF IInv, PCs, FulfilPCs
    <3>2. SharedType'
      BY TypeSplit DEF IInv, SharedType, Statuses
    <3> QED BY <3>1, <3>2, TypeSplit
  <2>2. ProtocolInv'
    BY DEF IInv, TypeOK, ProtocolInv, CreationInv, PaymentInv, DeliveryInv,
         WorkerInv, SettledMeansDelivered, Creating, FulfilPCs, RebateRows,
         Settled, RefundStatuses, OrderTypes
  <2> QED BY <2>1, <2>2 DEF IInv, ProtocolInv
<1>2. CASE StartCancel(w)
  <2> USE <1>2 DEF StartCancel, StartCheck, Goto
  <2>1. TypeOK'
    BY DEF IInv, TypeOK, PCs
  <2>2. ProtocolInv'
    BY DEF IInv, TypeOK, ProtocolInv, CreationInv, PaymentInv, DeliveryInv,
         WorkerInv, SettledMeansDelivered, Creating, FulfilPCs, RebateRows,
         Settled, RefundStatuses, OrderTypes
  <2> QED BY <2>1, <2>2 DEF IInv, ProtocolInv
<1>3. CASE StartExpire(w)
  <2> USE <1>3 DEF StartExpire, Overdue, StartCheck, Goto
  <2>1. TypeOK'
    BY DEF IInv, TypeOK, PCs
  <2>2. ProtocolInv'
    BY DEF IInv, TypeOK, ProtocolInv, CreationInv, PaymentInv, DeliveryInv,
         WorkerInv, SettledMeansDelivered, Creating, FulfilPCs, RebateRows,
         Settled, RefundStatuses, OrderTypes
  <2> QED BY <2>1, <2>2 DEF IInv, ProtocolInv
<1>4. CASE StartVerify(w)
  <2> USE <1>4 DEF StartVerify, StartCheck, Goto
  <2>1. TypeOK'
    BY DEF IInv, TypeOK, PCs
  <2>2. ProtocolInv'
    BY DEF IInv, TypeOK, ProtocolInv, CreationInv, PaymentInv, DeliveryInv,
         WorkerInv, SettledMeansDelivered, Creating, FulfilPCs, RebateRows,
         Settled, RefundStatuses, OrderTypes
  <2> QED BY <2>1, <2>2 DEF IInv, ProtocolInv
<1>5. CASE StartReconcile(w)
  <2> USE <1>5 DEF StartReconcile, StartCheck, Goto
  <2>1. TypeOK'
    BY DEF IInv, TypeOK, PCs
  <2>2. ProtocolInv'
    BY DEF IInv, TypeOK, ProtocolInv, CreationInv, PaymentInv, DeliveryInv,
         WorkerInv, SettledMeansDelivered, Creating, FulfilPCs, RebateRows,
         Settled, RefundStatuses, OrderTypes
  <2> QED BY <2>1, <2>2 DEF IInv, ProtocolInv
<1>6. CASE StartRetry(w)
  <2> USE <1>6 DEF StartRetry, Retryable, Continue, Goto
  <2>1. TypeOK'
    <3> HIDE DEF Continue, Goto
    <3>1. LocalType'
      BY TypeSplit, ContinueType DEF IInv, PCs, FulfilPCs
    <3>2. SharedType'
      BY TypeSplit DEF IInv, SharedType
    <3> QED BY <3>1, <3>2, TypeSplit
  <2>2. ProtocolInv'
    BY DEF IInv, TypeOK, ProtocolInv, CreationInv, PaymentInv, DeliveryInv,
         WorkerInv, SettledMeansDelivered, Creating, FulfilPCs, RebateRows,
         Settled, RefundStatuses, OrderTypes
  <2> QED BY <2>1, <2>2 DEF IInv, ProtocolInv
<1> QED BY <1>1, <1>2, <1>3, <1>4, <1>5, <1>6 DEF StartJob

\* So does the upstream check of checkPaidWithOptions and cancelCore.
LEMMA CheckStepInv ==
  ASSUME IInv, NEW w \in Jobs, CheckStep(w) PROVE IInv'
<1> USE DEF Workers, rowVars, deliveryVars, answerVars, localVars,
            Paid, Unconfirmed, RebateDecided
<1>1. CASE QueryOrder(w)
  <2> USE <1>1 DEF QueryOrder, Unanswered, Continue, Goto
  <2>1. TypeOK'
    <3> HIDE DEF Continue, Goto
    <3>1. LocalType'
      BY TypeSplit, ContinueType, ReturnType DEF IInv, PCs, FulfilPCs
    <3>2. SharedType'
      BY TypeSplit DEF IInv, SharedType
    <3> QED BY <3>1, <3>2, TypeSplit
  <2>2. ProtocolInv'
    BY DEF Return, Leave, Goto, IInv, TypeOK, ProtocolInv, CreationInv,
         PaymentInv, DeliveryInv,
         WorkerInv, SettledMeansDelivered, Creating, FulfilPCs, RebateRows,
         Settled, RefundStatuses, OrderTypes
  <2> QED BY <2>1, <2>2 DEF IInv, ProtocolInv
<1>2. CASE CancelPayment(w)
  <2> USE <1>2 DEF CancelPayment, Continue, Goto
  <2>1. TypeOK'
    <3> HIDE DEF Continue, Goto
    <3>1. LocalType'
      BY TypeSplit, ContinueType DEF IInv, PCs, FulfilPCs
    <3>2. SharedType'
      BY TypeSplit DEF IInv, SharedType
    <3> QED BY <3>1, <3>2, TypeSplit
  <2>2. ProtocolInv'
    BY DEF IInv, TypeOK, ProtocolInv, CreationInv, PaymentInv, DeliveryInv,
         WorkerInv, SettledMeansDelivered, Creating, FulfilPCs, RebateRows,
         Settled, RefundStatuses, OrderTypes
  <2> QED BY <2>1, <2>2 DEF IInv, ProtocolInv
<1>3. CASE CancelCas(w)
  <2> USE <1>3 DEF CancelCas, SetStatus, Touch
  <2>1. TypeOK'
    <3>1. LocalType'
      BY TypeSplit, ReturnType DEF IInv
    <3>2. SharedType'
      <4>1. CASE status = "PENDING"
        <5>1. status' \in Statuses
          BY <4>1, TypeSplit DEF IInv, LocalType, PaymentInv, Statuses
        <5> QED BY <4>1, <5>1, TypeSplit DEF IInv, SharedType
      <4>2. CASE status # "PENDING"
        BY <4>2, TypeSplit DEF IInv, SharedType
      <4> QED BY <4>1, <4>2
    <3> QED BY <3>1, <3>2, TypeSplit
  <2>2. CreationInv' /\ PaymentInv'
    BY DEF Return, Leave, Goto, IInv, TypeOK, CreationInv, PaymentInv, Creating
  <2>3. DeliveryInv'
    BY DEF IInv, TypeOK, DeliveryInv
  <2>4. SettledMeansDelivered'
    BY DEF IInv, TypeOK, PaymentInv, SettledMeansDelivered, RebateRows, Settled,
         RefundStatuses
  <2>5. WorkerInv'
    BY DEF Return, Leave, Goto, IInv, TypeOK, WorkerInv, RebateRows
  <2> QED BY <2>1, <2>2, <2>3, <2>4, <2>5 DEF IInv
<1>4. CASE PersistTradeNo(w)
  <2> USE <1>4 DEF PersistTradeNo, Touch, Continue, Goto
  <2>1. TypeOK'
    <3> HIDE DEF Continue, Goto
    <3>1. LocalType'
      BY TypeSplit, ContinueType DEF IInv, PCs, FulfilPCs
    <3>2. SharedType'
      BY TypeSplit DEF IInv, SharedType
    <3> QED BY <3>1, <3>2, TypeSplit
  <2>2. ProtocolInv'
    BY DEF IInv, TypeOK, ProtocolInv, CreationInv, PaymentInv, DeliveryInv,
         WorkerInv, SettledMeansDelivered, Creating, FulfilPCs, RebateRows,
         Settled, RefundStatuses, OrderTypes
  <2> QED BY <2>1, <2>2 DEF IInv, ProtocolInv
<1> QED BY <1>1, <1>2, <1>3, <1>4 DEF CheckStep

\* So does handling a notification up to toPaid and alreadyProcessed.
LEMMA NotifyStepInv ==
  ASSUME IInv, NEW w \in Workers, NotifyStep(w) PROVE IInv'
<1> USE DEF rowVars, deliveryVars, answerVars, localVars,
            Paid, Unconfirmed, RebateDecided
<1>1. CASE Confirm(w)
  <2> USE <1>1 DEF Confirm, Continue, Goto
  <2>1. TypeOK'
    <3> HIDE DEF Continue, Goto
    <3>1. LocalType'
      BY TypeSplit, ContinueType DEF IInv, PCs, FulfilPCs
    <3>2. SharedType'
      BY TypeSplit DEF IInv, SharedType
    <3> QED BY <3>1, <3>2, TypeSplit
  <2>2. ProtocolInv'
    BY DEF IInv, TypeOK, ProtocolInv, CreationInv, PaymentInv, DeliveryInv,
         WorkerInv, SettledMeansDelivered, Creating, FulfilPCs, RebateRows,
         Settled, RefundStatuses, OrderTypes
  <2> QED BY <2>1, <2>2 DEF IInv, ProtocolInv
<1>2. CASE ToPaid(w)
  <2> USE <1>2 DEF ToPaid, Payable, SetStatus, Continue, Goto, Touch
  <2>1. TypeOK'
    <3> HIDE DEF Continue, Goto
    <3>1. LocalType'
      BY TypeSplit, ContinueType DEF IInv, PCs, FulfilPCs
    <3>2. SharedType'
      BY TypeSplit DEF IInv, SharedType, Statuses
    <3> QED BY <3>1, <3>2, TypeSplit
  <2>2. ProtocolInv'
    BY DEF IInv, TypeOK, ProtocolInv, CreationInv, PaymentInv, DeliveryInv,
         WorkerInv, SettledMeansDelivered, Creating, FulfilPCs, RebateRows,
         Settled, RefundStatuses, OrderTypes
  <2> QED BY <2>1, <2>2 DEF IInv, ProtocolInv
<1>3. CASE AlreadyProcessed(w)
  <2> USE <1>3 DEF AlreadyProcessed, Unfinished, Continue, Goto
  <2>1. TypeOK'
    <3> HIDE DEF Continue, Goto
    <3>1. LocalType'
      BY TypeSplit, ContinueType, ReturnType DEF IInv, PCs, FulfilPCs
    <3>2. SharedType'
      BY TypeSplit DEF IInv, SharedType, AuditActions
    <3> QED BY <3>1, <3>2, TypeSplit
  <2>2. ProtocolInv'
    BY DEF Return, Leave, Goto, IInv, TypeOK, ProtocolInv, CreationInv,
         PaymentInv, DeliveryInv,
         WorkerInv, SettledMeansDelivered, Creating, FulfilPCs, RebateRows,
         Settled, RefundStatuses, OrderTypes
  <2> QED BY <2>1, <2>2 DEF IInv, ProtocolInv
<1>4. CASE ConfirmRejects(w)
  <2> USE <1>4 DEF ConfirmRejects
  <2>1. swallowed' \in BOOLEAN
    BY DEF Return, IInv, TypeOK
  <2> QED BY <2>1, LeaveInv, WriteAuditNotes DEF IInv, Return, NoteRows
<1>5. CASE AfterExpiry(w)
  <2> USE <1>5 DEF AfterExpiry
  <2>1. \E ok \in BOOLEAN : Leave(w, ok) /\ swallowed' \in BOOLEAN
    BY DEF Return, SwallowError, IInv, TypeOK
  <2> QED BY <2>1, LeaveInv, WriteAuditNotes DEF IInv, NoteRows
<1> QED BY <1>1, <1>2, <1>3, <1>4, <1>5 DEF NotifyStep

\* So does acquiring, losing or reading back the lease.
LEMMA LeaseStepInv ==
  ASSUME IInv, NEW w \in Workers, LeaseStep(w) PROVE IInv'
<1> USE DEF rowVars, deliveryVars, answerVars, localVars,
            Paid, Unconfirmed, RebateDecided
<1>1. CASE Fulfil(w)
  <2> USE <1>1 DEF Fulfil, Continue, Goto
  <2>1. TypeOK'
    <3> HIDE DEF Continue, Goto
    <3>1. LocalType'
      BY TypeSplit, ContinueType, ReturnType DEF IInv, PCs, FulfilPCs
    <3>2. SharedType'
      BY TypeSplit DEF IInv, SharedType
    <3> QED BY <3>1, <3>2, TypeSplit
  <2>2. ProtocolInv'
    BY DEF Return, Leave, Goto, IInv, TypeOK, ProtocolInv, CreationInv,
         PaymentInv, DeliveryInv,
         WorkerInv, SettledMeansDelivered, Creating, FulfilPCs, RebateRows,
         Settled, RefundStatuses, OrderTypes
  <2> QED BY <2>1, <2>2 DEF IInv, ProtocolInv
<1>2. CASE AcquireLease(w)
  <2> USE <1>2 DEF AcquireLease, Leasable, SetStatus, Continue, Goto, Touch
  <2>1. TypeOK'
    <3> HIDE DEF Continue, Goto
    <3>1. LocalType'
      BY TypeSplit, ContinueType DEF IInv, PCs, FulfilPCs
    <3>2. SharedType'
      BY TypeSplit DEF IInv, SharedType, Statuses
    <3> QED BY <3>1, <3>2, TypeSplit
  <2>2. ProtocolInv'
    BY DEF IInv, TypeOK, ProtocolInv, CreationInv, PaymentInv, DeliveryInv,
         WorkerInv, SettledMeansDelivered, Creating, FulfilPCs, RebateRows,
         Settled, RefundStatuses, OrderTypes
  <2> QED BY <2>1, <2>2 DEF IInv, ProtocolInv
<1>3. CASE LeaseLost(w)
  <2> USE <1>3 DEF LeaseLost
  <2>1. swallowed' \in BOOLEAN /\ faults' \in Nat
    BY DEF Return, IInv, TypeOK
  <2> QED BY <2>1, LeaveInv DEF Return
<1>4. CASE ReloadLease(w)
  <2> USE <1>4 DEF ReloadLease, DeliverPC, Continue, Goto
  <2>1. TypeOK'
    <3> HIDE DEF Continue, Goto
    <3>1. LocalType'
      BY TypeSplit, ContinueType, ReturnType DEF IInv, PCs, FulfilPCs
    <3>2. SharedType'
      BY TypeSplit DEF IInv, SharedType
    <3> QED BY <3>1, <3>2, TypeSplit
  <2>2. ProtocolInv'
    BY DEF Return, Leave, Goto, IInv, TypeOK, ProtocolInv, CreationInv,
         PaymentInv, DeliveryInv,
         WorkerInv, SettledMeansDelivered, Creating, FulfilPCs, RebateRows,
         Settled, RefundStatuses, OrderTypes
  <2> QED BY <2>1, <2>2 DEF IInv, ProtocolInv
<1> QED BY <1>1, <1>2, <1>3, <1>4 DEF LeaseStep

\* So does delivering a balance order through its redeem code.
LEMMA BalanceStepInv ==
  ASSUME IInv, NEW w \in Workers, BalanceStep(w) PROVE IInv'
<1> USE DEF rowVars, deliveryVars, answerVars, localVars,
            Paid, Unconfirmed, RebateDecided
<1>1. CASE LookupCode(w)
  <2> USE <1>1 DEF LookupCode, Redeemed, Continue, Goto
  <2>1. TypeOK'
    <3> HIDE DEF Continue, Goto
    <3>1. LocalType'
      BY TypeSplit, ContinueType DEF IInv, PCs, FulfilPCs
    <3>2. SharedType'
      BY TypeSplit DEF IInv, SharedType
    <3> QED BY <3>1, <3>2, TypeSplit
  <2>2. ProtocolInv'
    BY DEF IInv, TypeOK, ProtocolInv, CreationInv, PaymentInv, DeliveryInv,
         WorkerInv, SettledMeansDelivered, Creating, FulfilPCs, RebateRows,
         Settled, RefundStatuses, OrderTypes
  <2> QED BY <2>1, <2>2 DEF IInv, ProtocolInv
<1>2. CASE CreateCode(w)
  <2> USE <1>2 DEF CreateCode, Continue, Goto
  <2>1. TypeOK'
    <3> HIDE DEF Continue, Goto
    <3>1. LocalType'
      BY TypeSplit, ContinueType DEF IInv, PCs, FulfilPCs
    <3>2. SharedType'
      BY TypeSplit DEF IInv, SharedType
    <3> QED BY <3>1, <3>2, TypeSplit
  <2>2. ProtocolInv'
    BY DEF IInv, TypeOK, ProtocolInv, CreationInv, PaymentInv, DeliveryInv,
         WorkerInv, SettledMeansDelivered, Creating, FulfilPCs, RebateRows,
         Settled, RefundStatuses, OrderTypes
  <2> QED BY <2>1, <2>2 DEF IInv, ProtocolInv
<1>3. CASE Redeem(w)
  <2> USE <1>3 DEF Redeem, Usable, Continue, Goto
  <2>1. TypeOK'
    <3> HIDE DEF Continue, Goto
    <3>1. LocalType'
      BY TypeSplit, ContinueType DEF IInv, PCs, FulfilPCs
    <3>2. SharedType'
      BY TypeSplit DEF IInv, SharedType
    <3> QED BY <3>1, <3>2, TypeSplit
  <2>2. ProtocolInv'
    BY DEF IInv, TypeOK, ProtocolInv, CreationInv, PaymentInv, DeliveryInv,
         WorkerInv, SettledMeansDelivered, Creating, FulfilPCs, RebateRows,
         Settled, RefundStatuses, OrderTypes
  <2> QED BY <2>1, <2>2 DEF IInv, ProtocolInv
<1> QED BY <1>1, <1>2, <1>3 DEF BalanceStep

\* So does delivering a subscription order.
LEMMA SubscriptionStepInv ==
  ASSUME IInv, NEW w \in Workers, SubscriptionStep(w) PROVE IInv'
<1> USE DEF rowVars, deliveryVars, answerVars, localVars,
            Paid, Unconfirmed, RebateDecided
<1>1. CASE AssignBegin(w)
  <2> USE <1>1 DEF AssignBegin, Goto
  <2>1. TypeOK'
    BY DEF IInv, TypeOK, PCs, FulfilPCs
  <2>2. ProtocolInv'
    BY DEF IInv, TypeOK, ProtocolInv, CreationInv, PaymentInv, DeliveryInv,
         WorkerInv, SettledMeansDelivered, Creating, FulfilPCs, RebateRows,
         Settled, RefundStatuses, OrderTypes
  <2> QED BY <2>1, <2>2 DEF IInv, ProtocolInv
<1>2. CASE AssignCommit(w)
  <2> USE <1>2 DEF AssignCommit, Continue, Goto
  <2>1. TypeOK'
    <3> HIDE DEF Continue, Goto
    <3>1. LocalType'
      BY TypeSplit, ContinueType DEF IInv, PCs, FulfilPCs
    <3>2. SharedType'
      <4>1. audit' \subseteq AuditActions
        BY TypeSplit DEF IInv, SharedType, AuditActions
      <4>2. assigned' \in Nat
        BY TypeSplit DEF IInv, SharedType
      <4>3. subNote' \in BOOLEAN
        BY TypeSplit DEF IInv, SharedType
      <4> QED BY <4>1, <4>2, <4>3, TypeSplit DEF IInv, SharedType
    <3> QED BY <3>1, <3>2, TypeSplit
  <2>2. ProtocolInv'
    BY DEF IInv, TypeOK, ProtocolInv, CreationInv, PaymentInv, DeliveryInv,
         WorkerInv, SettledMeansDelivered, Creating, FulfilPCs, RebateRows,
         Settled, RefundStatuses, OrderTypes
  <2> QED BY <2>1, <2>2 DEF IInv, ProtocolInv
<1>3. CASE InvalidateCaches(w)
  <2> USE <1>3 DEF InvalidateCaches, Continue, Goto
  <2>1. TypeOK'
    <3> HIDE DEF Continue, Goto
    <3>1. LocalType'
      BY TypeSplit, ContinueType DEF IInv, PCs, FulfilPCs
    <3>2. SharedType'
      BY TypeSplit DEF IInv, SharedType
    <3> QED BY <3>1, <3>2, TypeSplit
  <2>2. ProtocolInv'
    BY DEF IInv, TypeOK, ProtocolInv, CreationInv, PaymentInv, DeliveryInv,
         WorkerInv, SettledMeansDelivered, Creating, FulfilPCs, RebateRows,
         Settled, RefundStatuses, OrderTypes
  <2> QED BY <2>1, <2>2 DEF IInv, ProtocolInv
<1> QED BY <1>1, <1>2, <1>3 DEF SubscriptionStep

\* So do the rebate and the final transitions of the order.
LEMMA FinishStepInv ==
  ASSUME IInv, NEW w \in Workers, FinishStep(w) PROVE IInv'
<1> USE DEF rowVars, deliveryVars, answerVars, localVars,
            Paid, Unconfirmed, RebateDecided
<1>1. CASE RebateClaim(w)
  <2> USE <1>1 DEF RebateClaim, Continue, Goto
  <2>1. TypeOK'
    <3> HIDE DEF Continue, Goto
    <3>1. LocalType'
      BY TypeSplit, ContinueType DEF IInv, PCs, FulfilPCs
    <3>2. SharedType'
      BY TypeSplit DEF IInv, SharedType
    <3> QED BY <3>1, <3>2, TypeSplit
  <2>2. ProtocolInv'
    BY DEF IInv, TypeOK, ProtocolInv, CreationInv, PaymentInv, DeliveryInv,
         WorkerInv, SettledMeansDelivered, Creating, FulfilPCs, RebateRows,
         Settled, RefundStatuses, OrderTypes
  <2> QED BY <2>1, <2>2 DEF IInv, ProtocolInv
<1>2. CASE RebateCommit(w)
  <2> USE <1>2 DEF RebateCommit, ClaimedByOther, Continue, Goto
  <2>1. TypeOK'
    <3> HIDE DEF Continue, Goto
    <3>1. LocalType'
      BY TypeSplit, ContinueType DEF IInv, PCs, FulfilPCs
    <3>2. SharedType'
      BY TypeSplit DEF IInv, SharedType, AuditActions
    <3> QED BY <3>1, <3>2, TypeSplit
  <2>2. ProtocolInv'
    BY DEF IInv, TypeOK, ProtocolInv, CreationInv, PaymentInv, DeliveryInv,
         WorkerInv, SettledMeansDelivered, Creating, FulfilPCs, RebateRows,
         Settled, RefundStatuses, OrderTypes
  <2> QED BY <2>1, <2>2 DEF IInv, ProtocolInv
<1>3. CASE MarkCompleted(w)
  <2> USE <1>3 DEF MarkCompleted, HoldsLease, SetStatus, Continue, Goto, Touch
  <2>1. TypeOK'
    <3> HIDE DEF Continue, Goto
    <3>1. LocalType'
      BY TypeSplit, ContinueType DEF IInv, PCs, FulfilPCs
    <3>2. SharedType'
      <4>1. status' \in Statuses
        BY TypeSplit DEF IInv, SharedType, Statuses, Settled
      <4>2. old' \in BOOLEAN /\ holders' \subseteq Workers
        BY TypeSplit DEF IInv, SharedType
      <4> QED BY <4>1, <4>2, TypeSplit DEF IInv, SharedType
    <3> QED BY <3>1, <3>2, TypeSplit
  <2>2. ProtocolInv'
    BY DEF IInv, TypeOK, ProtocolInv, CreationInv, PaymentInv, DeliveryInv,
         WorkerInv, SettledMeansDelivered, Creating, FulfilPCs, RebateRows,
         Settled, RefundStatuses, OrderTypes
  <2> QED BY <2>1, <2>2 DEF IInv, ProtocolInv
<1>4. CASE CompleteLost(w)
  <2> USE <1>4 DEF CompleteLost, Continue, Goto
  <2>1. TypeOK'
    <3> HIDE DEF Continue, Goto
    <3>1. LocalType'
      BY TypeSplit, ContinueType, ReturnType DEF IInv, PCs, FulfilPCs
    <3>2. SharedType'
      BY TypeSplit DEF IInv, SharedType
    <3> QED BY <3>1, <3>2, TypeSplit
  <2>2. ProtocolInv'
    BY DEF Return, Leave, Goto, IInv, TypeOK, ProtocolInv, CreationInv,
         PaymentInv, DeliveryInv,
         WorkerInv, SettledMeansDelivered, Creating, FulfilPCs, RebateRows,
         Settled, RefundStatuses, OrderTypes
  <2> QED BY <2>1, <2>2 DEF IInv, ProtocolInv
<1>5. CASE Notify(w)
  <2> USE <1>5 DEF Notify
  <2>1. swallowed' \in BOOLEAN
    BY DEF Return, IInv, TypeOK
  <2> QED BY <2>1, LeaveInv, WriteAuditNotes DEF IInv, Return, NoteRows
<1>6. CASE MarkFailed(w)
  <2> USE <1>6 DEF MarkFailed, HoldsLease, SetStatus, Touch
  <2>1. TypeOK'
    <3>1. LocalType'
      BY TypeSplit, ReturnType DEF IInv
    <3>2. SharedType'
      BY TypeSplit DEF IInv, SharedType, Statuses
    <3> QED BY <3>1, <3>2, TypeSplit
  <2>2. CreationInv' /\ PaymentInv'
    BY DEF Return, Leave, Goto, IInv, TypeOK, CreationInv, PaymentInv, Creating
  <2>3. DeliveryInv'
    BY DEF Return, Leave, Goto, IInv, TypeOK, DeliveryInv
  <2>4. SettledMeansDelivered'
    BY DEF Return, Leave, Goto, IInv, SettledMeansDelivered, Settled, RefundStatuses
  <2>5. WorkerInv'
    BY DEF Return, Leave, Goto, IInv, TypeOK, WorkerInv, RebateRows
  <2> QED BY <2>1, <2>2, <2>3, <2>4, <2>5 DEF IInv
<1> QED BY <1>1, <1>2, <1>3, <1>4, <1>5, <1>6 DEF FinishStep

\* So do the faults of the provider.
LEMMA JobFaultInv ==
  ASSUME IInv, NEW w \in Jobs, JobFault(w) PROVE IInv'
<1> USE DEF Workers, rowVars, deliveryVars, answerVars, localVars,
            Paid, Unconfirmed, RebateDecided
<1>1. CASE InvokeFails(w)
  <2> USE <1>1 DEF InvokeFails, Continue, Fault, Goto
  <2>1. TypeOK'
    <3> HIDE DEF Continue, Goto
    <3>1. LocalType'
      BY TypeSplit, ContinueType DEF IInv, PCs, FulfilPCs
    <3>2. SharedType'
      BY TypeSplit DEF IInv, SharedType
    <3> QED BY <3>1, <3>2, TypeSplit
  <2>2. ProtocolInv'
    BY DEF IInv, TypeOK, ProtocolInv, CreationInv, PaymentInv, DeliveryInv,
         WorkerInv, SettledMeansDelivered, Creating, FulfilPCs, RebateRows,
         Settled, RefundStatuses, OrderTypes
  <2> QED BY <2>1, <2>2 DEF IInv, ProtocolInv
<1>2. CASE QueryFails(w)
  <2> USE <1>2 DEF QueryFails, Unanswered, Continue, Fault, Goto
  <2>1. TypeOK'
    <3> HIDE DEF Continue, Goto
    <3>1. LocalType'
      BY TypeSplit, ContinueType, ReturnType DEF IInv, PCs, FulfilPCs
    <3>2. SharedType'
      BY TypeSplit DEF IInv, SharedType
    <3> QED BY <3>1, <3>2, TypeSplit
  <2>2. ProtocolInv'
    BY DEF Return, Leave, Goto, IInv, TypeOK, ProtocolInv, CreationInv,
         PaymentInv, DeliveryInv,
         WorkerInv, SettledMeansDelivered, Creating, FulfilPCs, RebateRows,
         Settled, RefundStatuses, OrderTypes
  <2> QED BY <2>1, <2>2 DEF IInv, ProtocolInv
<1> QED BY <1>1, <1>2 DEF JobFault

\* So do lost reads, errors and crashes.
LEMMA WorkerFaultInv ==
  ASSUME IInv, NEW w \in Workers, WorkerFault(w) PROVE IInv'
<1> USE DEF rowVars, deliveryVars, answerVars, localVars,
            Paid, Unconfirmed, RebateDecided
<1>1. CASE LostRead(w)
  <2> USE <1>1 DEF LostRead
  <2>1. swallowed' \in BOOLEAN
    BY Zenon DEF SwallowError
  <2>2. faults' \in Nat
    BY DEF Fault, IInv, TypeOK
  <2> QED BY <2>1, <2>2, LeaveInv DEF SwallowError
<1>2. CASE StepFails(w)
  <2> USE <1>2 DEF StepFails, Continue, Fault, Goto
  <2>1. TypeOK'
    <3> HIDE DEF Continue, Goto
    <3>1. LocalType'
      BY TypeSplit, ContinueType DEF IInv, PCs, FulfilPCs
    <3>2. SharedType'
      BY TypeSplit DEF IInv, SharedType
    <3> QED BY <3>1, <3>2, TypeSplit
  <2>2. ProtocolInv'
    BY DEF IInv, TypeOK, ProtocolInv, CreationInv, PaymentInv, DeliveryInv,
         WorkerInv, SettledMeansDelivered, Creating, FulfilPCs, RebateRows,
         Settled, RefundStatuses, OrderTypes
  <2> QED BY <2>1, <2>2 DEF IInv, ProtocolInv
<1>3. CASE HandlerFails(w) \/ Crash(w)
  <2>1. /\ Return(w, FALSE)
        /\ faults' = faults + 1
        /\ UNCHANGED <<otype, rowVars, due, deliveryVars, audit, upstream>>
    BY <1>3 DEF HandlerFails, Crash, Fault
  <2>2. Leave(w, FALSE) /\ swallowed' = swallowed
    BY <2>1 DEF Return
  <2>3. swallowed' \in BOOLEAN
    BY <2>2 DEF IInv, TypeOK
  <2>4. faults' \in Nat
    BY <2>1 DEF IInv, TypeOK
  <2> QED BY <2>1, <2>2, <2>3, <2>4, LeaveInv
<1> QED BY <1>1, <1>2, <1>3 DEF WorkerFault

\* So do the provider's user, the clock and the refund component.
LEMMA EnvironmentInv ==
  ASSUME IInv, Environment PROVE IInv'
<1> USE DEF rowVars, deliveryVars, answerVars, localVars,
            Paid, Unconfirmed, RebateDecided
<1>1. CASE UserPays
  <2> USE <1>1 DEF UserPays
  <2>1. TypeOK'
    BY DEF IInv, TypeOK, PCs
  <2>2. ProtocolInv'
    BY DEF IInv, TypeOK, ProtocolInv, CreationInv, PaymentInv, DeliveryInv,
         WorkerInv, SettledMeansDelivered, Creating, FulfilPCs, RebateRows,
         Settled, RefundStatuses, OrderTypes
  <2> QED BY <2>1, <2>2 DEF IInv, ProtocolInv
<1>2. CASE DeadlinePasses
  <2> USE <1>2 DEF DeadlinePasses
  <2>1. TypeOK'
    BY DEF IInv, TypeOK, PCs
  <2>2. ProtocolInv'
    BY DEF IInv, TypeOK, ProtocolInv, CreationInv, PaymentInv, DeliveryInv,
         WorkerInv, SettledMeansDelivered, Creating, FulfilPCs, RebateRows,
         Settled, RefundStatuses, OrderTypes
  <2> QED BY <2>1, <2>2 DEF IInv, ProtocolInv
<1>3. CASE RowAges
  <2> USE <1>3 DEF RowAges, Busy
  <2>1. TypeOK'
    BY DEF IInv, TypeOK, PCs
  <2>2. ProtocolInv'
    BY DEF IInv, TypeOK, ProtocolInv, CreationInv, PaymentInv, DeliveryInv,
         WorkerInv, SettledMeansDelivered, Creating, FulfilPCs, RebateRows,
         Settled, RefundStatuses, OrderTypes
  <2> QED BY <2>1, <2>2 DEF IInv, ProtocolInv
<1>4. CASE RowAgesUnderWorker
  <2> USE <1>4 DEF RowAgesUnderWorker, Fault, Busy
  <2>1. TypeOK'
    BY DEF IInv, TypeOK, PCs
  <2>2. ProtocolInv'
    BY DEF IInv, TypeOK, ProtocolInv, CreationInv, PaymentInv, DeliveryInv,
         WorkerInv, SettledMeansDelivered, Creating, FulfilPCs, RebateRows,
         Settled, RefundStatuses, OrderTypes
  <2> QED BY <2>1, <2>2 DEF IInv, ProtocolInv
<1>5. CASE RefundStep
  <2> USE <1>5 DEF RefundStep, SetStatus, Touch
  <2>1. TypeOK'
    <3>1. status' \in Statuses
      BY DEF Statuses
    <3> QED BY <3>1 DEF IInv, TypeOK
  <2>2. ProtocolInv'
    BY DEF IInv, TypeOK, ProtocolInv, CreationInv, PaymentInv, DeliveryInv,
         WorkerInv, SettledMeansDelivered, Creating, FulfilPCs, RebateRows,
         Settled, RefundStatuses, OrderTypes
  <2> QED BY <2>1, <2>2 DEF IInv, ProtocolInv
<1> QED BY <1>1, <1>2, <1>3, <1>4, <1>5 DEF Environment

\* So does the delivery of a webhook.
LEMMA StartWebhookInv ==
  ASSUME IInv, NEW w \in Callbacks, StartWebhook(w) PROVE IInv'
<1> USE DEF Workers, rowVars, deliveryVars, answerVars, localVars, Paid,
            Unconfirmed, RebateDecided
<1> USE DEF StartWebhook, Continue, Goto
<1>1. TypeOK'
  BY DEF IInv, TypeOK, PCs
<1>2. ProtocolInv'
  BY DEF IInv, TypeOK, ProtocolInv, CreationInv, PaymentInv, DeliveryInv,
       WorkerInv, SettledMeansDelivered, Creating
<1> QED BY <1>1, <1>2 DEF IInv, ProtocolInv

\* And so does refusing one.
LEMMA RefuseWebhookInv ==
  ASSUME IInv, NEW w \in Callbacks, RefuseWebhook(w) PROVE IInv'
<1> USE DEF RefuseWebhook, Workers
<1>1. \E ok \in BOOLEAN : Leave(w, ok) /\ swallowed' \in BOOLEAN
  BY DEF Return, SwallowError, IInv, TypeOK
<1>2. faults' \in Nat
  BY DEF Fault, IInv, TypeOK
<1> QED BY <1>1, <1>2, LeaveInv

\* Every step preserves the invariant.
LEMMA NextInv == IInv /\ [Next]_vars => IInv'
<1> SUFFICES ASSUME IInv, [Next]_vars PROVE IInv'
  OBVIOUS
<1>1. CASE Environment
  BY <1>1, EnvironmentInv
<1>2. ASSUME NEW c \in Callbacks, StartWebhook(c) \/ RefuseWebhook(c)
      PROVE  IInv'
  BY <1>2, StartWebhookInv, RefuseWebhookInv
<1>3. ASSUME NEW j \in Jobs, StartJob(j) \/ JobProgress(j) \/ JobFault(j)
      PROVE  IInv'
  BY <1>3, StartJobInv, CreateStepInv, CheckStepInv, JobFaultInv
     DEF JobProgress
<1>4. ASSUME NEW w \in Workers, WorkerProgress(w) \/ WorkerFault(w)
      PROVE  IInv'
  BY <1>4, NotifyStepInv, LeaseStepInv, BalanceStepInv, SubscriptionStepInv,
     FinishStepInv, WorkerFaultInv DEF WorkerProgress
<1>5. CASE UNCHANGED vars
  BY <1>5 DEF vars, rowVars, deliveryVars, answerVars, localVars, IInv, TypeOK,
       CreationInv, PaymentInv, DeliveryInv, WorkerInv, SettledMeansDelivered,
       Paid, RebateDecided
<1> QED BY <1>1, <1>2, <1>3, <1>4, <1>5 DEF Next

\* The inductive invariant holds in every reachable state.
THEOREM Invariance == Spec => []IInv
BY InitInv, NextInv, PTL DEF Spec

\* Every variable of the order keeps its type.
THEOREM TypeCorrect == Spec => []TypeOK
<1>1. IInv => TypeOK
  BY DEF IInv
<1> QED BY <1>1, Invariance, PTL

\* Whatever callbacks, jobs and faults there are, an order is delivered at
\* most once (redeem code, SUBSCRIPTION_ASSIGNED row).
THEOREM AtMostOneDelivery == Spec => []DeliveredOnce
<1>1. IInv => DeliveredOnce
  BY DEF IInv, TypeOK, DeliveryInv, DeliveredOnce, OrderTypes
<1> QED BY <1>1, Invariance, PTL

\* An order that is completed, or in a refund, was delivered exactly once and
\* its rebate was decided (markCompleted comes last).
THEOREM SettledIsDelivered == Spec => []SettledMeansDelivered
<1>1. IInv => SettledMeansDelivered
  BY DEF IInv
<1> QED BY <1>1, Invariance, PTL

\* Nothing is delivered that the provider was not paid for.
THEOREM NoDeliveryUnpaid == Spec => []DeliveryNeedsPayment
<1>1. IInv => DeliveryNeedsPayment
  BY DEF IInv, DeliveryInv, DeliveryNeedsPayment
<1> QED BY <1>1, Invariance, PTL

\* The inviter's rebate is accrued at most once.
THEOREM AtMostOneRebate == Spec => []RebateOnce
<1>1. IInv => RebateOnce
  BY DEF IInv, DeliveryInv, RebateOnce
<1> QED BY <1>1, Invariance, PTL
-----------------------------------------------------------------------------
(* The contract *)

\* A step the contract does not see.
Quiet == /\ (upstream' = "paid") <=> (upstream = "paid")
         /\ credited' + assigned' = credited + assigned
         /\ (status' \in Settled) <=> (status \in Settled)

\* A quiet step leaves the contract's variables alone.
LEMMA QuietStutters ==
  ASSUME Quiet
  PROVE  UNCHANGED Contract!vars
<1>1. (upstream' = "paid") = (upstream = "paid")
  BY DEF Quiet
<1>2. (status' \in Settled) = (status \in Settled)
  BY DEF Quiet
<1>3. credited' + assigned' = credited + assigned
  BY DEF Quiet
<1> QED BY <1>1, <1>2, <1>3 DEF Contract!vars, Settled, RefundStatuses

\* Users, clock and refunds: the user's payment is the contract's.
LEMMA EnvironmentContract ==
  ASSUME IInv, IInv', Environment
  PROVE  Contract!Pay \/ Quiet
<1> USE DEF rowVars, deliveryVars, Quiet
<1>1. CASE UserPays
  BY <1>1 DEF UserPays, Contract!Pay, IInv, TypeOK
<1>2. CASE DeadlinePasses \/ RowAges \/ RowAgesUnderWorker
  BY <1>2 DEF DeadlinePasses, RowAges, RowAgesUnderWorker
<1>3. CASE RefundStep
  BY <1>3 DEF RefundStep, SetStatus, Touch, Settled, RefundStatuses
<1> QED BY <1>1, <1>2, <1>3 DEF Environment

\* Jobs up to the confirmation of a payment are quiet; a failed creation
\* never overwrites a settled order.
LEMMA JobContract ==
  ASSUME IInv, IInv', NEW j \in Jobs,
         StartJob(j) \/ JobProgress(j) \/ JobFault(j)
  PROVE  Quiet
<1> USE DEF rowVars, deliveryVars, Quiet, SetStatus, Touch
<1>1. CASE StartJob(j)
  BY <1>1 DEF StartJob, CreateOrder, StartCancel, StartExpire, StartVerify,
       StartReconcile, StartRetry, StartCheck, Settled, RefundStatuses
<1>2. CASE MarkCreateFailed(j)
  <2>1. status \notin Settled
    BY <1>2 DEF MarkCreateFailed, IInv, CreationInv, DeliveryInv, Creating,
         SettledMeansDelivered, Workers
  <2> QED
    BY <1>2, <2>1 DEF MarkCreateFailed, CreateFailedStatus, Settled,
         RefundStatuses
<1>3. CASE InvokeProvider(j) \/ SaveDetails(j)
  BY <1>3 DEF InvokeProvider, SaveDetails
<1>4. CASE CancelCas(j)
  BY <1>4 DEF CancelCas, IInv, TypeOK, PaymentInv, Settled, RefundStatuses,
       Workers
<1>5. CASE QueryOrder(j) \/ CancelPayment(j) \/ PersistTradeNo(j)
  BY <1>5 DEF QueryOrder, CancelPayment, PersistTradeNo
<1>6. CASE JobFault(j)
  BY <1>6 DEF JobFault, InvokeFails, QueryFails
<1> QED
  BY <1>1, <1>2, <1>3, <1>4, <1>5, <1>6 DEF JobProgress, CreateStep, CheckStep

\* Confirming and leasing are quiet, redeeming and assigning deliver, and
\* completing settles.
LEMMA WorkerContract ==
  ASSUME IInv, IInv', NEW w \in Workers, WorkerProgress(w) \/ WorkerFault(w)
  PROVE  Contract!Deliver \/ Contract!Settle \/ Quiet
<1> USE DEF rowVars, deliveryVars, SetStatus, Touch
<1>1. CASE NotifyStep(w)
  BY <1>1 DEF NotifyStep, Confirm, ConfirmRejects, ToPaid, AlreadyProcessed,
       AfterExpiry, Payable, Quiet,
       Settled, RefundStatuses
<1>2. CASE LeaseStep(w)
  BY <1>2 DEF LeaseStep, Fulfil, AcquireLease, LeaseLost, ReloadLease,
       Leasable, Quiet, Settled, RefundStatuses
<1>3. CASE Redeem(w)
  <2>1. CASE Usable
    <3>1. credited + assigned = 0 /\ upstream = "paid"
      BY <1>3, <2>1 DEF Redeem, Usable, IInv, DeliveryInv, PaymentInv,
           WorkerInv, Creating, Unconfirmed
    <3>2. credited' + assigned' = 1
      BY <1>3, <2>1, <3>1 DEF Redeem, IInv, TypeOK
    <3> QED BY <1>3, <3>1, <3>2 DEF Redeem, Contract!Deliver
  <2>2. CASE ~Usable
    BY <1>3, <2>2 DEF Redeem, Quiet
  <2> QED BY <2>1, <2>2
<1>4. CASE LookupCode(w) \/ CreateCode(w)
  BY <1>4 DEF LookupCode, CreateCode, Quiet
<1>5. CASE AssignCommit(w)
  <2>1. CASE credited' + assigned' = credited + assigned
    BY <1>5, <2>1 DEF AssignCommit, Quiet
  <2>2. CASE credited' + assigned' # credited + assigned
    <3>1. credited + assigned = 0 /\ credited' + assigned' = 1
      BY <1>5, <2>2 DEF AssignCommit, IInv, TypeOK, DeliveryInv, OrderTypes
    <3>2. upstream = "paid"
      BY <1>5 DEF AssignCommit, IInv, PaymentInv, Creating, Unconfirmed
    <3> QED BY <1>5, <3>1, <3>2 DEF AssignCommit, Contract!Deliver
  <2> QED BY <2>1, <2>2
<1>6. CASE AssignBegin(w) \/ InvalidateCaches(w)
  BY <1>6 DEF AssignBegin, InvalidateCaches, Quiet
<1>7. CASE MarkCompleted(w)
  <2>1. CASE HoldsLease(w)
    <3>1. credited + assigned = 1
      BY <1>7 DEF MarkCompleted, IInv, WorkerInv
    <3> QED
      BY <1>7, <2>1, <3>1 DEF MarkCompleted, HoldsLease, Contract!Settle,
           Settled, RefundStatuses
  <2>2. CASE ~HoldsLease(w)
    BY <1>7, <2>2 DEF MarkCompleted, Quiet
  <2> QED BY <2>1, <2>2
<1>8. CASE MarkFailed(w)
  BY <1>8 DEF MarkFailed, HoldsLease, Quiet, Settled, RefundStatuses
<1>9. CASE RebateClaim(w) \/ RebateCommit(w) \/ CompleteLost(w) \/ Notify(w)
  BY <1>9 DEF RebateClaim, RebateCommit, CompleteLost, Notify, Quiet
<1>10. CASE WorkerFault(w)
  BY <1>10 DEF WorkerFault, LostRead, HandlerFails, StepFails, Crash, Quiet
<1> QED
  BY <1>1, <1>2, <1>3, <1>4, <1>5, <1>6, <1>7, <1>8, <1>9, <1>10
     DEF WorkerProgress, BalanceStep, SubscriptionStep, FinishStep

\* The detailed system implements the contract: goods only against money, at
\* most once, and settled for good only when delivered.
THEOREM ContractImplemented == Spec => ImplementsContract
<1>1. Init => Contract!Init
  BY DEF Init, InitCommon, InitNew, InitLegacy, Contract!Init, Settled,
       RefundStatuses
<1>2. IInv /\ IInv' /\ [Next]_vars => [Contract!Next]_(Contract!vars)
  <2> SUFFICES ASSUME IInv, IInv', [Next]_vars
               PROVE  Contract!Next \/ UNCHANGED Contract!vars
    OBVIOUS
  <2>1. CASE Environment
    BY <2>1, EnvironmentContract, QuietStutters DEF Contract!Next, IInv
  <2>2. ASSUME NEW c \in Callbacks, StartWebhook(c) \/ RefuseWebhook(c)
        PROVE  Quiet
    BY <2>2 DEF StartWebhook, RefuseWebhook, Quiet, rowVars, deliveryVars
  <2>3. ASSUME NEW j \in Jobs, StartJob(j) \/ JobProgress(j) \/ JobFault(j)
        PROVE  Quiet
    BY <2>3, JobContract
  <2>4. ASSUME NEW w \in Workers, WorkerProgress(w) \/ WorkerFault(w)
        PROVE  Contract!Next \/ Quiet
    BY <2>4, WorkerContract DEF Contract!Next
  <2>5. CASE UNCHANGED vars
    BY <2>5 DEF vars, rowVars, deliveryVars, Contract!vars
  <2> QED
    BY <2>1, <2>2, <2>3, <2>4, <2>5, QuietStutters DEF Next, IInv
<1> QED
  BY <1>1, <1>2, Invariance, PTL DEF Spec, ImplementsContract, Contract!Spec

-----------------------------------------------------------------------------
(* The row after it is settled *)

\* Every write of the status outside the refunds is conditional on a status
\* that no settled order has, but for the one of a failed creation, and an
\* order whose creation is not over was never paid for.
THEOREM SettledIsLeft == Spec => LeftToRefunds
<1>1. IInv /\ [Next]_vars =>
        [(status \in Settled /\ status' # status) => RefundStep]_vars
  <2> SUFFICES ASSUME IInv, Next, status \in Settled, ~RefundStep
               PROVE  status' = status
    OBVIOUS
  <2> USE DEF Settled, RefundStatuses, rowVars, deliveryVars, SetStatus, Touch
  <2>1. CASE Environment
    BY <2>1 DEF Environment, UserPays, DeadlinePasses, RowAges,
       RowAgesUnderWorker
  <2>2. CASE \E c \in Callbacks : StartWebhook(c) \/ RefuseWebhook(c)
    BY <2>2 DEF StartWebhook, RefuseWebhook
  <2>3. ASSUME NEW j \in Jobs, StartJob(j) \/ JobFault(j) PROVE status' = status
    BY <2>3 DEF StartJob, CreateOrder, StartCancel, StartExpire, StartVerify,
       StartReconcile, StartRetry, StartCheck, JobFault, InvokeFails, QueryFails
  <2>4. ASSUME NEW j \in Jobs, CreateStep(j) PROVE status' = status
    <3>1. pc[j] \notin Creating
      BY DEF IInv, CreationInv, DeliveryInv, SettledMeansDelivered, Workers
    <3> QED BY <2>4, <3>1 DEF CreateStep, InvokeProvider, SaveDetails,
               MarkCreateFailed, Creating
  <2>5. ASSUME NEW j \in Jobs, CheckStep(j) PROVE status' = status
    BY <2>5 DEF CheckStep, QueryOrder, CancelPayment, CancelCas, PersistTradeNo
  <2>6. ASSUME NEW w \in Workers, NotifyStep(w) \/ LeaseStep(w)
        PROVE  status' = status
    BY <2>6 DEF NotifyStep, Confirm, ConfirmRejects, ToPaid, AlreadyProcessed,
       AfterExpiry, Payable, LeaseStep, Fulfil, AcquireLease, LeaseLost, ReloadLease, Leasable
  <2>7. ASSUME NEW w \in Workers,
               BalanceStep(w) \/ SubscriptionStep(w) \/ FinishStep(w)
        PROVE  status' = status
    BY <2>7 DEF BalanceStep, LookupCode, CreateCode, Redeem, SubscriptionStep,
       AssignBegin, AssignCommit, InvalidateCaches, FinishStep, RebateClaim,
       RebateCommit, MarkCompleted, CompleteLost, Notify, MarkFailed, HoldsLease
  <2>8. ASSUME NEW w \in Workers, WorkerFault(w) PROVE status' = status
    BY <2>8 DEF WorkerFault, LostRead, HandlerFails, StepFails, Crash
  <2> QED BY <2>1, <2>2, <2>3, <2>4, <2>5, <2>6, <2>7, <2>8
          DEF Next, JobProgress, WorkerProgress
<1> QED BY <1>1, Invariance, PTL DEF Spec, LeftToRefunds
=============================================================================
