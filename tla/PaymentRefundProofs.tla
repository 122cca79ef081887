------------------------ MODULE PaymentRefundProofs ------------------------
(***************************************************************************)
(* Proofs about PaymentRefund for any number of administrators, amounts    *)
(* and faults, where the provider never answers that a refund is pending:  *)
(* REFUNDING then is a lock, and the user is charged at most once.         *)
(***************************************************************************)
EXTENDS PaymentRefund, FiniteSetTheorems, TLAPS

\* The assumptions on the constants, and the provider's kind.
Setting == /\ AmountsAssumption /\ ChoiceAssumption /\ PendingGw = FALSE

\* A delivered order that nobody refunds yet.
LEMMA InitInv == Setting /\ Init => IInv
<1> SUFFICES ASSUME Setting, Init PROVE IInv
  OBVIOUS
<1> USE DEF Setting, AmountsAssumption, Init
<1>1. NoPlan \in Plans /\ NoDetail \in Details
  BY DEF NoPlan, Plans, NoDetail, Details, Statuses
<1>2. TypeOK
  <2>1. purse \in Nat /\ amount \in 0..Amount
    OBVIOUS
  <2>2. revoked \in BOOLEAN
    OBVIOUS
  <2>3. pc \in [Admins -> PCs] /\ plan \in [Admins -> Plans]
    BY <1>1 DEF PCs
  <2> QED BY <1>1, <2>1, <2>2, <2>3 DEF TypeOK, Statuses
<1>3. NothingPending /\ LockInv /\ RefundInv
  BY DEF NothingPending, LockInv, RefundInv, Executing, Done
<1>4. ChargeInv
  BY DEF ChargeInv, Settled, PlannedCharge, RollbackFailed, Executing
<1> QED BY <1>2, <1>3, <1>4 DEF IInv

\* Making a plan preserves the invariant.
LEMMA RequestInv ==
  ASSUME Setting, IInv, NEW a \in Admins, Request(a) PROVE IInv'
<1> USE DEF Setting, AmountsAssumption, orderVars, purseVars
<1>1. CASE StartQuery(a)
  BY <1>1 DEF StartQuery, IInv, NothingPending
<1>2. CASE \E amt \in Amounts, d \in BOOLEAN : PrepareRefund(a, amt, d)
  <2>1. PICK amt \in Amounts, d \in BOOLEAN : PrepareRefund(a, amt, d)
    BY <1>2
  <2> DEFINE n == IF d THEN PlannedTake(amt) ELSE 0
  <2>2. /\ pc[a] = "idle" /\ pc' = [pc EXCEPT ![a] = "lock"]
        /\ plan' = [plan EXCEPT ![a] = [amt |-> amt, take |-> n, from |-> status,
                                       undone |-> TRUE]]
        /\ UNCHANGED <<otype, status, amount, purse, revoked, taken, stray,
                       audit, detail, gw, faults>>
    BY <2>1 DEF PrepareRefund
  <2>3. n \in 0..Amount
    BY DEF PlannedTake, Lesser, IInv, TypeOK
  <2> HIDE DEF n
  <2>4. TypeOK'
    <3>1. pc' \in [Admins -> PCs]
      BY <2>2 DEF IInv, TypeOK, PCs
    <3>2. plan' \in [Admins -> Plans]
      BY <2>2, <2>3 DEF IInv, TypeOK, Plans
    <3> QED BY <2>2, <3>1, <3>2 DEF IInv, TypeOK
  <2>5. /\ pc'[a] = "lock" /\ plan'[a].amt \in Amounts
        /\ \A b \in Admins \ {a} : pc'[b] = pc[b] /\ plan'[b] = plan[b]
    BY <2>2 DEF IInv, TypeOK
  <2>6. NothingPending' /\ LockInv' /\ RefundInv'
    BY <2>2, <2>5 DEF IInv, NothingPending, LockInv, RefundInv, Executing
  <2>7. ChargeInv'
    BY <2>2, <2>5 DEF IInv, ChargeInv, Settled, PlannedCharge, RollbackFailed,
       Executing
  <2> QED BY <2>4, <2>6, <2>7 DEF IInv
<1> QED BY <1>1, <1>2 DEF Request

\* A deduction takes what is planned and there, or what was left of a
\* subscription that it revokes, or nothing.
LEMMA TakenDeduction ==
  ASSUME AmountsAssumption, TypeOK, NEW a \in Admins, TakeDeduction(a),
         revoked => otype = "subscription" /\ purse = 0
  PROVE  /\ purse' \in Nat /\ taken' \in Nat /\ revoked' \in BOOLEAN
         /\ pc' \in [Admins -> PCs] /\ plan' \in [Admins -> Plans]
         /\ revoked' => otype = "subscription" /\ purse' = 0
         /\ \A b \in Admins \ {a} : pc'[b] = pc[b] /\ plan'[b] = plan[b]
         /\ plan'[a].amt = plan[a].amt
         /\ \/ pc'[a] = "restore" /\ UNCHANGED <<purse, revoked, taken>>
            \/ /\ pc'[a] = "gateway" /\ taken <= taken'
               /\ taken' <= taken + Amount
               /\ \/ plan'[a].take = 0 /\ taken' = taken
                  \/ ~revoked' /\ taken' = taken + plan'[a].take
                  \/ revoked' /\ plan'[a].take > 0
<1> DEFINE n == plan[a].take
<1> USE DEF AmountsAssumption
<1>1. plan[a] \in Plans /\ n \in 0..Amount /\ n \in Nat /\ purse \in Nat
      /\ taken \in Nat /\ revoked \in BOOLEAN
      /\ otype \in {"balance", "subscription"}
  BY DEF TypeOK, Plans
<1>2. Charged(n) \in 0..n /\ Charged(n) <= purse
      /\ (Charged(n) = n \/ Charged(n) = purse)
  BY <1>1 DEF Charged, Lesser
<1>3. CASE ~Chargeable(n)
  <2>1. /\ pc' = [pc EXCEPT ![a] = "restore"] /\ plan' = plan
        /\ UNCHANGED <<purse, revoked, taken>>
    BY <1>3 DEF TakeDeduction, Goto
  <2> QED BY <1>1, <2>1 DEF TypeOK, PCs, Executing
<1>4. CASE Chargeable(n)
  <2> DEFINE t == IF otype = "balance" THEN Charged(n) ELSE n
  <2>1. /\ purse' = purse - Charged(n) /\ taken' = taken + Charged(n)
        /\ revoked' = (revoked \/ (otype = "subscription" /\ 0 < n /\ purse <= n))
        /\ plan' = [plan EXCEPT ![a].take = t]
        /\ pc' = [pc EXCEPT ![a] = "gateway"]
    BY <1>4 DEF TakeDeduction, Charge
  <2>2. t \in 0..Amount
    BY <1>1, <1>2
  <2>3. pc' \in [Admins -> PCs] /\ plan' \in [Admins -> Plans]
        /\ pc'[a] = "gateway" /\ plan'[a].amt = plan[a].amt
        /\ plan'[a].take = t
        /\ \A b \in Admins \ {a} : pc'[b] = pc[b] /\ plan'[b] = plan[b]
    BY <1>1, <2>1, <2>2 DEF TypeOK, PCs, Executing, Plans
  <2>4. purse' \in Nat /\ taken' \in Nat /\ revoked' \in BOOLEAN
        /\ taken <= taken' /\ taken' <= taken + Amount
    BY <1>1, <1>2, <2>1
  <2>5. CASE otype = "balance"
    <3>1. ~revoked' /\ taken' = taken + t
      BY <2>1, <2>5
    <3> QED BY <2>3, <2>4, <3>1
  <2>6. CASE otype = "subscription" /\ n = 0
    <3>1. Charged(n) = 0 /\ t = 0
      BY <1>1, <1>2, <2>6
    <3>2. revoked' = revoked /\ purse' = purse /\ taken' = taken
      BY <1>1, <2>1, <2>6, <3>1
    <3> QED BY <2>3, <2>4, <2>6, <3>1, <3>2
  <2>7. CASE otype = "subscription" /\ 0 < n
    <3>1. purse > 0 /\ ~revoked /\ t = n
      BY <1>1, <1>4, <2>7 DEF Chargeable
    <3>2. CASE purse <= n
      <4>1. Charged(n) = purse
        BY <1>1, <3>2 DEF Charged, Lesser
      <4>2. purse' = 0
        BY <1>1, <2>1, <4>1
      <4>3. revoked'
        BY <2>1, <2>7, <3>2
      <4> QED BY <2>3, <2>4, <2>7, <3>1, <4>2, <4>3
    <3>3. CASE ~(purse <= n)
      <4>1. Charged(n) = n
        BY <1>1, <3>3 DEF Charged, Lesser
      <4>2. ~revoked' /\ taken' = taken + t
        BY <2>1, <3>1, <3>3, <4>1
      <4> QED BY <2>3, <2>4, <4>2
    <3> QED BY <3>2, <3>3
  <2> QED BY <1>1, <2>5, <2>6, <2>7
<1> QED BY <1>3, <1>4

\* Locking, charging and giving back preserve it.
LEMMA ChargeStepInv ==
  ASSUME Setting, IInv, NEW a \in Admins, Lock(a) \/ Deduct(a)
         \/ DeductUnread(a) \/ RollbackRefund(a) \/ RollbackFails(a)
         \/ NoteRollback(a) PROVE IInv'
<1> USE DEF Setting, AmountsAssumption, orderVars, purseVars
<1>1. CASE Lock(a)
  <2> USE <1>1 DEF Lock, LockFree, Refundable, Goto, Return
  <2>1. TypeOK'
    <3>2. pc' \in [Admins -> PCs]
      BY DEF IInv, TypeOK, PCs, Executing
    <3>4. NoPlan \in Plans
      BY DEF Plans, NoPlan, Statuses
    <3>5. plan' \in [Admins -> Plans]
      BY <3>4 DEF IInv, TypeOK
    <3>3. status' \in Statuses
      BY DEF IInv, TypeOK, Statuses
    <3> QED BY <3>2, <3>3, <3>5 DEF IInv, TypeOK
  <2>2. NothingPending'
    BY DEF IInv, TypeOK, NothingPending, Executing
  <2>3. LockInv'
    BY DEF IInv, TypeOK, LockInv, Executing
  <2>4. ChargeInv'
    <3>1. UNCHANGED <<otype, purse, revoked, taken, stray, audit>>
      OBVIOUS
    <3>2. CASE LockFree
      <4>1. Settled
        BY <3>2 DEF IInv, ChargeInv, Done
      <4>2. /\ pc'[a] = "deduct" /\ plan' = plan
            /\ \A b \in Admins \ {a} : pc'[b] = pc[b]
        BY <3>2 DEF IInv, TypeOK
      <4> QED BY <3>1, <4>1, <4>2 DEF IInv, ChargeInv, Settled, PlannedCharge,
                 RollbackFailed, Executing
    <3>3. CASE ~LockFree
      <4>1. /\ status' = status /\ pc'[a] = "idle"
            /\ \A b \in Admins \ {a} : pc'[b] = pc[b] /\ plan'[b] = plan[b]
        BY <3>3 DEF IInv, TypeOK
      <4> QED BY <3>1, <4>1 DEF IInv, ChargeInv, Settled, PlannedCharge,
                 RollbackFailed, Executing
    <3> QED BY <3>2, <3>3
  <2>5. RefundInv'
    BY DEF IInv, TypeOK, NothingPending, LockInv, ChargeInv, RefundInv, Plans,
         NoPlan, Executing, Done
  <2> QED BY <2>1, <2>2, <2>3, <2>4, <2>5 DEF IInv
<1>2. CASE Deduct(a) \/ DeductUnread(a)
  <2>0. pc[a] = "deduct" /\ plan[a] \in Plans /\ plan[a].take \in 0..Amount
        /\ (revoked => otype = "subscription" /\ purse = 0)
        /\ status = "REFUNDING" /\ Settled
        /\ (\A b \in Admins \ {a} : pc[b] \notin Executing)
        /\ taken \in Nat /\ stray \in Nat /\ stray <= taken
        /\ taken <= stray + Amount /\ plan[a].amt \in Amounts
    BY <1>2 DEF Deduct, DeductUnread, IInv, TypeOK, LockInv, ChargeInv, Plans,
         Executing
  <2>1. UNCHANGED <<otype, status, amount, audit, detail, gw>>
    BY <1>2 DEF Deduct, DeductUnread
  <2>2. CASE Deduct(a) /\ SkipsDeduction
    <3>1. /\ plan' = [plan EXCEPT ![a].take = 0]
          /\ pc' = [pc EXCEPT ![a] = "gateway"]
          /\ UNCHANGED <<purse, revoked, taken, stray, faults>>
      BY <2>2 DEF Deduct
    <3>2. TypeOK'
      <4>1. pc' \in [Admins -> PCs] /\ plan' \in [Admins -> Plans]
        BY <2>0, <3>1 DEF IInv, TypeOK, PCs, Executing, Plans
      <4> QED BY <2>1, <3>1, <4>1 DEF IInv, TypeOK
    <3>3. NothingPending' /\ LockInv' /\ RefundInv'
      BY <2>0, <2>1, <3>1 DEF IInv, TypeOK, NothingPending, LockInv, RefundInv,
           Executing
    <3>4. ChargeInv'
      BY <2>0, <2>1, <3>1 DEF IInv, TypeOK, ChargeInv, Settled, PlannedCharge,
           RollbackFailed, Executing, Plans
    <3> QED BY <3>2, <3>3, <3>4 DEF IInv
  <2>3. CASE (Deduct(a) /\ ~SkipsDeduction) \/ DeductUnread(a)
    <3>1. TakeDeduction(a) /\ faults' \in Nat
      BY <2>3 DEF Deduct, DeductUnread, Fault, IInv, TypeOK
    <3>2. /\ purse' \in Nat /\ taken' \in Nat /\ revoked' \in BOOLEAN
          /\ pc' \in [Admins -> PCs] /\ plan' \in [Admins -> Plans]
          /\ revoked' => otype = "subscription" /\ purse' = 0
          /\ \A b \in Admins \ {a} : pc'[b] = pc[b] /\ plan'[b] = plan[b]
          /\ plan'[a].amt = plan[a].amt
      BY <2>0, <3>1, TakenDeduction DEF IInv
    <3>3. \/ pc'[a] = "restore" /\ UNCHANGED <<purse, revoked, taken>>
          \/ /\ pc'[a] = "gateway" /\ taken <= taken'
             /\ taken' <= taken + Amount
             /\ \/ plan'[a].take = 0 /\ taken' = taken
                \/ ~revoked' /\ taken' = taken + plan'[a].take
                \/ revoked' /\ plan'[a].take > 0
      BY <2>0, <3>1, TakenDeduction DEF IInv
    <3>4. stray' = IF pc'[a] = "gateway" THEN taken ELSE stray
      <4>1. CASE Deduct(a) /\ ~SkipsDeduction
        <5>1. stray' = stray /\ ~RollbackFailed
          BY <4>1 DEF Deduct, SkipsDeduction, RollbackFailed
        <5> QED BY <2>0, <5>1 DEF Settled
      <4>2. CASE DeductUnread(a)
        BY <4>2 DEF DeductUnread
      <4> QED BY <2>3, <4>1, <4>2
    <3>5. TypeOK'
      BY <2>0, <2>1, <3>1, <3>2, <3>4 DEF IInv, TypeOK
    <3>6. NothingPending' /\ LockInv' /\ RefundInv'
      <4>1. \A b \in Admins : pc'[b] = pc[b] \/ b = a
        BY <3>2
      <4> QED BY <2>0, <2>1, <3>2, <3>3, <4>1 DEF IInv, NothingPending, LockInv,
                 RefundInv, Executing
    <3>7. ChargeInv'
      <4>1. stray' <= taken' /\ taken' <= stray' + Amount
        BY <2>0, <3>2, <3>3, <3>4
      <4>2. RollbackFailed' = RollbackFailed
        BY <2>1 DEF RollbackFailed
      <4>3. CASE pc'[a] = "restore"
        <5>1. Settled'
          BY <2>0, <3>3, <3>4, <4>2, <4>3 DEF Settled
        <5> QED BY <2>0, <2>1, <3>2, <4>1, <4>3, <5>1 DEF IInv, ChargeInv,
                   Executing
      <4>4. CASE pc'[a] = "gateway"
        <5>1. PlannedCharge(a)'
          BY <2>0, <3>3, <3>4, <4>4 DEF Settled, PlannedCharge
        <5> QED BY <2>0, <2>1, <3>2, <4>1, <4>4, <5>1 DEF IInv, ChargeInv,
                   Executing
      <4> QED BY <3>3, <4>3, <4>4
    <3> QED BY <3>5, <3>6, <3>7 DEF IInv
  <2> QED BY <1>2, <2>2, <2>3
<1>3. CASE RollbackRefund(a)
  <2> USE <1>3 DEF RollbackRefund, AfterUndo, GivenBack
  <2>1. TypeOK'
    <3>1. plan[a] \in Plans /\ plan[a].take \in 0..Amount
      BY DEF IInv, TypeOK, Plans
    <3>2. plan[a].take = 0 \/ taken = stray + plan[a].take
      BY DEF IInv, NothingPending, ChargeInv, PlannedCharge
    <3>3. purse' \in Nat /\ taken' \in Nat
      BY <3>1, <3>2 DEF IInv, TypeOK
    <3>4. pc' \in [Admins -> PCs]
      BY DEF IInv, TypeOK, PCs, Executing
    <3>5. plan' \in [Admins -> Plans]
      BY <3>1 DEF IInv, TypeOK, Plans
    <3> QED BY <3>3, <3>4, <3>5 DEF IInv, TypeOK
  <2>2. NothingPending'
    BY DEF IInv, TypeOK, NothingPending, Executing
  <2>3. LockInv'
    BY DEF IInv, TypeOK, LockInv, Executing
  <2>4. ChargeInv'
    BY DEF IInv, TypeOK, NothingPending, LockInv, ChargeInv, Settled,
         PlannedCharge, RollbackFailed, Plans, NoPlan, Executing
  <2>5. RefundInv'
    BY DEF IInv, TypeOK, NothingPending, LockInv, ChargeInv, RefundInv, Plans,
         NoPlan, Executing, Done
  <2> QED BY <2>1, <2>2, <2>3, <2>4, <2>5 DEF IInv
<1>4. CASE RollbackFails(a)
  <2> USE <1>4 DEF RollbackFails, AfterUndo, Fault
  <2>1. TypeOK'
    <3>1. pc' \in [Admins -> PCs]
      BY DEF IInv, TypeOK, PCs, Executing
    <3>2. plan' \in [Admins -> Plans]
      BY DEF IInv, TypeOK, Plans
    <3>3. faults' \in Nat
      BY DEF IInv, TypeOK
    <3> QED BY <3>1, <3>2, <3>3 DEF IInv, TypeOK
  <2>2. NothingPending'
    BY DEF IInv, TypeOK, NothingPending, Executing
  <2>3. LockInv'
    BY DEF IInv, TypeOK, LockInv, Executing
  <2>4. ChargeInv'
    BY DEF IInv, TypeOK, NothingPending, LockInv, ChargeInv, Settled,
         PlannedCharge, RollbackFailed, Plans, NoPlan, Executing
  <2>5. RefundInv'
    BY DEF IInv, TypeOK, NothingPending, LockInv, ChargeInv, RefundInv, Plans,
         NoPlan, Executing, Done
  <2> QED BY <2>1, <2>2, <2>3, <2>4, <2>5 DEF IInv
<1>5. CASE NoteRollback(a)
  <2> USE <1>5 DEF NoteRollback, WriteAudit, Fault, Goto
  <2>1. TypeOK'
    <3>1. pc' \in [Admins -> PCs]
      BY DEF IInv, TypeOK, PCs, Executing
    <3>2. faults' \in Nat /\ stray' \in Nat
      BY DEF IInv, TypeOK
    <3>3. audit' \subseteq {"REFUND_ROLLBACK_FAILED", "REFUND_SUCCESS"}
      BY DEF IInv, TypeOK
    <3> QED BY <3>1, <3>2, <3>3 DEF IInv, TypeOK
  <2>2. NothingPending'
    BY DEF IInv, TypeOK, NothingPending, Executing
  <2>3. LockInv'
    BY DEF IInv, TypeOK, LockInv, Executing
  <2>4. ChargeInv'
    <3>1. pc[a] = "noteFailed" /\ status = "REFUNDING"
          /\ \A b \in Admins \ {a} : pc[b] \notin Executing
      BY DEF IInv, NothingPending, LockInv, Executing
    <3>2. Settled' /\ stray' <= taken' /\ taken' <= stray' + Amount
      BY DEF Settled, RollbackFailed, IInv, TypeOK, ChargeInv
    <3> QED BY <3>1, <3>2 DEF IInv, TypeOK, ChargeInv, Executing
  <2>5. RefundInv'
    BY DEF IInv, TypeOK, LockInv, RefundInv, Executing, Done
  <2> QED BY <2>1, <2>2, <2>3, <2>4, <2>5 DEF IInv
<1> QED BY <1>1, <1>2, <1>3, <1>4, <1>5

\* So do the answers of the provider, in time or not.
LEMMA GatewayInv ==
  ASSUME Setting, IInv, NEW a \in Admins, GatewayAnswers(a) \/ GatewayTimesOut(a) PROVE IInv'
<1> USE DEF Setting, AmountsAssumption, orderVars, purseVars
<1>1. CASE GatewayAnswers(a)
  <2> USE <1>1 DEF GatewayAnswers, Outcomes, AfterGateway, Goto
  <2>1. TypeOK'
    BY DEF IInv, TypeOK, NothingPending, ChargeInv, Settled, PlannedCharge,
         RollbackFailed, PCs, Executing, Statuses, Done, Plans, NoPlan
  <2>2. NothingPending'
    BY DEF IInv, TypeOK, NothingPending, Executing
  <2>3. LockInv'
    BY DEF IInv, TypeOK, LockInv, Executing
  <2>4. ChargeInv'
    BY DEF IInv, TypeOK, NothingPending, LockInv, ChargeInv, Settled,
         PlannedCharge, RollbackFailed, Plans, NoPlan, Executing
  <2>5. RefundInv'
    BY DEF IInv, TypeOK, NothingPending, LockInv, ChargeInv, RefundInv, Plans,
         NoPlan, Executing, Done
  <2> QED BY <2>1, <2>2, <2>3, <2>4, <2>5 DEF IInv
<1>2. CASE GatewayTimesOut(a)
  <2> USE <1>2 DEF GatewayTimesOut, Outcomes, Fault, Goto
  <2>1. TypeOK'
    BY DEF IInv, TypeOK, NothingPending, ChargeInv, Settled, PlannedCharge,
         RollbackFailed, PCs, Executing, Statuses, Done, Plans, NoPlan
  <2>2. NothingPending'
    BY DEF IInv, TypeOK, NothingPending, Executing
  <2>3. LockInv'
    BY DEF IInv, TypeOK, LockInv, Executing
  <2>4. ChargeInv'
    BY DEF IInv, TypeOK, NothingPending, LockInv, ChargeInv, Settled,
         PlannedCharge, RollbackFailed, Plans, NoPlan, Executing
  <2>5. RefundInv'
    BY DEF IInv, TypeOK, NothingPending, LockInv, ChargeInv, RefundInv, Plans,
         NoPlan, Executing, Done
  <2> QED BY <2>1, <2>2, <2>3, <2>4, <2>5 DEF IInv
<1> QED BY <1>1, <1>2

\* So do the updates that end a refund.
LEMMA EndInv ==
  ASSUME Setting, IInv, NEW a \in Admins, RestoreStatus(a) \/ MarkFailed(a)
         \/ MarkRefundOk(a) \/ MarkPending(a) \/ PendingAudit(a) PROVE IInv'
<1> USE DEF Setting, AmountsAssumption, orderVars, purseVars
<1>1. CASE RestoreStatus(a)
  <2> USE <1>1 DEF RestoreStatus, RestoredStatus, Return
  <2>1. TypeOK'
    BY DEF IInv, TypeOK, NothingPending, ChargeInv, Settled, PlannedCharge,
         RollbackFailed, PCs, Executing, Statuses, Done, Plans, NoPlan
  <2>2. NothingPending'
    BY DEF IInv, TypeOK, NothingPending, Executing
  <2>3. LockInv'
    BY DEF IInv, TypeOK, LockInv, Executing
  <2>4. ChargeInv'
    BY DEF IInv, TypeOK, NothingPending, LockInv, ChargeInv, Settled,
         PlannedCharge, RollbackFailed, Plans, NoPlan, Executing
  <2>5. RefundInv'
    BY DEF IInv, TypeOK, NothingPending, LockInv, ChargeInv, RefundInv, Plans,
         NoPlan, Executing, Done
  <2> QED BY <2>1, <2>2, <2>3, <2>4, <2>5 DEF IInv
<1>2. CASE MarkFailed(a)
  <2> USE <1>2 DEF MarkFailed, Return
  <2>1. TypeOK'
    BY DEF IInv, TypeOK, NothingPending, ChargeInv, Settled, PlannedCharge,
         RollbackFailed, PCs, Executing, Statuses, Done, Plans, NoPlan
  <2>2. NothingPending'
    BY DEF IInv, TypeOK, NothingPending, Executing
  <2>3. LockInv'
    BY DEF IInv, TypeOK, LockInv, Executing
  <2>4. ChargeInv'
    BY DEF IInv, TypeOK, NothingPending, LockInv, ChargeInv, Settled,
         PlannedCharge, RollbackFailed, Plans, NoPlan, Executing
  <2>5. RefundInv'
    BY DEF IInv, TypeOK, NothingPending, LockInv, ChargeInv, RefundInv, Plans,
         NoPlan, Executing, Done
  <2> QED BY <2>1, <2>2, <2>3, <2>4, <2>5 DEF IInv
<1>3. CASE MarkRefundOk(a)
  <2>1. /\ pc[a] = "ok" /\ status' = FinalStatus(plan[a].amt)
        /\ amount' = plan[a].amt
        /\ pc' = [pc EXCEPT ![a] = "idle"] /\ plan' = [plan EXCEPT ![a] = NoPlan]
        /\ UNCHANGED <<otype, purse, revoked, taken, stray, detail, gw>>
    BY <1>3 DEF MarkRefundOk, Return
  <2>2. /\ faults' \in Nat /\ RollbackFailed' = RollbackFailed
        /\ audit' \subseteq {"REFUND_ROLLBACK_FAILED", "REFUND_SUCCESS"}
    <3>1. faults' \in Nat
      BY <1>3 DEF MarkRefundOk, WriteAudit, Fault, IInv, TypeOK
    <3>2. audit' = audit \/ audit' = audit \union {"REFUND_SUCCESS"}
      BY <1>3 DEF MarkRefundOk, WriteAudit
    <3>3. audit \subseteq {"REFUND_ROLLBACK_FAILED", "REFUND_SUCCESS"}
      BY DEF IInv, TypeOK
    <3>4. RollbackFailed' = RollbackFailed
      BY <3>2 DEF RollbackFailed
    <3>5. audit' \subseteq {"REFUND_ROLLBACK_FAILED", "REFUND_SUCCESS"}
      BY <3>2, <3>3
    <3> QED BY <3>1, <3>4, <3>5
  <2>3. status' \in Done /\ status' \in Statuses /\ status' # "REFUND_PENDING"
        /\ status' # "REFUNDING"
    BY <2>1 DEF FinalStatus, Done, Statuses
  <2>4. plan[a].amt \in Amounts /\ gw[plan[a].amt] = "done"
    BY <2>1 DEF IInv, ChargeInv, RefundInv, Executing
  <2>5. TypeOK'
    <3>1. pc' \in [Admins -> PCs]
      BY <2>1 DEF IInv, TypeOK, PCs
    <3>2. NoPlan \in Plans
      BY DEF NoPlan, Plans, Statuses
    <3>3. plan' \in [Admins -> Plans]
      BY <2>1, <3>2 DEF IInv, TypeOK
    <3>4. amount' \in 0..Amount
      <4>1. plan[a].amt \in 1..Amount
        BY <2>4
      <4>2. amount' = plan[a].amt
        BY <2>1
      <4> QED BY <4>1, <4>2
    <3>5. /\ otype' \in {"balance", "subscription"} /\ revoked' \in BOOLEAN
          /\ purse' \in Nat /\ taken' \in Nat /\ stray' \in Nat
          /\ detail' \in Details
          /\ gw' \in [Amounts -> {"none", "pending", "done", "failed"}]
      BY <2>1 DEF IInv, TypeOK
    <3> QED BY <2>2, <2>3, <3>1, <3>3, <3>4, <3>5 DEF TypeOK
  <2>6. \A b \in Admins : pc'[b] \notin Executing /\ pc'[b] # "ok"
    BY <2>1 DEF IInv, TypeOK, LockInv, Executing
  <2>7. \A b \in Admins : b # a => pc'[b] = pc[b] /\ plan'[b] = plan[b]
    BY <2>1 DEF IInv, TypeOK
  <2>8. NothingPending' /\ LockInv' /\ RefundInv'
    BY <2>1, <2>3, <2>4, <2>6 DEF IInv, TypeOK, NothingPending, LockInv,
       RefundInv
  <2>9. ChargeInv'
    <3>1. stray' <= taken' /\ taken' <= stray' + Amount
          /\ (revoked' => otype' = "subscription" /\ purse' = 0)
      BY <2>1 DEF IInv, ChargeInv
    <3>2. \A b \in Admins :
            pc'[b] \in Executing \union {"lock"} => plan'[b].amt \in Amounts
      BY <2>1, <2>6, <2>7 DEF IInv, TypeOK, ChargeInv
    <3>3. status' \in Done \union {"REFUNDING"}
      BY <2>3
    <3>4. \A b \in Admins : pc'[b] \notin {"deduct", "restore", "fail",
                                          "gateway", "undoFailed"}
      BY <2>6 DEF Executing
    <3> QED BY <3>1, <3>2, <3>3, <3>4 DEF ChargeInv
  <2> QED BY <2>5, <2>8, <2>9 DEF IInv
<1>4. CASE MarkPending(a) \/ PendingAudit(a)
  BY <1>4 DEF MarkPending, PendingAudit, IInv, NothingPending
<1> QED BY <1>1, <1>2, <1>3, <1>4

\* Nobody finalizes a refund where none is pending.
LEMMA FinalizeInv ==
  ASSUME IInv, NEW a \in Admins, FinalizeStep(a) PROVE IInv'
BY DEF FinalizeStep, QueryRefund, FinalizeRefund, FinalizeFailed, IInv,
     NothingPending

\* So do faults.
LEMMA FaultInv ==
  ASSUME Setting, IInv, NEW a \in Admins, DeductFails(a) \/ WriteFails(a) \/ Crash(a) PROVE IInv'
<1> USE DEF Setting, AmountsAssumption, orderVars, purseVars
<1>1. CASE DeductFails(a)
  <2> USE <1>1 DEF DeductFails, SkipsDeduction, Fault, Goto
  <2>1. TypeOK'
    BY DEF IInv, TypeOK, NothingPending, ChargeInv, Settled, PlannedCharge,
         RollbackFailed, PCs, Executing, Statuses, Done, Plans, NoPlan
  <2>2. NothingPending'
    BY DEF IInv, TypeOK, NothingPending, Executing
  <2>3. LockInv'
    BY DEF IInv, TypeOK, LockInv, Executing
  <2>4. ChargeInv'
    BY DEF IInv, TypeOK, NothingPending, LockInv, ChargeInv, Settled,
         PlannedCharge, RollbackFailed, Plans, NoPlan, Executing
  <2>5. RefundInv'
    BY DEF IInv, TypeOK, NothingPending, LockInv, ChargeInv, RefundInv, Plans,
         NoPlan, Executing, Done
  <2> QED BY <2>1, <2>2, <2>3, <2>4, <2>5 DEF IInv
<1>2. CASE WriteFails(a)
  <2> USE <1>2 DEF WriteFails, Fault, Return
  <2>1. TypeOK'
    BY DEF IInv, TypeOK, NothingPending, ChargeInv, Settled, PlannedCharge,
         RollbackFailed, PCs, Executing, Statuses, Done, Plans, NoPlan
  <2>2. NothingPending'
    BY DEF IInv, TypeOK, NothingPending, Executing
  <2>3. LockInv'
    BY DEF IInv, TypeOK, LockInv, Executing
  <2>4. ChargeInv'
    BY DEF IInv, TypeOK, NothingPending, LockInv, ChargeInv, Settled,
         PlannedCharge, RollbackFailed, Plans, NoPlan, Executing
  <2>5. RefundInv'
    BY DEF IInv, TypeOK, NothingPending, LockInv, ChargeInv, RefundInv, Plans,
         NoPlan, Executing, Done
  <2> QED BY <2>1, <2>2, <2>3, <2>4, <2>5 DEF IInv
<1>3. CASE Crash(a)
  <2> USE <1>3 DEF Crash, Fault, Return
  <2>1. TypeOK'
    BY DEF IInv, TypeOK, NothingPending, ChargeInv, Settled, PlannedCharge,
         RollbackFailed, PCs, Executing, Statuses, Done, Plans, NoPlan
  <2>2. NothingPending'
    BY DEF IInv, TypeOK, NothingPending, Executing
  <2>3. LockInv'
    BY DEF IInv, TypeOK, LockInv, Executing
  <2>4. ChargeInv'
    BY DEF IInv, TypeOK, NothingPending, LockInv, ChargeInv, Settled,
         PlannedCharge, RollbackFailed, Plans, NoPlan, Executing
  <2>5. RefundInv'
    BY DEF IInv, TypeOK, NothingPending, LockInv, ChargeInv, RefundInv, Plans,
         NoPlan, Executing, Done
  <2> QED BY <2>1, <2>2, <2>3, <2>4, <2>5 DEF IInv
<1> QED BY <1>1, <1>2, <1>3

\* So do the user and the provider on their own.
LEMMA EnvironmentInv ==
  ASSUME Setting, IInv, RequestRefund \/ Spend \/ GatewaySettles PROVE IInv'
<1> USE DEF Setting, AmountsAssumption, orderVars, purseVars
<1>1. CASE RequestRefund
  <2> USE <1>1 DEF RequestRefund
  <2>1. TypeOK'
    BY DEF IInv, TypeOK, NothingPending, ChargeInv, Settled, PlannedCharge,
         RollbackFailed, PCs, Executing, Statuses, Done, Plans, NoPlan
  <2>2. NothingPending'
    BY DEF IInv, TypeOK, NothingPending, Executing
  <2>3. LockInv'
    BY DEF IInv, TypeOK, LockInv, Executing
  <2>4. ChargeInv'
    BY DEF IInv, TypeOK, ChargeInv, Settled, PlannedCharge, RollbackFailed,
         Done
  <2>5. RefundInv'
    BY DEF IInv, TypeOK, NothingPending, LockInv, ChargeInv, RefundInv, Plans,
         NoPlan, Executing, Done
  <2> QED BY <2>1, <2>2, <2>3, <2>4, <2>5 DEF IInv
<1>2. CASE Spend
  <2> USE <1>2 DEF Spend
  <2>1. TypeOK'
    BY DEF IInv, TypeOK, NothingPending, ChargeInv, Settled, PlannedCharge,
         RollbackFailed, PCs, Executing, Statuses, Done, Plans, NoPlan
  <2>2. NothingPending'
    BY DEF IInv, TypeOK, NothingPending, Executing
  <2>3. LockInv'
    BY DEF IInv, TypeOK, LockInv, Executing
  <2>4. ChargeInv'
    BY DEF IInv, TypeOK, ChargeInv, Settled, PlannedCharge, RollbackFailed
  <2>5. RefundInv'
    BY DEF IInv, TypeOK, NothingPending, LockInv, ChargeInv, RefundInv, Plans,
         NoPlan, Executing, Done
  <2> QED BY <2>1, <2>2, <2>3, <2>4, <2>5 DEF IInv
<1>3. CASE GatewaySettles
  BY <1>3 DEF GatewaySettles, IInv, NothingPending
<1> QED BY <1>1, <1>2, <1>3

\* Every step preserves the invariant.
LEMMA NextInv == Setting /\ IInv /\ [Next]_vars => IInv'
<1> SUFFICES ASSUME Setting, IInv, [Next]_vars PROVE IInv'
  OBVIOUS
<1>1. CASE RequestRefund \/ Spend \/ GatewaySettles
  BY <1>1, EnvironmentInv
<1>2. ASSUME NEW a \in Admins,
             Request(a) \/ ExecuteStep(a) \/ FinalizeStep(a) \/ AdminFault(a)
      PROVE  IInv'
  BY <1>2, RequestInv, ChargeStepInv, GatewayInv, EndInv, FinalizeInv, FaultInv
     DEF ExecuteStep, AdminFault
<1>3. CASE UNCHANGED vars
  BY <1>3 DEF vars, orderVars, purseVars, IInv, TypeOK, NothingPending,
       LockInv, ChargeInv, Settled, PlannedCharge, RollbackFailed, RefundInv
<1> QED BY <1>1, <1>2, <1>3 DEF Next

\* The inductive invariant holds in every reachable state.
THEOREM Invariance ==
  ASSUME PendingGw = FALSE PROVE Spec => []IInv
<1>1. Setting
  BY AmountsAssumption, ChoiceAssumption DEF Setting
<1>2. Init => IInv
  BY <1>1, InitInv
<1>3. IInv /\ [Next]_vars => IInv'
  BY <1>1, NextInv
<1> QED BY <1>2, <1>3, PTL DEF Spec

\* The status REFUNDING excludes a second refund of the same order, however
\* many administrators ask for one.
THEOREM RefundsExclude ==
  ASSUME PendingGw = FALSE PROVE Spec => []OneRefunder
<1>1. IInv => OneRefunder
  <2> SUFFICES ASSUME LockInv PROVE OneRefunder
    BY DEF IInv
  <2> DEFINE S == {a \in Admins : pc[a] \in Executing}
  <2>1. CASE S = {}
    BY <2>1, FS_EmptySet DEF OneRefunder
  <2>2. ASSUME NEW a \in S PROVE OneRefunder
    <3>1. S = {a}
      BY <2>2 DEF LockInv
    <3> QED BY <3>1, FS_Singleton DEF OneRefunder
  <2> QED BY <2>1, <2>2
<1> QED BY <1>1, Invariance, PTL

\* The user is charged at most the amount of the order, save for what an
\* attempt lost sight of, its row about the failed rollback not written or not
\* read (DeductAvailableBalance, hasAuditLog, writeAuditLog).
THEOREM ChargedAtMostOnce ==
  ASSUME PendingGw = FALSE PROVE Spec => []TakenOnce
<1>1. IInv => TakenOnce
  BY DEF IInv, ChargeInv, TakenOnce
<1> QED BY <1>1, Invariance, PTL

\* A refund that was undone left the user's purse as it was, unless a failed
\* rollback is on record or the attempt lost sight of what it could not give
\* back.
THEOREM UndoneIsReturned ==
  ASSUME PendingGw = FALSE PROVE Spec => []UndoneMeansReturned
<1>1. IInv => UndoneMeansReturned
  BY DEF IInv, ChargeInv, Settled, RollbackFailed, UndoneMeansReturned
<1> QED BY <1>1, Invariance, PTL

\* An order that counts as refunded was refunded by the provider, in full.
THEOREM RefundedIsReturned ==
  ASSUME PendingGw = FALSE PROVE Spec => []RefundedMeansReturned
<1>1. IInv => RefundedMeansReturned
  BY DEF IInv, RefundInv, RefundedMeansReturned
<1> QED BY <1>1, Invariance, PTL

\* A complete refund is final: nobody is left who would still write the order.
THEOREM CompleteIsFinal ==
  ASSUME PendingGw = FALSE PROVE Spec => RefundIsFinal
<1>1. IInv /\ [Next]_vars => [(status \in Done) => UNCHANGED orderVars]_vars
  <2> SUFFICES ASSUME IInv, Next, status \in Done PROVE UNCHANGED orderVars
    OBVIOUS
  <2>1. \A a \in Admins : pc[a] \in {"idle", "lock"}
    BY DEF IInv, TypeOK, NothingPending, LockInv, PCs, Executing, Done
  <2>2. CASE RequestRefund \/ Spend \/ GatewaySettles
    BY <2>2 DEF RequestRefund, Spend, GatewaySettles, orderVars, Done
  <2>3. ASSUME NEW a \in Admins,
               Request(a) \/ ExecuteStep(a) \/ FinalizeStep(a) \/ AdminFault(a)
        PROVE  UNCHANGED orderVars
    <3>1. CASE Request(a) \/ AdminFault(a)
      BY <3>1 DEF Request, StartQuery, PrepareRefund, AdminFault, DeductFails,
           DeductUnread, GatewayTimesOut, WriteFails, Crash
    <3>2. CASE ExecuteStep(a) \/ FinalizeStep(a)
      BY <2>1, <3>2 DEF ExecuteStep, Lock, LockFree, Refundable, Deduct,
           GatewayAnswers, RollbackRefund, RollbackFails, NoteRollback,
           RestoreStatus, MarkFailed, MarkRefundOk, MarkPending, PendingAudit, FinalizeStep,
           QueryRefund, FinalizeRefund, FinalizeFailed, orderVars, Done
    <3> QED BY <2>3, <3>1, <3>2
  <2> QED BY <2>2, <2>3 DEF Next
<1> QED BY <1>1, Invariance, PTL DEF Spec, RefundIsFinal

\* Everything of an order and its refund keeps to its type.
THEOREM TypeCorrect ==
  ASSUME PendingGw = FALSE PROVE Spec => []TypeOK
<1>1. IInv => TypeOK
  BY DEF IInv
<1> QED BY <1>1, Invariance, PTL

\* Only the holder of the lock hears that the provider returned the money, and
\* it goes on to record it, as long as no answer of the provider is lost.
LEMMA RecordStep ==
  ASSUME IInv, RecordInv, [Next]_vars, PendingGw = FALSE,
         "timeout" \notin FaultKinds
  PROVE  RecordInv'
<1>1. CASE UNCHANGED vars
  BY <1>1 DEF vars, orderVars, RecordInv
<1>2. CASE RequestRefund \/ Spend \/ GatewaySettles
  BY <1>2 DEF RequestRefund, Spend, GatewaySettles, RecordInv, IInv,
     NothingPending, Done, orderVars
<1>3. ASSUME NEW a \in Admins, Request(a) PROVE RecordInv'
  <2>1. pc' = [pc EXCEPT ![a] = "lock"] \/ pc' = [pc EXCEPT ![a] = "query"]
    BY <1>3 DEF Request, StartQuery, PrepareRefund
  <2>2. \A b \in Admins : pc'[b] \in Executing => pc'[b] = pc[b]
    BY <2>1 DEF IInv, TypeOK, Executing
  <2>3. UNCHANGED <<gw, status>>
    BY <1>3 DEF Request, StartQuery, PrepareRefund, orderVars
  <2> QED BY <2>2, <2>3 DEF RecordInv
<1>4. ASSUME NEW a \in Admins, Lock(a) PROVE RecordInv'
  <2>1. (\E x \in Amounts : gw[x] = "done") => pc'[a] = "idle" /\ status' = status
    BY <1>4 DEF Lock, LockFree, Refundable, Goto, Return, RecordInv, IInv,
       TypeOK, Done
  <2>2. \A b \in Admins \ {a} : pc'[b] = pc[b]
    BY <1>4 DEF Lock, Goto, Return, IInv, TypeOK
  <2>3. UNCHANGED gw
    BY <1>4 DEF Lock
  <2> QED BY <2>1, <2>2, <2>3 DEF RecordInv, Executing
<1>5. ASSUME NEW a \in Admins, GatewayAnswers(a) PROVE RecordInv'
  <2>1. pc[a] = "gateway" /\ status = "REFUNDING" /\ status' = status
    BY <1>5 DEF GatewayAnswers, orderVars, IInv, LockInv, Executing
  <2>2. \A b \in Admins \ {a} : pc[b] \notin Executing /\ pc'[b] = pc[b]
    BY <1>5, <2>1
    DEF GatewayAnswers, Goto, IInv, TypeOK, LockInv, Executing
  <2>3. \A x \in Amounts : gw[x] # "done"
    BY <2>1 DEF RecordInv, Done, Executing
  <2>4. (\E x \in Amounts : gw'[x] = "done") => pc'[a] = "ok"
    BY <1>5, <2>3
    DEF GatewayAnswers, Goto, AfterGateway, IInv, TypeOK
  <2> QED BY <2>1, <2>2, <2>4 DEF RecordInv
<1>6. ASSUME NEW a \in Admins, MarkRefundOk(a) PROVE RecordInv'
  BY <1>6 DEF MarkRefundOk, FinalStatus, RecordInv, Done
<1>7. ASSUME NEW a \in Admins,
             \/ Deduct(a) \/ RollbackRefund(a) \/ RollbackFails(a)
             \/ RestoreStatus(a) \/ MarkFailed(a) \/ DeductFails(a)
             \/ DeductUnread(a) \/ NoteRollback(a)
      PROVE  RecordInv'
  <2>1. pc[a] \in Executing \ {"ok"}
    BY <1>7 DEF Deduct, RollbackRefund, RollbackFails, RestoreStatus, MarkFailed,
       DeductFails, DeductUnread, NoteRollback, IInv, NothingPending, Executing
  <2>2. status = "REFUNDING" /\ UNCHANGED gw
    BY <1>7, <2>1 DEF Deduct, RollbackRefund, RollbackFails, RestoreStatus,
       MarkFailed, DeductFails, DeductUnread, NoteRollback, IInv, LockInv
  <2> QED BY <2>1, <2>2 DEF RecordInv, Done
<1>8. ASSUME NEW a \in Admins, WriteFails(a) \/ Crash(a) PROVE RecordInv'
  <2>1. pc' = [pc EXCEPT ![a] = "idle"] /\ UNCHANGED <<gw, status>>
    BY <1>8 DEF WriteFails, Crash, Return, orderVars
  <2>2. \A b \in Admins : pc'[b] \in Executing => pc'[b] = pc[b]
    BY <2>1 DEF IInv, TypeOK, Executing
  <2> QED BY <2>1, <2>2 DEF RecordInv
<1>9. \A a \in Admins :
        ~MarkPending(a) /\ ~PendingAudit(a) /\ ~FinalizeStep(a)
          /\ ~GatewayTimesOut(a)
  BY DEF MarkPending, PendingAudit, FinalizeStep, QueryRefund, FinalizeRefund,
     FinalizeFailed, GatewayTimesOut, Fault, IInv, NothingPending
<1> QED BY <1>1, <1>2, <1>3, <1>4, <1>5, <1>6, <1>7, <1>8, <1>9
        DEF Next, ExecuteStep, AdminFault

\* Money the provider returned is not forgotten.
THEOREM ReturnsAreRecorded ==
  ASSUME PendingGw = FALSE, "timeout" \notin FaultKinds
  PROVE  Spec => []ReturnedIsRecorded
<1>1. Init => RecordInv
  BY DEF Init, RecordInv
<1>2. IInv /\ RecordInv /\ [Next]_vars => RecordInv'
  BY RecordStep
<1>3. RecordInv => ReturnedIsRecorded
  BY DEF RecordInv, ReturnedIsRecorded
<1> QED BY <1>1, <1>2, <1>3, Invariance, PTL DEF Spec

-----------------------------------------------------------------------------
(* PaymentRefund implements PaymentRefundContract. *)

\* Steps that the contract does not see.
Quiet ==
  /\ UNCHANGED <<taken, stray, gw>>
  /\ ("REFUND_ROLLBACK_FAILED" \in audit') = ("REFUND_ROLLBACK_FAILED" \in audit)
  /\ \/ UNCHANGED orderVars
     \/ status = "COMPLETED" /\ status' = "REFUND_REQUESTED"

LEMMA QuietStutters == ASSUME Quiet PROVE UNCHANGED Contract!vars
BY DEF Quiet, orderVars, Contract!vars, Done

\* A lock starts an attempt; a request that comes too late changes nothing.
LEMMA LockContract ==
  ASSUME NEW a \in Admins, Lock(a) PROVE Contract!Start \/ Quiet
<1>1. CASE LockFree
  BY <1>1 DEF Lock, LockFree, Refundable, Done, purseVars,
     Contract!Start
<1>2. CASE ~LockFree
  BY <1>2 DEF Lock, Quiet, orderVars, purseVars
<1> QED BY <1>1, <1>2

\* A deduction charges at most the amount of the order, and only where nothing
\* in sight is charged yet and no failed rollback is on record, or where that
\* record is not read.
LEMMA DeductContract ==
  ASSUME Setting, IInv, IInv', NEW a \in Admins, Deduct(a) \/ DeductUnread(a)
  PROVE  Contract!Charge \/ Contract!ChargeAgain \/ Quiet
<1>1. status = "REFUNDING" /\ UNCHANGED <<status, amount, audit, gw>>
  BY DEF Deduct, DeductUnread, IInv, LockInv, Executing, orderVars
<1>2. CASE Deduct(a) /\ (SkipsDeduction \/ ~Chargeable(plan[a].take))
  BY <1>2 DEF Deduct, TakeDeduction, Quiet, orderVars, purseVars
<1>3. CASE Deduct(a) /\ ~SkipsDeduction /\ Chargeable(plan[a].take)
  <2>1. taken = stray /\ ~RollbackFailed /\ stray' = stray
    BY <1>3 DEF Deduct, SkipsDeduction, RollbackFailed, IInv, ChargeInv,
       Settled, Executing
  <2>2. taken' \in stray..(stray + Amount)
    BY <2>1 DEF Setting, AmountsAssumption, IInv, TypeOK, ChargeInv
  <2> QED
    BY <1>1, <2>1, <2>2 DEF RollbackFailed, Contract!Charge, Done
<1>4. CASE DeductUnread(a)
  <2>1. RollbackFailed /\ taken \in Nat /\ stray \in Nat
    BY <1>4 DEF DeductUnread, SkipsDeduction, RollbackFailed, IInv, TypeOK
  <2>2. CASE pc'[a] = "gateway"
    <3>1. stray' = taken
      BY <1>4, <2>2 DEF DeductUnread
    <3>2. taken' \in taken..(taken + Amount)
      BY <3>1 DEF Setting, AmountsAssumption, IInv, TypeOK, ChargeInv
    <3> QED
      BY <1>1, <2>1, <3>1, <3>2 DEF RollbackFailed, Contract!ChargeAgain, Done
  <2>3. CASE pc'[a] # "gateway"
    <3>1. stray' = stray /\ taken' = taken
      BY <1>4, <2>3 DEF DeductUnread, TakeDeduction, IInv, TypeOK
    <3> QED BY <1>1, <3>1 DEF Quiet, orderVars
  <2> QED BY <2>2, <2>3
<1> QED BY <1>2, <1>3, <1>4

\* What is given back is all that was charged in sight, if there is something
\* to give back.
LEMMA RollbackContract ==
  ASSUME IInv, NEW a \in Admins, RollbackRefund(a)
  PROVE  Contract!GiveBack \/ Quiet
<1>1. status = "REFUNDING" /\ pc[a] = "undoFailed"
  BY DEF RollbackRefund, IInv, NothingPending, LockInv, Executing
<1>2. taken \in Nat /\ stray \in Nat /\ plan[a].take \in Nat
  BY DEF IInv, TypeOK, Plans
<1>3. CASE plan[a].take = 0
  BY <1>1, <1>2, <1>3 DEF RollbackRefund, GivenBack, Quiet, orderVars
<1>4. CASE plan[a].take # 0
  <2>1. taken' = stray /\ stray' = stray
    BY <1>1, <1>2, <1>4 DEF RollbackRefund, GivenBack, IInv, ChargeInv,
       PlannedCharge
  <2> QED
    BY <1>1, <2>1 DEF RollbackRefund, orderVars, Contract!GiveBack, Done
<1> QED BY <1>3, <1>4

\* A rollback that failed is put on record, or what it could not give back is
\* out of sight.
LEMMA StuckContract ==
  ASSUME IInv, NEW a \in Admins, NoteRollback(a)
  PROVE  Contract!GetStuck \/ Contract!LoseSight
<1>1. status = "REFUNDING" /\ UNCHANGED <<status, amount, taken, gw>>
  BY DEF NoteRollback, IInv, NothingPending, LockInv, Executing, orderVars
<1>2. CASE "REFUND_ROLLBACK_FAILED" \in audit'
  BY <1>1, <1>2 DEF NoteRollback, Contract!GetStuck, Done
<1>3. CASE "REFUND_ROLLBACK_FAILED" \notin audit'
  <2>1. audit' = audit /\ stray' = taken
    BY <1>3 DEF NoteRollback, WriteAudit
  <2> QED BY <1>1, <2>1 DEF Contract!LoseSight, Done
<1> QED BY <1>2, <1>3

\* The provider returns money only to whoever holds the lock.
LEMMA ReturnContract ==
  ASSUME Setting, IInv, NEW a \in Admins, GatewayAnswers(a) \/ GatewayTimesOut(a)
  PROVE  Contract!Return \/ UNCHANGED Contract!vars
<1> DEFINE Back(g) == {x \in Amounts : g[x] = "done"}
           amt == plan[a].amt
<1>1. status = "REFUNDING" /\ amt \in Amounts /\ amt \in 1..Amount
  BY DEF GatewayAnswers, GatewayTimesOut, IInv, LockInv, ChargeInv, Executing,
     Setting, AmountsAssumption
<1>2. UNCHANGED <<status, amount, taken, stray, audit>>
  BY DEF GatewayAnswers, GatewayTimesOut, orderVars, purseVars
<1>3. \/ gw' = gw
      \/ gw' = [gw EXCEPT ![amt] = "done"]
      \/ gw[amt] # "done" /\ gw' = [gw EXCEPT ![amt] = "failed"]
  BY DEF GatewayAnswers, GatewayTimesOut, Outcomes, Setting
<1>4. Back(gw') = Back(gw) \union {amt} \/ Back(gw') = Back(gw)
  BY <1>1, <1>3 DEF IInv, TypeOK
<1>5. CASE Back(gw') = Back(gw)
  BY <1>2, <1>5 DEF Contract!vars, Done
<1>6. CASE Back(gw') = Back(gw) \union {amt}
  BY <1>1, <1>2, <1>6 DEF Contract!Return, Done
<1> QED BY <1>4, <1>5, <1>6

\* An attempt ends with the order refunded by what the provider returned, or
\* is given up with nothing charged or the failed rollback on record.
LEMMA EndContract ==
  ASSUME IInv, NEW a \in Admins,
         RestoreStatus(a) \/ MarkFailed(a) \/ MarkRefundOk(a)
  PROVE  Contract!GiveUp \/ Contract!Finish
<1>1. status = "REFUNDING"
  BY DEF RestoreStatus, MarkFailed, MarkRefundOk, IInv, LockInv, Executing
<1>2. CASE RestoreStatus(a)
  <2>1. taken = stray \/ RollbackFailed
    BY <1>2 DEF RestoreStatus, IInv, ChargeInv, Settled
  <2> QED
    BY <1>1, <1>2, <2>1 DEF RestoreStatus, RestoredStatus, RollbackFailed,
       purseVars, Contract!GiveUp, Done
<1>3. CASE MarkFailed(a)
  BY <1>1, <1>3 DEF MarkFailed, RollbackFailed, purseVars, Contract!GiveUp, Done,
     IInv, ChargeInv, Settled
<1>4. CASE MarkRefundOk(a)
  <2>1. plan[a].amt \in {x \in Amounts : gw[x] = "done"}
    BY <1>4 DEF MarkRefundOk, IInv, ChargeInv, RefundInv, Executing
  <2>2. status' \in Done /\ amount' = plan[a].amt
    BY <1>4 DEF MarkRefundOk, FinalStatus, Done
  <2>3. ~(status' = "REFUNDING") /\ UNCHANGED <<taken, stray, gw>>
    BY <1>4, <2>2 DEF MarkRefundOk, purseVars, Done
  <2>4. ("REFUND_ROLLBACK_FAILED" \in audit')
          = ("REFUND_ROLLBACK_FAILED" \in audit)
    BY <1>4 DEF MarkRefundOk, WriteAudit
  <2> QED BY <1>1, <2>1, <2>2, <2>3, <2>4 DEF Contract!Finish, Done
<1> QED BY <1>2, <1>3, <1>4

\* A user that asks or spends is not seen, and nothing is ever pending.
LEMMA EnvironmentQuiet ==
  ASSUME IInv, RequestRefund \/ Spend \/ GatewaySettles PROVE Quiet
BY DEF RequestRefund, Spend, GatewaySettles, IInv, NothingPending, Quiet,
   orderVars, purseVars

\* Nor are requests, and faults that leave the order as it is.
LEMMA AdminQuiet ==
  ASSUME IInv, NEW a \in Admins,
         \/ Request(a) \/ DeductFails(a) \/ WriteFails(a) \/ Crash(a)
         \/ RollbackFails(a) \/ MarkPending(a) \/ PendingAudit(a)
         \/ FinalizeStep(a)
  PROVE  Quiet
<1> USE DEF Quiet, orderVars, purseVars
<1>1. CASE \/ Request(a) \/ DeductFails(a) \/ WriteFails(a) \/ Crash(a)
           \/ RollbackFails(a)
  BY <1>1 DEF Request, StartQuery, PrepareRefund, DeductFails, WriteFails,
     Crash, RollbackFails
<1>2. CASE MarkPending(a) \/ PendingAudit(a) \/ FinalizeStep(a)
  BY <1>2 DEF MarkPending, PendingAudit, FinalizeStep, QueryRefund,
     FinalizeRefund, FinalizeFailed, IInv, NothingPending
<1> QED BY <1>1, <1>2

\* Concurrent administrators, crashes and lost answers included, a refund keeps
\* its contract (ExecuteRefund and what it calls).
THEOREM RefundContractImplemented ==
  ASSUME PendingGw = FALSE PROVE Spec => ImplementsContract
<1>1. Setting
  BY AmountsAssumption, ChoiceAssumption DEF Setting
<1>2. Init => Contract!Init
  BY <1>1 DEF Init, Contract!Init, Done
<1>3. IInv /\ IInv' /\ [Next]_vars => [Contract!Next]_(Contract!vars)
  <2> SUFFICES ASSUME IInv, IInv', [Next]_vars
               PROVE  Contract!Next \/ UNCHANGED Contract!vars
    OBVIOUS
  <2>1. CASE UNCHANGED vars
    BY <2>1, QuietStutters DEF vars, orderVars, purseVars, Quiet
  <2>2. CASE RequestRefund \/ Spend \/ GatewaySettles
    BY <2>2, EnvironmentQuiet, QuietStutters
  <2>3. ASSUME NEW a \in Admins,
               Request(a) \/ ExecuteStep(a) \/ FinalizeStep(a) \/ AdminFault(a)
        PROVE  Contract!Next \/ UNCHANGED Contract!vars
    BY <1>1, <2>3, QuietStutters, AdminQuiet, LockContract, DeductContract,
       RollbackContract, StuckContract, ReturnContract, EndContract
       DEF ExecuteStep, AdminFault, Contract!Next
  <2> QED BY <2>1, <2>2, <2>3 DEF Next
<1> QED
  BY <1>2, <1>3, Invariance, PTL DEF Spec, ImplementsContract, Contract!Spec
=============================================================================
