--------------------- MODULE PaymentRefundPendingProofs ---------------------
(***************************************************************************)
(* Proofs about PaymentRefund for providers that may answer that a refund  *)
(* is pending, with every kind of fault.  QueryAndFinalizeRefund takes no  *)
(* lock, so what holds for any number of administrators is less than in    *)
(* PaymentRefundProofs: nothing counts as refunded that the provider       *)
(* returned nothing for.  What is charged and given back is settled for    *)
(* administrators that work one at a time.                                 *)
(***************************************************************************)
EXTENDS PaymentRefundProofs

\* The types of everything but taken and stray: two administrators may give the
\* same charge back.
RefundType ==
  /\ otype \in {"balance", "subscription"}
  /\ status \in Statuses
  /\ amount \in 0..Amount
  /\ purse \in Nat
  /\ revoked \in BOOLEAN
  /\ audit \subseteq {"REFUND_ROLLBACK_FAILED", "REFUND_SUCCESS"}
  /\ detail \in Details
  /\ gw \in [Amounts -> {"none", "pending", "done", "failed"}]
  /\ faults \in Nat
  /\ pc \in [Admins -> PCs]
  /\ plan \in [Admins -> Plans]

\* What a request starts and ends with has its type.
LEMMA NoPlanType == NoPlan \in Plans /\ NoDetail \in Details
BY AmountsAssumption DEF NoPlan, Plans, NoDetail, Details, Statuses

-----------------------------------------------------------------------------
(* Any number of administrators *)

\* Every step keeps the types.
LEMMA TypeStep ==
  ASSUME RefundType, Next PROVE RefundType'
<1> USE AmountsAssumption, NoPlanType DEF orderVars, purseVars,
        RefundType, PCs, Executing, Statuses, Done, Plans, Details
<1>1. CASE RequestRefund
  BY <1>1 DEF RequestRefund
<1>2. CASE Spend
  BY <1>2 DEF Spend
<1>3. CASE GatewaySettles
  BY <1>3 DEF GatewaySettles
<1>4. ASSUME NEW a \in Admins, StartQuery(a) PROVE RefundType'
  BY <1>4 DEF StartQuery
<1>5. ASSUME NEW a \in Admins, NEW amt \in Amounts, NEW d \in BOOLEAN,
             PrepareRefund(a, amt, d)
      PROVE  RefundType'
  BY <1>5 DEF PrepareRefund, PlannedTake, Lesser, Refundable
<1>6. ASSUME NEW a \in Admins, Lock(a) PROVE RefundType'
  <2> USE <1>6
  <2>1. pc' \in [Admins -> PCs]
    BY DEF Lock, Goto, Return
  <2>2. plan' \in [Admins -> Plans]
    BY DEF Lock, Goto, Return
  <2>3. status' \in Statuses
    BY DEF Lock
  <2> QED BY <2>1, <2>2, <2>3 DEF Lock
<1>7. ASSUME NEW a \in Admins, Deduct(a) \/ DeductUnread(a)
      PROVE  RefundType'
  <2>1. plan[a] \in Plans /\ plan[a].take \in 0..Amount
    BY DEF Plans
  <2>2. Charged(plan[a].take) \in 0..plan[a].take
          /\ Charged(plan[a].take) <= purse
    BY <2>1 DEF Charged, Lesser
  <2>3. /\ UNCHANGED <<otype, status, amount, audit, detail, gw>>
        /\ faults' \in Nat
    BY <1>7 DEF Deduct, DeductUnread, Fault
  <2>4. CASE Deduct(a) /\ SkipsDeduction
    BY <2>1, <2>3, <2>4 DEF Deduct, Plans
  <2>5. CASE TakeDeduction(a)
    <3>1. purse' \in Nat
      BY <2>1, <2>2, <2>5 DEF TakeDeduction, Charge
    <3>2. revoked' \in BOOLEAN
      BY <2>5 DEF TakeDeduction, Charge
    <3>3. pc' \in [Admins -> PCs]
      BY <2>5 DEF TakeDeduction, Goto
    <3>4. plan' \in [Admins -> Plans]
      BY <2>1, <2>2, <2>5 DEF TakeDeduction, Goto, Plans
    <3> QED BY <2>3, <3>1, <3>2, <3>3, <3>4
  <2> QED BY <1>7, <2>4, <2>5 DEF Deduct, DeductUnread
<1>8. ASSUME NEW a \in Admins, GatewayAnswers(a) PROVE RefundType'
  <2> USE <1>8
  <2>1. pc' \in [Admins -> PCs]
    BY DEF GatewayAnswers, Outcomes, AfterGateway, Goto
  <2>2. gw' \in [Amounts -> {"none", "pending", "done", "failed"}]
    BY DEF GatewayAnswers, Outcomes
  <2> QED BY <2>1, <2>2 DEF GatewayAnswers, Goto
<1>9. ASSUME NEW a \in Admins, RollbackRefund(a) PROVE RefundType'
  BY <1>9 DEF RollbackRefund, AfterUndo, GivenBack
<1>10. ASSUME NEW a \in Admins, RollbackFails(a) PROVE RefundType'
  <2> USE <1>10
  <2>1. pc' \in [Admins -> PCs]
    BY DEF RollbackFails, AfterUndo
  <2>2. [plan[a] EXCEPT !.undone = FALSE] \in Plans
    <3>1. plan[a] \in Plans
      OBVIOUS
    <3>2. \A p \in Plans : [p EXCEPT !.undone = FALSE] \in Plans
      BY ZenonT(30)
    <3> QED BY <3>1, <3>2
  <2>3. plan' = [plan EXCEPT ![a] = [plan[a] EXCEPT !.undone = FALSE]]
    BY DEF RollbackFails
  <2>4. plan' \in [Admins -> Plans]
    BY <2>2, <2>3
  <2>5. faults' \in Nat
    BY DEF RollbackFails, Fault
  <2> QED BY <2>1, <2>4, <2>5 DEF RollbackFails
<1>11. ASSUME NEW a \in Admins, RestoreStatus(a) PROVE RefundType'
  BY <1>11 DEF RestoreStatus, RestoredStatus, Return
<1>12. ASSUME NEW a \in Admins, MarkFailed(a) PROVE RefundType'
  BY <1>12 DEF MarkFailed, Return
<1>13. ASSUME NEW a \in Admins, MarkRefundOk(a) PROVE RefundType'
  <2>1. audit' \subseteq {"REFUND_ROLLBACK_FAILED", "REFUND_SUCCESS"}
    BY <1>13 DEF MarkRefundOk, WriteAudit
  <2>2. faults' \in Nat
    BY <1>13 DEF MarkRefundOk, WriteAudit, Fault
  <2>3. status' \in Statuses /\ amount' \in 0..Amount
    BY <1>13 DEF MarkRefundOk, FinalStatus
  <2>4. pc' \in [Admins -> PCs] /\ plan' \in [Admins -> Plans]
    BY <1>13 DEF MarkRefundOk, Return
  <2> QED BY <1>13, <2>1, <2>2, <2>3, <2>4 DEF MarkRefundOk
<1>14. ASSUME NEW a \in Admins, MarkPending(a) PROVE RefundType'
  BY <1>14 DEF MarkPending, Goto
<1>15. ASSUME NEW a \in Admins, PendingAudit(a) PROVE RefundType'
  BY <1>15 DEF PendingAudit, Return, Fault
<1>16. ASSUME NEW a \in Admins, QueryRefund(a) PROVE RefundType'
  BY <1>16 DEF QueryRefund, AfterQuery, QueriedRefund, FinalTake, PlannedTake,
       Lesser, Fault
<1>17. ASSUME NEW a \in Admins, FinalizeRefund(a) PROVE RefundType'
  <2> USE <1>17
  <2>1. plan[a] \in Plans /\ plan[a].take \in 0..Amount
    BY DEF Plans
  <2>2. Charged(plan[a].take) \in 0..plan[a].take
          /\ Charged(plan[a].take) <= purse
    BY <2>1 DEF Charged, Lesser
  <2>3. purse' \in Nat
    BY <2>1, <2>2 DEF FinalizeRefund, Charge
  <2>4. revoked' \in BOOLEAN
    BY DEF FinalizeRefund, Charge
  <2>5. status' \in Statuses /\ amount' \in 0..Amount
    BY <2>1 DEF FinalizeRefund, FinalStatus, Plans
  <2>6. pc' \in [Admins -> PCs]
    BY DEF FinalizeRefund, Return
  <2>7. plan' \in [Admins -> Plans]
    BY DEF FinalizeRefund, Return
  <2>8. audit' \subseteq {"REFUND_ROLLBACK_FAILED", "REFUND_SUCCESS"}
    BY DEF FinalizeRefund
  <2> QED BY <2>3, <2>4, <2>5, <2>6, <2>7, <2>8 DEF FinalizeRefund
<1>18. ASSUME NEW a \in Admins, FinalizeFailed(a) PROVE RefundType'
  BY <1>18 DEF FinalizeFailed, Return
<1>19. ASSUME NEW a \in Admins, DeductFails(a) PROVE RefundType'
  BY <1>19 DEF DeductFails, Fault, Goto
<1>20. ASSUME NEW a \in Admins, GatewayTimesOut(a) PROVE RefundType'
  <2> USE <1>20
  <2>1. pc' \in [Admins -> PCs]
    BY DEF GatewayTimesOut, Goto
  <2>2. gw' \in [Amounts -> {"none", "pending", "done", "failed"}]
    BY DEF GatewayTimesOut, Outcomes
  <2>3. faults' \in Nat
    BY DEF GatewayTimesOut, Fault
  <2> QED BY <2>1, <2>2, <2>3 DEF GatewayTimesOut, Goto
<1>21. ASSUME NEW a \in Admins, WriteFails(a) PROVE RefundType'
  BY <1>21 DEF WriteFails, Fault, Return
<1>22. ASSUME NEW a \in Admins, Crash(a) PROVE RefundType'
  BY <1>22 DEF Crash, Fault, Return
<1>23. ASSUME NEW a \in Admins, NoteRollback(a) PROVE RefundType'
  <2>1. audit' \subseteq {"REFUND_ROLLBACK_FAILED", "REFUND_SUCCESS"}
    BY <1>23 DEF NoteRollback, WriteAudit
  <2>2. faults' \in Nat
    BY <1>23 DEF NoteRollback, WriteAudit, Fault
  <2>3. pc' \in [Admins -> PCs] /\ plan' = plan
    BY <1>23 DEF NoteRollback, Goto
  <2> QED BY <1>23, <2>1, <2>2, <2>3 DEF NoteRollback
<1> QED BY <1>1, <1>2, <1>3, <1>4, <1>5, <1>6, <1>7, <1>8, <1>9, <1>10,
       <1>11, <1>12, <1>13, <1>14, <1>15, <1>16, <1>17, <1>18, <1>19, <1>20,
       <1>21, <1>22, <1>23
    DEF Next, Request, ExecuteStep, FinalizeStep, AdminFault

\* What is executed, queried or finalized stays a refund somebody asked for.
LEMMA PlanStep ==
  ASSUME RefundType, PlanInv, Next PROVE PlanInv'
<1> USE AmountsAssumption, NoPlanType DEF orderVars, purseVars,
        RefundType, PCs, Executing, Statuses, Done, Plans, Details,
        PlanInv, NoDetail, NoPlan
<1>1. CASE RequestRefund
  BY <1>1 DEF RequestRefund
<1>2. CASE Spend
  BY <1>2 DEF Spend
<1>3. CASE GatewaySettles
  BY <1>3 DEF GatewaySettles
<1>4. ASSUME NEW a \in Admins, StartQuery(a) PROVE PlanInv'
  BY <1>4 DEF StartQuery
<1>5. ASSUME NEW a \in Admins, NEW amt \in Amounts, NEW d \in BOOLEAN,
             PrepareRefund(a, amt, d)
      PROVE  PlanInv'
  BY <1>5 DEF PrepareRefund, PlannedTake, Lesser, Refundable
<1>6. ASSUME NEW a \in Admins, Lock(a) PROVE PlanInv'
  BY <1>6 DEF Lock, LockFree, Refundable, Goto, Return
<1>7. ASSUME NEW a \in Admins, Deduct(a) \/ DeductUnread(a)
      PROVE  PlanInv'
  BY <1>7 DEF Deduct, DeductUnread, TakeDeduction, Charge, Charged, Lesser, Goto
<1>8. ASSUME NEW a \in Admins, GatewayAnswers(a) PROVE PlanInv'
  BY <1>8 DEF GatewayAnswers, Outcomes, AfterGateway, Goto
<1>9. ASSUME NEW a \in Admins, RollbackRefund(a) PROVE PlanInv'
  BY <1>9 DEF RollbackRefund, AfterUndo, GivenBack
<1>10. ASSUME NEW a \in Admins, RollbackFails(a) PROVE PlanInv'
  BY <1>10 DEF RollbackFails, AfterUndo, Fault
<1>11. ASSUME NEW a \in Admins, RestoreStatus(a) PROVE PlanInv'
  BY <1>11 DEF RestoreStatus, RestoredStatus, Return
<1>12. ASSUME NEW a \in Admins, MarkFailed(a) PROVE PlanInv'
  BY <1>12 DEF MarkFailed, Return
<1>13. ASSUME NEW a \in Admins, MarkRefundOk(a) PROVE PlanInv'
  BY <1>13 DEF MarkRefundOk, FinalStatus, Return, WriteAudit, Fault
<1>14. ASSUME NEW a \in Admins, MarkPending(a) PROVE PlanInv'
  BY <1>14 DEF MarkPending, Goto
<1>15. ASSUME NEW a \in Admins, PendingAudit(a) PROVE PlanInv'
  BY <1>15 DEF PendingAudit, Return, Fault
<1>16. ASSUME NEW a \in Admins, QueryRefund(a) PROVE PlanInv'
  BY <1>16 DEF QueryRefund, AfterQuery, QueriedRefund, FinalTake, PlannedTake,
       Lesser, Fault
<1>17. ASSUME NEW a \in Admins, FinalizeRefund(a) PROVE PlanInv'
  BY <1>17 DEF FinalizeRefund, FinalStatus, Charge, Charged, Chargeable, Lesser,
       Return
<1>18. ASSUME NEW a \in Admins, FinalizeFailed(a) PROVE PlanInv'
  BY <1>18 DEF FinalizeFailed, Return
<1>19. ASSUME NEW a \in Admins, DeductFails(a) PROVE PlanInv'
  BY <1>19 DEF DeductFails, Fault, Goto
<1>20. ASSUME NEW a \in Admins, GatewayTimesOut(a) PROVE PlanInv'
  BY <1>20 DEF GatewayTimesOut, Outcomes, Fault, Goto
<1>21. ASSUME NEW a \in Admins, WriteFails(a) PROVE PlanInv'
  BY <1>21 DEF WriteFails, Fault, Return
<1>22. ASSUME NEW a \in Admins, Crash(a) PROVE PlanInv'
  BY <1>22 DEF Crash, Fault, Return
<1>23. ASSUME NEW a \in Admins, NoteRollback(a) PROVE PlanInv'
  BY <1>23 DEF NoteRollback, WriteAudit, Fault, Goto
<1> HIDE DEF PlanInv, RefundType, Statuses, Plans, Details, PCs, Executing, Done
<1> QED BY <1>1, <1>2, <1>3, <1>4, <1>5, <1>6, <1>7, <1>8, <1>9, <1>10,
       <1>11, <1>12, <1>13, <1>14, <1>15, <1>16, <1>17, <1>18, <1>19, <1>20,
       <1>21, <1>22, <1>23
    DEF Next, Request, ExecuteStep, FinalizeStep, AdminFault

\* MarkRefundOk and FinalizeRefund run after the provider said it returned the
\* money, whatever other administrators do in between.
LEMMA ReturnStep ==
  ASSUME RefundType, PlanInv, ReturnInv, Next PROVE ReturnInv'
<1> USE AmountsAssumption, NoPlanType DEF orderVars, purseVars,
        RefundType, PCs, Executing, Statuses, Done, Plans, Details,
        PlanInv, ReturnInv, SomeReturn, NoDetail, NoPlan
<1>1. CASE RequestRefund
  BY <1>1 DEF RequestRefund
<1>2. CASE Spend
  BY <1>2 DEF Spend
<1>3. CASE GatewaySettles
  BY <1>3 DEF GatewaySettles
<1>4. ASSUME NEW a \in Admins, StartQuery(a) PROVE ReturnInv'
  BY <1>4 DEF StartQuery
<1>5. ASSUME NEW a \in Admins, NEW amt \in Amounts, NEW d \in BOOLEAN,
             PrepareRefund(a, amt, d)
      PROVE  ReturnInv'
  BY <1>5 DEF PrepareRefund, PlannedTake, Lesser, Refundable
<1>6. ASSUME NEW a \in Admins, Lock(a) PROVE ReturnInv'
  BY <1>6 DEF Lock, LockFree, Refundable, Goto, Return
<1>7. ASSUME NEW a \in Admins, Deduct(a) \/ DeductUnread(a)
      PROVE  ReturnInv'
  BY <1>7 DEF Deduct, DeductUnread, TakeDeduction, Charge, Charged, Lesser, Goto
<1>8. ASSUME NEW a \in Admins, GatewayAnswers(a) PROVE ReturnInv'
  BY <1>8 DEF GatewayAnswers, Outcomes, AfterGateway, Goto
<1>9. ASSUME NEW a \in Admins, RollbackRefund(a) PROVE ReturnInv'
  BY <1>9 DEF RollbackRefund, AfterUndo, GivenBack
<1>10. ASSUME NEW a \in Admins, RollbackFails(a) PROVE ReturnInv'
  BY <1>10 DEF RollbackFails, AfterUndo, Fault
<1>11. ASSUME NEW a \in Admins, RestoreStatus(a) PROVE ReturnInv'
  BY <1>11 DEF RestoreStatus, RestoredStatus, Return
<1>12. ASSUME NEW a \in Admins, MarkFailed(a) PROVE ReturnInv'
  BY <1>12 DEF MarkFailed, Return
<1>13. ASSUME NEW a \in Admins, MarkRefundOk(a) PROVE ReturnInv'
  BY <1>13 DEF MarkRefundOk, FinalStatus, Return, WriteAudit, Fault
<1>14. ASSUME NEW a \in Admins, MarkPending(a) PROVE ReturnInv'
  BY <1>14 DEF MarkPending, Goto
<1>15. ASSUME NEW a \in Admins, PendingAudit(a) PROVE ReturnInv'
  BY <1>15 DEF PendingAudit, Return, Fault
<1>16. ASSUME NEW a \in Admins, QueryRefund(a) PROVE ReturnInv'
  BY <1>16 DEF QueryRefund, AfterQuery, QueriedRefund, FinalTake, PlannedTake,
       Lesser, Fault
<1>17. ASSUME NEW a \in Admins, FinalizeRefund(a) PROVE ReturnInv'
  BY <1>17 DEF FinalizeRefund, FinalStatus, Charge, Charged, Chargeable, Lesser,
       Return
<1>18. ASSUME NEW a \in Admins, FinalizeFailed(a) PROVE ReturnInv'
  BY <1>18 DEF FinalizeFailed, Return
<1>19. ASSUME NEW a \in Admins, DeductFails(a) PROVE ReturnInv'
  BY <1>19 DEF DeductFails, Fault, Goto
<1>20. ASSUME NEW a \in Admins, GatewayTimesOut(a) PROVE ReturnInv'
  BY <1>20 DEF GatewayTimesOut, Outcomes, Fault, Goto
<1>21. ASSUME NEW a \in Admins, WriteFails(a) PROVE ReturnInv'
  BY <1>21 DEF WriteFails, Fault, Return
<1>22. ASSUME NEW a \in Admins, Crash(a) PROVE ReturnInv'
  BY <1>22 DEF Crash, Fault, Return
<1>23. ASSUME NEW a \in Admins, NoteRollback(a) PROVE ReturnInv'
  BY <1>23 DEF NoteRollback, WriteAudit, Fault, Goto
<1> QED BY <1>1, <1>2, <1>3, <1>4, <1>5, <1>6, <1>7, <1>8, <1>9, <1>10,
       <1>11, <1>12, <1>13, <1>14, <1>15, <1>16, <1>17, <1>18, <1>19, <1>20,
       <1>21, <1>22, <1>23
    DEF Next, Request, ExecuteStep, FinalizeStep, AdminFault

PendingInv == RefundType /\ PlanInv /\ ReturnInv

\* Every reachable state keeps the types, and knows what it refunds.
LEMMA PendingInvariance == Spec => []PendingInv
<1>1. Init => PendingInv
  <2> SUFFICES ASSUME Init PROVE PendingInv
    OBVIOUS
  <2> USE AmountsAssumption, NoPlanType DEF Init
  <2>1. RefundType
    <3>1. purse \in Nat /\ amount \in 0..Amount
      OBVIOUS
    <3>2. pc \in [Admins -> PCs] /\ plan \in [Admins -> Plans]
      BY DEF PCs
    <3> QED BY <3>1, <3>2 DEF RefundType, Statuses
  <2>2. PlanInv /\ ReturnInv
    BY DEF PlanInv, ReturnInv, Done
  <2> QED BY <2>1, <2>2 DEF PendingInv
<1>2. PendingInv /\ [Next]_vars => PendingInv'
  <2>1. CASE Next
    BY <2>1, TypeStep, PlanStep, ReturnStep DEF PendingInv
  <2>2. CASE UNCHANGED vars
    BY <2>2 DEF vars, orderVars, purseVars, PendingInv, RefundType, PlanInv,
         ReturnInv, SomeReturn
  <2> QED BY <2>1, <2>2
<1> QED BY <1>1, <1>2, PTL DEF Spec

\* Whatever fails and whoever races, an order counts as refunded only after the
\* provider said that it returned money for it (AfterGateway, AfterQuery).
THEOREM RefundNeedsReturn == Spec => [](status \in Done => SomeReturn)
<1>1. PendingInv => (status \in Done => SomeReturn)
  BY DEF PendingInv, ReturnInv
<1> QED BY <1>1, PendingInvariance, PTL

\* Where every refund of the order is of the same amount, it is that amount
\* the provider returned, pending or not and whoever finalizes.
THEOREM PendingRefundedIsReturned ==
  ASSUME \A x, y \in Amounts : x = y
  PROVE  Spec => []RefundedMeansReturned
<1>1. PendingInv => RefundedMeansReturned
  BY DEF PendingInv, PlanInv, ReturnInv, SomeReturn, RefundedMeansReturned
<1> QED BY <1>1, PendingInvariance, PTL

-----------------------------------------------------------------------------
(* One administrator at a time *)

\* What is charged and out of sight stays countable.
Settling == taken \in Nat /\ stray \in Nat

\* Every step of a lone administrator keeps what is charged settled.
LEMMA OneAdminStep ==
  ASSUME \A b, c \in Admins : b = c, "undo" \notin FaultKinds,
         RefundType, Settling, OneAdminInv, Next PROVE (Settling /\ OneAdminInv)'
<1> USE AmountsAssumption, NoPlanType DEF orderVars, purseVars,
        RefundType, PCs, Executing, Statuses, Done, Plans, Details,
        Settling, OneAdminInv, RollbackFailed, Settled, PlannedCharge,
        Refundable, NoPlan
<1>1. CASE RequestRefund
  BY <1>1 DEF RequestRefund
<1>2. CASE Spend
  BY <1>2 DEF Spend
<1>3. CASE GatewaySettles
  BY <1>3 DEF GatewaySettles
<1>4. ASSUME NEW a \in Admins, StartQuery(a) PROVE (Settling /\ OneAdminInv)'
  BY <1>4 DEF StartQuery
<1>5. ASSUME NEW a \in Admins, NEW amt \in Amounts, NEW d \in BOOLEAN,
             PrepareRefund(a, amt, d)
      PROVE  (Settling /\ OneAdminInv)'
  BY <1>5 DEF PrepareRefund, PlannedTake, Lesser, Refundable
<1>6. ASSUME NEW a \in Admins, Lock(a) PROVE (Settling /\ OneAdminInv)'
  BY <1>6 DEF Lock, LockFree, Refundable, Goto, Return
<1>7. ASSUME NEW a \in Admins, Deduct(a) \/ DeductUnread(a)
      PROVE  (Settling /\ OneAdminInv)'
  <2>1. pc[a] = "deduct" /\ plan[a] \in Plans /\ status = "REFUNDING"
        /\ (RollbackFailed \/ taken = stray) /\ (\A b \in Admins : b = a)
    BY <1>7 DEF Deduct, DeductUnread
  <2>2. UNCHANGED <<otype, status, amount, audit, detail, gw>>
    BY <1>7 DEF Deduct, DeductUnread
  <2>3. CASE Deduct(a) /\ SkipsDeduction
    <3>1. pc'[a] = "gateway" /\ plan'[a].take = 0
      BY <2>1, <2>3 DEF Deduct
    <3>2. UNCHANGED <<purse, revoked, taken, stray>>
      BY <2>3 DEF Deduct
    <3> QED BY <2>1, <2>2, <3>1, <3>2
  <2>4. CASE (Deduct(a) /\ ~SkipsDeduction) \/ DeductUnread(a)
    <3>1. TypeOK /\ TakeDeduction(a)
      BY <2>4 DEF Deduct, DeductUnread, TypeOK
    <3>2. /\ taken' \in Nat /\ pc' \in [Admins -> PCs]
          /\ revoked' => otype = "subscription" /\ purse' = 0
          /\ \/ pc'[a] = "restore" /\ UNCHANGED <<purse, revoked, taken>>
             \/ /\ pc'[a] = "gateway" /\ taken <= taken'
                /\ taken' <= taken + Amount
                /\ \/ plan'[a].take = 0 /\ taken' = taken
                   \/ ~revoked' /\ taken' = taken + plan'[a].take
                   \/ revoked' /\ plan'[a].take > 0
      BY <3>1, TakenDeduction
    <3>3. stray' = IF pc'[a] = "gateway" THEN taken ELSE stray
      BY <2>1, <2>4 DEF Deduct, DeductUnread, SkipsDeduction
    <3>4. RollbackFailed => revoked'
      <4>1. RollbackFailed => revoked
        OBVIOUS
      <4>2. revoked => revoked'
        BY <3>1 DEF TakeDeduction, Charge
      <4> QED BY <4>1, <4>2
    <3>5. CASE pc'[a] = "restore"
      BY <2>1, <2>2, <3>2, <3>3, <3>4, <3>5
    <3>6. CASE pc'[a] = "gateway"
      BY <2>1, <2>2, <3>2, <3>3, <3>4, <3>6
    <3> QED BY <3>2, <3>5, <3>6
  <2> QED BY <1>7, <2>3, <2>4
<1>8. ASSUME NEW a \in Admins, GatewayAnswers(a) PROVE (Settling /\ OneAdminInv)'
  BY <1>8 DEF GatewayAnswers, Outcomes, AfterGateway, Goto
<1>9. ASSUME NEW a \in Admins, RollbackRefund(a) PROVE (Settling /\ OneAdminInv)'
  BY <1>9 DEF RollbackRefund, AfterUndo, GivenBack
<1>10. ASSUME NEW a \in Admins, RollbackFails(a) PROVE (Settling /\ OneAdminInv)'
  BY <1>10 DEF RollbackFails, AfterUndo, Fault
<1>11. ASSUME NEW a \in Admins, RestoreStatus(a) PROVE (Settling /\ OneAdminInv)'
  BY <1>11 DEF RestoreStatus, RestoredStatus, Return
<1>12. ASSUME NEW a \in Admins, MarkFailed(a) PROVE (Settling /\ OneAdminInv)'
  BY <1>12 DEF MarkFailed, Return
<1>13. ASSUME NEW a \in Admins, MarkRefundOk(a) PROVE (Settling /\ OneAdminInv)'
  BY <1>13 DEF MarkRefundOk, FinalStatus, Return, WriteAudit, Fault
<1>14. ASSUME NEW a \in Admins, MarkPending(a) PROVE (Settling /\ OneAdminInv)'
  BY <1>14 DEF MarkPending, Goto
<1>15. ASSUME NEW a \in Admins, PendingAudit(a) PROVE (Settling /\ OneAdminInv)'
  BY <1>15 DEF PendingAudit, Return, Fault
<1>16. ASSUME NEW a \in Admins, QueryRefund(a) PROVE (Settling /\ OneAdminInv)'
  BY <1>16 DEF QueryRefund, AfterQuery, QueriedRefund, FinalTake, PlannedTake,
       Lesser, Fault
<1>17. ASSUME NEW a \in Admins, FinalizeRefund(a) PROVE (Settling /\ OneAdminInv)'
  BY <1>17 DEF FinalizeRefund, FinalStatus, Charge, Charged, Chargeable, Lesser,
       Return
<1>18. ASSUME NEW a \in Admins, FinalizeFailed(a) PROVE (Settling /\ OneAdminInv)'
  BY <1>18 DEF FinalizeFailed, Return
<1>19. ASSUME NEW a \in Admins, DeductFails(a) PROVE (Settling /\ OneAdminInv)'
  BY <1>19 DEF DeductFails, Fault, Goto
<1>20. ASSUME NEW a \in Admins, GatewayTimesOut(a) PROVE (Settling /\ OneAdminInv)'
  BY <1>20 DEF GatewayTimesOut, Outcomes, Fault, Goto
<1>21. ASSUME NEW a \in Admins, WriteFails(a) PROVE (Settling /\ OneAdminInv)'
  BY <1>21 DEF WriteFails, Fault, Return
<1>22. ASSUME NEW a \in Admins, Crash(a) PROVE (Settling /\ OneAdminInv)'
  BY <1>22 DEF Crash, Fault, Return
<1>23. ASSUME NEW a \in Admins, NoteRollback(a) PROVE (Settling /\ OneAdminInv)'
  BY <1>23 DEF NoteRollback, WriteAudit, Fault, Goto
<1> QED BY <1>1, <1>2, <1>3, <1>4, <1>5, <1>6, <1>7, <1>8, <1>9, <1>10,
       <1>11, <1>12, <1>13, <1>14, <1>15, <1>16, <1>17, <1>18, <1>19, <1>20,
       <1>21, <1>22, <1>23
    DEF Next, Request, ExecuteStep, FinalizeStep, AdminFault

\* Requests that come one at a time, and rollbacks that fail only where the
\* subscription is gone.
LEMMA OneAdminInvariance ==
  ASSUME \A b, c \in Admins : b = c, "undo" \notin FaultKinds
  PROVE  Spec => [](RefundType /\ Settling /\ OneAdminInv)
<1> DEFINE Inv == RefundType /\ Settling /\ OneAdminInv
<1>1. Init => Settling /\ OneAdminInv
  BY AmountsAssumption DEF Init, Settling, OneAdminInv, RollbackFailed, Settled,
     Done, Executing
<1>2. RefundType /\ Settling /\ OneAdminInv /\ [Next]_vars
        => (Settling /\ OneAdminInv)'
  <2>1. CASE Next
    BY <2>1, OneAdminStep
  <2>2. CASE UNCHANGED vars
    BY <2>2 DEF vars, orderVars, purseVars, Settling, OneAdminInv,
         RollbackFailed, Settled, PlannedCharge, Refundable
  <2> QED BY <2>1, <2>2
<1>3. PendingInv => RefundType
  BY DEF PendingInv
<1> QED BY <1>1, <1>2, <1>3, PendingInvariance, PTL DEF Spec

\* A lone administrator charges the user at most once, however often refunds
\* stay pending, are retried, rolled back or finalized (FinalTake), save for
\* what it lost sight of with a row about a failed rollback.
THEOREM PendingChargedAtMostOnce ==
  ASSUME \A b, c \in Admins : b = c, "undo" \notin FaultKinds
  PROVE  Spec => []TakenOnce
<1>1. OneAdminInv => TakenOnce
  BY DEF OneAdminInv, TakenOnce
<1> QED BY <1>1, OneAdminInvariance, PTL

\* Where the order counts as not, or not yet, refunded - a pending refund
\* included - the user has what was charged back, or a failed rollback is on
\* record, save for what was lost sight of (RollbackRefund before
\* markRefundPending).
THEOREM PendingUndoneIsReturned ==
  ASSUME \A b, c \in Admins : b = c, "undo" \notin FaultKinds
  PROVE  Spec => []UndoneMeansReturned
<1>1. OneAdminInv => UndoneMeansReturned
  BY DEF OneAdminInv, UndoneMeansReturned, RollbackFailed, Settled, Done
<1> QED BY <1>1, OneAdminInvariance, PTL

\* What a lone administrator takes and gives back never falls below zero.
THEOREM PendingTypeCorrect ==
  ASSUME \A b, c \in Admins : b = c, "undo" \notin FaultKinds
  PROVE  Spec => []TypeOK
<1>1. RefundType /\ Settling => TypeOK
  BY DEF RefundType, Settling, TypeOK
<1> QED BY <1>1, OneAdminInvariance, PTL
=============================================================================
