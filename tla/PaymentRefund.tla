--------------------------- MODULE PaymentRefund ---------------------------
(***************************************************************************)
(* The refund of one delivered payment order: administrators that execute  *)
(* or finalize it concurrently, the user's balance (or the days of the     *)
(* subscription) that is charged back, and the provider that returns the   *)
(* money and may take its time to do so.                                   *)
(*                                                                         *)
(* Every goroutine is an administrator of Admins.  ExecuteRefund locks the *)
(* order by the status REFUNDING; QueryAndFinalizeRefund works without a   *)
(* lock and, when the provider reports failure, writes the status without  *)
(* a condition.  The audit log has a unique index on order and action, so  *)
(* the details of the first REFUND_PENDING row are never replaced.         *)
(***************************************************************************)
EXTENDS Naturals, FiniteSetsExt

CONSTANTS Admins,      \* goroutines that serve refund requests
          Amount,      \* the amount of the order (and its days)
          Amounts,     \* the amounts administrators ask to refund
          MaxPurse,    \* what the user may have left when refunds start
          PendingGw,   \* the provider may answer that a refund is pending
          FaultKinds,  \* the kinds of fault that may happen
          MaxFaults    \* how many of them may happen (bound)

AllFaults == {"timeout",   \* the provider's answer is lost
              "charge",    \* the deduction returns an error
              "undo",      \* giving the deduction back returns an error
              "write",     \* the last update of the order returns an error
              "audit",     \* an audit row is not written
              "lost_read", \* the audit log is not read
              "crash"}     \* the goroutine dies

ASSUME AmountsAssumption ==
  Amount \in Nat \ {0} /\ Amounts \subseteq 1..Amount /\ MaxPurse \in Nat
ASSUME ChoiceAssumption ==
  PendingGw \in BOOLEAN /\ FaultKinds \subseteq AllFaults /\ MaxFaults \in Nat

VARIABLES
  otype,    \* order_type
  status,   \* status
  amount,   \* refund_amount (0 when unset)
  purse,    \* the user's balance, or the days left of the subscription
  revoked,  \* the subscription was revoked by the deduction
  taken,    \* history: charged for this order and not given back
  stray,    \* history: the part of it that an attempt lost sight of, since
            \* the row about its failed rollback was not written or not read
  audit,    \* REFUND_ROLLBACK_FAILED, REFUND_SUCCESS in payment_audit_logs
  detail,   \* the detail of the REFUND_PENDING row
  gw,       \* refunds at the provider, keyed by amount
  faults,   \* faults so far
  pc,       \* where each administrator is
  plan      \* the RefundPlan of each administrator

orderVars == <<status, amount>>
purseVars == <<purse, revoked, taken, stray>>
vars == <<otype, orderVars, purseVars, audit, detail, gw, faults, pc,
          plan>>

Done     == {"REFUNDED", "PARTIALLY_REFUNDED"}
Statuses == {"COMPLETED", "REFUND_REQUESTED", "REFUNDING", "REFUND_PENDING",
             "REFUND_FAILED"} \union Done

\* Between the lock and the update of the order that releases it.
Executing == {"deduct", "gateway", "undoFailed", "undoPending", "noteFailed",
              "notePending", "restore", "fail", "pending", "ok"}
PCs == {"idle", "lock", "pendingAudit", "query", "finalize", "finalFail"}
         \union Executing

NoDetail == [amt |-> 0, undone |-> TRUE]
Details  == [amt : 0..Amount, undone : BOOLEAN]
NoPlan   == [amt |-> 0, take |-> 0, from |-> "COMPLETED", undone |-> TRUE]
Plans    == [amt : 0..Amount, take : 0..Amount, from : Statuses,
             undone : BOOLEAN]

TypeOK ==
  /\ otype \in {"balance", "subscription"}
  /\ status \in Statuses
  /\ amount \in 0..Amount
  /\ purse \in Nat /\ taken \in Nat /\ stray \in Nat
  /\ revoked \in BOOLEAN
  /\ audit \subseteq {"REFUND_ROLLBACK_FAILED", "REFUND_SUCCESS"}
  /\ detail \in Details
  /\ gw \in [Amounts -> {"none", "pending", "done", "failed"}]
  /\ faults \in Nat
  /\ pc \in [Admins -> PCs]
  /\ plan \in [Admins -> Plans]

Init ==
  /\ otype \in {"balance", "subscription"}
  /\ status = "COMPLETED" /\ amount = 0
  /\ purse \in 0..MaxPurse /\ revoked = FALSE
  /\ taken = 0 /\ stray = 0
  /\ audit = {} /\ detail = NoDetail
  /\ gw = [x \in Amounts |-> "none"]
  /\ faults = 0
  /\ pc = [a \in Admins |-> "idle"]
  /\ plan = [a \in Admins |-> NoPlan]

-----------------------------------------------------------------------------
(* Helpers *)

Lesser(m, n) == IF m < n THEN m ELSE n

Goto(a, l) == pc' = [pc EXCEPT ![a] = l] /\ UNCHANGED plan

\* The handler returns.
Return(a) ==
  /\ pc' = [pc EXCEPT ![a] = "idle"]
  /\ plan' = [plan EXCEPT ![a] = NoPlan]

Fault(k) ==
  /\ k \in FaultKinds
  /\ faults < MaxFaults
  /\ faults' = faults + 1

\* writeAuditLog only logs its own error.
WriteAudit(row) ==
  \/ audit' = audit \union {row} /\ UNCHANGED faults
  \/ Fault("audit") /\ UNCHANGED audit

\* What a deduction is planned to take: DeductAvailableBalance never more than
\* there is; the days of a subscription all of them, if it is active.
PlannedTake(amt) ==
  IF otype = "balance" THEN Lesser(amt, purse)
                       ELSE IF purse > 0 THEN Amount ELSE 0

\* ExtendSubscription refuses to shorten an expired or revoked subscription.
Chargeable(n) == otype = "balance" \/ n = 0 \/ purse > 0

\* What is really taken; a subscription that would expire is revoked.
Charged(n) == Lesser(n, purse)

Charge(n) ==
  /\ purse' = purse - Charged(n)
  /\ taken' = taken + Charged(n)
  /\ revoked' = (revoked \/ (otype = "subscription" /\ 0 < n /\ purse <= n))

FinalStatus(amt) == IF amt < Amount THEN "PARTIALLY_REFUNDED" ELSE "REFUNDED"

-----------------------------------------------------------------------------
(* Users, the provider and time *)

\* RequestRefund
RequestRefund ==
  /\ otype = "balance" /\ status = "COMPLETED" /\ purse >= Amount
  /\ status' = "REFUND_REQUESTED" /\ amount' = Amount
  /\ UNCHANGED <<otype, purseVars, audit, detail, gw, faults, pc, plan>>

\* The balance is used, the days of a subscription pass.
Spend ==
  /\ purse > 0
  /\ purse' = purse - 1
  /\ UNCHANGED <<otype, orderVars, revoked, taken, stray, audit, detail, gw,
                 faults, pc, plan>>

\* The provider ends a pending refund.
GatewaySettles ==
  /\ \E x \in Amounts, r \in {"done", "failed"} :
       gw[x] = "pending" /\ gw' = [gw EXCEPT ![x] = r]
  /\ UNCHANGED <<otype, orderVars, purseVars, audit, detail, faults,
                 pc, plan>>

-----------------------------------------------------------------------------
(* PrepareRefund and ExecuteRefund *)

\* Variant: a partial refund may be followed by another.
RefundableAgain == status \notin {"REFUNDING", "REFUNDED"}
Refundable == status \in {"COMPLETED", "REFUND_REQUESTED", "REFUND_PENDING",
                          "REFUND_FAILED"}

\* The plan is made from what is read now.  Without force an insufficient
\* balance ends the request here.
PrepareRefund(a, amt, deduct) ==
  /\ pc[a] = "idle" /\ Refundable
  /\ pc' = [pc EXCEPT ![a] = "lock"]
  /\ plan' = [plan EXCEPT ![a] =
                [amt |-> amt, take |-> IF deduct THEN PlannedTake(amt) ELSE 0,
                 from |-> status, undone |-> TRUE]]
  /\ UNCHANGED <<otype, orderVars, purseVars, audit, detail, gw, faults>>

\* Variant: the lock is not conditional on the status.
LockAlways == TRUE
LockFree == Refundable

Lock(a) ==
  /\ pc[a] = "lock"
  /\ IF LockFree
       THEN status' = "REFUNDING" /\ Goto(a, "deduct")
       ELSE Return(a) /\ UNCHANGED status
  /\ UNCHANGED <<otype, amount, purseVars, audit, detail, gw, faults>>

\* A deduction whose rollback failed before is not repeated.
\* Variant: the audit log is not asked.
NeverSkips == FALSE
SkipsDeduction == "REFUND_ROLLBACK_FAILED" \in audit

TakeDeduction(a) ==
  \/ /\ Chargeable(plan[a].take)
     /\ Charge(plan[a].take)
     /\ plan' = [plan EXCEPT ![a].take =
                   IF otype = "balance" THEN Charged(@) ELSE @]
     /\ pc' = [pc EXCEPT ![a] = "gateway"]
  \/ /\ ~Chargeable(plan[a].take)
     /\ Goto(a, "restore")
     /\ UNCHANGED <<purse, revoked, taken>>

Deduct(a) ==
  /\ pc[a] = "deduct"
  /\ \/ /\ SkipsDeduction
        /\ plan' = [plan EXCEPT ![a].take = 0]
        /\ pc' = [pc EXCEPT ![a] = "gateway"]
        /\ UNCHANGED purseVars
     \/ /\ ~SkipsDeduction
        /\ TakeDeduction(a)
        /\ UNCHANGED stray
  /\ UNCHANGED <<otype, orderVars, audit, detail, gw, faults>>

\* hasAuditLog takes a failing read for a missing row.
DeductUnread(a) ==
  /\ pc[a] = "deduct" /\ plan[a].take > 0 /\ SkipsDeduction
  /\ Fault("lost_read")
  /\ TakeDeduction(a)
  /\ stray' = IF pc'[a] = "gateway" THEN taken ELSE stray
  /\ UNCHANGED <<otype, orderVars, audit, detail, gw>>

DeductFails(a) ==
  /\ pc[a] = "deduct" /\ plan[a].take > 0 /\ ~SkipsDeduction
  /\ Fault("charge")
  /\ Goto(a, "restore")
  /\ UNCHANGED <<otype, orderVars, purseVars, audit, detail, gw>>

\* The provider never returns more than was paid.
Accepts(amt) ==
  amt + SumSet({x \in Amounts \ {amt} : gw[x] \in {"pending", "done"}})
    <= Amount

Outcomes == {"done"} \union IF PendingGw THEN {"pending"} ELSE {}

\* Where finishRefund goes with the provider's status.
\* Variant: an unexpected status is not taken for an error.
AfterGatewayLax(r) == IF r = "pending" THEN "undoPending" ELSE "ok"
AfterGateway(r) ==
  CASE r = "done"    -> "ok"
    [] r = "pending" -> "undoPending"
    [] r = "failed"  -> "undoFailed"

\* gwRefund: the provider knows the refund by its amount (the idempotency key
\* of Stripe and Airwallex, the refund number of WeChat Pay).
GatewayAnswers(a) ==
  LET amt == plan[a].amt IN
  /\ pc[a] = "gateway"
  /\ \E r \in Outcomes \union {"failed"} :
       /\ gw[amt] \in {"pending", "done"} => r = gw[amt]
       /\ r = "failed" \/ Accepts(amt)
       /\ gw' = [gw EXCEPT ![amt] = r]
       /\ Goto(a, AfterGateway(r))
  /\ UNCHANGED <<otype, orderVars, purseVars, audit, detail, faults>>

\* The call returns an error, whether or not the refund is accepted, or was
\* before.
GatewayTimesOut(a) ==
  LET amt == plan[a].amt IN
  /\ pc[a] = "gateway"
  /\ Fault("timeout")
  /\ \/ UNCHANGED gw
     \/ /\ gw[amt] \in {"none", "failed"} /\ Accepts(amt)
        /\ \E o \in Outcomes : gw' = [gw EXCEPT ![amt] = o]
  /\ Goto(a, "undoFailed")
  /\ UNCHANGED <<otype, orderVars, purseVars, audit, detail>>

\* RollbackRefund gives back what the plan says was taken; the days of a
\* revoked subscription cannot be given back.
AfterUndo(a, undone) ==
  IF pc[a] = "undoPending"
    THEN IF undone THEN "pending" ELSE "notePending"
    ELSE IF undone THEN "restore" ELSE "noteFailed"

\* Variants: a pending refund keeps the deduction; the refunded amount is
\* given back, not what was taken.
GivesAmount(a)    == plan[a].amt
KeepsIfPending(a) == IF pc[a] = "undoPending" THEN 0 ELSE plan[a].take
GivenBack(a) == plan[a].take

RollbackRefund(a) ==
  /\ pc[a] \in {"undoFailed", "undoPending"}
  /\ plan[a].take = 0 \/ ~revoked
  /\ purse' = purse + GivenBack(a)
  /\ taken' = taken - GivenBack(a)
  /\ pc' = [pc EXCEPT ![a] = AfterUndo(a, TRUE)]
  /\ plan' = [plan EXCEPT ![a].take = 0]
  /\ UNCHANGED <<otype, orderVars, revoked, stray, audit, detail, gw, faults>>

RollbackFails(a) ==
  /\ pc[a] \in {"undoFailed", "undoPending"} /\ plan[a].take > 0
  /\ IF revoked THEN UNCHANGED faults ELSE Fault("undo")
  /\ pc' = [pc EXCEPT ![a] = AfterUndo(a, FALSE)]
  /\ plan' = [plan EXCEPT ![a].undone = FALSE]
  /\ UNCHANGED <<otype, orderVars, purseVars, audit, detail, gw>>

\* The row that keeps a retry from charging again is written after the failed
\* call, and may not be written either.
NoteRollback(a) ==
  /\ pc[a] \in {"noteFailed", "notePending"}
  /\ WriteAudit("REFUND_ROLLBACK_FAILED")
  /\ stray' = IF "REFUND_ROLLBACK_FAILED" \in audit' THEN stray ELSE taken
  /\ Goto(a, IF pc[a] = "notePending" THEN "pending" ELSE "fail")
  /\ UNCHANGED <<otype, orderVars, purse, revoked, taken, detail, gw>>

-----------------------------------------------------------------------------
(* The end of ExecuteRefund: each update is by id, whatever the status. *)

\* Variant: the status is read again, after the lock.
RestoredReread(a) == IF pc[a] = "restore" THEN status ELSE "COMPLETED"
RestoredStatus(a) ==
  IF plan[a].from = "REFUND_REQUESTED" THEN "REFUND_REQUESTED" ELSE "COMPLETED"

RestoreStatus(a) ==
  /\ pc[a] = "restore"
  /\ status' = RestoredStatus(a)
  /\ Return(a)
  /\ UNCHANGED <<otype, amount, purseVars, audit, detail, gw, faults>>

\* handleGwFail after a failed rollback.
MarkFailed(a) ==
  /\ pc[a] = "fail"
  /\ status' = "REFUND_FAILED"
  /\ Return(a)
  /\ UNCHANGED <<otype, amount, purseVars, audit, detail, gw, faults>>

\* markRefundOk
MarkRefundOk(a) ==
  /\ pc[a] = "ok"
  /\ status' = FinalStatus(plan[a].amt) /\ amount' = plan[a].amt
  /\ WriteAudit("REFUND_SUCCESS")
  /\ Return(a)
  /\ UNCHANGED <<otype, purseVars, detail, gw>>

\* markRefundPending: the order first, then the audit row.
MarkPending(a) ==
  /\ pc[a] = "pending"
  /\ status' = "REFUND_PENDING" /\ amount' = plan[a].amt
  /\ Goto(a, "pendingAudit")
  /\ UNCHANGED <<otype, purseVars, audit, detail, gw, faults>>

PendingAudit(a) ==
  /\ pc[a] = "pendingAudit"
  /\ \/ /\ detail' = IF detail = NoDetail
                      THEN [amt |-> plan[a].amt, undone |-> plan[a].undone]
                      ELSE detail
        /\ UNCHANGED faults
     \/ Fault("audit") /\ UNCHANGED detail
  /\ Return(a)
  /\ UNCHANGED <<otype, orderVars, purseVars, audit, gw>>

-----------------------------------------------------------------------------
(* QueryAndFinalizeRefund *)

StartQuery(a) ==
  /\ pc[a] = "idle" /\ status = "REFUND_PENDING"
  /\ pc' = [pc EXCEPT ![a] = "query"]
  /\ plan' = [plan EXCEPT ![a] = [NoPlan EXCEPT !.amt = amount, !.from = status]]
  /\ UNCHANGED <<otype, orderVars, purseVars, audit, detail, gw, faults>>

\* The refund that is asked for is the one of the REFUND_PENDING row d.
QueriedRefund(a, d) == IF d = NoDetail THEN plan[a].amt ELSE d.amt

\* A deduction that could not be rolled back is not taken again.
FinalTake(a, d) ==
  IF ~d.undone THEN 0
  ELSE IF otype = "balance" THEN plan[a].amt ELSE PlannedTake(plan[a].amt)

\* Variant: only a reported failure keeps the refund from being finalized.
AfterQueryLax(r) == IF r = "failed" THEN "finalFail" ELSE "finalize"
AfterQuery(r) ==
  CASE r = "done"   -> "finalize"
    [] r = "failed" -> "finalFail"
    [] OTHER        -> "idle"

\* latestRefundPendingDetail takes a failing read for a missing row.
QueryRefund(a) ==
  /\ pc[a] = "query"
  /\ \E d \in {detail, NoDetail} :
       /\ IF d = detail THEN UNCHANGED faults ELSE Fault("lost_read")
       /\ pc' = [pc EXCEPT ![a] = AfterQuery(gw[QueriedRefund(a, d)])]
       /\ plan' = [plan EXCEPT ![a] = IF pc'[a] = "idle"
                                        THEN NoPlan
                                        ELSE [@ EXCEPT !.take = FinalTake(a, d)]]
  /\ UNCHANGED <<otype, orderVars, purseVars, audit, detail, gw>>

\* finalizePendingRefundSuccess: one transaction claims the order, takes the
\* deduction and inserts the audit row, or changes nothing.
FinalizeRefund(a) ==
  /\ pc[a] = "finalize"
  /\ IF status = "REFUND_PENDING" /\ Chargeable(plan[a].take)
          /\ "REFUND_SUCCESS" \notin audit
       THEN /\ Charge(plan[a].take)
            /\ status' = FinalStatus(plan[a].amt) /\ amount' = plan[a].amt
            /\ audit' = audit \union {"REFUND_SUCCESS"}
       ELSE UNCHANGED <<purse, revoked, taken, orderVars, audit>>
  /\ Return(a)
  /\ UNCHANGED <<otype, stray, detail, gw, faults>>

\* finalizeRefundFailed: the update is by id, whatever the status is now.
FinalizeFailed(a) ==
  /\ pc[a] = "finalFail"
  /\ status' = "REFUND_FAILED"
  /\ Return(a)
  /\ UNCHANGED <<otype, amount, purseVars, audit, detail, gw, faults>>

-----------------------------------------------------------------------------
(* Faults *)

\* The update at the end of a request returns an error, which is ignored or
\* answered.
WriteFails(a) ==
  /\ pc[a] \in {"restore", "fail", "ok", "pending", "finalFail"}
  /\ Fault("write")
  /\ Return(a)
  /\ UNCHANGED <<otype, orderVars, purseVars, audit, detail, gw>>

Crash(a) ==
  /\ pc[a] # "idle"
  /\ Fault("crash")
  /\ Return(a)
  /\ UNCHANGED <<otype, orderVars, purseVars, audit, detail, gw>>

-----------------------------------------------------------------------------
Request(a) ==
  StartQuery(a) \/ \E amt \in Amounts, d \in BOOLEAN : PrepareRefund(a, amt, d)

ExecuteStep(a) ==
  \/ Lock(a) \/ Deduct(a) \/ GatewayAnswers(a)
  \/ RollbackRefund(a) \/ RollbackFails(a) \/ NoteRollback(a)
  \/ RestoreStatus(a) \/ MarkFailed(a) \/ MarkRefundOk(a)
  \/ MarkPending(a) \/ PendingAudit(a)

FinalizeStep(a) == QueryRefund(a) \/ FinalizeRefund(a) \/ FinalizeFailed(a)

AdminFault(a) ==
  \/ DeductFails(a) \/ DeductUnread(a) \/ GatewayTimesOut(a)
  \/ WriteFails(a) \/ Crash(a)

Next ==
  \/ RequestRefund \/ Spend \/ GatewaySettles
  \/ \E a \in Admins : Request(a) \/ ExecuteStep(a) \/ FinalizeStep(a)
                         \/ AdminFault(a)

Spec == Init /\ [][Next]_vars

\* A running request goes on; nobody has to make one.
Fairness == \A a \in Admins : WF_vars(ExecuteStep(a) \/ FinalizeStep(a))

FairSpec == Spec /\ Fairness

-----------------------------------------------------------------------------
(* Safety *)

\* The status REFUNDING is a lock: one administrator at a time charges the
\* user, calls the provider and writes the outcome.
OneRefunder == Cardinality({a \in Admins : pc[a] \in Executing}) <= 1

\* The user is never charged more than the order delivered, through retries,
\* failed rollbacks and finalization, save for what an attempt lost sight of.
TakenOnce == taken <= stray + Amount

\* An order that counts as not, or not yet, refunded left the user's purse as
\* it was, unless a failed rollback is on record or its row was lost.
UndoneMeansReturned ==
  status \notin Done \union {"REFUNDING"}
      /\ "REFUND_ROLLBACK_FAILED" \notin audit
    => taken = stray

\* An order that counts as refunded was refunded by the provider, with the
\* amount the order shows.
RefundedMeansReturned == status \in Done => gw[amount] = "done"

\* Money the provider returned is never forgotten: the order is refunded, or
\* still locked.
ReturnedIsRecorded ==
  (\E x \in Amounts : gw[x] = "done") => status \in Done \union {"REFUNDING"}

\* A refund that is complete is never undone, repeated or enlarged.
RefundIsFinal == [][(status \in Done) => UNCHANGED orderVars]_vars

\* The status as a lock, the purse, the provider and the audit log together
\* keep the contract of PaymentRefundContract: every step is one of its steps
\* or none.
Contract == INSTANCE PaymentRefundContract
              WITH Limit    <- Amount,
                   busy     <- status = "REFUNDING",
                   charged  <- taken,
                   lost     <- stray,
                   stuck    <- "REFUND_ROLLBACK_FAILED" \in audit,
                   returned <- {x \in Amounts : gw[x] = "done"},
                   refunded <- IF status \in Done THEN amount ELSE 0

ImplementsContract == Contract!Spec

-----------------------------------------------------------------------------
(* The inductive invariant behind these, for providers whose refunds are   *)
(* never pending                                                           *)

RollbackFailed == "REFUND_ROLLBACK_FAILED" \in audit

\* Nothing is ever pending, so nobody finalizes.
NothingPending ==
  /\ status # "REFUND_PENDING"
  /\ \A x \in Amounts : gw[x] # "pending"
  /\ \A a \in Admins :
       pc[a] \notin {"undoPending", "notePending", "pending", "pendingAudit", "query",
                    "finalize", "finalFail"}

\* Who executes holds the lock, alone.
LockInv ==
  /\ \A a, b \in Admins : pc[a] \in Executing /\ pc[b] \in Executing => a = b
  /\ \A a \in Admins : pc[a] \in Executing => status = "REFUNDING"

\* What is charged and in sight is settled: nothing, or on record.
Settled == RollbackFailed \/ taken = stray

\* What was charged while the provider is asked: nothing new, or the planned
\* deduction, or what was left of a subscription that was revoked.
PlannedCharge(a) ==
  \/ plan[a].take = 0 /\ Settled
  \/ ~revoked /\ taken = stray + plan[a].take
  \/ revoked /\ plan[a].take > 0

\* What was charged, by where the lock holder stands.
ChargeInv ==
  /\ stray <= taken /\ taken <= stray + Amount
  /\ revoked => otype = "subscription" /\ purse = 0
  /\ status \notin Done \union {"REFUNDING"} => Settled
  /\ \A a \in Admins :
       /\ pc[a] \in {"deduct", "restore", "fail"} => Settled
       /\ pc[a] \in {"gateway", "undoFailed"} => PlannedCharge(a)
       /\ pc[a] \in Executing \union {"lock"} => plan[a].amt \in Amounts

\* What counts as refunded was refunded.
RefundInv ==
  /\ status \in Done => amount \in Amounts /\ gw[amount] = "done"
  /\ \A a \in Admins : pc[a] = "ok" => gw[plan[a].amt] = "done"

IInv == TypeOK /\ NothingPending /\ LockInv /\ ChargeInv /\ RefundInv

\* Once the provider has returned the money, whoever still holds the lock is
\* about to record it.
RecordInv ==
  (\E x \in Amounts : gw[x] = "done") =>
    \/ status \in Done
    \/ /\ status = "REFUNDING"
       /\ \A a \in Admins : pc[a] \in Executing => pc[a] = "ok"

-----------------------------------------------------------------------------
(* The inductive invariants behind them for providers whose refunds may be  *)
(* pending                                                                  *)

\* Whoever asks and however often, what is executed, queried or finalized is a
\* refund somebody asked for, and nothing counts as refunded before the
\* provider has returned something.
PlanInv ==
  /\ status \in Done \union {"REFUND_PENDING"} => amount \in Amounts
  /\ detail # NoDetail => detail.amt \in Amounts
  /\ \A a \in Admins : pc[a] # "idle" => plan[a].amt \in Amounts

SomeReturn == \E x \in Amounts : gw[x] = "done"

ReturnInv ==
  /\ status \in Done => SomeReturn
  /\ \A a \in Admins : pc[a] \in {"ok", "finalize"} => SomeReturn

\* With one administrator at a time: the status says where the refund stands,
\* and what is charged is determined by it.  A charge that cannot be given back
\* is the one that revoked the subscription, and left nothing to charge.
OneAdminInv ==
  /\ stray <= taken /\ taken <= stray + Amount
  /\ revoked => otype = "subscription" /\ purse = 0
  /\ RollbackFailed => revoked
  /\ status \notin Done \union {"REFUNDING"} => Settled
  /\ \A a \in Admins :
       /\ pc[a] \in Executing => status = "REFUNDING"
       /\ pc[a] \in {"query", "finalize", "finalFail", "pendingAudit"}
            => status = "REFUND_PENDING"
       /\ pc[a] = "lock" => Refundable
       /\ pc[a] \in {"deduct", "restore", "fail", "pending"} => Settled
       /\ pc[a] \in {"gateway", "undoFailed", "undoPending"} => PlannedCharge(a)
       /\ pc[a] \in {"noteFailed", "notePending"} => revoked

-----------------------------------------------------------------------------
(* Liveness *)

\* A goroutine died, or its last update failed, and nobody is left to release
\* the lock.
Abandoned == faults > 0 /\ \A a \in Admins : pc[a] \notin Executing

\* Whatever the provider answers and whatever fails, a refund that is executed
\* leaves the status REFUNDING again, unless a fault abandoned it there.
LockReleased == (status = "REFUNDING") ~> (status # "REFUNDING" \/ Abandoned)

==============================================================================
