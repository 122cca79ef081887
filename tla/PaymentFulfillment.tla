------------------------- MODULE PaymentFulfillment -------------------------
(***************************************************************************)
(* One payment order from creation to delivery: the row of payment_orders, *)
(* the redeem code or subscription that delivers it, the affiliate rebate, *)
(* and the goroutines (webhook callbacks, and the jobs started by users,   *)
(* administrators and the expiry sweep) that race on that row.             *)
(*                                                                         *)
(* Time is relative.  The code compares updated_at with "five minutes ago" *)
(* in two places (the grace of toPaid, the lease of                        *)
(* acquirePaymentFulfillmentLease), so the row is either young or old, and *)
(* it compares updated_at for equality with a lease version, so a worker   *)
(* is either in holders (its version is the row's updated_at) or not.      *)
(* Every write of the row renews updated_at: it becomes young and nobody   *)
(* holds its version any more.                                             *)
(***************************************************************************)
EXTENDS Naturals, FiniteSets

CONSTANTS Callbacks,    \* goroutines that serve provider webhooks
          Jobs,         \* goroutines of users, administrators and the sweep
          Affiliates,   \* the affiliate service is wired: rebates are due
          FaultKinds,   \* the kinds of fault that may happen
          MaxFaults     \* how many of them may happen (bound)

Workers == Callbacks \union Jobs

AllFaults == {"create",     \* the provider refuses a new payment
              "query",      \* the provider does not answer a query
              "webhook",    \* a callback is answered before it is handled
              "error",      \* a step of a handler returns an error
              "lost_read",  \* a read whose error is answered with nil fails
              "lost_write", \* an audit row is not written
              "slow",       \* a worker stalls for five minutes
              "crash"}      \* a worker dies

ASSUME WorkersAssumption == Callbacks \intersect Jobs = {}
ASSUME FaultAssumption   == FaultKinds \subseteq AllFaults /\ MaxFaults \in Nat
ASSUME RebateAssumption  == Affiliates \in BOOLEAN

VARIABLES
  otype,      \* order_type
  status,     \* status; "NONE" before the row exists
  paidAt,     \* paid_at is set
  tradeUp,    \* payment_trade_no is the provider's transaction number
  old,        \* updated_at is at least five minutes ago
  due,        \* expires_at has passed
  holders,    \* workers whose lease version equals updated_at
  owner,      \* history: the workers whose acquisition is the last one
  code,       \* the order's redeem code
  credited,   \* times the balance was credited for this order
  subNote,    \* the subscription's notes carry this order's line
  assigned,   \* times the subscription was granted for this order
  audit,      \* actions in payment_audit_logs (unique per order and action)
  rebates,    \* times the inviter's rebate was accrued
  upstream,   \* the payment at the provider; "wrong" when it is made, but
              \* its amount, provider or metadata are not the order's
  acked,      \* the provider got a 2xx answer and stops redelivering
  swallowed,  \* history: a callback was answered 2xx after an error that the
              \* code only logs
  faults,     \* faults so far
  pc,         \* where each worker is
  goal,       \* status a cancel/expire job wants to set, or "none"
  persistDue, \* the job saw a trade number other than the provider's
  recovered   \* the assignment was recognised by its note

rowVars      == <<status, paidAt, tradeUp, old, holders, owner>>
deliveryVars == <<code, credited, subNote, assigned, rebates>>
answerVars   == <<acked, swallowed>>
localVars    == <<goal, persistDue, recovered>>
vars == <<otype, rowVars, due, deliveryVars, audit, upstream, answerVars,
          faults, pc, localVars>>

OrderTypes == {"balance", "subscription"}
RefundStatuses == {"REFUND_REQUESTED", "REFUNDING", "REFUND_PENDING",
                   "PARTIALLY_REFUNDED", "REFUNDED", "REFUND_FAILED"}
Settled  == {"COMPLETED"} \union RefundStatuses
Statuses == {"NONE", "PENDING", "PAID", "RECHARGING", "EXPIRED",
             "CANCELLED", "FAILED"} \union Settled

FulfilPCs == {"lookup", "create", "redeem", "assign", "assignTx",
              "invalidate", "rebate", "rebateTx", "complete"}
PCs == {"idle", "invoke", "details", "createFailed", "query",
        "cancelUpstream", "cancelCas", "persist", "confirm", "toPaid",
        "already", "fulfil", "lease", "leaseLost", "reload", "completeLost",
        "notify", "markFailed"} \union FulfilPCs

AuditActions == {"AMOUNT_MISMATCH", "PAYMENT_AFTER_EXPIRY",
                 "SUBSCRIPTION_ASSIGNED", "REBATE_APPLIED",
                 "REBATE_SKIPPED", "SUCCESS"}

TypeOK ==
  /\ otype \in OrderTypes
  /\ status \in Statuses
  /\ paidAt \in BOOLEAN /\ tradeUp \in BOOLEAN
  /\ old \in BOOLEAN /\ due \in BOOLEAN
  /\ holders \subseteq Workers /\ owner \subseteq Workers
  /\ code \in {"absent", "unused", "used"}
  /\ credited \in Nat /\ assigned \in Nat /\ rebates \in Nat
  /\ subNote \in BOOLEAN
  /\ audit \subseteq AuditActions
  /\ upstream \in {"none", "open", "offered", "paid", "wrong", "closed"}
  /\ acked \in BOOLEAN /\ swallowed \in BOOLEAN
  /\ faults \in Nat
  /\ pc \in [Workers -> PCs]
  /\ goal \in [Workers -> {"none", "CANCELLED", "EXPIRED"}]
  /\ persistDue \in [Workers -> BOOLEAN]
  /\ recovered \in [Workers -> BOOLEAN]

-----------------------------------------------------------------------------
(* Helpers *)

\* Every ent update of the row sets updated_at = time.Now().
Touch == old' = FALSE /\ holders' = {}

SetStatus(s) == status' = s /\ Touch

Goto(w, l) == pc' = [pc EXCEPT ![w] = l]

\* The handler returns; a callback that returns nil answers 2xx.
Leave(w, ok) ==
  /\ Goto(w, "idle")
  /\ acked' = (acked \/ (ok /\ w \in Callbacks))
  /\ goal' = [goal EXCEPT ![w] = "none"]
  /\ persistDue' = [persistDue EXCEPT ![w] = FALSE]
  /\ recovered' = [recovered EXCEPT ![w] = FALSE]

Return(w, ok) == Leave(w, ok) /\ UNCHANGED swallowed

\* It returns nil in spite of an error.
SwallowError(w) ==
  /\ Leave(w, TRUE)
  /\ swallowed' = (swallowed \/ w \in Callbacks)

Continue(w, l) == Goto(w, l) /\ UNCHANGED <<answerVars, localVars>>

Fault(k) ==
  /\ k \in FaultKinds
  /\ faults < MaxFaults
  /\ faults' = faults + 1

\* writeAuditLog only logs its own error.
WriteAudit(row) ==
  \/ audit' = audit \union {row} /\ UNCHANGED faults
  \/ Fault("lost_write") /\ UNCHANGED audit

\* The provider reports the order's payment as made.
Paid == upstream \in {"paid", "wrong"}

\* Starting points of the delivery itself.
DeliverPC == IF otype = "balance" THEN "lookup" ELSE "assign"

-----------------------------------------------------------------------------
(* Initial states: no row yet; or a subscription order that a release      *)
(* without SUBSCRIPTION_ASSIGNED audits assigned but never completed.      *)

InitCommon ==
  /\ holders = {} /\ owner = {}
  /\ code = "absent" /\ credited = 0
  /\ audit = {} /\ rebates = 0
  /\ acked = FALSE /\ swallowed = FALSE /\ faults = 0
  /\ pc = [w \in Workers |-> "idle"]
  /\ goal = [w \in Workers |-> "none"]
  /\ persistDue = [w \in Workers |-> FALSE]
  /\ recovered = [w \in Workers |-> FALSE]

InitNew ==
  /\ otype \in OrderTypes
  /\ status = "NONE" /\ paidAt = FALSE /\ tradeUp = FALSE
  /\ old = FALSE /\ due = FALSE
  /\ subNote = FALSE /\ assigned = 0
  /\ upstream = "none"

InitLegacy ==
  /\ otype = "subscription"
  /\ status \in {"RECHARGING", "FAILED"} /\ paidAt = TRUE /\ tradeUp = TRUE
  /\ old = TRUE /\ due = TRUE
  /\ subNote = TRUE /\ assigned = 1
  /\ upstream = "paid"

Init == InitCommon /\ (InitNew \/ InitLegacy)

-----------------------------------------------------------------------------
(* CreateOrder *)

\* createOrderInTx commits the PENDING row.
CreateOrder(j) ==
  /\ pc[j] = "idle" /\ status = "NONE"
  /\ SetStatus("PENDING")
  /\ Continue(j, "invoke")
  /\ UNCHANGED <<otype, paidAt, tradeUp, owner, due, deliveryVars, audit,
                 upstream, faults>>

\* prov.CreatePayment registers the payment at the provider.
InvokeProvider(j) ==
  /\ pc[j] = "invoke" /\ upstream = "none"
  /\ upstream' = "open"
  /\ Continue(j, "details")
  /\ UNCHANGED <<otype, rowVars, due, deliveryVars, audit, faults>>

\* The payment details are saved on the row, whatever its status, and only
\* then returned to the user, who can now pay.
SaveDetails(j) ==
  /\ pc[j] = "details"
  /\ tradeUp' \in BOOLEAN
  /\ Touch
  /\ upstream' = IF upstream = "open" THEN "offered" ELSE upstream
  /\ Return(j, TRUE)
  /\ UNCHANGED <<otype, status, paidAt, owner, due, deliveryVars, audit,
                 faults>>

\* CreatePayment or the save fails; the provider may know the payment.
InvokeFails(j) ==
  /\ pc[j] \in {"invoke", "details"}
  /\ Fault("create")
  /\ upstream' \in {upstream, IF upstream = "none" THEN "open" ELSE upstream}
  /\ Continue(j, "createFailed")
  /\ UNCHANGED <<otype, rowVars, due, deliveryVars, audit>>

\* Variant: a status the enumeration of order statuses lacks.
CreateFailedUnlisted == "CREATE_FAILED"
CreateFailedStatus == "FAILED"

\* CreateOrder marks the order FAILED without looking at its status.
MarkCreateFailed(j) ==
  /\ pc[j] = "createFailed"
  /\ SetStatus(CreateFailedStatus)
  /\ Return(j, FALSE)
  /\ UNCHANGED <<otype, paidAt, tradeUp, owner, due, deliveryVars, audit,
                 upstream, faults>>

-----------------------------------------------------------------------------
(* The provider and the clock *)

UserPays ==
  /\ upstream = "offered"
  /\ upstream' \in {"paid", "wrong"}
  /\ UNCHANGED <<otype, rowVars, due, deliveryVars, audit, answerVars, faults,
                 pc, localVars>>

DeadlinePasses ==
  /\ ~due /\ status # "NONE"
  /\ due' = TRUE
  /\ UNCHANGED <<otype, rowVars, deliveryVars, audit, upstream, answerVars,
                 faults, pc, localVars>>

Busy == \E w \in Workers : pc[w] \in FulfilPCs \union {"reload", "markFailed"}

\* Five minutes without a write of the row.
RowAges ==
  /\ ~old /\ status # "NONE" /\ ~Busy
  /\ old' = TRUE
  /\ UNCHANGED <<otype, status, paidAt, tradeUp, holders, owner, due,
                 deliveryVars, audit, upstream, answerVars, faults, pc,
                 localVars>>

\* The same while a worker is in the middle of the delivery: it is slow.
RowAgesUnderWorker ==
  /\ ~old /\ Busy
  /\ Fault("slow")
  /\ old' = TRUE
  /\ UNCHANGED <<otype, status, paidAt, tradeUp, holders, owner, due,
                 deliveryVars, audit, upstream, answerVars, pc, localVars>>

-----------------------------------------------------------------------------
(* Entry points *)

\* A webhook is delivered: late, repeatedly, and even after a 2xx answer.
StartWebhook(c) ==
  /\ pc[c] = "idle" /\ Paid
  /\ Continue(c, "confirm")
  /\ UNCHANGED <<otype, rowVars, due, deliveryVars, audit, upstream, faults>>

\* handleNotify answers before the order is looked at: 4xx when the body or
\* its signature cannot be read, but 2xx when no provider is found for it.
RefuseWebhook(c) ==
  /\ pc[c] = "idle" /\ Paid
  /\ Fault("webhook")
  /\ SwallowError(c) \/ Return(c, FALSE)
  /\ UNCHANGED <<otype, rowVars, due, deliveryVars, audit, upstream>>

StartCheck(j, g) ==
  /\ pc[j] = "idle"
  /\ Goto(j, "query")
  /\ goal' = [goal EXCEPT ![j] = g]
  /\ persistDue' = [persistDue EXCEPT ![j] = ~tradeUp]
  /\ UNCHANGED <<otype, rowVars, due, deliveryVars, audit, upstream,
                 answerVars, faults, recovered>>

\* CancelOrder and AdminCancelOrder.
StartCancel(j) == status = "PENDING" /\ StartCheck(j, "CANCELLED")

\* Variant: the sweep skips orders without a provider trade number.
OverdueWithTradeNo == status = "PENDING" /\ due /\ tradeUp
Overdue == status = "PENDING" /\ due

\* The sweep: ExpireTimedOutOrders.
StartExpire(j) == Overdue /\ StartCheck(j, "EXPIRED")

\* VerifyOrderByOutTradeNo and ReconcilePendingPaymentOrders.
StartVerify(j) ==
  status \in {"PENDING", "EXPIRED"} /\ StartCheck(j, "none")

StartReconcile(j) == status = "PENDING" /\ ~due /\ StartCheck(j, "none")

\* Variant: a retry that does not ask whether the order was ever paid.
RetryableUnpaid == status \in {"FAILED", "PAID", "RECHARGING"}
Retryable == paidAt /\ status \in {"FAILED", "PAID", "RECHARGING"}

\* RetryFulfillment by an administrator.
StartRetry(j) ==
  /\ pc[j] = "idle" /\ Retryable
  /\ Continue(j, "fulfil")
  /\ UNCHANGED <<otype, rowVars, due, deliveryVars, audit, upstream, faults>>

-----------------------------------------------------------------------------
(* checkPaidWithOptions and cancelCore *)

\* checkPaidWithOptions returns without an answer it can use.
Unanswered(j) ==
  IF goal[j] = "none" THEN Return(j, TRUE) ELSE Continue(j, "cancelCas")

\* prov.QueryOrder answers; an amount that is not positive is asked for twice
\* and then taken for no answer.
QueryOrder(j) ==
  /\ pc[j] = "query"
  /\ \/ Paid /\ persistDue[j] /\ Continue(j, "persist")
     \/ Paid /\ ~persistDue[j] /\ Continue(j, "confirm")
     \/ ~Paid /\ goal[j] # "none" /\ Continue(j, "cancelUpstream")
     \/ ~Paid /\ goal[j] = "none" /\ Return(j, TRUE)
     \/ upstream = "wrong" /\ Unanswered(j)
  /\ UNCHANGED <<otype, rowVars, due, deliveryVars, audit, upstream, faults>>

\* No provider, no reference or a failed query.
QueryFails(j) ==
  /\ pc[j] = "query"
  /\ Fault("query")
  /\ Unanswered(j)
  /\ UNCHANGED <<otype, rowVars, due, deliveryVars, audit, upstream>>

\* CancelPayment, ignored by providers that cannot cancel; a payment that
\* was made meanwhile stays made.
CancelPayment(j) ==
  /\ pc[j] = "cancelUpstream"
  /\ \/ upstream' = upstream
     \/ upstream \in {"open", "offered"} /\ upstream' = "closed"
  /\ Continue(j, "cancelCas")
  /\ UNCHANGED <<otype, rowVars, due, deliveryVars, audit, faults>>

\* cancelCore: PENDING -> CANCELLED or EXPIRED, or nothing.
CancelCas(j) ==
  /\ pc[j] = "cancelCas"
  /\ IF status = "PENDING" THEN SetStatus(goal[j])
                           ELSE UNCHANGED <<status, old, holders>>
  /\ Return(j, TRUE)
  /\ UNCHANGED <<otype, paidAt, tradeUp, owner, due, deliveryVars, audit,
                 upstream, faults>>

\* The trade number is written whatever the status has become.
PersistTradeNo(j) ==
  /\ pc[j] = "persist"
  /\ tradeUp' = TRUE
  /\ Touch
  /\ Continue(j, "confirm")
  /\ UNCHANGED <<otype, status, paidAt, owner, due, deliveryVars, audit,
                 upstream, faults>>

-----------------------------------------------------------------------------
(* HandlePaymentNotification, confirmPayment, toPaid *)

Confirm(w) ==
  /\ pc[w] = "confirm" /\ upstream = "paid"
  /\ Continue(w, "toPaid")
  /\ UNCHANGED <<otype, rowVars, due, deliveryVars, audit, upstream, faults>>

\* Another provider, foreign metadata or another amount: an error, now and
\* whenever this payment is confirmed again.
ConfirmRejects(w) ==
  /\ pc[w] = "confirm" /\ upstream = "wrong"
  /\ WriteAudit("AMOUNT_MISMATCH")
  /\ Return(w, FALSE)
  /\ UNCHANGED <<otype, rowVars, due, deliveryVars, upstream>>

\* confirmPayment and alreadyProcessed answer nil when the order cannot be
\* read back, whatever the reason.
LostRead(w) ==
  /\ pc[w] \in {"confirm", "already"}
  /\ Fault("lost_read")
  /\ SwallowError(w)
  /\ UNCHANGED <<otype, rowVars, due, deliveryVars, audit, upstream>>

Payable == status \in {"PENDING", "CANCELLED"} \/ (status = "EXPIRED" /\ ~old)

ToPaid(w) ==
  /\ pc[w] = "toPaid"
  /\ IF Payable
       THEN /\ SetStatus("PAID")
            /\ paidAt' = TRUE /\ tradeUp' = TRUE
            /\ Continue(w, "fulfil")
       ELSE /\ Continue(w, "already")
            /\ UNCHANGED <<status, old, holders, paidAt, tradeUp>>
  /\ UNCHANGED <<otype, owner, due, deliveryVars, audit, upstream, faults>>

\* Variant: an order somebody else is delivering is taken for delivered.
UnfinishedUnowned == status \in {"FAILED", "PAID"}
Unfinished == status \in {"FAILED", "PAID", "RECHARGING"}

AlreadyProcessed(w) ==
  /\ pc[w] = "already"
  /\ IF Unfinished
       THEN Continue(w, "fulfil")
       ELSE status # "EXPIRED" /\ Return(w, TRUE)
  /\ UNCHANGED <<otype, rowVars, due, deliveryVars, audit, upstream, faults>>

\* Too late: the payment is put on record, and nothing else is done with it.
AfterExpiry(w) ==
  /\ pc[w] = "already" /\ status = "EXPIRED"
  /\ WriteAudit("PAYMENT_AFTER_EXPIRY")
  /\ IF "PAYMENT_AFTER_EXPIRY" \in audit' THEN Return(w, TRUE)
                                          ELSE SwallowError(w)
  /\ UNCHANGED <<otype, rowVars, due, deliveryVars, upstream>>

-----------------------------------------------------------------------------
(* executeFulfillment and the lease *)

Fulfil(w) ==
  /\ pc[w] = "fulfil"
  /\ \/ status \in {"PAID", "FAILED", "RECHARGING"}
        /\ Continue(w, "lease")
     \/ status \notin {"PAID", "FAILED", "RECHARGING"}
        /\ Return(w, status = "COMPLETED")
  /\ UNCHANGED <<otype, rowVars, due, deliveryVars, audit, upstream, faults>>

\* Variants: a lease without age, and one that cannot be taken over.
LeasableAtOnce == status \in {"PAID", "FAILED", "RECHARGING"}
Leasable == status \in {"PAID", "FAILED"} \/ (status = "RECHARGING" /\ old)

AcquireLease(w) ==
  /\ pc[w] = "lease"
  /\ IF Leasable
       THEN SetStatus("RECHARGING") /\ owner' = {w} /\ Continue(w, "reload")
       ELSE /\ Continue(w, "leaseLost")
            /\ UNCHANGED <<status, old, holders, owner>>
  /\ UNCHANGED <<otype, paidAt, tradeUp, due, deliveryVars, audit, upstream,
                 faults>>

\* The conditional update hit no row: completed by somebody else, or a
\* conflict.
LeaseLost(w) ==
  /\ pc[w] = "leaseLost"
  /\ Return(w, status = "COMPLETED")
  /\ UNCHANGED <<otype, rowVars, due, deliveryVars, audit, upstream, faults>>

\* The version is read back in a statement of its own.
ReloadLease(w) ==
  /\ pc[w] = "reload"
  /\ IF status = "RECHARGING"
       THEN /\ holders' = holders \union {w}
            /\ Continue(w, DeliverPC)
       ELSE Return(w, FALSE) /\ UNCHANGED holders
  /\ UNCHANGED <<otype, status, paidAt, tradeUp, old, owner, due,
                 deliveryVars, audit, upstream, faults>>

-----------------------------------------------------------------------------
(* doBalance *)

\* Variant: a code that exists is taken for a code that was redeemed.
RedeemedIfCreated == code # "absent"
Redeemed == code = "used"

\* resolveRedeemAction
LookupCode(w) ==
  /\ pc[w] = "lookup"
  /\ Continue(w, CASE Redeemed        -> "rebate"
                   [] code = "absent" -> "create"
                   [] OTHER           -> "redeem")
  /\ UNCHANGED <<otype, rowVars, due, deliveryVars, audit, upstream, faults>>

\* CreateCode; the code is unique.
CreateCode(w) ==
  /\ pc[w] = "create"
  /\ IF code = "absent" THEN code' = "unused" /\ Continue(w, "redeem")
                        ELSE Continue(w, "markFailed") /\ UNCHANGED code
  /\ UNCHANGED <<otype, rowVars, due, credited, subNote, assigned, rebates,
                 audit, upstream, faults>>

\* Variant: the update of the code is not conditional on its status.
UsableTwice == code # "absent"
Usable == code = "unused"

\* redeem: one transaction marks the code used, if unused, and credits.
Redeem(w) ==
  /\ pc[w] = "redeem"
  /\ IF Usable
       THEN code' = "used" /\ credited' = credited + 1 /\ Continue(w, "rebate")
       ELSE Continue(w, "markFailed") /\ UNCHANGED <<code, credited>>
  /\ UNCHANGED <<otype, rowVars, due, subNote, assigned, rebates,
                 audit, upstream, faults>>

-----------------------------------------------------------------------------
(* doSub: ensurePaymentSubscriptionAssigned *)

\* The transaction reads the audit log and the subscription's notes.
AssignBegin(w) ==
  /\ pc[w] = "assign"
  /\ Goto(w, IF "SUBSCRIPTION_ASSIGNED" \in audit THEN "invalidate"
                                                  ELSE "assignTx")
  /\ recovered' = [recovered EXCEPT ![w] = subNote]
  /\ UNCHANGED <<otype, rowVars, due, deliveryVars, audit, upstream,
                 answerVars, faults, goal, persistDue>>

\* It grants the subscription and inserts the audit row, or is rolled back
\* because another worker inserted it first.
AssignCommit(w) ==
  /\ pc[w] = "assignTx"
  /\ IF "SUBSCRIPTION_ASSIGNED" \in audit
       THEN UNCHANGED <<assigned, subNote, audit>>
       ELSE /\ assigned' = IF recovered[w] THEN assigned ELSE assigned + 1
            /\ subNote' = TRUE
            /\ audit' = audit \union {"SUBSCRIPTION_ASSIGNED"}
  /\ Continue(w, "invalidate")
  /\ UNCHANGED <<otype, rowVars, due, code, credited, rebates,
                 upstream, faults>>

\* Synchronous cache invalidation after the commit.
InvalidateCaches(w) ==
  /\ pc[w] = "invalidate"
  /\ Continue(w, "rebate")
  /\ UNCHANGED <<otype, rowVars, due, deliveryVars, audit, upstream, faults>>

-----------------------------------------------------------------------------
(* applyAffiliateRebateForOrder *)

RebateRows == {"REBATE_APPLIED", "REBATE_SKIPPED"}

RebateDecided == Affiliates => audit \intersect RebateRows # {}

\* INSERT ... WHERE NOT EXISTS: the statement's snapshot.  Without an affiliate
\* service there is nothing to decide.
RebateClaim(w) ==
  /\ pc[w] = "rebate"
  /\ Continue(w, IF RebateDecided THEN "complete" ELSE "rebateTx")
  /\ UNCHANGED <<otype, rowVars, due, deliveryVars, audit, upstream, faults>>

\* Variant: without the unique index on order and action.
NeverClaimed == FALSE
ClaimedByOther == "REBATE_APPLIED" \in audit

\* ON CONFLICT DO NOTHING sees an APPLIED row committed meanwhile, but not a
\* SKIPPED one, which the claim only meets when it is renamed to SKIPPED.
RebateCommit(w) ==
  /\ pc[w] = "rebateTx"
  /\ \/ /\ ClaimedByOther
        /\ Continue(w, "complete")
        /\ UNCHANGED <<rebates, audit>>
     \/ /\ ~ClaimedByOther
        /\ rebates' = rebates + 1
        /\ audit' = audit \union {"REBATE_APPLIED"}
        /\ Continue(w, "complete")
     \/ /\ ~ClaimedByOther
        /\ audit' = audit \union {"REBATE_SKIPPED"}
        /\ Continue(w, IF "REBATE_SKIPPED" \in audit THEN "markFailed"
                                                 ELSE "complete")
        /\ UNCHANGED rebates
  /\ UNCHANGED <<otype, rowVars, due, code, credited, subNote, assigned,
                 upstream, faults>>

-----------------------------------------------------------------------------
(* markCompleted, markFailed *)

\* Variant: the final update is not conditional on status and version.
AnyLease(w) == w \in Workers
HoldsLease(w) == status = "RECHARGING" /\ w \in holders

MarkCompleted(w) ==
  /\ pc[w] = "complete"
  /\ IF HoldsLease(w)
       THEN SetStatus("COMPLETED") /\ Continue(w, "notify")
       ELSE Continue(w, "completeLost") /\ UNCHANGED <<status, old, holders>>
  /\ UNCHANGED <<otype, paidAt, tradeUp, owner, due, deliveryVars, audit,
                 upstream, faults>>

\* No row matched: completed by somebody else, or the lease was lost.
CompleteLost(w) ==
  /\ pc[w] = "completeLost"
  /\ IF status = "COMPLETED" THEN Return(w, TRUE)
                             ELSE Continue(w, "markFailed")
  /\ UNCHANGED <<otype, rowVars, due, deliveryVars, audit, upstream, faults>>

\* The success audit row (and an e-mail nobody waits for).
Notify(w) ==
  /\ pc[w] = "notify"
  /\ WriteAudit("SUCCESS")
  /\ Return(w, TRUE)
  /\ UNCHANGED <<otype, rowVars, due, deliveryVars, upstream>>

MarkFailed(w) ==
  /\ pc[w] = "markFailed"
  /\ IF HoldsLease(w)
       THEN SetStatus("FAILED") ELSE UNCHANGED <<status, old, holders>>
  /\ Return(w, FALSE)
  /\ UNCHANGED <<otype, paidAt, tradeUp, owner, due, deliveryVars, audit,
                 upstream, faults>>

-----------------------------------------------------------------------------
(* Faults of a worker *)

\* A read or an update of the order before its delivery returns an error,
\* which is the answer.
HandlerFails(w) ==
  /\ pc[w] \in {"confirm", "toPaid", "fulfil", "lease", "reload"}
  /\ Fault("error")
  /\ Return(w, FALSE)
  /\ UNCHANGED <<otype, rowVars, due, deliveryVars, audit, upstream>>

\* An operation of the delivery returns an error.
StepFails(w) ==
  /\ pc[w] \in FulfilPCs
  /\ Fault("error")
  /\ Continue(w, "markFailed")
  /\ UNCHANGED <<otype, rowVars, due, deliveryVars, audit, upstream>>

\* The process dies or the request's context ends: the worker stops here.
Crash(w) ==
  /\ pc[w] # "idle"
  /\ Fault("crash")
  /\ Return(w, FALSE)
  /\ UNCHANGED <<otype, rowVars, due, deliveryVars, audit, upstream>>

-----------------------------------------------------------------------------
(* The refund component as this row sees it (module PaymentRefund): a      *)
(* request, its lock, its end or its undoing.  Some of its writes are not  *)
(* conditional on the status, so any of its statuses may follow another.   *)

RefundStep ==
  /\ status \in Settled
  /\ \E s \in Settled : SetStatus(s)
  /\ UNCHANGED <<otype, paidAt, tradeUp, owner, due, deliveryVars, audit,
                 upstream, answerVars, faults, pc, localVars>>

-----------------------------------------------------------------------------
CreateStep(j) == InvokeProvider(j) \/ SaveDetails(j) \/ MarkCreateFailed(j)

StartJob(j) == CreateOrder(j) \/ StartCancel(j) \/ StartExpire(j)
                 \/ StartVerify(j) \/ StartReconcile(j) \/ StartRetry(j)

CheckStep(j) == QueryOrder(j) \/ CancelPayment(j) \/ CancelCas(j)
                  \/ PersistTradeNo(j)

NotifyStep(w) == Confirm(w) \/ ConfirmRejects(w) \/ ToPaid(w)
                   \/ AlreadyProcessed(w) \/ AfterExpiry(w)

LeaseStep(w) == Fulfil(w) \/ AcquireLease(w) \/ LeaseLost(w) \/ ReloadLease(w)

BalanceStep(w) == LookupCode(w) \/ CreateCode(w) \/ Redeem(w)

SubscriptionStep(w) == AssignBegin(w) \/ AssignCommit(w) \/ InvalidateCaches(w)

FinishStep(w) == RebateClaim(w) \/ RebateCommit(w) \/ MarkCompleted(w)
                   \/ CompleteLost(w) \/ Notify(w) \/ MarkFailed(w)

JobProgress(j)    == CreateStep(j) \/ CheckStep(j)
WorkerProgress(w) == NotifyStep(w) \/ LeaseStep(w) \/ BalanceStep(w)
                       \/ SubscriptionStep(w) \/ FinishStep(w)

JobFault(j)    == InvokeFails(j) \/ QueryFails(j)
WorkerFault(w) == LostRead(w) \/ HandlerFails(w) \/ StepFails(w) \/ Crash(w)

Environment == UserPays \/ DeadlinePasses \/ RowAges \/ RowAgesUnderWorker
                 \/ RefundStep

Next ==
  \/ Environment
  \/ \E c \in Callbacks : StartWebhook(c) \/ RefuseWebhook(c)
  \/ \E j \in Jobs : StartJob(j) \/ JobProgress(j) \/ JobFault(j)
  \/ \E w \in Workers : WorkerProgress(w) \/ WorkerFault(w)

Spec == Init /\ [][Next]_vars

(***************************************************************************)
(* Fairness.  A goroutine that runs is scheduled; time passes; the         *)
(* provider redelivers a notification until it is answered with a 2xx, and *)
(* its signature can be verified in the end; the sweep, a goroutine of its *)
(* own with a ticker, keeps finding an overdue order (strong fairness: the *)
(* model lets other jobs borrow its worker).  Nothing is assumed of users  *)
(* and administrators.                                                     *)
(***************************************************************************)
Fairness ==
  /\ WF_vars(DeadlinePasses) /\ WF_vars(RowAges)
  /\ \A w \in Workers : WF_vars(WorkerProgress(w))
  /\ \A j \in Jobs : WF_vars(JobProgress(j)) /\ SF_vars(StartExpire(j))
  /\ \A c \in Callbacks : WF_vars(~acked /\ StartWebhook(c))

FairSpec == Spec /\ Fairness
-----------------------------------------------------------------------------
(* Safety *)

\* However many callbacks, retries and takeovers run, the redeem code and the
\* SUBSCRIPTION_ASSIGNED row let the order be delivered at most once.
DeliveredOnce == credited + assigned <= 1

\* markCompleted is reached only after the goods are delivered and the rebate,
\* where there are any, decided; a refund, too, only ever follows a delivery.
SettledMeansDelivered ==
  status \in Settled => credited + assigned = 1 /\ RebateDecided

\* No path (creation failure, retry, late callback) delivers an order for which
\* the provider has no money, or money that is not the order's.
DeliveryNeedsPayment == credited + assigned > 0 => upstream = "paid"

\* The claim row of tryClaimAffiliateRebateAudit lets the inviter's rebate be
\* accrued once, although a SKIPPED row does not conflict with a claim.
RebateOnce == rebates <= 1

\* The order's row and its delivery implement the contract of PaymentContract.
Contract == INSTANCE PaymentContract
              WITH money   <- upstream = "paid",
                   goods   <- credited + assigned,
                   settled <- status \in Settled

\* Every step of the detailed system is a step of the contract or none.
ImplementsContract == Contract!Spec

\* Once an order is settled its row belongs to the refund component: no late
\* callback, retry or stalled worker overwrites a status that a refund has set
\* (markCompleted, markFailed, cancelCore and toPaid are conditional; CreateOrder
\* and PersistTradeNo are not).
LeftToRefunds ==
  [][(status \in Settled /\ status' # status) => RefundStep]_vars

\* As long as no worker stalls for the lease's five minutes, the lease lets
\* one worker at a time deliver, even when the row's version is renewed under
\* it by the trade number update of checkPaidWithOptions.
OneDeliverer ==
  Cardinality({w \in Workers : pc[w] \in FulfilPCs \union {"reload"}}) <= 1

TooLate == "PAYMENT_AFTER_EXPIRY" \in audit

\* A callback answers 2xx, which ends the redeliveries, only when the order is
\* settled, or the payment on record as too late, or after one of the errors
\* that handleNotify, confirmPayment and alreadyProcessed only log.
AckMeansHandled == acked => status \in Settled \/ TooLate \/ swallowed

-----------------------------------------------------------------------------
(* The inductive invariant behind the safety properties *)

Creating == {"invoke", "details", "createFailed"}

\* The order is created once, and payable only when its creation succeeded.
CreationInv ==
  /\ status = "NONE" =>
       upstream = "none" /\ \A w \in Workers : pc[w] \notin Creating
  /\ \A v, w \in Workers :
       pc[v] \in Creating /\ pc[w] \in Creating => v = w
  /\ \A w \in Workers :
       pc[w] \in Creating => upstream \notin {"offered", "paid", "wrong"}

\* Before the payment is confirmed to be the order's.
Unconfirmed == Creating \union {"idle", "query", "cancelUpstream", "cancelCas",
                                "persist", "confirm"}

\* A worker cancels only with a status to set, confirms only what the provider
\* was paid for, and leases or delivers only what it was paid for rightly.
PaymentInv ==
  /\ paidAt => upstream = "paid"
  /\ \A w \in Workers :
       /\ pc[w] \in {"cancelUpstream", "cancelCas"} => goal[w] # "none"
       /\ pc[w] \in {"persist", "confirm"} => Paid
       /\ pc[w] \notin Unconfirmed => upstream = "paid"

\* The code carries the credit; the audit row and the note the assignment.
DeliveryInv ==
  /\ credited = IF code = "used" THEN 1 ELSE 0
  /\ assigned = IF subNote THEN 1 ELSE 0
  /\ otype = "balance" => assigned = 0
  /\ otype = "subscription" => code = "absent"
  /\ "SUBSCRIPTION_ASSIGNED" \in audit => subNote
  /\ credited + assigned > 0 => upstream = "paid"
  /\ rebates = IF "REBATE_APPLIED" \in audit THEN 1 ELSE 0

\* What a worker may rely on where it stands.
WorkerInv ==
  \A w \in Workers :
    /\ pc[w] \in {"lookup", "create", "redeem"} => otype = "balance"
    /\ pc[w] \in {"assign", "assignTx", "invalidate"} => otype = "subscription"
    /\ pc[w] = "assignTx" /\ "SUBSCRIPTION_ASSIGNED" \notin audit
         => recovered[w] = subNote
    /\ pc[w] = "invalidate" => assigned = 1
    /\ pc[w] \in {"rebate", "rebateTx", "complete"} => credited + assigned = 1
    /\ pc[w] = "complete" => RebateDecided

IInv == TypeOK /\ CreationInv /\ PaymentInv /\ DeliveryInv /\ WorkerInv
          /\ SettledMeansDelivered

\* The lease, as long as nobody stalls for its five minutes: the row of whoever
\* delivers is RECHARGING and young, and nobody else can end it.
Delivering == FulfilPCs \union {"reload"}

LeaseInv ==
  /\ \A v, w \in Workers :
       pc[v] \in Delivering /\ pc[w] \in Delivering => v = w
  /\ \A w \in Workers :
       pc[w] \in Delivering => status = "RECHARGING" /\ ~old
  /\ \A v, w \in Workers :
       pc[w] \in Delivering /\ v \in holders
         => pc[v] \notin {"markFailed", "completeLost"}

\* What stands behind a 2xx: an order that could not be paid once can never be
\* paid without being handled.
AckInv ==
  /\ \A w \in Workers :
       /\ pc[w] = "already" => status \notin {"NONE", "PENDING", "CANCELLED"}
       /\ pc[w] = "notify" => status \in Settled
  /\ AckMeansHandled

-----------------------------------------------------------------------------
(* Liveness *)


\* The sweep does not leave an order pending past its deadline for ever, unless
\* the provider keeps reporting a payment that confirmPayment has to reject.
OverdueEnds ==
  (status = "PENDING" /\ due) ~> (status # "PENDING" \/ upstream = "wrong")

=============================================================================
