----------------------------- MODULE BatchImageJob -----------------------------
(***************************************************************************)
(* The life of one batch image job: Submit, the users' Cancel and repeated *)
(* Submit, the queue workers with the provider processor and settlement,   *)
(* the recovery of stale submissions and the cleanup of outputs.  They     *)
(* share the job's row in PostgreSQL, the hold of BatchImageLedger and the *)
(* Redis structures of BatchImageQueue; the job at the provider is part of *)
(* the environment.  Between two of its calls a process holds nothing but  *)
(* what it read.                                                           *)
(***************************************************************************)
EXTENDS BatchImageLedger, BatchImageQueue

CONSTANTS
    Users,          \* concurrent calls of the job's owner
    MaxRetries,     \* batchImageSettlementMaxRetries, 5 in the code
    Faults,         \* the kinds of fault that may happen
    MaxFaults

ASSUME JobAssumption == MaxRetries \in Nat \ {0} /\ MaxFaults \in Nat
ASSUME ProcsAssumption ==
    /\ Users \cap Workers = {}
    /\ {"submitter", "recovery"} \cap (Users \cup Workers) = {}

VARIABLES
    row,        \* the job's row in batch_image_jobs
    upstream,   \* the job at the provider
    gap,        \* what the worker needs of the job and does not find
    pc,         \* where each process is
    faults      \* faults so far

jobVars == <<row, upstream, gap>>
vars == <<claims, applied, ready, delayed, active, inflight, lock,
          row, upstream, gap, pc, faults>>

Submitter == "submitter"
Recovery == "recovery"
Procs == Users \cup Workers \cup {Submitter, Recovery}

Terminal == {"completed", "failed", "cancelled", "output_deleted"}
Statuses == Terminal \cup
    {"absent", "created", "uploading", "submitted", "running", "indexing",
     "settling"}
Unsubmitted == {"created", "uploading"}

\* provider_job_name IS NOT NULL; updated_at is after the stale cutoff; the
\* counts, price and cost pass settlement; user_deleted_at IS NOT NULL;
\* last_error_code starts with SETTLEMENT_.
RowType ==
    [status : Statuses, named : BOOLEAN, fresh : BOOLEAN, payable : BOOLEAN,
     retries : 0..(MaxRetries + 1), settleCode : BOOLEAN, hidden : BOOLEAN]

NoRow == [status |-> "absent", named |-> FALSE, fresh |-> FALSE,
          payable |-> FALSE, retries |-> 0, settleCode |-> FALSE,
          hidden |-> FALSE]

\* The account, or its provider, is gone or does not suit; the row has no
\* account_id, or no api_key_id; the provider has no output.
Gaps == {"none", "account", "account_id", "key", "output"}

PCs ==
    {"idle", "create", "reserve", "items", "upload", "provider", "record",
     "abort", "orphaned", "enqueue", "enqueueAgain", "unqueued", "release", "releaseOnly",
     "fail", "hide", "releaseFailed", "queueFailed", "retry", "done",
     "crashed", "transition", "cancelUpstream", "lock", "pipeline", "process",
     "poll", "running", "succeeded", "failed", "cancelled", "index",
     "startSettling", "settle", "capture", "mark", "recordInvalid",
     "recordBilling", "exhaustRelease", "exhaustRecord", "exhaustFail",
     "recheck", "requeue", "ack", "unlock"}

TypeOK ==
    /\ LedgerType /\ QueueType
    /\ row \in RowType
    /\ upstream \in {"none", "live", "done", "failed", "cancelled"}
    /\ gap \in Gaps
    /\ pc \in [Procs -> PCs]
    /\ faults \in 0..MaxFaults

Init ==
    /\ LedgerInit /\ QueueInit
    /\ row = NoRow
    /\ upstream = "none" /\ gap = "none"
    /\ pc = [p \in Procs |-> IF p = Submitter THEN "create" ELSE "idle"]
    /\ faults = 0

--------------------------------------------------------------------------------
(* Calls.  Each is given what follows its success and what its error.       *)

Goto(p, l) == pc' = [pc EXCEPT ![p] = l]
Fine == UNCHANGED faults
Fault(k) == k \in Faults /\ faults < MaxFaults /\ faults' = faults + 1

\* A call of usageBillingRepository: it commits, is refused, fails without
\* effect, or commits with its answer lost.
LedgerCall(op, ok, err) ==
    /\ \/ Commits(op) /\ Fine /\ ok
       \/ Refuses(op) /\ Fine /\ err
       \/ UNCHANGED ledgerVars /\ Fault("ledger") /\ err
       \/ Commits(op) /\ Fault("lost") /\ err
    /\ UNCHANGED <<jobVars, queueVars>>

\* CanTransitionBatchImageJob.  Variants: no status is refused; a job that has
\* not ended may become anything.
CanTransitionAlways(from, to) == from # "absent"
CanTransitionLive(from, to) == from \notin Terminal \cup {"absent"}
CanTransition(from, to) ==
    IF from \in Terminal THEN to = "output_deleted" /\ from # "output_deleted"
    ELSE IF to = "failed" THEN from # "absent"
    ELSE <<from, to>> \in
            ({"created"} \X {"uploading", "submitted", "cancelled"})
            \cup ({"uploading"} \X {"submitted", "cancelled"})
            \cup ({"submitted", "running"}
                    \X {"running", "indexing", "cancelled"})
            \cup {<<"indexing", "settling">>, <<"settling", "completed">>}

\* An UPDATE of the row that the row's lock makes atomic with its condition.
RowCall(condition, new, ok, invalid, err) ==
    /\ \/ condition /\ row' = new /\ Fine /\ ok
       \/ ~condition /\ UNCHANGED row /\ Fine /\ invalid
       \/ UNCHANGED row /\ Fault("row") /\ err
    /\ UNCHANGED <<ledgerVars, queueVars, upstream, gap>>

\* TransitionBatchImageJobStatus.
Transition(to, ok, invalid, err) ==
    RowCall(CanTransition(row.status, to),
            [row EXCEPT !.status = to, !.fresh = TRUE,
                        !.settleCode = @ /\ to # "failed"],
            ok, invalid, err)

\* RecordBatchImageJobSubmitFailure: whatever the status is.  Its error is
\* ignored.
RecordSubmitFailure(markFailed, next) ==
    LET new == [row EXCEPT !.status = IF markFailed THEN "failed" ELSE @,
                           !.fresh = TRUE, !.settleCode = FALSE]
    IN RowCall(TRUE, new, next, next, next)

EnqueueCall(ok, err) ==
    /\ \/ Enqueue /\ Fine /\ ok
       \/ UNCHANGED queueVars /\ Fault("enqueue") /\ err
    /\ UNCHANGED <<ledgerVars, jobVars>>

\* A read, or a decision, of process p alone.
Move(p, from, to) ==
    /\ pc[p] = from
    /\ Goto(p, to)
    /\ UNCHANGED <<ledgerVars, queueVars, jobVars, faults>>

--------------------------------------------------------------------------------
(* BatchImagePublicService.Submit.                                          *)

Create ==
    /\ pc[Submitter] = "create"
    /\ row' = [NoRow EXCEPT !.status = "created", !.fresh = TRUE]
    /\ Goto(Submitter, "reserve")
    /\ UNCHANGED <<ledgerVars, queueVars, upstream, gap, faults>>

ReserveHold ==
    /\ pc[Submitter] = "reserve"
    /\ LedgerCall("hold", Goto(Submitter, "items"), Goto(Submitter, "fail"))

CreateItems ==
    /\ pc[Submitter] = "items"
    /\ \/ Goto(Submitter, "upload") /\ Fine
       \/ Goto(Submitter, "release") /\ Fault("row")
    /\ UNCHANGED <<ledgerVars, queueVars, jobVars>>

\* The row is moved to uploading before the slow call of the provider.  When a
\* Cancel or the recovery has ended the job, its status is left alone.
StartUpload ==
    /\ pc[Submitter] = "upload"
    /\ Transition("uploading", Goto(Submitter, "provider"),
                  Goto(Submitter, "releaseOnly"), Goto(Submitter, "release"))

\* provider.Submit, under runSubmitHeartbeat.
SubmitUpstream ==
    /\ pc[Submitter] = "provider"
    /\ \/ upstream' = "live" /\ Goto(Submitter, "record") /\ Fine
       \/ UNCHANGED upstream /\ Goto(Submitter, "release") /\ Fault("provider")
    /\ UNCHANGED <<ledgerVars, queueVars, row, gap>>

\* UpdateBatchImageJobProviderSubmit.
RecordSubmitted ==
    /\ pc[Submitter] = "record"
    /\ RowCall(CanTransition(row.status, "submitted"),
               [row EXCEPT !.status = "submitted", !.named = TRUE,
                           !.fresh = TRUE],
               Goto(Submitter, "enqueue"), Goto(Submitter, "abort"),
               Goto(Submitter, "abort"))

\* abortOrphanProviderJob: an error of provider.Cancel is only logged.
\* Variant: the error is returned and nothing else.
AbortNothing ==
    /\ pc[Submitter] = "abort"
    /\ Goto(Submitter, "done")
    /\ UNCHANGED <<ledgerVars, queueVars, jobVars, faults>>
AbortOrphan ==
    /\ pc[Submitter] = "abort"
    /\ \/ /\ upstream' = IF upstream = "live" THEN "cancelled" ELSE upstream
          /\ Goto(Submitter, "done")
          /\ Fine
       \/ UNCHANGED upstream /\ Goto(Submitter, "orphaned") /\ Fault("provider")
    /\ UNCHANGED <<ledgerVars, queueVars, row, gap>>

EnqueueSubmitted ==
    /\ pc[Submitter] = "enqueue"
    /\ EnqueueCall(Goto(Submitter, "done"), Goto(Submitter, "queueFailed"))

\* QUEUE_FAILED is recorded and the status kept.
RecordQueueFailed ==
    /\ pc[Submitter] = "queueFailed"
    /\ RecordSubmitFailure(FALSE, Goto(Submitter, "unqueued"))

\* releaseFailedSubmitHold, after an error that marks the job failed and after
\* one that leaves its status alone.
SubmitRelease ==
    \/ /\ pc[Submitter] = "release"
       /\ LedgerCall("release", Goto(Submitter, "fail"),
                     Goto(Submitter, "releaseFailed"))
    \/ /\ pc[Submitter] = "releaseOnly"
       /\ LedgerCall("release", Goto(Submitter, "done"),
                     Goto(Submitter, "releaseFailed"))

\* BILLING_RELEASE_FAILED.
RecordReleaseFailed ==
    /\ pc[Submitter] = "releaseFailed"
    /\ RecordSubmitFailure(TRUE, Goto(Submitter, "retry"))

SubmitFail ==
    /\ pc[Submitter] = "fail"
    /\ RecordSubmitFailure(TRUE, Goto(Submitter, "hide"))

\* hidePreUpstreamSubmitFailure.
Hide ==
    /\ pc[Submitter] = "hide"
    /\ RowCall(row.status \in Terminal, [row EXCEPT !.hidden = TRUE],
               Goto(Submitter, "done"), Goto(Submitter, "done"),
               Goto(Submitter, "done"))

\* enqueueBillingRetry of Submit and Cancel, enqueueReleaseRetry of the
\* recovery: an error is only logged.
EnqueueRetry(p) ==
    /\ pc[p] = "retry"
    /\ LET next == Goto(p, IF p = Recovery THEN "idle" ELSE "done")
       IN EnqueueCall(next, next)

SubmitStep ==
    \/ Create \/ ReserveHold \/ CreateItems \/ StartUpload \/ SubmitUpstream
    \/ RecordSubmitted \/ AbortOrphan \/ EnqueueSubmitted \/ RecordQueueFailed
    \/ SubmitRelease \/ RecordReleaseFailed \/ SubmitFail \/ Hide
    \/ EnqueueRetry(Submitter)

--------------------------------------------------------------------------------
(* The owner's calls: Cancel, a second Submit with the same idempotency key, *)
(* and DeleteRecord.                                                         *)

\* Cancel reads the job; all it does next follows from this reading.
CancelRead(u) ==
    /\ pc[u] = "idle"
    /\ row.status # "absent" /\ ~row.hidden
    /\ Move(u, "idle",
            IF row.status \in {"failed", "cancelled"} THEN "release"
            ELSE IF row.status \in Terminal \cup {"settling"} THEN "done"
            ELSE IF row.named THEN "cancelUpstream" ELSE "transition")

\* Without a provider and an account of its own a job can be neither asked
\* about nor cancelled upstream.
NoAccount == gap \in {"account", "account_id"}

\* provider.Cancel; a job that has ended is left as it is.
CancelUpstream(u) ==
    /\ pc[u] = "cancelUpstream"
    /\ \/ /\ ~NoAccount
          /\ upstream' = IF upstream = "live" THEN "cancelled" ELSE upstream
          /\ Goto(u, "enqueue")
          /\ Fine
       \/ UNCHANGED upstream /\ Goto(u, "done") /\ Fault("provider")
       \/ NoAccount /\ UNCHANGED upstream /\ Goto(u, "done") /\ Fine
    /\ UNCHANGED <<ledgerVars, queueVars, row, gap>>

CancelTransition(u) ==
    /\ pc[u] = "transition"
    /\ Transition("cancelled", Goto(u, "release"), Goto(u, "done"),
                  Goto(u, "done"))

CancelRelease(u) ==
    /\ pc[u] = "release"
    /\ LedgerCall("release", Goto(u, "done"), Goto(u, "retry"))

UserEnqueue(u) ==
    /\ pc[u] = "enqueue"
    /\ EnqueueCall(Goto(u, "done"), Goto(u, "done"))

\* The same key finds the job and queues it again if it reads it submitted;
\* a failure is recorded on the row that was found.
SubmitAgain(u) ==
    /\ row.status # "absent"
    /\ Move(u, "idle",
            IF row.status = "submitted" THEN "enqueueAgain" ELSE "done")

EnqueueAgain(u) ==
    /\ pc[u] = "enqueueAgain"
    /\ EnqueueCall(Goto(u, "done"), Goto(u, "queueFailed"))

RecordAgain(u) ==
    /\ pc[u] = "queueFailed"
    /\ row.status # "absent"
    /\ RecordSubmitFailure(FALSE, Goto(u, "done"))

DeleteRecord(u) ==
    /\ pc[u] = "idle"
    /\ row.status \in Terminal /\ ~row.hidden
    /\ row' = [row EXCEPT !.hidden = TRUE]
    /\ Goto(u, "done")
    /\ UNCHANGED <<ledgerVars, queueVars, upstream, gap, faults>>

UserStep(u) ==
    \/ CancelRead(u) \/ CancelUpstream(u) \/ CancelTransition(u)
    \/ CancelRelease(u) \/ UserEnqueue(u) \/ SubmitAgain(u) \/ EnqueueAgain(u)
    \/ RecordAgain(u) \/ DeleteRecord(u) \/ EnqueueRetry(u)

--------------------------------------------------------------------------------
(* BatchImageBillingRecoveryService.                                        *)

\* updated_at falls behind the cutoff, unless the heartbeat of a slow provider
\* call renews it.
Age ==
    /\ row.fresh
    /\ row.status \in Unsubmitted
    /\ pc[Submitter] # "provider"
    /\ row' = [row EXCEPT !.fresh = FALSE]
    /\ UNCHANGED <<ledgerVars, queueVars, upstream, gap, pc, faults>>

\* FailStaleUnsubmittedBatchImageJob checks again what the list found.
StaleUnsubmitted ==
    row.status \in Unsubmitted /\ ~row.named /\ ~row.fresh

RecoverStale ==
    /\ pc[Recovery] = "idle"
    /\ StaleUnsubmitted
    /\ row' = [row EXCEPT !.status = "failed", !.fresh = TRUE,
                          !.settleCode = FALSE]
    /\ Goto(Recovery, "release")
    /\ UNCHANGED <<ledgerVars, queueVars, upstream, gap, faults>>

\* Variant: a release that fails is not queued again.
RecoveryReleaseOnce ==
    /\ pc[Recovery] = "release"
    /\ LedgerCall("release", Goto(Recovery, "idle"), Goto(Recovery, "idle"))
RecoveryRelease ==
    /\ pc[Recovery] = "release"
    /\ LedgerCall("release", Goto(Recovery, "idle"), Goto(Recovery, "retry"))

RecoveryStep == RecoverStale \/ RecoveryRelease \/ EnqueueRetry(Recovery)

--------------------------------------------------------------------------------
(* BatchImageWorker.RunOnce around BatchImagePipelineProcessor.Process.      *)

ReserveJob(w) ==
    /\ pc[w] = "idle"
    /\ Reserve
    /\ Goto(w, "lock")
    /\ UNCHANGED <<ledgerVars, jobVars, faults>>

\* A lock that another worker holds, or an error, sends the job back.  A lock
\* whose answer is lost is nobody's.
LockJob(w) ==
    /\ pc[w] = "lock"
    /\ \/ TryAcquireJobLock(w) /\ Goto(w, "pipeline") /\ Fine
       \/ lock # Free /\ Goto(w, "requeue") /\ UNCHANGED queueVars /\ Fine
       \/ /\ lock' \in {lock, IF lock = Free THEN Orphan ELSE lock}
          /\ Goto(w, "requeue")
          /\ UNCHANGED listVars
          /\ Fault("queue")
    /\ UNCHANGED <<ledgerVars, jobVars>>

\* The pipeline's reading of the job, and the second one of Settle or of the
\* provider processor.
ReadPipeline(w) ==
    Move(w, "pipeline", IF row.status = "settling" THEN "settle" ELSE "process")

\* A missing account is an error, and no error of Process ends the job.
ReadProcess(w) ==
    Move(w, "process",
         IF row.status \in {"failed", "cancelled"} THEN "release"
         ELSE IF row.status \in Terminal \cup {"settling"} THEN "ack"
         ELSE IF NoAccount \/ ~row.named THEN "requeue"
         ELSE IF row.status = "indexing" THEN "index" ELSE "poll")

\* A reading of the row that fails sends the job back, too.
ReadFails(w) ==
    /\ pc[w] \in {"pipeline", "process", "settle", "recheck"}
    /\ Fault("row")
    /\ Goto(w, "requeue")
    /\ UNCHANGED <<ledgerVars, queueVars, jobVars>>

\* provider.Get: a job still queued there, or an error, sends it back.
Poll(w) ==
    /\ pc[w] = "poll"
    /\ \/ Fine /\ Goto(w, IF upstream = "live" THEN "running"
                       ELSE IF upstream = "done" THEN "succeeded"
                       ELSE upstream)
       \/ upstream = "live" /\ Fine /\ Goto(w, "requeue")
       \/ Fault("provider") /\ Goto(w, "requeue")
    /\ UNCHANGED <<ledgerVars, queueVars, jobVars>>

\* The provider's answer becomes the status of the row.
ApplyAnswer(w) ==
    LET Become(answer, to, next) ==
          /\ pc[w] = answer
          /\ Transition(to, Goto(w, next), Goto(w, "requeue"),
                        Goto(w, "requeue"))
    IN \/ Become("running", "running", "requeue")
       \/ Become("succeeded", "indexing", "index")
       \/ Become("failed", "failed", "release")
       \/ Become("cancelled", "cancelled", "release")

\* BatchImageResultIndexer.Index: ReplaceBatchImageItemsForJob stores items only
\* while the status is indexing; output that cannot be opened is asked for again.
IndexItems(w) ==
    /\ pc[w] = "index"
    /\ \/ /\ row.status = "indexing" /\ gap # "output" /\ Fine
          /\ \E p \in BOOLEAN : row' = [row EXCEPT !.payable = p]
          /\ Goto(w, "startSettling")
       \/ /\ row.status # "indexing" \/ gap = "output"
          /\ Fine
          /\ UNCHANGED row
          /\ Goto(w, "requeue")
       \/ Fault("provider") /\ UNCHANGED row /\ Goto(w, "requeue")
    /\ UNCHANGED <<ledgerVars, queueVars, upstream, gap>>

\* Every other error, of the output's lines or of the database, fails the job.
IndexFails(w) ==
    /\ pc[w] = "index"
    /\ Transition("failed", Goto(w, "release"), Goto(w, "requeue"),
                  Goto(w, "requeue"))

StartSettling(w) ==
    /\ pc[w] = "startSettling"
    /\ Transition("settling", Goto(w, "requeue"), Goto(w, "requeue"),
                  Goto(w, "requeue"))

\* releaseTerminalHold.
WorkerRelease(w) ==
    /\ pc[w] = "release"
    /\ LedgerCall("release", Goto(w, "ack"), Goto(w, "requeue"))

ProviderStep(w) ==
    \/ ReadProcess(w) \/ ReadFails(w) \/ Poll(w) \/ ApplyAnswer(w) \/ IndexItems(w)
    \/ IndexFails(w) \/ StartSettling(w) \/ WorkerRelease(w)

--------------------------------------------------------------------------------
(* BatchImageSettlementService.Settle.                                      *)

\* isBatchImageSettlementRetryExhausted.
Exhausted == row.retries >= MaxRetries /\ row.settleCode

\* A row without one of its ids is sent back before the retries are looked at.
ReadSettle(w) ==
    Move(w, "settle",
         IF row.status = "completed" THEN "ack"
         ELSE IF row.status # "settling" \/ gap \in {"key", "account_id"}
           THEN "requeue"
         ELSE IF Exhausted THEN "exhaustRelease"
         ELSE IF ~row.payable THEN "recordInvalid" ELSE "capture")

\* Variant: the error of the capture is ignored.
CaptureIgnored(w) ==
    /\ pc[w] = "capture"
    /\ LedgerCall("capture", Goto(w, "mark"), Goto(w, "mark"))
Capture(w) ==
    /\ pc[w] = "capture"
    /\ LedgerCall("capture", Goto(w, "mark"), Goto(w, "recordBilling"))

\* MarkBatchImageJobSettled.
MarkSettled(w) ==
    /\ pc[w] = "mark"
    /\ RowCall(row.status = "settling",
               [row EXCEPT !.status = "completed", !.fresh = TRUE],
               Goto(w, "ack"), Goto(w, "requeue"), Goto(w, "requeue"))

\* SetBatchImageJobSettlementFailed; the counter stands still above the limit.
Counted == [row EXCEPT !.retries = IF @ > MaxRetries THEN @ ELSE @ + 1,
                       !.settleCode = TRUE, !.fresh = TRUE]

\* On an error the update, or only the event that follows it, has failed.
CountCall(ok, err) ==
    /\ \/ row' = Counted /\ Fine /\ ok
       \/ row' \in {row, Counted} /\ Fault("row") /\ err
    /\ UNCHANGED <<ledgerVars, queueVars, upstream, gap>>

\* recordSettlementFailure, after a check that failed and after the capture.
RecordFailure(w) ==
    LET Record(cause, next) ==
          /\ pc[w] = cause
          /\ CountCall(Goto(w, IF Counted.retries >= MaxRetries
                               THEN "exhaustRelease" ELSE next),
                       Goto(w, next))
    IN Record("recordInvalid", "requeue") \/ Record("recordBilling", "recheck")

\* failExhaustedSettlement: the release, then the status, or one more failure
\* on the row when the release is refused.
ExhaustRelease(w) ==
    /\ pc[w] = "exhaustRelease"
    /\ LedgerCall("release", Goto(w, "exhaustFail"), Goto(w, "exhaustRecord"))

ExhaustRecord(w) ==
    /\ pc[w] = "exhaustRecord"
    /\ CountCall(Goto(w, "recheck"), Goto(w, "recheck"))

ExhaustFail(w) ==
    /\ pc[w] = "exhaustFail"
    /\ Transition("failed", Goto(w, "recheck"), Goto(w, "requeue"),
                  Goto(w, "requeue"))

\* After a billing error the pipeline reads the status once more.
\* Variant: every billing error ends the job's stay in the queue.
RecheckNothing(w) == Move(w, "recheck", "ack")
Recheck(w) ==
    Move(w, "recheck", IF row.status \in Terminal THEN "ack" ELSE "requeue")

SettleStep(w) ==
    \/ ReadSettle(w) \/ Capture(w) \/ MarkSettled(w) \/ RecordFailure(w)
    \/ ExhaustRelease(w) \/ ExhaustRecord(w) \/ ExhaustFail(w) \/ Recheck(w)

--------------------------------------------------------------------------------
(* The end of RunOnce, and what runs beside it.                             *)

\* RequeueAfter or Ack; when it fails the job stays in the active set.
Return(w) ==
    LET Call(from, op) ==
          /\ pc[w] = from
          /\ \/ op /\ Fine
             \/ UNCHANGED queueVars /\ Fault("queue")
    IN /\ (Call("requeue", RequeueAfter) \/ Call("ack", Ack))
       /\ Goto(w, "unlock")
       /\ UNCHANGED <<ledgerVars, jobVars>>

\* The deferred release of the lock.
Unlock(w) ==
    /\ pc[w] = "unlock"
    /\ ReleaseJobLock(w)
    /\ Goto(w, "idle")
    /\ UNCHANGED <<ledgerVars, jobVars, faults>>

WorkerStep(w) ==
    \/ ReserveJob(w) \/ LockJob(w) \/ ReadPipeline(w) \/ ProviderStep(w)
    \/ SettleStep(w) \/ Return(w) \/ Unlock(w)

\* MoveDueDelayedToReady.
DelayedMover ==
    /\ MoveDueDelayed
    /\ UNCHANGED <<ledgerVars, jobVars, pc, faults>>

\* runJobHeartbeat of a working worker keeps the active entry and the lock
\* young, unless its calls to Redis fail or it is stalled for too long.
Working == {w \in Workers : pc[w] # "idle"}

StaleActive ==
    /\ RecoverStaleActive
    /\ IF Working = {} THEN Fine ELSE Fault("stale")
    /\ UNCHANGED <<ledgerVars, jobVars, pc>>

LockExpires ==
    /\ lock # Free
    /\ IF lock = Orphan THEN Fine ELSE Fault("expire")
    /\ lock' = Free
    /\ UNCHANGED <<ledgerVars, listVars, jobVars, pc>>

\* The provider ends the job.
UpstreamEnds ==
    /\ upstream = "live"
    /\ upstream' \in {"done", "failed"}
    /\ UNCHANGED <<ledgerVars, queueVars, row, gap, pc, faults>>

\* What the job needs is taken away, by an administrator or at the provider,
\* and possibly put back.
GapOpens ==
    /\ gap = "none" /\ row.status # "absent"
    /\ Fault("gap")
    /\ gap' \in Gaps \ {"none"}
    /\ UNCHANGED <<ledgerVars, queueVars, row, upstream, pc>>

GapCloses ==
    /\ gap # "none"
    /\ gap' = "none"
    /\ UNCHANGED <<ledgerVars, queueVars, row, upstream, pc, faults>>

\* CleanupOutput; a failed or cancelled job keeps its status.
CleanupOutput ==
    /\ row.status = "completed"
    /\ row' = [row EXCEPT !.status = "output_deleted"]
    /\ UNCHANGED <<ledgerVars, queueVars, upstream, gap, pc, faults>>

\* The replica that runs p dies.  A call is not made again; a worker and the
\* recovery start again with nothing.
Crash(p) ==
    /\ pc[p] \notin {"idle", "done", "orphaned", "unqueued", "crashed"}
    /\ Fault(IF p \in Workers THEN "death" ELSE "crash")
    /\ Goto(p, IF p \in Workers \cup {Recovery} THEN "idle" ELSE "crashed")
    /\ lock' = IF lock = p THEN Orphan ELSE lock
    /\ UNCHANGED <<ledgerVars, listVars, jobVars>>

\* Nothing is left to do: every call has ended and the queue is empty.
Finished ==
    /\ pc[Submitter] \in {"done", "orphaned", "unqueued", "crashed"}
    /\ pc[Recovery] = "idle"
    /\ \A w \in Workers : pc[w] = "idle"
    /\ \A u \in Users : pc[u] \in {"idle", "done", "crashed"}
    /\ ~Queued /\ lock = Free /\ upstream # "live"
    /\ row.status \notin Unsubmitted

Rest == Finished /\ UNCHANGED vars

Next ==
    \/ SubmitStep
    \/ \E u \in Users : UserStep(u)
    \/ Age \/ RecoveryStep
    \/ \E w \in Workers : WorkerStep(w)
    \/ DelayedMover \/ StaleActive \/ LockExpires
    \/ UpstreamEnds \/ GapOpens \/ GapCloses \/ CleanupOutput
    \/ \E p \in Procs : Crash(p)
    \/ Rest

\* Calls in progress go on, the loops of the worker runtime run, time passes,
\* and the provider ends what it was given.  Nothing makes a user call.
Fairness ==
    /\ WF_vars(SubmitStep) /\ WF_vars(Age) /\ WF_vars(RecoveryStep)
    /\ \A u \in Users : WF_vars(pc[u] # "idle" /\ UserStep(u))
    /\ \A w \in Workers : WF_vars(WorkerStep(w))
    /\ WF_vars(DelayedMover) /\ WF_vars(StaleActive) /\ WF_vars(LockExpires)
    /\ WF_vars(UpstreamEnds)

Spec == Init /\ [][Next]_vars

FairSpec == Spec /\ Fairness

--------------------------------------------------------------------------------
(* Properties.                                                              *)

\* One worker at a time works on the job: a worker that lost the race for the
\* lock sends the job back and does not take the winner's lock with it.
Processing(w) == pc[w] \notin {"idle", "lock", "requeue", "ack", "unlock"}

OneProcessor ==
    \A v, w \in Workers : Processing(v) /\ Processing(w) => v = w

Charged == "capture" \in applied
Refunded == "release" \in applied

\* A hold is either charged or given back, never both, for as long as the
\* settlement has not used up its retries: capture and release have request
\* ids of their own (batch_image_billing_hold.go), and only the statuses of
\* the row keep them apart.
HoldResolvedOnce == Charged /\ Refunded => row.retries >= MaxRetries

\* What the user's other jobs have frozen is not touched by this one.
OtherHoldsIntact == row.retries < MaxRetries => Frozen >= OtherHold

\* A completed job has been charged.
CompletedIsCharged ==
    row.status \in {"completed", "output_deleted"} => Charged

\* A failed job whose hold was given back does no work at the provider any
\* more, unless Submit died or could not cancel it: the recovery of a stale
\* submission and a slow Submit never both have their way.
FailedIsStopped ==
    row.status = "failed" /\ Refunded
        /\ pc[Submitter] \notin {"record", "abort", "orphaned", "crashed"}
    => upstream # "live"

\* The same of every job whose hold was given back.
RefundIsStopped ==
    Refunded /\ pc[Submitter] \notin {"record", "abort", "orphaned", "crashed"}
    => upstream # "live"

\* A job that has ended stays so, and a completed one is at most cleaned up.
EndIsFinal ==
    [][/\ row.status \in Terminal => row'.status \in Terminal
       /\ row.status = "completed" =>
            row'.status \in {"completed", "output_deleted"}]_vars

\* The row, the ledger and the retries together keep the contract of
\* BatchImageContract: every step is one of its steps or none.
Contract == INSTANCE BatchImageContract
    WITH reserved <- "hold" \in applied,
         charged  <- Charged,
         returned <- Refunded,
         job      <- IF row.status \in {"completed", "output_deleted"}
                       THEN "completed"
                     ELSE IF row.status \in Terminal THEN "ended"
                     ELSE IF row.named THEN "accepted" ELSE "preparing",
         lapsed   <- row.retries >= MaxRetries

ImplementsContract == Contract!Spec

\* A job that was handed to the queue stays in it until it has ended.
NotForgotten ==
    row.named /\ row.status \notin Terminal /\ pc[Submitter] = "done"
        => Queued

\* Through failing calls and dying workers every hold is charged or given back
\* in the end, unless its release was claimed before the hold, or what the
\* worker needs of the job stays away: then the job is queued for ever.
HoldIsResolved ==
    <>[](gap = "none") =>
        (("hold" \in applied /\ "release" \notin claims)
            ~> (Charged \/ Refunded))

--------------------------------------------------------------------------------
(* The inductive invariant behind the safety properties, as long as no lock  *)
(* of a live worker expires.                                                 *)

Low == row.retries < MaxRetries
Ended == {"failed", "cancelled"}
Settled == {"completed", "output_deleted"}

\* Whoever processes the job holds its lock.
LockInv == \A w \in Workers : Processing(w) => lock = w

\* Only a job whose hold is reserved is named at the provider, and Submit is
\* then done with it but for the queue.
SubmitInv ==
    /\ pc[Submitter] = "create" => row = NoRow
    /\ pc[Submitter] \in {"items", "upload", "provider", "record"}
         => "hold" \in applied
    /\ pc[Submitter] = "record" => upstream # "none"
    /\ row.status \in {"submitted", "running", "indexing", "settling"}
                        \cup Settled
         => row.named
    /\ row.named =>
         /\ row.status \notin Unsubmitted \cup {"absent"}
         /\ "hold" \in applied
         /\ upstream # "none"
         /\ pc[Submitter] \in
              {"enqueue", "queueFailed", "unqueued", "done", "crashed"}

\* Where the job at the provider may still be live.
UpstreamInv ==
    /\ row.status \in {"indexing", "settling"} \cup Settled
         => upstream # "live"
    /\ row.status = "failed" \/ ~row.named
         => \/ upstream # "live"
            \/ pc[Submitter] \in {"record", "abort", "orphaned", "crashed"}

\* What the lock lets a worker rely on between its calls.
Reliable(w) ==
    /\ pc[w] \in {"poll", "running", "succeeded", "failed", "cancelled"} =>
         row.named /\ row.status \in {"submitted", "running"} \cup Ended
    /\ pc[w] \in {"succeeded", "failed", "cancelled"} => upstream # "live"
    /\ pc[w] \in {"index", "startSettling"} => row.status = "indexing"
    /\ pc[w] \in {"settle", "capture", "mark", "recordInvalid",
                  "recordBilling", "exhaustRelease", "exhaustRecord",
                  "exhaustFail"} => row.status = "settling"
    /\ pc[w] \in {"exhaustRelease", "exhaustRecord", "exhaustFail"} => ~Low
    /\ pc[w] = "mark" => Charged
    /\ pc[w] = "process" => row.status # "settling"
    /\ pc[w] = "release" => row.status \in Ended
    /\ pc[w] = "ack" => row.status \in Terminal

WorkerInv == \A w \in Workers : Reliable(w)

\* Where the money may be, by the status of the row.
HoldInv ==
    /\ claims \cap {"hold", "capture"} \subseteq applied
    /\ Charged \/ Refunded => "hold" \in applied
    /\ Low /\ Charged => row.status \in {"settling"} \cup Settled
    /\ Low /\ Refunded =>
         \/ row.status \in Ended
         \/ ~row.named /\ pc[Submitter] \notin
              {"create", "reserve", "items", "upload", "provider", "record"}
    /\ CompletedIsCharged
    /\ \A p \in Users \cup {Recovery} :
         pc[p] = "release" => row.status \in Ended

\* An inflight job is in some structure of the queue.
QueueInv == (inflight => Queued) /\ NotForgotten

IInv ==
    /\ TypeOK /\ LockInv /\ SubmitInv /\ UpstreamInv
    /\ WorkerInv /\ HoldInv /\ QueueInv

--------------------------------------------------------------------------------
(* What needs no lock: it holds even when a live worker loses its own.      *)

\* A worker that has the provider's answer knows that the job there is over.
Answered == {"succeeded", "failed", "cancelled", "index", "startSettling",
             "settle", "capture", "mark", "recordInvalid", "recordBilling",
             "exhaustRelease", "exhaustRecord", "exhaustFail"}

Informed(w) ==
    /\ pc[w] \in {"poll", "running"} \cup Answered => row.named
    /\ pc[w] \in Answered => upstream # "live"
    /\ pc[w] = "mark" => Charged

UnlockedInv ==
    /\ TypeOK /\ SubmitInv /\ UpstreamInv
    /\ \A w \in Workers : Informed(w)
    /\ claims \cap {"hold", "capture"} \subseteq applied
    /\ CompletedIsCharged

================================================================================
