------------------------- MODULE BatchContractProofs -------------------------
(***************************************************************************)
(* BatchImageJob implements BatchImageContract, for any number of workers, *)
(* calls of the owner, retries and faults, as long as no lock of a live    *)
(* worker expires.  No action touches both the row and the ledger, so a    *)
(* step is either an update of the row (RowStep), a transaction of the     *)
(* ledger (Posting), or not seen by the contract.                          *)
(***************************************************************************)
EXTENDS BatchImageProofs

LedgerStays == UNCHANGED <<claims, applied>>

\* What an update may do to the part of the row that the contract sees.
RowStep ==
    \/ /\ row'.named = row.named /\ row'.retries = row.retries
       /\ \/ {row.status, row'.status} \cap Terminal = {}
          \/ row'.status = row.status
          \/ row.status \notin Settled /\ row'.status \in Ended
          \/ row.status = "settling" /\ row'.status = "completed"
          \/ row.status = "completed" /\ row'.status = "output_deleted"
    \/ /\ ~row.named /\ row.status \in Unsubmitted
       /\ row'.named /\ row'.status = "submitted" /\ row'.retries = row.retries
    \/ /\ row.status = "settling" /\ row'.status = "settling"
       /\ row'.named = row.named /\ row'.retries >= row.retries

\* A transaction of the ledger that is committed, refused or lost.
Posting(op) ==
    /\ row' = row
    /\ LedgerStays \/ Commits(op)

-----------------------------------------------------------------------------
(* Both are steps of the contract, or none.                                *)

Seen == Contract!Next \/ UNCHANGED Contract!vars

\* The contract reads the row and the ledger, and nothing else.
LEMMA UnseenStutters ==
  ASSUME row' = row, LedgerStays
  PROVE  UNCHANGED Contract!vars
BY DEF LedgerStays, Contract!vars, Charged, Refunded

\* An accepted job has its price on hold, a completed one is charged, and one
\* that ends otherwise is not charged, unless its retries are used up.
LEMMA RowStepIsSeen ==
  ASSUME IInv, IInv', LedgerStays, RowStep
  PROVE  Seen
<1>1. /\ row.status \in Statuses /\ row.named \in BOOLEAN
      /\ row'.status \in Statuses /\ row'.named \in BOOLEAN
      /\ row.retries \in Nat /\ row'.retries \in Nat /\ MaxRetries \in Nat
  <2>1. row \in RowType /\ row' \in RowType
    BY DEF IInv, TypeOK
  <2> QED BY <2>1, JobAssumption DEF RowType
<1>2. /\ ("hold" \in applied)' = ("hold" \in applied)
      /\ Charged' = Charged /\ Refunded' = Refunded
  BY DEF LedgerStays, Charged, Refunded
<1> USE DEF Terminal, Settled, Ended, Unsubmitted, Seen, Contract!Next,
            Contract!vars
<1>3. CASE row'.named = row.named /\ row'.retries = row.retries
  <2>1. (row.retries >= MaxRetries)' = (row.retries >= MaxRetries)
    BY <1>3
  <2>2. CASE {row.status, row'.status} \cap Terminal = {}
    BY <1>2, <1>3, <2>1, <2>2
  <2>3. CASE row'.status = row.status
    BY <1>2, <1>3, <2>1, <2>3
  <2>4. CASE row.status \notin Settled /\ row'.status \in Ended
    <3>1. ~Charged \/ row.retries >= MaxRetries
      BY <1>1, <1>2, <1>3, <2>4 DEF IInv, HoldInv, Low
    <3>2. CASE row.status \in Ended
      BY <1>2, <1>3, <2>1, <2>4, <3>2
    <3>3. CASE row.status \notin Ended
      BY <1>2, <1>3, <2>1, <2>4, <3>1, <3>3 DEF Contract!End
    <3> QED BY <3>2, <3>3
  <2>5. CASE row.status = "settling" /\ row'.status = "completed"
    <3>1. row.named /\ Charged
      BY <1>2, <2>5 DEF IInv, SubmitInv, HoldInv, CompletedIsCharged
    <3> QED BY <1>2, <1>3, <2>1, <2>5, <3>1 DEF Contract!Complete
  <2>6. CASE row.status = "completed" /\ row'.status = "output_deleted"
    BY <1>2, <1>3, <2>1, <2>6
  <2>7. CASE row.status = "settling" /\ row'.status = "settling"
    BY <2>3, <2>7
  <2> QED BY <1>3, <2>2, <2>3, <2>4, <2>5, <2>6, <2>7 DEF RowStep
<1>4. CASE /\ ~row.named /\ row.status \in Unsubmitted
           /\ row'.named /\ row'.status = "submitted"
           /\ row'.retries = row.retries
  <2>1. (row.retries >= MaxRetries)' = (row.retries >= MaxRetries)
    BY <1>4
  <2>2. "hold" \in applied
    BY <1>2, <1>4 DEF IInv, SubmitInv
  <2>3. ~Refunded \/ row.retries >= MaxRetries
    BY <1>1, <1>2, <1>4 DEF IInv, HoldInv, Low
  <2> QED BY <1>2, <1>4, <2>1, <2>2, <2>3 DEF Contract!Accept
<1>5. CASE /\ row.status = "settling" /\ row'.status = "settling"
           /\ row'.named = row.named /\ row'.retries >= row.retries
  <2>1. row.named
    BY <1>5 DEF IInv, SubmitInv
  <2>2. CASE row'.retries >= MaxRetries
    BY <1>2, <1>5, <2>1, <2>2 DEF Contract!Lapse
  <2>3. CASE ~(row'.retries >= MaxRetries)
    <3>1. ~(row.retries >= MaxRetries)
      BY <1>1, <1>5, <2>3
    <3> QED BY <1>2, <1>5, <2>3, <3>1
  <2> QED BY <2>2, <2>3
<1> QED BY <1>3, <1>4, <1>5 DEF RowStep

\* A capture charges an accepted job whose hold is still there; a release
\* returns the hold of a job that is not accepted or has ended uncharged.
LEMMA PostingIsSeen ==
  ASSUME IInv, IInv', NEW op \in Operations, Posting(op),
         op = "capture" => row.status = "settling"
  PROVE  Seen
<1>1. /\ row.status \in Statuses /\ row.named \in BOOLEAN
      /\ row.retries \in Nat /\ MaxRetries \in Nat
  BY RowFields, JobAssumption DEF IInv, TypeOK
<1>2. CASE LedgerStays \/ applied' = applied
  BY <1>2 DEF Posting, LedgerStays, Seen, Contract!vars, Charged, Refunded
<1>3. CASE applied' # applied
  <2>1. applied' = applied \cup {op} /\ row' = row
    BY <1>3, CommitFacts DEF Posting, LedgerStays, IInv, TypeOK
  <2> USE DEF Terminal, Settled, Ended, Unsubmitted, Seen, Contract!Next,
              Charged, Refunded, Operations
  <2>2. CASE op = "hold"
    BY <1>3, <2>1, <2>2 DEF Contract!Reserve
  <2>3. CASE op = "capture"
    <3>1. row.named /\ row.status = "settling"
      BY <2>3 DEF IInv, SubmitInv
    <3>2. "hold" \in applied
      BY <3>1 DEF IInv, SubmitInv
    <3>3. ~Refunded \/ row.retries >= MaxRetries
      BY <1>1, <3>1 DEF IInv, HoldInv, Low
    <3> QED BY <2>1, <2>3, <3>1, <3>2, <3>3 DEF Contract!Charge
  <2>4. CASE op = "release"
    <3>1. "hold" \in applied
      BY <2>1, <2>4 DEF IInv, HoldInv
    <3>2. \/ ~Charged /\ (row.status \in Ended \/ (~row.named /\ row.status \notin Settled))
          \/ row.retries >= MaxRetries
      BY <1>1, <2>1, <2>4 DEF IInv, SubmitInv, HoldInv, Low
    <3> QED BY <2>1, <2>4, <3>1, <3>2 DEF Contract!Return
  <2> QED BY <2>2, <2>3, <2>4
<1> QED BY <1>2, <1>3
-----------------------------------------------------------------------------
(* Every action is one or the other.                                       *)

\* What one action does to what the contract sees.
Fits ==
    \/ LedgerStays /\ RowStep
    \/ \E op \in Operations :
         Posting(op) /\ (op = "capture" => row.status = "settling")

LEMMA FitsIsSeen == ASSUME IInv, IInv', Fits PROVE Seen
BY RowStepIsSeen, PostingIsSeen DEF Fits

LEMMA UnseenFits == ASSUME row' = row, LedgerStays PROVE Fits
BY DEF Fits, RowStep

\* An update that keeps the status, the name and the retries.
LEMMA StatusKeptFits ==
  ASSUME LedgerStays, row'.status = row.status, row'.named = row.named,
         row'.retries = row.retries
  PROVE  Fits
BY DEF Fits, RowStep

\* TransitionBatchImageJobStatus, refused or not, whatever follows it.
Transitions(to) ==
    /\ LedgerStays
    /\ \/ row' = row
       \/ /\ CanTransition(row.status, to)
          /\ row' = [row EXCEPT !.status = to, !.fresh = TRUE,
                                !.settleCode = @ /\ to # "failed"]

LEMMA TransitionFits ==
  ASSUME row \in RowType,
         NEW to \in {"uploading", "running", "indexing", "settling", "failed",
                     "cancelled"},
         Transitions(to)
  PROVE  Fits
<1>1. CASE row' = row
  BY <1>1, UnseenFits DEF Transitions
<1>2. CASE /\ CanTransition(row.status, to)
           /\ row' = [row EXCEPT !.status = to, !.fresh = TRUE,
                                 !.settleCode = @ /\ to # "failed"]
  <2>1. row'.status = to /\ row'.named = row.named /\ row'.retries = row.retries
    BY <1>2 DEF RowType
  <2>2. row.status \notin Terminal
    BY <1>2 DEF CanTransition, Terminal
  <2>3. CASE to \in Ended
    BY <2>1, <2>2, <2>3 DEF RowStep, Transitions, Fits, Terminal, Settled
  <2>4. CASE to \notin Ended
    BY <2>1, <2>2, <2>4 DEF RowStep, Transitions, Fits, Terminal, Ended
  <2> QED BY <2>3, <2>4
<1> QED BY <1>1, <1>2 DEF Transitions

\* RecordBatchImageJobSubmitFailure never reaches a job that has completed:
\* Submit only marks a job failed that it never named.
LEMMA SubmitFailureFits ==
  ASSUME row \in RowType, LedgerStays, NEW markFailed \in BOOLEAN,
         markFailed => row.status \notin Settled,
         \/ row' = row
         \/ row' = [row EXCEPT !.status = IF markFailed THEN "failed" ELSE @,
                               !.fresh = TRUE, !.settleCode = FALSE]
  PROVE  Fits
<1>1. CASE row' = row
  BY <1>1, UnseenFits
<1>2. CASE row' = [row EXCEPT !.status = IF markFailed THEN "failed" ELSE @,
                              !.fresh = TRUE, !.settleCode = FALSE]
  <2>1. /\ row'.status = IF markFailed THEN "failed" ELSE row.status
        /\ row'.named = row.named /\ row'.retries = row.retries
    BY <1>2 DEF RowType
  <2> QED BY <2>1 DEF RowStep, Fits, Ended
<1> QED BY <1>1, <1>2

\* SetBatchImageJobSettlementFailed counts a failure of a job that settles.
LEMMA CountFits ==
  ASSUME row \in RowType, LedgerStays, row.status = "settling",
         row' \in {row, Counted}
  PROVE  Fits
<1>1. CASE row' = row
  BY <1>1, UnseenFits
<1>2. CASE row' = Counted
  <2>1. /\ row'.status = row.status /\ row'.named = row.named
        /\ row'.retries = IF row.retries > MaxRetries THEN row.retries
                                                      ELSE row.retries + 1
    BY <1>2 DEF Counted, RowType
  <2>2. row'.retries >= row.retries
    BY <2>1, JobAssumption DEF RowType
  <2> QED BY <2>1, <2>2 DEF RowStep, Fits
<1> QED BY <1>1, <1>2

\* A transaction of the ledger, whatever follows it.
LEMMA PostingFits ==
  ASSUME NEW op \in Operations, Posting(op),
         op = "capture" => row.status = "settling"
  PROVE  Fits
BY DEF Fits

-----------------------------------------------------------------------------
(* Submit, the owner's calls and the recovery *)

LEMMA SubmitFits == ASSUME IInv, SubmitStep PROVE Fits
<1> USE DEF LedgerStays, ledgerVars, jobVars
<1>1. row \in RowType
  BY DEF IInv, TypeOK
<1>2. CASE Create
  <2>1. row = NoRow
    BY <1>2 DEF Create, IInv, SubmitInv
  <2>2. /\ row.status = "absent" /\ row'.status = "created"
        /\ row'.named = row.named /\ row'.retries = row.retries
    BY <1>2, <2>1 DEF Create, NoRow
  <2> QED BY <1>2, <2>2 DEF Create, RowStep, Fits, Terminal
<1>3. CASE ReserveHold \/ SubmitRelease
  <2>1. Posting("hold") \/ Posting("release")
    BY <1>3 DEF ReserveHold, SubmitRelease, LedgerCall, Posting, Refuses
  <2> QED BY <2>1, PostingFits DEF Operations
<1>4. CASE CreateItems \/ SubmitUpstream \/ AbortOrphan
  BY <1>4, UnseenFits DEF CreateItems, SubmitUpstream, AbortOrphan
<1>5. CASE StartUpload
  BY <1>1, <1>5, TransitionFits DEF StartUpload, Transition, RowCall, Transitions
<1>6. CASE RecordSubmitted
  <2>1. CASE row' = row
    BY <1>6, <2>1, UnseenFits DEF RecordSubmitted, RowCall
  <2>2. CASE row' # row
    <3>1. /\ CanTransition(row.status, "submitted")
          /\ row' = [row EXCEPT !.status = "submitted", !.named = TRUE,
                                !.fresh = TRUE]
      BY <1>6, <2>2 DEF RecordSubmitted, RowCall
    <3>2. row.status \in Unsubmitted
      BY <1>1, <3>1, CanFacts, RowFields
    <3>3. ~row.named
      BY <1>1, <3>2, RowFields DEF IInv, SubmitInv
    <3>4. row'.status = "submitted" /\ row'.named /\ row'.retries = row.retries
      BY <1>1, <3>1 DEF RowType
    <3> QED BY <1>6, <3>2, <3>3, <3>4 DEF RecordSubmitted, RowCall, RowStep, Fits
  <2> QED BY <2>1, <2>2
<1>7. CASE EnqueueSubmitted \/ EnqueueRetry(Submitter)
  BY <1>7, UnseenFits DEF EnqueueSubmitted, EnqueueRetry, EnqueueCall
<1>8. CASE RecordQueueFailed
  BY <1>1, <1>8, SubmitFailureFits DEF RecordQueueFailed, RecordSubmitFailure,
     RowCall
<1>9. CASE RecordReleaseFailed \/ SubmitFail
  <2>1. row.status \notin Settled
    BY <1>9 DEF RecordReleaseFailed, SubmitFail, IInv, SubmitInv
  <2> QED BY <1>1, <1>9, <2>1, SubmitFailureFits
          DEF RecordReleaseFailed, SubmitFail, RecordSubmitFailure, RowCall
<1>10. CASE Hide
  <2>1. row' = row \/ row' = [row EXCEPT !.hidden = TRUE]
    BY <1>10 DEF Hide, RowCall
  <2>2. row'.status = row.status /\ row'.named = row.named
          /\ row'.retries = row.retries
    BY <1>1, <2>1 DEF RowType
  <2> QED BY <1>10, <2>2, StatusKeptFits DEF Hide, RowCall
<1> QED BY <1>2, <1>3, <1>4, <1>5, <1>6, <1>7, <1>8, <1>9, <1>10 DEF SubmitStep

LEMMA UserFits == ASSUME IInv, NEW u \in Users, UserStep(u) PROVE Fits
<1> USE DEF LedgerStays, ledgerVars, jobVars
<1>1. row \in RowType
  BY DEF IInv, TypeOK
<1>2. CASE CancelRead(u) \/ SubmitAgain(u) \/ CancelUpstream(u)
  BY <1>2, UnseenFits DEF CancelRead, SubmitAgain, CancelUpstream, Move
<1>3. CASE CancelTransition(u)
  BY <1>1, <1>3, TransitionFits DEF CancelTransition, Transition, RowCall,
     Transitions
<1>4. CASE CancelRelease(u)
  <2>1. Posting("release")
    BY <1>4 DEF CancelRelease, LedgerCall, Posting, Refuses
  <2> QED BY <2>1, PostingFits DEF Operations
<1>5. CASE UserEnqueue(u) \/ EnqueueAgain(u) \/ EnqueueRetry(u)
  BY <1>5, UnseenFits DEF UserEnqueue, EnqueueAgain, EnqueueRetry, EnqueueCall
<1>6. CASE RecordAgain(u)
  BY <1>1, <1>6, SubmitFailureFits DEF RecordAgain, RecordSubmitFailure, RowCall
<1>7. CASE DeleteRecord(u)
  <2>1. row'.status = row.status /\ row'.named = row.named
          /\ row'.retries = row.retries
    BY <1>1, <1>7 DEF DeleteRecord, RowType
  <2> QED BY <1>7, <2>1, StatusKeptFits DEF DeleteRecord
<1> QED BY <1>2, <1>3, <1>4, <1>5, <1>6, <1>7 DEF UserStep

LEMMA RecoveryFits == ASSUME IInv, RecoveryStep \/ Age PROVE Fits
<1> USE DEF LedgerStays, ledgerVars, jobVars
<1>1. row \in RowType
  BY DEF IInv, TypeOK
<1>2. CASE RecoverStale
  <2>1. row.status \in Unsubmitted /\ row'.status = "failed"
          /\ row'.named = row.named /\ row'.retries = row.retries
    BY <1>1, <1>2 DEF RecoverStale, StaleUnsubmitted, RowType
  <2> QED BY <1>2, <2>1 DEF RecoverStale, RowStep, Fits, Unsubmitted, Settled,
             Ended
<1>3. CASE RecoveryRelease
  <2>1. Posting("release")
    BY <1>3 DEF RecoveryRelease, LedgerCall, Posting, Refuses
  <2> QED BY <2>1, PostingFits DEF Operations
<1>4. CASE EnqueueRetry(Recovery)
  BY <1>4, UnseenFits DEF EnqueueRetry, EnqueueCall
<1>5. CASE Age
  <2>1. row'.status = row.status /\ row'.named = row.named
          /\ row'.retries = row.retries
    BY <1>1, <1>5 DEF Age, RowType
  <2> QED BY <1>5, <2>1, StatusKeptFits DEF Age
<1> QED BY <1>2, <1>3, <1>4, <1>5 DEF RecoveryStep

-----------------------------------------------------------------------------
(* The workers, and what runs beside them *)

LEMMA ProviderFits == ASSUME IInv, NEW w \in Workers, ProviderStep(w) PROVE Fits
<1> USE DEF LedgerStays, ledgerVars, jobVars
<1>1. row \in RowType
  BY DEF IInv, TypeOK
<1>2. CASE ReadProcess(w) \/ ReadFails(w) \/ Poll(w)
  BY <1>2, UnseenFits DEF ReadProcess, ReadFails, Poll, Move
<1>3. CASE ApplyAnswer(w)
  <2>1. \E to \in {"running", "indexing", "failed", "cancelled"} :
          Transitions(to)
    BY <1>3 DEF ApplyAnswer, Transition, RowCall, Transitions
  <2> QED BY <1>1, <2>1, TransitionFits
<1>4. CASE IndexItems(w)
  <2>1. row'.status = row.status /\ row'.named = row.named
          /\ row'.retries = row.retries
    BY <1>1, <1>4 DEF IndexItems, RowType
  <2> QED BY <1>4, <2>1, StatusKeptFits DEF IndexItems
<1>5. CASE IndexFails(w)
  BY <1>1, <1>5, TransitionFits DEF IndexFails, Transition, RowCall, Transitions
<1>6. CASE StartSettling(w)
  BY <1>1, <1>6, TransitionFits DEF StartSettling, Transition, RowCall,
     Transitions
<1>7. CASE WorkerRelease(w)
  <2>1. Posting("release")
    BY <1>7 DEF WorkerRelease, LedgerCall, Posting, Refuses
  <2> QED BY <2>1, PostingFits DEF Operations
<1> QED BY <1>2, <1>3, <1>4, <1>5, <1>6, <1>7 DEF ProviderStep

\* The worker that settles holds the lock, so the status is still the one it
\* read.
LEMMA SettleFits == ASSUME IInv, NEW w \in Workers, SettleStep(w) PROVE Fits
<1> USE DEF LedgerStays, ledgerVars, jobVars
<1>1. row \in RowType
  BY DEF IInv, TypeOK
<1>2. pc[w] \in {"capture", "mark", "recordInvalid", "recordBilling",
                 "exhaustRelease", "exhaustRecord", "exhaustFail"}
        => row.status = "settling"
  BY DEF IInv, WorkerInv, Reliable
<1>3. CASE ReadSettle(w) \/ Recheck(w)
  BY <1>3, UnseenFits DEF ReadSettle, Recheck, Move
<1>4. CASE Capture(w) \/ ExhaustRelease(w)
  <2>1. Posting("capture") \/ Posting("release")
    BY <1>4 DEF Capture, ExhaustRelease, LedgerCall, Posting, Refuses
  <2>2. row.status = "settling"
    BY <1>2, <1>4 DEF Capture, ExhaustRelease
  <2> QED BY <2>1, <2>2, PostingFits DEF Operations
<1>5. CASE MarkSettled(w)
  <2>1. CASE row' = row
    BY <1>5, <2>1, UnseenFits DEF MarkSettled, RowCall
  <2>2. CASE row' # row
    <3>1. row.status = "settling"
            /\ row' = [row EXCEPT !.status = "completed", !.fresh = TRUE]
      BY <1>5, <2>2 DEF MarkSettled, RowCall
    <3>2. row'.status = "completed" /\ row'.named = row.named
            /\ row'.retries = row.retries
      BY <1>1, <3>1 DEF RowType
    <3> QED BY <1>5, <3>1, <3>2 DEF MarkSettled, RowCall, RowStep, Fits
  <2> QED BY <2>1, <2>2
<1>6. CASE RecordFailure(w) \/ ExhaustRecord(w)
  <2>1. row.status = "settling"
    BY <1>2, <1>6 DEF RecordFailure, ExhaustRecord
  <2>2. row' \in {row, Counted}
    BY <1>6 DEF RecordFailure, ExhaustRecord, CountCall
  <2> QED BY <1>1, <1>6, <2>1, <2>2, CountFits
          DEF RecordFailure, ExhaustRecord, CountCall
<1>7. CASE ExhaustFail(w)
  BY <1>1, <1>7, TransitionFits DEF ExhaustFail, Transition, RowCall, Transitions
<1> QED BY <1>3, <1>4, <1>5, <1>6, <1>7 DEF SettleStep

LEMMA EnvironmentFits ==
  ASSUME IInv,
         \/ DelayedMover \/ StaleActive \/ LockExpires \/ UpstreamEnds
         \/ GapOpens \/ GapCloses \/ CleanupOutput
         \/ (\E p \in Procs : Crash(p))
         \/ \E w \in Workers : ReserveJob(w) \/ LockJob(w) \/ ReadPipeline(w)
                                 \/ Return(w) \/ Unlock(w)
  PROVE  Fits
<1> USE DEF LedgerStays, ledgerVars, jobVars
<1>1. CASE CleanupOutput
  <2>1. row'.status = "output_deleted" /\ row'.named = row.named
          /\ row'.retries = row.retries
    BY <1>1 DEF CleanupOutput, RowType, IInv, TypeOK
  <2> QED BY <1>1, <2>1 DEF CleanupOutput, RowStep, Fits
<1>2. CASE \/ DelayedMover \/ StaleActive \/ LockExpires \/ UpstreamEnds
           \/ GapOpens \/ GapCloses
  BY <1>2, UnseenFits DEF DelayedMover, StaleActive, LockExpires, UpstreamEnds,
     GapOpens, GapCloses
<1>3. CASE \E p \in Procs : Crash(p)
  BY <1>3, UnseenFits DEF Crash
<1>4. CASE \E w \in Workers : ReserveJob(w) \/ LockJob(w) \/ ReadPipeline(w)
                                \/ Return(w) \/ Unlock(w)
  BY <1>4, UnseenFits DEF ReserveJob, LockJob, ReadPipeline, Move, Return,
     Unlock
<1> QED BY <1>1, <1>2, <1>3, <1>4

\* Cancel, Submit, its recovery, workers and their crashes together keep the
\* contract with the job's owner: charged only for an accepted job, completed
\* only when charged, given back only otherwise, and ended for good.
THEOREM BatchContractImplemented ==
  ASSUME "expire" \notin Faults
  PROVE  Spec => ImplementsContract
<1>1. Init => Contract!Init
  <2> SUFFICES ASSUME Init PROVE Contract!Init
    OBVIOUS
  <2>1. row.status = "absent" /\ ~row.named /\ row.retries = 0 /\ applied = {}
    BY DEF Init, NoRow, LedgerInit
  <2> QED BY <2>1, JobAssumption DEF Contract!Init, Charged, Refunded, Terminal
<1>2. IInv /\ IInv' /\ [Next]_vars => [Contract!Next]_(Contract!vars)
  <2> SUFFICES ASSUME IInv, IInv', [Next]_vars PROVE Seen
    BY DEF Seen
  <2>1. CASE UNCHANGED vars
    BY <2>1, UnseenStutters DEF vars, LedgerStays, Seen
  <2>2. CASE Next
    <3>1. Fits \/ Rest
      BY <2>2, SubmitFits, UserFits, RecoveryFits, ProviderFits, SettleFits,
         EnvironmentFits DEF Next, WorkerStep
    <3> QED BY <2>1, <3>1, FitsIsSeen DEF Rest
  <2> QED BY <2>1, <2>2
<1> QED
  BY <1>1, <1>2, Invariant, PTL DEF Spec, ImplementsContract, Contract!Spec
===============================================================================
