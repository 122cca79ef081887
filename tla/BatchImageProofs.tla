--------------------------- MODULE BatchImageProofs ---------------------------
(***************************************************************************)
(* Proofs about BatchImageJob for any number of workers, calls of the      *)
(* owner, retries and faults.  As long as no lock of a live worker expires *)
(* (IInv) the argument has two halves: whatever happens beside a worker    *)
(* leaves what its lock protects alone (Outside, OutsideKeeps); and a      *)
(* worker that processes the job is the only one that does (OthersKeep),   *)
(* so each of its steps starts from the status it read.  The second part   *)
(* (UnlockedInv) asks nothing of the locks.                                *)
(***************************************************************************)
EXTENDS BatchImageJob, FiniteSetTheorems, TLAPS

-----------------------------------------------------------------------------
(* The helpers the actions are made of.                                    *)

LEMMA GotoFacts ==
  ASSUME pc \in [Procs -> PCs], NEW p \in Procs, NEW l \in PCs, Goto(p, l)
  PROVE  /\ pc' \in [Procs -> PCs]
         /\ pc'[p] = l
         /\ \A q \in Procs \ {p} : pc'[q] = pc[q]
BY DEF Goto

LEMMA FaultFacts ==
  ASSUME faults \in 0..MaxFaults, Fine \/ (\E k \in Faults : Fault(k))
  PROVE  faults' \in 0..MaxFaults
BY JobAssumption DEF Fine, Fault

\* What a committed transaction of the ledger leaves behind.
LEMMA CommitFacts ==
  ASSUME LedgerType, NEW op \in Operations, Commits(op)
  PROVE  /\ LedgerType'
         /\ claims' = claims \cup {op}
         /\ applied \subseteq applied' /\ applied' \subseteq applied \cup {op}
         /\ op # "release" => (op \in applied' \/ op \in claims)
         /\ "release" \in applied' => "release" \in applied \/ "hold" \in claims
<1>1. CASE Repeats(op)
  BY <1>1 DEF Repeats, LedgerType, ledgerVars
<1>2. CASE op = "release" /\ ReleasesNothing
  BY <1>2 DEF ReleasesNothing, LedgerType, Operations
<1>3. CASE Moves(op)
  BY <1>3 DEF Moves, Covered, LedgerType, Operations
<1> QED BY <1>1, <1>2, <1>3 DEF Commits

\* The status, the name and the retries of the row after an UPDATE of it.
Becomes(s) ==
    /\ row' \in RowType
    /\ row'.status = s
    /\ row'.named = row.named
    /\ row'.retries = row.retries

LEMMA UpdateFacts ==
  ASSUME row \in RowType, NEW s \in Statuses, NEW f \in BOOLEAN,
         NEW c \in BOOLEAN, NEW h \in BOOLEAN,
         row' = [row EXCEPT !.status = s, !.fresh = f, !.settleCode = c,
                            !.hidden = h]
  PROVE  Becomes(s)
<1>1. row' \in RowType
  BY DEF RowType
<1>2. row'.status = s
  BY DEF RowType
<1>3. row'.named = row.named
  BY DEF RowType
<1>4. row'.retries = row.retries
  BY DEF RowType
<1> QED BY <1>1, <1>2, <1>3, <1>4 DEF Becomes

LEMMA TransitionRow ==
  ASSUME row \in RowType, NEW s \in Statuses,
         row' = [row EXCEPT !.status = s, !.fresh = TRUE,
                            !.settleCode = @ /\ s # "failed"]
  PROVE  Becomes(s)
<1>1. row' \in RowType
  <2>1. (row.settleCode /\ s # "failed") \in BOOLEAN
    OBVIOUS
  <2> QED BY <2>1 DEF RowType
<1>2. row'.status = s
  BY DEF RowType
<1>3. row'.named = row.named
  BY DEF RowType
<1>4. row'.retries = row.retries
  BY DEF RowType
<1> QED BY <1>1, <1>2, <1>3, <1>4 DEF Becomes

LEMMA RowFields ==
  ASSUME row \in RowType
  PROVE  /\ row.status \in Statuses /\ row.named \in BOOLEAN
         /\ row.retries \in 0..(MaxRetries + 1)
BY DEF RowType

LEMMA CanFacts ==
  ASSUME NEW from \in Statuses
  PROVE  /\ CanTransition(from, "uploading") => from = "created"
         /\ CanTransition(from, "submitted") => from \in Unsubmitted
         /\ CanTransition(from, "cancelled") =>
              from \in Unsubmitted \cup {"submitted", "running"}
         /\ CanTransition(from, "running") => from \in {"submitted", "running"}
         /\ CanTransition(from, "indexing") => from \in {"submitted", "running"}
         /\ CanTransition(from, "settling") => from = "indexing"
         /\ CanTransition(from, "failed") =>
              from \notin Terminal \cup {"absent"}
<1> USE DEF CanTransition, Statuses, Terminal, Unsubmitted
<1>1. CanTransition(from, "uploading") => from = "created"
  OBVIOUS
<1>2. CanTransition(from, "submitted") => from \in Unsubmitted
  OBVIOUS
<1>3. CanTransition(from, "cancelled") =>
        from \in Unsubmitted \cup {"submitted", "running"}
  OBVIOUS
<1>4. CanTransition(from, "running") => from \in {"submitted", "running"}
  OBVIOUS
<1>5. CanTransition(from, "indexing") => from \in {"submitted", "running"}
  OBVIOUS
<1>6. CanTransition(from, "settling") => from = "indexing"
  OBVIOUS
<1>7. CanTransition(from, "failed") => from \notin Terminal \cup {"absent"}
  OBVIOUS
<1> QED BY <1>1, <1>2, <1>3, <1>4, <1>5, <1>6, <1>7

-----------------------------------------------------------------------------
(* What a call does, whatever follows its success and its error.  Rows and *)
(* ledgers are typed again here, once for all the calls.                   *)

\* A transaction of the ledger: with its effect, or without any.
Posts(op) ==
    /\ claims' = claims \cup {op}
    /\ applied \subseteq applied' /\ applied' \subseteq applied \cup {op}
    /\ op # "release" => (op \in applied' \/ op \in claims)
    /\ "release" \in applied' => "release" \in applied \/ "hold" \in claims

LEMMA LedgerCallFacts ==
  ASSUME LedgerType, faults \in 0..MaxFaults,
         NEW op \in Operations, NEW p \in Procs, NEW l \in PCs, NEW m \in PCs,
         LedgerCall(op, Goto(p, l), Goto(p, m))
  PROVE  /\ UNCHANGED <<row, upstream, gap, queueVars>>
         /\ faults' \in 0..MaxFaults
         /\ LedgerType'
         /\ \/ Posts(op) /\ (Goto(p, l) \/ Goto(p, m))
            \/ UNCHANGED <<claims, applied>> /\ Goto(p, m)
<1>1. UNCHANGED <<row, upstream, gap, queueVars>>
  BY DEF LedgerCall, jobVars
<1>2. faults' \in 0..MaxFaults
  BY FaultFacts DEF LedgerCall, Fine, Fault
<1>3. \/ Commits(op) /\ (Goto(p, l) \/ Goto(p, m))
      \/ UNCHANGED <<claims, applied>> /\ Goto(p, m)
  BY DEF LedgerCall, Refuses, ledgerVars
<1>4. CASE Commits(op)
  BY <1>1, <1>2, <1>3, <1>4, CommitFacts DEF Posts
<1>5. CASE UNCHANGED <<claims, applied>> /\ Goto(p, m)
  BY <1>1, <1>2, <1>5 DEF LedgerType
<1> QED BY <1>3, <1>4, <1>5

LEMMA TransitionFacts ==
  ASSUME row \in RowType, faults \in 0..MaxFaults, NEW to \in Statuses,
         NEW p \in Procs, NEW l \in PCs, NEW m \in PCs, NEW n \in PCs,
         Transition(to, Goto(p, l), Goto(p, m), Goto(p, n))
  PROVE  /\ UNCHANGED <<claims, applied, upstream, gap, queueVars>>
         /\ faults' \in 0..MaxFaults
         /\ row' \in RowType
         /\ \/ CanTransition(row.status, to) /\ Becomes(to) /\ Goto(p, l)
            \/ UNCHANGED row /\ (Goto(p, m) \/ Goto(p, n))
<1>1. UNCHANGED <<claims, applied, upstream, gap, queueVars>>
  BY DEF Transition, RowCall, ledgerVars
<1>2. faults' \in 0..MaxFaults
  BY FaultFacts DEF Transition, RowCall, Fine, Fault
<1>3. \/ /\ CanTransition(row.status, to) /\ Goto(p, l)
         /\ row' = [row EXCEPT !.status = to, !.fresh = TRUE,
                               !.settleCode = @ /\ to # "failed"]
      \/ UNCHANGED row /\ (Goto(p, m) \/ Goto(p, n))
  BY DEF Transition, RowCall
<1>4. CASE /\ CanTransition(row.status, to) /\ Goto(p, l)
           /\ row' = [row EXCEPT !.status = to, !.fresh = TRUE,
                                 !.settleCode = @ /\ to # "failed"]
  <2>1. Becomes(to)
    BY ONLY row \in RowType, to \in Statuses, <1>4, TransitionRow
  <2> QED BY <1>1, <1>2, <1>4, <2>1 DEF Becomes
<1>5. CASE UNCHANGED row /\ (Goto(p, m) \/ Goto(p, n))
  BY <1>1, <1>2, <1>5
<1> QED BY <1>3, <1>4, <1>5

LEMMA EnqueueCallFacts ==
  ASSUME QueueType, faults \in 0..MaxFaults, NEW p \in Procs, NEW l \in PCs,
         NEW m \in PCs, EnqueueCall(Goto(p, l), Goto(p, m))
  PROVE  /\ UNCHANGED <<claims, applied, row, upstream, gap, delayed, active, lock>>
         /\ faults' \in 0..MaxFaults
         /\ QueueType'
         /\ \/ Enqueue /\ Goto(p, l)
            \/ UNCHANGED queueVars /\ Goto(p, m)
<1>1. UNCHANGED <<claims, applied, row, upstream, gap, delayed, active, lock>>
  BY DEF EnqueueCall, Enqueue, queueVars, ledgerVars, jobVars
<1>2. faults' \in 0..MaxFaults
  BY FaultFacts DEF EnqueueCall, Fine, Fault
<1>3. QueueType'
  <2>1. CASE Enqueue
    BY <2>1 DEF Enqueue, QueueType
  <2>2. CASE UNCHANGED queueVars
    BY <2>2 DEF queueVars, QueueType
  <2> QED BY <2>1, <2>2 DEF EnqueueCall
<1>4. \/ Enqueue /\ Goto(p, l)
      \/ UNCHANGED queueVars /\ Goto(p, m)
  BY DEF EnqueueCall
<1> QED BY <1>1, <1>2, <1>3, <1>4

-----------------------------------------------------------------------------
(* The two halves of the argument.                                         *)

\* What a step beside the workers may do to what they rely on.
StatusOutside ==
    \/ row'.status = row.status
    \/ row.status \in Unsubmitted \cup {"absent"} /\ row'.status # "settling"
    \/ row.status \in {"submitted", "running"} /\ row'.status = "cancelled"
    \/ row.status = "cancelled" /\ row'.status = "failed"
    \/ row.status = "completed" /\ row'.status = "output_deleted"

Outside ==
    /\ lock' = lock
    /\ \A w \in Workers : pc'[w] = pc[w]
    /\ StatusOutside
    /\ row.named => row'.named
    /\ row'.retries = row.retries
    /\ applied \subseteq applied'
    /\ row.named /\ upstream # "live" => upstream' # "live"

LEMMA OutsideKeeps ==
  ASSUME TypeOK, LockInv, SubmitInv, WorkerInv, Outside
  PROVE  LockInv' /\ WorkerInv'
<1>1. LockInv'
  BY DEF Outside, LockInv, Processing
<1>2. ASSUME NEW w \in Workers PROVE Reliable(w)'
  <2>1. Reliable(w) /\ pc'[w] = pc[w]
    BY DEF WorkerInv, Outside
  <2>2. row.status \in Statuses
    BY RowFields DEF TypeOK
  <2>3. pc[w] \in {"poll", "running", "succeeded", "failed", "cancelled"} =>
          row'.named /\ row'.status \in {"submitted", "running"} \cup Ended
    BY <2>1, <2>2 DEF Reliable, Outside, StatusOutside, Ended, Statuses,
       Terminal, Unsubmitted
  <2>4. pc[w] \in {"succeeded", "failed", "cancelled"} => upstream' # "live"
    BY <2>1 DEF Reliable, Outside
  <2>5. pc[w] \in {"index", "startSettling"} => row'.status = "indexing"
    BY <2>1 DEF Reliable, Outside, StatusOutside, Unsubmitted
  <2>6. pc[w] \in {"settle", "capture", "mark", "recordInvalid",
                   "recordBilling", "exhaustRelease", "exhaustRecord",
                   "exhaustFail"} => row'.status = "settling"
    BY <2>1 DEF Reliable, Outside, StatusOutside, Unsubmitted
  <2>7. /\ pc[w] \in {"exhaustRelease", "exhaustRecord", "exhaustFail"} => ~Low'
        /\ pc[w] = "mark" => Charged'
    BY <2>1 DEF Reliable, Outside, Low, Charged
  <2>8. pc[w] = "process" => row'.status # "settling"
    BY <2>1 DEF Reliable, Outside, StatusOutside
  <2>9. /\ pc[w] = "release" => row'.status \in Ended
        /\ pc[w] = "ack" => row'.status \in Terminal
    BY <2>1 DEF Reliable, Outside, StatusOutside, Ended, Terminal, Unsubmitted
  <2> QED BY <2>1, <2>3, <2>4, <2>5, <2>6, <2>7, <2>8, <2>9 DEF Reliable
<1> QED BY <1>1, <1>2 DEF WorkerInv

\* A worker that processes the job leaves the others nothing to rely on but
\* that an ended job stays ended.
LEMMA OthersKeep ==
  ASSUME TypeOK, LockInv, WorkerInv, NEW w \in Workers, Processing(w),
         \A q \in Procs \ {w} : pc'[q] = pc[q],
         lock' = lock,
         row.status \in Terminal => row'.status \in Terminal,
         Reliable(w)'
  PROVE  LockInv' /\ WorkerInv'
<1>1. lock = w
  BY DEF LockInv
<1>2. ASSUME NEW v \in Workers, v # w
      PROVE  ~Processing(v) /\ pc'[v] = pc[v] /\ Reliable(v)
  BY <1>1, <1>2 DEF LockInv, WorkerInv, Procs
<1>3. ASSUME NEW v \in Workers, v # w PROVE Reliable(v)'
  BY <1>2, <1>3 DEF Reliable, Processing
<1>4. LockInv'
  BY <1>1, <1>2 DEF LockInv, Processing
<1> QED BY <1>3, <1>4 DEF WorkerInv

\* A step that changes neither the row, nor the ledger, nor the job at the
\* provider, nor where Submit, the owner and the recovery are.
LEMMA QuietStep ==
  ASSUME SubmitInv, UpstreamInv, HoldInv,
         UNCHANGED <<claims, applied, row, upstream, gap>>,
         \A q \in Procs \ Workers : pc'[q] = pc[q]
  PROVE  SubmitInv' /\ UpstreamInv' /\ HoldInv'
<1>1. /\ pc'[Submitter] = pc[Submitter]
      /\ \A p \in Users \cup {Recovery} : pc'[p] = pc[p]
  BY ProcsAssumption DEF Procs, Submitter, Recovery
<1>2. SubmitInv'
  BY <1>1 DEF SubmitInv
<1>3. UpstreamInv'
  BY <1>1 DEF UpstreamInv
<1>4. HoldInv'
  BY <1>1 DEF HoldInv, Charged, Refunded, Low, CompletedIsCharged
<1> QED BY <1>2, <1>3, <1>4

\* The queue is only disturbed by its own operations, the name of the job and
\* Submit.
LEMMA QueueKeeps ==
  ASSUME QueueInv, inflight' => inflight \/ Queued', Queued => Queued',
         row'.named => row.named \/ pc'[Submitter] # "done",
         row.status \in Terminal => row'.status \in Terminal,
         pc'[Submitter] = "done" => pc[Submitter] = "done" \/ ~row'.named
  PROVE  QueueInv'
BY DEF QueueInv, NotForgotten

\* What every step is shown to do: an ended job stays as it ended, and the
\* invariant holds again.
EndStays ==
    /\ row.status \in Terminal => row'.status \in Terminal
    /\ row.status = "completed" =>
         row'.status \in {"completed", "output_deleted"}

Preserves == IInv' /\ EndStays

LEMMA SubmitterIsOther ==
  /\ Submitter \in Procs /\ Recovery \in Procs /\ Submitter # Recovery
  /\ \A w \in Workers : w \in Procs /\ w # Submitter /\ w # Recovery
  /\ \A u \in Users : u \in Procs /\ u # Submitter /\ u # Recovery
  /\ \A u \in Users, w \in Workers : u # w
BY ProcsAssumption DEF Procs, Submitter, Recovery

-----------------------------------------------------------------------------
(* BatchImagePublicService.Submit.                                         *)

\* Submit is the only process that moves, and it is beside the workers.
LEMMA SubmitOutside ==
  ASSUME TypeOK, LockInv, SubmitInv, WorkerInv,
         \A q \in Procs \ {Submitter} : pc'[q] = pc[q],
         lock' = lock, StatusOutside, row.named => row'.named,
         row'.retries = row.retries, applied \subseteq applied',
         row.named /\ upstream # "live" => upstream' # "live"
  PROVE  LockInv' /\ WorkerInv'
<1>1. \A w \in Workers : pc'[w] = pc[w]
  BY SubmitterIsOther
<1>2. Outside
  BY <1>1 DEF Outside
<1> QED BY <1>2, OutsideKeeps

LEMMA CreateStep ==
  ASSUME IInv, Create
  PROVE  Preserves
<1> USE DEF IInv
<1>1. /\ pc[Submitter] = "create" /\ row = NoRow
      /\ UNCHANGED <<claims, applied, queueVars, upstream, gap, faults>>
  BY DEF Create, SubmitInv, ledgerVars
<1>2. /\ row' \in RowType /\ row'.status = "created" /\ ~row'.named
      /\ row'.retries = 0
  <2>1. row' = [status |-> "created", named |-> FALSE, fresh |-> TRUE,
                payable |-> FALSE, retries |-> 0, settleCode |-> FALSE,
                hidden |-> FALSE]
    BY DEF Create, NoRow
  <2>2. 0 \in 0..(MaxRetries + 1)
    BY JobAssumption
  <2> QED BY ONLY <2>1, <2>2 DEF RowType, Statuses
<1>3. row.status = "absent" /\ ~row.named /\ row.retries = 0
  BY <1>1 DEF NoRow
<1>4. /\ pc' \in [Procs -> PCs] /\ pc'[Submitter] = "reserve"
      /\ \A q \in Procs \ {Submitter} : pc'[q] = pc[q]
  BY GotoFacts, SubmitterIsOther DEF Create, TypeOK, PCs
<1>5. TypeOK'
  BY <1>1, <1>2, <1>4 DEF TypeOK, LedgerType, QueueType, queueVars
<1>6. LockInv' /\ WorkerInv'
  BY <1>1, <1>2, <1>3, <1>4, SubmitOutside DEF StatusOutside, queueVars
<1>7. SubmitInv'
  BY <1>2, <1>4 DEF SubmitInv, Settled
<1>8. UpstreamInv'
  BY <1>1, <1>2, <1>3, <1>4 DEF UpstreamInv, Settled
<1>9. HoldInv'
  <2>1. ~Charged /\ ~Refunded
    BY <1>1, <1>3, JobAssumption
    DEF HoldInv, SubmitInv, Low, Ended, Settled, CompletedIsCharged
  <2>2. \A p \in Users \cup {Recovery} : pc'[p] = "release" => FALSE
    BY <1>3, <1>4, SubmitterIsOther DEF HoldInv, Ended
  <2> QED BY <1>1, <1>2, <2>1, <2>2
          DEF HoldInv, Charged, Refunded, CompletedIsCharged
<1>10. QueueInv'
  BY <1>1, <1>2, <1>3, <1>4, QueueKeeps DEF Queued, queueVars, Terminal
<1>11. EndStays
  BY <1>2, <1>3 DEF EndStays, Terminal
<1> QED BY <1>5, <1>6, <1>7, <1>8, <1>9, <1>10, <1>11 DEF Preserves

\* Submit's calls of the ledger.
LEMMA SubmitLedger ==
  ASSUME IInv, NEW op \in Operations, NEW l \in PCs, NEW m \in PCs,
         LedgerCall(op, Goto(Submitter, l), Goto(Submitter, m)),
         op # "capture",
         pc[Submitter] \notin
           {"create", "enqueue", "queueFailed", "unqueued", "done", "crashed",
            "provider", "record", "abort", "orphaned"},
         {l, m} \cap {"create", "reserve", "upload", "provider", "record"} = {},
         m # "items",
         "items" \in {l, m} => op = "hold",
         op = "hold" => pc[Submitter] = "reserve",
         op = "release" => pc[Submitter] \notin {"reserve", "items", "upload"}
  PROVE  Preserves
<1> USE DEF IInv
<1>1. /\ UNCHANGED <<row, upstream, gap, queueVars>>
      /\ faults' \in 0..MaxFaults /\ LedgerType'
      /\ \/ Posts(op) /\ (Goto(Submitter, l) \/ Goto(Submitter, m))
         \/ UNCHANGED <<claims, applied>> /\ Goto(Submitter, m)
  BY LedgerCallFacts, SubmitterIsOther DEF TypeOK
<1>2. PICK k \in {l, m} :
        /\ pc' \in [Procs -> PCs] /\ pc'[Submitter] = k
        /\ \A q \in Procs \ {Submitter} : pc'[q] = pc[q]
        /\ k # m => Posts(op)
  BY <1>1, GotoFacts, SubmitterIsOther DEF TypeOK
<1>3. ~row.named
  BY DEF SubmitInv
<1>4. TypeOK'
  BY <1>1, <1>2 DEF TypeOK, QueueType, queueVars
<1>5. applied \subseteq applied' /\ (Charged' => Charged)
  BY <1>1 DEF Posts, Charged, Operations
<1>6. LockInv' /\ WorkerInv'
  BY <1>1, <1>2, <1>5, SubmitOutside DEF StatusOutside, queueVars
<1>7. SubmitInv'
  <2>1. pc'[Submitter] = "items" => "hold" \in applied'
    BY <1>2 DEF Posts, HoldInv
  <2> QED BY <1>1, <1>2, <1>3, <2>1 DEF SubmitInv, Settled
<1>8. UpstreamInv'
  BY <1>1, <1>2, <1>3 DEF UpstreamInv, Settled
<1>9. HoldInv'
  <2>1. claims' \cap {"hold", "capture"} \subseteq applied'
    BY <1>1 DEF Posts, HoldInv, Operations
  <2>2. Charged' \/ Refunded' => "hold" \in applied'
    BY <1>1, <1>5 DEF Posts, HoldInv, Charged, Refunded
  <2>3. Low' /\ Charged' => row'.status \in {"settling"} \cup Settled
    BY <1>1, <1>5 DEF HoldInv, Low
  <2>4. Low' /\ Refunded' =>
          \/ row'.status \in Ended
          \/ /\ ~row'.named
             /\ pc'[Submitter] \notin
                  {"create", "reserve", "items", "upload", "provider", "record"}
    <3>1. CASE op = "hold"
      BY <1>1, <1>2, <3>1 DEF HoldInv, Low, Refunded, Posts
    <3>2. CASE op = "release"
      BY <1>1, <1>2, <1>3, <3>2 DEF HoldInv, Low, Refunded, Posts
    <3> QED BY <3>1, <3>2 DEF Operations
  <2>5. CompletedIsCharged'
    BY <1>1, <1>5 DEF HoldInv, CompletedIsCharged, Charged
  <2>6. \A p \in Users \cup {Recovery} :
          pc'[p] = "release" => row'.status \in Ended
    BY <1>1, <1>2, SubmitterIsOther DEF HoldInv
  <2> QED BY <2>1, <2>2, <2>3, <2>4, <2>5, <2>6 DEF HoldInv
<1>10. QueueInv'
  BY <1>1, <1>2, <1>3, QueueKeeps DEF Queued, queueVars
<1>11. EndStays
  BY <1>1 DEF EndStays
<1> QED BY <1>4, <1>6, <1>7, <1>8, <1>9, <1>10, <1>11 DEF Preserves

\* Submit's statements on the row.  One that leaves the row as it was may only
\* end Submit or send it where a failed call goes.
LEMMA SubmitRowKeeps ==
  ASSUME IInv, UNCHANGED <<claims, applied, queueVars, upstream, gap>>,
         faults' \in 0..MaxFaults, row' \in RowType, NEW l \in PCs,
         Goto(Submitter, l),
         row'.status = row.status, row'.named = row.named,
         row'.retries = row.retries,
         pc[Submitter] # "create",
         l \notin {"create", "reserve", "items", "provider", "record"},
         l = "upload" => pc[Submitter] = "items",
         row.named => pc[Submitter] \in {"queueFailed"} /\ l = "unqueued",
         pc[Submitter] \in {"record", "abort", "orphaned", "crashed"}
           => l \in {"abort", "crashed"}
  PROVE  Preserves
<1> USE DEF IInv
<1>1. /\ pc' \in [Procs -> PCs] /\ pc'[Submitter] = l
      /\ \A q \in Procs \ {Submitter} : pc'[q] = pc[q]
  BY GotoFacts, SubmitterIsOther DEF TypeOK
<1>2. TypeOK'
  BY <1>1 DEF TypeOK, LedgerType, QueueType, queueVars
<1>3. LockInv' /\ WorkerInv'
  BY <1>1, SubmitOutside DEF StatusOutside, queueVars
<1>4. SubmitInv'
  BY <1>1 DEF SubmitInv, Settled
<1>5. UpstreamInv'
  BY <1>1 DEF UpstreamInv, Settled
<1>6. HoldInv'
  BY <1>1, SubmitterIsOther
  DEF HoldInv, Low, Charged, Refunded, CompletedIsCharged
<1>7. QueueInv'
  BY <1>1, QueueKeeps DEF Queued, queueVars
<1>8. EndStays
  BY DEF EndStays
<1> QED BY <1>2, <1>3, <1>4, <1>5, <1>6, <1>7, <1>8 DEF Preserves

\* RecordBatchImageJobSubmitFailure with the failed status.
LEMMA SubmitMarksFailed ==
  ASSUME IInv, NEW l \in PCs, RecordSubmitFailure(TRUE, Goto(Submitter, l)),
         pc[Submitter] \in {"releaseFailed", "fail"}, l \in {"retry", "hide"}
  PROVE  Preserves
<1> USE DEF IInv
<1>1. /\ UNCHANGED <<claims, applied, queueVars, upstream, gap>>
      /\ faults' \in 0..MaxFaults
      /\ Goto(Submitter, l)
      /\ \/ row' = [row EXCEPT !.status = "failed", !.fresh = TRUE,
                               !.settleCode = FALSE]
         \/ UNCHANGED row
  BY FaultFacts DEF RecordSubmitFailure, RowCall, Fine, Fault, ledgerVars,
     TypeOK
<1>2. ~row.named
  BY DEF SubmitInv
<1>3. CASE UNCHANGED row
  BY <1>1, <1>2, <1>3, SubmitRowKeeps DEF TypeOK
<1>4. CASE row' = [row EXCEPT !.status = "failed", !.fresh = TRUE,
                              !.settleCode = FALSE]
  <2>1. row \in RowType
    BY DEF TypeOK
  <2>2. Becomes("failed")
    <3>1. row' \in RowType
      BY ONLY <1>4, <2>1 DEF RowType, Statuses, Terminal
    <3>2. row'.status = "failed" /\ row'.named = row.named
      BY ONLY <1>4, <2>1 DEF RowType
    <3>3. row'.retries = row.retries
      BY ONLY <1>4, <2>1 DEF RowType
    <3> QED BY <3>1, <3>2, <3>3 DEF Becomes
  <2>3. /\ pc' \in [Procs -> PCs] /\ pc'[Submitter] = l
        /\ \A q \in Procs \ {Submitter} : pc'[q] = pc[q]
    BY <1>1, GotoFacts, SubmitterIsOther DEF TypeOK
  <2>4. row.status \in Unsubmitted \cup {"absent"} \cup Ended
    BY <1>2, RowFields DEF SubmitInv, TypeOK, Statuses, Terminal, Settled,
       Ended, Unsubmitted
  <2>5. TypeOK'
    BY <1>1, <2>2, <2>3
    DEF TypeOK, LedgerType, QueueType, queueVars, Becomes
  <2>6. LockInv' /\ WorkerInv'
    BY <1>1, <2>2, <2>3, <2>4, SubmitOutside
    DEF StatusOutside, queueVars, Becomes, Ended
  <2>7. SubmitInv'
    BY <1>1, <1>2, <2>2, <2>3 DEF SubmitInv, Settled, Becomes
  <2>8. UpstreamInv'
    BY <1>1, <1>2, <2>2, <2>3 DEF UpstreamInv, Settled, Becomes
  <2>9. HoldInv'
    <3>1. Low' => ~Charged'
      BY <1>1, <1>2, <2>2, <2>4
      DEF HoldInv, Low, Charged, Becomes, Ended, Settled, Unsubmitted
    <3> QED BY <1>1, <2>2, <2>3, <3>1, SubmitterIsOther
            DEF HoldInv, Low, Charged, Refunded, CompletedIsCharged, Becomes,
                Ended
  <2>10. QueueInv'
    BY <1>1, <1>2, <2>2, <2>3, QueueKeeps
    DEF Queued, queueVars, Becomes, Terminal
  <2>11. EndStays
    BY <2>2, <2>4 DEF EndStays, Becomes, Unsubmitted, Ended, Terminal
  <2> QED BY <2>5, <2>6, <2>7, <2>8, <2>9, <2>10, <2>11 DEF Preserves
<1> QED BY <1>1, <1>3, <1>4

LEMMA StartUploadStep ==
  ASSUME IInv, StartUpload
  PROVE  Preserves
<1> USE DEF IInv
<1>1. /\ pc[Submitter] = "upload" /\ ~row.named
      /\ row.status \in Statuses
  BY RowFields DEF StartUpload, SubmitInv, TypeOK
<1>2. /\ UNCHANGED <<claims, applied, upstream, gap, queueVars>>
      /\ faults' \in 0..MaxFaults /\ row' \in RowType
      /\ \/ /\ CanTransition(row.status, "uploading") /\ Becomes("uploading")
            /\ Goto(Submitter, "provider")
         \/ /\ UNCHANGED row
            /\ Goto(Submitter, "releaseOnly") \/ Goto(Submitter, "release")
  <2>1. /\ "uploading" \in Statuses
        /\ "provider" \in PCs /\ "releaseOnly" \in PCs /\ "release" \in PCs
    BY DEF Statuses, PCs
  <2>2. Transition("uploading", Goto(Submitter, "provider"),
                   Goto(Submitter, "releaseOnly"), Goto(Submitter, "release"))
    BY DEF StartUpload
  <2> QED BY <2>1, <2>2, TransitionFacts, SubmitterIsOther DEF TypeOK
<1>3. CASE /\ UNCHANGED row
           /\ Goto(Submitter, "releaseOnly") \/ Goto(Submitter, "release")
  BY <1>1, <1>2, <1>3, SubmitRowKeeps DEF PCs
<1>4. CASE /\ CanTransition(row.status, "uploading") /\ Becomes("uploading")
           /\ Goto(Submitter, "provider")
  <2>1. row.status = "created"
    BY <1>1, <1>4, CanFacts
  <2>2. /\ pc' \in [Procs -> PCs] /\ pc'[Submitter] = "provider"
        /\ \A q \in Procs \ {Submitter} : pc'[q] = pc[q]
    BY <1>4, GotoFacts, SubmitterIsOther DEF TypeOK, PCs
  <2>3. TypeOK'
    BY <1>2, <2>2 DEF TypeOK, LedgerType, QueueType, queueVars
  <2>4. LockInv' /\ WorkerInv'
    BY <1>2, <1>4, <2>1, <2>2, SubmitOutside
    DEF StatusOutside, queueVars, Becomes, Unsubmitted
  <2>5. SubmitInv'
    BY <1>1, <1>2, <1>4, <2>2 DEF SubmitInv, Settled, Becomes
  <2>6. UpstreamInv'
    BY <1>1, <1>2, <1>4, <2>2 DEF UpstreamInv, Settled, Becomes
  <2>7. HoldInv'
    BY <1>1, <1>2, <1>4, <2>1, <2>2, SubmitterIsOther
    DEF HoldInv, Low, Charged, Refunded, CompletedIsCharged, Becomes,
        Ended, Settled
  <2>8. QueueInv'
    BY <1>1, <1>2, <1>4, <2>1, <2>2, QueueKeeps
    DEF Queued, queueVars, Becomes, Terminal
  <2>9. EndStays
    BY <2>1 DEF EndStays, Terminal
  <2> QED BY <2>3, <2>4, <2>5, <2>6, <2>7, <2>8, <2>9 DEF Preserves
<1> QED BY <1>2, <1>3, <1>4

LEMMA SubmitUpstreamStep ==
  ASSUME IInv, SubmitUpstream
  PROVE  Preserves
<1> USE DEF IInv
<1>1. /\ pc[Submitter] = "provider" /\ ~row.named
  BY DEF SubmitUpstream, SubmitInv
<1>2. /\ UNCHANGED <<claims, applied, queueVars, row, gap>>
      /\ faults' \in 0..MaxFaults
      /\ \/ upstream' = "live" /\ Goto(Submitter, "record")
         \/ UNCHANGED upstream /\ Goto(Submitter, "release")
  BY FaultFacts DEF SubmitUpstream, ledgerVars, TypeOK, Fine, Fault
<1>3. CASE UNCHANGED upstream /\ Goto(Submitter, "release")
  BY <1>1, <1>2, <1>3, SubmitRowKeeps DEF PCs, TypeOK
<1>4. CASE upstream' = "live" /\ Goto(Submitter, "record")
  <2>1. /\ pc' \in [Procs -> PCs] /\ pc'[Submitter] = "record"
        /\ \A q \in Procs \ {Submitter} : pc'[q] = pc[q]
    BY <1>4, GotoFacts, SubmitterIsOther DEF TypeOK, PCs
  <2>2. TypeOK'
    BY <1>2, <1>4, <2>1 DEF TypeOK, LedgerType, QueueType, queueVars
  <2>3. LockInv' /\ WorkerInv'
    BY <1>1, <1>2, <2>1, SubmitOutside DEF StatusOutside, queueVars
  <2>4. SubmitInv'
    BY <1>1, <1>2, <1>4, <2>1 DEF SubmitInv, Settled
  <2>5. UpstreamInv'
    BY <1>1, <1>2, <2>1 DEF UpstreamInv, SubmitInv, Settled
  <2>6. HoldInv'
    BY <1>1, <1>2, <2>1, SubmitterIsOther
    DEF HoldInv, Low, Charged, Refunded, CompletedIsCharged
  <2>7. QueueInv'
    BY <1>1, <1>2, <2>1, QueueKeeps DEF Queued, queueVars
  <2>8. EndStays
    BY <1>2 DEF EndStays
  <2> QED BY <2>2, <2>3, <2>4, <2>5, <2>6, <2>7, <2>8 DEF Preserves
<1> QED BY <1>2, <1>3, <1>4

LEMMA RecordSubmittedStep ==
  ASSUME IInv, RecordSubmitted
  PROVE  Preserves
<1> USE DEF IInv
<1>1. /\ pc[Submitter] = "record" /\ ~row.named /\ row \in RowType
      /\ row.status \in Statuses
  BY RowFields DEF RecordSubmitted, SubmitInv, TypeOK
<1>2. /\ UNCHANGED <<claims, applied, queueVars, upstream, gap>>
      /\ faults' \in 0..MaxFaults
      /\ \/ /\ CanTransition(row.status, "submitted")
            /\ row' = [row EXCEPT !.status = "submitted", !.named = TRUE,
                                  !.fresh = TRUE]
            /\ Goto(Submitter, "enqueue")
         \/ UNCHANGED row /\ Goto(Submitter, "abort")
  BY FaultFacts
  DEF RecordSubmitted, RowCall, ledgerVars, TypeOK, Fine, Fault
<1>3. CASE UNCHANGED row /\ Goto(Submitter, "abort")
  BY <1>1, <1>2, <1>3, SubmitRowKeeps DEF PCs
<1>4. CASE /\ CanTransition(row.status, "submitted")
           /\ row' = [row EXCEPT !.status = "submitted", !.named = TRUE,
                                 !.fresh = TRUE]
           /\ Goto(Submitter, "enqueue")
  <2>1. row.status \in Unsubmitted
    BY <1>1, <1>4, CanFacts
  <2>2. row' \in RowType
    BY ONLY <1>1, <1>4 DEF RowType, Statuses
  <2>3. row'.status = "submitted" /\ row'.named
    BY ONLY <1>1, <1>4 DEF RowType
  <2>4. row'.retries = row.retries
    BY ONLY <1>1, <1>4 DEF RowType
  <2>5. /\ pc' \in [Procs -> PCs] /\ pc'[Submitter] = "enqueue"
        /\ \A q \in Procs \ {Submitter} : pc'[q] = pc[q]
    BY <1>4, GotoFacts, SubmitterIsOther DEF TypeOK, PCs
  <2>6. TypeOK'
    BY <1>2, <2>2, <2>5 DEF TypeOK, LedgerType, QueueType, queueVars
  <2>7. LockInv' /\ WorkerInv'
    BY <1>1, <1>2, <2>1, <2>3, <2>4, <2>5, SubmitOutside
    DEF StatusOutside, queueVars
  <2>8. SubmitInv'
    BY <1>1, <1>2, <2>3, <2>5 DEF SubmitInv, Settled, Unsubmitted
  <2>9. UpstreamInv'
    BY <2>3 DEF UpstreamInv, Settled
  <2>10. HoldInv'
    <3>1. Low => ~Charged /\ ~Refunded
      BY <1>1, <2>1 DEF HoldInv, Unsubmitted, Settled, Ended
    <3>2. \A p \in Users \cup {Recovery} : pc[p] # "release"
      BY <2>1 DEF HoldInv, Unsubmitted, Ended
    <3> QED BY <1>2, <2>3, <2>4, <2>5, <3>1, <3>2, SubmitterIsOther
            DEF HoldInv, Low, Charged, Refunded, CompletedIsCharged
  <2>11. QueueInv'
    BY <1>1, <1>2, <2>1, <2>5, QueueKeeps
    DEF Queued, queueVars, Terminal, Unsubmitted
  <2>12. EndStays
    BY <2>1 DEF EndStays, Unsubmitted, Terminal
  <2> QED BY <2>6, <2>7, <2>8, <2>9, <2>10, <2>11, <2>12 DEF Preserves
<1> QED BY <1>2, <1>3, <1>4

LEMMA SubmitEnqueues ==
  ASSUME IInv, EnqueueSubmitted \/ EnqueueRetry(Submitter)
  PROVE  Preserves
<1> USE DEF IInv
<1>1. PICK l \in PCs, m \in PCs :
        /\ EnqueueCall(Goto(Submitter, l), Goto(Submitter, m))
        /\ l = "done" /\ m \in {"done", "queueFailed"}
        /\ pc[Submitter] = "enqueue" \/ pc[Submitter] = "retry"
        /\ pc[Submitter] = "enqueue" => m = "queueFailed"
        /\ pc[Submitter] = "retry" => m = "done"
  <2>1. "done" \in PCs /\ "queueFailed" \in PCs /\ Submitter # Recovery
    BY SubmitterIsOther DEF PCs
  <2>2. CASE EnqueueSubmitted
    BY <2>1, <2>2 DEF EnqueueSubmitted
  <2>3. CASE EnqueueRetry(Submitter)
    BY <2>1, <2>3 DEF EnqueueRetry
  <2> QED BY <2>2, <2>3
<1>2. /\ UNCHANGED <<claims, applied, row, upstream, gap, delayed, active, lock>>
      /\ faults' \in 0..MaxFaults /\ QueueType'
      /\ \/ Enqueue /\ Goto(Submitter, l)
         \/ UNCHANGED queueVars /\ Goto(Submitter, m)
  BY <1>1, EnqueueCallFacts, SubmitterIsOther DEF TypeOK
<1>3. PICK k \in {l, m} :
        /\ pc' \in [Procs -> PCs] /\ pc'[Submitter] = k
        /\ \A q \in Procs \ {Submitter} : pc'[q] = pc[q]
        /\ k = "done" => Enqueue \/ pc[Submitter] = "retry"
        /\ k = "queueFailed" => pc[Submitter] = "enqueue"
  <2>1. CASE Enqueue /\ Goto(Submitter, l)
    BY <1>1, <2>1, GotoFacts, SubmitterIsOther DEF TypeOK
  <2>2. CASE UNCHANGED queueVars /\ Goto(Submitter, m)
    BY <1>1, <2>2, GotoFacts, SubmitterIsOther DEF TypeOK
  <2> QED BY <1>2, <2>1, <2>2
<1>4. k \in {"done", "queueFailed"}
  BY <1>1
<1>5. TypeOK'
  BY <1>2, <1>3 DEF TypeOK, LedgerType
<1>6. LockInv' /\ WorkerInv'
  BY <1>2, <1>3, SubmitOutside DEF StatusOutside
<1>7. SubmitInv'
  BY <1>1, <1>2, <1>3, <1>4 DEF SubmitInv, Settled
<1>8. UpstreamInv'
  BY <1>1, <1>2, <1>3, <1>4 DEF UpstreamInv, Settled
<1>9. HoldInv'
  BY <1>1, <1>2, <1>3, <1>4, SubmitterIsOther
  DEF HoldInv, Low, Charged, Refunded, CompletedIsCharged
<1>10. QueueInv'
  <2>1. Enqueue => Queued'
    <3>1. ASSUME Enqueue, inflight PROVE Queued'
      BY <3>1 DEF Enqueue, QueueInv, Queued
    <3>2. ASSUME Enqueue, ~inflight PROVE Queued'
      BY <3>2 DEF Enqueue, Queued, TypeOK, QueueType
    <3> QED BY <3>1, <3>2
  <2>2. ~row.named \/ pc[Submitter] = "enqueue"
    BY <1>1 DEF SubmitInv
  <2>3. CASE Enqueue
    BY <1>2, <2>1, <2>3 DEF QueueInv, NotForgotten
  <2>4. CASE UNCHANGED queueVars
    BY <1>2, <1>3, <1>4, <2>1, <2>2, <2>4
    DEF QueueInv, NotForgotten, Queued, queueVars
  <2> QED BY <1>2, <2>3, <2>4
<1>11. EndStays
  BY <1>2 DEF EndStays
<1> QED BY <1>5, <1>6, <1>7, <1>8, <1>9, <1>10, <1>11 DEF Preserves

LEMMA AbortStep ==
  ASSUME IInv, AbortOrphan
  PROVE  Preserves
<1> USE DEF IInv
<1>1. pc[Submitter] = "abort" /\ ~row.named
  BY DEF AbortOrphan, SubmitInv
<1>2. /\ UNCHANGED <<claims, applied, queueVars, row, gap>>
      /\ faults' \in 0..MaxFaults
      /\ \/ /\ upstream' = IF upstream = "live" THEN "cancelled" ELSE upstream
            /\ Goto(Submitter, "done")
         \/ UNCHANGED upstream /\ Goto(Submitter, "orphaned")
  BY FaultFacts DEF AbortOrphan, ledgerVars, TypeOK, Fine, Fault
<1>3. PICK k \in {"done", "orphaned"} :
        /\ pc' \in [Procs -> PCs] /\ pc'[Submitter] = k
        /\ \A q \in Procs \ {Submitter} : pc'[q] = pc[q]
        /\ k = "orphaned" \/ upstream' # "live"
  BY <1>2, GotoFacts, SubmitterIsOther DEF TypeOK, PCs
<1>4. upstream' \in {"none", "live", "done", "failed", "cancelled"}
  BY <1>2 DEF TypeOK
<1>5. TypeOK'
  BY <1>2, <1>3, <1>4 DEF TypeOK, LedgerType, QueueType, queueVars
<1>6. LockInv' /\ WorkerInv'
  BY <1>1, <1>2, <1>3, SubmitOutside DEF StatusOutside, queueVars
<1>7. SubmitInv'
  BY <1>1, <1>2, <1>3 DEF SubmitInv, Settled
<1>8. UpstreamInv'
  BY <1>1, <1>2, <1>3 DEF UpstreamInv, SubmitInv, Settled
<1>9. HoldInv'
  BY <1>1, <1>2, <1>3, SubmitterIsOther
  DEF HoldInv, Low, Charged, Refunded, CompletedIsCharged
<1>10. QueueInv'
  BY <1>1, <1>2, <1>3, QueueKeeps DEF Queued, queueVars
<1>11. EndStays
  BY <1>2 DEF EndStays
<1> QED BY <1>5, <1>6, <1>7, <1>8, <1>9, <1>10, <1>11 DEF Preserves

LEMMA SubmitStepKeeps ==
  ASSUME IInv, SubmitStep
  PROVE  Preserves
<1> DEFINE Labels == {"items", "fail", "upload", "release", "releaseFailed",
                      "retry", "hide", "done", "unqueued"}
<1>1. Labels \subseteq PCs /\ {"hold", "release"} \subseteq Operations
  BY DEF PCs, Operations
<1>2. pc[Submitter] \notin {"enqueue", "queueFailed", "unqueued", "done",
                            "crashed"} => ~row.named
  BY DEF IInv, SubmitInv
<1>3. ASSUME ReserveHold PROVE Preserves
  BY <1>1, <1>3, SubmitLedger DEF ReserveHold
<1>4. ASSUME SubmitRelease PROVE Preserves
  <2>1. ASSUME pc[Submitter] = "release",
               LedgerCall("release", Goto(Submitter, "fail"),
                          Goto(Submitter, "releaseFailed"))
        PROVE  Preserves
    BY <1>1, <2>1, SubmitLedger
  <2>2. ASSUME pc[Submitter] = "releaseOnly",
               LedgerCall("release", Goto(Submitter, "done"),
                          Goto(Submitter, "releaseFailed"))
        PROVE  Preserves
    BY <1>1, <2>2, SubmitLedger
  <2> QED BY <1>4, <2>1, <2>2 DEF SubmitRelease
<1>5. ASSUME CreateItems PROVE Preserves
  <2>1. /\ UNCHANGED <<claims, applied, queueVars, upstream, gap, row>>
        /\ faults' \in 0..MaxFaults
        /\ pc[Submitter] = "items"
        /\ Goto(Submitter, "upload") \/ Goto(Submitter, "release")
    BY <1>5, FaultFacts
    DEF CreateItems, ledgerVars, jobVars, IInv, TypeOK, Fine, Fault
  <2>2. row \in RowType
    BY DEF IInv, TypeOK
  <2> QED BY <1>1, <1>2, <2>1, <2>2, SubmitRowKeeps
<1>6. ASSUME RecordQueueFailed PROVE Preserves
  <2>1. /\ UNCHANGED <<claims, applied, queueVars, upstream, gap>>
        /\ faults' \in 0..MaxFaults
        /\ pc[Submitter] = "queueFailed"
        /\ Goto(Submitter, "unqueued")
        /\ \/ row' = [row EXCEPT !.status = row.status, !.fresh = TRUE,
                                 !.settleCode = FALSE]
           \/ UNCHANGED row
    BY <1>6, FaultFacts
    DEF RecordQueueFailed, RecordSubmitFailure, RowCall, ledgerVars, IInv,
        TypeOK, Fine, Fault
  <2>2. row \in RowType
    BY DEF IInv, TypeOK
  <2>3. /\ row' \in RowType /\ row'.status = row.status
        /\ row'.named = row.named /\ row'.retries = row.retries
    BY ONLY <2>1, <2>2 DEF RowType
  <2> QED BY <1>1, <2>1, <2>3, SubmitRowKeeps
<1>7. ASSUME Hide PROVE Preserves
  <2>1. /\ UNCHANGED <<claims, applied, queueVars, upstream, gap>>
        /\ faults' \in 0..MaxFaults
        /\ pc[Submitter] = "hide"
        /\ Goto(Submitter, "done")
        /\ row' = [row EXCEPT !.hidden = TRUE] \/ UNCHANGED row
    BY <1>7, FaultFacts
    DEF Hide, RowCall, ledgerVars, IInv, TypeOK, Fine, Fault
  <2>2. row \in RowType
    BY DEF IInv, TypeOK
  <2>3. /\ row' \in RowType /\ row'.status = row.status
        /\ row'.named = row.named /\ row'.retries = row.retries
    BY ONLY <2>1, <2>2 DEF RowType
  <2> QED BY <1>1, <1>2, <2>1, <2>3, SubmitRowKeeps
<1>8. ASSUME RecordReleaseFailed PROVE Preserves
  BY <1>1, <1>8, SubmitMarksFailed DEF RecordReleaseFailed
<1>9. ASSUME SubmitFail PROVE Preserves
  BY <1>1, <1>9, SubmitMarksFailed DEF SubmitFail
<1> QED
  BY <1>3, <1>4, <1>5, <1>6, <1>7, <1>8, <1>9, CreateStep, StartUploadStep,
     SubmitUpstreamStep, RecordSubmittedStep, SubmitEnqueues, AbortStep
  DEF SubmitStep

-----------------------------------------------------------------------------
(* The owner's calls and the recovery, which are beside the workers too.   *)

Callers == Users \cup {Recovery}

LEMMA CallerFacts ==
  ASSUME NEW p \in Callers
  PROVE  p \in Procs /\ p # Submitter /\ p \notin Workers
BY SubmitterIsOther DEF Callers

LEMMA CallerOutside ==
  ASSUME TypeOK, LockInv, SubmitInv, WorkerInv, NEW p \in Callers,
         \A q \in Procs \ {p} : pc'[q] = pc[q],
         lock' = lock, StatusOutside, row'.named = row.named,
         row'.retries = row.retries, applied \subseteq applied',
         upstream # "live" => upstream' # "live"
  PROVE  LockInv' /\ WorkerInv' /\ pc'[Submitter] = pc[Submitter]
<1>1. \A w \in Workers : pc'[w] = pc[w]
  BY CallerFacts, SubmitterIsOther
<1>2. Outside
  BY <1>1 DEF Outside
<1>3. pc'[Submitter] = pc[Submitter]
  BY CallerFacts, SubmitterIsOther
<1> QED BY <1>2, <1>3, OutsideKeeps

\* What a caller may do to the status: cancel a job that is not yet indexed,
\* and fail one that is not yet submitted.
CallerEnds ==
    \/ row'.status = row.status
    \/ /\ row.status \in Unsubmitted \cup {"submitted", "running"}
       /\ row'.status = "cancelled"
    \/ row.status \in Unsubmitted /\ ~row.named /\ row'.status = "failed"

LEMMA CallerRow ==
  ASSUME IInv, NEW p \in Callers, NEW l \in PCs, Goto(p, l),
         UNCHANGED <<claims, applied, queueVars, gap>>, faults' \in 0..MaxFaults,
         row' \in RowType, row'.named = row.named,
         row'.retries = row.retries, CallerEnds,
         row.status = "absent" => row' = row,
         \/ upstream' = upstream
         \/ upstream = "live" /\ upstream' = "cancelled",
         l = "release" => row'.status \in Ended
  PROVE  Preserves
<1> USE DEF IInv
<1>1. /\ pc' \in [Procs -> PCs] /\ pc'[p] = l
      /\ \A q \in Procs \ {p} : pc'[q] = pc[q]
  BY GotoFacts, CallerFacts DEF TypeOK
<1>2. row.status \in Statuses
  BY RowFields DEF TypeOK
<1>3. TypeOK'
  BY <1>1 DEF TypeOK, LedgerType, QueueType, queueVars
<1>4. StatusOutside
  BY DEF CallerEnds, StatusOutside
<1>5. LockInv' /\ WorkerInv' /\ pc'[Submitter] = pc[Submitter]
  BY <1>1, <1>4, CallerOutside DEF queueVars
<1>6. SubmitInv'
  <2>1. pc'[Submitter] = "create" => row' = NoRow
    BY <1>5 DEF SubmitInv, NoRow
  <2>2. row'.status \in {"submitted", "running", "indexing", "settling"}
                          \cup Settled
          => row'.named
    BY DEF SubmitInv, CallerEnds, Settled
  <2>3. row'.named => row'.status \notin Unsubmitted \cup {"absent"}
    BY DEF SubmitInv, CallerEnds, Unsubmitted
  <2> QED BY <1>5, <2>1, <2>2, <2>3 DEF SubmitInv
<1>7. UpstreamInv'
  BY <1>5 DEF UpstreamInv, CallerEnds, Settled
<1>8. HoldInv'
  <2>1. Low' /\ Charged' => row'.status \in {"settling"} \cup Settled
    BY DEF HoldInv, Low, Charged, CallerEnds, Settled, Unsubmitted
  <2>2. Low' /\ Refunded' =>
          \/ row'.status \in Ended
          \/ /\ ~row'.named
             /\ pc'[Submitter] \notin
                  {"create", "reserve", "items", "upload", "provider", "record"}
    BY <1>5 DEF HoldInv, Low, Refunded, CallerEnds, Ended, Unsubmitted
  <2>3. CompletedIsCharged'
    BY DEF HoldInv, CompletedIsCharged, Charged, CallerEnds
  <2>4. \A q \in Users \cup {Recovery} :
          pc'[q] = "release" => row'.status \in Ended
    BY <1>1, CallerFacts DEF HoldInv, Callers, CallerEnds, Ended, Unsubmitted
  <2> QED BY <2>1, <2>2, <2>3, <2>4 DEF HoldInv, Charged, Refunded
<1>9. QueueInv'
  <2>1. row.status \in Terminal => row'.status \in Terminal
    BY DEF CallerEnds, Terminal
  <2> QED BY <1>5, <2>1, QueueKeeps DEF Queued, queueVars
<1>10. EndStays
  BY DEF EndStays, CallerEnds, Unsubmitted, Terminal
<1> QED BY <1>3, <1>5, <1>6, <1>7, <1>8, <1>9, <1>10 DEF Preserves

LEMMA CallerReleases ==
  ASSUME IInv, NEW p \in Callers, NEW l \in PCs, NEW m \in PCs,
         LedgerCall("release", Goto(p, l), Goto(p, m)),
         pc[p] = "release", "release" \notin {l, m}
  PROVE  Preserves
<1> USE DEF IInv
<1>1. /\ UNCHANGED <<row, upstream, gap, queueVars>>
      /\ faults' \in 0..MaxFaults /\ LedgerType'
      /\ \/ Posts("release") /\ (Goto(p, l) \/ Goto(p, m))
         \/ UNCHANGED <<claims, applied>> /\ Goto(p, m)
  BY LedgerCallFacts, CallerFacts DEF TypeOK, Operations
<1>2. PICK k \in {l, m} :
        /\ pc' \in [Procs -> PCs] /\ pc'[p] = k
        /\ \A q \in Procs \ {p} : pc'[q] = pc[q]
  BY <1>1, GotoFacts, CallerFacts DEF TypeOK
<1>3. row.status \in Ended
  BY DEF HoldInv, Callers
<1>4. TypeOK'
  BY <1>1, <1>2 DEF TypeOK, QueueType, queueVars
<1>5. applied \subseteq applied' /\ (Charged' => Charged)
  BY <1>1 DEF Posts, Charged
<1>6. LockInv' /\ WorkerInv' /\ pc'[Submitter] = pc[Submitter]
  BY <1>1, <1>2, <1>5, CallerOutside DEF StatusOutside, queueVars
<1>7. SubmitInv'
  BY <1>1, <1>5, <1>6 DEF SubmitInv, Settled
<1>8. UpstreamInv'
  BY <1>1, <1>6 DEF UpstreamInv, Settled
<1>9. HoldInv'
  <2>1. claims' \cap {"hold", "capture"} \subseteq applied'
    BY <1>1 DEF Posts, HoldInv
  <2>2. Charged' \/ Refunded' => "hold" \in applied'
    BY <1>1, <1>5 DEF Posts, HoldInv, Charged, Refunded
  <2>3. Low' /\ Charged' => row'.status \in {"settling"} \cup Settled
    BY <1>1, <1>5 DEF HoldInv, Low
  <2>4. CompletedIsCharged'
    BY <1>1, <1>3, <1>5 DEF CompletedIsCharged, Ended
  <2> QED BY <1>1, <1>3, <2>1, <2>2, <2>3, <2>4 DEF HoldInv
<1>10. QueueInv'
  BY <1>1, <1>6, QueueKeeps DEF Queued, queueVars
<1>11. EndStays
  BY <1>1 DEF EndStays
<1> QED BY <1>4, <1>6, <1>7, <1>8, <1>9, <1>10, <1>11 DEF Preserves

LEMMA CallerEnqueues ==
  ASSUME IInv, NEW p \in Callers, NEW l \in PCs, NEW m \in PCs,
         EnqueueCall(Goto(p, l), Goto(p, m)), "release" \notin {l, m}
  PROVE  Preserves
<1> USE DEF IInv
<1>1. /\ UNCHANGED <<claims, applied, row, upstream, gap, delayed, active, lock>>
      /\ faults' \in 0..MaxFaults /\ QueueType'
      /\ Enqueue \/ UNCHANGED queueVars
      /\ Goto(p, l) \/ Goto(p, m)
  BY EnqueueCallFacts, CallerFacts DEF TypeOK
<1>2. /\ pc' \in [Procs -> PCs] /\ pc'[p] \in {l, m}
      /\ \A q \in Procs \ {p} : pc'[q] = pc[q]
  BY <1>1, GotoFacts, CallerFacts DEF TypeOK
<1>3. TypeOK'
  BY <1>1, <1>2 DEF TypeOK, LedgerType
<1>4. LockInv' /\ WorkerInv' /\ pc'[Submitter] = pc[Submitter]
  BY <1>1, <1>2, CallerOutside DEF StatusOutside
<1>5. SubmitInv'
  BY <1>1, <1>4 DEF SubmitInv, Settled
<1>6. UpstreamInv'
  BY <1>1, <1>4 DEF UpstreamInv, Settled
<1>7. HoldInv'
  BY <1>1, <1>2, <1>4, CallerFacts
  DEF HoldInv, Low, Charged, Refunded, CompletedIsCharged, Callers
<1>8. QueueInv'
  <2>1. ASSUME Enqueue, inflight PROVE Queued'
    BY <2>1 DEF Enqueue, QueueInv, Queued
  <2>2. ASSUME Enqueue, ~inflight PROVE Queued'
    BY <2>2 DEF Enqueue, Queued, TypeOK, QueueType
  <2>3. CASE Enqueue
    BY <1>1, <2>1, <2>2, <2>3 DEF QueueInv, NotForgotten
  <2>4. CASE UNCHANGED queueVars
    BY <1>1, <1>4, <2>4 DEF QueueInv, NotForgotten, Queued, queueVars
  <2> QED BY <1>1, <2>3, <2>4
<1>9. EndStays
  BY <1>1 DEF EndStays
<1> QED BY <1>3, <1>4, <1>5, <1>6, <1>7, <1>8, <1>9 DEF Preserves

LEMMA UserStepKeeps ==
  ASSUME IInv, NEW u \in Users, UserStep(u)
  PROVE  Preserves
<1> USE DEF IInv
<1>1. u \in Callers /\ u \in Procs /\ u # Recovery
  BY SubmitterIsOther DEF Callers
<1>2. row \in RowType /\ row.status \in Statuses
  BY RowFields DEF TypeOK
<1>3. "release" \in PCs /\ "retry" \in PCs /\ "done" \in PCs /\ "enqueue" \in PCs
      /\ "cancelUpstream" \in PCs /\ "transition" \in PCs
      /\ "enqueueAgain" \in PCs /\ "queueFailed" \in PCs
  BY DEF PCs
<1>4. faults \in 0..MaxFaults
  BY DEF TypeOK
<1>5. ASSUME CancelRead(u) PROVE Preserves
  <2>1. PICK l \in PCs :
          /\ Goto(u, l)
          /\ l = "release" => row.status \in Ended
    BY <1>3, <1>5 DEF CancelRead, Move, Ended
  <2>2. UNCHANGED <<claims, applied, queueVars, row, upstream, gap, faults>>
    BY <1>5 DEF CancelRead, Move, ledgerVars, jobVars
  <2> QED BY <1>1, <1>2, <1>4, <2>1, <2>2, CallerRow DEF CallerEnds
<1>6. ASSUME CancelUpstream(u) PROVE Preserves
  <2>1. PICK l \in PCs : Goto(u, l) /\ l # "release"
    BY <1>3, <1>6 DEF CancelUpstream
  <2>2. /\ UNCHANGED <<claims, applied, queueVars, row, gap>>
        /\ faults' \in 0..MaxFaults
        /\ \/ upstream' = upstream
           \/ upstream = "live" /\ upstream' = "cancelled"
    BY <1>4, <1>6, FaultFacts DEF CancelUpstream, ledgerVars, Fine, Fault
  <2> QED BY <1>1, <1>2, <2>1, <2>2, CallerRow DEF CallerEnds
<1>7. ASSUME CancelTransition(u) PROVE Preserves
  <2>1. "cancelled" \in Statuses
    BY DEF Statuses, Terminal
  <2>2. /\ UNCHANGED <<claims, applied, upstream, gap, queueVars>>
        /\ faults' \in 0..MaxFaults /\ row' \in RowType
        /\ \/ /\ CanTransition(row.status, "cancelled")
              /\ Becomes("cancelled") /\ Goto(u, "release")
           \/ UNCHANGED row /\ Goto(u, "done")
    BY <1>1, <1>2, <1>3, <1>4, <1>7, <2>1, TransitionFacts
    DEF CancelTransition
  <2>3. CASE UNCHANGED row /\ Goto(u, "done")
    BY <1>1, <1>2, <1>3, <2>2, <2>3, CallerRow DEF CallerEnds
  <2>4. CASE /\ CanTransition(row.status, "cancelled")
             /\ Becomes("cancelled") /\ Goto(u, "release")
    <3>1. row.status \in Unsubmitted \cup {"submitted", "running"}
      BY <1>2, <2>4, CanFacts
    <3>2. CallerEnds /\ row.status # "absent"
      BY <2>4, <3>1 DEF CallerEnds, Becomes, Unsubmitted
    <3> QED BY <1>1, <1>3, <2>2, <2>4, <3>2, CallerRow DEF Becomes, Ended
  <2> QED BY <2>2, <2>3, <2>4
<1>8. ASSUME CancelRelease(u) PROVE Preserves
  BY <1>1, <1>3, <1>8, CallerReleases DEF CancelRelease
<1>9. ASSUME SubmitAgain(u) PROVE Preserves
  <2>1. PICK l \in PCs : Goto(u, l) /\ l # "release"
    BY <1>3, <1>9 DEF SubmitAgain, Move
  <2>2. UNCHANGED <<claims, applied, queueVars, row, upstream, gap, faults>>
    BY <1>9 DEF SubmitAgain, Move, ledgerVars, jobVars
  <2> QED BY <1>1, <1>2, <1>4, <2>1, <2>2, CallerRow DEF CallerEnds
<1>10. ASSUME UserEnqueue(u) PROVE Preserves
  BY <1>1, <1>3, <1>10, CallerEnqueues DEF UserEnqueue
<1>11. ASSUME DeleteRecord(u) PROVE Preserves
  <2>1. /\ UNCHANGED <<claims, applied, queueVars, upstream, gap, faults>>
        /\ Goto(u, "done") /\ row.status \in Terminal
        /\ row' = [row EXCEPT !.hidden = TRUE]
    BY <1>11 DEF DeleteRecord, ledgerVars
  <2>2. /\ row' \in RowType /\ row'.status = row.status
        /\ row'.named = row.named /\ row'.retries = row.retries
    BY ONLY <1>2, <2>1 DEF RowType
  <2>3. row.status # "absent"
    BY <2>1 DEF Terminal
  <2> QED BY <1>1, <1>3, <1>4, <2>1, <2>2, <2>3, CallerRow DEF CallerEnds
<1>12. ASSUME EnqueueRetry(u) PROVE Preserves
  BY <1>1, <1>3, <1>12, CallerEnqueues DEF EnqueueRetry
<1>13. ASSUME EnqueueAgain(u) PROVE Preserves
  BY <1>1, <1>3, <1>13, CallerEnqueues DEF EnqueueAgain
<1>14. ASSUME RecordAgain(u) PROVE Preserves
  <2>1. /\ UNCHANGED <<claims, applied, queueVars, upstream, gap>>
        /\ faults' \in 0..MaxFaults
        /\ row.status # "absent" /\ Goto(u, "done")
        /\ \/ row' = [row EXCEPT !.status = row.status, !.fresh = TRUE,
                                 !.settleCode = FALSE]
           \/ UNCHANGED row
    BY <1>4, <1>14, FaultFacts
    DEF RecordAgain, RecordSubmitFailure, RowCall, ledgerVars, Fine, Fault
  <2>2. /\ row' \in RowType /\ row'.status = row.status
        /\ row'.named = row.named /\ row'.retries = row.retries
    BY ONLY <1>2, <2>1 DEF RowType
  <2> QED BY <1>1, <1>3, <2>1, <2>2, CallerRow DEF CallerEnds
<1> QED
  BY <1>5, <1>6, <1>7, <1>8, <1>9, <1>10, <1>11, <1>12, <1>13, <1>14
  DEF UserStep

LEMMA RecoveryStepKeeps ==
  ASSUME IInv, RecoveryStep
  PROVE  Preserves
<1> USE DEF IInv
<1>1. Recovery \in Callers /\ Recovery \in Procs
  BY SubmitterIsOther DEF Callers
<1>2. row \in RowType /\ faults \in 0..MaxFaults
  BY DEF TypeOK
<1>3. "release" \in PCs /\ "retry" \in PCs /\ "idle" \in PCs
  BY DEF PCs
<1>4. ASSUME RecoverStale PROVE Preserves
  <2>1. /\ UNCHANGED <<claims, applied, queueVars, upstream, gap, faults>>
        /\ Goto(Recovery, "release")
        /\ row.status \in Unsubmitted /\ ~row.named
        /\ row' = [row EXCEPT !.status = "failed", !.fresh = TRUE,
                              !.settleCode = FALSE]
    BY <1>4 DEF RecoverStale, StaleUnsubmitted, ledgerVars
  <2>2. row' \in RowType
    BY ONLY <1>2, <2>1 DEF RowType, Statuses, Terminal
  <2>3. row'.status = "failed" /\ row'.named = row.named
    BY ONLY <1>2, <2>1 DEF RowType
  <2>4. row'.retries = row.retries
    BY ONLY <1>2, <2>1 DEF RowType
  <2>5. row.status # "absent" /\ CallerEnds
    BY <2>1, <2>3 DEF Unsubmitted, CallerEnds
  <2> QED BY <1>1, <1>2, <1>3, <2>1, <2>2, <2>3, <2>4, <2>5, CallerRow
          DEF Ended
<1>5. ASSUME RecoveryRelease PROVE Preserves
  BY <1>1, <1>3, <1>5, CallerReleases DEF RecoveryRelease
<1>6. ASSUME EnqueueRetry(Recovery) PROVE Preserves
  BY <1>1, <1>3, <1>6, CallerEnqueues DEF EnqueueRetry
<1> QED BY <1>4, <1>5, <1>6 DEF RecoveryStep

-----------------------------------------------------------------------------
(* The worker that holds the lock.                                         *)

\* The steps of a worker that has only read or called something outside.
LEMMA WorkerMoves ==
  ASSUME IInv, NEW w \in Workers, NEW l \in PCs, Goto(w, l), Processing(w),
         UNCHANGED <<claims, applied, row, upstream, gap, queueVars>>,
         faults' \in 0..MaxFaults, Reliable(w)'
  PROVE  Preserves
<1> USE DEF IInv
<1>1. /\ pc' \in [Procs -> PCs] /\ pc'[w] = l
      /\ \A q \in Procs \ {w} : pc'[q] = pc[q]
  BY GotoFacts, SubmitterIsOther DEF TypeOK
<1>2. TypeOK'
  BY <1>1 DEF TypeOK, LedgerType, QueueType, queueVars
<1>3. LockInv' /\ WorkerInv'
  BY <1>1, OthersKeep DEF queueVars
<1>4. pc'[Submitter] = pc[Submitter]
  BY <1>1, SubmitterIsOther
<1>5. SubmitInv' /\ UpstreamInv' /\ HoldInv'
  BY <1>1, QuietStep
<1>6. QueueInv'
  BY <1>4, QueueKeeps DEF Queued, queueVars
<1>7. EndStays
  BY DEF EndStays
<1> QED BY <1>2, <1>3, <1>5, <1>6, <1>7 DEF Preserves

\* What a worker may do to the row: bring the job forward or end it, and only
\* end it once the provider has.
WorkerRowChange ==
    /\ row' \in RowType
    /\ row'.named = row.named
    /\ Low' => Low
    /\ \/ row'.status = row.status /\ row.status # "absent"
       \/ /\ row.status \in {"submitted", "running"}
          /\ row'.status \in {"running", "cancelled"}
       \/ /\ row.status \in {"submitted", "running"} /\ upstream # "live"
          /\ row'.status \in {"indexing", "failed"}
       \/ row.status = "indexing" /\ row'.status \in {"settling", "failed"}
       \/ row.status = "settling" /\ row'.status = "failed" /\ ~Low
       \/ row.status = "settling" /\ row'.status = "completed" /\ Charged

LEMMA WorkerChanges ==
  ASSUME IInv, NEW w \in Workers, NEW l \in PCs, Goto(w, l), Processing(w),
         UNCHANGED <<claims, applied, upstream, gap, queueVars>>,
         faults' \in 0..MaxFaults, WorkerRowChange, Reliable(w)'
  PROVE  Preserves
<1> USE DEF IInv
<1>1. /\ pc' \in [Procs -> PCs] /\ pc'[w] = l
      /\ \A q \in Procs \ {w} : pc'[q] = pc[q]
  BY GotoFacts, SubmitterIsOther DEF TypeOK
<1>2. TypeOK'
  BY <1>1 DEF TypeOK, LedgerType, QueueType, queueVars, WorkerRowChange
<1>3. row.status \in Terminal => row'.status \in Terminal
  BY DEF WorkerRowChange, Terminal
<1>4. LockInv' /\ WorkerInv'
  BY <1>1, <1>3, OthersKeep DEF queueVars
<1>5. pc'[Submitter] = pc[Submitter]
  BY <1>1, SubmitterIsOther
<1>6. SubmitInv'
  <2>1. pc[Submitter] # "create"
    BY DEF SubmitInv, WorkerRowChange, NoRow
  <2>2. row'.status \in {"submitted", "running", "indexing", "settling"}
                          \cup Settled
          => row'.named
    BY DEF SubmitInv, WorkerRowChange, Settled
  <2>3. row'.named => row'.status \notin Unsubmitted \cup {"absent"}
    BY DEF SubmitInv, WorkerRowChange, Unsubmitted
  <2> QED BY <1>5, <2>1, <2>2, <2>3 DEF SubmitInv, WorkerRowChange
<1>7. UpstreamInv'
  BY <1>5 DEF UpstreamInv, SubmitInv, WorkerRowChange, Settled
<1>8. HoldInv'
  <2>1. row.status \in {"submitted", "running", "indexing"} =>
          (Low => ~Charged /\ ~Refunded)
    BY DEF HoldInv, SubmitInv, Settled, Ended
  <2>2. row.status = "settling" => (Low => ~Refunded)
    BY DEF HoldInv, SubmitInv, Ended
  <2>3. Low' /\ Charged' => row'.status \in {"settling"} \cup Settled
    BY <2>1 DEF HoldInv, WorkerRowChange, Charged, Settled
  <2>4. Low' /\ Refunded' =>
          \/ row'.status \in Ended
          \/ /\ ~row'.named
             /\ pc'[Submitter] \notin
                  {"create", "reserve", "items", "upload", "provider", "record"}
    BY <1>5, <2>1, <2>2 DEF HoldInv, WorkerRowChange, Refunded, Ended
  <2>5. CompletedIsCharged'
    BY DEF HoldInv, CompletedIsCharged, WorkerRowChange, Charged
  <2>6. \A p \in Users \cup {Recovery} :
          pc'[p] = "release" => row'.status \in Ended
    BY <1>1, SubmitterIsOther DEF HoldInv, WorkerRowChange, Ended
  <2> QED BY <2>3, <2>4, <2>5, <2>6 DEF HoldInv, Charged, Refunded
<1>9. QueueInv'
  BY <1>3, <1>5, QueueKeeps DEF Queued, queueVars, WorkerRowChange
<1>10. EndStays
  BY DEF EndStays, WorkerRowChange, Terminal
<1> QED BY <1>2, <1>4, <1>6, <1>7, <1>8, <1>9, <1>10 DEF Preserves

\* The worker's calls of the ledger: the release of an ended job, the capture
\* of one that settles, the release of one whose retries are used up.
LEMMA WorkerLedger ==
  ASSUME IInv, NEW w \in Workers, NEW l \in PCs, NEW m \in PCs,
         NEW op \in {"capture", "release"},
         LedgerCall(op, Goto(w, l), Goto(w, m)), Processing(w),
         op = "capture" => row.status = "settling",
         op = "release" =>
           row.status \in Ended \/ (row.status = "settling" /\ ~Low),
         l \in {"ack", "mark", "exhaustFail"},
         m \in {"requeue", "recordBilling", "exhaustRecord"},
         l = "ack" => row.status \in Ended,
         l = "mark" => op = "capture",
         l = "exhaustFail" \/ m = "exhaustRecord" =>
           row.status = "settling" /\ ~Low,
         m = "recordBilling" => row.status = "settling"
  PROVE  Preserves
<1> USE DEF IInv
<1>1. /\ UNCHANGED <<row, upstream, gap, queueVars>>
      /\ faults' \in 0..MaxFaults /\ LedgerType'
      /\ \/ Posts(op) /\ (Goto(w, l) \/ Goto(w, m))
         \/ UNCHANGED <<claims, applied>> /\ Goto(w, m)
  BY LedgerCallFacts, SubmitterIsOther DEF TypeOK, Operations
<1>2. PICK k \in {l, m} :
        /\ pc' \in [Procs -> PCs] /\ pc'[w] = k
        /\ \A q \in Procs \ {w} : pc'[q] = pc[q]
        /\ k # m => Posts(op)
  BY <1>1, GotoFacts, SubmitterIsOther DEF TypeOK
<1>3. TypeOK'
  BY <1>1, <1>2 DEF TypeOK, QueueType, queueVars
<1>4. /\ applied \subseteq applied'
      /\ Charged' => Charged \/ op = "capture"
      /\ Refunded' => Refunded \/ op = "release"
  BY <1>1 DEF Posts, Charged, Refunded
<1>5. Reliable(w)'
  <2>1. k = "mark" => Charged'
    BY <1>2 DEF Posts, HoldInv, Charged
  <2> QED BY <1>1, <1>2, <2>1 DEF Reliable, Ended, Terminal, Low
<1>6. LockInv' /\ WorkerInv'
  BY <1>1, <1>2, <1>5, OthersKeep DEF queueVars
<1>7. pc'[Submitter] = pc[Submitter]
  BY <1>2, SubmitterIsOther
<1>8. SubmitInv'
  BY <1>1, <1>4, <1>7 DEF SubmitInv, Settled
<1>9. UpstreamInv'
  BY <1>1, <1>7 DEF UpstreamInv, Settled
<1>10. HoldInv'
  <2>1. claims' \cap {"hold", "capture"} \subseteq applied'
    BY <1>1 DEF Posts, HoldInv
  <2>2. Charged' \/ Refunded' => "hold" \in applied'
    <3>1. op = "capture" => "hold" \in applied
      BY DEF SubmitInv
    <3> QED BY <1>1, <1>4, <3>1 DEF Posts, HoldInv, Refunded
  <2>3. Low' /\ Charged' => row'.status \in {"settling"} \cup Settled
    BY <1>1, <1>4 DEF HoldInv, Low
  <2>4. Low' /\ Refunded' =>
          \/ row'.status \in Ended
          \/ /\ ~row'.named
             /\ pc'[Submitter] \notin
                  {"create", "reserve", "items", "upload", "provider", "record"}
    BY <1>1, <1>4, <1>7 DEF HoldInv, Low
  <2>5. CompletedIsCharged'
    BY <1>1, <1>4 DEF HoldInv, CompletedIsCharged, Charged
  <2>6. \A p \in Users \cup {Recovery} :
          pc'[p] = "release" => row'.status \in Ended
    BY <1>1, <1>2, SubmitterIsOther DEF HoldInv
  <2> QED BY <2>1, <2>2, <2>3, <2>4, <2>5, <2>6 DEF HoldInv
<1>11. QueueInv'
  BY <1>1, <1>7, QueueKeeps DEF Queued, queueVars
<1>12. EndStays
  BY <1>1 DEF EndStays
<1> QED BY <1>3, <1>6, <1>8, <1>9, <1>10, <1>11, <1>12 DEF Preserves

\* The worker's calls of the queue change nothing of the job.
LEMMA WorkerQueues ==
  ASSUME IInv, NEW w \in Workers,
         ReserveJob(w) \/ LockJob(w) \/ Return(w) \/ Unlock(w)
  PROVE  Preserves
<1> USE DEF IInv
<1>1. UNCHANGED <<claims, applied, row, upstream, gap>>
  BY DEF ReserveJob, LockJob, Return, Unlock, ledgerVars, jobVars
<1>2. faults' \in 0..MaxFaults
  BY FaultFacts DEF ReserveJob, LockJob, Return, Unlock, TypeOK, Fine, Fault
<1>3. PICK l \in {"lock", "pipeline", "requeue", "unlock", "idle"} :
        /\ Goto(w, l)
        /\ l = "pipeline" => lock = Free /\ lock' = w
  BY DEF ReserveJob, LockJob, Return, Unlock, TryAcquireJobLock
<1>4. /\ pc' \in [Procs -> PCs] /\ pc'[w] = l
      /\ \A q \in Procs \ {w} : pc'[q] = pc[q]
  BY <1>3, GotoFacts, SubmitterIsOther DEF TypeOK, PCs
<1>5. QueueType'
  <2>1. CASE ReserveJob(w)
    BY <2>1 DEF ReserveJob, Reserve, TypeOK, QueueType
  <2>2. CASE LockJob(w)
    BY <2>2 DEF LockJob, TryAcquireJobLock, TypeOK, QueueType, queueVars,
       listVars
  <2>3. CASE Return(w)
    BY <2>3 DEF Return, RequeueAfter, Ack, TypeOK, QueueType, queueVars
  <2>4. CASE Unlock(w)
    BY <2>4 DEF Unlock, ReleaseJobLock, TypeOK, QueueType, listVars
  <2> QED BY <2>1, <2>2, <2>3, <2>4
<1>6. TypeOK'
  BY <1>1, <1>2, <1>4, <1>5 DEF TypeOK, LedgerType
<1>7. LockInv'
  <2>1. \A v \in Workers \ {w} : pc'[v] = pc[v]
    BY <1>4, SubmitterIsOther
  <2>2. lock' = lock \/ lock = Free \/ lock = w
    BY DEF ReserveJob, LockJob, Return, Unlock, Reserve, TryAcquireJobLock,
       RequeueAfter, Ack, ReleaseJobLock, queueVars
  <2>3. \A v \in Workers \ {w} : Processing(v) => lock' = v
    BY <2>2, LockAssumption DEF LockInv
  <2>4. Processing(w)' => lock' = w
    BY <1>3, <1>4 DEF Processing
  <2> QED BY <2>1, <2>3, <2>4 DEF LockInv, Processing
<1>8. WorkerInv'
  <2>1. ASSUME NEW v \in Workers, v # w PROVE Reliable(v)'
    BY <1>1, <1>4, <2>1, SubmitterIsOther
    DEF WorkerInv, Reliable, Low, Charged
  <2>2. Reliable(w)'
    BY <1>3, <1>4 DEF Reliable
  <2> QED BY <2>1, <2>2 DEF WorkerInv
<1>9. pc'[Submitter] = pc[Submitter]
  BY <1>4, SubmitterIsOther
<1>10. SubmitInv' /\ UpstreamInv' /\ HoldInv'
  BY <1>1, <1>4, QuietStep
<1>11. QueueInv'
  <2>1. CASE ReserveJob(w)
    BY <1>1, <1>9, <2>1
    DEF ReserveJob, Reserve, QueueInv, NotForgotten, Queued
  <2>2. CASE LockJob(w) \/ Unlock(w)
    BY <1>1, <1>9, <2>2, QueueKeeps
    DEF LockJob, Unlock, TryAcquireJobLock, ReleaseJobLock, Queued, queueVars,
        listVars
  <2>3. CASE Return(w)
    <3>1. CASE UNCHANGED queueVars
      BY <1>1, <1>9, <3>1, QueueKeeps DEF Queued, queueVars
    <3>2. CASE RequeueAfter
      BY <1>1, <1>9, <3>2 DEF RequeueAfter, QueueInv, NotForgotten, Queued
    <3>3. CASE Ack /\ pc[w] = "ack"
      <4>1. row.status \in Terminal
        BY <3>3 DEF WorkerInv, Reliable
      <4> QED BY <1>1, <3>3, <4>1 DEF Ack, QueueInv, NotForgotten
    <3> QED BY <2>3, <3>1, <3>2, <3>3 DEF Return
  <2> QED BY <2>1, <2>2, <2>3
<1>12. EndStays
  BY <1>1 DEF EndStays
<1> QED BY <1>6, <1>7, <1>8, <1>10, <1>11, <1>12 DEF Preserves

LEMMA WorkerReads ==
  ASSUME IInv, NEW w \in Workers,
         \/ ReadPipeline(w) \/ ReadProcess(w) \/ ReadFails(w) \/ Poll(w)
         \/ ReadSettle(w) \/ Recheck(w)
  PROVE  Preserves
<1> USE DEF IInv
<1>1. /\ UNCHANGED <<claims, applied, row, upstream, gap, queueVars>>
      /\ Processing(w)
  BY DEF ReadPipeline, ReadProcess, ReadFails, Poll, ReadSettle, Recheck, Move,
     ledgerVars, jobVars, Processing
<1>2. faults' \in 0..MaxFaults
  BY FaultFacts
  DEF ReadPipeline, ReadProcess, ReadFails, Poll, ReadSettle, Recheck, Move,
      TypeOK, Fine, Fault
<1>3. row.status \in Statuses
  BY RowFields DEF TypeOK
<1>4. Reliable(w) /\ w \in Procs
  BY SubmitterIsOther DEF WorkerInv
<1>5. pc \in [Procs -> PCs]
  BY DEF TypeOK
<1>6. ASSUME ReadPipeline(w) PROVE Preserves
  <2>1. PICK l \in PCs :
          /\ Goto(w, l) /\ l \in {"settle", "process"}
          /\ l = "settle" <=> row.status = "settling"
    BY <1>6 DEF ReadPipeline, Move, PCs
  <2>2. pc'[w] = l
    BY <1>4, <1>5, <2>1, GotoFacts
  <2>3. Reliable(w)'
    BY <1>1, <2>1, <2>2 DEF Reliable
  <2> QED BY <1>1, <1>2, <2>1, <2>3, WorkerMoves
<1>7. ASSUME ReadProcess(w) PROVE Preserves
  <2>1. PICK l \in PCs :
          /\ Goto(w, l) /\ l \in {"release", "ack", "requeue", "index", "poll"}
          /\ l = "release" => row.status \in Ended
          /\ l = "ack" => row.status \in Terminal \cup {"settling"}
          /\ l = "index" => row.status = "indexing"
          /\ l = "poll" =>
               /\ row.named
               /\ row.status \notin Terminal \cup {"settling", "indexing"}
    BY <1>7 DEF ReadProcess, Move, PCs, Ended
  <2>2. pc'[w] = l
    BY <1>4, <1>5, <2>1, GotoFacts
  <2>3. pc[w] = "process" /\ row.status # "settling"
    BY <1>4, <1>7 DEF ReadProcess, Move, Reliable
  <2>4. l = "poll" => row.status \in {"submitted", "running"}
    BY <1>3, <2>1 DEF SubmitInv, Statuses, Unsubmitted
  <2>5. Reliable(w)'
    BY <1>1, <2>1, <2>2, <2>3, <2>4 DEF Reliable
  <2> QED BY <1>1, <1>2, <2>1, <2>5, WorkerMoves
<1>8. ASSUME Poll(w) PROVE Preserves
  <2>1. /\ row.named /\ row.status \in {"submitted", "running"} \cup Ended
        /\ upstream # "none"
    BY <1>4, <1>8 DEF Poll, Reliable, SubmitInv
  <2>2. PICK l \in PCs :
          /\ Goto(w, l)
          /\ l \in {"requeue", "running", "succeeded", "failed", "cancelled"}
          /\ l \in {"succeeded", "failed", "cancelled"} => upstream # "live"
    BY <1>8, <2>1 DEF Poll, PCs, TypeOK
  <2>3. pc'[w] = l
    BY <1>4, <1>5, <2>2, GotoFacts
  <2>4. Reliable(w)'
    BY <1>1, <2>1, <2>2, <2>3 DEF Reliable
  <2> QED BY <1>1, <1>2, <2>2, <2>4, WorkerMoves
<1>9. ASSUME ReadSettle(w) PROVE Preserves
  <2>1. row.status = "settling"
    BY <1>4, <1>9 DEF ReadSettle, Move, Reliable
  <2>2. PICK l \in PCs :
          /\ Goto(w, l)
          /\ l \in {"requeue", "exhaustRelease", "recordInvalid", "capture"}
          /\ l = "exhaustRelease" => Exhausted
    BY <1>9, <2>1 DEF ReadSettle, Move, PCs
  <2>3. pc'[w] = l
    BY <1>4, <1>5, <2>2, GotoFacts
  <2>4. Exhausted => ~Low
    BY JobAssumption, RowFields DEF Exhausted, Low, TypeOK
  <2>5. Reliable(w)'
    BY <1>1, <2>1, <2>2, <2>3, <2>4 DEF Reliable, Low
  <2> QED BY <1>1, <1>2, <2>2, <2>5, WorkerMoves
<1>10. ASSUME Recheck(w) PROVE Preserves
  <2>1. PICK l \in PCs :
          /\ Goto(w, l) /\ l \in {"ack", "requeue"}
          /\ l = "ack" => row.status \in Terminal
    BY <1>10 DEF Recheck, Move, PCs
  <2>2. pc'[w] = l
    BY <1>4, <1>5, <2>1, GotoFacts
  <2>3. Reliable(w)'
    BY <1>1, <2>1, <2>2 DEF Reliable
  <2> QED BY <1>1, <1>2, <2>1, <2>3, WorkerMoves
<1>11. ASSUME ReadFails(w) PROVE Preserves
  <2>1. Goto(w, "requeue") /\ "requeue" \in PCs
    BY <1>11 DEF ReadFails, PCs
  <2>2. pc'[w] = "requeue"
    BY <1>4, <1>5, <2>1, GotoFacts
  <2>3. Reliable(w)'
    BY <2>2 DEF Reliable
  <2> QED BY <1>1, <1>2, <2>1, <2>3, WorkerMoves
<1> QED BY <1>6, <1>7, <1>8, <1>9, <1>10, <1>11

LEMMA WorkerLedgers ==
  ASSUME IInv, NEW w \in Workers,
         WorkerRelease(w) \/ Capture(w) \/ ExhaustRelease(w)
  PROVE  Preserves
<1>1. Reliable(w)
  BY DEF IInv, WorkerInv
<1>2. /\ "ack" \in PCs /\ "requeue" \in PCs /\ "mark" \in PCs
      /\ "recordBilling" \in PCs /\ "exhaustFail" \in PCs
      /\ "exhaustRecord" \in PCs
  BY DEF PCs
<1>3. CASE WorkerRelease(w)
  <2>1. pc[w] = "release" /\ Processing(w) /\ row.status \in Ended
    BY <1>1, <1>3 DEF WorkerRelease, Reliable, Processing
  <2>2. LedgerCall("release", Goto(w, "ack"), Goto(w, "requeue"))
    BY <1>3 DEF WorkerRelease
  <2> QED BY <1>2, <2>1, <2>2, WorkerLedger
<1>4. CASE Capture(w)
  <2>1. pc[w] = "capture" /\ Processing(w) /\ row.status = "settling"
    BY <1>1, <1>4 DEF Capture, Reliable, Processing
  <2>2. LedgerCall("capture", Goto(w, "mark"), Goto(w, "recordBilling"))
    BY <1>4 DEF Capture
  <2> QED BY <1>2, <2>1, <2>2, WorkerLedger
<1>5. CASE ExhaustRelease(w)
  <2>1. pc[w] = "exhaustRelease" /\ Processing(w) /\ row.status = "settling"
        /\ ~Low
    BY <1>1, <1>5 DEF ExhaustRelease, Reliable, Processing
  <2>2. LedgerCall("release", Goto(w, "exhaustFail"), Goto(w, "exhaustRecord"))
    BY <1>5 DEF ExhaustRelease
  <2> QED BY <1>2, <2>1, <2>2, WorkerLedger
<1> QED BY <1>3, <1>4, <1>5

\* Transition of a processing worker, to a status its place allows.
LEMMA WorkerTransition ==
  ASSUME IInv, NEW w \in Workers, NEW to \in Statuses, NEW l \in PCs,
         Transition(to, Goto(w, l), Goto(w, "requeue"), Goto(w, "requeue")),
         Processing(w),
         l \in {"requeue", "index", "release", "recheck"},
         l = "index" => to = "indexing",
         l = "release" => to \in Ended,
         \/ to = "running"
         \/ to = "cancelled" /\ row.named
         \/ to = "indexing" /\ upstream # "live"
         \/ to = "settling"
         \/ /\ to = "failed" /\ upstream # "live"
            /\ row.status \in {"submitted", "running", "indexing"} \cup Ended
         \/ to = "failed" /\ row.status = "settling" /\ ~Low
  PROVE  Preserves
<1> USE DEF IInv
<1>1. /\ w \in Procs /\ row \in RowType /\ row.status \in Statuses
      /\ faults \in 0..MaxFaults /\ pc \in [Procs -> PCs] /\ "requeue" \in PCs
  BY SubmitterIsOther, RowFields DEF TypeOK, PCs
<1>2. /\ UNCHANGED <<claims, applied, upstream, gap, queueVars>>
      /\ faults' \in 0..MaxFaults /\ row' \in RowType
      /\ \/ /\ CanTransition(row.status, to) /\ Becomes(to) /\ Goto(w, l)
         \/ UNCHANGED row /\ Goto(w, "requeue")
  BY <1>1, TransitionFacts
<1>3. CASE UNCHANGED row /\ Goto(w, "requeue")
  <2>1. pc'[w] = "requeue"
    BY <1>1, <1>3, GotoFacts
  <2>2. Reliable(w)'
    BY <2>1 DEF Reliable
  <2> QED BY <1>1, <1>2, <1>3, <2>2, WorkerMoves
<1>4. CASE CanTransition(row.status, to) /\ Becomes(to) /\ Goto(w, l)
  <2>1. pc'[w] = l
    BY <1>1, <1>4, GotoFacts
  <2>2. Reliable(w)'
    BY <1>4, <2>1 DEF Reliable, Becomes
  <2>3. Low' => Low
    BY <1>4 DEF Becomes, Low
  <2>4. CASE to \in {"running", "indexing"}
    <3>1. row.status \in {"submitted", "running"}
      BY <1>1, <1>4, <2>4, CanFacts
    <3>2. WorkerRowChange
      BY <1>2, <1>4, <2>3, <2>4, <3>1 DEF WorkerRowChange, Becomes
    <3> QED BY <1>2, <1>4, <2>2, <3>2, WorkerChanges
  <2>5. CASE to = "cancelled"
    <3>1. row.status \in {"submitted", "running"}
      BY <1>1, <1>4, <2>5, CanFacts DEF SubmitInv
    <3>2. WorkerRowChange
      BY <1>2, <1>4, <2>3, <2>5, <3>1 DEF WorkerRowChange, Becomes
    <3> QED BY <1>2, <1>4, <2>2, <3>2, WorkerChanges
  <2>6. CASE to = "settling"
    <3>1. row.status = "indexing"
      BY <1>1, <1>4, <2>6, CanFacts
    <3>2. WorkerRowChange
      BY <1>2, <1>4, <2>3, <2>6, <3>1 DEF WorkerRowChange, Becomes
    <3> QED BY <1>2, <1>4, <2>2, <3>2, WorkerChanges
  <2>7. CASE to = "failed"
    <3>1. row.status \notin Terminal
      BY <1>1, <1>4, <2>7, CanFacts
    <3>2. WorkerRowChange
      BY <1>2, <1>4, <2>3, <2>7, <3>1
      DEF WorkerRowChange, Becomes, Ended, Terminal
    <3> QED BY <1>2, <1>4, <2>2, <3>2, WorkerChanges
  <2> QED BY <2>4, <2>5, <2>6, <2>7
<1> QED BY <1>2, <1>3, <1>4

LEMMA WorkerTransitions ==
  ASSUME IInv, NEW w \in Workers,
         ApplyAnswer(w) \/ IndexFails(w) \/ StartSettling(w) \/ ExhaustFail(w)
  PROVE  Preserves
<1> USE DEF IInv
<1>1. Reliable(w)
  BY DEF WorkerInv
<1>2. /\ {"running", "indexing", "failed", "cancelled", "settling"}
            \subseteq Statuses
      /\ {"requeue", "index", "release", "recheck"} \subseteq PCs
  BY DEF Statuses, Terminal, PCs
<1>3. ASSUME pc[w] = "running",
             Transition("running", Goto(w, "requeue"), Goto(w, "requeue"),
                        Goto(w, "requeue"))
      PROVE  Preserves
  BY <1>2, <1>3, WorkerTransition DEF Processing
<1>4. ASSUME pc[w] = "succeeded",
             Transition("indexing", Goto(w, "index"), Goto(w, "requeue"),
                        Goto(w, "requeue"))
      PROVE  Preserves
  <2>1. upstream # "live" /\ Processing(w)
    BY <1>1, <1>4 DEF Reliable, Processing
  <2> QED BY <1>2, <1>4, <2>1, WorkerTransition
<1>5. ASSUME pc[w] = "failed",
             Transition("failed", Goto(w, "release"), Goto(w, "requeue"),
                        Goto(w, "requeue"))
      PROVE  Preserves
  <2>1. /\ upstream # "live" /\ Processing(w)
        /\ row.status \in {"submitted", "running"} \cup Ended
    BY <1>1, <1>5 DEF Reliable, Processing
  <2>2. "failed" \in Ended
    BY DEF Ended
  <2> QED BY <1>2, <1>5, <2>1, <2>2, WorkerTransition
<1>6. ASSUME pc[w] = "cancelled",
             Transition("cancelled", Goto(w, "release"), Goto(w, "requeue"),
                        Goto(w, "requeue"))
      PROVE  Preserves
  <2>1. row.named /\ Processing(w) /\ "cancelled" \in Ended
    BY <1>1, <1>6 DEF Reliable, Processing, Ended
  <2> QED BY <1>2, <1>6, <2>1, WorkerTransition
<1>7. ASSUME IndexFails(w) PROVE Preserves
  <2>1. pc[w] = "index" /\ row.status = "indexing" /\ Processing(w)
    BY <1>1, <1>7 DEF IndexFails, Reliable, Processing
  <2>2. upstream # "live" /\ "failed" \in Ended
    BY <2>1 DEF UpstreamInv, Ended
  <2>3. Transition("failed", Goto(w, "release"), Goto(w, "requeue"),
                   Goto(w, "requeue"))
    BY <1>7 DEF IndexFails
  <2> QED BY <1>2, <2>1, <2>2, <2>3, WorkerTransition
<1>8. ASSUME StartSettling(w) PROVE Preserves
  <2>1. Processing(w)
    BY <1>8 DEF StartSettling, Processing
  <2>2. Transition("settling", Goto(w, "requeue"), Goto(w, "requeue"),
                   Goto(w, "requeue"))
    BY <1>8 DEF StartSettling
  <2> QED BY <1>2, <2>1, <2>2, WorkerTransition
<1>9. ASSUME ExhaustFail(w) PROVE Preserves
  <2>1. Processing(w) /\ row.status = "settling" /\ ~Low
    BY <1>1, <1>9 DEF ExhaustFail, Reliable, Processing
  <2>2. Transition("failed", Goto(w, "recheck"), Goto(w, "requeue"),
                   Goto(w, "requeue"))
    BY <1>9 DEF ExhaustFail
  <2> QED BY <1>2, <2>1, <2>2, WorkerTransition
<1> QED BY <1>3, <1>4, <1>5, <1>6, <1>7, <1>8, <1>9 DEF ApplyAnswer

LEMMA IndexStep ==
  ASSUME IInv, NEW w \in Workers, IndexItems(w)
  PROVE  Preserves
<1> USE DEF IInv
<1>1. /\ pc[w] = "index" /\ row.status = "indexing" /\ Processing(w)
      /\ row \in RowType /\ w \in Procs /\ pc \in [Procs -> PCs]
      /\ "startSettling" \in PCs /\ "requeue" \in PCs
  BY SubmitterIsOther
  DEF IndexItems, WorkerInv, Reliable, Processing, TypeOK, PCs
<1>2. /\ UNCHANGED <<claims, applied, upstream, gap, queueVars>>
      /\ faults' \in 0..MaxFaults
      /\ \/ /\ \E p \in BOOLEAN : row' = [row EXCEPT !.payable = p]
            /\ Goto(w, "startSettling")
         \/ UNCHANGED row /\ Goto(w, "requeue")
  BY FaultFacts DEF IndexItems, TypeOK, ledgerVars, Fine, Fault
<1>3. CASE UNCHANGED row /\ Goto(w, "requeue")
  <2>1. pc'[w] = "requeue"
    BY <1>1, <1>3, GotoFacts
  <2>2. Reliable(w)'
    BY <2>1 DEF Reliable
  <2> QED BY <1>1, <1>2, <1>3, <2>2, WorkerMoves
<1>4. CASE /\ \E p \in BOOLEAN : row' = [row EXCEPT !.payable = p]
           /\ Goto(w, "startSettling")
  <2>1. PICK p \in BOOLEAN : row' = [row EXCEPT !.payable = p]
    BY <1>4
  <2>2. row' \in RowType
    BY ONLY <1>1, <2>1 DEF RowType
  <2>3. /\ row'.status = row.status /\ row'.named = row.named
        /\ row'.retries = row.retries
    BY ONLY <1>1, <2>1 DEF RowType
  <2>4. pc'[w] = "startSettling"
    BY <1>1, <1>4, GotoFacts
  <2>5. Reliable(w)'
    BY <1>1, <2>3, <2>4 DEF Reliable
  <2>6. WorkerRowChange
    BY <1>1, <2>2, <2>3 DEF WorkerRowChange, Low
  <2> QED BY <1>1, <1>2, <1>4, <2>5, <2>6, WorkerChanges
<1> QED BY <1>2, <1>3, <1>4

LEMMA MarkStep ==
  ASSUME IInv, NEW w \in Workers, MarkSettled(w)
  PROVE  Preserves
<1> USE DEF IInv
<1>1. /\ pc[w] = "mark" /\ row.status = "settling" /\ Processing(w) /\ Charged
      /\ row \in RowType /\ w \in Procs /\ pc \in [Procs -> PCs]
      /\ "ack" \in PCs /\ "requeue" \in PCs
  BY SubmitterIsOther
  DEF MarkSettled, WorkerInv, Reliable, Processing, TypeOK, PCs
<1>2. /\ UNCHANGED <<claims, applied, upstream, gap, queueVars>>
      /\ faults' \in 0..MaxFaults
      /\ \/ /\ row' = [row EXCEPT !.status = "completed", !.fresh = TRUE]
            /\ Goto(w, "ack")
         \/ UNCHANGED row /\ Goto(w, "requeue")
  BY FaultFacts DEF MarkSettled, RowCall, TypeOK, ledgerVars, Fine, Fault
<1>3. CASE UNCHANGED row /\ Goto(w, "requeue")
  <2>1. pc'[w] = "requeue"
    BY <1>1, <1>3, GotoFacts
  <2>2. Reliable(w)'
    BY <2>1 DEF Reliable
  <2> QED BY <1>1, <1>2, <1>3, <2>2, WorkerMoves
<1>4. CASE /\ row' = [row EXCEPT !.status = "completed", !.fresh = TRUE]
           /\ Goto(w, "ack")
  <2>1. row' \in RowType
    BY ONLY <1>1, <1>4 DEF RowType, Statuses, Terminal
  <2>2. /\ row'.status = "completed" /\ row'.named = row.named
        /\ row'.retries = row.retries
    BY ONLY <1>1, <1>4 DEF RowType
  <2>3. pc'[w] = "ack"
    BY <1>1, <1>4, GotoFacts
  <2>4. Reliable(w)'
    BY <2>2, <2>3 DEF Reliable, Terminal
  <2>5. WorkerRowChange
    BY <1>1, <2>1, <2>2 DEF WorkerRowChange, Low
  <2> QED BY <1>1, <1>2, <1>4, <2>4, <2>5, WorkerChanges
<1> QED BY <1>2, <1>3, <1>4

\* One more failure on the row.
LEMMA CountedRow ==
  ASSUME row \in RowType, row' = Counted
  PROVE  /\ row' \in RowType /\ row'.status = row.status
         /\ row'.named = row.named
         /\ row'.retries = IF row.retries > MaxRetries THEN row.retries
                           ELSE row.retries + 1
<1> DEFINE n == IF row.retries > MaxRetries THEN row.retries ELSE row.retries + 1
<1>1. n \in 0..(MaxRetries + 1)
  BY JobAssumption, RowFields
<1>2. row' = [row EXCEPT !.retries = n, !.settleCode = TRUE, !.fresh = TRUE]
  BY DEF Counted
<1> HIDE DEF n
<1>3. row' \in RowType
  BY ONLY row \in RowType, <1>1, <1>2 DEF RowType
<1>4. row'.status = row.status /\ row'.named = row.named
  BY ONLY row \in RowType, <1>2 DEF RowType
<1>5. row'.retries = n
  BY ONLY row \in RowType, <1>2 DEF RowType
<1> QED BY <1>3, <1>4, <1>5 DEF n

LEMMA RecordSteps ==
  ASSUME IInv, NEW w \in Workers, RecordFailure(w) \/ ExhaustRecord(w)
  PROVE  Preserves
<1> USE DEF IInv
<1>1. /\ row.status = "settling" /\ Processing(w)
      /\ row \in RowType /\ w \in Procs /\ pc \in [Procs -> PCs]
  BY SubmitterIsOther
  DEF RecordFailure, ExhaustRecord, WorkerInv, Reliable, Processing, TypeOK
<1>2. /\ UNCHANGED <<claims, applied, upstream, gap, queueVars>>
      /\ faults' \in 0..MaxFaults
  BY FaultFacts
  DEF RecordFailure, ExhaustRecord, CountCall, TypeOK, ledgerVars, Fine, Fault
<1>3. PICK l \in PCs :
        /\ Goto(w, l) /\ l \in {"requeue", "recheck", "exhaustRelease"}
        /\ row' = Counted \/ row' = row
        /\ l = "exhaustRelease" =>
             row' = Counted /\ Counted.retries >= MaxRetries
  BY DEF RecordFailure, ExhaustRecord, CountCall, PCs
<1>4. /\ row' \in RowType /\ row'.status = row.status
      /\ row'.named = row.named
  BY <1>1, <1>3, CountedRow
<1>5. Low' => Low
  BY <1>1, <1>3, CountedRow, RowFields, JobAssumption DEF Low
<1>6. l = "exhaustRelease" => ~Low'
  BY <1>3, <1>4, RowFields, JobAssumption DEF Low, RowType
<1>7. pc'[w] = l
  BY <1>1, <1>3, GotoFacts
<1>8. Reliable(w)'
  BY <1>1, <1>3, <1>4, <1>6, <1>7 DEF Reliable
<1>9. WorkerRowChange
  BY <1>1, <1>4, <1>5 DEF WorkerRowChange
<1> QED BY <1>1, <1>2, <1>3, <1>8, <1>9, WorkerChanges

LEMMA WorkerStepKeeps ==
  ASSUME IInv, NEW w \in Workers, WorkerStep(w)
  PROVE  Preserves
BY WorkerReads, WorkerLedgers, WorkerTransitions, IndexStep, MarkStep,
   RecordSteps, WorkerQueues
DEF WorkerStep, ProviderStep, SettleStep

-----------------------------------------------------------------------------
(* What runs beside the calls and the workers.                             *)

\* A step that only disturbs the queue's lists.
LEMMA ListsMove ==
  ASSUME IInv, UNCHANGED <<claims, applied, row, upstream, gap, pc, lock>>,
         faults' \in 0..MaxFaults, QueueType', inflight' = inflight, Queued'
  PROVE  Preserves
<1> USE DEF IInv
<1>1. TypeOK'
  BY DEF TypeOK, LedgerType
<1>2. LockInv' /\ WorkerInv'
  BY DEF LockInv, WorkerInv, Reliable, Processing, Low, Charged
<1>3. SubmitInv' /\ UpstreamInv' /\ HoldInv'
  BY QuietStep
<1>4. QueueInv'
  BY DEF QueueInv, NotForgotten
<1>5. EndStays
  BY DEF EndStays
<1> QED BY <1>1, <1>2, <1>3, <1>4, <1>5 DEF Preserves

LEMMA MoversKeep ==
  ASSUME IInv, DelayedMover \/ StaleActive
  PROVE  Preserves
<1>1. /\ UNCHANGED <<claims, applied, row, upstream, gap, pc, lock>>
      /\ inflight' = inflight
  BY DEF DelayedMover, StaleActive, MoveDueDelayed, RecoverStaleActive,
     ledgerVars, jobVars
<1>2. faults' \in 0..MaxFaults
  BY FaultFacts DEF DelayedMover, StaleActive, IInv, TypeOK, Fine, Fault
<1>3. ready \in Nat /\ ready' = ready + 1
  BY DEF DelayedMover, StaleActive, MoveDueDelayed, RecoverStaleActive, IInv,
     TypeOK, QueueType
<1>4. Queued'
  BY <1>3 DEF Queued
<1>5. QueueType'
  <2>1. delayed' \in BOOLEAN /\ active' \in BOOLEAN
    BY DEF DelayedMover, StaleActive, MoveDueDelayed, RecoverStaleActive, IInv,
       TypeOK, QueueType
  <2> QED BY <1>1, <1>3, <2>1 DEF IInv, TypeOK, QueueType
<1> QED BY <1>1, <1>2, <1>4, <1>5, ListsMove

\* Only the lock of a dead worker expires.
LEMMA LockExpiresKeeps ==
  ASSUME IInv, LockExpires, "expire" \notin Faults
  PROVE  Preserves
<1> USE DEF IInv
<1>1. /\ UNCHANGED <<claims, applied, row, upstream, gap, pc>>
      /\ UNCHANGED <<ready, delayed, active, inflight, faults>>
      /\ lock = Orphan /\ lock' = Free
  BY DEF LockExpires, Fault, Fine, ledgerVars, jobVars, listVars
<1>2. TypeOK'
  BY <1>1 DEF TypeOK, LedgerType, QueueType
<1>3. LockInv' /\ WorkerInv'
  <2>1. \A w \in Workers : ~Processing(w)
    BY <1>1, LockAssumption DEF LockInv
  <2>2. LockInv'
    BY <1>1, <2>1 DEF LockInv, Processing
  <2>3. WorkerInv'
    BY <1>1 DEF WorkerInv, Reliable, Low, Charged
  <2> QED BY <2>2, <2>3
<1>4. SubmitInv' /\ UpstreamInv' /\ HoldInv'
  BY <1>1, QuietStep
<1>5. QueueInv'
  BY <1>1 DEF QueueInv, NotForgotten, Queued
<1>6. EndStays
  BY <1>1 DEF EndStays
<1> QED BY <1>2, <1>3, <1>4, <1>5, <1>6 DEF Preserves

\* The passing of time, the provider's own progress, what the worker misses and
\* the cleanup of outputs.
EnvironmentStep ==
    Age \/ UpstreamEnds \/ GapOpens \/ GapCloses \/ CleanupOutput

LEMMA EnvironmentKeeps ==
  ASSUME IInv, EnvironmentStep
  PROVE  Preserves
<1> USE DEF IInv
<1>1. /\ UNCHANGED <<claims, applied, queueVars, pc>>
      /\ row \in RowType /\ row.status \in Statuses
  BY RowFields DEF EnvironmentStep, Age, UpstreamEnds, GapOpens, GapCloses,
     CleanupOutput, ledgerVars, TypeOK
<1>11. gap' \in Gaps /\ faults' \in 0..MaxFaults
  BY FaultFacts DEF EnvironmentStep, Age, UpstreamEnds, GapOpens, GapCloses,
     CleanupOutput, TypeOK, Gaps, Fault
<1>2. /\ row' \in RowType /\ row'.named = row.named
      /\ row'.retries = row.retries
      /\ \/ row'.status = row.status /\ (row' = row \/ row.status # "absent")
         \/ row.status = "completed" /\ row'.status = "output_deleted"
  <2>1. CASE Age
    <3>1. row' = [row EXCEPT !.fresh = FALSE] /\ row.status # "absent"
      BY <2>1 DEF Age, Unsubmitted
    <3>2. /\ row' \in RowType /\ row'.status = row.status
          /\ row'.named = row.named /\ row'.retries = row.retries
      BY ONLY <1>1, <3>1 DEF RowType
    <3> QED BY <3>1, <3>2
  <2>2. CASE UpstreamEnds \/ GapOpens \/ GapCloses
    BY <1>1, <2>2 DEF UpstreamEnds, GapOpens, GapCloses
  <2>3. CASE CleanupOutput
    <3>1. /\ row' = [row EXCEPT !.status = "output_deleted"]
          /\ row.status = "completed"
      BY <2>3 DEF CleanupOutput
    <3>2. row' \in RowType
      BY ONLY <1>1, <3>1 DEF RowType, Statuses, Terminal
    <3>3. /\ row'.status = "output_deleted" /\ row'.named = row.named
          /\ row'.retries = row.retries
      BY ONLY <1>1, <3>1 DEF RowType
    <3> QED BY <3>1, <3>2, <3>3
  <2> QED BY <2>1, <2>2, <2>3 DEF EnvironmentStep
<1>3. /\ upstream' \in {"none", "live", "done", "failed", "cancelled"}
      /\ upstream' = upstream \/ (upstream' \notin {"none", "live"})
  BY DEF EnvironmentStep, Age, UpstreamEnds, GapOpens, GapCloses,
     CleanupOutput, TypeOK
<1>4. TypeOK'
  BY <1>1, <1>2, <1>3, <1>11 DEF TypeOK, LedgerType, QueueType, queueVars
<1>5. LockInv' /\ WorkerInv'
  <2>1. Outside
    BY <1>1, <1>2, <1>3 DEF Outside, StatusOutside, queueVars
  <2> QED BY <2>1, OutsideKeeps
<1>6. SubmitInv'
  <2>1. pc'[Submitter] = "create" => row' = NoRow
    BY <1>1, <1>2 DEF SubmitInv, NoRow
  <2> QED BY <1>1, <1>2, <1>3, <2>1 DEF SubmitInv, Settled, Unsubmitted
<1>7. UpstreamInv'
  BY <1>1, <1>2, <1>3 DEF UpstreamInv, Settled
<1>8. HoldInv'
  BY <1>1, <1>2
  DEF HoldInv, Low, Charged, Refunded, CompletedIsCharged, Ended, Settled
<1>9. QueueInv'
  BY <1>1, <1>2, QueueKeeps DEF Queued, queueVars, Terminal
<1>10. EndStays
  BY <1>2 DEF EndStays, Terminal
<1> QED BY <1>4, <1>5, <1>6, <1>7, <1>8, <1>9, <1>10 DEF Preserves

\* A process that dies leaves its lock to its TTL, and everything else.
LEMMA CrashKeeps ==
  ASSUME IInv, NEW p \in Procs, Crash(p)
  PROVE  Preserves
<1> USE DEF IInv
<1>1. /\ UNCHANGED <<claims, applied, row, upstream, gap>>
      /\ UNCHANGED <<ready, delayed, active, inflight>>
      /\ lock' = IF lock = p THEN Orphan ELSE lock
      /\ pc[p] \notin {"idle", "done", "orphaned", "unqueued", "crashed"}
  BY DEF Crash, ledgerVars, jobVars, listVars
<1>2. faults' \in 0..MaxFaults
  BY FaultFacts DEF Crash, TypeOK, Fault
<1>3. PICK l \in {"idle", "crashed"} :
        /\ Goto(p, l)
        /\ l = "crashed" <=> p \notin Workers \cup {Recovery}
  BY DEF Crash
<1>4. /\ pc' \in [Procs -> PCs] /\ pc'[p] = l
      /\ \A q \in Procs \ {p} : pc'[q] = pc[q]
  BY <1>3, GotoFacts DEF TypeOK, PCs
<1>5. TypeOK'
  BY <1>1, <1>2, <1>4 DEF TypeOK, LedgerType, QueueType
<1>6. /\ pc'[Submitter] \in {pc[Submitter], "crashed"}
      /\ pc'[Submitter] # pc[Submitter] =>
           pc[Submitter] \notin {"idle", "done", "orphaned", "unqueued", "crashed"}
  BY <1>1, <1>3, <1>4, SubmitterIsOther
<1>7. LockInv' /\ WorkerInv'
  <2>1. ASSUME NEW w \in Workers, w # p
        PROVE  pc'[w] = pc[w] /\ (Processing(w) => lock' = w)
    BY <1>1, <1>4, <2>1, SubmitterIsOther DEF LockInv
  <2>2. ASSUME p \in Workers PROVE ~Processing(p)' /\ Reliable(p)'
    BY <1>3, <1>4, <2>2 DEF Processing, Reliable
  <2>3. LockInv'
    BY <2>1, <2>2 DEF LockInv, Processing
  <2>4. ASSUME NEW w \in Workers, w # p PROVE Reliable(w)'
    BY <1>1, <2>1, <2>4 DEF WorkerInv, Reliable, Low, Charged
  <2> QED BY <2>2, <2>3, <2>4 DEF WorkerInv
<1>8. SubmitInv'
  BY <1>1, <1>6 DEF SubmitInv, Settled
<1>9. UpstreamInv'
  BY <1>1, <1>6 DEF UpstreamInv, Settled
<1>10. HoldInv'
  <2>1. \A q \in Users \cup {Recovery} : pc'[q] = "release" => pc[q] = "release"
    BY <1>3, <1>4, SubmitterIsOther
  <2> QED BY <1>1, <1>6, <2>1
          DEF HoldInv, Low, Charged, Refunded, CompletedIsCharged
<1>11. QueueInv'
  BY <1>1, <1>6 DEF QueueInv, NotForgotten, Queued
<1>12. EndStays
  BY <1>1 DEF EndStays
<1> QED BY <1>5, <1>7, <1>8, <1>9, <1>10, <1>11, <1>12 DEF Preserves

-----------------------------------------------------------------------------
(* The first state.                                                        *)

LEMMA InitHolds == Init => IInv
<1> SUFFICES ASSUME Init PROVE IInv
  OBVIOUS
<1>1. /\ pc[Submitter] = "create"
      /\ \A p \in Procs \ {Submitter} : pc[p] = "idle"
      /\ row = NoRow /\ upstream = "none" /\ applied = {} /\ claims = {}
      /\ ~inflight /\ ready = 0 /\ lock = Free
  BY SubmitterIsOther DEF Init, LedgerInit, QueueInit
<1>2. /\ row.status = "absent" /\ ~row.named /\ row.retries = 0
  BY <1>1 DEF NoRow
<1>3. TypeOK
  <2>1. row \in RowType
    BY <1>1, JobAssumption DEF NoRow, RowType, Statuses
  <2>2. pc \in [Procs -> PCs]
    BY DEF Init, PCs
  <2>3. QueueType
    BY DEF Init, QueueInit, QueueType
  <2>4. LedgerType
    BY DEF Init, LedgerInit, LedgerType
  <2> QED BY <2>1, <2>2, <2>3, <2>4, JobAssumption DEF Init, TypeOK, Gaps
<1>4. LockInv
  BY <1>1, SubmitterIsOther DEF LockInv, Processing
<1>5. SubmitInv
  BY <1>1, <1>2 DEF SubmitInv, Settled
<1>6. UpstreamInv
  BY <1>1 DEF UpstreamInv
<1>7. WorkerInv
  BY <1>1, SubmitterIsOther DEF WorkerInv, Reliable
<1>8. HoldInv
  BY <1>1, <1>2, SubmitterIsOther
  DEF HoldInv, Charged, Refunded, CompletedIsCharged
<1>9. QueueInv
  BY <1>1 DEF QueueInv, NotForgotten
<1> QED BY <1>3, <1>4, <1>5, <1>6, <1>7, <1>8, <1>9 DEF IInv

-----------------------------------------------------------------------------
(* What needs no lock.  The status of the row, the job at the provider and *)
(* the claimed request ids keep these properties by themselves, even when  *)
(* a live worker loses its lock and two of them work on the job.           *)

UnlockedPreserves == UnlockedInv' /\ EndStays

LEMMA InformedStay ==
  ASSUME \A w \in Workers : Informed(w),
         NEW p \in Procs, \A w \in Workers \ {p} : pc'[w] = pc[w],
         p \in Workers => Informed(p)',
         applied \subseteq applied', row.named => row'.named,
         row.named /\ upstream # "live" => upstream' # "live"
  PROVE  \A w \in Workers : Informed(w)'
<1>1. SUFFICES ASSUME NEW w \in Workers, w # p PROVE Informed(w)'
  OBVIOUS
<1>2. Informed(w) /\ pc'[w] = pc[w]
  BY <1>1
<1> QED BY <1>2 DEF Informed, Charged, Answered

\* What a process other than Submit may do to the row: it leaves a name and an
\* end alone, and takes a step towards the end only of a job that is named and
\* over at the provider.
RowAdvances ==
    \/ row'.status = row.status
    \/ row.status \in Unsubmitted /\ row'.status = "failed"
    \/ row.status \notin Terminal /\ row'.status = "cancelled"
    \/ row.status \in {"submitted", "running"} /\ row'.status = "running"
    \/ /\ row.status \notin Terminal /\ row.named /\ upstream # "live"
       /\ row'.status \in {"indexing", "settling", "failed"}
    \/ /\ row.status = "settling" /\ Charged
       /\ row'.status = "completed"
    \/ row.status = "completed" /\ row'.status = "output_deleted"

LedgerAdvances ==
    (\E op \in Operations : Posts(op)) \/ UNCHANGED <<claims, applied>>

LEMMA LedgerGrows ==
  ASSUME LedgerAdvances, claims \cap {"hold", "capture"} \subseteq applied
  PROVE  /\ applied \subseteq applied'
         /\ claims' \cap {"hold", "capture"} \subseteq applied'
BY DEF LedgerAdvances, Posts, Operations

\* A step of anyone but Submit.
LEMMA BesideSubmit ==
  ASSUME UnlockedInv, NEW p \in Procs \ {Submitter}, NEW l \in PCs,
         Goto(p, l), LedgerType', QueueType', faults' \in 0..MaxFaults,
         LedgerAdvances, row' \in RowType, row'.named = row.named,
         row' = row \/ (row.status # "absent" /\ RowAdvances),
         \/ upstream' = upstream
         \/ upstream = "live" /\ upstream' \in {"done", "failed", "cancelled"},
         gap' = gap \/ gap' \in Gaps,
         p \in Workers =>
           /\ l \in {"poll", "running"} \cup Answered => row.named
           /\ l \in Answered => upstream' # "live"
           /\ l = "mark" => Charged'
  PROVE  UnlockedPreserves
<1> USE DEF UnlockedInv
<1>1. /\ pc' \in [Procs -> PCs] /\ pc'[p] = l
      /\ \A q \in Procs \ {p} : pc'[q] = pc[q]
  BY GotoFacts DEF TypeOK
<1>2. pc'[Submitter] = pc[Submitter]
  BY <1>1, SubmitterIsOther
<1>3. /\ applied \subseteq applied'
      /\ claims' \cap {"hold", "capture"} \subseteq applied'
  BY LedgerGrows
<1>4. TypeOK'
  BY <1>1 DEF TypeOK
<1>5. row' = row \/ row.status # "absent"
  OBVIOUS
<1>6. row' = row \/ RowAdvances
  OBVIOUS
<1>7. row.status \in Statuses
  BY RowFields DEF TypeOK
<1>8. SubmitInv'
  <2>1. pc'[Submitter] = "create" => row' = NoRow
    BY <1>2, <1>5 DEF SubmitInv, NoRow
  <2>2. row'.status \in {"submitted", "running", "indexing", "settling"}
                           \cup Settled => row'.named
    BY <1>6 DEF SubmitInv, RowAdvances, Settled
  <2>3. row'.named => row'.status \notin Unsubmitted \cup {"absent"}
    BY <1>6 DEF SubmitInv, RowAdvances, Unsubmitted
  <2> QED BY <1>2, <1>3, <2>1, <2>2, <2>3 DEF SubmitInv
<1>9. UpstreamInv'
  <2>1. row'.status \in {"indexing", "settling"} \cup Settled
          => upstream # "live"
    BY <1>6 DEF UpstreamInv, RowAdvances, Settled
  <2>2. row'.status = "failed" \/ ~row'.named =>
          \/ upstream # "live"
          \/ row.status = "failed" \/ ~row.named
    BY <1>6 DEF SubmitInv, RowAdvances
  <2> QED BY <1>2, <2>1, <2>2 DEF UpstreamInv
<1>10. \A w \in Workers : Informed(w)'
  <2>1. p \in Workers => Informed(p)'
    BY <1>1 DEF Informed
  <2>2. \A w \in Workers \ {p} : pc'[w] = pc[w]
    BY <1>1, SubmitterIsOther
  <2> QED BY <1>3, <2>1, <2>2, InformedStay
<1>11. CompletedIsCharged'
  BY <1>3, <1>6 DEF CompletedIsCharged, Charged, RowAdvances
<1>12. EndStays
  BY <1>6 DEF EndStays, RowAdvances, Terminal, Unsubmitted
<1> QED BY <1>3, <1>4, <1>8, <1>9, <1>10, <1>11, <1>12
        DEF UnlockedPreserves

\* A step of the environment, which moves no process.
LEMMA BesideAll ==
  ASSUME UnlockedInv, pc' = pc, LedgerType', QueueType',
         faults' \in 0..MaxFaults, LedgerAdvances, row' \in RowType,
         row'.named = row.named,
         row' = row \/ (row.status # "absent" /\ RowAdvances),
         \/ upstream' = upstream
         \/ upstream = "live" /\ upstream' \in {"done", "failed", "cancelled"},
         gap' = gap \/ gap' \in Gaps
  PROVE  UnlockedPreserves
<1>1. Recovery \in Procs \ {Submitter} /\ Recovery \notin Workers
  BY SubmitterIsOther
<1>2. pc[Recovery] \in PCs /\ Goto(Recovery, pc[Recovery])
  BY <1>1 DEF Goto, UnlockedInv, TypeOK
<1> QED BY <1>1, <1>2, BesideSubmit

\* A step of Submit, but for what depends on where Submit is.
LEMMA SubmitterStep ==
  ASSUME UnlockedInv, NEW l \in PCs, Goto(Submitter, l), gap' = gap,
         LedgerType', QueueType', faults' \in 0..MaxFaults,
         LedgerAdvances, row' \in RowType,
         upstream' \in {"none", "live", "done", "failed", "cancelled"},
         row.named => row'.named,
         row.named /\ upstream # "live" => upstream' # "live",
         SubmitInv', UpstreamInv',
         row'.status = row.status \/ row.status \notin Settled,
         row'.status \in Settled => row.status \in Settled,
         row.status \in Terminal => row'.status \in Terminal
  PROVE  UnlockedPreserves
<1> USE DEF UnlockedInv
<1>1. /\ pc' \in [Procs -> PCs]
      /\ \A q \in Procs \ {Submitter} : pc'[q] = pc[q]
  BY GotoFacts, SubmitterIsOther DEF TypeOK
<1>2. /\ applied \subseteq applied'
      /\ claims' \cap {"hold", "capture"} \subseteq applied'
  BY LedgerGrows
<1>3. TypeOK'
  BY <1>1 DEF TypeOK
<1>4. \A w \in Workers : Informed(w)'
  <2>1. /\ Submitter \in Procs /\ Submitter \notin Workers
        /\ \A w \in Workers \ {Submitter} : pc'[w] = pc[w]
    BY <1>1, SubmitterIsOther
  <2> QED BY <1>2, <2>1, InformedStay
<1>5. CompletedIsCharged'
  BY <1>2 DEF CompletedIsCharged, Charged, Settled
<1>6. EndStays
  BY DEF EndStays, Settled
<1> QED BY <1>2, <1>3, <1>4, <1>5, <1>6 DEF UnlockedPreserves

\* Submit goes on, or dies, and the status stays what it is.
LEMMA SubmitterMoves ==
  ASSUME UnlockedInv, NEW l \in PCs, Goto(Submitter, l), gap' = gap,
         LedgerType', QueueType', faults' \in 0..MaxFaults,
         LedgerAdvances, row' \in RowType,
         row'.status = row.status, row'.named = row.named,
         upstream' = upstream,
         pc[Submitter] # "create", l \notin {"create", "record"},
         l \in {"items", "upload", "provider"} => "hold" \in applied',
         row.named =>
           l \in {"enqueue", "queueFailed", "unqueued", "done", "crashed"},
         pc[Submitter] \in {"record", "abort", "orphaned", "crashed"} =>
           l \in {"abort", "orphaned", "crashed"}
  PROVE  UnlockedPreserves
<1> USE DEF UnlockedInv
<1>1. pc'[Submitter] = l
  BY GotoFacts, SubmitterIsOther DEF TypeOK
<1>2. applied \subseteq applied'
  BY LedgerGrows
<1>3. SubmitInv'
  BY <1>1, <1>2 DEF SubmitInv
<1>4. UpstreamInv'
  BY <1>1 DEF UpstreamInv
<1>5. upstream' \in {"none", "live", "done", "failed", "cancelled"}
  BY DEF TypeOK
<1> QED BY <1>3, <1>4, <1>5, SubmitterStep

\* A failed submission marks the job failed only before it is named.
LEMMA SubmitterFails ==
  ASSUME UnlockedInv, NEW l \in {"hide", "retry"},
         pc[Submitter] \in {"fail", "releaseFailed"},
         RecordSubmitFailure(TRUE, Goto(Submitter, l))
  PROVE  UnlockedPreserves
<1> USE DEF UnlockedInv
<1>1. /\ UNCHANGED <<claims, applied, queueVars, upstream, gap>>
      /\ faults' \in 0..MaxFaults /\ Goto(Submitter, l) /\ l \in PCs
      /\ \/ row' = [row EXCEPT !.status = "failed", !.fresh = TRUE,
                               !.settleCode = FALSE]
         \/ row' = row
  BY FaultFacts
  DEF RecordSubmitFailure, RowCall, ledgerVars, TypeOK, Fine, Fault, PCs
<1>2. LedgerType' /\ QueueType' /\ LedgerAdvances /\ row \in RowType
  BY <1>1 DEF TypeOK, LedgerType, QueueType, LedgerAdvances, queueVars
<1>3. ~row.named
  BY DEF SubmitInv
<1>4. row.status \notin Settled
  BY <1>3 DEF SubmitInv
<1>5. CASE row' = row
  BY <1>1, <1>2, <1>3, <1>5, SubmitterMoves
<1>6. CASE row' = [row EXCEPT !.status = "failed", !.fresh = TRUE,
                              !.settleCode = FALSE]
  <2>1. row' \in RowType
    BY ONLY <1>2, <1>6 DEF RowType, Statuses, Terminal
  <2>2. row'.status = "failed" /\ row'.named = row.named
    BY ONLY <1>2, <1>6 DEF RowType
  <2>3. pc'[Submitter] = l
    BY <1>1, GotoFacts, SubmitterIsOther DEF TypeOK
  <2>4. SubmitInv'
    BY <1>1, <1>3, <2>2, <2>3 DEF SubmitInv, Settled
  <2>5. UpstreamInv'
    BY <1>1, <1>3, <2>2, <2>3 DEF UpstreamInv, Settled
  <2>6. upstream' \in {"none", "live", "done", "failed", "cancelled"}
    BY <1>1 DEF TypeOK
  <2> QED BY <1>1, <1>2, <1>3, <1>4, <2>1, <2>2, <2>4, <2>5, <2>6,
             SubmitterStep DEF Settled, Terminal
<1> QED BY <1>1, <1>5, <1>6

LEMMA UnlockedSubmit ==
  ASSUME UnlockedInv, SubmitStep
  PROVE  UnlockedPreserves
<1>1. /\ row \in RowType /\ LedgerType /\ QueueType /\ faults \in 0..MaxFaults
      /\ upstream \in {"none", "live", "done", "failed", "cancelled"}
      /\ SubmitInv /\ UpstreamInv
      /\ claims \cap {"hold", "capture"} \subseteq applied
  BY DEF UnlockedInv, TypeOK
<1>2. Submitter \in Procs /\ pc \in [Procs -> PCs]
  BY SubmitterIsOther DEF UnlockedInv, TypeOK
<1>3. /\ "hold" \in Operations /\ "release" \in Operations
       /\ {"items", "fail", "done", "releaseFailed", "provider", "releaseOnly",
           "release"} \subseteq PCs
       /\ "uploading" \in Statuses
  BY DEF Operations, PCs, Statuses
<1>4. UNCHANGED <<claims, applied>> => LedgerType' /\ LedgerAdvances
  BY <1>1 DEF LedgerType, LedgerAdvances
<1>5. UNCHANGED queueVars => QueueType'
  BY <1>1 DEF QueueType, queueVars
<1>6. ASSUME NEW l \in PCs, Goto(Submitter, l) PROVE pc'[Submitter] = l
  BY <1>2, <1>6, GotoFacts
<1>7. pc[Submitter] \in {"create", "reserve", "items", "upload", "provider",
                         "record", "fail", "release", "releaseOnly", "abort",
                         "releaseFailed", "hide", "retry"} => ~row.named
  BY <1>1 DEF SubmitInv
<1>8. CASE Create
  <2>1. /\ UNCHANGED <<claims, applied, queueVars, upstream, gap, faults>>
        /\ Goto(Submitter, "reserve") /\ row = NoRow
    BY <1>1, <1>8 DEF Create, SubmitInv, ledgerVars
  <2>2. row' = [NoRow EXCEPT !.status = "created", !.fresh = TRUE]
    BY <1>8 DEF Create
  <2>3. row' \in RowType /\ row'.status = "created" /\ ~row'.named
    BY ONLY <1>1, <2>1, <2>2 DEF NoRow, RowType, Statuses
  <2>4. pc'[Submitter] = "reserve"
    BY <1>6, <2>1 DEF PCs
  <2>5. SubmitInv'
    BY <1>1, <2>3, <2>4 DEF SubmitInv, Settled
  <2>6. row.status = "absent" /\ ~row.named
    BY <2>1 DEF NoRow
  <2>7. UpstreamInv'
    BY <1>1, <1>8, <2>1, <2>3, <2>4, <2>6 DEF Create, UpstreamInv, Settled
  <2> QED BY <1>1, <1>4, <1>5, <2>1, <2>3, <2>5, <2>6, <2>7, SubmitterStep
          DEF PCs, Settled, Terminal
<1>9. CASE ReserveHold
  <2>1. /\ UNCHANGED <<row, upstream, gap, queueVars>>
        /\ faults' \in 0..MaxFaults /\ LedgerType'
        /\ \/ Posts("hold") /\ (Goto(Submitter, "items") \/ Goto(Submitter, "fail"))
           \/ UNCHANGED <<claims, applied>> /\ Goto(Submitter, "fail")
    <3>1. LedgerCall("hold", Goto(Submitter, "items"), Goto(Submitter, "fail"))
      BY <1>9 DEF ReserveHold
    <3> QED BY <1>1, <1>2, <1>3, <3>1, LedgerCallFacts
  <2>2. LedgerAdvances /\ (Posts("hold") => "hold" \in applied')
    <3>1. LedgerAdvances
      BY <1>3, <2>1 DEF LedgerAdvances
    <3> QED BY <1>1, <3>1 DEF Posts
  <2> QED BY <1>1, <1>5, <1>7, <1>9, <2>1, <2>2, SubmitterMoves
          DEF ReserveHold, PCs
<1>10. CASE SubmitRelease
  <2>1. PICK l \in {"fail", "done"} :
          LedgerCall("release", Goto(Submitter, l),
                     Goto(Submitter, "releaseFailed"))
    BY <1>10 DEF SubmitRelease
  <2>2. /\ UNCHANGED <<row, upstream, gap, queueVars>>
        /\ faults' \in 0..MaxFaults /\ LedgerType' /\ LedgerAdvances
        /\ Goto(Submitter, l) \/ Goto(Submitter, "releaseFailed")
    <3>1. l \in PCs /\ "releaseFailed" \in PCs
      BY <1>3
    <3>2. /\ UNCHANGED <<row, upstream, gap, queueVars>>
          /\ faults' \in 0..MaxFaults /\ LedgerType'
          /\ \/ /\ Posts("release")
                /\ Goto(Submitter, l) \/ Goto(Submitter, "releaseFailed")
             \/ UNCHANGED <<claims, applied>> /\ Goto(Submitter, "releaseFailed")
      BY <1>1, <1>2, <1>3, <2>1, <3>1, LedgerCallFacts
    <3> QED BY <1>3, <3>2 DEF LedgerAdvances
  <2> QED BY <1>1, <1>5, <1>7, <1>10, <2>2, SubmitterMoves
          DEF SubmitRelease, PCs
<1>11. CASE CreateItems
  <2>1. /\ UNCHANGED <<claims, applied, row, upstream, gap, queueVars>>
        /\ faults' \in 0..MaxFaults /\ pc[Submitter] = "items"
        /\ Goto(Submitter, "upload") \/ Goto(Submitter, "release")
    BY <1>1, <1>11, FaultFacts
    DEF CreateItems, Fine, Fault, ledgerVars, jobVars
  <2>2. "hold" \in applied'
    BY <1>1, <2>1 DEF SubmitInv
  <2> QED BY <1>1, <1>4, <1>5, <1>7, <2>1, <2>2, SubmitterMoves DEF PCs
<1>12. CASE StartUpload
  <2>1. /\ UNCHANGED <<claims, applied, upstream, gap, queueVars>>
        /\ faults' \in 0..MaxFaults /\ row' \in RowType
        /\ \/ /\ CanTransition(row.status, "uploading")
              /\ Becomes("uploading") /\ Goto(Submitter, "provider")
           \/ /\ UNCHANGED row
              /\ Goto(Submitter, "releaseOnly") \/ Goto(Submitter, "release")
    <3>1. Transition("uploading", Goto(Submitter, "provider"),
                     Goto(Submitter, "releaseOnly"), Goto(Submitter, "release"))
      BY <1>12 DEF StartUpload
    <3> QED BY <1>1, <1>2, <1>3, <3>1, TransitionFacts
  <2>2. pc[Submitter] = "upload" /\ ~row.named /\ "hold" \in applied
    BY <1>1, <1>12 DEF StartUpload, SubmitInv
  <2>3. CASE UNCHANGED row
    BY <1>1, <1>4, <1>5, <2>1, <2>2, <2>3, SubmitterMoves DEF PCs
  <2>4. CASE /\ CanTransition(row.status, "uploading")
             /\ Becomes("uploading") /\ Goto(Submitter, "provider")
    <3>1. row.status = "created"
      BY <1>1, <2>4, RowFields, CanFacts
    <3>2. row'.status = "uploading" /\ ~row'.named
      BY <2>2, <2>4 DEF Becomes
    <3>3. pc'[Submitter] = "provider"
      BY <1>6, <2>4 DEF PCs
    <3>4. SubmitInv'
      BY <1>1, <2>1, <2>2, <3>2, <3>3 DEF SubmitInv, Settled
    <3>5. UpstreamInv'
      BY <1>1, <2>1, <2>2, <3>2, <3>3 DEF UpstreamInv, Settled
    <3> QED BY <1>1, <1>4, <1>5, <2>1, <2>2, <2>4, <3>1, <3>2, <3>4, <3>5,
               SubmitterStep DEF PCs, Settled, Terminal
  <2> QED BY <2>1, <2>3, <2>4
<1>13. CASE SubmitUpstream
  <2>1. /\ pc[Submitter] = "provider" /\ "hold" \in applied
        /\ UNCHANGED <<claims, applied, queueVars, row, gap>>
        /\ faults' \in 0..MaxFaults
        /\ \/ upstream' = "live" /\ Goto(Submitter, "record")
           \/ UNCHANGED upstream /\ Goto(Submitter, "release")
    BY <1>1, <1>13, FaultFacts
    DEF SubmitUpstream, SubmitInv, ledgerVars, Fine, Fault
  <2>2. CASE UNCHANGED upstream /\ Goto(Submitter, "release")
    BY <1>1, <1>4, <1>5, <1>7, <2>1, <2>2, SubmitterMoves DEF PCs
  <2>3. CASE upstream' = "live" /\ Goto(Submitter, "record")
    <3>1. pc'[Submitter] = "record"
      BY <1>6, <2>3 DEF PCs
    <3>2. SubmitInv'
      BY <1>1, <1>7, <2>1, <2>3, <3>1 DEF SubmitInv
    <3>3. UpstreamInv'
      BY <1>1, <1>7, <2>1, <2>3, <3>1 DEF SubmitInv, UpstreamInv, Settled
    <3> QED BY <1>1, <1>4, <1>5, <1>7, <2>1, <2>3, <3>2, <3>3, SubmitterStep
            DEF PCs
  <2> QED BY <2>1, <2>2, <2>3
<1>14. CASE RecordSubmitted
  <2>1. /\ pc[Submitter] = "record"
        /\ UNCHANGED <<claims, applied, queueVars, upstream, gap>>
        /\ faults' \in 0..MaxFaults
        /\ \/ /\ CanTransition(row.status, "submitted")
              /\ row' = [row EXCEPT !.status = "submitted", !.named = TRUE,
                                    !.fresh = TRUE]
              /\ Goto(Submitter, "enqueue")
           \/ UNCHANGED row /\ Goto(Submitter, "abort")
    BY <1>1, <1>14, FaultFacts DEF RecordSubmitted, RowCall, ledgerVars, Fine, Fault
  <2>2. CASE UNCHANGED row /\ Goto(Submitter, "abort")
    BY <1>1, <1>4, <1>5, <1>7, <2>1, <2>2, SubmitterMoves DEF PCs
  <2>3. CASE /\ CanTransition(row.status, "submitted")
             /\ row' = [row EXCEPT !.status = "submitted", !.named = TRUE,
                                   !.fresh = TRUE]
             /\ Goto(Submitter, "enqueue")
    <3>1. row.status \in Unsubmitted
      BY <1>1, <2>3, RowFields, CanFacts
    <3>2. row' \in RowType /\ row'.status = "submitted" /\ row'.named
      BY ONLY <1>1, <2>3 DEF RowType, Statuses
    <3>3. pc'[Submitter] = "enqueue"
      BY <1>6, <2>3 DEF PCs
    <3>4. SubmitInv'
      BY <1>1, <2>1, <3>2, <3>3 DEF SubmitInv, Unsubmitted, Settled
    <3>5. UpstreamInv'
      BY <1>1, <3>2 DEF UpstreamInv, Settled
    <3> QED BY <1>1, <1>4, <1>5, <1>7, <2>1, <2>3, <3>1, <3>2, <3>4, <3>5,
               SubmitterStep DEF PCs, Settled, Terminal, Unsubmitted
  <2> QED BY <2>1, <2>2, <2>3
<1>15. CASE AbortOrphan
  <2>1. /\ pc[Submitter] = "abort"
        /\ UNCHANGED <<claims, applied, queueVars, row, gap>>
        /\ faults' \in 0..MaxFaults
        /\ \/ /\ upstream' = IF upstream = "live" THEN "cancelled" ELSE upstream
              /\ Goto(Submitter, "done")
           \/ UNCHANGED upstream /\ Goto(Submitter, "orphaned")
    BY <1>1, <1>15, FaultFacts DEF AbortOrphan, ledgerVars, Fine, Fault
  <2>2. CASE UNCHANGED upstream /\ Goto(Submitter, "orphaned")
    BY <1>1, <1>4, <1>5, <1>7, <2>1, <2>2, SubmitterMoves DEF PCs
  <2>3. CASE /\ upstream' = IF upstream = "live" THEN "cancelled" ELSE upstream
             /\ Goto(Submitter, "done")
    <3>1. pc'[Submitter] = "done"
      BY <1>6, <2>3 DEF PCs
    <3>2. upstream' # "live"
            /\ upstream' \in {"none", "live", "done", "failed", "cancelled"}
      BY <1>1, <2>3
    <3>3. SubmitInv' /\ UpstreamInv'
      BY <1>1, <1>7, <2>1, <3>1, <3>2 DEF SubmitInv, UpstreamInv
    <3> QED BY <1>1, <1>4, <1>5, <1>7, <2>1, <2>3, <3>2, <3>3, SubmitterStep
            DEF PCs
  <2> QED BY <2>1, <2>2, <2>3
<1>16. CASE EnqueueSubmitted \/ EnqueueRetry(Submitter)
  <2>1. PICK l \in {"done"}, m \in {"queueFailed", "done"} :
          /\ EnqueueCall(Goto(Submitter, l), Goto(Submitter, m))
          /\ pc[Submitter] \in {"enqueue", "retry"}
    BY <1>16, SubmitterIsOther DEF EnqueueSubmitted, EnqueueRetry
  <2>2. /\ UNCHANGED <<claims, applied, row, upstream, gap>>
        /\ faults' \in 0..MaxFaults /\ QueueType'
        /\ Goto(Submitter, l) \/ Goto(Submitter, m)
    BY <1>1, <1>2, <2>1, EnqueueCallFacts DEF PCs
  <2> QED BY <1>1, <1>4, <2>1, <2>2, SubmitterMoves DEF PCs
<1>17. CASE RecordQueueFailed
  <2>1. /\ UNCHANGED <<claims, applied, upstream, gap, queueVars>>
        /\ faults' \in 0..MaxFaults /\ pc[Submitter] = "queueFailed"
        /\ Goto(Submitter, "unqueued")
        /\ \/ row' = [row EXCEPT !.status = row.status, !.fresh = TRUE,
                                 !.settleCode = FALSE]
           \/ row' = row
    BY <1>1, <1>17, FaultFacts
    DEF RecordQueueFailed, RecordSubmitFailure, RowCall, ledgerVars, Fine, Fault
  <2>2. row' \in RowType /\ row'.status = row.status /\ row'.named = row.named
    BY ONLY <1>1, <2>1 DEF RowType
  <2> QED BY <1>4, <1>5, <2>1, <2>2, SubmitterMoves DEF PCs
<1>18. CASE RecordReleaseFailed \/ SubmitFail
  BY <1>18, SubmitterFails DEF RecordReleaseFailed, SubmitFail
<1>19. CASE Hide
  <2>1. /\ UNCHANGED <<claims, applied, upstream, gap, queueVars>>
        /\ faults' \in 0..MaxFaults /\ pc[Submitter] = "hide"
        /\ Goto(Submitter, "done")
        /\ row' = [row EXCEPT !.hidden = TRUE] \/ row' = row
    BY <1>1, <1>19, FaultFacts DEF Hide, RowCall, ledgerVars, Fine, Fault
  <2>2. row' \in RowType /\ row'.status = row.status /\ row'.named = row.named
    BY ONLY <1>1, <2>1 DEF RowType
  <2> QED BY <1>4, <1>5, <2>1, <2>2, SubmitterMoves DEF PCs
<1> QED
  BY <1>8, <1>9, <1>10, <1>11, <1>12, <1>13, <1>14, <1>15, <1>16, <1>17, <1>18,
     <1>19 DEF SubmitStep

\* Calls of anyone but Submit, for what follows them.
Harmless(p, l) == p \in Workers => l \notin {"poll", "running"} \cup Answered

LEMMA BesideLedger ==
  ASSUME UnlockedInv, NEW p \in Procs \ {Submitter}, NEW op \in Operations,
         NEW l \in PCs, NEW m \in PCs, LedgerCall(op, Goto(p, l), Goto(p, m)),
         \/ Harmless(p, l) /\ Harmless(p, m)
         \/ p \in Workers /\ pc[p] \in Answered
              /\ m # "mark" /\ (l = "mark" => op = "capture")
              /\ {l, m} \cap {"poll", "running"} = {}
  PROVE  UnlockedPreserves
<1>1. /\ row \in RowType /\ LedgerType /\ QueueType /\ faults \in 0..MaxFaults
      /\ claims \cap {"hold", "capture"} \subseteq applied
  BY DEF UnlockedInv, TypeOK
<1>2. /\ UNCHANGED <<row, upstream, gap, queueVars>>
      /\ faults' \in 0..MaxFaults /\ LedgerType'
      /\ \/ Posts(op) /\ (Goto(p, l) \/ Goto(p, m))
         \/ UNCHANGED <<claims, applied>> /\ Goto(p, m)
  BY <1>1, LedgerCallFacts
<1>3. LedgerAdvances /\ QueueType'
  BY <1>1, <1>2 DEF LedgerAdvances, QueueType, queueVars
<1>4. p \in Workers /\ pc[p] \in Answered => row.named /\ upstream' # "live"
  BY <1>2 DEF UnlockedInv, Informed
<1>5. PICK k \in {l, m} : Goto(p, k) /\ (k # m => Posts(op))
  BY <1>2
<1>6. p \in Workers /\ k = "mark" => Charged'
  BY <1>1, <1>5 DEF Posts, Harmless, Answered, Charged
<1> QED BY <1>1, <1>2, <1>3, <1>4, <1>5, <1>6, BesideSubmit DEF Harmless

LEMMA BesideTransition ==
  ASSUME UnlockedInv, NEW p \in Procs \ {Submitter}, NEW to \in Statuses,
         NEW l \in PCs, NEW m \in PCs, NEW n \in PCs,
         Transition(to, Goto(p, l), Goto(p, m), Goto(p, n)),
         CanTransition(row.status, to) /\ Becomes(to) => RowAdvances,
         Harmless(p, m), Harmless(p, n),
         \/ Harmless(p, l)
         \/ pc[p] \in Answered /\ l \notin {"mark", "poll", "running"}
  PROVE  UnlockedPreserves
<1>1. row \in RowType /\ LedgerType /\ QueueType /\ faults \in 0..MaxFaults
  BY DEF UnlockedInv, TypeOK
<1>2. /\ UNCHANGED <<claims, applied, upstream, gap, queueVars>>
      /\ faults' \in 0..MaxFaults /\ row' \in RowType
      /\ \/ CanTransition(row.status, to) /\ Becomes(to) /\ Goto(p, l)
         \/ UNCHANGED row /\ (Goto(p, m) \/ Goto(p, n))
  BY <1>1, TransitionFacts
<1>3. LedgerType' /\ LedgerAdvances /\ QueueType'
  BY <1>1, <1>2 DEF LedgerAdvances, LedgerType, QueueType, queueVars
<1>4. CanTransition(row.status, to) => row.status # "absent"
  BY DEF CanTransition, Terminal
<1>5. p \in Workers /\ pc[p] \in Answered => row.named /\ upstream # "live"
  BY DEF UnlockedInv, Informed
<1>6. CASE CanTransition(row.status, to) /\ Becomes(to) /\ Goto(p, l)
  BY <1>2, <1>3, <1>4, <1>5, <1>6, BesideSubmit DEF Harmless, Becomes, Answered
<1>7. CASE UNCHANGED row /\ (Goto(p, m) \/ Goto(p, n))
  BY <1>2, <1>3, <1>7, BesideSubmit DEF Harmless, Answered
<1> QED BY <1>2, <1>6, <1>7

LEMMA BesideEnqueue ==
  ASSUME UnlockedInv, NEW p \in Procs \ {Submitter}, p \notin Workers,
         NEW l \in PCs, NEW m \in PCs, EnqueueCall(Goto(p, l), Goto(p, m))
  PROVE  UnlockedPreserves
<1>1. row \in RowType /\ LedgerType /\ QueueType /\ faults \in 0..MaxFaults
  BY DEF UnlockedInv, TypeOK
<1>2. /\ UNCHANGED <<claims, applied, row, upstream, gap>>
      /\ faults' \in 0..MaxFaults /\ QueueType'
      /\ Goto(p, l) \/ Goto(p, m)
  BY <1>1, EnqueueCallFacts
<1>3. LedgerType' /\ LedgerAdvances
  BY <1>1, <1>2 DEF LedgerAdvances, LedgerType
<1> QED BY <1>1, <1>2, <1>3, BesideSubmit

\* A step that touches neither the row, nor the ledger, nor the provider.
LEMMA BesideMoves ==
  ASSUME UnlockedInv, NEW p \in Procs \ {Submitter}, NEW l \in PCs,
         Goto(p, l), QueueType', faults' \in 0..MaxFaults,
         UNCHANGED <<ledgerVars, jobVars>>,
         \/ Harmless(p, l)
         \/ p \in Workers /\ row.named /\ l # "mark"
              /\ (l \in Answered => upstream # "live")
  PROVE  UnlockedPreserves
<1>1. row \in RowType /\ LedgerType
  BY DEF UnlockedInv, TypeOK
<1>2. LedgerType' /\ LedgerAdvances /\ UNCHANGED <<row, upstream, gap>>
  BY <1>1 DEF LedgerAdvances, LedgerType, ledgerVars, jobVars
<1> QED BY <1>1, <1>2, BesideSubmit DEF Harmless, Answered

\* A statement on the row that keeps its status.
LEMMA BesideUpdates ==
  ASSUME UnlockedInv, NEW p \in Procs \ {Submitter}, NEW l \in PCs,
         Goto(p, l), faults' \in 0..MaxFaults, row.status # "absent",
         UNCHANGED <<ledgerVars, queueVars, upstream, gap>>,
         row' \in RowType, row'.named = row.named, row'.status = row.status,
         Harmless(p, l) \/ (pc[p] \in Answered /\ l \notin {"mark", "poll", "running"})
  PROVE  UnlockedPreserves
<1>1. LedgerType /\ QueueType
  BY DEF UnlockedInv, TypeOK
<1>2. LedgerType' /\ LedgerAdvances /\ QueueType'
  BY <1>1 DEF LedgerAdvances, LedgerType, QueueType, ledgerVars, queueVars
<1>3. p \in Workers /\ pc[p] \in Answered => row.named /\ upstream # "live"
  BY DEF UnlockedInv, Informed
<1> QED BY <1>2, <1>3, BesideSubmit DEF Harmless, RowAdvances, Answered

LEMMA UnlockedUser ==
  ASSUME UnlockedInv, NEW u \in Users, UserStep(u)
  PROVE  UnlockedPreserves
<1>1. u \in Procs \ {Submitter} /\ u \notin Workers /\ u # Recovery
  BY SubmitterIsOther
<1>2. \A l \in PCs : Harmless(u, l)
  BY <1>1 DEF Harmless
<1>3. /\ row \in RowType /\ QueueType /\ faults \in 0..MaxFaults
      /\ UNCHANGED queueVars => QueueType'
  BY DEF UnlockedInv, TypeOK, QueueType, queueVars
<1>4. /\ {"release", "done", "cancelUpstream", "transition", "enqueue", "retry",
          "enqueueAgain", "queueFailed"} \subseteq PCs
      /\ "release" \in Operations /\ "cancelled" \in Statuses
  BY DEF PCs, Operations, Statuses, Terminal
<1>5. CASE CancelRead(u) \/ SubmitAgain(u)
  <2>1. PICK l \in {"release", "done", "cancelUpstream", "transition",
                    "enqueueAgain"} : Move(u, "idle", l)
    BY <1>5 DEF CancelRead, SubmitAgain
  <2> QED BY <1>1, <1>2, <1>3, <1>4, <2>1, BesideMoves DEF Move
<1>6. CASE CancelUpstream(u)
  <2>1. /\ UNCHANGED <<claims, applied, queueVars, row, gap>>
        /\ faults' \in 0..MaxFaults
        /\ Goto(u, "enqueue") \/ Goto(u, "done")
        /\ \/ upstream' = upstream
           \/ upstream = "live" /\ upstream' \in {"done", "failed", "cancelled"}
    BY <1>3, <1>6, FaultFacts DEF CancelUpstream, ledgerVars, Fine, Fault
  <2>2. LedgerType' /\ LedgerAdvances
    BY <2>1 DEF UnlockedInv, TypeOK, LedgerType, LedgerAdvances
  <2> QED BY <1>1, <1>3, <1>4, <2>1, <2>2, BesideSubmit
<1>7. CASE CancelTransition(u)
  <2>1. Transition("cancelled", Goto(u, "release"), Goto(u, "done"),
                   Goto(u, "done"))
    BY <1>7 DEF CancelTransition
  <2>2. CanTransition(row.status, "cancelled") /\ Becomes("cancelled")
          => RowAdvances
    BY <1>3, RowFields, CanFacts
    DEF RowAdvances, Becomes, Terminal, Unsubmitted
  <2> QED BY <1>1, <1>2, <1>4, <2>1, <2>2, BesideTransition
<1>8. CASE CancelRelease(u)
  <2>1. LedgerCall("release", Goto(u, "done"), Goto(u, "retry"))
    BY <1>8 DEF CancelRelease
  <2> QED BY <1>1, <1>2, <1>4, <2>1, BesideLedger
<1>9. CASE UserEnqueue(u) \/ EnqueueAgain(u) \/ EnqueueRetry(u)
  <2>1. PICK m \in {"done", "queueFailed"} :
          EnqueueCall(Goto(u, "done"), Goto(u, m))
    BY <1>1, <1>9 DEF UserEnqueue, EnqueueAgain, EnqueueRetry
  <2> QED BY <1>1, <1>4, <2>1, BesideEnqueue
<1>10. CASE RecordAgain(u)
  <2>1. /\ UNCHANGED <<ledgerVars, queueVars, upstream, gap>>
        /\ faults' \in 0..MaxFaults /\ row.status # "absent" /\ Goto(u, "done")
        /\ \/ row' = [row EXCEPT !.status = row.status, !.fresh = TRUE,
                                 !.settleCode = FALSE]
           \/ row' = row
    BY <1>3, <1>10, FaultFacts
    DEF RecordAgain, RecordSubmitFailure, RowCall, Fine, Fault
  <2>2. row' \in RowType /\ row'.status = row.status /\ row'.named = row.named
    BY ONLY <1>3, <2>1 DEF RowType
  <2> QED BY <1>1, <1>2, <1>4, <2>1, <2>2, BesideUpdates
<1>11. CASE DeleteRecord(u)
  <2>1. /\ UNCHANGED <<ledgerVars, queueVars, upstream, gap, faults>>
        /\ row' = [row EXCEPT !.hidden = TRUE] /\ Goto(u, "done")
        /\ row.status # "absent"
    BY <1>11 DEF DeleteRecord, Terminal
  <2>2. row' \in RowType /\ row'.status = row.status /\ row'.named = row.named
    BY ONLY <1>3, <2>1 DEF RowType
  <2> QED BY <1>1, <1>2, <1>3, <1>4, <2>1, <2>2, BesideUpdates
<1> QED BY <1>5, <1>6, <1>7, <1>8, <1>9, <1>10, <1>11 DEF UserStep

LEMMA UnlockedRecovery ==
  ASSUME UnlockedInv, RecoveryStep
  PROVE  UnlockedPreserves
<1>1. Recovery \in Procs \ {Submitter} /\ Recovery \notin Workers
  BY SubmitterIsOther
<1>2. \A l \in PCs : Harmless(Recovery, l)
  BY <1>1 DEF Harmless
<1>3. {"idle", "release", "retry"} \subseteq PCs /\ "release" \in Operations
  BY DEF PCs, Operations
<1>4. CASE RecoverStale
  <2>1. /\ UNCHANGED <<claims, applied, queueVars, upstream, gap, faults>>
        /\ row.status \in Unsubmitted /\ row \in RowType
        /\ row' = [row EXCEPT !.status = "failed", !.fresh = TRUE,
                              !.settleCode = FALSE]
        /\ Goto(Recovery, "release")
    BY <1>4
    DEF RecoverStale, StaleUnsubmitted, ledgerVars, UnlockedInv, TypeOK
  <2>2. /\ row' \in RowType /\ row'.status = "failed"
        /\ row'.named = row.named
    BY ONLY <2>1 DEF RowType, Statuses, Terminal
  <2>3. /\ LedgerType' /\ QueueType' /\ LedgerAdvances
        /\ faults' \in 0..MaxFaults
    BY <2>1 DEF UnlockedInv, TypeOK, LedgerType, QueueType, queueVars,
       LedgerAdvances
  <2>4. RowAdvances /\ row.status # "absent"
    BY <2>1, <2>2 DEF RowAdvances, Unsubmitted
  <2> QED BY <1>1, <1>3, <2>1, <2>2, <2>3, <2>4, BesideSubmit
<1>5. CASE RecoveryRelease
  <2>1. LedgerCall("release", Goto(Recovery, "idle"), Goto(Recovery, "retry"))
    BY <1>5 DEF RecoveryRelease
  <2> QED BY <1>1, <1>2, <1>3, <2>1, BesideLedger
<1>6. CASE EnqueueRetry(Recovery)
  <2>1. EnqueueCall(Goto(Recovery, "idle"), Goto(Recovery, "idle"))
    BY <1>6 DEF EnqueueRetry
  <2> QED BY <1>1, <1>3, <2>1, BesideEnqueue
<1> QED BY <1>4, <1>5, <1>6 DEF RecoveryStep

LEMMA UnlockedProvider ==
  ASSUME UnlockedInv, NEW w \in Workers, ProviderStep(w)
  PROVE  UnlockedPreserves
<1>1. w \in Procs \ {Submitter}
  BY SubmitterIsOther
<1>2. /\ row \in RowType /\ QueueType /\ faults \in 0..MaxFaults
      /\ UNCHANGED queueVars => QueueType'
      /\ upstream \in {"none", "live", "done", "failed", "cancelled"}
  BY DEF UnlockedInv, TypeOK, QueueType, queueVars
<1>3. /\ {"release", "ack", "requeue", "index", "poll", "running", "succeeded",
          "failed", "cancelled", "startSettling"} \subseteq PCs
      /\ {"running", "indexing", "settling", "failed", "cancelled"}
           \subseteq Statuses
      /\ "release" \in Operations
  BY DEF PCs, Statuses, Terminal, Operations
<1>4. \A l \in {"release", "ack", "requeue"} : Harmless(w, l)
  BY DEF Harmless, Answered
<1>5. pc[w] \in Answered => row.named /\ upstream # "live"
  BY DEF UnlockedInv, Informed
<1>6. row.named => upstream # "none"
  BY DEF UnlockedInv, SubmitInv
<1>7. CASE ReadProcess(w)
  <2>1. PICK l \in {"release", "ack", "requeue", "index", "poll"} :
          /\ Move(w, "process", l)
          /\ l \in {"index", "poll"} => row.named
          /\ l = "index" => row.status = "indexing"
    BY <1>7 DEF ReadProcess
  <2>2. l = "index" => upstream # "live"
    BY <2>1 DEF UnlockedInv, UpstreamInv
  <2>3. Harmless(w, l) \/ (row.named /\ l \in {"index", "poll"})
    BY <1>4, <2>1
  <2> QED BY <1>1, <1>2, <1>3, <2>1, <2>2, <2>3, BesideMoves DEF Move, Answered
<1>8. CASE Poll(w)
  <2>1. row.named
    BY <1>8 DEF Poll, UnlockedInv, Informed
  <2>2. PICK l \in {"running", "succeeded", "failed", "cancelled", "requeue"} :
          /\ Goto(w, l)
          /\ l \in {"succeeded", "failed", "cancelled"} => upstream # "live"
    BY <1>2, <1>6, <1>8, <2>1 DEF Poll
  <2>3. faults' \in 0..MaxFaults /\ UNCHANGED <<ledgerVars, queueVars, jobVars>>
    BY <1>2, <1>8, FaultFacts DEF Poll, Fine, Fault
  <2>4. l \in Answered => l \in {"succeeded", "failed", "cancelled"}
    BY DEF Answered
  <2> QED BY <1>1, <1>2, <1>3, <2>1, <2>2, <2>3, <2>4, BesideMoves
<1>9. CASE ApplyAnswer(w)
  <2>1. PICK to \in {"running", "indexing", "failed", "cancelled"},
             l \in {"requeue", "index", "release"} :
          /\ Transition(to, Goto(w, l), Goto(w, "requeue"), Goto(w, "requeue"))
          /\ to # "running" => pc[w] \in Answered
          /\ l = "index" => pc[w] \in Answered
    BY <1>9 DEF ApplyAnswer, Answered
  <2>2. CanTransition(row.status, to) /\ Becomes(to) => RowAdvances
    <3> SUFFICES ASSUME CanTransition(row.status, to), Becomes(to)
                 PROVE  RowAdvances
      OBVIOUS
    <3>1. row'.status = to
      BY DEF Becomes
    <3>2. /\ to = "running" => row.status \in {"submitted", "running"}
          /\ row.status \notin Terminal
      BY <1>2, RowFields, CanFacts DEF Terminal, Unsubmitted
    <3> QED BY <1>5, <2>1, <3>1, <3>2 DEF RowAdvances
  <2>3. Harmless(w, l) \/ (pc[w] \in Answered /\ l = "index")
    BY <1>4, <2>1
  <2> QED BY <1>1, <1>3, <1>4, <2>1, <2>2, <2>3, BesideTransition
<1>10. CASE IndexItems(w)
  <2>1. /\ pc[w] = "index" /\ pc[w] \in Answered
        /\ UNCHANGED <<ledgerVars, queueVars, upstream, gap>>
        /\ faults' \in 0..MaxFaults
        /\ \/ /\ row.status = "indexing" /\ Goto(w, "startSettling")
              /\ \E b \in BOOLEAN : row' = [row EXCEPT !.payable = b]
           \/ row' = row /\ Goto(w, "requeue")
    BY <1>2, <1>10, FaultFacts DEF IndexItems, Answered, Fine, Fault
  <2>2. CASE /\ row.status = "indexing" /\ Goto(w, "startSettling")
             /\ \E b \in BOOLEAN : row' = [row EXCEPT !.payable = b]
    <3>1. row' \in RowType /\ row'.status = row.status /\ row'.named = row.named
      BY ONLY <1>2, <2>2 DEF RowType
    <3> QED BY <1>1, <1>3, <2>1, <2>2, <3>1, BesideUpdates
  <2>3. CASE row' = row /\ Goto(w, "requeue")
    BY <1>1, <1>2, <1>3, <1>4, <2>1, <2>3, BesideMoves DEF jobVars
  <2> QED BY <2>1, <2>2, <2>3
<1>11. CASE IndexFails(w) \/ StartSettling(w)
  <2>1. PICK to \in {"failed", "settling"}, l \in {"release", "requeue"} :
          Transition(to, Goto(w, l), Goto(w, "requeue"), Goto(w, "requeue"))
    BY <1>11 DEF IndexFails, StartSettling
  <2>2. pc[w] \in Answered
    BY <1>11 DEF IndexFails, StartSettling, Answered
  <2>3. CanTransition(row.status, to) /\ Becomes(to) => RowAdvances
    <3>1. CanTransition(row.status, to) => row.status \notin Terminal
      BY <1>2, RowFields, CanFacts DEF Terminal
    <3> QED BY <1>5, <2>2, <3>1 DEF RowAdvances, Becomes
  <2> QED BY <1>1, <1>3, <1>4, <2>1, <2>3, BesideTransition
<1>12. CASE WorkerRelease(w)
  <2>1. LedgerCall("release", Goto(w, "ack"), Goto(w, "requeue"))
    BY <1>12 DEF WorkerRelease
  <2> QED BY <1>1, <1>3, <1>4, <2>1, BesideLedger
<1>13. CASE ReadFails(w)
  <2>1. Goto(w, "requeue") /\ UNCHANGED <<ledgerVars, queueVars, jobVars>>
    BY <1>13 DEF ReadFails
  <2>2. faults' \in 0..MaxFaults
    BY <1>2, <1>13, FaultFacts DEF ReadFails, Fault
  <2> QED BY <1>1, <1>2, <1>3, <1>4, <2>1, <2>2, BesideMoves
<1> QED BY <1>7, <1>8, <1>9, <1>10, <1>11, <1>12, <1>13 DEF ProviderStep

LEMMA UnlockedSettle ==
  ASSUME UnlockedInv, NEW w \in Workers, SettleStep(w)
  PROVE  UnlockedPreserves
<1>1. w \in Procs \ {Submitter}
  BY SubmitterIsOther
<1>2. /\ row \in RowType /\ QueueType /\ faults \in 0..MaxFaults
      /\ UNCHANGED queueVars => QueueType'
  BY DEF UnlockedInv, TypeOK, QueueType, queueVars
<1>3. /\ {"ack", "requeue", "exhaustRelease", "recordInvalid", "capture", "mark",
          "recordBilling", "recheck", "exhaustFail", "exhaustRecord"}
           \subseteq PCs
      /\ "capture" \in Operations /\ "release" \in Operations
      /\ "failed" \in Statuses
  BY DEF PCs, Statuses, Terminal, Operations
<1>4. \A l \in {"recheck", "ack", "requeue"} : Harmless(w, l)
  BY DEF Harmless, Answered
<1>5. /\ pc[w] \in Answered => row.named /\ upstream # "live"
      /\ row.named => row.status # "absent"
      /\ pc[w] = "mark" => Charged
  BY DEF UnlockedInv, Informed, SubmitInv
<1>6. CASE ReadSettle(w) \/ Recheck(w)
  <2>1. PICK l \in {"ack", "requeue", "exhaustRelease", "recordInvalid",
                    "capture"} :
          /\ Move(w, "settle", l) \/ Move(w, "recheck", l)
          /\ Harmless(w, l) \/ pc[w] = "settle"
    BY <1>4, <1>6 DEF ReadSettle, Recheck, Move
  <2>2. Harmless(w, l) \/ pc[w] \in Answered
    BY <2>1 DEF Answered
  <2> QED BY <1>1, <1>2, <1>3, <1>5, <2>1, <2>2, BesideMoves DEF Move
<1>7. CASE Capture(w) \/ ExhaustRelease(w)
  <2>1. \/ /\ pc[w] = "capture"
           /\ LedgerCall("capture", Goto(w, "mark"), Goto(w, "recordBilling"))
        \/ /\ pc[w] = "exhaustRelease"
           /\ LedgerCall("release", Goto(w, "exhaustFail"),
                         Goto(w, "exhaustRecord"))
    BY <1>7 DEF Capture, ExhaustRelease
  <2>2. pc[w] \in Answered
    BY <2>1 DEF Answered
  <2> QED BY <1>1, <1>3, <2>1, <2>2, BesideLedger
<1>8. CASE MarkSettled(w)
  <2>1. /\ UNCHANGED <<ledgerVars, queueVars, upstream, gap>>
        /\ faults' \in 0..MaxFaults
        /\ \/ /\ row.status = "settling" /\ Goto(w, "ack")
              /\ row' = [row EXCEPT !.status = "completed", !.fresh = TRUE]
           \/ row' = row /\ Goto(w, "requeue")
    BY <1>2, <1>8, FaultFacts DEF MarkSettled, RowCall, Fine, Fault
  <2>2. LedgerType' /\ LedgerAdvances
    BY <2>1 DEF UnlockedInv, TypeOK, LedgerType, LedgerAdvances, ledgerVars
  <2>3. CASE /\ row.status = "settling" /\ Goto(w, "ack")
             /\ row' = [row EXCEPT !.status = "completed", !.fresh = TRUE]
    <3>1. /\ row' \in RowType /\ row'.status = "completed"
          /\ row'.named = row.named
      BY ONLY <1>2, <2>3 DEF RowType, Statuses, Terminal
    <3>2. RowAdvances
      BY <1>5, <1>8, <2>3, <3>1 DEF MarkSettled, RowAdvances
    <3> QED BY <1>1, <1>2, <1>3, <1>4, <2>1, <2>2, <2>3, <3>1, <3>2,
               BesideSubmit DEF Harmless, Answered
  <2>4. CASE row' = row /\ Goto(w, "requeue")
    BY <1>1, <1>2, <1>3, <1>4, <2>1, <2>4, BesideMoves DEF jobVars
  <2> QED BY <2>1, <2>3, <2>4
<1>9. CASE RecordFailure(w) \/ ExhaustRecord(w)
  <2>1. /\ pc[w] \in Answered
        /\ UNCHANGED <<ledgerVars, queueVars, upstream, gap>>
        /\ row' \in {row, Counted}
        /\ \E l \in {"exhaustRelease", "requeue", "recheck"} : Goto(w, l)
    BY <1>9 DEF RecordFailure, ExhaustRecord, CountCall, Answered
  <2>2. faults' \in 0..MaxFaults
    BY <1>2, <1>9, FaultFacts
    DEF RecordFailure, ExhaustRecord, CountCall, Fine, Fault
  <2>3. row' \in RowType /\ row'.status = row.status /\ row'.named = row.named
    BY <1>2, <2>1, CountedRow
  <2> QED BY <1>1, <1>3, <1>5, <2>1, <2>2, <2>3, BesideUpdates
<1>10. CASE ExhaustFail(w)
  <2>1. /\ pc[w] = "exhaustFail"
        /\ Transition("failed", Goto(w, "recheck"), Goto(w, "requeue"),
                      Goto(w, "requeue"))
    BY <1>10 DEF ExhaustFail
  <2>2. CanTransition(row.status, "failed") /\ Becomes("failed") => RowAdvances
    <3>1. CanTransition(row.status, "failed") => row.status \notin Terminal
      BY <1>2, RowFields, CanFacts DEF Terminal
    <3> QED BY <1>5, <2>1, <3>1 DEF RowAdvances, Becomes, Answered
  <2> QED BY <1>1, <1>3, <1>4, <2>1, <2>2, BesideTransition
<1> QED BY <1>6, <1>7, <1>8, <1>9, <1>10 DEF SettleStep

\* The queue and its locks: any worker may lose its own at any time.
LEMMA UnlockedQueue ==
  ASSUME UnlockedInv,
         \/ DelayedMover \/ StaleActive \/ LockExpires
         \/ \E w \in Workers : ReserveJob(w) \/ LockJob(w) \/ ReadPipeline(w)
                                 \/ Return(w) \/ Unlock(w)
  PROVE  UnlockedPreserves
<1>1. /\ row \in RowType /\ LedgerType /\ QueueType /\ faults \in 0..MaxFaults
      /\ UNCHANGED ledgerVars => LedgerType' /\ LedgerAdvances
  BY DEF UnlockedInv, TypeOK, LedgerType, LedgerAdvances, ledgerVars
<1>2. CASE DelayedMover \/ StaleActive \/ LockExpires
  <2>1. /\ UNCHANGED <<ledgerVars, row, upstream, gap>> /\ pc' = pc
        /\ faults' \in 0..MaxFaults
    BY <1>1, <1>2, FaultFacts
    DEF DelayedMover, StaleActive, LockExpires, jobVars, Fine, Fault
  <2>2. QueueType'
    <3>1. CASE DelayedMover \/ StaleActive
      <4>1. ready' = ready + 1 /\ lock' = lock /\ inflight' = inflight
        BY <3>1
        DEF DelayedMover, StaleActive, MoveDueDelayed, RecoverStaleActive
      <4>2. delayed' \in BOOLEAN /\ active' \in BOOLEAN
        BY <1>1, <3>1
        DEF DelayedMover, StaleActive, MoveDueDelayed, RecoverStaleActive,
            QueueType
      <4> QED BY <1>1, <4>1, <4>2 DEF QueueType
    <3>2. CASE LockExpires
      BY <1>1, <3>2 DEF LockExpires, QueueType, listVars
    <3> QED BY <1>2, <3>1, <3>2
  <2> QED BY <1>1, <2>1, <2>2, BesideAll
<1>3. ASSUME NEW w \in Workers,
             ReserveJob(w) \/ LockJob(w) \/ ReadPipeline(w) \/ Return(w)
               \/ Unlock(w)
      PROVE  UnlockedPreserves
  <2>1. w \in Procs \ {Submitter}
    BY SubmitterIsOther
  <2>2. PICK l \in {"lock", "pipeline", "requeue", "settle", "process", "unlock",
                    "idle"} :
          Goto(w, l) /\ (l = "settle" => row.status = "settling")
    BY <1>3 DEF ReserveJob, LockJob, ReadPipeline, Move, Return, Unlock
  <2>3. l \in PCs /\ (Harmless(w, l) \/ l = "settle")
    BY DEF PCs, Harmless, Answered
  <2>4. UNCHANGED <<ledgerVars, jobVars>> /\ faults' \in 0..MaxFaults
    BY <1>1, <1>3, FaultFacts
    DEF ReserveJob, LockJob, ReadPipeline, Move, Return, Unlock, Fine, Fault
  <2>5. QueueType'
    <3>1. CASE ReserveJob(w)
      BY <1>1, <3>1 DEF ReserveJob, Reserve, QueueType
    <3>2. CASE LockJob(w)
      BY <1>1, <3>2
      DEF LockJob, TryAcquireJobLock, QueueType, listVars, queueVars
    <3>3. CASE ReadPipeline(w)
      BY <1>1, <3>3 DEF ReadPipeline, Move, QueueType, queueVars
    <3>4. CASE Return(w)
      BY <1>1, <3>4 DEF Return, RequeueAfter, Ack, QueueType, queueVars
    <3>5. CASE Unlock(w)
      BY <1>1, <3>5 DEF Unlock, ReleaseJobLock, QueueType, listVars
    <3> QED BY <1>3, <3>1, <3>2, <3>3, <3>4, <3>5
  <2>6. l = "settle" => row.named /\ upstream # "live"
    BY <2>2 DEF UnlockedInv, SubmitInv, UpstreamInv
  <2> QED BY <2>1, <2>2, <2>3, <2>4, <2>5, <2>6, BesideMoves
<1> QED BY <1>2, <1>3

LEMMA UnlockedEnvironment ==
  ASSUME UnlockedInv, EnvironmentStep
  PROVE  UnlockedPreserves
<1>1. /\ UNCHANGED <<ledgerVars, queueVars>> /\ pc' = pc
      /\ row \in RowType
  BY DEF EnvironmentStep, Age, UpstreamEnds, GapOpens, GapCloses,
     CleanupOutput, UnlockedInv, TypeOK
<1>5. (gap' = gap \/ gap' \in Gaps) /\ faults' \in 0..MaxFaults
  BY FaultFacts DEF EnvironmentStep, Age, UpstreamEnds, GapOpens, GapCloses,
     CleanupOutput, UnlockedInv, TypeOK, Gaps, Fault
<1>2. LedgerType' /\ QueueType' /\ LedgerAdvances
  BY <1>1
  DEF UnlockedInv, TypeOK, LedgerType, QueueType, ledgerVars, queueVars,
      LedgerAdvances
<1>3. /\ row' \in RowType /\ row'.named = row.named
      /\ row' = row \/ (row.status # "absent" /\ RowAdvances)
  <2>1. CASE Age
    <3>1. row' = [row EXCEPT !.fresh = FALSE] /\ row.status # "absent"
      BY <2>1 DEF Age, Unsubmitted
    <3>2. row' \in RowType /\ row'.status = row.status /\ row'.named = row.named
      BY ONLY <1>1, <3>1 DEF RowType
    <3> QED BY <3>1, <3>2 DEF RowAdvances
  <2>2. CASE UpstreamEnds \/ GapOpens \/ GapCloses
    BY <1>1, <2>2 DEF UpstreamEnds, GapOpens, GapCloses
  <2>3. CASE CleanupOutput
    <3>1. /\ row' = [row EXCEPT !.status = "output_deleted"]
          /\ row.status = "completed"
      BY <2>3 DEF CleanupOutput
    <3>2. /\ row' \in RowType /\ row'.status = "output_deleted"
          /\ row'.named = row.named
      BY ONLY <1>1, <3>1 DEF RowType, Statuses, Terminal
    <3> QED BY <3>1, <3>2 DEF RowAdvances
  <2> QED BY <2>1, <2>2, <2>3 DEF EnvironmentStep
<1>4. \/ upstream' = upstream
      \/ upstream = "live" /\ upstream' \in {"done", "failed", "cancelled"}
  BY DEF EnvironmentStep, Age, UpstreamEnds, GapOpens, GapCloses, CleanupOutput
<1> QED BY <1>1, <1>2, <1>3, <1>4, <1>5, BesideAll

LEMMA UnlockedCrash ==
  ASSUME UnlockedInv, NEW p \in Procs, Crash(p)
  PROVE  UnlockedPreserves
<1>1. /\ UNCHANGED <<ledgerVars, jobVars, listVars>>
      /\ lock' = IF lock = p THEN Orphan ELSE lock
      /\ pc[p] \notin {"idle", "done", "orphaned", "unqueued", "crashed"}
  BY DEF Crash
<1>2. /\ row \in RowType /\ LedgerType /\ QueueType /\ faults \in 0..MaxFaults
  BY DEF UnlockedInv, TypeOK
<1>3. faults' \in 0..MaxFaults
  BY <1>2, FaultFacts DEF Crash, Fault
<1>4. QueueType' /\ LedgerType' /\ LedgerAdvances
  BY <1>1, <1>2
  DEF QueueType, LedgerType, LedgerAdvances, listVars, ledgerVars
<1>5. PICK l \in {"idle", "crashed"} :
        /\ Goto(p, l) /\ l \in PCs /\ Harmless(p, l)
        /\ l = "idle" => p \in Workers \cup {Recovery}
  BY DEF Crash, Harmless, Answered, PCs
<1>6. CASE p = Submitter
  <2>1. l = "crashed"
    BY <1>5, <1>6, SubmitterIsOther
  <2>2. pc[Submitter] # "create" \/ row = NoRow
    BY DEF UnlockedInv, SubmitInv
  <2>3. CASE pc[Submitter] = "create"
    <3>1. pc'[Submitter] = "crashed"
      BY <1>5, <1>6, <2>1, GotoFacts DEF UnlockedInv, TypeOK
    <3>2. ~row.named /\ row.status = "absent"
      BY <2>2, <2>3 DEF NoRow
    <3>3. SubmitInv' /\ UpstreamInv'
      BY <1>1, <3>1, <3>2 DEF SubmitInv, UpstreamInv, Settled, jobVars
    <3> QED BY <1>1, <1>2, <1>3, <1>4, <1>5, <1>6, <3>2, <3>3, SubmitterStep
            DEF UnlockedInv, TypeOK, jobVars
  <2>4. CASE pc[Submitter] # "create"
    BY <1>1, <1>2, <1>3, <1>4, <1>5, <1>6, <2>1, <2>4, SubmitterMoves DEF jobVars
  <2> QED BY <2>3, <2>4
<1>7. CASE p # Submitter
  BY <1>1, <1>3, <1>4, <1>5, <1>7, BesideMoves
<1> QED BY <1>6, <1>7

LEMMA UnlockedNext ==
  ASSUME UnlockedInv, [Next]_vars
  PROVE  UnlockedPreserves
<1>1. CASE UNCHANGED vars
  <2>1. /\ UNCHANGED <<claims, applied, queueVars, row, upstream, gap, faults>>
        /\ pc' = pc
    BY <1>1 DEF vars, queueVars
  <2>2. /\ LedgerType' /\ QueueType' /\ LedgerAdvances /\ row' \in RowType
        /\ faults' \in 0..MaxFaults
    BY <2>1
    DEF UnlockedInv, TypeOK, LedgerType, QueueType, queueVars, LedgerAdvances
  <2> QED BY <2>1, <2>2, BesideAll
<1>2. CASE Next
  BY <1>1, <1>2, UnlockedSubmit, UnlockedUser, UnlockedRecovery,
     UnlockedProvider, UnlockedSettle, UnlockedQueue, UnlockedEnvironment,
     UnlockedCrash
  DEF Next, WorkerStep, EnvironmentStep, Rest
<1> QED BY <1>1, <1>2

\* The status of the row, the names given out and the claims need no lock.
THEOREM UnlockedInvariant == Spec => []UnlockedInv
<1>1. Init => UnlockedInv
  <2> SUFFICES ASSUME Init PROVE UnlockedInv
    OBVIOUS
  <2>1. IInv
    BY InitHolds
  <2>2. \A w \in Workers : pc[w] = "idle"
    BY SubmitterIsOther DEF Init
  <2>3. \A w \in Workers : Informed(w)
    BY <2>2 DEF Informed, Answered
  <2> QED BY <2>1, <2>3 DEF IInv, HoldInv, UnlockedInv
<1>2. UnlockedInv /\ [Next]_vars => UnlockedInv'
  BY UnlockedNext DEF UnlockedPreserves
<1> QED BY <1>1, <1>2, PTL DEF Spec

-----------------------------------------------------------------------------
(* The invariant and what follows from it.                                 *)

LEMMA NextHolds ==
  ASSUME IInv, [Next]_vars, "expire" \notin Faults
  PROVE  Preserves
<1>1. ASSUME UNCHANGED vars PROVE Preserves
  <2>1. LockInv' /\ WorkerInv'
    BY <1>1 DEF IInv, vars, LockInv, WorkerInv, Reliable, Processing, Low,
       Charged
  <2>2. TypeOK'
    BY <1>1 DEF IInv, vars, TypeOK, LedgerType, QueueType
  <2>3. SubmitInv' /\ UpstreamInv' /\ HoldInv'
    BY <1>1, QuietStep DEF IInv, vars
  <2>4. QueueInv'
    BY <1>1 DEF IInv, vars, QueueInv, NotForgotten, Queued
  <2>5. EndStays
    BY <1>1 DEF vars, EndStays
  <2> QED BY <2>1, <2>2, <2>3, <2>4, <2>5 DEF Preserves, IInv
<1>2. CASE Next
  BY <1>1, <1>2, SubmitStepKeeps, UserStepKeeps, RecoveryStepKeeps,
     WorkerStepKeeps, MoversKeep, LockExpiresKeeps, EnvironmentKeeps,
     CrashKeeps
  DEF Next, EnvironmentStep, Rest
<1> QED BY <1>1, <1>2

\* The invariant of every state the job can be in while only dead workers
\* lose their locks.
THEOREM Invariant ==
  ASSUME "expire" \notin Faults
  PROVE  Spec => []IInv
<1>1. Init => IInv
  BY InitHolds
<1>2. IInv /\ [Next]_vars => IInv'
  BY NextHolds DEF Preserves
<1> QED BY <1>1, <1>2, PTL DEF Spec

\* Row, ledger, queue and processes keep to their types, whatever fails and
\* whoever loses a lock.
THEOREM TypeCorrect == Spec => []TypeOK
<1>1. UnlockedInv => TypeOK
  BY DEF UnlockedInv
<1> QED BY <1>1, UnlockedInvariant, PTL

\* RunOnce: the lock keeps a job from two workers, the workers that lose the
\* race for it and those that die included.
THEOREM OneWorkerProcesses ==
  ASSUME "expire" \notin Faults
  PROVE  Spec => []OneProcessor
<1>1. IInv => OneProcessor
  BY DEF IInv, LockInv, OneProcessor
<1> QED BY <1>1, Invariant, PTL

\* The hold is not both captured and released while settlement has retries.
THEOREM HoldsResolveOnce ==
  ASSUME "expire" \notin Faults
  PROVE  Spec => []HoldResolvedOnce
<1>1. IInv => HoldResolvedOnce
  <2>1. SUFFICES ASSUME IInv, Charged, Refunded PROVE ~Low
    BY RowFields, JobAssumption DEF HoldResolvedOnce, Low, IInv, TypeOK
  <2>2. ASSUME Low PROVE FALSE
    BY <2>1, <2>2 DEF IInv, HoldInv, SubmitInv, Ended, Settled
  <2> QED BY <2>2
<1> QED BY <1>1, Invariant, PTL

\* What the owner's other jobs have frozen stays frozen: this job takes out of
\* frozen_balance at most what it put in.
THEOREM OthersKeepTheirHolds ==
  ASSUME "expire" \notin Faults
  PROVE  Spec => []OtherHoldsIntact
<1>1. IInv => OtherHoldsIntact
  <2>1. SUFFICES ASSUME IInv, Low PROVE Frozen >= OtherHold
    BY DEF OtherHoldsIntact, Low
  <2> DEFINE out == applied \cap {"capture", "release"}
  <2>2. ~(Charged /\ Refunded)
    BY <2>1 DEF IInv, HoldInv, SubmitInv, Ended, Settled
  <2>3. out = {} \/ out = {"capture"} \/ out = {"release"}
    BY <2>2 DEF Charged, Refunded
  <2>4. CASE out = {}
    <3>1. Cardinality(out) = 0
      BY <2>4, FS_EmptySet
    <3> QED BY <3>1, OtherHoldAssumption DEF Frozen
  <2>5. CASE out = {"capture"} \/ out = {"release"}
    <3>1. Cardinality(out) = 1
      BY <2>5, FS_Singleton
    <3>2. "hold" \in applied
      BY <2>1, <2>5 DEF IInv, HoldInv, Charged, Refunded
    <3> QED BY <3>1, <3>2, OtherHoldAssumption DEF Frozen
  <2> QED BY <2>3, <2>4, <2>5
<1> QED BY <1>1, Invariant, PTL

\* Settle: a job only completes once its capture has moved the money, even if
\* its worker has lost the lock.
THEOREM CompletionIsCharged == Spec => []CompletedIsCharged
<1>1. UnlockedInv => CompletedIsCharged
  BY DEF UnlockedInv
<1> QED BY <1>1, UnlockedInvariant, PTL

\* A failed and refunded job is not left running at the provider by the race
\* of the recovery with a slow Submit, nor by a worker without its lock.
THEOREM FailureStops == Spec => []FailedIsStopped
<1>1. UnlockedInv => FailedIsStopped
  BY DEF UnlockedInv, UpstreamInv, FailedIsStopped
<1> QED BY <1>1, UnlockedInvariant, PTL

\* The queue does not lose a job that was handed to it and has not ended.
THEOREM QueueForgetsNothing ==
  ASSUME "expire" \notin Faults
  PROVE  Spec => []NotForgotten
<1>1. IInv => NotForgotten
  BY DEF IInv, QueueInv
<1> QED BY <1>1, Invariant, PTL

\* No step of anyone takes a job out of the status it ended in, but for the
\* cleanup of outputs, and between the statuses that are not completed.
THEOREM EndsAreFinal == Spec => EndIsFinal
<1>1. UnlockedInv /\ [Next]_vars =>
        [/\ row.status \in Terminal => row'.status \in Terminal
         /\ row.status = "completed" =>
              row'.status \in {"completed", "output_deleted"}]_vars
  BY UnlockedNext DEF UnlockedPreserves, EndStays
<1> QED BY <1>1, UnlockedInvariant, PTL DEF Spec, EndIsFinal

===============================================================================
