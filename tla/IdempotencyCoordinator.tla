------------------------ MODULE IdempotencyCoordinator ------------------------
(***************************************************************************)
(* IdempotencyCoordinator.Execute: requests that carry the same key race   *)
(* for one record.  A request reads its clock once, when it arrives, and   *)
(* uses that time for every comparison and for the lock and the expiry it  *)
(* writes.  One tick of the clock is one renewal interval.                 *)
(***************************************************************************)
EXTENDS IdempotencyRecords, FiniteSets

CONSTANTS Requests,      \* requests with this scope and key
          Fingerprints,  \* what they ask for: method, route, actor, payload
          Lease,         \* ProcessingTimeout
          Ttl,           \* DefaultTTL
          Backoff,       \* FailedRetryBackoff
          MaxClock,      \* how long the clock runs (bound)
          MaxFaults      \* store errors and crashes (bound)

ASSUME RequestAssumption == None \notin Requests /\ Requests # {}
ASSUME TimeAssumption ==
  /\ Lease \in Nat \ {0} /\ Ttl \in Nat \ {0} /\ Backoff \in Nat \ {0}
  /\ MaxClock \in Nat /\ MaxFaults \in Nat

VARIABLES
  clock,     \* time.Now()
  due,       \* renewal goroutines whose ticker has fired
  faults,    \* faults so far
  effects,   \* history: executions that succeeded
  pc,        \* where each request is
  start,     \* its now
  want,      \* its fingerprint
  seen,      \* the record it read
  rid,       \* record.ID
  renew,     \* its renewal goroutine runs (ExecutionTimeout > 0)
  answer     \* the response it was given: whose execution produced it

localVars == <<pc, start, want, seen, rid, renew, answer>>
vars == <<storeVars, clock, due, faults, effects, localVars>>

Executing == {"execute", "markSucceeded", "markFailed"}
PCs == {"idle", "create", "get", "reclaimExpired", "reload", "reclaimFailed",
        "done"} \union Executing

Bodies == Requests \union {None}
RowType == Rows(Fingerprints, Requests)

\* What a request keeps of the record it read.
Unseen == [id |-> 0, status |-> "absent"]
Look == [id |-> row.id, status |-> row.status]

TypeOK ==
  /\ row \in RowType /\ serial \in Nat
  /\ clock \in Nat \ {0}
  /\ due \subseteq Requests
  /\ faults \in Nat /\ effects \in Nat
  /\ pc \in [Requests -> PCs]
  /\ start \in [Requests -> Nat]
  /\ want \in [Requests -> Fingerprints]
  /\ seen \in [Requests -> [id : Nat, status : Statuses]]
  /\ rid \in [Requests -> Nat]
  /\ renew \in [Requests -> BOOLEAN]
  /\ answer \in [Requests -> Bodies]

Init ==
  /\ row = NoRow /\ serial = 0
  /\ clock = 1 /\ due = {} /\ faults = 0 /\ effects = 0
  /\ pc = [r \in Requests |-> "idle"]
  /\ start = [r \in Requests |-> 0]
  /\ want \in [Requests -> Fingerprints]
  /\ seen = [r \in Requests |-> Unseen]
  /\ rid = [r \in Requests |-> 0]
  /\ renew \in [Requests -> BOOLEAN]
  /\ answer = [r \in Requests |-> None]

-----------------------------------------------------------------------------
(* Helpers *)

Goto(r, l) == pc' = [pc EXCEPT ![r] = l]

\* The request is answered: with the response of b's execution, or (None)
\* with a conflict or an error.
Answer(r, b) ==
  /\ Goto(r, "done")
  /\ answer' = [answer EXCEPT ![r] = b]
  /\ start' = [start EXCEPT ![r] = 0]
  /\ seen' = [seen EXCEPT ![r] = Unseen]
  /\ rid' = [rid EXCEPT ![r] = 0]

\* The record is this request's to execute.
Claim(r, id) ==
  /\ rid' = [rid EXCEPT ![r] = id]
  /\ Goto(r, "execute")
  /\ seen' = [seen EXCEPT ![r] = Unseen]
  /\ UNCHANGED <<start, answer>>

\* Another step of the handler; what it read stays.
Continue(r, l) == Goto(r, l) /\ UNCHANGED <<start, seen, rid, answer>>

\* It goes on with what it has just read.
Remember(r, l) ==
  /\ Goto(r, l)
  /\ seen' = [seen EXCEPT ![r] = Look]
  /\ UNCHANGED <<start, rid, answer>>

Fault == faults < MaxFaults /\ faults' = faults + 1

\* Variant: the second fingerprint check is missing.
SameRequestAlways(r) == r \in Requests
SameRequest(r) == row.fp = want[r]

\* The switch on the status of the record just read.  A response that was
\* too long was stored truncated and does not decode: an error.
Decide(r) ==
  \/ row.status = "succeeded" /\ \E b \in {row.body, None} : Answer(r, b)
  \/ row.status = "processing" /\ Answer(r, None)
  \/ /\ row.status = "failed_retryable"
     /\ IF row.locked > start[r] THEN Answer(r, None)
                                 ELSE Remember(r, "reclaimFailed")

-----------------------------------------------------------------------------
(* Claiming the record *)

Begin(r) ==
  /\ pc[r] = "idle"
  /\ start' = [start EXCEPT ![r] = clock]
  /\ Goto(r, "create")
  /\ UNCHANGED <<storeVars, clock, due, faults, effects, want, seen, rid,
                 renew, answer>>

Create(r) ==
  /\ pc[r] = "create"
  /\ IF Present
       THEN Continue(r, "get") /\ UNCHANGED storeVars
       ELSE /\ CreateProcessing(want[r], start[r] + Lease, start[r] + Ttl)
            /\ Claim(r, serial + 1)
  /\ UNCHANGED <<clock, due, faults, effects, want, renew>>

\* The record was deleted meanwhile, or is for another request.
GetRefused(r) ==
  /\ pc[r] \in {"get", "reload"}
  /\ ~Present \/ ~SameRequest(r)
  /\ Answer(r, None)
  /\ UNCHANGED <<storeVars, clock, due, faults, effects, want, renew>>

\* GetByScopeAndKeyHash
Get(r) ==
  /\ pc[r] = "get"
  /\ Present /\ SameRequest(r)
  /\ IF row.expires <= start[r] THEN Remember(r, "reclaimExpired")
                                ELSE Decide(r)
  /\ UNCHANGED <<storeVars, clock, due, faults, effects, want, renew>>

\* The status from which a record is reclaimed: the one that was read where it
\* had expired.
From(r) ==
  IF pc[r] = "reclaimFailed" THEN "failed_retryable" ELSE seen[r].status

\* TryReclaim of an expired record.
ReclaimExpired(r) ==
  /\ pc[r] = "reclaimExpired"
  /\ IF Reclaimable(seen[r].id, From(r), start[r])
       THEN /\ TryReclaim(start[r] + Lease, start[r] + Ttl)
            /\ Claim(r, seen[r].id)
       ELSE Continue(r, "reload") /\ UNCHANGED row
  /\ UNCHANGED <<serial, clock, due, faults, effects, want, renew>>

\* The second read, when somebody else was faster.
Reload(r) ==
  /\ pc[r] = "reload"
  /\ Present /\ SameRequest(r)
  /\ Decide(r)
  /\ UNCHANGED <<storeVars, clock, due, faults, effects, want, renew>>

\* TryReclaim of a failed record whose backoff is over.
ReclaimFailed(r) ==
  /\ pc[r] = "reclaimFailed"
  /\ IF Reclaimable(seen[r].id, From(r), start[r])
       THEN /\ TryReclaim(start[r] + Lease, start[r] + Ttl)
            /\ Claim(r, seen[r].id)
       ELSE Answer(r, None) /\ UNCHANGED row
  /\ UNCHANGED <<serial, clock, due, faults, effects, want, renew>>

-----------------------------------------------------------------------------
(* Executing and recording the outcome *)

ExecuteOk(r) ==
  /\ pc[r] = "execute"
  /\ effects' = effects + 1
  /\ Continue(r, "markSucceeded")
  /\ UNCHANGED <<storeVars, clock, due, faults, want, renew>>

ExecuteFails(r) ==
  /\ pc[r] = "execute"
  /\ Continue(r, "markFailed")
  /\ UNCHANGED <<storeVars, clock, due, faults, effects, want, renew>>

\* With ExecutionTimeout the expiry counts from the end of the execution.
ExpiresAt(r) == (IF renew[r] THEN clock ELSE start[r]) + Ttl

\* Execute returns; its renewal goroutine has ended.
Finish(r, b) ==
  /\ Answer(r, b)
  /\ due' = due \ {r}

RecordSucceeded(r) ==
  /\ pc[r] = "markSucceeded"
  /\ MarkSucceeded(rid[r], r, ExpiresAt(r))
  /\ Finish(r, r)
  /\ UNCHANGED <<serial, clock, faults, effects, want, renew>>

FailedLock == clock + Backoff

RecordFailed(r) ==
  /\ pc[r] = "markFailed"
  /\ MarkFailedRetryable(rid[r], FailedLock, ExpiresAt(r))
  /\ Finish(r, None)
  /\ UNCHANGED <<serial, clock, faults, effects, want, renew>>

-----------------------------------------------------------------------------
(* The renewal goroutine, the clock, the cleanup and faults *)

\* ExtendProcessingLock; the goroutine gives up when no row matches.
Renew(r) ==
  /\ r \in due /\ pc[r] \in Executing
  /\ IF Extendable(rid[r], want[r])
       THEN /\ ExtendProcessingLock(clock + Lease, clock + Ttl)
            /\ UNCHANGED renew
       ELSE renew' = [renew EXCEPT ![r] = FALSE] /\ UNCHANGED row
  /\ due' = due \ {r}
  /\ UNCHANGED <<serial, clock, faults, effects, pc, start, want, seen, rid,
                 answer>>

\* The extension fails; the goroutine tries again at its next tick.
RenewError(r) ==
  /\ r \in due
  /\ Fault
  /\ due' = due \ {r}
  /\ UNCHANGED <<storeVars, clock, effects, localVars>>

Tick ==
  /\ clock < MaxClock /\ due = {}
  /\ clock' = clock + 1
  /\ due' = {r \in Requests : renew[r] /\ pc[r] \in Executing}
  /\ UNCHANGED <<storeVars, faults, effects, localVars>>

Cleanup ==
  /\ DeleteExpired(clock)
  /\ UNCHANGED <<serial, clock, due, faults, effects, localVars>>

\* A statement fails, or it succeeds and its answer is lost.
StoreError(r) ==
  /\ pc[r] \notin {"idle", "execute", "done"}
  /\ Fault
  /\ Answer(r, None)
  /\ due' = due \ {r}
  /\ \/ UNCHANGED storeVars
     \/ pc[r] = "create" /\ CreateProcessing(want[r], start[r] + Lease,
                                             start[r] + Ttl)
     \/ /\ pc[r] \in {"reclaimExpired", "reclaimFailed"}
        /\ Reclaimable(seen[r].id, From(r), start[r])
        /\ TryReclaim(start[r] + Lease, start[r] + Ttl)
        /\ UNCHANGED serial
     \/ /\ pc[r] = "markSucceeded"
        /\ MarkSucceeded(rid[r], r, ExpiresAt(r))
        /\ UNCHANGED serial
     \/ /\ pc[r] = "markFailed"
        /\ MarkFailedRetryable(rid[r], FailedLock, ExpiresAt(r))
        /\ UNCHANGED serial
  /\ UNCHANGED <<clock, effects, want, renew>>

\* The process dies, in the middle of an execution too.
Crash(r) ==
  /\ pc[r] \notin {"idle", "done"}
  /\ Fault
  /\ Answer(r, None)
  /\ due' = due \ {r}
  /\ UNCHANGED <<storeVars, clock, effects, want, renew>>

-----------------------------------------------------------------------------
ClaimStep(r) == Begin(r) \/ Create(r) \/ Get(r) \/ GetRefused(r)
                  \/ ReclaimExpired(r) \/ Reload(r) \/ ReclaimFailed(r)

OutcomeStep(r) == ExecuteOk(r) \/ ExecuteFails(r) \/ RecordSucceeded(r)
                    \/ RecordFailed(r)

FaultStep(r) == RenewError(r) \/ StoreError(r) \/ Crash(r)

Next ==
  \/ Tick
  \/ Cleanup
  \/ \E r \in Requests :
       ClaimStep(r) \/ OutcomeStep(r) \/ Renew(r) \/ FaultStep(r)

Spec == Init /\ [][Next]_vars

-----------------------------------------------------------------------------
(* Properties.  No record expires before clock Ttl + 1, since every expiry *)
(* is some request's now plus Ttl, or later.                               *)

\* Until the key's record can expire, one request at a time executes, however
\* long it takes (an expired processing lock does not let a second one in).
OneExecution ==
  clock <= Ttl =>
    \A q, r \in Requests : pc[q] \in Executing /\ pc[r] \in Executing => q = r

\* Until the record can expire, the side effect happens at most once: not
\* again after a lost answer, a failed MarkSucceeded or a crash.
OneEffect == clock <= Ttl => effects <= 1

\* Whatever expires, is deleted or is overtaken, a request is only ever given
\* a response to the same method, route, actor and payload.
AnswersOwnRequest ==
  \A r \in Requests : answer[r] # None => want[answer[r]] = want[r]

\* Until the record can expire, the outcome of an execution that succeeded stays
\* as it was stored: no slower request, reclaim, renewal or cleanup touches it.
OutcomeStays ==
  [][(clock <= Ttl /\ row.status = "succeeded") => UNCHANGED row]_vars

-----------------------------------------------------------------------------
(* The inductive invariant behind these                                    *)

\* A request's now is not ahead of the clock; no record that is there expires
\* before Ttl + 1; a row that is not there is NoRow.
TimeInv ==
  /\ IF Present THEN row.id \in 1..serial /\ row.expires > Ttl ELSE row = NoRow
  /\ \A r \in Requests :
       pc[r] \notin {"idle", "done"} => start[r] \in 1..clock

\* A record keeps its fingerprint for life and its id is never used again, so
\* whoever read or claimed it may go by the id.
AnswerInv ==
  /\ row.body # None => want[row.body] = row.fp
  /\ \A r \in Requests :
       /\ seen[r].id <= serial /\ rid[r] <= serial
       /\ pc[r] \in {"reclaimExpired", "reclaimFailed"} =>
            seen[r].id > 0 /\ (row.id = seen[r].id => row.fp = want[r])
       /\ pc[r] \in Executing =>
            rid[r] > 0 /\ (row.id = rid[r] => row.fp = want[r])

\* Until a record can expire, it is processing for as long as its request
\* executes; and when an effect happened it never becomes free again.
EarlyInv ==
  clock <= Ttl =>
    /\ effects <= 1
    /\ \A r \in Requests :
         /\ pc[r] \notin {"reclaimExpired", "reload"}
         /\ pc[r] \in Executing =>
              row.status = "processing" /\ row.id = rid[r]
         /\ effects = 1 =>
              /\ row.status \in {"processing", "succeeded"}
              /\ pc[r] \notin {"execute", "markFailed"}

IInv == TypeOK /\ TimeInv /\ AnswerInv /\ EarlyInv /\ OneExecution
          /\ AnswersOwnRequest
=============================================================================
