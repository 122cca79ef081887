---------------------------- MODULE BatchImageQueue ----------------------------
(***************************************************************************)
(* The Redis structures of the batch image queue, as one job sees them:    *)
(* its copies in the ready list, its membership of the delayed and of the  *)
(* active sorted set, its inflight key and its lock.  Every operation is a *)
(* script or a transaction of Redis, so it is one step.                    *)
(***************************************************************************)
EXTENDS Naturals

CONSTANTS
    Workers,
    Free,       \* no lock
    Orphan      \* the lock of a worker that died: only its TTL ends it

ASSUME LockAssumption == {Free, Orphan} \cap Workers = {} /\ Free # Orphan

VARIABLES
    ready,      \* copies of the job in the ready list
    delayed,
    active,
    inflight,
    lock        \* the worker whose token the lock key holds

queueVars == <<ready, delayed, active, inflight, lock>>
listVars == <<ready, delayed, active, inflight>>

QueueType ==
    /\ ready \in Nat
    /\ delayed \in BOOLEAN /\ active \in BOOLEAN /\ inflight \in BOOLEAN
    /\ lock \in Workers \cup {Free, Orphan}

QueueInit ==
    /\ ready = 0
    /\ delayed = FALSE /\ active = FALSE /\ inflight = FALSE
    /\ lock = Free

\* Some structure will bring the job back to a worker.
Queued == ready > 0 \/ delayed \/ active

\* SET NX of the inflight key and LPUSH; ErrBatchImageAlreadyQueued otherwise,
\* which every caller takes for success.
Enqueue ==
    /\ inflight' = TRUE
    /\ ready' = IF inflight THEN ready ELSE ready + 1
    /\ UNCHANGED <<delayed, active, lock>>

Reserve ==
    /\ ready > 0
    /\ ready' = ready - 1
    /\ active' = TRUE
    /\ UNCHANGED <<delayed, inflight, lock>>

RequeueAfter ==
    /\ active' = FALSE
    /\ delayed' = TRUE
    /\ UNCHANGED <<ready, inflight, lock>>

Ack ==
    /\ active' = FALSE
    /\ delayed' = FALSE
    /\ inflight' = FALSE
    /\ UNCHANGED <<ready, lock>>

MoveDueDelayed ==
    /\ delayed
    /\ delayed' = FALSE
    /\ ready' = ready + 1
    /\ UNCHANGED <<active, inflight, lock>>

RecoverStaleActive ==
    /\ active
    /\ active' = FALSE
    /\ ready' = ready + 1
    /\ UNCHANGED <<delayed, inflight, lock>>

TryAcquireJobLock(w) == lock = Free /\ lock' = w /\ UNCHANGED listVars

\* Variant: a release that deletes whatever lock is there.
ReleaseAnyLock(w) == lock' = Free /\ UNCHANGED listVars
\* The release script compares the token.
ReleaseJobLock(w) ==
    /\ lock' = IF lock = w THEN Free ELSE lock
    /\ UNCHANGED listVars

================================================================================
