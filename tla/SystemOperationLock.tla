------------------------- MODULE SystemOperationLock -------------------------
(***************************************************************************)
(* SystemOperationLockService: updates, rollbacks and restarts of the      *)
(* installation take a global lock, a lease kept in one idempotency record *)
(* and renewed by a goroutine of the holder.  One tick of the clock is one *)
(* renewal interval, a third of the lease.                                 *)
(***************************************************************************)
EXTENDS IdempotencyRecords

CONSTANTS Operations,   \* operation ids
          Lease,        \* lease, in renewal intervals
          Ttl,          \* SystemOperationTTL
          Prompt,       \* goroutines and statements take less than a tick
          MaxClock,     \* how long the clock runs (bound)
          MaxFaults     \* crashes and store errors (bound)

ASSUME OperationAssumption == None \notin Operations
ASSUME LockTimeAssumption ==
  /\ Lease \in Nat \ {0} /\ Ttl \in Nat /\ Lease <= Ttl
  /\ Prompt \in BOOLEAN
  /\ MaxClock \in Nat /\ MaxFaults \in Nat

VARIABLES
  clock,    \* time.Now()
  due,      \* renewal goroutines whose ticker has fired
  faults,   \* faults so far
  pc,       \* where each operation is
  start,    \* the now of its Acquire
  seen,     \* id and status of the record it read
  rid,      \* lock.recordID
  renewing, \* its renewal goroutine runs
  sent,     \* the now of an extension on its way, or 0
  kept,     \* history: the now its last granted lease counts from
  overrun   \* history: an operation ran on when that lease had run out

localVars == <<pc, start, seen, rid, renewing, sent>>
history == <<kept, overrun>>
vars == <<storeVars, clock, due, faults, localVars, history>>

Acquiring == {"create", "get", "reclaim"}
Active == Acquiring \union {"holding"}
PCs == {"idle", "done"} \union Active

TypeOK ==
  /\ row \in Rows(Operations, {}) /\ serial \in Nat
  /\ clock \in Nat \ {0}
  /\ due \subseteq Operations
  /\ faults \in Nat
  /\ pc \in [Operations -> PCs]
  /\ start \in [Operations -> Nat]
  /\ seen \in [Operations -> [id : Nat, status : Statuses]]
  /\ rid \in [Operations -> Nat]
  /\ renewing \in [Operations -> BOOLEAN]
  /\ sent \in [Operations -> Nat]
  /\ kept \in [Operations -> Nat] /\ overrun \in BOOLEAN

Init ==
  /\ row = NoRow /\ serial = 0
  /\ clock = 1 /\ due = {} /\ faults = 0
  /\ pc = [o \in Operations |-> "idle"]
  /\ start = [o \in Operations |-> 0]
  /\ seen = [o \in Operations |-> [id |-> 0, status |-> "absent"]]
  /\ rid = [o \in Operations |-> 0]
  /\ renewing = [o \in Operations |-> FALSE]
  /\ sent = [o \in Operations |-> 0]
  /\ kept = [o \in Operations |-> 0] /\ overrun = FALSE

-----------------------------------------------------------------------------
(* Helpers *)

Goto(o, l) == pc' = [pc EXCEPT ![o] = l]

Fault == faults < MaxFaults /\ faults' = faults + 1

\* The operation ends, or is refused with ErrSystemOperationBusy.
Leave(o) == Goto(o, "done") /\ due' = due \ {o}

\* An operation runs although the last lease it was granted has run out.
Overdue ==
  \E o \in Operations : pc[o] = "holding" /\ kept[o] + Lease <= clock

\* Acquire returns the lock; its renewal goroutine starts.
Hold(o, id) ==
  /\ Goto(o, "holding")
  /\ rid' = [rid EXCEPT ![o] = id]
  /\ renewing' = [renewing EXCEPT ![o] = TRUE]
  /\ kept' = [kept EXCEPT ![o] = start[o]]
  /\ overrun' = (overrun \/ start[o] + Lease <= clock)

-----------------------------------------------------------------------------
(* Acquire *)

Begin(o) ==
  /\ pc[o] = "idle"
  /\ Goto(o, "create")
  /\ start' = [start EXCEPT ![o] = clock]
  /\ UNCHANGED <<storeVars, clock, due, faults, seen, rid, renewing, sent,
                 history>>

Create(o) ==
  /\ pc[o] = "create"
  /\ IF Present
       THEN Goto(o, "get") /\ UNCHANGED <<storeVars, rid, renewing, history>>
       ELSE /\ CreateProcessing(o, start[o] + Lease, start[o] + Ttl)
            /\ Hold(o, serial + 1)
  /\ UNCHANGED <<clock, due, faults, start, seen, sent>>

Busy(o) == row.status = "processing" /\ row.locked > start[o]

\* GetByScopeAndKeyHash: gone, busy, or to be reclaimed from its status.
Get(o) ==
  /\ pc[o] = "get"
  /\ IF ~Present \/ Busy(o)
       THEN Leave(o) /\ UNCHANGED seen
       ELSE /\ Goto(o, "reclaim")
            /\ seen' = [seen EXCEPT ![o] = [id |-> row.id,
                                            status |-> row.status]]
            /\ UNCHANGED due
  /\ UNCHANGED <<storeVars, clock, faults, start, rid, renewing, sent, history>>

Reclaim(o) ==
  /\ pc[o] = "reclaim"
  /\ IF Reclaimable(seen[o].id, seen[o].status, start[o])
       THEN /\ TryReclaim(start[o] + Lease, start[o] + Ttl)
            /\ Hold(o, seen[o].id)
            /\ UNCHANGED due
       ELSE Leave(o) /\ UNCHANGED <<row, rid, renewing, history>>
  /\ UNCHANGED <<serial, clock, faults, start, seen, sent>>

-----------------------------------------------------------------------------
(* Release *)

\* Release stops the goroutine, though an extension may be on its way, and
\* marks the record by its id: succeeded, or failed and free at once.
Release(o) ==
  /\ pc[o] = "holding"
  /\ \/ MarkSucceeded(rid[o], None, clock + Ttl)
     \/ MarkFailedRetryable(rid[o], clock, clock + Ttl)
  /\ Leave(o)
  /\ renewing' = [renewing EXCEPT ![o] = FALSE]
  /\ UNCHANGED <<serial, clock, faults, start, seen, rid, sent, history>>

\* The operation fails or succeeds, but Release's statement does not.
ReleaseError(o) ==
  /\ pc[o] = "holding"
  /\ Fault
  /\ Leave(o)
  /\ renewing' = [renewing EXCEPT ![o] = FALSE]
  /\ UNCHANGED <<storeVars, clock, start, seen, rid, sent, history>>

\* The process is replaced or dies: the goroutine dies with it.
Crash(o) ==
  /\ pc[o] \in Active
  /\ Fault
  /\ Leave(o)
  /\ renewing' = [renewing EXCEPT ![o] = FALSE]
  /\ sent' = [sent EXCEPT ![o] = 0]
  /\ UNCHANGED <<storeVars, clock, start, seen, rid, history>>

-----------------------------------------------------------------------------
(* renewLoop *)

\* The ticker fires: the extension is computed and sent.
SendExtension(o) ==
  /\ o \in due /\ renewing[o]
  /\ sent' = [sent EXCEPT ![o] = clock]
  /\ due' = due \ {o}
  /\ UNCHANGED <<storeVars, clock, faults, pc, start, seen, rid, renewing,
                 history>>

\* It arrives, after Release too; no match ends the goroutine.
ApplyExtension(o) ==
  /\ sent[o] # 0
  /\ IF Extendable(rid[o], o)
       THEN /\ ExtendProcessingLock(sent[o] + Lease, sent[o] + Ttl)
            /\ kept' = [kept EXCEPT ![o] = sent[o]]
            /\ UNCHANGED renewing
       ELSE renewing' = [renewing EXCEPT ![o] = FALSE] /\ UNCHANGED <<row, kept>>
  /\ sent' = [sent EXCEPT ![o] = 0]
  /\ UNCHANGED <<serial, clock, due, faults, pc, start, seen, rid, overrun>>

\* It fails; the goroutine goes on with its next tick.
ExtensionError(o) ==
  /\ sent[o] # 0
  /\ Fault
  /\ sent' = [sent EXCEPT ![o] = 0]
  /\ UNCHANGED <<storeVars, clock, due, pc, start, seen, rid, renewing, history>>

-----------------------------------------------------------------------------
(* The clock and the cleanup *)

\* An extension is given two seconds, less than an interval.  A ticker drops
\* the ticks nobody takes.
Tick ==
  /\ clock < MaxClock
  /\ \A o \in Operations : sent[o] = 0
  /\ Prompt => due = {} /\ \A o \in Operations : pc[o] \notin Acquiring
  /\ clock' = clock + 1
  /\ due' = due \union {o \in Operations : renewing[o]}
  /\ UNCHANGED <<storeVars, faults, localVars, kept>>
  /\ overrun' = (overrun \/ Overdue')

Cleanup ==
  /\ DeleteExpired(clock)
  /\ UNCHANGED <<serial, clock, due, faults, localVars, history>>

-----------------------------------------------------------------------------
AcquireStep(o) == Begin(o) \/ Create(o) \/ Get(o) \/ Reclaim(o)
RenewStep(o) == SendExtension(o) \/ ApplyExtension(o)
FaultStep(o) == ReleaseError(o) \/ Crash(o) \/ ExtensionError(o)

Next ==
  \/ Tick
  \/ Cleanup
  \/ \E o \in Operations :
       AcquireStep(o) \/ Release(o) \/ RenewStep(o) \/ FaultStep(o)

Spec == Init /\ [][Next]_vars

-----------------------------------------------------------------------------
(* Properties *)

\* ErrSystemOperationBusy, "another system operation is in progress": no two
\* updates, rollbacks or restarts run at the same time.
OneSystemOperation ==
  \A o, p \in Operations : pc[o] = "holding" /\ pc[p] = "holding" => o = p

\* As long as every operation, however long it runs, got an extension before
\* its last one ran out, no two of them run at the same time.
LeasesExclude == ~overrun => OneSystemOperation

\* As long as that is so, the record of an operation that runs is processing
\* and its lock has not run out, whatever releases, crashes and late extensions
\* of other operations do to it.
HolderIsLocked ==
  ~overrun =>
    \A o \in Operations :
      pc[o] = "holding" =>
        /\ row.id = rid[o] /\ row.status = "processing"
        /\ row.locked > clock

-----------------------------------------------------------------------------
(* The inductive invariant behind both *)

\* Acquires and extensions carry a time that has been; so the record of
\* whoever holds is processing, and locked and unexpired for at least the
\* lease it was granted last.
LeaseInv ==
  /\ \A o \in Operations :
       /\ sent[o] \in {0, clock}
       /\ pc[o] \in Acquiring => start[o] <= clock
  /\ \A o \in Operations :
       pc[o] = "holding" =>
         /\ row.id = rid[o] /\ row.status = "processing"
         /\ kept[o] + Lease <= row.locked
         /\ kept[o] + Lease <= row.expires
         /\ kept[o] <= clock /\ clock < kept[o] + Lease

IInv == TypeOK /\ (~overrun => LeaseInv /\ OneSystemOperation)
=============================================================================
