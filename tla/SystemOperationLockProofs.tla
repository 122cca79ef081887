---------------------- MODULE SystemOperationLockProofs ----------------------
(***************************************************************************)
(* Proofs about SystemOperationLock for any number of operations, faults   *)
(* and ticks, and for operations of any length: as long as every holder    *)
(* got an extension before its last one ran out, the lock excludes, and no *)
(* late extension or release of an earlier holder takes it from the        *)
(* present one.                                                            *)
(***************************************************************************)
EXTENDS SystemOperationLock, TLAPS

\* The assumptions on the constants.
Setting == OperationAssumption /\ LockTimeAssumption

-----------------------------------------------------------------------------
(* Types, which no overrun disturbs *)

LEMMA NoRowType == NoRow \in Rows(Operations, {})
BY DEF NoRow, Rows, Statuses

\* The insert and the failed insert.
LEMMA CreateType ==
  ASSUME Setting, TypeOK, NEW o \in Operations, Create(o) PROVE TypeOK'
<1> USE DEF Setting, LockTimeAssumption, history
<1>1. CASE Present
  BY <1>1 DEF Create, Goto, TypeOK, storeVars, PCs, Active, Acquiring
<1>2. CASE ~Present
  <2> USE <1>2 DEF Create, CreateProcessing, Hold, Goto
  <2>1. row' \in Rows(Operations, {})
    BY DEF TypeOK, Rows, Statuses
  <2>2. serial' \in Nat /\ rid' \in [Operations -> Nat]
    BY DEF TypeOK
  <2>3. pc' \in [Operations -> PCs] /\ renewing' \in [Operations -> BOOLEAN]
    BY DEF TypeOK, PCs, Active
  <2>4. kept' \in [Operations -> Nat] /\ overrun' \in BOOLEAN
    BY DEF TypeOK
  <2> QED BY <2>1, <2>2, <2>3, <2>4 DEF TypeOK
<1> QED BY <1>1, <1>2

\* The read.
LEMMA GetType ==
  ASSUME Setting, TypeOK, NEW o \in Operations, Get(o) PROVE TypeOK'
<1> USE DEF Get, Leave, Goto, Setting, LockTimeAssumption, history
<1>1. pc' \in [Operations -> PCs]
  BY DEF TypeOK, PCs, Active, Acquiring
<1>2. seen' \in [Operations -> [id : Nat, status : Statuses]]
  <2>1. [id |-> row.id, status |-> row.status] \in [id : Nat, status : Statuses]
    BY DEF TypeOK, Rows
  <2> QED BY <2>1 DEF TypeOK
<1>3. due' \subseteq Operations
  BY DEF TypeOK
<1> QED BY <1>1, <1>2, <1>3 DEF TypeOK, storeVars

\* What TryReclaim leaves, where it matches.
LEMMA ReclaimedRow ==
  ASSUME Setting, TypeOK, NEW o \in Operations, Reclaim(o),
         Reclaimable(seen[o].id, seen[o].status, start[o])
  PROVE  /\ row' \in Rows(Operations, {}) /\ row'.id = seen[o].id
         /\ row'.status = "processing" /\ row'.locked = start[o] + Lease
         /\ row'.expires = start[o] + Ttl
<1> USE DEF Setting, LockTimeAssumption
<1>1. row \in Rows(Operations, {}) /\ seen[o] \in [id : Nat, status : Statuses]
      /\ start[o] \in Nat
  BY DEF TypeOK
<1>2. row' = [row EXCEPT !.status = "processing",
                         !.locked = start[o] + Lease,
                         !.expires = start[o] + Ttl]
  BY DEF Reclaim, TryReclaim
<1>3. "processing" \in Statuses /\ row.id = seen[o].id
      /\ start[o] + Lease \in Nat /\ start[o] + Ttl \in Nat
  BY <1>1 DEF Statuses, Reclaimable
<1>4. row' \in Rows(Operations, {})
  BY ONLY <1>1, <1>2, <1>3 DEF Rows
<1>5. row'.id = seen[o].id /\ row'.status = "processing"
  BY ONLY <1>1, <1>2, <1>3 DEF Rows
<1>6. row'.locked = start[o] + Lease
  BY ONLY <1>1, <1>2, <1>3 DEF Rows
<1>7. row'.expires = start[o] + Ttl
  BY ONLY <1>1, <1>2, <1>3 DEF Rows
<1> QED BY <1>4, <1>5, <1>6, <1>7

LEMMA ReclaimType ==
  ASSUME Setting, TypeOK, NEW o \in Operations, Reclaim(o) PROVE TypeOK'
<1> USE DEF Setting, LockTimeAssumption, history
<1>1. CASE ~Reclaimable(seen[o].id, seen[o].status, start[o])
  BY <1>1 DEF Reclaim, Leave, Goto, TypeOK, PCs, Active, Acquiring
<1>2. CASE Reclaimable(seen[o].id, seen[o].status, start[o])
  <2> USE <1>2 DEF Reclaim, Hold, Goto
  <2>1. row' \in Rows(Operations, {})
    BY ReclaimedRow
  <2>2. pc' \in [Operations -> PCs] /\ renewing' \in [Operations -> BOOLEAN]
    BY DEF TypeOK, PCs, Active
  <2>3. rid' \in [Operations -> Nat]
    BY DEF TypeOK
  <2>4. kept' \in [Operations -> Nat] /\ overrun' \in BOOLEAN
    BY DEF TypeOK
  <2> QED BY <2>1, <2>2, <2>3, <2>4 DEF TypeOK
<1> QED BY <1>1, <1>2

\* Both marks of the release.
LEMMA ReleaseType ==
  ASSUME Setting, TypeOK, NEW o \in Operations, Release(o) PROVE TypeOK'
<1> USE DEF Setting, LockTimeAssumption, history
<1>1. row \in Rows(Operations, {}) /\ clock \in Nat
  BY DEF TypeOK
<1> DEFINE S == [row EXCEPT !.status = "succeeded", !.locked = 0,
                            !.expires = clock + Ttl, !.body = None]
           F == [row EXCEPT !.status = "failed_retryable", !.locked = clock,
                            !.expires = clock + Ttl]
<1>2. CASE MarkSucceeded(rid[o], None, clock + Ttl)
  <2>1. S \in Rows(Operations, {})
    <3>1. "succeeded" \in Statuses /\ clock + Ttl \in Nat
      BY <1>1 DEF Statuses
    <3> QED BY <1>1, <3>1 DEF Rows
  <2>2. row' = S \/ row' = row
    BY <1>2 DEF MarkSucceeded
  <2> QED BY <1>1, <2>1, <2>2 DEF Release, Leave, Goto, TypeOK, PCs
<1>3. CASE MarkFailedRetryable(rid[o], clock, clock + Ttl)
  <2>1. F \in Rows(Operations, {})
    <3>1. "failed_retryable" \in Statuses /\ clock + Ttl \in Nat
      BY <1>1 DEF Statuses
    <3> QED BY <1>1, <3>1 DEF Rows
  <2>2. row' = F \/ row' = row
    BY <1>3 DEF MarkFailedRetryable, FailedStatus
  <2> QED BY <1>1, <2>1, <2>2 DEF Release, Leave, Goto, TypeOK, PCs
<1> QED BY <1>2, <1>3 DEF Release

\* What a matching extension leaves.
LEMMA ExtendedRow ==
  ASSUME Setting, TypeOK, NEW o \in Operations, ApplyExtension(o),
         Extendable(rid[o], o)
  PROVE  /\ row' \in Rows(Operations, {}) /\ row'.id = row.id
         /\ row'.status = row.status /\ row'.locked = sent[o] + Lease
         /\ row'.expires = sent[o] + Ttl
<1>1. row \in Rows(Operations, {}) /\ sent[o] \in Nat
  BY DEF TypeOK
<1>2. row' = [row EXCEPT !.locked = sent[o] + Lease,
                         !.expires = sent[o] + Ttl]
  BY <1>1 DEF ApplyExtension, ExtendProcessingLock
<1>3. sent[o] + Lease \in Nat /\ sent[o] + Ttl \in Nat
  BY <1>1 DEF Setting, LockTimeAssumption
<1>4. row' \in Rows(Operations, {})
  BY ONLY <1>1, <1>2, <1>3 DEF Rows
<1>5. row'.id = row.id /\ row'.status = row.status
  BY ONLY <1>1, <1>2, <1>3 DEF Rows
<1>6. row'.locked = sent[o] + Lease
  BY ONLY <1>1, <1>2, <1>3 DEF Rows
<1>7. row'.expires = sent[o] + Ttl
  BY ONLY <1>1, <1>2, <1>3 DEF Rows
<1> QED BY <1>4, <1>5, <1>6, <1>7

\* Renewals, errors, crashes.
LEMMA RenewType ==
  ASSUME Setting, TypeOK, NEW o \in Operations, RenewStep(o) \/ FaultStep(o)
  PROVE  TypeOK'
<1> USE DEF Setting, LockTimeAssumption, storeVars, history
<1>1. CASE SendExtension(o)
  BY <1>1 DEF SendExtension, TypeOK
<1>2. CASE ApplyExtension(o) /\ ~Extendable(rid[o], o)
  BY <1>2 DEF ApplyExtension, TypeOK
<1>3. CASE ApplyExtension(o) /\ Extendable(rid[o], o)
  BY <1>3, ExtendedRow DEF ApplyExtension, TypeOK
<1>4. CASE ReleaseError(o) \/ Crash(o)
  <2> USE DEF Leave, Goto, Fault
  <2>1. pc' \in [Operations -> PCs] /\ renewing' \in [Operations -> BOOLEAN]
    BY <1>4 DEF ReleaseError, Crash, TypeOK, PCs
  <2>2. sent' \in [Operations -> Nat]
    BY <1>4 DEF ReleaseError, Crash, TypeOK
  <2> QED BY <1>4, <2>1, <2>2 DEF ReleaseError, Crash, TypeOK
<1>5. CASE ExtensionError(o)
  BY <1>5 DEF ExtensionError, TypeOK, Fault
<1> QED BY <1>1, <1>2, <1>3, <1>4, <1>5 DEF RenewStep, FaultStep

LEMMA TypeStep == ASSUME Setting, TypeOK, [Next]_vars PROVE TypeOK'
<1> USE DEF Setting, LockTimeAssumption, storeVars, localVars, history
<1>1. CASE Tick
  BY <1>1 DEF Tick, TypeOK
<1>2. CASE Cleanup
  BY <1>2, NoRowType DEF Cleanup, DeleteExpired, TypeOK
<1>3. ASSUME NEW o \in Operations, Begin(o) PROVE TypeOK'
  BY <1>3 DEF Begin, Goto, TypeOK, PCs, Active, Acquiring
<1>4. ASSUME NEW o \in Operations, AcquireStep(o) PROVE TypeOK'
  BY <1>3, <1>4, CreateType, GetType, ReclaimType DEF AcquireStep
<1>5. ASSUME NEW o \in Operations, Release(o) \/ RenewStep(o) \/ FaultStep(o)
      PROVE  TypeOK'
  BY <1>5, ReleaseType, RenewType
<1>6. CASE UNCHANGED vars
  BY <1>6 DEF TypeOK, vars
<1> QED BY <1>1, <1>2, <1>4, <1>5, <1>6 DEF Next

-----------------------------------------------------------------------------
(* Exclusion, for a step after which no holder has overrun its lease *)

Excluded == LeaseInv /\ OneSystemOperation

\* A new record is inserted only where there was none, so nobody held one.
LEMMA CreateExcludes ==
  ASSUME Setting, TypeOK, Excluded, NEW o \in Operations, Create(o), ~overrun'
  PROVE  Excluded'
<1> USE DEF Setting, LockTimeAssumption, Excluded, history
<1>1. CASE Present
  BY <1>1 DEF Create, Goto, LeaseInv, OneSystemOperation, TypeOK, storeVars,
       Acquiring
<1>2. CASE ~Present
  <2> USE <1>2 DEF Create, CreateProcessing, Hold, Goto
  <2>1. \A p \in Operations : pc'[p] = "holding" => p = o
    BY DEF LeaseInv, Present, TypeOK
  <2>2. /\ row'.id = rid'[o] /\ row'.status = "processing"
        /\ kept'[o] = start[o] /\ start[o] \in Nat /\ clock \in Nat
        /\ row'.locked = start[o] + Lease /\ row'.expires = start[o] + Ttl
    BY DEF TypeOK
  <2>3. start[o] <= clock
    BY DEF LeaseInv, Acquiring
  <2>4. ~(start[o] + Lease <= clock)
    OBVIOUS
  <2>5. clock < start[o] + Lease
    BY <2>2, <2>4
  <2> QED BY <2>1, <2>2, <2>3, <2>5 DEF LeaseInv, OneSystemOperation, TypeOK,
             Acquiring
<1> QED BY <1>1, <1>2

\* A record is reclaimed only if its lock ran out before the Acquire began,
\* so nobody held it.
LEMMA ReclaimExcludes ==
  ASSUME Setting, TypeOK, Excluded, NEW o \in Operations, Reclaim(o), ~overrun'
  PROVE  Excluded'
<1> USE DEF Setting, LockTimeAssumption, Excluded, history
<1>1. CASE ~Reclaimable(seen[o].id, seen[o].status, start[o])
  BY <1>1 DEF Reclaim, Leave, Goto, LeaseInv, OneSystemOperation, TypeOK,
       Acquiring
<1>2. CASE Reclaimable(seen[o].id, seen[o].status, start[o])
  <2> USE <1>2 DEF Reclaim, Hold, Goto
  <2>1. row.locked \in Nat /\ start[o] \in Nat /\ clock \in Nat
    BY DEF TypeOK, Rows
  <2>2. row.locked <= start[o] /\ start[o] <= clock
    BY DEF Reclaimable, LeaseInv, Acquiring
  <2>3. \A p \in Operations : pc[p] # "holding"
    <3> SUFFICES ASSUME NEW p \in Operations, pc[p] = "holding" PROVE FALSE
      OBVIOUS
    <3>1. clock < kept[p] + Lease /\ kept[p] + Lease <= row.locked
          /\ kept[p] \in Nat
      BY DEF LeaseInv, TypeOK
    <3> QED BY <2>1, <2>2, <3>1
  <2>4. \A p \in Operations : pc'[p] = "holding" => p = o
    BY <2>3 DEF TypeOK
  <2>5. kept'[o] = start[o] /\ rid'[o] = seen[o].id
    BY DEF TypeOK
  <2>6. ~(start[o] + Lease <= clock)
    OBVIOUS
  <2>7. clock < start[o] + Lease
    BY <2>1, <2>6
  <2>8. /\ row'.id = rid'[o] /\ row'.status = "processing"
        /\ row'.locked = start[o] + Lease /\ row'.expires = start[o] + Ttl
    BY <2>5, ReclaimedRow
  <2>9. OneSystemOperation'
    BY <2>4 DEF OneSystemOperation
  <2>10. LeaseInv'
    BY <2>1, <2>2, <2>4, <2>5, <2>7, <2>8 DEF LeaseInv, TypeOK, Acquiring
  <2> QED BY <2>9, <2>10
<1> QED BY <1>1, <1>2

\* Whoever releases is the only holder, so nobody else's record is touched.
LEMMA ReleaseExcludes ==
  ASSUME Setting, TypeOK, Excluded, NEW o \in Operations, Release(o)
  PROVE  Excluded'
<1>1. \A p \in Operations : pc'[p] # "holding"
  BY DEF Release, Leave, Goto, Excluded, TypeOK, OneSystemOperation
<1> QED BY <1>1 DEF Release, Leave, Goto, TypeOK, Excluded, LeaseInv,
             OneSystemOperation, Acquiring, history

\* An extension that matches grants its sender a new lease; a late one of an
\* earlier holder can only prolong the present holder's.
LEMMA RenewExcludes ==
  ASSUME Setting, TypeOK, Excluded, NEW o \in Operations, RenewStep(o)
  PROVE  Excluded'
<1> USE DEF Setting, LockTimeAssumption, storeVars, Excluded, history
<1>1. CASE SendExtension(o)
  BY <1>1 DEF SendExtension, TypeOK, LeaseInv, OneSystemOperation
<1>2. CASE ApplyExtension(o) /\ ~Extendable(rid[o], o)
  BY <1>2 DEF ApplyExtension, TypeOK, LeaseInv, OneSystemOperation
<1>3. CASE ApplyExtension(o) /\ Extendable(rid[o], o)
  <2>1. clock \in Nat /\ sent[o] = clock
    BY <1>3 DEF ApplyExtension, TypeOK, LeaseInv
  <2>2. /\ row'.id = row.id /\ row'.status = row.status
        /\ row'.locked = clock + Lease /\ row'.expires = clock + Ttl
    BY <1>3, <2>1, ExtendedRow
  <2>3. ASSUME NEW p \in Operations, pc[p] = "holding"
        PROVE  /\ kept'[p] + Lease <= row'.locked
               /\ kept'[p] + Lease <= row'.expires
               /\ kept'[p] <= clock /\ clock < kept'[p] + Lease
    <3>1. kept'[p] = kept[p] \/ kept'[p] = clock
      BY <1>3, <2>1 DEF ApplyExtension, TypeOK
    <3>2. kept[p] <= clock /\ clock < kept[p] + Lease /\ kept[p] \in Nat
      BY <2>3 DEF LeaseInv, TypeOK
    <3> QED BY <2>1, <2>2, <3>1, <3>2
  <2> QED BY <1>3, <2>2, <2>3 DEF ApplyExtension, TypeOK, LeaseInv,
             OneSystemOperation
<1> QED BY <1>1, <1>2, <1>3 DEF RenewStep

\* An operation that ends without a word leaves its record to run out.
LEMMA FaultExcludes ==
  ASSUME Setting, TypeOK, Excluded, NEW o \in Operations, FaultStep(o)
  PROVE  Excluded'
<1> USE DEF storeVars, Leave, Goto, Excluded, history, FaultStep
<1>1. CASE ReleaseError(o) \/ Crash(o)
  BY <1>1 DEF ReleaseError, Crash, TypeOK, LeaseInv, OneSystemOperation,
       Acquiring
<1>2. CASE ExtensionError(o)
  BY <1>2 DEF ExtensionError, TypeOK, LeaseInv, OneSystemOperation
<1> QED BY <1>1, <1>2

\* Time runs on while operations do; the tick that ends a holder's last lease
\* is an overrun.
LEMMA TickExcludes ==
  ASSUME Setting, TypeOK, Excluded, Tick, ~overrun' PROVE Excluded'
<1> USE DEF Setting, LockTimeAssumption, storeVars, localVars, Excluded
<1>1. clock' = clock + 1 /\ clock \in Nat
  BY DEF Tick, TypeOK
<1>2. ASSUME NEW o \in Operations, pc'[o] = "holding"
      PROVE  kept'[o] <= clock' /\ clock' < kept'[o] + Lease
  <2>1. kept'[o] = kept[o] /\ kept[o] \in Nat /\ kept[o] <= clock
    BY <1>2 DEF Tick, TypeOK, LeaseInv
  <2>2. ~(kept'[o] + Lease <= clock')
    BY <1>2 DEF Tick, Overdue
  <2> QED BY <1>1, <2>1, <2>2
<1>3. \A o \in Operations : pc[o] \in Acquiring => start[o] <= clock'
  BY <1>1 DEF LeaseInv, TypeOK
<1> QED BY <1>1, <1>2, <1>3 DEF Tick, LeaseInv, OneSystemOperation

\* The cleanup finds nothing expired while somebody holds the record.
LEMMA CleanupExcludes ==
  ASSUME Setting, TypeOK, Excluded, Cleanup PROVE Excluded'
<1> USE DEF Setting, LockTimeAssumption, localVars, Excluded, history
<1>1. \A p \in Operations : pc[p] # "holding"
  <2> SUFFICES ASSUME NEW p \in Operations, pc[p] = "holding" PROVE FALSE
    OBVIOUS
  <2>1. clock < kept[p] + Lease /\ kept[p] + Lease <= row.expires
    BY DEF LeaseInv
  <2>2. kept[p] \in Nat /\ row.expires \in Nat /\ clock \in Nat
    BY DEF TypeOK, Rows
  <2>3. row.expires <= clock
    BY DEF Cleanup, DeleteExpired
  <2> QED BY <2>1, <2>2, <2>3
<1> QED BY <1>1 DEF Cleanup, LeaseInv, OneSystemOperation

LEMMA StepExcludes ==
  ASSUME Setting, TypeOK, Excluded, [Next]_vars, ~overrun' PROVE Excluded'
<1> USE DEF Setting
<1>1. CASE Tick
  BY <1>1, TickExcludes
<1>2. CASE Cleanup
  BY <1>2, CleanupExcludes
<1>3. ASSUME NEW o \in Operations, Begin(o) \/ Get(o) PROVE Excluded'
  <2> USE DEF Leave, Goto, Excluded, LeaseInv, OneSystemOperation, TypeOK,
              storeVars, Acquiring, history
  <2>1. CASE Begin(o)
    BY <2>1 DEF Begin, LockTimeAssumption
  <2>2. CASE Get(o)
    BY <2>2 DEF Get
  <2> QED BY <1>3, <2>1, <2>2
<1>4. ASSUME NEW o \in Operations, AcquireStep(o) PROVE Excluded'
  BY <1>3, <1>4, CreateExcludes, ReclaimExcludes DEF AcquireStep
<1>5. ASSUME NEW o \in Operations, Release(o) \/ RenewStep(o) \/ FaultStep(o)
      PROVE  Excluded'
  BY <1>5, ReleaseExcludes, RenewExcludes, FaultExcludes
<1>6. CASE UNCHANGED vars
  BY <1>6 DEF Excluded, LeaseInv, OneSystemOperation, vars, storeVars,
       localVars, history
<1> QED BY <1>1, <1>2, <1>4, <1>5, <1>6 DEF Next

\* An overrun is never forgotten.
LEMMA OverrunStays == ASSUME [Next]_vars, overrun PROVE overrun'
<1> USE DEF history
<1>1. ASSUME NEW o \in Operations, AcquireStep(o) PROVE overrun'
  BY <1>1 DEF AcquireStep, Begin, Create, Get, Reclaim, Hold
<1>2. ASSUME NEW o \in Operations, Release(o) \/ RenewStep(o) \/ FaultStep(o)
      PROVE  overrun'
  BY <1>2 DEF Release, RenewStep, SendExtension, ApplyExtension, FaultStep,
       ReleaseError, Crash, ExtensionError
<1> QED BY <1>1, <1>2 DEF Next, Tick, Cleanup, vars

-----------------------------------------------------------------------------
(* The theorems *)

\* There is no record yet and nobody holds it.
LEMMA InitInv == Setting /\ Init => IInv
<1> SUFFICES ASSUME Setting, Init PROVE IInv
  OBVIOUS
<1>1. TypeOK
  <2>1. [id |-> 0, status |-> "absent"] \in [id : Nat, status : Statuses]
    BY DEF Statuses
  <2>2. row \in Rows(Operations, {})
    BY NoRowType DEF Init
  <2>3. seen \in [Operations -> [id : Nat, status : Statuses]]
    BY <2>1 DEF Init
  <2>4. /\ serial \in Nat /\ clock \in Nat \ {0} /\ due \subseteq Operations
        /\ faults \in Nat /\ pc \in [Operations -> PCs]
    BY DEF Init, PCs
  <2>5. /\ start \in [Operations -> Nat] /\ rid \in [Operations -> Nat]
        /\ renewing \in [Operations -> BOOLEAN] /\ sent \in [Operations -> Nat]
        /\ kept \in [Operations -> Nat] /\ overrun \in BOOLEAN
    BY DEF Init
  <2> QED BY <2>2, <2>3, <2>4, <2>5 DEF TypeOK
<1>2. LeaseInv /\ OneSystemOperation
  BY DEF Init, LeaseInv, OneSystemOperation, Acquiring
<1> QED BY <1>1, <1>2 DEF IInv

\* IInv is an invariant of the specification.
LEMMA Invariance == Spec => []IInv
<1>1. Setting
  BY OperationAssumption, LockTimeAssumption DEF Setting
<1>2. IInv /\ [Next]_vars => IInv'
  <2> SUFFICES ASSUME IInv, [Next]_vars PROVE IInv'
    OBVIOUS
  <2>1. TypeOK'
    BY <1>1, TypeStep DEF IInv
  <2>2. ASSUME ~overrun' PROVE Excluded'
    <3>1. ~overrun
      BY <2>2, OverrunStays
    <3> QED BY <1>1, <2>2, <3>1, StepExcludes DEF IInv, Excluded
  <2> QED BY <2>1, <2>2 DEF IInv, Excluded
<1>3. Init => IInv
  BY <1>1, InitInv
<1> QED BY <1>2, <1>3, PTL DEF Spec

\* Every variable of the lock keeps its type, however long operations run.
THEOREM TypeCorrect == Spec => []TypeOK
<1>1. IInv => TypeOK
  BY DEF IInv
<1> QED BY <1>1, Invariance, PTL

\* Operations of any length never run at the same time, for any number of
\* them, of crashes and of lost releases and extensions, until one of them runs
\* on although the last lease it was granted has run out.
THEOREM OperationsExclude == Spec => []LeasesExclude
<1>1. IInv => LeasesExclude
  BY DEF IInv, LeasesExclude
<1> QED BY <1>1, Invariance, PTL

\* Until then the record of whoever runs is its own, processing, and locked
\* beyond now.
THEOREM HoldersAreLocked == Spec => []HolderIsLocked
<1>1. IInv => HolderIsLocked
  <2> SUFFICES ASSUME IInv, ~overrun, NEW o \in Operations, pc[o] = "holding"
      PROVE  /\ row.id = rid[o] /\ row.status = "processing"
             /\ row.locked > clock
    BY DEF HolderIsLocked
  <2>1. clock < kept[o] + Lease /\ kept[o] + Lease <= row.locked
    BY DEF IInv, LeaseInv
  <2>2. /\ kept[o] \in Nat /\ row.locked \in Nat /\ clock \in Nat
        /\ Lease \in Nat
    BY LockTimeAssumption DEF IInv, TypeOK, Rows
  <2>3. row.locked > clock
    BY <2>1, <2>2
  <2> QED BY <2>3 DEF IInv, LeaseInv
<1> QED BY <1>1, Invariance, PTL
=============================================================================
