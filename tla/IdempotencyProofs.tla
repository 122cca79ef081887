-------------------------- MODULE IdempotencyProofs --------------------------
(***************************************************************************)
(* Proofs about IdempotencyCoordinator for any number of requests,         *)
(* fingerprints, ticks, store errors and crashes: until a record can       *)
(* expire its request executes once and alone, and nobody is ever given    *)
(* the response to another request.                                        *)
(***************************************************************************)
EXTENDS IdempotencyCoordinator, TLAPS

-----------------------------------------------------------------------------
(* What the statements of the repository do to the row.                    *)

LEMMA CreateRow ==
  ASSUME TypeOK, NEW r \in Requests,
         CreateProcessing(want[r], start[r] + Lease, start[r] + Ttl)
  PROVE  /\ ~Present /\ serial' = serial + 1 /\ row' \in RowType
         /\ row'.id = serial + 1 /\ row'.fp = want[r]
         /\ row'.status = "processing" /\ row'.expires = start[r] + Ttl
         /\ row'.body = None
<1>1. start[r] + Lease \in Nat /\ start[r] + Ttl \in Nat /\ serial + 1 \in Nat
  BY TimeAssumption DEF TypeOK
<1>2. want[r] \in Fingerprints
  BY DEF TypeOK
<1> QED BY <1>1, <1>2 DEF CreateProcessing, RowType, Rows, Statuses

LEMMA ReclaimRow ==
  ASSUME TypeOK, NEW l \in Nat, NEW e \in Nat, TryReclaim(l, e)
  PROVE  /\ row' \in RowType
         /\ row'.id = row.id /\ row'.fp = row.fp /\ row'.body = row.body
         /\ row'.status = "processing" /\ row'.expires = e
<1>1. "processing" \in Statuses /\ row \in Rows(Fingerprints, Requests)
  BY DEF TypeOK, RowType, Statuses
<1>2. row' = [row EXCEPT !.status = "processing", !.locked = l, !.expires = e]
  BY DEF TryReclaim
<1>3. row' \in RowType
  BY ONLY <1>1, <1>2, l \in Nat, e \in Nat DEF RowType, Rows
<1>4. row'.id = row.id /\ row'.fp = row.fp
  BY ONLY <1>1, <1>2 DEF Rows
<1>5. row'.body = row.body
  BY ONLY <1>1, <1>2 DEF Rows
<1>6. row'.status = "processing"
  BY ONLY <1>1, <1>2 DEF Rows
<1>7. row'.expires = e
  BY ONLY <1>1, <1>2 DEF Rows
<1> QED BY <1>3, <1>4, <1>5, <1>6, <1>7

LEMMA ExtendRow ==
  ASSUME TypeOK, NEW l \in Nat, NEW e \in Nat, ExtendProcessingLock(l, e)
  PROVE  /\ row' \in RowType
         /\ row'.id = row.id /\ row'.fp = row.fp /\ row'.body = row.body
         /\ row'.status = row.status /\ row'.expires = e
<1>1. row \in Rows(Fingerprints, Requests)
  BY DEF TypeOK, RowType
<1>2. row' = [row EXCEPT !.locked = l, !.expires = e]
  BY DEF ExtendProcessingLock
<1>3. row' \in RowType
  BY ONLY <1>1, <1>2, l \in Nat, e \in Nat DEF RowType, Rows
<1>4. row'.id = row.id /\ row'.fp = row.fp
  BY ONLY <1>1, <1>2 DEF Rows
<1>5. row'.body = row.body
  BY ONLY <1>1, <1>2 DEF Rows
<1>6. row'.status = row.status
  BY ONLY <1>1, <1>2 DEF Rows
<1>7. row'.expires = e
  BY ONLY <1>1, <1>2 DEF Rows
<1> QED BY <1>3, <1>4, <1>5, <1>6, <1>7

LEMMA SucceedRow ==
  ASSUME TypeOK, NEW id, NEW r \in Requests, NEW e \in Nat,
         MarkSucceeded(id, r, e)
  PROVE  \/ row.id # id /\ row' = row
         \/ /\ row.id = id /\ row' \in RowType
            /\ row'.id = row.id /\ row'.fp = row.fp /\ row'.body = r
            /\ row'.status = "succeeded" /\ row'.expires = e
<1> SUFFICES ASSUME row.id = id
             PROVE  /\ row' \in RowType
                    /\ row'.id = row.id /\ row'.fp = row.fp /\ row'.body = r
                    /\ row'.status = "succeeded" /\ row'.expires = e
  BY DEF MarkSucceeded
<1>1. row \in Rows(Fingerprints, Requests) /\ "succeeded" \in Statuses
      /\ 0 \in Nat /\ r \in Requests \union {None}
  BY DEF TypeOK, RowType, Statuses
<1>2. row' = [row EXCEPT !.status = "succeeded", !.locked = 0, !.expires = e,
                         !.body = r]
  BY DEF MarkSucceeded
<1>3. row' \in RowType
  BY ONLY <1>1, <1>2, e \in Nat DEF RowType, Rows
<1>4. row'.id = row.id /\ row'.fp = row.fp
  BY ONLY <1>1, <1>2 DEF Rows
<1>5. row'.body = r
  BY ONLY <1>1, <1>2 DEF Rows
<1>6. row'.status = "succeeded"
  BY ONLY <1>1, <1>2 DEF Rows
<1>7. row'.expires = e
  BY ONLY <1>1, <1>2 DEF Rows
<1> QED BY <1>3, <1>4, <1>5, <1>6, <1>7

LEMMA FailRow ==
  ASSUME TypeOK, NEW id, NEW l \in Nat, NEW e \in Nat,
         MarkFailedRetryable(id, l, e)
  PROVE  \/ row.id # id /\ row' = row
         \/ /\ row.id = id /\ row' \in RowType
            /\ row'.id = row.id /\ row'.fp = row.fp /\ row'.body = row.body
            /\ row'.status = "failed_retryable" /\ row'.expires = e
<1> SUFFICES ASSUME row.id = id
             PROVE  /\ row' \in RowType
                    /\ row'.id = row.id /\ row'.fp = row.fp
                    /\ row'.body = row.body
                    /\ row'.status = "failed_retryable" /\ row'.expires = e
  BY DEF MarkFailedRetryable
<1>1. row \in Rows(Fingerprints, Requests) /\ "failed_retryable" \in Statuses
  BY DEF TypeOK, RowType, Statuses
<1>2. row' = [row EXCEPT !.status = "failed_retryable", !.locked = l,
                         !.expires = e]
  BY DEF MarkFailedRetryable, FailedStatus
<1>3. row' \in RowType
  BY ONLY <1>1, <1>2, l \in Nat, e \in Nat DEF RowType, Rows
<1>4. row'.id = row.id /\ row'.fp = row.fp
  BY ONLY <1>1, <1>2 DEF Rows
<1>5. row'.body = row.body
  BY ONLY <1>1, <1>2 DEF Rows
<1>6. row'.status = "failed_retryable"
  BY ONLY <1>1, <1>2 DEF Rows
<1>7. row'.expires = e
  BY ONLY <1>1, <1>2 DEF Rows
<1> QED BY <1>3, <1>4, <1>5, <1>6, <1>7

-----------------------------------------------------------------------------
(* The moves of a request keep the types, and touch only that request.     *)

LEMMA AnswerType ==
  ASSUME TypeOK, NEW r \in Requests, NEW b \in Bodies, Answer(r, b)
  PROVE  /\ pc' \in [Requests -> PCs] /\ start' \in [Requests -> Nat]
         /\ seen' \in [Requests -> [id : Nat, status : Statuses]]
         /\ rid' \in [Requests -> Nat] /\ answer' \in [Requests -> Bodies]
<1>1. Unseen \in [id : Nat, status : Statuses]
  BY DEF Unseen, Statuses
<1>2. pc' \in [Requests -> PCs] /\ start' \in [Requests -> Nat]
  BY DEF TypeOK, Answer, Goto, PCs
<1>3. seen' \in [Requests -> [id : Nat, status : Statuses]]
  BY <1>1 DEF TypeOK, Answer
<1>4. rid' \in [Requests -> Nat] /\ answer' \in [Requests -> Bodies]
  BY DEF TypeOK, Answer
<1> QED BY <1>2, <1>3, <1>4

LEMMA ClaimType ==
  ASSUME TypeOK, NEW r \in Requests, NEW id \in Nat, Claim(r, id)
  PROVE  /\ pc' \in [Requests -> PCs] /\ rid' \in [Requests -> Nat]
         /\ seen' \in [Requests -> [id : Nat, status : Statuses]]
<1>1. Unseen \in [id : Nat, status : Statuses]
  BY DEF Unseen, Statuses
<1>2. pc' \in [Requests -> PCs] /\ rid' \in [Requests -> Nat]
  BY DEF TypeOK, Claim, Goto, PCs, Executing
<1>3. seen' \in [Requests -> [id : Nat, status : Statuses]]
  BY <1>1 DEF TypeOK, Claim
<1> QED BY <1>2, <1>3

LEMMA RememberType ==
  ASSUME TypeOK, NEW r \in Requests, NEW l \in PCs, Remember(r, l)
  PROVE  /\ pc' \in [Requests -> PCs]
         /\ seen' \in [Requests -> [id : Nat, status : Statuses]]
         /\ Look.id = row.id /\ Look.id \in Nat
<1>1. Look \in [id : Nat, status : Statuses] /\ Look.id = row.id
  BY DEF Look, TypeOK, RowType, Rows
<1>2. pc' \in [Requests -> PCs]
  BY DEF TypeOK, Remember, Goto
<1>3. seen' \in [Requests -> [id : Nat, status : Statuses]]
  BY <1>1 DEF TypeOK, Remember
<1> QED BY <1>1, <1>2, <1>3

LEMMA RowFields ==
  ASSUME TypeOK
  PROVE  /\ row.id \in Nat /\ row.expires \in Nat /\ row.locked \in Nat
         /\ row.body \in Bodies /\ row.fp \in Fingerprints \union {None}
BY DEF TypeOK, RowType, Rows, Bodies

\* An answer preserves the invariant when nothing else but due and faults
\* changes, and what is answered was meant for the request.
LEMMA AnswerInvariant ==
  ASSUME IInv, NEW r \in Requests, NEW b \in Bodies, Answer(r, b),
         b # None => want[b] = want[r],
         UNCHANGED <<storeVars, clock, effects, want, renew>>,
         due' \subseteq Requests, faults' \in Nat
  PROVE  IInv'
<1> USE DEF IInv, storeVars
<1>1. TypeOK'
  BY AnswerType DEF TypeOK
<1>2. Answer(r, b)
  OBVIOUS
<1> USE DEF Answer, Goto
<1>3. TimeInv'
  BY <1>1 DEF TimeInv, TypeOK, Present
<1>4. AnswerInv'
  BY DEF AnswerInv, TypeOK, Unseen, Executing
<1>5. EarlyInv' /\ OneExecution'
  BY DEF EarlyInv, OneExecution, TypeOK, Executing
<1>6. AnswersOwnRequest'
  BY DEF AnswersOwnRequest, TypeOK
<1> QED BY <1>1, <1>3, <1>4, <1>5, <1>6

-----------------------------------------------------------------------------
(* Claiming the record: it is nobody's, or nobody executes for it.         *)

\* An inserted record has an id that nobody has seen.
LEMMA CreateInvariant ==
  ASSUME IInv, NEW r \in Requests, pc[r] = "create",
         CreateProcessing(want[r], start[r] + Lease, start[r] + Ttl),
         \/ Claim(r, serial + 1)
         \/ Answer(r, None),
         UNCHANGED <<clock, effects, want, renew>>,
         due' \subseteq Requests, faults' \in Nat
  PROVE  IInv'
<1>1. TypeOK
  BY DEF IInv
<1>2. /\ ~Present /\ serial' = serial + 1 /\ row' \in RowType
      /\ row'.id = serial + 1 /\ row'.fp = want[r]
      /\ row'.status = "processing" /\ row'.expires = start[r] + Ttl
      /\ row'.body = None
  BY <1>1, CreateRow
<1>3. serial \in Nat /\ start[r] \in 1..clock /\ clock \in Nat /\ Ttl \in Nat
  BY TimeAssumption DEF IInv, TypeOK, TimeInv
<1>4. TypeOK'
  <2>1. CASE Answer(r, None)
    BY <1>1, <1>2, <1>3, <2>1, AnswerType DEF TypeOK, Bodies
  <2>2. CASE Claim(r, serial + 1)
    <3>1. serial + 1 \in Nat
      BY <1>3
    <3>2. /\ pc' \in [Requests -> PCs] /\ rid' \in [Requests -> Nat]
          /\ seen' \in [Requests -> [id : Nat, status : Statuses]]
      BY <1>1, <2>2, <3>1, ClaimType
    <3> QED BY <1>1, <1>2, <2>2, <3>1, <3>2 DEF TypeOK, Claim
  <2> QED BY <2>1, <2>2
<1>5. TimeInv'
  <2>1. Present' /\ row'.id \in 1..serial' /\ row'.expires > Ttl
    BY <1>2, <1>3 DEF Present
  <2>2. ASSUME NEW q \in Requests, pc'[q] \notin {"idle", "done"}
        PROVE  start'[q] \in 1..clock'
    BY <1>1, <2>2 DEF IInv, TimeInv, TypeOK, Claim, Answer, Goto
  <2> QED BY <2>1, <2>2 DEF TimeInv
<1>6. \A q \in Requests :
        pc[q] \in Executing => ~(clock <= Ttl) /\ rid[q] # row'.id
  BY <1>2, <1>3 DEF IInv, TypeOK, EarlyInv, AnswerInv, Present
<1>7. AnswerInv'
  <2>1. ASSUME NEW q \in Requests
        PROVE  /\ seen'[q].id <= serial' /\ rid'[q] <= serial'
               /\ pc'[q] \in {"reclaimExpired", "reclaimFailed"} =>
                    seen'[q].id > 0 /\ row'.id # seen'[q].id
               /\ pc'[q] \in Executing =>
                    rid'[q] > 0 /\ (row'.id = rid'[q] => row'.fp = want[q])
    <3>1. seen[q].id <= serial /\ rid[q] <= serial /\ seen[q].id \in Nat
          /\ rid[q] \in Nat
      BY <1>1 DEF IInv, TypeOK, AnswerInv
    <3>2. CASE q # r
      BY <1>1, <1>2, <1>3, <3>1, <3>2
         DEF IInv, TypeOK, AnswerInv, Claim, Answer, Goto
    <3>3. CASE q = r
      BY <1>1, <1>2, <1>3, <3>1, <3>3
         DEF IInv, TypeOK, Claim, Answer, Goto, Unseen, Executing
    <3> QED BY <3>2, <3>3
  <2> QED BY <1>2, <2>1 DEF AnswerInv
<1>8. EarlyInv' /\ OneExecution'
  <2> SUFFICES ASSUME clock <= Ttl
               PROVE  EarlyInv' /\ OneExecution'
    BY DEF EarlyInv, OneExecution
  <2>1. effects = 0
    BY <1>1, <1>2 DEF IInv, TypeOK, EarlyInv, Present
  <2>2. \A q \in Requests : pc'[q] \in Executing => q = r /\ rid'[q] = row'.id
    BY <1>1, <1>2, <1>6 DEF TypeOK, Claim, Answer, Goto, Executing
  <2>3. \A q \in Requests : pc'[q] \notin {"reclaimExpired", "reload"}
    BY <1>1 DEF IInv, TypeOK, EarlyInv, Claim, Answer, Goto
  <2> QED BY <1>2, <2>1, <2>2, <2>3 DEF EarlyInv, OneExecution
<1>9. AnswersOwnRequest'
  BY <1>1 DEF IInv, AnswersOwnRequest, TypeOK, Claim, Answer
<1> QED BY <1>4, <1>5, <1>7, <1>8, <1>9 DEF IInv

\* A reclaimed record was failed, as long as it cannot expire; it is the one
\* that was read, so its fingerprint is the request's.
LEMMA ReclaimInvariant ==
  ASSUME IInv, NEW r \in Requests,
         pc[r] \in {"reclaimExpired", "reclaimFailed"},
         Reclaimable(seen[r].id, From(r), start[r]),
         TryReclaim(start[r] + Lease, start[r] + Ttl),
         Claim(r, seen[r].id) \/ Answer(r, None),
         UNCHANGED <<serial, clock, effects, want, renew>>,
         due' \subseteq Requests, faults' \in Nat
  PROVE  IInv'
<1>1. TypeOK
  BY DEF IInv
<1>2. /\ serial \in Nat /\ start[r] \in 1..clock /\ clock \in Nat
      /\ Ttl \in Nat /\ Lease \in Nat /\ seen[r].id \in Nat
  BY TimeAssumption DEF IInv, TypeOK, TimeInv
<1>3. /\ row' \in RowType
      /\ row'.id = row.id /\ row'.fp = row.fp /\ row'.body = row.body
      /\ row'.status = "processing" /\ row'.expires = start[r] + Ttl
  <2>1. start[r] + Lease \in Nat /\ start[r] + Ttl \in Nat
    BY <1>2
  <2> QED BY <1>1, <2>1, ReclaimRow
<1>4. /\ row.id = seen[r].id /\ row.id > 0 /\ row.fp = want[r]
      /\ row.status = From(r)
  BY DEF Reclaimable, IInv, AnswerInv
<1>5. Present /\ row.id \in 1..serial
  <2>1. row # NoRow
    BY <1>2, <1>4 DEF NoRow
  <2> QED BY <2>1 DEF IInv, TimeInv
<1>6. TypeOK'
  <2>1. CASE Answer(r, None)
    BY <1>1, <1>3, <2>1, AnswerType DEF TypeOK, Bodies
  <2>2. CASE Claim(r, seen[r].id)
    BY <1>1, <1>2, <1>3, <2>2, ClaimType DEF TypeOK, Claim
  <2> QED BY <2>1, <2>2
<1>7. TimeInv'
  <2>1. Present' /\ row'.id \in 1..serial' /\ row'.expires > Ttl
    BY <1>2, <1>3, <1>5 DEF Present
  <2>2. ASSUME NEW q \in Requests, pc'[q] \notin {"idle", "done"}
        PROVE  start'[q] \in 1..clock'
    BY <1>1, <2>2 DEF IInv, TimeInv, TypeOK, Claim, Answer, Goto
  <2> QED BY <2>1, <2>2 DEF TimeInv
<1>8. AnswerInv'
  <2>1. ASSUME NEW q \in Requests
        PROVE  /\ seen'[q].id <= serial' /\ rid'[q] <= serial'
               /\ pc'[q] \in {"reclaimExpired", "reclaimFailed"} =>
                    seen'[q].id > 0
                    /\ (row'.id = seen'[q].id => row'.fp = want[q])
               /\ pc'[q] \in Executing =>
                    rid'[q] > 0 /\ (row'.id = rid'[q] => row'.fp = want[q])
    <3>1. CASE q # r
      BY <1>1, <1>3, <3>1 DEF IInv, TypeOK, AnswerInv, Claim, Answer, Goto
    <3>2. CASE q = r
      BY <1>1, <1>2, <1>3, <1>4, <1>5, <3>2
         DEF IInv, TypeOK, AnswerInv, Claim, Answer, Goto, Unseen, Executing
    <3> QED BY <3>1, <3>2
  <2> QED BY <1>3, <2>1 DEF AnswerInv, IInv
<1>9. EarlyInv' /\ OneExecution'
  <2> SUFFICES ASSUME clock <= Ttl
               PROVE  EarlyInv' /\ OneExecution'
    BY DEF EarlyInv, OneExecution
  <2>1. row.status = "failed_retryable"
    BY <1>4 DEF IInv, EarlyInv, From
  <2>2. effects = 0
    <3>1. effects \in Nat /\ effects <= 1
      BY <1>1 DEF TypeOK, IInv, EarlyInv
    <3>2. effects # 1
      BY <2>1 DEF IInv, EarlyInv
    <3> QED BY <3>1, <3>2
  <2>3. \A q \in Requests : pc[q] \notin Executing
    BY <2>1 DEF IInv, EarlyInv
  <2>4. \A q \in Requests : pc'[q] \in Executing => q = r /\ rid'[q] = row'.id
    BY <1>1, <1>3, <1>4, <2>3 DEF TypeOK, Claim, Answer, Goto, Executing
  <2>5. \A q \in Requests : pc'[q] \notin {"reclaimExpired", "reload"}
    BY <1>1 DEF IInv, TypeOK, EarlyInv, Claim, Answer, Goto
  <2> QED BY <1>3, <2>2, <2>4, <2>5 DEF EarlyInv, OneExecution
<1>10. AnswersOwnRequest'
  BY <1>1 DEF IInv, AnswersOwnRequest, TypeOK, Claim, Answer
<1> QED BY <1>6, <1>7, <1>8, <1>9, <1>10 DEF IInv

\* A request goes on with the record it has just read.
LEMMA RememberInvariant ==
  ASSUME IInv, NEW r \in Requests, pc[r] \in {"get", "reload"},
         Present, SameRequest(r),
         NEW l \in {"reclaimExpired", "reclaimFailed"}, Remember(r, l),
         l = "reclaimExpired" => Ttl < clock,
         UNCHANGED <<storeVars, clock, due, faults, effects, want, renew>>
  PROVE  IInv'
<1> USE DEF storeVars
<1>1. TypeOK /\ clock \in Nat /\ Ttl \in Nat
  BY TimeAssumption DEF IInv, TypeOK
<1>2. Look.id = row.id
  BY DEF Look
<1>3. TypeOK'
  <2>1. l \in PCs
    BY DEF PCs
  <2>2. /\ pc' \in [Requests -> PCs]
        /\ seen' \in [Requests -> [id : Nat, status : Statuses]]
    BY <1>1, <2>1, RememberType
  <2> QED BY <1>1, <2>2 DEF TypeOK, Remember
<1>4. TimeInv'
  BY <1>1 DEF IInv, TimeInv, TypeOK, Present, Remember, Goto
<1>5. AnswerInv'
  <2>1. row.id > 0 /\ row.id <= serial /\ row.fp = want[r]
    BY DEF IInv, TimeInv, SameRequest
  <2> QED BY <1>1, <1>2, <2>1
       DEF IInv, AnswerInv, TypeOK, Remember, Goto, Executing
<1>6. EarlyInv' /\ OneExecution'
  BY <1>1 DEF IInv, EarlyInv, OneExecution, TypeOK, Remember, Goto, Executing
<1>7. AnswersOwnRequest'
  BY DEF IInv, AnswersOwnRequest, Remember
<1> QED BY <1>3, <1>4, <1>5, <1>6, <1>7 DEF IInv

\* A stored response was stored for the fingerprint that is compared.
LEMMA DecideInvariant ==
  ASSUME IInv, NEW r \in Requests, pc[r] \in {"get", "reload"},
         Present, SameRequest(r), Decide(r),
         UNCHANGED <<storeVars, clock, due, faults, effects, want, renew>>
  PROVE  IInv'
<1>1. TypeOK /\ row.body \in Bodies /\ None \in Bodies
  BY RowFields DEF IInv, Bodies
<1>2. due' \subseteq Requests /\ faults' \in Nat
  BY <1>1 DEF TypeOK
<1>3. ASSUME NEW b \in {row.body, None}, Answer(r, b) PROVE IInv'
  <2>1. b # None => want[b] = want[r]
    BY <1>3 DEF IInv, AnswerInv, SameRequest
  <2> QED BY <1>1, <1>2, <1>3, <2>1, AnswerInvariant
<1>4. CASE Remember(r, "reclaimFailed")
  BY <1>4, RememberInvariant
<1> QED BY <1>3, <1>4 DEF Decide

LEMMA ClaimStepInvariant ==
  ASSUME IInv, NEW r \in Requests, ClaimStep(r) PROVE IInv'
<1> USE DEF storeVars
<1>1. TypeOK /\ clock \in Nat /\ Ttl \in Nat /\ None \in Bodies
      /\ due \subseteq Requests /\ faults \in Nat
  BY TimeAssumption DEF IInv, TypeOK, Bodies
<1>2. CASE Begin(r)
  <2> USE <1>2 DEF Begin, Goto
  <2>1. TypeOK'
    <3>1. pc' \in [Requests -> PCs] /\ start' \in [Requests -> Nat]
      BY <1>1 DEF TypeOK, PCs
    <3> QED BY <1>1, <3>1 DEF TypeOK
  <2>2. TimeInv'
    BY <1>1 DEF IInv, TimeInv, TypeOK, Present
  <2>3. AnswerInv' /\ AnswersOwnRequest'
    BY <1>1 DEF IInv, AnswerInv, AnswersOwnRequest, TypeOK, Executing
  <2>4. EarlyInv' /\ OneExecution'
    BY <1>1 DEF IInv, EarlyInv, OneExecution, TypeOK, Executing
  <2> QED BY <2>1, <2>2, <2>3, <2>4 DEF IInv
<1>3. CASE Create(r) /\ ~Present
  BY <1>1, <1>3, CreateInvariant DEF Create
<1>4. ASSUME Create(r), Present PROVE IInv'
  <2> USE <1>4 DEF Create, Continue, Goto
  <2>1. TypeOK'
    <3>1. pc' \in [Requests -> PCs]
      BY <1>1 DEF TypeOK, PCs
    <3> QED BY <1>1, <3>1 DEF TypeOK
  <2>2. TimeInv'
    BY <1>1 DEF IInv, TimeInv, TypeOK, Present
  <2>5. AnswerInv' /\ AnswersOwnRequest'
    BY <1>1 DEF IInv, AnswerInv, AnswersOwnRequest, TypeOK, Executing
  <2>3. EarlyInv' /\ OneExecution'
    BY <1>1 DEF IInv, EarlyInv, OneExecution, TypeOK, Executing
  <2> QED BY <2>1, <2>2, <2>3, <2>5 DEF IInv
<1>5. CASE GetRefused(r)
  BY <1>1, <1>5, AnswerInvariant DEF GetRefused
<1>6. CASE Get(r)
  <2>1. CASE row.expires <= start[r]
    <3>1. Ttl < clock
      <4>1. Ttl < row.expires /\ start[r] <= clock
        BY <1>6 DEF Get, IInv, TimeInv
      <4>2. row.expires \in Nat /\ start[r] \in Nat
        BY <1>1, RowFields DEF TypeOK
      <4> QED BY <1>1, <2>1, <4>1, <4>2
    <3>2. Remember(r, "reclaimExpired")
      BY <1>6, <2>1 DEF Get
    <3> QED BY <1>6, <3>1, <3>2, RememberInvariant DEF Get
  <2>2. CASE ~(row.expires <= start[r])
    BY <1>6, <2>2, DecideInvariant DEF Get
  <2> QED BY <2>1, <2>2
<1>7. CASE Reload(r)
  BY <1>7, DecideInvariant DEF Reload
<1>8. ASSUME ReclaimExpired(r) \/ ReclaimFailed(r),
             Reclaimable(seen[r].id, From(r), start[r])
      PROVE  IInv'
  BY <1>1, <1>8, ReclaimInvariant DEF ReclaimExpired, ReclaimFailed
<1>9. ASSUME ReclaimFailed(r), ~Reclaimable(seen[r].id, From(r), start[r])
      PROVE  IInv'
  BY <1>1, <1>9, AnswerInvariant DEF ReclaimFailed
<1>10. ASSUME ReclaimExpired(r), ~Reclaimable(seen[r].id, From(r), start[r])
       PROVE  IInv'
  <2> USE <1>10 DEF ReclaimExpired, Continue, Goto
  <2>1. TypeOK'
    <3>1. pc' \in [Requests -> PCs]
      BY <1>1 DEF TypeOK, PCs
    <3> QED BY <1>1, <3>1 DEF TypeOK
  <2>2. TimeInv'
    BY <1>1 DEF IInv, TimeInv, TypeOK, Present
  <2>5. AnswerInv' /\ AnswersOwnRequest'
    BY <1>1 DEF IInv, AnswerInv, AnswersOwnRequest, TypeOK, Executing
  <2>3. ~(clock <= Ttl)
    BY DEF IInv, EarlyInv
  <2>4. EarlyInv' /\ OneExecution'
    BY <2>3 DEF EarlyInv, OneExecution
  <2> QED BY <2>1, <2>2, <2>4, <2>5 DEF IInv
<1> QED BY <1>2, <1>3, <1>4, <1>5, <1>6, <1>7, <1>8, <1>9, <1>10 DEF ClaimStep

-----------------------------------------------------------------------------
(* Executing and recording the outcome.                                    *)

LEMMA ExecuteInvariant ==
  ASSUME IInv, NEW r \in Requests, ExecuteOk(r) \/ ExecuteFails(r) PROVE IInv'
<1> USE DEF storeVars, Continue, Goto
<1>1. TypeOK /\ effects \in Nat /\ pc[r] = "execute"
  BY DEF IInv, TypeOK, ExecuteOk, ExecuteFails
<1>2. /\ UNCHANGED <<row, serial, clock, start, seen, rid, answer, want>>
      /\ \/ effects' = effects + 1 /\ pc' = [pc EXCEPT ![r] = "markSucceeded"]
         \/ effects' = effects /\ pc' = [pc EXCEPT ![r] = "markFailed"]
  BY DEF ExecuteOk, ExecuteFails
<1>3. TypeOK'
  <2>1. pc' \in [Requests -> PCs] /\ effects' \in Nat
    BY <1>1, <1>2 DEF TypeOK, PCs, Executing
  <2> QED BY <1>1, <2>1 DEF TypeOK, ExecuteOk, ExecuteFails
<1>4. TimeInv' /\ AnswerInv' /\ AnswersOwnRequest'
  BY <1>1, <1>2 DEF IInv, TimeInv, AnswerInv, AnswersOwnRequest, TypeOK,
       Executing, Present
<1>5. EarlyInv' /\ OneExecution'
  <2> SUFFICES ASSUME clock <= Ttl PROVE EarlyInv' /\ OneExecution'
    BY <1>2 DEF EarlyInv, OneExecution
  <2>1. effects = 0
    BY <1>1 DEF IInv, EarlyInv
  <2>2. \A q \in Requests : pc[q] \in Executing => q = r
    BY <1>1 DEF IInv, OneExecution, Executing
  <2>3. /\ row.status = "processing" /\ row.id = rid[r]
        /\ \A q \in Requests : pc[q] \notin {"reclaimExpired", "reload"}
    BY <1>1 DEF IInv, EarlyInv, Executing
  <2>4. \A q \in Requests : pc'[q] \in Executing => q = r
    BY <1>1, <1>2, <2>2 DEF TypeOK
  <2>5. effects' <= 1 /\ (effects' = 1 => pc'[r] = "markSucceeded")
    BY <1>1, <1>2, <2>1 DEF TypeOK
  <2>6. \A q \in Requests : pc'[q] \notin {"reclaimExpired", "reload"}
    BY <1>1, <1>2, <2>3 DEF TypeOK
  <2>7. EarlyInv'
    BY <1>2, <2>3, <2>4, <2>5, <2>6 DEF EarlyInv, Executing
  <2>8. OneExecution'
    BY <2>4 DEF OneExecution
  <2> QED BY <2>7, <2>8
<1> QED BY <1>3, <1>4, <1>5 DEF IInv

\* The outcome is written to the record that was claimed, if it is still there;
\* until it can expire nobody else executes for it.
LEMMA OutcomeInvariant ==
  ASSUME IInv, NEW r \in Requests, NEW b \in {r, None}, Answer(r, b),
         \/ pc[r] = "markSucceeded" /\ MarkSucceeded(rid[r], r, ExpiresAt(r))
         \/ pc[r] = "markFailed"
            /\ MarkFailedRetryable(rid[r], FailedLock, ExpiresAt(r)),
         UNCHANGED <<serial, clock, effects, want, renew>>,
         due' \subseteq Requests, faults' \in Nat
  PROVE  IInv'
<1>1. /\ TypeOK /\ pc[r] \in Executing /\ Ttl \in Nat /\ clock \in 1..clock
      /\ start[r] \in 1..clock /\ clock \in Nat /\ b \in Bodies
      /\ rid[r] > 0 /\ (row.id = rid[r] => row.fp = want[r])
  BY TimeAssumption DEF IInv, TypeOK, TimeInv, AnswerInv, Executing, Bodies
<1>2. ExpiresAt(r) \in Nat /\ Ttl < ExpiresAt(r) /\ FailedLock \in Nat
  BY <1>1, TimeAssumption DEF ExpiresAt, FailedLock
<1>3. \/ row.id # rid[r] /\ row' = row
      \/ /\ row.id = rid[r] /\ row' \in RowType
         /\ row'.id = row.id /\ row'.fp = row.fp /\ row'.body \in {r, row.body}
         /\ row'.expires = ExpiresAt(r)
         /\ \/ pc[r] = "markSucceeded" /\ row'.status = "succeeded"
            \/ pc[r] = "markFailed" /\ row'.status = "failed_retryable"
  BY <1>1, <1>2, SucceedRow, FailRow
<1>4. TypeOK'
  BY <1>1, <1>3, AnswerType DEF TypeOK
<1>5. TimeInv'
  <2>1. \A q \in Requests :
          pc'[q] \notin {"idle", "done"} => start'[q] \in 1..clock'
    BY <1>1 DEF IInv, TimeInv, TypeOK, Answer, Goto
  <2>2. CASE row' = row
    BY <2>1, <2>2 DEF IInv, TimeInv, Present
  <2>3. CASE row' # row
    <3>1. row # NoRow
      BY <1>1, <1>3, <2>3 DEF NoRow
    <3>2. row.id \in 1..serial
      BY <3>1 DEF IInv, TimeInv
    <3>3. Present' /\ row'.id \in 1..serial' /\ row'.expires > Ttl
      BY <1>2, <1>3, <2>3, <3>2 DEF Present
    <3> QED BY <2>1, <3>3 DEF TimeInv
  <2> QED BY <2>2, <2>3
<1>6. AnswerInv'
  <2>1. row'.id = row.id /\ row'.fp = row.fp
        /\ (row'.body # None => want[row'.body] = row'.fp)
    BY <1>1, <1>3 DEF IInv, AnswerInv
  <2>2. ASSUME NEW q \in Requests
        PROVE  /\ seen'[q].id <= serial' /\ rid'[q] <= serial'
               /\ pc'[q] \in {"reclaimExpired", "reclaimFailed"} =>
                    seen'[q].id > 0
                    /\ (row'.id = seen'[q].id => row'.fp = want[q])
               /\ pc'[q] \in Executing =>
                    rid'[q] > 0 /\ (row'.id = rid'[q] => row'.fp = want[q])
    BY <1>1, <2>1 DEF IInv, AnswerInv, TypeOK, Answer, Goto, Unseen, Executing
  <2> QED BY <2>1, <2>2 DEF AnswerInv
<1>7. EarlyInv' /\ OneExecution'
  <2> SUFFICES ASSUME clock <= Ttl PROVE EarlyInv' /\ OneExecution'
    BY DEF EarlyInv, OneExecution
  <2>1. \A q \in Requests : pc'[q] \notin Executing
    BY <1>1 DEF IInv, OneExecution, TypeOK, Answer, Goto, Executing
  <2>2. \A q \in Requests : pc'[q] \notin {"reclaimExpired", "reload"}
    BY <1>1 DEF IInv, EarlyInv, TypeOK, Answer, Goto
  <2>3. effects' = 1 => row'.status = "succeeded"
    <3>1. row.id = rid[r]
      BY <1>1 DEF IInv, EarlyInv
    <3>2. effects = 1 => pc[r] # "markFailed"
      BY DEF IInv, EarlyInv
    <3> QED BY <1>3, <3>1, <3>2
  <2>4. effects' <= 1
    BY DEF IInv, EarlyInv
  <2> QED BY <2>1, <2>2, <2>3, <2>4 DEF EarlyInv, OneExecution, Executing
<1>8. AnswersOwnRequest'
  BY <1>1 DEF IInv, AnswersOwnRequest, TypeOK, Answer
<1> QED BY <1>4, <1>5, <1>6, <1>7, <1>8 DEF IInv

LEMMA OutcomeStepInvariant ==
  ASSUME IInv, NEW r \in Requests, OutcomeStep(r) PROVE IInv'
<1>1. due \ {r} \subseteq Requests /\ faults \in Nat
  BY DEF IInv, TypeOK
<1>2. CASE ExecuteOk(r) \/ ExecuteFails(r)
  BY <1>2, ExecuteInvariant
<1>3. CASE RecordSucceeded(r)
  BY <1>1, <1>3, OutcomeInvariant DEF RecordSucceeded, Finish
<1>4. CASE RecordFailed(r)
  BY <1>1, <1>4, OutcomeInvariant DEF RecordFailed, Finish
<1> QED BY <1>2, <1>3, <1>4 DEF OutcomeStep

-----------------------------------------------------------------------------
(* The renewal, the clock, the cleanup and faults.                         *)

\* An extension only moves the lock and the expiry.
LEMMA RenewInvariant ==
  ASSUME IInv, NEW r \in Requests, Renew(r) PROVE IInv'
<1>1. TypeOK /\ clock \in Nat /\ clock > 0 /\ Ttl \in Nat /\ Lease \in Nat
  BY TimeAssumption DEF IInv, TypeOK
<1>2. CASE Extendable(rid[r], want[r])
  <2>1. clock + Lease \in Nat /\ clock + Ttl \in Nat
    BY <1>1
  <2>2. /\ row' \in RowType /\ row'.id = row.id /\ row'.fp = row.fp
        /\ row'.body = row.body /\ row'.status = row.status
        /\ row'.expires = clock + Ttl
    BY <1>1, <1>2, <2>1, ExtendRow DEF Renew
  <2>3. Present
    BY <1>2 DEF Extendable, Present
  <2>4. TypeOK'
    BY <1>1, <1>2, <2>2 DEF Renew, TypeOK
  <2>5. TimeInv'
    BY <1>1, <1>2, <2>2, <2>3 DEF Renew, IInv, TimeInv, Present
  <2>6. AnswerInv' /\ AnswersOwnRequest'
    BY <2>2 DEF Renew, IInv, AnswerInv, AnswersOwnRequest
  <2>7. EarlyInv' /\ OneExecution'
    BY <2>2 DEF Renew, IInv, EarlyInv, OneExecution
  <2> QED BY <2>4, <2>5, <2>6, <2>7 DEF IInv
<1>3. CASE ~Extendable(rid[r], want[r])
  <2>1. TypeOK'
    BY <1>1, <1>3 DEF Renew, TypeOK
  <2>2. TimeInv' /\ AnswerInv' /\ AnswersOwnRequest'
    BY <1>3 DEF Renew, IInv, TimeInv, AnswerInv, AnswersOwnRequest, Present
  <2>3. EarlyInv' /\ OneExecution'
    BY <1>3 DEF Renew, IInv, EarlyInv, OneExecution
  <2> QED BY <2>1, <2>2, <2>3 DEF IInv
<1> QED BY <1>2, <1>3

LEMMA TickInvariant == ASSUME IInv, Tick PROVE IInv'
<1> USE DEF Tick, storeVars, localVars
<1>1. TypeOK'
  BY DEF IInv, TypeOK
<1>2. TimeInv'
  BY DEF IInv, TypeOK, TimeInv, Present
<1>3. AnswerInv' /\ AnswersOwnRequest'
  BY DEF IInv, AnswerInv, AnswersOwnRequest
<1>4. EarlyInv' /\ OneExecution'
  <2>1. clock' <= Ttl => clock <= Ttl
    BY TimeAssumption DEF IInv, TypeOK
  <2> QED BY <2>1 DEF IInv, EarlyInv, OneExecution
<1> QED BY <1>1, <1>2, <1>3, <1>4 DEF IInv

\* Nothing has expired before Ttl + 1.
LEMMA CleanupInvariant == ASSUME IInv, Cleanup PROVE IInv'
<1> USE DEF Cleanup, DeleteExpired, localVars
<1>1. NoRow \in RowType /\ NoRow.id = 0 /\ NoRow.body = None
  BY DEF NoRow, RowType, Rows, Statuses
<1>2. TypeOK'
  BY <1>1 DEF IInv, TypeOK
<1>3. TimeInv'
  BY DEF IInv, TimeInv, Present, NoRow
<1>4. AnswerInv' /\ AnswersOwnRequest'
  <2>1. ASSUME NEW q \in Requests
        PROVE  /\ pc[q] \in {"reclaimExpired", "reclaimFailed"} =>
                    seen[q].id > 0 /\ seen[q].id # 0
               /\ pc[q] \in Executing => rid[q] > 0 /\ rid[q] # 0
    BY DEF IInv, AnswerInv, TypeOK
  <2> QED BY <1>1, <2>1 DEF IInv, AnswerInv, AnswersOwnRequest
<1>5. ~(clock <= Ttl)
  <2>1. row.expires \in Nat /\ clock \in Nat /\ Ttl \in Nat
    BY RowFields, TimeAssumption DEF IInv, TypeOK
  <2> QED BY <2>1 DEF IInv, TimeInv
<1>6. EarlyInv' /\ OneExecution'
  BY <1>5 DEF EarlyInv, OneExecution
<1> QED BY <1>2, <1>3, <1>4, <1>6 DEF IInv

LEMMA FaultStepInvariant ==
  ASSUME IInv, NEW r \in Requests, FaultStep(r) PROVE IInv'
<1>1. /\ TypeOK /\ due \ {r} \subseteq Requests /\ None \in Bodies
      /\ faults \in Nat /\ faults + 1 \in Nat
  BY DEF IInv, TypeOK, Bodies
<1>2. CASE RenewError(r)
  <2> USE <1>2 DEF RenewError, Fault, storeVars, localVars
  <2>1. TypeOK'
    BY <1>1 DEF TypeOK
  <2>2. TimeInv' /\ AnswerInv' /\ AnswersOwnRequest'
    BY DEF IInv, TimeInv, AnswerInv, AnswersOwnRequest, Present
  <2>3. EarlyInv' /\ OneExecution'
    BY DEF IInv, EarlyInv, OneExecution
  <2> QED BY <2>1, <2>2, <2>3 DEF IInv
<1>3. CASE Crash(r)
  BY <1>1, <1>3, AnswerInvariant DEF Crash, Fault
<1>4. CASE StoreError(r)
  <2>1. CASE UNCHANGED storeVars
    BY <1>1, <1>4, <2>1, AnswerInvariant DEF StoreError, Fault
  <2>2. CASE pc[r] = "create" /\ CreateProcessing(want[r], start[r] + Lease,
                                                 start[r] + Ttl)
    BY <1>1, <1>4, <2>2, CreateInvariant DEF StoreError, Fault
  <2>3. CASE /\ pc[r] \in {"reclaimExpired", "reclaimFailed"}
             /\ Reclaimable(seen[r].id, From(r), start[r])
             /\ TryReclaim(start[r] + Lease, start[r] + Ttl)
             /\ UNCHANGED serial
    BY <1>1, <1>4, <2>3, ReclaimInvariant DEF StoreError, Fault
  <2>4. CASE /\ pc[r] = "markSucceeded"
             /\ MarkSucceeded(rid[r], r, ExpiresAt(r))
             /\ UNCHANGED serial
    BY <1>1, <1>4, <2>4, OutcomeInvariant DEF StoreError, Fault
  <2>5. CASE /\ pc[r] = "markFailed"
             /\ MarkFailedRetryable(rid[r], FailedLock, ExpiresAt(r))
             /\ UNCHANGED serial
    BY <1>1, <1>4, <2>5, OutcomeInvariant DEF StoreError, Fault
  <2> QED BY <1>4, <2>1, <2>2, <2>3, <2>4, <2>5 DEF StoreError
<1> QED BY <1>2, <1>3, <1>4 DEF FaultStep

-----------------------------------------------------------------------------
LEMMA InitInv == Init => IInv
<1> SUFFICES ASSUME Init PROVE IInv
  OBVIOUS
<1> USE DEF Init
<1>1. /\ NoRow \in RowType /\ NoRow.body = None /\ ~Present
      /\ Unseen \in [id : Nat, status : Statuses] /\ Unseen.id = 0
  BY DEF NoRow, RowType, Rows, Statuses, Unseen, Present
<1>2. TypeOK
  BY <1>1 DEF TypeOK, PCs, Bodies
<1>3. TimeInv /\ AnswerInv /\ AnswersOwnRequest
  BY <1>1 DEF TimeInv, AnswerInv, AnswersOwnRequest, Executing
<1>4. EarlyInv /\ OneExecution
  BY DEF EarlyInv, OneExecution, Executing
<1> QED BY <1>2, <1>3, <1>4 DEF IInv

\* IInv is an invariant of the specification.
LEMMA Invariance == Spec => []IInv
<1>1. IInv /\ [Next]_vars => IInv'
  <2> SUFFICES ASSUME IInv, [Next]_vars PROVE IInv'
    OBVIOUS
  <2>1. CASE Tick
    BY <2>1, TickInvariant
  <2>2. CASE Cleanup
    BY <2>2, CleanupInvariant
  <2>3. ASSUME NEW r \in Requests,
               ClaimStep(r) \/ OutcomeStep(r) \/ Renew(r) \/ FaultStep(r)
        PROVE  IInv'
    BY <2>3, ClaimStepInvariant, OutcomeStepInvariant, RenewInvariant,
       FaultStepInvariant
  <2>4. CASE UNCHANGED vars
    BY <2>4 DEF IInv, TypeOK, TimeInv, AnswerInv, EarlyInv, OneExecution,
         AnswersOwnRequest, Present, vars, storeVars, localVars
  <2> QED BY <2>1, <2>2, <2>3, <2>4 DEF Next
<1> QED BY <1>1, InitInv, PTL DEF Spec

\* Every variable of the coordinator keeps its type.
THEOREM TypeCorrect == Spec => []TypeOK
<1>1. IInv => TypeOK
  BY DEF IInv
<1> QED BY <1>1, Invariance, PTL

\* Until a key's record can expire, at most one request executes for it
\* (CreateProcessing, TryReclaim by status and lock).
THEOREM ExecutesAlone == Spec => []OneExecution
<1>1. IInv => OneExecution
  BY DEF IInv
<1> QED BY <1>1, Invariance, PTL

\* Until a key's record can expire, the side effect happens at most once,
\* whatever is lost, fails or crashes.
THEOREM EffectsOnce == Spec => []OneEffect
<1>1. IInv => OneEffect
  BY DEF IInv, EarlyInv, OneEffect
<1> QED BY <1>1, Invariance, PTL

\* No request is given a response to a different one, for as long as the system
\* runs, expiry, deletion and reclaiming included.
THEOREM AnswersMatch == Spec => []AnswersOwnRequest
<1>1. IInv => AnswersOwnRequest
  BY DEF IInv
<1> QED BY <1>1, Invariance, PTL

\* Until the record of a key can expire, no update finds a stored outcome:
\* TryReclaim asks for another status, and whoever might still record or renew
\* by the record's id executes, which the stored outcome excludes.
THEOREM OutcomesStay == Spec => OutcomeStays
<1>1. IInv /\ [Next]_vars =>
        [(clock <= Ttl /\ row.status = "succeeded") => UNCHANGED row]_vars
  <2> SUFFICES ASSUME IInv, Next, clock <= Ttl, row.status = "succeeded"
               PROVE  UNCHANGED row
    OBVIOUS
  <2>1. ASSUME NEW r \in Requests
        PROVE  /\ pc[r] \notin {"reclaimExpired", "reload"} \union Executing
               /\ Present
    BY DEF IInv, EarlyInv, Present
  <2>2. CASE Tick
    BY <2>2 DEF Tick, storeVars
  <2>3. ~Cleanup
    <3>1. row.expires \in Nat /\ clock \in Nat /\ Ttl \in Nat /\ row.expires > Ttl
      BY RowFields, TimeAssumption DEF IInv, TypeOK, TimeInv, Present
    <3> QED BY <3>1 DEF Cleanup, DeleteExpired
  <2>4. ASSUME NEW r \in Requests, ClaimStep(r) PROVE UNCHANGED row
    BY <2>1, <2>4 DEF ClaimStep, Begin, Create, Get, GetRefused, ReclaimExpired,
       Reload, ReclaimFailed, Reclaimable, From, storeVars
  <2>5. ASSUME NEW r \in Requests, OutcomeStep(r) \/ Renew(r)
        PROVE  UNCHANGED row
    BY <2>1, <2>5 DEF OutcomeStep, ExecuteOk, ExecuteFails, RecordSucceeded,
       RecordFailed, Renew, Executing, storeVars
  <2>6. ASSUME NEW r \in Requests, FaultStep(r) PROVE UNCHANGED row
    BY <2>1, <2>6 DEF FaultStep, RenewError, StoreError, Crash, CreateProcessing,
       Reclaimable, From, Executing, storeVars
  <2> QED BY <2>2, <2>3, <2>4, <2>5, <2>6 DEF Next
<1> QED BY <1>1, Invariance, PTL DEF Spec, OutcomeStays
=============================================================================
