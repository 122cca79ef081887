-------------------------- MODULE IdempotencyRecords --------------------------
(***************************************************************************)
(* The row of idempotency_records for one scope and key, and the SQL       *)
(* statements of the repository on it.  Each statement is atomic; the      *)
(* times it compares with are parameters, because the callers read their   *)
(* clock long before the statement runs.  NULL in locked_until is 0, which *)
(* no clock ever shows.                                                    *)
(***************************************************************************)
EXTENDS Naturals

CONSTANT None       \* NULL in request_fingerprint and response_body

VARIABLES row,      \* the row; status "absent" when there is none
          serial    \* the last id given out

storeVars == <<row, serial>>

Statuses == {"absent", "processing", "succeeded", "failed_retryable"}

\* What a row holds, for the given fingerprints and stored responses.
Rows(fps, bodies) ==
  [id : Nat, fp : fps \union {None}, status : Statuses, locked : Nat,
   expires : Nat, body : bodies \union {None}]

NoRow == [id |-> 0, fp |-> None, status |-> "absent", locked |-> 0,
          expires |-> 0, body |-> None]

Present == row.status # "absent"

\* INSERT ... ON CONFLICT DO NOTHING, where it inserts.
CreateProcessing(f, locked, expires) ==
  /\ ~Present
  /\ serial' = serial + 1
  /\ row' = [id |-> serial + 1, fp |-> f, status |-> "processing",
             locked |-> locked, expires |-> expires, body |-> None]

\* Variants: the WHERE clause without the status, or without the lock.
ReclaimableFromAny(id, from, t) == row.id = id /\ row.locked <= t
ReclaimableLocked(id, from, t) == row.id = id /\ row.status = from

\* The WHERE clause of TryReclaim; t is the caller's idea of now.
Reclaimable(id, from, t) ==
  /\ row.id = id
  /\ row.status = from
  /\ row.locked <= t

\* TryReclaim where it matches.  request_fingerprint and response_body stay.
TryReclaim(locked, expires) ==
  row' = [row EXCEPT !.status = "processing", !.locked = locked,
                     !.expires = expires]

\* The WHERE clause of ExtendProcessingLock.
Extendable(id, f) ==
  /\ row.id = id
  /\ row.status = "processing"
  /\ row.fp = f

ExtendProcessingLock(locked, expires) ==
  row' = [row EXCEPT !.locked = locked, !.expires = expires]

\* By id alone: neither the status nor an owner is compared.
MarkSucceeded(id, b, expires) ==
  row' = IF row.id = id
           THEN [row EXCEPT !.status = "succeeded", !.locked = 0,
                            !.expires = expires, !.body = b]
           ELSE row

\* Variant: a status the enumeration of statuses lacks.
FailedUnlisted == "failed"
FailedStatus == "failed_retryable"

MarkFailedRetryable(id, locked, expires) ==
  row' = IF row.id = id
           THEN [row EXCEPT !.status = FailedStatus,
                            !.locked = locked, !.expires = expires]
           ELSE row

\* The cleanup deletes what has expired at t, whatever its status.
DeleteExpired(t) ==
  /\ Present
  /\ row.expires <= t
  /\ row' = NoRow
=============================================================================
