--------------------------- MODULE BatchImageLedger ---------------------------
(***************************************************************************)
(* The balance hold of one batch image job: the user's frozen balance and  *)
(* the dedup table usage_billing_dedup.  Reserve, capture and release are  *)
(* each one database transaction that first claims a request id            *)
(* (batch_image_hold:, batch_image_capture:, batch_image_release: followed *)
(* by the batch id) and then moves the money.  One unit is the amount of   *)
(* the hold; OtherHold is what the user's other jobs have frozen.          *)
(***************************************************************************)
EXTENDS Integers, FiniteSets

CONSTANT OtherHold

ASSUME OtherHoldAssumption == OtherHold \in Nat

VARIABLES
    claims,     \* request ids claimed in usage_billing_dedup
    applied     \* claims whose transaction moved money

ledgerVars == <<claims, applied>>

Operations == {"hold", "capture", "release"}

LedgerType ==
    /\ claims \in SUBSET Operations
    /\ applied \in SUBSET claims

LedgerInit == claims = {} /\ applied = {}

\* users.frozen_balance: the part of other jobs, and what is left of this hold.
Frozen ==
    OtherHold + (IF "hold" \in applied THEN 1 ELSE 0)
              - Cardinality(applied \cap {"capture", "release"})

\* A claimed request id answers Applied = FALSE without error: nothing moves.
Repeats(op) == op \in claims /\ UNCHANGED ledgerVars

\* A release whose hold was never claimed moves nothing, but its transaction
\* commits, and the release request id stays claimed.
ReleasesNothing ==
    /\ "release" \notin claims
    /\ "hold" \notin claims
    /\ claims' = claims \cup {"release"}
    /\ UNCHANGED applied

\* The money is there to move: a capture or a release takes it from whatever
\* the user has frozen.
\* Variant: a release that does not ask whether the hold was ever reserved.
CoveredAlways(op) == op = "hold" \/ Frozen >= 1
Covered(op) ==
    \/ op = "hold"
    \/ op = "capture" /\ Frozen >= 1
    \/ op = "release" /\ "hold" \in claims /\ Frozen >= 1

\* Variant: the money moves and the request id is not claimed.
MovesUnclaimed(op) ==
    /\ op \notin claims
    /\ Covered(op)
    /\ applied' = applied \cup {op}
    /\ UNCHANGED claims
Moves(op) ==
    /\ op \notin claims
    /\ Covered(op)
    /\ claims' = claims \cup {op}
    /\ applied' = applied \cup {op}

Commits(op) ==
    \/ Repeats(op)
    \/ op = "release" /\ ReleasesNothing
    \/ Moves(op)

\* The transaction is rolled back: too little balance to freeze (a choice of the
\* environment), or too little frozen balance.
Refuses(op) ==
    /\ op \notin claims
    /\ \/ op = "hold"
       \/ op = "capture" /\ Frozen < 1
       \/ op = "release" /\ "hold" \in claims /\ Frozen < 1
    /\ UNCHANGED ledgerVars

===============================================================================
