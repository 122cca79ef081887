---- MODULE MCIdempotency ----
(* Small instances of IdempotencyCoordinator for TLC. *)
EXTENDS IdempotencyCoordinator, TLC

CONSTANTS r1, r2, r3

RequestSymmetry == Permutations(Requests)
====
