---- MODULE MCSystemOperationLock ----
(* Small instances of SystemOperationLock for TLC. *)
EXTENDS SystemOperationLock, TLC

CONSTANTS o1, o2, o3

OperationSymmetry == Permutations(Operations)
====
