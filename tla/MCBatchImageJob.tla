---------------------------- MODULE MCBatchImageJob ----------------------------
EXTENDS BatchImageJob, TLC

\* Workers and calls of the owner are interchangeable.
Symmetry == Permutations(Workers) \cup Permutations(Users)
================================================================================
