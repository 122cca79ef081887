------------------------ MODULE MCPaymentFulfillment ------------------------
(* Small instances of PaymentFulfillment for TLC. *)
EXTENDS PaymentFulfillment, TLC

\* Webhook goroutines are interchangeable, and so are jobs.
WorkerSymmetry == Permutations(Callbacks) \union Permutations(Jobs)
=============================================================================
