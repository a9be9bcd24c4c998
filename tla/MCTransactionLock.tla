-------------------------- MODULE MCTransactionLock --------------------------
(* A small instance of TransactionLock; liveness is checked, so no symmetry. *)
EXTENDS TransactionLock
=============================================================================
