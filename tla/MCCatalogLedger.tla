-------------------------- MODULE MCCatalogLedger --------------------------
(* CatalogLedger on a small instance: two commands, three sequences, two   *)
(* different approvals of each.  Commands and approval digests are only    *)
(* ever compared, so both sets are symmetric.                              *)
EXTENDS CatalogLedger, TLC

Symmetry == Permutations(Procs) \cup Permutations(Digests)
=============================================================================
