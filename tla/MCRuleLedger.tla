---------------------------- MODULE MCRuleLedger ----------------------------
(* A small instance of RuleLedger.                                         *)
EXTENDS RuleLedger, TLC

\* Processes and digests are interchangeable.
Symmetry == Permutations(Procs) \cup Permutations(Digests)
=============================================================================
