------------------------- MODULE MCJudgmentHistory -------------------------
(* A small instance of JudgmentHistory: four records, two rival            *)
(* assessments and two rival choices.                                      *)
EXTENDS JudgmentHistory, TLC

\* Commands, assessments and choices are only compared.
Symmetry == Permutations(Procs) \cup Permutations(Assessments) \cup Permutations(Choices)
=============================================================================
