----------------------------- MODULE EloRegister ------------------------------
(***************************************************************************)
(* What the Elo history of a home promises: a chain of evaluations, each   *)
(* of a newer package against the one accepted last, whose score moves by  *)
(* a bounded step, and only for a reason.  EloLedger implements it with    *)
(* files, a lock and a protected head.                                     *)
(***************************************************************************)
EXTENDS Integers

CONSTANTS Achievements,  \* the cases of the suite
          Version,       \* the rank of a package among public versions
          Bootstrap,     \* the package that the shipped score starts from
          EvaluationCap, ScoreMin, ScoreMax

VARIABLE log \* the evaluations so far

\* Where the history stands after its last evaluation, or before its first one.
Standing ==
  IF log = {} THEN [seq |-> 0, package |-> Bootstrap, score |-> ScoreMin, ids |-> {}]
  ELSE LET last == CHOOSE e \in log : \A f \in log : f.seq <= e.seq
       IN [seq |-> last.seq, package |-> last.cand.package, score |-> last.score, ids |-> last.ids]

\* Achievements that an evaluation has passed before and now not passed, or failed.
Missing(e) == {a \in Achievements : e.base.status[a] = "passed" /\ e.cand.status[a] # "passed"}
Failing(e) == {a \in Missing(e) : e.cand.status[a] = "failed"}

\* Nothing counts twice, and nothing that was counted is forgotten.
Counts(e) ==
  /\ e.new \subseteq e.ids \ Standing.ids
  /\ Standing.ids \subseteq e.ids

\* A step of bounded size: up only for something new while every loss is confirmed,
\* down only for a confirmed loss.
Moves(e) ==
  /\ e.score \in ScoreMin .. ScoreMax
  /\ e.score - Standing.score \in -EvaluationCap .. EvaluationCap
  /\ e.score > Standing.score => e.new # {} /\ Failing(e) = Missing(e)
  /\ e.score < Standing.score => Failing(e) # {}

Evaluate(e) ==
  /\ e.seq = Standing.seq + 1
  /\ e.base.package = Standing.package
  /\ Version[e.cand.package] > Version[e.base.package]
  /\ Counts(e) /\ Moves(e)
  /\ log' = log \cup {e}

RegisterInit == log = {}
RegisterNext == \E e \in log' : Evaluate(e)
RegisterSpec == RegisterInit /\ [][RegisterNext]_log
=============================================================================
