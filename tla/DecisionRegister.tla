-------------------------- MODULE DecisionRegister --------------------------
(***************************************************************************)
(* What the judgment history of one run promises: a register of user       *)
(* decisions in which an approval and its revocation alternate, each one   *)
(* following the decision in force, all of them about one assessment.      *)
(* JudgmentHistory implements it with files.                               *)
(***************************************************************************)
EXTENDS Integers

CONSTANTS Procs,      \* the commands that may run at the same time
          Decisions,  \* decisions: d.seq, d.action and d.assessment
          Nothing     \* no decision

VARIABLES decided,    \* the decisions taken so far
          observed    \* per command: the decision it was told is in force

registerVars == <<decided, observed>>

RegisterInit ==
  /\ decided = {}
  /\ observed = [p \in Procs |-> Nothing]

LastOf(S) == {d \in S : \A e \in S : e.seq <= d.seq}

\* A reader learns the last decision, Nothing if there is none.
Observe(p) ==
  /\ \/ decided = {} /\ observed' = [observed EXCEPT ![p] = Nothing]
     \/ \E d \in LastOf(decided) : observed' = [observed EXCEPT ![p] = d]
  /\ UNCHANGED decided

Decide(d) ==
  /\ IF decided = {}
       THEN d.seq = 1 /\ d.action = "approve"
       ELSE \E last \in LastOf(decided) :
              /\ d.seq = last.seq + 1
              /\ d.action # last.action
              /\ d.assessment = last.assessment
  /\ decided' = decided \cup {d}
  /\ UNCHANGED observed

Forget(p) ==
  /\ observed' = [observed EXCEPT ![p] = Nothing]
  /\ UNCHANGED decided

RegisterNext ==
  \/ \E d \in Decisions : Decide(d)
  \/ \E p \in Procs : Observe(p) \/ Forget(p)

RegisterSpec == RegisterInit /\ [][RegisterNext]_registerVars
=============================================================================
