-------------------------- MODULE CatalogRegister --------------------------
(***************************************************************************)
(* What the retained v1 catalog evidence of one profile promises to the    *)
(* commands that use it: an append-only register of approved snapshots.    *)
(* A command first observes the high-water and may then append exactly one *)
(* snapshot, and only while what it observed still is the high-water.      *)
(* The register hides files, locks, crashes and repairs; CatalogLedger     *)
(* implements it.                                                          *)
(***************************************************************************)
EXTENDS Integers

CONSTANTS Procs,      \* the commands that may run at the same time
          Snapshots,  \* snapshot documents; s.seq is the approval sequence
          Nothing     \* no snapshot

VARIABLES approved,   \* snapshots promoted so far
          observed    \* per command: the high-water it verified, or Nothing

regVars == <<approved, observed>>

RegisterInit ==
  /\ approved = {}
  /\ observed = [p \in Procs |-> Nothing]

HighWaterOf(S) == {s \in S : \A t \in S : t.seq <= s.seq}

\* A verification succeeds: it yields the high-water, Nothing if there is none.
Observe(p) ==
  /\ \/ approved = {} /\ observed' = [observed EXCEPT ![p] = Nothing]
     \/ \E h \in HighWaterOf(approved) : observed' = [observed EXCEPT ![p] = h]
  /\ UNCHANGED approved

\* Promotion is compare-and-append on the observed high-water.
Promote(p, s) ==
  /\ IF approved = {}
       THEN observed[p] = Nothing
       ELSE observed[p] \in HighWaterOf(approved) /\ s.seq = observed[p].seq + 1
  /\ approved' = approved \cup {s}
  /\ UNCHANGED observed

\* A command ends, successfully or not.
Forget(p) ==
  /\ observed' = [observed EXCEPT ![p] = Nothing]
  /\ UNCHANGED approved

RegisterNext ==
  \E p \in Procs : Observe(p) \/ Forget(p) \/ (\E s \in Snapshots : Promote(p, s))

RegisterSpec == RegisterInit /\ [][RegisterNext]_regVars
=============================================================================
