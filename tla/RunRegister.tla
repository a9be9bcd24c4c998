----------------------------- MODULE RunRegister -----------------------------
(***************************************************************************)
(* What the evidence of one run promises its readers: one attestation, one *)
(* verdict and one assessment, each given once and for good, the verdict   *)
(* being the attested one or its replacement by a source that expired.     *)
(***************************************************************************)
CONSTANTS Verdicts,     \* exit codes
          Blocked       \* the exit code of a source that blocks

VARIABLES attested,     \* the verdict that the attestation binds, or "none"
          sealed,       \* the verdict of the run manifest, or "none"
          assessed      \* whether the post-run assessment exists

vars == <<attested, sealed, assessed>>

Init == attested = "none" /\ sealed = "none" /\ assessed = FALSE

Attest(v) ==
  /\ attested = "none" /\ attested' = v
  /\ UNCHANGED <<sealed, assessed>>

Seal(v) ==
  /\ attested # "none" /\ sealed = "none"
  /\ v \in {attested, Blocked} /\ v # "pass"
  /\ sealed' = v
  /\ UNCHANGED <<attested, assessed>>

Assess ==
  /\ sealed # "none" /\ ~assessed
  /\ assessed' = TRUE
  /\ UNCHANGED <<attested, sealed>>

Next == (\E v \in Verdicts : Attest(v) \/ Seal(v)) \/ Assess

Spec == Init /\ [][Next]_vars
=============================================================================
