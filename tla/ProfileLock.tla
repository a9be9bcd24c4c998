----------------------------- MODULE ProfileLock -----------------------------
(***************************************************************************)
(* What every Guardian transaction relies on: one lock with at most one    *)
(* owner.  Only the owner gives it back.  A lock whose owner failed or     *)
(* died is stale: no command breaks it, an operator clears it.             *)
(***************************************************************************)
CONSTANTS Procs,  \* command processes
          Free,   \* nobody owns the lock
          Stale   \* its owner is gone

VARIABLE owner

Take(p) == owner = Free /\ owner' = p

GiveBack(p) == owner = p /\ owner' = Free

Abandon(p) == owner = p /\ owner' = Stale

Clear == owner = Stale /\ owner' = Free

LockSpec ==
  /\ owner = Free
  /\ [][(\E p \in Procs : Take(p) \/ GiveBack(p) \/ Abandon(p)) \/ Clear]_owner
=============================================================================
