----------------------- MODULE TransactionLock_proofs -----------------------
(***************************************************************************)
(* Proofs about TransactionLock, for any set of commands and any number of *)
(* faults.  LockInv is inductive: the command inside keeps others out by   *)
(* the existence of the file alone.  Under it every step of the file       *)
(* protocol is a step of ProfileLock or leaves the owner as it is.         *)
(***************************************************************************)
EXTENDS TransactionLock, TLAPS

\* Nobody is inside, and no file exists, at the start.
LEMMA InitLockInv == Init => LockInv
  BY FaultsAssumption, DistinctAssumption
  DEF Init, LockInv, TypeOK, Labels, InsideLabels, Inside

\* Every step of the lock file preserves LockInv.
LEMMA StepLockInv == LockInv /\ [Next]_vars => LockInv'
<1> SUFFICES ASSUME LockInv, [Next]_vars PROVE LockInv'
  OBVIOUS
<1> USE FaultsAssumption, DistinctAssumption
    DEF LockInv, TypeOK, Labels, InsideLabels, Inside, Goto
<1>1. ASSUME NEW p \in Procs, Start(p) PROVE LockInv'
  BY <1>1 DEF Start
<1>2. ASSUME NEW p \in Procs, Deadline(p) PROVE LockInv'
  BY <1>2 DEF Deadline
<1>3. ASSUME NEW p \in Procs, Create(p) PROVE LockInv'
  BY <1>3 DEF Create
<1>4. ASSUME NEW p \in Procs, GiveUp(p) PROVE LockInv'
  BY <1>4 DEF GiveUp
<1>5. ASSUME NEW p \in Procs, WriteToken(p) PROVE LockInv'
  BY <1>5 DEF WriteToken
<1>6. ASSUME NEW p \in Procs, ReadBack(p) PROVE LockInv'
  BY <1>6 DEF ReadBack
<1>7. ASSUME NEW p \in Procs, Leave(p) PROVE LockInv'
  BY <1>7 DEF Leave
<1>8. ASSUME NEW p \in Procs, CheckOwn(p) PROVE LockInv'
  BY <1>8 DEF CheckOwn
<1>9. ASSUME NEW p \in Procs, Unlink(p) PROVE LockInv'
  BY <1>9 DEF Unlink
<1>10. ASSUME NEW p \in Procs, WriteFails(p) PROVE LockInv'
  BY <1>10 DEF WriteFails
<1>11. ASSUME NEW p \in Procs, Crash(p) PROVE LockInv'
  BY <1>11 DEF Crash
<1>12. CASE RemoveStaleLock
  BY <1>12 DEF RemoveStaleLock
<1>13. CASE UNCHANGED vars
  BY <1>13 DEF vars
<1>14. QED
  BY <1>1, <1>2, <1>3, <1>4, <1>5, <1>6, <1>7, <1>8, <1>9, <1>10, <1>11, <1>12, <1>13
  DEF Next, Step

\* At most one command is between its successful create and its unlink, and
\* the file it created is there with the content it expects.
THEOREM LockInvariant == Spec => []LockInv
  BY InitLockInv, StepLockInv, PTL DEF Spec

\* Two commands never run their transactions at the same time.
THEOREM TransactionsExclude ==
  Spec => [](\A p, q \in Procs : pc[p] = "transaction" /\ pc[q] = "transaction" => p = q)
<1>1. LockInv => \A p, q \in Procs : pc[p] = "transaction" /\ pc[q] = "transaction" => p = q
  BY DEF LockInv, Inside, InsideLabels
<1>2. QED
  BY <1>1, LockInvariant, PTL

-----------------------------------------------------------------------------
(* The refinement of ProfileLock.                                          *)

Owner ==
  IF file = Absent THEN Absent
  ELSE IF Inside = {} THEN Stale
  ELSE CHOOSE p \in Inside : TRUE

\* The owner is the command inside, if there is one.
LEMMA OwnerInside == ASSUME LockInv, NEW p \in Inside PROVE Owner = p
  BY DEF LockInv, Owner

\* With nobody inside, the lock is free or stale.
LEMMA OwnerOutside ==
  ASSUME Inside = {} PROVE Owner = IF file = Absent THEN Absent ELSE Stale
  BY DEF Owner

\* A step after which the same commands are inside, and the file still exists
\* or still does not, leaves the owner as it is.
LEMMA OwnerKept ==
  ASSUME LockInv, LockInv', Inside' = Inside, file' = Absent <=> file = Absent
  PROVE  Owner' = Owner
  BY DEF Owner

\* Every step of the lock file is a step of the abstract lock or a stutter.
LEMMA StepOwner ==
  LockInv /\ LockInv' /\ [Next]_vars =>
    [(\E p \in Procs : Abstract!Take(p) \/ Abstract!GiveBack(p) \/ Abstract!Abandon(p))
     \/ Abstract!Clear]_Owner
<1> SUFFICES ASSUME LockInv, LockInv', [Next]_vars
    PROVE [(\E p \in Procs : Abstract!Take(p) \/ Abstract!GiveBack(p) \/ Abstract!Abandon(p))
           \/ Abstract!Clear]_Owner
  OBVIOUS
<1> USE FaultsAssumption, DistinctAssumption DEF Goto, Labels, InsideLabels
<1>1. ASSUME NEW p \in Procs, Create(p) PROVE Abstract!Take(p)
  <2>1. Owner = Absent
    BY <1>1 DEF Create, Owner
  <2>2. p \in Inside'
    BY <1>1 DEF Create, Inside, LockInv, TypeOK
  <2>3. Owner' = p
    BY <2>2 DEF LockInv, Owner
  <2>4. QED
    BY <2>1, <2>3 DEF Owner, Abstract!Take
<1>2. ASSUME NEW p \in Procs, Unlink(p) PROVE Abstract!GiveBack(p)
  <2>1. p \in Inside
    BY <1>2 DEF Unlink, Inside
  <2>2. Owner = p
    BY <2>1, OwnerInside
  <2>3. Owner' = Absent
    BY <1>2 DEF Unlink, Owner
  <2>4. QED
    BY <2>2, <2>3 DEF Owner, Abstract!GiveBack
<1>3. ASSUME NEW p \in Procs, p \in Inside, pc'[p] = "idle",
             \A q \in Procs \ {p} : pc'[q] = pc[q], file' # Absent
      PROVE Abstract!Abandon(p)
  <2>1. Owner = p
    BY <1>3, OwnerInside
  <2>2. Inside' = {}
    BY <1>3 DEF LockInv, Inside
  <2>3. Owner' = Stale
    BY <1>3, <2>2 DEF Owner
  <2>4. QED
    BY <2>1, <2>3 DEF Owner, Abstract!Abandon
<1>4. ASSUME NEW p \in Procs, WriteFails(p) \/ Crash(p) \/ CheckOwn(p), p \in Inside,
             pc'[p] = "idle"
      PROVE Abstract!Abandon(p)
  BY <1>3, <1>4 DEF WriteFails, Crash, CheckOwn, LockInv, TypeOK, Inside
<1>5. ASSUME Inside' = Inside, file' = Absent <=> file = Absent
      PROVE UNCHANGED Owner
  BY <1>5, OwnerKept
<1>6. ASSUME NEW p \in Procs, Start(p) \/ Deadline(p) \/ GiveUp(p) \/ ReadBack(p) \/ Leave(p)
      PROVE UNCHANGED Owner
  BY <1>5, <1>6 DEF Start, Deadline, GiveUp, ReadBack, Leave, LockInv, TypeOK, Inside
<1>7. ASSUME NEW p \in Procs, WriteToken(p) PROVE UNCHANGED Owner
  BY <1>5, <1>7 DEF WriteToken, LockInv, TypeOK, Inside
<1>8. ASSUME NEW p \in Procs, WriteFails(p) \/ CheckOwn(p) \/ Crash(p),
             p \notin Inside \/ pc'[p] # "idle"
      PROVE UNCHANGED Owner
  BY <1>5, <1>8 DEF WriteFails, CheckOwn, Crash, LockInv, TypeOK, Inside
<1>9. CASE RemoveStaleLock
  BY <1>9 DEF RemoveStaleLock, Owner, Abstract!Clear
<1>10. CASE UNCHANGED vars
  BY <1>10 DEF vars, Owner, Inside
<1>11. QED
  BY <1>1, <1>2, <1>4, <1>6, <1>7, <1>8, <1>9, <1>10 DEF Next, Step

\* The lock file, its token and its cleanup implement the lock with one owner
\* that every transaction relies on.
THEOREM LockRefinement == Spec => ImplementsLock
<1>1. Init => Owner = Absent
  BY DEF Init, Owner
<1>2. QED
  BY <1>1, LockInvariant, StepOwner, PTL
  DEF Spec, ImplementsLock, Abstract!LockSpec, Owner
=============================================================================
