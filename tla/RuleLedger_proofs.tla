------------------------- MODULE RuleLedger_proofs -------------------------
(***************************************************************************)
(* Proofs about RuleLedger, for every set of commands, sequences and       *)
(* digests, every number of grants and every number of faults.             *)
(*                                                                         *)
(* RuleInv is inductive.  FilesKept covers the conjuncts about files for   *)
(* the steps that write none; the steps that write have one step per       *)
(* conjunct.                                                               *)
(***************************************************************************)
EXTENDS RuleLedger, TLAPS

\* An approval sequence is a number.
LEMMA IdSeq == \A c \in Id : c.seq \in Nat
  BY SeqsAssumption DEF Id

LEMMA RuleSeq == \A r \in Rule : r.seq \in Nat /\ r.prev \in Id /\ r.perm \in Binding /\ IdOf(r) \in Id
  BY SeqsAssumption DEF Rule, Id, IdOf

\* A catalog is its sequence and its digest.
LEMMA IdExt == \A c \in Id : [seq |-> c.seq, digest |-> c.digest] = c
  BY DEF Id

\* The initial state, an empty profile, satisfies the invariant.
LEMMA InitInv == Init => RuleInv
<1> SUFFICES ASSUME Init PROVE RuleInv
  OBVIOUS
<1> USE DistinctAssumption, BoundsAssumption DEF Init
<1>1. TypeOK
  BY DEF TypeOK, Labels, LockedOps
<1>2. ControlFlow
  BY DEF ControlFlow, WritingLabels, LockedOps
<1>3. LockOwner
  BY DEF LockOwner, InTransaction, LockedOps
<1>4. Grounded
  BY DEF Grounded, OnePerSequence, Evidence
<1>5. Lineage /\ Trailing
  BY DEF Lineage, Trailing, promoted, trailing
<1>6. \A p \in Procs : InTransaction(p) => Progress(p)
  BY DEF InTransaction
<1> QED
  BY <1>1, <1>2, <1>3, <1>4, <1>5, <1>6 DEF RuleInv

\* A step that writes no file keeps what the files say.
LEMMA FilesKept ==
  ASSUME RuleInv, UNCHANGED <<v1, files>>, granted \subseteq granted'
  PROVE  Lineage' /\ Trailing'
  BY DEF RuleInv, files, Lineage, Trailing, promoted, trailing, Last

\* Lineage speaks of all snapshots, complete or torn, and survives any step that
\* adds none, as long as promoted snapshots stay promoted.
LEMMA LineageKept ==
  ASSUME Lineage, UNCHANGED <<v1, granted>>, promoted \subseteq promoted',
         snaps' \cup tornSnaps' \subseteq snaps \cup tornSnaps
  PROVE  Lineage'
  BY DEF Lineage, Ids

\* A command inside the transaction is alone there.
LEMMA Alone ==
  ASSUME LockOwner, NEW p \in Procs, NEW q \in Procs, InTransaction(p), InTransaction(q)
  PROVE  p = q
  BY DEF LockOwner

\* A command that writes no file ends and releases its lock.
LEMMA EndOfCommand ==
  ASSUME RuleInv, NEW p \in Procs, Exits(p), UNCHANGED <<v1, files, world, faults>>,
         v1State' \in {"whole", "unpointed", "broken"},
         pc[p] # "idle"
  PROVE  RuleInv'
<1> USE DistinctAssumption, BoundsAssumption DEF RuleInv, Exits, Forgets, world, Goto
<1>1. TypeOK'
  BY DEF TypeOK, Labels, LockedOps, ControlFlow, WritingLabels, files
<1>2. ControlFlow'
  BY DEF TypeOK, ControlFlow, WritingLabels, LockedOps, LockOwner, InTransaction
<1>3. LockOwner'
  BY DEF TypeOK, ControlFlow, LockOwner, InTransaction, LockedOps, WritingLabels
<1>4. Lineage' /\ Trailing'
  BY FilesKept DEF files, world
<1>5. Grounded'
  BY DEF TypeOK, Grounded, Evidence, files
<1>6. (\A q \in Procs : InTransaction(q) => Progress(q))'
  BY DEF TypeOK, ControlFlow, LockOwner, InTransaction, LockedOps, WritingLabels, Progress, Evidence,
         promoted, trailing, Last, UpToDate, V1Next, files
<1> QED
  BY <1>1, <1>2, <1>3, <1>4, <1>5, <1>6

\* A command starts.
LEMMA StartInv ==
  ASSUME RuleInv, NEW p \in Procs, Start(p)
  PROVE  RuleInv'
<1> USE DistinctAssumption, BoundsAssumption DEF RuleInv, Start, v1Files, world, Goto
<1>1. TypeOK'
  BY DEF TypeOK, Labels, LockedOps, ControlFlow, WritingLabels, files
<1>2. ControlFlow'
  BY DEF TypeOK, ControlFlow, WritingLabels, LockedOps, LockOwner, InTransaction
<1>3. LockOwner'
  BY DEF TypeOK, ControlFlow, LockOwner, InTransaction, LockedOps, WritingLabels
<1>4. Lineage' /\ Trailing'
  BY FilesKept DEF files, world
<1>5. Grounded'
  BY DEF TypeOK, Grounded, Evidence, files
<1>6. (\A q \in Procs : InTransaction(q) => Progress(q))'
  BY DEF TypeOK, ControlFlow, LockOwner, InTransaction, LockedOps, WritingLabels, Progress, Evidence,
         promoted, trailing, Last, UpToDate, V1Next, files
<1> QED
  BY <1>1, <1>2, <1>3, <1>4, <1>5, <1>6

\* A v1 ingestion finds no v2 evidence.
LEMMA V1CheckInv ==
  ASSUME RuleInv, NEW p \in Procs, V1Check(p), ~Evidence
  PROVE  RuleInv'
<1> USE DistinctAssumption, BoundsAssumption DEF RuleInv, V1Check, v1Files, world, locals, Goto
<1>1. TypeOK'
  BY DEF TypeOK, Labels, LockedOps, ControlFlow, WritingLabels, files
<1>2. ControlFlow'
  BY DEF TypeOK, ControlFlow, WritingLabels, LockedOps, LockOwner, InTransaction
<1>3. LockOwner'
  BY DEF TypeOK, ControlFlow, LockOwner, InTransaction, LockedOps, WritingLabels
<1>4. Lineage' /\ Trailing'
  BY FilesKept DEF files, world
<1>5. Grounded'
  BY DEF TypeOK, Grounded, Evidence, files
<1>6. (\A q \in Procs : InTransaction(q) => Progress(q))'
  BY DEF TypeOK, ControlFlow, LockOwner, InTransaction, LockedOps, WritingLabels, Progress, Evidence,
         promoted, trailing, Last, UpToDate, V1Next, files
<1> QED
  BY <1>1, <1>2, <1>3, <1>4, <1>5, <1>6

\* The lock is taken.
LEMMA AcquireInv ==
  ASSUME RuleInv, NEW p \in Procs, Acquire(p)
  PROVE  RuleInv'
<1> USE DistinctAssumption, BoundsAssumption DEF RuleInv, Acquire, v1Files, world, locals, Goto
<1>1. TypeOK'
  BY DEF TypeOK, Labels, LockedOps, ControlFlow, WritingLabels, files
<1>2. ControlFlow'
  BY DEF TypeOK, ControlFlow, WritingLabels, LockedOps, LockOwner, InTransaction
<1>3. LockOwner'
  BY DEF TypeOK, ControlFlow, LockOwner, InTransaction, LockedOps, WritingLabels
<1>4. Lineage' /\ Trailing'
  BY FilesKept DEF files, world
<1>5. Grounded'
  BY DEF TypeOK, Grounded, Evidence, files
<1>6. (\A q \in Procs : InTransaction(q) => Progress(q))'
  BY DEF TypeOK, ControlFlow, LockOwner, InTransaction, LockedOps, WritingLabels, Progress, Evidence,
         promoted, trailing, Last, UpToDate, V1Next, files
<1> QED
  BY <1>1, <1>2, <1>3, <1>4, <1>5, <1>6

\* A v1 promotion begins.
LEMMA V1BeginInv ==
  ASSUME RuleInv, NEW p \in Procs, V1Begin(p)
  PROVE  RuleInv'
<1> USE DistinctAssumption, BoundsAssumption DEF RuleInv, V1Begin, world, TopOf, Goto
<1>1. TypeOK'
  BY DEF TypeOK, Labels, LockedOps, ControlFlow, WritingLabels, files
<1>2. ControlFlow'
  BY DEF TypeOK, ControlFlow, WritingLabels, LockedOps, LockOwner, InTransaction
<1>3. LockOwner'
  BY DEF TypeOK, ControlFlow, LockOwner, InTransaction, LockedOps, WritingLabels
<1>4. Lineage' /\ Trailing'
  BY FilesKept DEF files, world
<1>5. Grounded'
  BY DEF TypeOK, Grounded, Evidence, files
<1>6. (\A q \in Procs : InTransaction(q) => Progress(q))'
  <2>1. \A q \in Procs : InTransaction(q)' => q = p
    BY DEF TypeOK, ControlFlow, LockOwner, InTransaction, LockedOps
  <2>2. pc'[p] = "v1record" /\ ~Evidence'
    BY DEF TypeOK, Evidence, files
  <2>3. UpToDate(p)'
    BY DEF UpToDate, TypeOK, ControlFlow
  <2>4. V1Next(request[p])'
    BY DEF V1Next
  <2>9. Progress(p)'
    BY <2>2, <2>3, <2>4 DEF Progress, WritingLabels
  <2> QED
    BY <2>1, <2>9
<1> QED
  BY <1>1, <1>2, <1>3, <1>4, <1>5, <1>6

\* A v1 promotion is complete.
LEMMA V1PointerInv ==
  ASSUME RuleInv, NEW p \in Procs, V1Pointer(p)
  PROVE  RuleInv'
<1> USE DistinctAssumption, BoundsAssumption DEF RuleInv, V1Pointer, world, locals, Goto
<1>1. TypeOK'
  BY DEF TypeOK, Labels, LockedOps, ControlFlow, WritingLabels, files
<1>2. ControlFlow'
  BY DEF TypeOK, ControlFlow, WritingLabels, LockedOps, LockOwner, InTransaction
<1>3. LockOwner'
  BY DEF TypeOK, ControlFlow, LockOwner, InTransaction, LockedOps, WritingLabels
<1>4. Lineage' /\ Trailing'
  BY FilesKept DEF files, world
<1>5. Grounded'
  BY DEF TypeOK, Grounded, Evidence, files
<1>6. (\A q \in Procs : InTransaction(q) => Progress(q))'
  BY DEF TypeOK, ControlFlow, LockOwner, InTransaction, LockedOps, WritingLabels, Progress, Evidence,
         promoted, trailing, Last, UpToDate, V1Next, files
<1> QED
  BY <1>1, <1>2, <1>3, <1>4, <1>5, <1>6

\* The v1 pointer is repaired or replaced by an old one.
LEMMA V1EnvInv ==
  ASSUME RuleInv, V1Repaired \/ V1StrayRepair
  PROVE  RuleInv'
<1> USE DistinctAssumption, BoundsAssumption DEF RuleInv, V1Repaired, V1StrayRepair, world, locals, Goto
<1>1. TypeOK'
  BY DEF TypeOK, Labels, LockedOps, ControlFlow, WritingLabels, files
<1>2. ControlFlow'
  BY DEF TypeOK, ControlFlow, WritingLabels, LockedOps, LockOwner, InTransaction
<1>3. LockOwner'
  BY DEF TypeOK, ControlFlow, LockOwner, InTransaction, LockedOps, WritingLabels
<1>4. Lineage' /\ Trailing'
  BY FilesKept DEF files, world
<1>5. Grounded'
  BY DEF TypeOK, Grounded, Evidence, files
<1>6. (\A q \in Procs : InTransaction(q) => Progress(q))'
  BY DEF TypeOK, ControlFlow, LockOwner, InTransaction, LockedOps, WritingLabels, Progress, Evidence,
         promoted, trailing, Last, UpToDate, V1Next, files
<1> QED
  BY <1>1, <1>2, <1>3, <1>4, <1>5, <1>6

\* The user grants a permission.
LEMMA GrantInv ==
  ASSUME RuleInv, NEW b \in Binding, Grant(b)
  PROVE  RuleInv'
<1> USE DistinctAssumption, BoundsAssumption DEF RuleInv, Grant, v1Files, locals, Goto
<1>1. TypeOK'
  BY DEF TypeOK, Labels, LockedOps, ControlFlow, WritingLabels, files
<1>2. ControlFlow'
  BY DEF TypeOK, ControlFlow, WritingLabels, LockedOps, LockOwner, InTransaction
<1>3. LockOwner'
  BY DEF TypeOK, ControlFlow, LockOwner, InTransaction, LockedOps, WritingLabels
<1>4. Lineage' /\ Trailing'
  BY FilesKept DEF files, world
<1>5. Grounded'
  BY DEF TypeOK, Grounded, Evidence, files
<1>6. (\A q \in Procs : InTransaction(q) => Progress(q))'
  BY DEF TypeOK, ControlFlow, LockOwner, InTransaction, LockedOps, WritingLabels, Progress, Evidence,
         promoted, trailing, Last, UpToDate, V1Next, files
<1> QED
  BY <1>1, <1>2, <1>3, <1>4, <1>5, <1>6

\* A catalog expires.
LEMMA ExpireInv ==
  ASSUME RuleInv, NEW c \in Id, Expire(c)
  PROVE  RuleInv'
<1> USE DistinctAssumption, BoundsAssumption DEF RuleInv, Expire, v1Files, locals, Goto
<1>1. TypeOK'
  BY DEF TypeOK, Labels, LockedOps, ControlFlow, WritingLabels, files
<1>2. ControlFlow'
  BY DEF TypeOK, ControlFlow, WritingLabels, LockedOps, LockOwner, InTransaction
<1>3. LockOwner'
  BY DEF TypeOK, ControlFlow, LockOwner, InTransaction, LockedOps, WritingLabels
<1>4. Lineage' /\ Trailing'
  BY FilesKept DEF files, world
<1>5. Grounded'
  BY DEF TypeOK, Grounded, Evidence, files
<1>6. (\A q \in Procs : InTransaction(q) => Progress(q))'
  BY DEF TypeOK, ControlFlow, LockOwner, InTransaction, LockedOps, WritingLabels, Progress, Evidence,
         promoted, trailing, Last, UpToDate, V1Next, files
<1> QED
  BY <1>1, <1>2, <1>3, <1>4, <1>5, <1>6

\* A first activation is accepted.
LEMMA ActivateFirstInv ==
  ASSUME RuleInv, NEW p \in Procs, ActivateFirst(p)
  PROVE  RuleInv'
<1> USE DistinctAssumption, BoundsAssumption DEF RuleInv, ActivateFirst, v1Files, world, Goto
<1>a. request[p] \in Binding /\ request[p].base \in Id /\ request[p].catalog \in Id
  BY DEF TypeOK, ControlFlow, Binding
<1>b. cand' = [cand EXCEPT ![p] = cand'[p]] /\ cand'[p] \in Rule /\ observed'[p] \in Id
  BY <1>a, RuleSeq DEF TypeOK, Rule, Id, IdOf, Loadable, Agree, TopOf
<1>1. TypeOK'
  BY <1>b DEF TypeOK, Labels, LockedOps, ControlFlow, WritingLabels, files
<1>2. ControlFlow'
  BY <1>b DEF TypeOK, ControlFlow, WritingLabels, LockedOps, LockOwner, InTransaction
<1>3. LockOwner'
  BY DEF TypeOK, ControlFlow, LockOwner, InTransaction, LockedOps, WritingLabels
<1>4. Lineage' /\ Trailing'
  BY FilesKept DEF files, world
<1>5. Grounded'
  BY DEF TypeOK, Grounded, Evidence, files
<1>6. (\A q \in Procs : InTransaction(q) => Progress(q))'
  <2>1. \A q \in Procs : InTransaction(q)' => q = p
    BY DEF TypeOK, ControlFlow, LockOwner, InTransaction, LockedOps
  <2>2. snaps = {} /\ tornSnaps = {} /\ tornRecs = {} /\ pointer = Nothing
    BY DEF Grounded, Evidence
  <2>3. trailing' = {} /\ tornRecs' = {} /\ Last' = TopOf(v1) /\ TopOf(v1)' = TopOf(v1) /\ ~Evidence'
    BY <2>2 DEF trailing, Last, TopOf, Evidence, files
  <2>4. /\ pc'[p] = "createSnapshot" /\ op'[p] = "activate" /\ request'[p] = request[p]
        /\ observed'[p] = request[p].base
        /\ cand'[p].prev = request[p].base /\ cand'[p].perm = request[p]
        /\ cand'[p].seq = request[p].base.seq + 1
        /\ IdOf(cand'[p]) = request[p].catalog
    BY <1>a, IdExt DEF TypeOK, IdOf
  <2>5. request[p].base \in TopOf(v1) /\ pointer' = Nothing
    BY <2>2 DEF files
  <2>9. Progress(p)'
    BY <2>2, <2>3, <2>4, <2>5 DEF Progress, WritingLabels
  <2> QED
    BY <2>1, <2>9
<1> QED
  BY <1>1, <1>2, <1>3, <1>4, <1>5, <1>6

\* The activation is complete already.
LEMMA ActivateAgainInv ==
  ASSUME RuleInv, NEW p \in Procs, ActivateAgain(p)
  PROVE  RuleInv'
<1> USE DistinctAssumption, BoundsAssumption DEF RuleInv, ActivateAgain, v1Files, world, Goto
<1>a. IdOf(pointer) \in Id
  BY RuleSeq DEF Loadable, Agree, TopOf, TypeOK
<1>1. TypeOK'
  BY <1>a DEF TypeOK, Labels, LockedOps, ControlFlow, WritingLabels, files
<1>2. ControlFlow'
  BY DEF TypeOK, ControlFlow, WritingLabels, LockedOps, LockOwner, InTransaction
<1>3. LockOwner'
  BY DEF TypeOK, ControlFlow, LockOwner, InTransaction, LockedOps, WritingLabels
<1>4. Lineage' /\ Trailing'
  BY FilesKept DEF files, world
<1>5. Grounded'
  BY DEF TypeOK, Grounded, Evidence, files
<1>6. (\A q \in Procs : InTransaction(q) => Progress(q))'
  BY DEF TypeOK, ControlFlow, LockOwner, InTransaction, LockedOps, WritingLabels, Progress, Evidence,
         promoted, trailing, Last, UpToDate, V1Next, files
<1> QED
  BY <1>1, <1>2, <1>3, <1>4, <1>5, <1>6

\* A first activation with its pointer loads, so one to be recovered has none.
LEMMA RecoveryHasNoPointer ==
  ASSUME RuleInv, NEW b \in Binding, PartialFirst(b), ~Loadable
  PROVE  pointer = Nothing
<1> USE DistinctAssumption DEF RuleInv
<1>2. PICK r \in snaps : /\ snaps = {r} /\ r.prev = b.base
                         /\ r.seq = b.base.seq + 1
                         /\ IdOf(r) = b.catalog /\ r.perm = b
                         /\ recs \subseteq {r} /\ pointer \in {Nothing, r}
                         /\ b.base \in TopOf(v1)
                         /\ v1State = "whole" /\ tornSnaps = {} /\ tornRecs = {}
  BY DEF PartialFirst
<1>3. pointer = Nothing
  <2>1. ASSUME pointer = r PROVE Loadable
    <3>1. recs = snaps
      BY <1>2, <2>1 DEF Grounded, TypeOK
    <3>2. r \in Rule /\ r \in TopOf(snaps)
      BY <1>2, RuleSeq DEF TypeOK, TopOf
    <3>3. Chain(snaps)
      BY <1>2 DEF Chain, OnePerSequence
    <3>4. v1 # {}
      BY <1>2 DEF TopOf
    <3>5. QED
      BY <1>2, <2>1, <3>1, <3>2, <3>3, <3>4 DEF Loadable, Agree
  <2>2. QED
    BY <1>2, <2>1
<1> QED
  BY <1>3

\* An interrupted first activation is taken up.
LEMMA ActivateRecoverInv ==
  ASSUME RuleInv, NEW p \in Procs, ActivateRecover(p)
  PROVE  RuleInv'
<1> USE DistinctAssumption, BoundsAssumption DEF RuleInv, ActivateRecover, v1Files, world, Goto
<1>a. request[p] \in Binding /\ request[p].base \in Id /\ request[p].catalog \in Id
  BY DEF TypeOK, ControlFlow, Binding
<1>b. cand' = [cand EXCEPT ![p] = cand'[p]] /\ cand'[p] \in Rule /\ observed'[p] \in Id
  BY <1>a, RuleSeq DEF TypeOK, Rule, Id, IdOf, Loadable, Agree, TopOf
<1>1. TypeOK'
  BY <1>b DEF TypeOK, Labels, LockedOps, ControlFlow, WritingLabels, files
<1>2. ControlFlow'
  BY <1>b DEF TypeOK, ControlFlow, WritingLabels, LockedOps, LockOwner, InTransaction
<1>3. LockOwner'
  BY DEF TypeOK, ControlFlow, LockOwner, InTransaction, LockedOps, WritingLabels
<1>4. Lineage' /\ Trailing'
  BY FilesKept DEF files, world
<1>5. Grounded'
  BY DEF TypeOK, Grounded, Evidence, files
<1>6. (\A q \in Procs : InTransaction(q) => Progress(q))'
  <2>1. \A q \in Procs : InTransaction(q)' => q = p
    BY DEF TypeOK, ControlFlow, LockOwner, InTransaction, LockedOps
  <2>2. PICK r \in snaps : /\ snaps = {r} /\ r.prev = request[p].base
                           /\ r.seq = request[p].base.seq + 1
                           /\ IdOf(r) = request[p].catalog /\ r.perm = request[p]
                           /\ recs \subseteq {r} /\ pointer \in {Nothing, r}
                           /\ request[p].base \in TopOf(v1)
                           /\ v1State = "whole" /\ tornSnaps = {} /\ tornRecs = {}
    BY DEF PartialFirst
  <2>3. pointer = Nothing
    BY <1>a, RecoveryHasNoPointer
  <2>4. trailing' = {r} /\ tornSnaps' = {} /\ tornRecs' = {} /\ pointer' = Nothing
        /\ Last' = TopOf(v1) /\ TopOf(v1)' = TopOf(v1) /\ recs' = recs
    BY <2>2, <2>3 DEF trailing, promoted, Last, TopOf, files
  <2>5. cand'[p] = r /\ op'[p] = "activate" /\ request'[p] = request[p]
        /\ observed'[p] = request[p].base
        /\ pc'[p] = IF recs = {} THEN "createRecord" ELSE "writePointer"
    BY <2>2, <1>b DEF TypeOK
  <2>9. Progress(p)'
    BY <2>2, <2>4, <2>5 DEF Progress, WritingLabels, IdOf
  <2> QED
    BY <2>1, <2>9
<1> QED
  BY <1>1, <1>2, <1>3, <1>4, <1>5, <1>6

\* The next catalog is accepted.
LEMMA IngestNextInv ==
  ASSUME RuleInv, NEW p \in Procs, IngestNext(p)
  PROVE  RuleInv'
<1> USE DistinctAssumption, BoundsAssumption DEF RuleInv, IngestNext, v1Files, world, Goto
<1>a. request[p] \in Id
  BY DEF TypeOK, ControlFlow
<1>b. cand' = [cand EXCEPT ![p] = cand'[p]] /\ cand'[p] \in Rule /\ observed'[p] \in Id
  BY <1>a, RuleSeq DEF TypeOK, Rule, Id, IdOf, Loadable, Agree, TopOf, Chain, PartialLater
<1>1. TypeOK'
  BY <1>b DEF TypeOK, Labels, LockedOps, ControlFlow, WritingLabels, files
<1>2. ControlFlow'
  BY <1>b DEF TypeOK, ControlFlow, WritingLabels, LockedOps, LockOwner, InTransaction
<1>3. LockOwner'
  BY DEF TypeOK, ControlFlow, LockOwner, InTransaction, LockedOps, WritingLabels
<1>4. Lineage' /\ Trailing'
  BY FilesKept DEF files, world
<1>5. Grounded'
  BY DEF TypeOK, Grounded, Evidence, files
<1>6. (\A q \in Procs : InTransaction(q) => Progress(q))'
  <2>1. \A q \in Procs : InTransaction(q)' => q = p
    BY DEF TypeOK, ControlFlow, LockOwner, InTransaction, LockedOps
  <2>2. snaps = recs /\ tornSnaps = {} /\ tornRecs = {} /\ pointer \in recs
        /\ pointer \in TopOf(snaps) /\ pointer \in Rule
    BY DEF Loadable, Agree, TopOf, TypeOK
  <2>3. trailing = {}
    BY <2>2, DistinctAssumption DEF trailing, promoted, TopOf
  <2>4. trailing' = {} /\ tornRecs' = {} /\ pointer' = pointer /\ TopOf(v1)' = TopOf(v1)
        /\ Last' = {IdOf(pointer)} /\ TopOf(v1) # {}
    BY <2>2, <2>3 DEF trailing, promoted, Last, TopOf, Grounded, Evidence, files
  <2>5. /\ pc'[p] = "createSnapshot" /\ op'[p] = "ingest" /\ request'[p] = request[p]
        /\ observed'[p] = IdOf(pointer)
        /\ cand'[p].prev = IdOf(pointer) /\ cand'[p].perm = pointer.perm
        /\ cand'[p].seq = pointer.seq + 1
        /\ IdOf(cand'[p]) = request[p]
    BY <1>a, IdExt DEF TypeOK, IdOf
  <2>9. Progress(p)'
    BY <2>2, <2>4, <2>5 DEF Progress, WritingLabels, IdOf
  <2> QED
    BY <2>1, <2>9
<1> QED
  BY <1>1, <1>2, <1>3, <1>4, <1>5, <1>6

\* The current catalog is ingested again.
LEMMA IngestCurrentInv ==
  ASSUME RuleInv, NEW p \in Procs, IngestCurrent(p)
  PROVE  RuleInv'
<1> USE DistinctAssumption, BoundsAssumption DEF RuleInv, IngestCurrent, v1Files, world, Goto
<1>1. TypeOK'
  BY DEF TypeOK, Labels, LockedOps, ControlFlow, WritingLabels, files
<1>2. ControlFlow'
  BY DEF TypeOK, ControlFlow, WritingLabels, LockedOps, LockOwner, InTransaction
<1>3. LockOwner'
  BY DEF TypeOK, ControlFlow, LockOwner, InTransaction, LockedOps, WritingLabels
<1>4. Lineage' /\ Trailing'
  BY FilesKept DEF files, world
<1>5. Grounded'
  BY DEF TypeOK, Grounded, Evidence, files
<1>6. (\A q \in Procs : InTransaction(q) => Progress(q))'
  BY DEF TypeOK, ControlFlow, LockOwner, InTransaction, LockedOps, WritingLabels, Progress, Evidence,
         promoted, trailing, Last, UpToDate, V1Next, files
<1> QED
  BY <1>1, <1>2, <1>3, <1>4, <1>5, <1>6

\* An interrupted ingestion is taken up.
LEMMA IngestRecoverInv ==
  ASSUME RuleInv, NEW p \in Procs, IngestRecover(p)
  PROVE  RuleInv'
<1> USE DistinctAssumption, BoundsAssumption DEF RuleInv, IngestRecover, v1Files, world, Goto
<1>a. request[p] \in Id
  BY DEF TypeOK, ControlFlow
<1>b. cand' = [cand EXCEPT ![p] = cand'[p]] /\ cand'[p] \in Rule /\ observed'[p] \in Id
  BY <1>a, RuleSeq DEF TypeOK, Rule, Id, IdOf, Loadable, Agree, TopOf, Chain, PartialLater
<1>1. TypeOK'
  BY <1>b DEF TypeOK, Labels, LockedOps, ControlFlow, WritingLabels, files
<1>2. ControlFlow'
  BY <1>b DEF TypeOK, ControlFlow, WritingLabels, LockedOps, LockOwner, InTransaction
<1>3. LockOwner'
  BY DEF TypeOK, ControlFlow, LockOwner, InTransaction, LockedOps, WritingLabels
<1>4. Lineage' /\ Trailing'
  BY FilesKept DEF files, world
<1>5. Grounded'
  BY DEF TypeOK, Grounded, Evidence, files
<1>6. (\A q \in Procs : InTransaction(q) => Progress(q))'
  <2>1. \A q \in Procs : InTransaction(q)' => q = p
    BY DEF TypeOK, ControlFlow, LockOwner, InTransaction, LockedOps
  <2>2. PICK t \in TopOf(snaps) : /\ cand' = [cand EXCEPT ![p] = t]
                                  /\ Goto(p, IF t \in recs THEN "writePointer" ELSE "createRecord")
    OBVIOUS
  <2>3. PICK u \in TopOf(snaps) : /\ pointer \in snaps /\ u.seq = pointer.seq + 1
                                  /\ recs \in {snaps, snaps \ {u}}
                                  /\ IdOf(u) = request[p]
    BY DEF PartialLater
  <2>4. /\ t \in Rule /\ u = t /\ tornSnaps = {} /\ tornRecs = {}
        /\ t.seq = pointer.seq + 1 /\ pointer \in Rule
    BY <2>3, RuleSeq DEF PartialLater, Chain, OnePerSequence, TopOf, TypeOK
  <2>5. trailing = {t}
    <3>1. t \notin promoted
      BY <2>4, RuleSeq DEF promoted, TypeOK
    <3>2. \A r \in snaps \ {t} : r \in promoted
      BY <2>3, <2>4, RuleSeq DEF promoted, TopOf, TypeOK, PartialLater, Chain, OnePerSequence
    <3>3. QED
      BY <2>4, <3>1, <3>2 DEF trailing, TopOf
  <2>6. trailing' = {t} /\ tornSnaps' = {} /\ tornRecs' = {} /\ pointer' = pointer
        /\ Last' = {IdOf(pointer)} /\ TopOf(v1)' = TopOf(v1) /\ recs' = recs /\ TopOf(v1) # {}
    BY <2>4, <2>5 DEF trailing, promoted, Last, TopOf, Grounded, Evidence, files
  <2>7. t.prev = IdOf(pointer)
    BY <2>4, <2>5 DEF Trailing, Last
  <2>8. /\ cand'[p] = t /\ op'[p] = "ingest" /\ request'[p] = request[p]
        /\ observed'[p] = IdOf(pointer)
        /\ pc'[p] = IF t \in recs THEN "writePointer" ELSE "createRecord"
    BY <2>2 DEF TypeOK
  <2>9. Progress(p)'
    BY <2>3, <2>4, <2>6, <2>7, <2>8 DEF Progress, WritingLabels, IdOf
  <2> QED
    BY <2>1, <2>9
<1> QED
  BY <1>1, <1>2, <1>3, <1>4, <1>5, <1>6

\* The new history loads.
LEMMA VerifyInv ==
  ASSUME RuleInv, NEW p \in Procs, Verify(p), Loadable, cand[p] \in snaps
  PROVE  RuleInv'
<1> USE DistinctAssumption, BoundsAssumption DEF RuleInv, Verify, v1Files, world, locals, Goto
<1>1. TypeOK'
  BY DEF TypeOK, Labels, LockedOps, ControlFlow, WritingLabels, files
<1>2. ControlFlow'
  BY DEF TypeOK, ControlFlow, WritingLabels, LockedOps, LockOwner, InTransaction
<1>3. LockOwner'
  BY DEF TypeOK, ControlFlow, LockOwner, InTransaction, LockedOps, WritingLabels
<1>4. Lineage' /\ Trailing'
  BY FilesKept DEF files, world
<1>5. Grounded'
  BY DEF TypeOK, Grounded, Evidence, files
<1>6. (\A q \in Procs : InTransaction(q) => Progress(q))'
  BY DEF TypeOK, ControlFlow, LockOwner, InTransaction, LockedOps, WritingLabels, Progress, Evidence,
         promoted, trailing, Last, UpToDate, V1Next, files
<1> QED
  BY <1>1, <1>2, <1>3, <1>4, <1>5, <1>6

\* A load reads the snapshots.
LEMMA LoadSnapsInv ==
  ASSUME RuleInv, NEW p \in Procs, LoadSnaps(p), pc'[p] = "recs"
  PROVE  RuleInv'
<1> USE DistinctAssumption, BoundsAssumption DEF RuleInv, LoadSnaps, Exits, Forgets, v1Files, world, Goto
<1>1. TypeOK'
  BY DEF TypeOK, Labels, LockedOps, ControlFlow, WritingLabels, files
<1>2. ControlFlow'
  BY DEF TypeOK, ControlFlow, WritingLabels, LockedOps, LockOwner, InTransaction
<1>3. LockOwner'
  BY DEF TypeOK, ControlFlow, LockOwner, InTransaction, LockedOps, WritingLabels
<1>4. Lineage' /\ Trailing'
  BY FilesKept DEF files, world
<1>5. Grounded'
  BY DEF TypeOK, Grounded, Evidence, files
<1>6. (\A q \in Procs : InTransaction(q) => Progress(q))'
  BY DEF TypeOK, ControlFlow, LockOwner, InTransaction, LockedOps, WritingLabels, Progress, Evidence,
         promoted, trailing, Last, UpToDate, V1Next, files
<1> QED
  BY <1>1, <1>2, <1>3, <1>4, <1>5, <1>6

\* A load reads the records.
LEMMA LoadRecsInv ==
  ASSUME RuleInv, NEW p \in Procs, LoadRecs(p), pc'[p] = "current"
  PROVE  RuleInv'
<1> USE DistinctAssumption, BoundsAssumption DEF RuleInv, LoadRecs, Exits, Forgets, v1Files, world, Goto
<1>1. TypeOK'
  BY DEF TypeOK, Labels, LockedOps, ControlFlow, WritingLabels, files
<1>2. ControlFlow'
  BY DEF TypeOK, ControlFlow, WritingLabels, LockedOps, LockOwner, InTransaction
<1>3. LockOwner'
  BY DEF TypeOK, ControlFlow, LockOwner, InTransaction, LockedOps, WritingLabels
<1>4. Lineage' /\ Trailing'
  BY FilesKept DEF files, world
<1>5. Grounded'
  BY DEF TypeOK, Grounded, Evidence, files
<1>6. (\A q \in Procs : InTransaction(q) => Progress(q))'
  BY DEF TypeOK, ControlFlow, LockOwner, InTransaction, LockedOps, WritingLabels, Progress, Evidence,
         promoted, trailing, Last, UpToDate, V1Next, files
<1> QED
  BY <1>1, <1>2, <1>3, <1>4, <1>5, <1>6

\* A load reads the pointer.
LEMMA LoadCurrentInv ==
  ASSUME RuleInv, NEW p \in Procs, LoadCurrent(p), Agree(seenSnaps[p], seenRecs[p], pointer)
  PROVE  RuleInv'
<1> USE DistinctAssumption, BoundsAssumption DEF RuleInv, LoadCurrent, v1Files, world, Goto
<1>a. IdOf(pointer) \in Id
  BY RuleSeq DEF Agree, TopOf, TypeOK
<1>1. TypeOK'
  BY <1>a DEF TypeOK, Labels, LockedOps, ControlFlow, WritingLabels, files
<1>2. ControlFlow'
  BY DEF TypeOK, ControlFlow, WritingLabels, LockedOps, LockOwner, InTransaction
<1>3. LockOwner'
  BY DEF TypeOK, ControlFlow, LockOwner, InTransaction, LockedOps, WritingLabels
<1>4. Lineage' /\ Trailing'
  BY FilesKept DEF files, world
<1>5. Grounded'
  BY DEF TypeOK, Grounded, Evidence, files
<1>6. (\A q \in Procs : InTransaction(q) => Progress(q))'
  BY DEF TypeOK, ControlFlow, LockOwner, InTransaction, LockedOps, WritingLabels, Progress, Evidence,
         promoted, trailing, Last, UpToDate, V1Next, files
<1> QED
  BY <1>1, <1>2, <1>3, <1>4, <1>5, <1>6

\* A command dies.
LEMMA CrashInv ==
  ASSUME RuleInv, NEW p \in Procs, Crash(p)
  PROVE  RuleInv'
<1> USE DistinctAssumption, BoundsAssumption DEF RuleInv, Crash, Forgets, v1Files, world, Goto
<1>1. TypeOK'
  BY DEF TypeOK, Labels, LockedOps, ControlFlow, WritingLabels, files
<1>2. ControlFlow'
  BY DEF TypeOK, ControlFlow, WritingLabels, LockedOps, LockOwner, InTransaction
<1>3. LockOwner'
  BY DEF TypeOK, ControlFlow, LockOwner, InTransaction, LockedOps, WritingLabels
<1>4. Lineage' /\ Trailing'
  BY FilesKept DEF files, world
<1>5. Grounded'
  BY DEF TypeOK, Grounded, Evidence, files
<1>6. (\A q \in Procs : InTransaction(q) => Progress(q))'
  BY DEF TypeOK, ControlFlow, LockOwner, InTransaction, LockedOps, WritingLabels, Progress, Evidence,
         promoted, trailing, Last, UpToDate, V1Next, files
<1> QED
  BY <1>1, <1>2, <1>3, <1>4, <1>5, <1>6

\* The operator removes a stale lock.
LEMMA RemoveStaleLockInv ==
  ASSUME RuleInv, RemoveStaleLock
  PROVE  RuleInv'
<1> USE DistinctAssumption, BoundsAssumption DEF RuleInv, RemoveStaleLock, v1Files, world, locals, Goto
<1>1. TypeOK'
  BY DEF TypeOK, Labels, LockedOps, ControlFlow, WritingLabels, files
<1>2. ControlFlow'
  BY DEF TypeOK, ControlFlow, WritingLabels, LockedOps, LockOwner, InTransaction
<1>3. LockOwner'
  BY DEF TypeOK, ControlFlow, LockOwner, InTransaction, LockedOps, WritingLabels
<1>4. Lineage' /\ Trailing'
  BY FilesKept DEF files, world
<1>5. Grounded'
  BY DEF TypeOK, Grounded, Evidence, files
<1>6. (\A q \in Procs : InTransaction(q) => Progress(q))'
  BY DEF TypeOK, ControlFlow, LockOwner, InTransaction, LockedOps, WritingLabels, Progress, Evidence,
         promoted, trailing, Last, UpToDate, V1Next, files
<1> QED
  BY <1>1, <1>2, <1>3, <1>4, <1>5, <1>6

\* A v1 snapshot is promoted.
LEMMA V1RecordInv ==
  ASSUME RuleInv, NEW p \in Procs, V1Record(p)
  PROVE  RuleInv'
<1> USE DistinctAssumption, BoundsAssumption DEF RuleInv, V1Record, world, locals, files, Goto
<1>1. TypeOK'
  BY DEF TypeOK, Labels, LockedOps, ControlFlow, WritingLabels
<1>2. ControlFlow'
  BY DEF TypeOK, ControlFlow, WritingLabels, LockedOps, LockOwner, InTransaction
<1>3. LockOwner'
  BY DEF TypeOK, ControlFlow, LockOwner, InTransaction, LockedOps, WritingLabels
<1>4. Grounded'
  <2>1. request[p] \in Id /\ V1Next(request[p]) /\ ~Evidence
    BY DEF ControlFlow, InTransaction, LockedOps, Progress
  <2>2. \A s \in v1 : s.seq < request[p].seq
    BY <2>1, IdSeq DEF V1Next, TopOf, TypeOK
  <2>3. OnePerSequence(v1')
    BY <2>1, <2>2, IdSeq DEF OnePerSequence, TypeOK, Grounded
  <2> QED
    BY <2>1, <2>3 DEF Grounded, Evidence
<1>5. Lineage'
  <2>1. ~Evidence
    BY DEF ControlFlow, InTransaction, LockedOps, Progress
  <2> QED
    BY <2>1 DEF Lineage, Evidence, Grounded
<1>6. Trailing'
  BY IdSeq, RuleSeq DEF TypeOK, Grounded, Lineage, Trailing, promoted, trailing, Last, Evidence, ControlFlow, WritingLabels, LockedOps, LockOwner, InTransaction, Progress
<1>7. (\A q \in Procs : InTransaction(q) => Progress(q))'
  BY DEF TypeOK, ControlFlow, LockOwner, InTransaction, LockedOps, WritingLabels, Progress, Evidence,
         promoted, trailing, Last, UpToDate, V1Next, Grounded, Trailing
<1> QED
  BY <1>1, <1>2, <1>3, <1>4, <1>5, <1>6, <1>7

\* The snapshot path is created.
LEMMA CreateSnapshotInv ==
  ASSUME RuleInv, NEW p \in Procs, CreateSnapshot(p)
  PROVE  RuleInv'
<1> USE DistinctAssumption, BoundsAssumption DEF RuleInv, CreateSnapshot, v1Files, world, locals, Goto
<1>a. Progress(p) /\ InTransaction(p) /\ op[p] \in {"activate", "ingest"}
  BY DEF ControlFlow, WritingLabels, InTransaction, LockedOps
<1>b. cand[p] \in Rule /\ cand[p].seq \in Nat
  BY RuleSeq DEF ControlFlow, WritingLabels
<1>c. /\ trailing = {} /\ tornRecs = {} /\ observed[p] \in Last
      /\ cand[p].prev = observed[p] /\ cand[p].seq = observed[p].seq + 1 /\ TopOf(v1) # {}
      /\ IdOf(cand[p]) = IF op[p] = "activate" THEN request[p].catalog ELSE request[p]
      /\ IF op[p] = "activate"
           THEN cand[p].perm = request[p] /\ request[p].base = observed[p] /\ ~Evidence
           ELSE cand[p].perm = pointer.perm
      /\ op[p] = "activate" => pointer = Nothing
      /\ op[p] = "ingest" => pointer # Nothing
  BY <1>a DEF Progress, WritingLabels
<1>d. snaps = promoted /\ recs = promoted /\ tornSnaps = {}
  BY <1>c DEF trailing, promoted, Grounded
<1>e. \A r \in promoted : r.seq < cand[p].seq /\ r \in Rule /\ r.seq \in Nat
  <2> SUFFICES ASSUME NEW r \in promoted
      PROVE r.seq < cand[p].seq /\ r \in Rule /\ r.seq \in Nat
    OBVIOUS
  <2>1. r \in Rule /\ r.seq \in Nat /\ pointer # Nothing /\ r.seq <= pointer.seq
    BY RuleSeq DEF promoted, TypeOK
  <2>2. pointer \in Rule /\ pointer.seq \in Nat
    BY <2>1, RuleSeq DEF TypeOK
  <2>3. observed[p] = IdOf(pointer)
    BY <1>c, <2>1 DEF Last
  <2>4. cand[p].seq = pointer.seq + 1
    BY <1>c, <2>3 DEF IdOf
  <2>5. QED
    BY <2>1, <2>2, <2>4
<1>f. cand[p] \notin snaps
  BY <1>b, <1>d, <1>e
<1>g. promoted' = promoted /\ tornSnaps' = {cand[p]} /\ snaps' = snaps
  BY <1>d DEF promoted
<1>1. TypeOK'
  BY DEF TypeOK, Labels, LockedOps, ControlFlow, WritingLabels
<1>2. ControlFlow'
  BY DEF TypeOK, ControlFlow, WritingLabels, LockedOps, LockOwner, InTransaction
<1>3. LockOwner'
  BY DEF TypeOK, ControlFlow, LockOwner, InTransaction, LockedOps, WritingLabels
<1>4. Grounded'
  <2>1. Evidence'
    BY DEF Evidence
  <2> QED
    BY <1>c, <1>d, <1>f, <2>1 DEF Grounded, OnePerSequence, v1Files, TopOf
<1>5. Lineage'
  <2>1. /\ cand[p].perm \in granted /\ cand[p].perm.base \in TopOf(v1)
        /\ cand[p].perm.catalog.seq = cand[p].perm.base.seq + 1
        /\ \A t \in snaps : t.perm = cand[p].perm
        /\ cand[p].prev \in TopOf(v1) => IdOf(cand[p]) = cand[p].perm.catalog
        /\ cand[p].prev \in TopOf(v1) \cup Ids(promoted)
    <3>1. CASE op[p] = "activate"
      <4>1. request[p] \in granted /\ pointer = Nothing /\ snaps = {} /\ TopOf(v1) = Last
        BY <1>a, <1>c, <3>1 DEF ControlFlow, Grounded, Evidence, Last
      <4>2. cand[p].perm.catalog.seq = cand[p].seq
        BY <1>c, <3>1 DEF IdOf
      <4>3. QED
        BY <1>c, <3>1, <4>1, <4>2
    <3>2. CASE op[p] = "ingest"
      <4>1. pointer \in promoted /\ IdOf(pointer) = cand[p].prev /\ pointer.perm = cand[p].perm
        BY <1>c, <3>2, RuleSeq DEF promoted, Grounded, TypeOK, Last
      <4>2. cand[p].prev \notin TopOf(v1)
        <5>1. TopOf(v1) \subseteq Id
          BY DEF TopOf, TypeOK
        <5>2. \A h \in TopOf(v1) : pointer.seq > h.seq
          BY <4>1 DEF Trailing
        <5>3. QED
          BY <4>1, <5>1, <5>2, <1>e, IdSeq DEF IdOf
      <4>3. QED
        BY <1>d, <4>1, <4>2 DEF Lineage, Ids
    <3>3. QED
      BY <1>a, <3>1, <3>2
  <2>2. \A t \in snaps : t.seq # cand[p].seq
    BY <1>b, <1>d, <1>e
  <2>3. \A r \in snaps : \A t \in snaps : t.perm = r.perm /\ (t.seq = r.seq => t = r)
    BY DEF Lineage
  <2>4. TopOf(v1)' = TopOf(v1) /\ Ids(promoted)' = Ids(promoted) /\ granted' = granted
    BY <1>g DEF v1Files, world, TopOf, Ids
  <2>5. \A r \in snaps : /\ r.perm \in granted /\ r.perm.base \in TopOf(v1)
                         /\ r.perm.catalog.seq = r.perm.base.seq + 1
                         /\ r.seq = r.prev.seq + 1
                         /\ r.prev \in TopOf(v1) \cup Ids(promoted)
                         /\ r.prev \in TopOf(v1) => IdOf(r) = r.perm.catalog
    BY DEF Lineage
  <2>6. snaps' \cup tornSnaps' = snaps \cup {cand[p]}
    BY <1>g
  <2>7. ASSUME NEW r \in snaps \cup {cand[p]}
        PROVE  /\ r.perm \in granted /\ r.perm.base \in TopOf(v1)
               /\ r.perm.catalog.seq = r.perm.base.seq + 1
               /\ r.seq = r.prev.seq + 1
               /\ r.prev \in TopOf(v1) \cup Ids(promoted)
               /\ r.prev \in TopOf(v1) => IdOf(r) = r.perm.catalog
    BY <1>c, <2>1, <2>5
  <2>8. ASSUME NEW r \in snaps \cup {cand[p]}, NEW t \in snaps \cup {cand[p]}
        PROVE  t.perm = r.perm /\ (t.seq = r.seq => t = r)
    BY <2>1, <2>2, <2>3
  <2> QED
    BY <2>4, <2>6, <2>7, <2>8 DEF Lineage
<1>6. Trailing'
  <2>1. trailing' = {cand[p]} /\ Last' = Last /\ TopOf(v1)' = TopOf(v1)
    BY <1>d, <1>f, <1>g DEF trailing, Last, v1Files, TopOf
  <2> QED
    BY <1>c, <1>d, <1>f, <1>g, <2>1 DEF Trailing
<1>7. (\A q \in Procs : InTransaction(q) => Progress(q))'
  BY DEF TypeOK, ControlFlow, LockOwner, InTransaction, LockedOps, WritingLabels, Progress, Evidence,
         promoted, trailing, Last, UpToDate, V1Next, Grounded, Trailing
<1> QED
  BY <1>1, <1>2, <1>3, <1>4, <1>5, <1>6, <1>7

\* The snapshot is complete.
LEMMA FillSnapshotInv ==
  ASSUME RuleInv, NEW p \in Procs, FillSnapshot(p)
  PROVE  RuleInv'
<1> USE DistinctAssumption, BoundsAssumption DEF RuleInv, FillSnapshot, v1Files, world, locals, Goto
<1>a. Progress(p) /\ InTransaction(p) /\ op[p] \in {"activate", "ingest"}
  BY DEF ControlFlow, WritingLabels, InTransaction, LockedOps
<1>b. cand[p] \in Rule /\ cand[p].seq \in Nat
  BY RuleSeq DEF ControlFlow, WritingLabels
<1>1. TypeOK'
  BY DEF TypeOK, Labels, LockedOps, ControlFlow, WritingLabels
<1>2. ControlFlow'
  BY DEF TypeOK, ControlFlow, WritingLabels, LockedOps, LockOwner, InTransaction
<1>3. LockOwner'
  BY DEF TypeOK, ControlFlow, LockOwner, InTransaction, LockedOps, WritingLabels
<1>4. Grounded'
  BY DEF TypeOK, Grounded, Evidence, ControlFlow, WritingLabels, LockedOps, LockOwner, InTransaction, Progress, trailing, promoted, OnePerSequence
<1>5. Lineage'
  BY <1>a, LineageKept DEF Progress, promoted, world, v1Files
<1>6. Trailing'
  BY IdSeq, RuleSeq DEF TypeOK, Grounded, Lineage, Trailing, promoted, trailing, Last, Evidence, ControlFlow, WritingLabels, LockedOps, LockOwner, InTransaction, Progress
<1>7. (\A q \in Procs : InTransaction(q) => Progress(q))'
  BY DEF TypeOK, ControlFlow, LockOwner, InTransaction, LockedOps, WritingLabels, Progress, Evidence,
         promoted, trailing, Last, UpToDate, V1Next, Grounded, Trailing
<1> QED
  BY <1>1, <1>2, <1>3, <1>4, <1>5, <1>6, <1>7

\* The record path is created.
LEMMA CreateRecordInv ==
  ASSUME RuleInv, NEW p \in Procs, CreateRecord(p)
  PROVE  RuleInv'
<1> USE DistinctAssumption, BoundsAssumption DEF RuleInv, CreateRecord, v1Files, world, locals, Goto
<1>a. Progress(p) /\ InTransaction(p) /\ op[p] \in {"activate", "ingest"}
  BY DEF ControlFlow, WritingLabels, InTransaction, LockedOps
<1>b. cand[p] \in Rule /\ cand[p].seq \in Nat
  BY RuleSeq DEF ControlFlow, WritingLabels
<1>1. TypeOK'
  BY DEF TypeOK, Labels, LockedOps, ControlFlow, WritingLabels
<1>2. ControlFlow'
  BY DEF TypeOK, ControlFlow, WritingLabels, LockedOps, LockOwner, InTransaction
<1>3. LockOwner'
  BY DEF TypeOK, ControlFlow, LockOwner, InTransaction, LockedOps, WritingLabels
<1>4. Grounded'
  BY DEF TypeOK, Grounded, Evidence, ControlFlow, WritingLabels, LockedOps, LockOwner, InTransaction, Progress, trailing, promoted, OnePerSequence
<1>5. Lineage'
  BY LineageKept DEF promoted, world, v1Files
<1>6. Trailing'
  BY IdSeq, RuleSeq DEF TypeOK, Grounded, Lineage, Trailing, promoted, trailing, Last, Evidence, ControlFlow, WritingLabels, LockedOps, LockOwner, InTransaction, Progress
<1>7. (\A q \in Procs : InTransaction(q) => Progress(q))'
  BY DEF TypeOK, ControlFlow, LockOwner, InTransaction, LockedOps, WritingLabels, Progress, Evidence,
         promoted, trailing, Last, UpToDate, V1Next, Grounded, Trailing
<1> QED
  BY <1>1, <1>2, <1>3, <1>4, <1>5, <1>6, <1>7

\* A record alone promotes nothing.
LEMMA FillRecordPromotes ==
  ASSUME RuleInv, NEW p \in Procs, FillRecord(p)
  PROVE  promoted' = promoted /\ cand[p] \in snaps
<1> USE DistinctAssumption DEF RuleInv, FillRecord
<1>a. Progress(p) /\ InTransaction(p) /\ op[p] \in {"activate", "ingest"}
  BY DEF ControlFlow, WritingLabels, InTransaction, LockedOps
<1>b. cand[p] \in Rule /\ cand[p].seq \in Nat
  BY RuleSeq DEF ControlFlow, WritingLabels
<1>c. pointer # Nothing => cand[p].seq = pointer.seq + 1 /\ pointer \in Rule /\ pointer.seq \in Nat
  BY <1>a, RuleSeq DEF Progress, WritingLabels, Last, IdOf, TypeOK
<1>d. promoted' = promoted /\ cand[p] \in snaps
  BY <1>a, <1>b, <1>c DEF promoted, Progress, trailing
<1> QED
  BY <1>d

\* The record is complete.
LEMMA FillRecordInv ==
  ASSUME RuleInv, NEW p \in Procs, FillRecord(p)
  PROVE  RuleInv'
<1> USE DistinctAssumption, BoundsAssumption DEF RuleInv, FillRecord, v1Files, world, locals, Goto
<1>a. Progress(p) /\ InTransaction(p) /\ op[p] \in {"activate", "ingest"}
  BY DEF ControlFlow, WritingLabels, InTransaction, LockedOps
<1>b. cand[p] \in Rule /\ cand[p].seq \in Nat
  BY RuleSeq DEF ControlFlow, WritingLabels
<1>d. promoted' = promoted /\ cand[p] \in snaps
  BY FillRecordPromotes
<1>1. TypeOK'
  BY DEF TypeOK, Labels, LockedOps, ControlFlow, WritingLabels
<1>2. ControlFlow'
  BY DEF TypeOK, ControlFlow, WritingLabels, LockedOps, LockOwner, InTransaction
<1>3. LockOwner'
  BY DEF TypeOK, ControlFlow, LockOwner, InTransaction, LockedOps, WritingLabels
<1>4. Grounded'
  BY DEF TypeOK, Grounded, Evidence, ControlFlow, WritingLabels, LockedOps, LockOwner, InTransaction, Progress, trailing, promoted, OnePerSequence
<1>5. Lineage'
  BY <1>d, LineageKept DEF world, v1Files
<1>6. Trailing'
  BY <1>d DEF Trailing, trailing, Last
<1>7. (\A q \in Procs : InTransaction(q) => Progress(q))'
  <2>1. \A q \in Procs : InTransaction(q)' => q = p
    BY <1>a DEF TypeOK, LockOwner, InTransaction
  <2>2. pc'[p] = "writePointer" /\ trailing' = {cand[p]} /\ tornSnaps' = {} /\ tornRecs' = {}
    BY <1>a, <1>d DEF Progress, trailing, TypeOK
  <2>9. Progress(p)'
    BY <1>a, <1>b, <2>2 DEF Progress, WritingLabels, Last
  <2> QED
    BY <2>1, <2>9
<1> QED
  BY <1>1, <1>2, <1>3, <1>4, <1>5, <1>6, <1>7

\* The pointer promotes the snapshot it names, and no other one is left.
LEMMA WritePointerPromotes ==
  ASSUME RuleInv, NEW p \in Procs, WritePointer(p)
  PROVE  /\ promoted' = promoted \cup {cand[p]} /\ snaps = promoted' /\ pointer' = cand[p]
         /\ \A r \in promoted : r.seq < cand[p].seq /\ r \in Rule /\ r.seq \in Nat
<1> USE DistinctAssumption DEF RuleInv, WritePointer, locals
<1>a. Progress(p) /\ InTransaction(p) /\ op[p] \in {"activate", "ingest"}
  BY DEF ControlFlow, WritingLabels, InTransaction, LockedOps
<1>b. cand[p] \in Rule /\ cand[p].seq \in Nat
  BY RuleSeq DEF ControlFlow, WritingLabels
<1>c. /\ trailing = {cand[p]} /\ tornSnaps = {} /\ tornRecs = {} /\ cand[p] \in recs
      /\ observed[p] \in Last /\ cand[p].prev = observed[p] /\ cand[p].seq = observed[p].seq + 1
      /\ op[p] = "activate" => pointer = Nothing
  BY <1>a DEF Progress, WritingLabels
<1>d. pointer' = cand[p]
  BY <1>a, <1>c
<1>e. \A r \in promoted : r.seq < cand[p].seq /\ r \in Rule /\ r.seq \in Nat
  <2> SUFFICES ASSUME NEW r \in promoted
      PROVE r.seq < cand[p].seq /\ r \in Rule /\ r.seq \in Nat
    OBVIOUS
  <2>1. r \in Rule /\ r.seq \in Nat /\ pointer # Nothing /\ r.seq <= pointer.seq
    BY RuleSeq DEF promoted, TypeOK
  <2>2. pointer \in Rule /\ pointer.seq \in Nat
    BY <2>1, RuleSeq DEF TypeOK
  <2>3. observed[p] = IdOf(pointer)
    BY <1>c, <2>1 DEF Last
  <2>4. cand[p].seq = pointer.seq + 1
    BY <1>c, <2>3 DEF IdOf
  <2>5. QED
    BY <2>1, <2>2, <2>4
<1>f. promoted' = promoted \cup {cand[p]} /\ snaps = promoted'
  <2>1. snaps = promoted \cup {cand[p]}
    BY <1>c DEF trailing, promoted, Grounded
  <2>2. recs = snaps
    BY <1>c, <2>1 DEF promoted, Grounded
  <2>3. promoted' = {r \in recs : r.seq <= cand[p].seq}
    BY <1>b, <1>d, DistinctAssumption DEF promoted
  <2>4. QED
    BY <1>b, <1>e, <2>1, <2>2, <2>3
<1> QED
  BY <1>d, <1>e, <1>f

\* The pointer follows: the snapshot is promoted.
LEMMA WritePointerInv ==
  ASSUME RuleInv, NEW p \in Procs, WritePointer(p)
  PROVE  RuleInv'
<1> USE DistinctAssumption, BoundsAssumption DEF RuleInv, WritePointer, v1Files, world, locals, Goto
<1>a. Progress(p) /\ InTransaction(p) /\ op[p] \in {"activate", "ingest"}
  BY DEF ControlFlow, WritingLabels, InTransaction, LockedOps
<1>b. cand[p] \in Rule /\ cand[p].seq \in Nat
  BY RuleSeq DEF ControlFlow, WritingLabels
<1>c. /\ trailing = {cand[p]} /\ tornSnaps = {} /\ tornRecs = {} /\ cand[p] \in recs
      /\ observed[p] \in Last /\ cand[p].prev = observed[p] /\ cand[p].seq = observed[p].seq + 1
  BY <1>a DEF Progress, WritingLabels
<1>e. \A r \in promoted : r.seq < cand[p].seq /\ r \in Rule /\ r.seq \in Nat
  BY WritePointerPromotes
<1>f. promoted' = promoted \cup {cand[p]} /\ snaps = promoted'
  BY WritePointerPromotes
<1>g. \A h \in TopOf(v1) : cand[p].seq > h.seq
  <2>1. TopOf(v1) \subseteq Id
    BY DEF TopOf, TypeOK
  <2>2. CASE pointer = Nothing
    BY <1>b, <1>c, <2>1, <2>2, IdSeq DEF Last, TopOf, Grounded, OnePerSequence
  <2>3. CASE pointer # Nothing
    <3>1. pointer \in promoted
      BY <2>3, RuleSeq DEF promoted, Grounded, TypeOK
    <3>2. QED
      BY <1>b, <1>e, <2>1, <3>1, IdSeq DEF Trailing
  <2>4. QED
    BY <2>2, <2>3
<1>1. TypeOK'
  BY DEF TypeOK, Labels, LockedOps, ControlFlow, WritingLabels
<1>2. ControlFlow'
  BY DEF TypeOK, ControlFlow, WritingLabels, LockedOps, LockOwner, InTransaction
<1>3. LockOwner'
  BY DEF TypeOK, ControlFlow, LockOwner, InTransaction, LockedOps, WritingLabels
<1>4. Grounded'
  BY DEF TypeOK, Grounded, Evidence, ControlFlow, WritingLabels, LockedOps, LockOwner, InTransaction, Progress, trailing, promoted, OnePerSequence
<1>5. Lineage'
  BY <1>f, LineageKept DEF world, v1Files
<1>6. Trailing'
  <2>1. trailing' = {} /\ tornSnaps' = {}
    BY <1>c, <1>f DEF trailing
  <2>2. \A r \in promoted' : \A h \in TopOf(v1) : r.seq > h.seq
    BY <1>f, <1>g DEF Trailing
  <2> QED
    BY <1>f, <2>1, <2>2 DEF Trailing, v1Files, TopOf
<1>7. (\A q \in Procs : InTransaction(q) => Progress(q))'
  BY DEF TypeOK, ControlFlow, LockOwner, InTransaction, LockedOps, WritingLabels, Progress, Evidence,
         promoted, trailing, Last, UpToDate, V1Next, Grounded, Trailing
<1> QED
  BY <1>1, <1>2, <1>3, <1>4, <1>5, <1>6, <1>7

\* A write fails and is undone.
LEMMA WriteFailsInv ==
  ASSUME RuleInv, NEW p \in Procs, WriteFails(p)
  PROVE  RuleInv'
<1> USE DistinctAssumption, BoundsAssumption DEF RuleInv, WriteFails, Exits, Forgets, world, Goto
<1>1. TypeOK'
  BY DEF TypeOK, Labels, LockedOps, ControlFlow, WritingLabels
<1>2. ControlFlow'
  BY DEF TypeOK, ControlFlow, WritingLabels, LockedOps, LockOwner, InTransaction
<1>3. LockOwner'
  BY DEF TypeOK, ControlFlow, LockOwner, InTransaction, LockedOps, WritingLabels
<1>4. Grounded'
  BY DEF TypeOK, Grounded, Evidence, ControlFlow, WritingLabels, LockedOps, LockOwner, InTransaction, Progress, trailing, promoted, OnePerSequence
<1>5. Lineage'
  BY LineageKept DEF promoted, world
<1>6. Trailing'
  BY IdSeq, RuleSeq DEF TypeOK, Grounded, Lineage, Trailing, promoted, trailing, Last, Evidence, ControlFlow, WritingLabels, LockedOps, LockOwner, InTransaction, Progress
<1>7. (\A q \in Procs : InTransaction(q) => Progress(q))'
  BY DEF TypeOK, ControlFlow, LockOwner, InTransaction, LockedOps, WritingLabels, Progress, Evidence,
         promoted, trailing, Last, UpToDate, V1Next, Grounded, Trailing
<1> QED
  BY <1>1, <1>2, <1>3, <1>4, <1>5, <1>6, <1>7

-----------------------------------------------------------------------------

\* Every step preserves the invariant.
LEMMA NextInv == RuleInv /\ [Next]_vars => RuleInv'
<1> SUFFICES ASSUME RuleInv, [Next]_vars PROVE RuleInv'
  OBVIOUS
<1> USE DEF RuleInv
<1>1. CASE UNCHANGED vars
  <2>1. Lineage' /\ Trailing'
    BY <1>1, FilesKept DEF vars, v1Files, world
  <2> QED
    BY <1>1, <2>1 DEF vars, v1Files, files, world, locals, TypeOK, ControlFlow, LockOwner, Grounded,
       Progress, InTransaction, UpToDate, V1Next, TopOf, Evidence, promoted, trailing, Last, OnePerSequence
<1>2. ASSUME NEW p \in Procs, Start(p) \/ WriteFails(p) \/ Crash(p) PROVE RuleInv'
  BY <1>2, StartInv, WriteFailsInv, CrashInv
<1>3. ASSUME NEW p \in Procs, Acquire(p) \/ GiveUp(p) PROVE RuleInv'
  BY <1>3, AcquireInv, EndOfCommand DEF GiveUp, v1Files, TypeOK
<1>4. ASSUME NEW p \in Procs, V1Ingestion(p) PROVE RuleInv'
  <2>1. ASSUME V1Check(p) PROVE RuleInv'
    BY <2>1, V1CheckInv, EndOfCommand DEF V1Check, v1Files, TypeOK
  <2>2. ASSUME V1Refused(p) PROVE RuleInv'
    BY <2>2, EndOfCommand DEF V1Refused, TypeOK
  <2> QED
    BY <1>4, <2>1, <2>2, V1BeginInv, V1RecordInv, V1PointerInv DEF V1Ingestion
<1>5. ASSUME NEW p \in Procs, Activation(p) PROVE RuleInv'
  <2>1. ASSUME ActivateRefused(p) PROVE RuleInv'
    BY <2>1, EndOfCommand DEF ActivateRefused, v1Files, TypeOK
  <2> QED
    BY <1>5, <2>1, ActivateFirstInv, ActivateAgainInv, ActivateRecoverInv DEF Activation
<1>6. ASSUME NEW p \in Procs, Ingestion(p) PROVE RuleInv'
  <2>1. ASSUME IngestRefused(p) PROVE RuleInv'
    BY <2>1, EndOfCommand DEF IngestRefused, v1Files, TypeOK
  <2> QED
    BY <1>6, <2>1, IngestNextInv, IngestCurrentInv, IngestRecoverInv DEF Ingestion
<1>7. ASSUME NEW p \in Procs, Writing(p) PROVE RuleInv'
  <2>1. ASSUME Verify(p) PROVE RuleInv'
    BY <2>1, VerifyInv, EndOfCommand DEF Verify, v1Files, TypeOK
  <2> QED
    BY <1>7, <2>1, CreateSnapshotInv, FillSnapshotInv, CreateRecordInv, FillRecordInv,
       WritePointerInv DEF Writing
<1>8. ASSUME NEW p \in Procs, Loading(p) \/ Return(p) PROVE RuleInv'
  <2>1. ASSUME LoadSnaps(p) PROVE RuleInv'
    <3>1. CASE pc'[p] = "recs"
      BY <2>1, <3>1, LoadSnapsInv
    <3>2. CASE pc'[p] # "recs"
      BY <2>1, <3>2, EndOfCommand DEF LoadSnaps, Goto, v1Files, TypeOK
    <3> QED
      BY <3>1, <3>2
  <2>2. ASSUME LoadRecs(p) PROVE RuleInv'
    <3>1. CASE pc'[p] = "current"
      BY <2>2, <3>1, LoadRecsInv
    <3>2. CASE pc'[p] # "current"
      BY <2>2, <3>2, EndOfCommand DEF LoadRecs, Goto, v1Files, TypeOK
    <3> QED
      BY <3>1, <3>2
  <2>3. ASSUME LoadCurrent(p) PROVE RuleInv'
    BY <2>3, LoadCurrentInv, EndOfCommand DEF LoadCurrent, v1Files, TypeOK
  <2>4. ASSUME Return(p) PROVE RuleInv'
    BY <2>4, EndOfCommand DEF Return, v1Files, TypeOK
  <2> QED
    BY <1>8, <2>1, <2>2, <2>3, <2>4 DEF Loading
<1>9. CASE Environment
  BY <1>9, V1EnvInv, RemoveStaleLockInv, GrantInv, ExpireInv DEF Environment
<1> QED
  BY <1>1, <1>2, <1>3, <1>4, <1>5, <1>6, <1>7, <1>8, <1>9 DEF Next, Step

\* Both namespaces stay well formed: types, lock ownership, one lineage of v2
\* snapshots with at most one unfinished, and what the owner of the lock has
\* established still holds at each of its steps.
THEOREM RuleInvariant == Spec => []RuleInv
  BY InitInv, NextInv, PTL DEF Spec

\* Every v2 snapshot rests on one permission, for the current v1 high-water and
\* for the catalog of the first v2 snapshot.
THEOREM ExactPermission == Spec => []PermissionExact
<1>1. RuleInv => PermissionExact
  BY DEF RuleInv, Lineage, PermissionExact
<1> QED
  BY <1>1, RuleInvariant, PTL

\* From the first v2 path on, the v1 history does not grow.
THEOREM V1Freeze == Spec => V1Frozen
<1>1. ASSUME RuleInv, [Next]_vars, Evidence PROVE v1' = v1
  <2>1. ASSUME NEW p \in Procs, V1Record(p) PROVE FALSE
    BY <1>1, <2>1 DEF V1Record, RuleInv, ControlFlow, InTransaction, LockedOps, Progress
  <2>2. ASSUME NEW p \in Procs, Start(p) \/ WriteFails(p) \/ Crash(p) \/ Acquire(p) \/ GiveUp(p)
        PROVE v1' = v1
    BY <2>2 DEF Start, WriteFails, Crash, Acquire, GiveUp, v1Files
  <2>3. ASSUME NEW p \in Procs, V1Ingestion(p) PROVE v1' = v1
    BY <2>1, <2>3 DEF V1Ingestion, V1Check, V1Begin, V1Pointer, V1Refused, v1Files
  <2>4. ASSUME NEW p \in Procs, Activation(p) \/ Ingestion(p) PROVE v1' = v1
    BY <2>4 DEF Activation, ActivateFirst, ActivateAgain, ActivateRecover, ActivateRefused,
       Ingestion, IngestNext, IngestCurrent, IngestRecover, IngestRefused, v1Files
  <2>5. ASSUME NEW p \in Procs, Writing(p) \/ Loading(p) \/ Return(p) PROVE v1' = v1
    BY <2>5 DEF Writing, CreateSnapshot, FillSnapshot, CreateRecord, FillRecord, WritePointer,
       Verify, Loading, LoadSnaps, LoadRecs, LoadCurrent, Return, v1Files
  <2>6. CASE Environment
    BY <2>6 DEF Environment, V1Repaired, V1StrayRepair, RemoveStaleLock, Grant, Expire, v1Files
  <2>7. CASE UNCHANGED vars
    BY <2>7 DEF vars, v1Files
  <2> QED
    BY <1>1, <2>2, <2>3, <2>4, <2>5, <2>6, <2>7 DEF Next, Step
<1>2. RuleInv /\ [Next]_vars => [Evidence => v1' = v1]_vars
  BY <1>1
<1> QED
  BY <1>2, RuleInvariant, PTL DEF Spec, V1Frozen

-----------------------------------------------------------------------------
(* Recovery.                                                               *)

\* An unfinished first snapshot is what the recovery of its permission accepts.
LEMMA FirstRecoverable ==
  ASSUME RuleInv, snaps # {}, tornSnaps = {}, tornRecs = {}, v1State = "whole",
         pointer = Nothing
  PROVE  \E b \in granted : PartialFirst(b)
<1> USE DEF RuleInv
<1>1. promoted = {} /\ trailing = snaps
  BY DEF promoted, trailing
<1>2. PICK r \in snaps : snaps = {r}
  BY <1>1 DEF Trailing
<1>3. /\ r \in Rule /\ r.perm \in granted /\ r.perm.base \in TopOf(v1)
      /\ r.perm.catalog.seq = r.perm.base.seq + 1 /\ r.seq = r.prev.seq + 1
      /\ r.prev \in TopOf(v1) => IdOf(r) = r.perm.catalog
  BY DEF Lineage, TypeOK
<1>4. r.prev \in TopOf(v1)
  BY <1>1 DEF Trailing, Last
<1>5. r.prev = r.perm.base
  <2>1. TopOf(v1) \subseteq v1 /\ v1 \subseteq Id
    BY DEF TopOf, TypeOK
  <2>2. r.prev.seq = r.perm.base.seq
    BY <1>3, <1>4, <2>1, IdSeq DEF TopOf
  <2> QED
    BY <1>3, <1>4, <2>1, <2>2 DEF Grounded, OnePerSequence
<1>6. recs \subseteq {r}
  BY <1>2 DEF Grounded
<1>7. PartialFirst(r.perm)
  BY <1>2, <1>3, <1>4, <1>5, <1>6 DEF PartialFirst
<1> QED
  BY <1>3, <1>7

\* Promoted snapshots and the one after them form a chain from the v1 high-water.
LEMMA SnapsChain == ASSUME RuleInv, snaps # {}, tornSnaps = {} PROVE Chain(snaps)
<1> USE DEF RuleInv
<1>1. promoted \subseteq snaps
  BY DEF promoted, Grounded
<1>2. OnePerSequence(snaps) /\ \A r, t \in snaps : r.perm = t.perm
  BY DEF Lineage, OnePerSequence
<1>3. \A r \in snaps : r.seq = r.prev.seq + 1 /\ r.prev \in TopOf(v1) \cup Ids(snaps)
  BY <1>1 DEF Lineage, Ids
<1> QED
  BY <1>2, <1>3 DEF Chain

\* A history with a pointer loads, or lacks only the end of one ingestion.
LEMMA LaterRecoverable ==
  ASSUME RuleInv, snaps # {}, tornSnaps = {}, tornRecs = {}, v1State = "whole",
         pointer # Nothing
  PROVE  Loadable \/ \E t \in TopOf(snaps) : PartialLater(IdOf(t))
<1> USE DEF RuleInv
<1>1. pointer \in promoted /\ pointer \in Rule /\ pointer.seq \in Nat /\ pointer \in recs
  BY RuleSeq DEF promoted, Grounded, TypeOK
<1>2. promoted \subseteq recs /\ recs \subseteq snaps /\ snaps = promoted \cup trailing
      /\ snaps \subseteq Rule
  BY DEF promoted, trailing, Grounded, TypeOK
<1>3. \A r \in promoted : r.seq <= pointer.seq
  BY DEF promoted
<1>4. v1 # {}
  BY DEF Grounded, Evidence, TopOf
<1>5. CASE trailing = {}
  BY <1>1, <1>2, <1>3, <1>4, <1>5, SnapsChain DEF Loadable, Agree, TopOf
<1>6. CASE trailing # {}
  <2>1. PICK t \in trailing : trailing = {t}
    BY <1>6 DEF Trailing
  <2>2. t.prev = IdOf(pointer) /\ t.seq = t.prev.seq + 1 /\ t \in snaps
    BY <2>1, <1>2 DEF Trailing, Last, Lineage
  <2>3. t.seq = pointer.seq + 1
    BY <2>2 DEF IdOf
  <2>4. t \in TopOf(snaps)
    BY <1>1, <1>2, <1>3, <2>1, <2>2, <2>3, RuleSeq DEF TopOf
  <2>5. recs = snaps \/ recs = snaps \ {t}
    <3>1. t \notin promoted
      BY <2>1 DEF trailing
    <3> QED
      BY <1>2, <2>1, <3>1
  <2>6. PartialLater(IdOf(t))
    BY <1>1, <1>2, <1>4, <2>3, <2>4, <2>5, SnapsChain DEF PartialLater
  <2> QED
    BY <2>4, <2>6
<1> QED
  BY <1>5, <1>6

\* What is neither torn nor empty is complete or completed by one retry.
THEOREM Completable == Spec => []Recoverable
<1>1. RuleInv => Recoverable
  BY FirstRecoverable, LaterRecoverable DEF Recoverable
<1> QED
  BY <1>1, RuleInvariant, PTL

-----------------------------------------------------------------------------
(* Success and the register.                                               *)

\* A command's program counter only moves by its own steps.
LEMMA OnlyOwnSteps ==
  ASSUME RuleInv, NEW p \in Procs, NEW q \in Procs, q # p,
         Start(q) \/ Step(q) \/ WriteFails(q) \/ Crash(q)
  PROVE  pc'[p] = pc[p]
<1> USE DEF RuleInv, TypeOK, Goto, Exits, Forgets
<1>1. CASE Start(q) \/ WriteFails(q) \/ Crash(q) \/ Acquire(q) \/ GiveUp(q)
  BY <1>1 DEF Start, WriteFails, Crash, Acquire, GiveUp
<1>2. CASE V1Ingestion(q)
  BY <1>2 DEF V1Ingestion, V1Check, V1Begin, V1Record, V1Pointer, V1Refused
<1>3. CASE Activation(q)
  BY <1>3 DEF Activation, ActivateFirst, ActivateAgain, ActivateRecover, ActivateRefused
<1>4. CASE Ingestion(q)
  BY <1>4 DEF Ingestion, IngestNext, IngestCurrent, IngestRecover, IngestRefused
<1>5. CASE Writing(q)
  BY <1>5 DEF Writing, CreateSnapshot, FillSnapshot, CreateRecord, FillRecord, WritePointer, Verify
<1>6. CASE Loading(q) \/ Return(q)
  BY <1>6 DEF Loading, LoadSnaps, LoadRecs, LoadCurrent, Return
<1> QED
  BY <1>1, <1>2, <1>3, <1>4, <1>5, <1>6 DEF Step

\* The step of a successful activation or ingestion finds its catalog current.
LEMMA SuccessStep ==
  ASSUME RuleInv, [Next]_vars, NEW p \in Procs, pc[p] \in {"decide", "verify"},
         pc'[p] = "done", op[p] \in {"activate", "ingest"}
  PROVE  /\ pointer # Nothing
         /\ IdOf(pointer) = IF op[p] = "activate" THEN request[p].catalog ELSE request[p]
<1> USE DEF RuleInv, Goto, TypeOK
<1>1. CASE ActivateAgain(p)
  BY <1>1, DistinctAssumption DEF ActivateAgain, Loadable, Agree, TopOf
<1>2. CASE IngestCurrent(p)
  BY <1>2, DistinctAssumption DEF IngestCurrent, Loadable, Agree, TopOf
<1>3. CASE pc[p] = "verify"
  BY <1>3, DistinctAssumption DEF ControlFlow, WritingLabels, InTransaction, LockedOps, Progress
<1>4. ASSUME pc[p] = "decide", ~ActivateAgain(p), ~IngestCurrent(p) PROVE FALSE
  <2>1. ASSUME NEW q \in Procs, q # p, Start(q) \/ Step(q) \/ WriteFails(q) \/ Crash(q)
        PROVE pc'[p] = pc[p]
    BY <2>1, OnlyOwnSteps
  <2>2. ~Start(p) /\ ~WriteFails(p) /\ ~Acquire(p) /\ ~GiveUp(p)
    BY <1>4 DEF Start, WriteFails, Acquire, GiveUp
  <2>3. ~V1Ingestion(p)
    BY <1>4 DEF V1Ingestion, V1Check, V1Begin, V1Record, V1Pointer, V1Refused
  <2>4. ~Activation(p)
    BY <1>4 DEF Activation, ActivateFirst, ActivateRecover, ActivateRefused, Exits, Forgets
  <2>5. ~Ingestion(p)
    BY <1>4 DEF Ingestion, IngestNext, IngestRecover, IngestRefused, Exits, Forgets
  <2>6. ~Writing(p) /\ ~Loading(p) /\ ~Return(p)
    BY <1>4 DEF Writing, CreateSnapshot, FillSnapshot, CreateRecord, FillRecord, WritePointer,
       Verify, Loading, LoadSnaps, LoadRecs, LoadCurrent, Return
  <2>7. ~Crash(p)
    BY DEF Crash, Forgets
  <2>8. ~Environment
    BY <1>4 DEF Environment, V1Repaired, V1StrayRepair, RemoveStaleLock, Grant, Expire
  <2>9. ~UNCHANGED vars
    BY <1>4 DEF vars
  <2> QED
    BY <1>4, <2>1, <2>2, <2>3, <2>4, <2>5, <2>6, <2>7, <2>8, <2>9 DEF Next, Step
<1> QED
  BY <1>1, <1>2, <1>3, <1>4

\* Reported success is promotion: the requested catalog is the v2 high-water.
THEOREM Success == Spec => SuccessMeansCurrent
<1>1. RuleInv /\ [Next]_vars =>
        [\A p \in Procs :
           /\ pc[p] \in {"decide", "verify"} /\ pc'[p] = "done"
           /\ op[p] \in {"activate", "ingest"}
           => /\ pointer # Nothing
              /\ IdOf(pointer) = IF op[p] = "activate" THEN request[p].catalog ELSE request[p]]_vars
  BY SuccessStep
<1> QED
  BY <1>1, RuleInvariant, PTL DEF Spec, SuccessMeansCurrent

\* The last promoted snapshot is the high-water of both namespaces.
LEMMA LastIsHighWater ==
  ASSUME RuleInv, NEW h \in Last PROVE h \in Register!HighWaterOf(v1 \cup Ids(promoted))
<1> USE DEF RuleInv
<1>1. v1 \subseteq Id
  BY DEF TypeOK
<1>2. CASE pointer = Nothing
  BY <1>2 DEF Last, promoted, Ids, TopOf, Register!HighWaterOf
<1>3. CASE pointer # Nothing
  <2>1. h = IdOf(pointer) /\ pointer \in promoted /\ pointer.seq \in Nat
    BY <1>3, RuleSeq DEF Last, promoted, Grounded, TypeOK
  <2>2. \A r \in promoted : r.seq <= pointer.seq
    BY DEF promoted
  <2>3. \A c \in v1 : c.seq <= pointer.seq
    <3>1. PICK t \in TopOf(v1) : TRUE
      BY <1>3 DEF Grounded, Evidence
    <3>2. t \in Id /\ pointer.seq > t.seq /\ \A c \in v1 : c.seq <= t.seq
      BY <1>1, <2>1 DEF Trailing, TopOf
    <3> QED
      BY <1>1, <2>1, <3>2, IdSeq
  <2>4. h.seq = pointer.seq /\ h \in Ids(promoted)
    BY <2>1 DEF IdOf, Ids
  <2>5. \A c \in Ids(promoted) : c.seq <= pointer.seq
    BY <2>2 DEF Ids, IdOf
  <2> QED
    BY <2>3, <2>4, <2>5 DEF Register!HighWaterOf
<1> QED
  BY <1>2, <1>3

Approved == v1 \cup Ids(promoted)

\* What the lock's owner or a load observed is the last promoted snapshot.
LEMMA ObserveRefines ==
  ASSUME RuleInv, NEW p \in Procs, NEW h \in Last, observed' = [observed EXCEPT ![p] = h],
         UNCHANGED <<v1, files>>
  PROVE  Register!RegisterNext
<1>1. Approved' = Approved
  BY DEF Approved, promoted, Ids, files
<1>2. h \in Register!HighWaterOf(Approved)
  BY LastIsHighWater DEF Approved
<1> QED
  BY <1>1, <1>2 DEF Register!RegisterNext, Register!Observe, Approved

LEMMA ForgetRefines ==
  ASSUME NEW p \in Procs, Forgets(p), UNCHANGED <<v1, recs, pointer>>
  PROVE  Register!RegisterNext
<1>1. Approved' = Approved
  BY DEF Approved, promoted, Ids
<1> QED
  BY <1>1 DEF Forgets, Register!RegisterNext, Register!Forget, Approved

\* The v1 record promotes the successor of what the command observed.
LEMMA V1RecordRefines ==
  ASSUME RuleInv, NEW p \in Procs, V1Record(p)
  PROVE  Register!RegisterNext
<1> USE DEF RuleInv, V1Record
<1>1. ~Evidence /\ UpToDate(p) /\ V1Next(request[p]) /\ request[p] \in Id
  BY DEF ControlFlow, InTransaction, LockedOps, Progress
<1>2. promoted = {} /\ promoted' = {}
  BY <1>1 DEF Evidence, promoted, files
<1>3. Approved = v1 /\ Approved' = v1 \cup {request[p]}
  BY <1>2 DEF Approved, Ids
<1>4. v1 # {} => observed[p] \in Register!HighWaterOf(v1) /\ request[p].seq = observed[p].seq + 1
  BY <1>1, IdSeq DEF UpToDate, V1Next, TopOf, Register!HighWaterOf, TypeOK
<1>5. v1 = {} => observed[p] = Nothing
  BY <1>1 DEF UpToDate
<1>6. Register!Promote(p, request[p])
  BY <1>3, <1>4, <1>5 DEF Register!Promote, Approved, locals
<1> QED
  BY <1>1, <1>6 DEF Register!RegisterNext

\* The v2 pointer promotes the successor of what the command observed.
LEMMA WritePointerRefines ==
  ASSUME RuleInv, NEW p \in Procs, WritePointer(p)
  PROVE  Register!RegisterNext
<1> USE DEF RuleInv
<1>1. cand[p] \in Rule /\ InTransaction(p) /\ op[p] \in {"activate", "ingest"}
  BY DEF WritePointer, ControlFlow, WritingLabels, InTransaction, LockedOps
<1>2. observed[p] \in Last /\ cand[p].seq = observed[p].seq + 1 /\ TopOf(v1) # {}
  BY <1>1 DEF WritePointer, Progress, WritingLabels
<1>3. Approved' = Approved \cup {IdOf(cand[p])}
  <2>1. promoted' = promoted \cup {cand[p]} /\ v1' = v1
    BY WritePointerPromotes DEF WritePointer, v1Files
  <2> QED
    BY <2>1 DEF Approved, Ids
<1>4. observed[p] \in Register!HighWaterOf(Approved) /\ Approved # {}
  BY <1>2, LastIsHighWater DEF Approved, TopOf
<1>5. Register!Promote(p, IdOf(cand[p]))
  BY <1>2, <1>3, <1>4 DEF Register!Promote, Approved, IdOf, WritePointer, locals
<1>6. IdOf(cand[p]) \in Id
  BY <1>1, RuleSeq
<1> QED
  BY <1>5, <1>6 DEF Register!RegisterNext

\* Every step of the two namespaces is a step of the register or a stutter.
LEMMA StepRefines ==
  ASSUME RuleInv, [Next]_vars
  PROVE  [Register!RegisterNext]_(Register!regVars)
<1> USE DEF RuleInv, Register!regVars
<1>1. ASSUME UNCHANGED <<v1, recs, pointer, observed>>
      PROVE  UNCHANGED Register!regVars
  BY <1>1 DEF promoted, Ids
<1>2. CASE UNCHANGED vars
  BY <1>1, <1>2 DEF vars, v1Files, files, locals
<1>3. CASE Environment
  BY <1>1, <1>3 DEF Environment, V1Repaired, V1StrayRepair, RemoveStaleLock, Grant, Expire,
     v1Files, files, locals
<1>4. ASSUME NEW p \in Procs, Exits(p), UNCHANGED <<v1, recs, pointer>>
      PROVE  Register!RegisterNext
  BY <1>4, ForgetRefines DEF Exits
<1>5. ASSUME NEW p \in Procs, Start(p) \/ WriteFails(p) \/ Crash(p) \/ Acquire(p) \/ GiveUp(p)
      PROVE  [Register!RegisterNext]_(Register!regVars)
  BY <1>1, <1>4, <1>5, ForgetRefines DEF Start, WriteFails, Crash, Acquire, GiveUp, v1Files, files, locals
<1>6. ASSUME NEW p \in Procs, V1Ingestion(p)
      PROVE  [Register!RegisterNext]_(Register!regVars)
  <2>1. ASSUME V1Begin(p) PROVE [Register!RegisterNext]_(Register!regVars)
    <3>1. CASE v1 = {}
      BY <1>1, <2>1, <3>1 DEF V1Begin, files
    <3>2. CASE v1 # {}
      <4>1. PICK h \in TopOf(v1) : observed' = [observed EXCEPT ![p] = h]
        BY <2>1, <3>2 DEF V1Begin
      <4>2. h \in Last
        BY <2>1 DEF V1Begin, Evidence, Last
      <4> QED
        BY <2>1, <4>1, <4>2, ObserveRefines DEF V1Begin
    <3> QED
      BY <3>1, <3>2
  <2>2. ASSUME V1Check(p) \/ V1Pointer(p) \/ V1Refused(p)
        PROVE [Register!RegisterNext]_(Register!regVars)
    BY <1>1, <1>4, <2>2 DEF V1Check, V1Pointer, V1Refused, v1Files, files, locals
  <2> QED
    BY <1>6, <2>1, <2>2, V1RecordRefines DEF V1Ingestion
<1>7. ASSUME NEW p \in Procs, Activation(p)
      PROVE  [Register!RegisterNext]_(Register!regVars)
  <2>1. ASSUME ActivateFirst(p) PROVE Register!RegisterNext
    <3>1. request[p].base \in Last
      BY <2>1 DEF ActivateFirst, Evidence, Last
    <3> QED
      BY <2>1, <3>1, ObserveRefines DEF ActivateFirst, v1Files
  <2>2. ASSUME ActivateAgain(p) PROVE Register!RegisterNext
    <3>1. IdOf(pointer) \in Last
      BY <2>2, DistinctAssumption DEF ActivateAgain, Loadable, Agree, TopOf, Last, TypeOK
    <3> QED
      BY <2>2, <3>1, ObserveRefines DEF ActivateAgain, v1Files
  <2>3. ASSUME ActivateRecover(p) PROVE Register!RegisterNext
    <3>1. request[p] \in Binding
      BY <2>3 DEF ActivateRecover, ControlFlow, TypeOK
    <3>2. request[p].base \in Last
      BY <2>3, <3>1, RecoveryHasNoPointer DEF ActivateRecover, PartialFirst, Last
    <3> QED
      BY <2>3, <3>2, ObserveRefines DEF ActivateRecover, v1Files
  <2>4. ASSUME ActivateRefused(p) PROVE Register!RegisterNext
    BY <1>4, <2>4 DEF ActivateRefused, v1Files, files
  <2> QED
    BY <1>7, <2>1, <2>2, <2>3, <2>4 DEF Activation
<1>8. ASSUME NEW p \in Procs, Ingestion(p)
      PROVE  [Register!RegisterNext]_(Register!regVars)
  <2>1. ASSUME IngestNext(p) \/ IngestCurrent(p) \/ IngestRecover(p)
        PROVE Register!RegisterNext
    <3>1. IdOf(pointer) \in Last
      BY <2>1, DistinctAssumption DEF IngestNext, IngestCurrent, IngestRecover, Loadable, Agree,
         PartialLater, TopOf, Last, TypeOK
    <3> QED
      BY <2>1, <3>1, ObserveRefines DEF IngestNext, IngestCurrent, IngestRecover, v1Files
  <2>2. ASSUME IngestRefused(p) PROVE Register!RegisterNext
    BY <1>4, <2>2 DEF IngestRefused, v1Files, files
  <2> QED
    BY <1>8, <2>1, <2>2 DEF Ingestion
<1>9. ASSUME NEW p \in Procs, Writing(p)
      PROVE  [Register!RegisterNext]_(Register!regVars)
  <2>1. ASSUME FillRecord(p) PROVE UNCHANGED Register!regVars
    BY <2>1, FillRecordPromotes DEF FillRecord, v1Files, locals, Ids
  <2>2. ASSUME CreateSnapshot(p) \/ FillSnapshot(p) \/ CreateRecord(p)
        PROVE UNCHANGED Register!regVars
    BY <1>1, <2>2 DEF CreateSnapshot, FillSnapshot, CreateRecord, v1Files, locals
  <2>3. ASSUME Verify(p) PROVE [Register!RegisterNext]_(Register!regVars)
    BY <1>1, <1>4, <2>3 DEF Verify, v1Files, files, locals
  <2> QED
    BY <1>9, <2>1, <2>2, <2>3, WritePointerRefines DEF Writing
<1>10. ASSUME NEW p \in Procs, Loading(p) \/ Return(p)
       PROVE  [Register!RegisterNext]_(Register!regVars)
  <2>1. ASSUME LoadCurrent(p), Agree(seenSnaps[p], seenRecs[p], pointer)
        PROVE Register!RegisterNext
    <3>1. IdOf(pointer) \in Last
      BY <2>1, DistinctAssumption DEF Agree, TopOf, Last, TypeOK
    <3> QED
      BY <2>1, <3>1, ObserveRefines DEF LoadCurrent, v1Files
  <2>2. ASSUME LoadCurrent(p), ~Agree(seenSnaps[p], seenRecs[p], pointer)
        PROVE Register!RegisterNext
    BY <1>4, <2>2 DEF LoadCurrent, v1Files, files
  <2>3. ASSUME LoadSnaps(p) \/ LoadRecs(p) \/ Return(p)
        PROVE [Register!RegisterNext]_(Register!regVars)
    BY <1>1, <1>4, <2>3 DEF LoadSnaps, LoadRecs, Return, v1Files, files
  <2> QED
    BY <1>10, <2>1, <2>2, <2>3 DEF Loading
<1> QED
  BY <1>2, <1>3, <1>5, <1>6, <1>7, <1>8, <1>9, <1>10 DEF Next, Step

\* The v1 catalog and the v2 rule snapshots are one compare-and-append register.
THEOREM Refinement == Spec => ImplementsRegister
<1>1. Init => Register!RegisterInit
  BY DEF Init, Register!RegisterInit, promoted, Ids
<1> QED
  BY <1>1, StepRefines, RuleInvariant, PTL
     DEF Spec, ImplementsRegister, Register!RegisterSpec

-----------------------------------------------------------------------------
(* The transaction lock.                                                   *)

\* A command that ends gives back what it owns.
LEMMA ExitsOwned ==
  ASSUME NEW p \in Procs, Exits(p)
  PROVE  UNCHANGED lock \/ Lock!GiveBack(p)
  BY DEF Exits, Lock!GiveBack

LEMMA LockIsOwned ==
  ASSUME [Next]_vars
  PROVE  [(\E p \in Procs : Lock!Take(p) \/ Lock!GiveBack(p) \/ Lock!Abandon(p)) \/ Lock!Clear]_lock
<1>1. ASSUME NEW p \in Procs, Start(p) \/ WriteFails(p) \/ Crash(p) \/ Acquire(p) \/ GiveUp(p)
      PROVE  UNCHANGED lock \/ Lock!Take(p) \/ Lock!GiveBack(p) \/ Lock!Abandon(p)
  BY <1>1, ExitsOwned DEF Start, WriteFails, Crash, Acquire, GiveUp, Lock!Take, Lock!Abandon
<1>2. ASSUME NEW p \in Procs, V1Ingestion(p) \/ Activation(p) \/ Ingestion(p)
      PROVE  UNCHANGED lock \/ Lock!GiveBack(p)
  BY <1>2, ExitsOwned
  DEF V1Ingestion, V1Check, V1Begin, V1Record, V1Pointer, V1Refused, Activation, ActivateFirst,
      ActivateAgain, ActivateRecover, ActivateRefused, Ingestion, IngestNext, IngestCurrent,
      IngestRecover, IngestRefused
<1>3. ASSUME NEW p \in Procs, Writing(p) \/ Loading(p) \/ Return(p)
      PROVE  UNCHANGED lock \/ Lock!GiveBack(p)
  BY <1>3, ExitsOwned
  DEF Writing, CreateSnapshot, FillSnapshot, CreateRecord, FillRecord, WritePointer, Verify,
      Loading, LoadSnaps, LoadRecs, LoadCurrent, Return
<1>4. CASE Environment \/ UNCHANGED vars
  BY <1>4 DEF Environment, V1Repaired, V1StrayRepair, Grant, Expire, RemoveStaleLock, Lock!Clear, vars
<1> QED
  BY <1>1, <1>2, <1>3, <1>4 DEF Next, Step

\* Only a command inside the transaction writes.
LEMMA WriterOwns ==
  ASSUME RuleInv, NEW p \in Procs, Start(p) \/ Step(p) \/ WriteFails(p) \/ Crash(p),
         <<v1, files>>' # <<v1, files>>
  PROVE  lock = p
<1>1. pc[p] \in {"v1record"} \cup WritingLabels
  <2>1. CASE Start(p) \/ WriteFails(p) \/ Crash(p) \/ Acquire(p) \/ GiveUp(p)
    BY <2>1 DEF Start, WriteFails, Crash, Acquire, GiveUp, files, v1Files, WritingLabels
  <2>2. CASE V1Ingestion(p) \/ Activation(p) \/ Ingestion(p)
    BY <2>2
    DEF V1Ingestion, V1Check, V1Begin, V1Record, V1Pointer, V1Refused, Activation, ActivateFirst,
        ActivateAgain, ActivateRecover, ActivateRefused, Ingestion, IngestNext, IngestCurrent,
        IngestRecover, IngestRefused, v1Files
  <2>3. CASE Writing(p) \/ Loading(p) \/ Return(p)
    BY <2>3
    DEF Writing, CreateSnapshot, FillSnapshot, CreateRecord, FillRecord, WritePointer, Verify,
        Loading, LoadSnaps, LoadRecs, LoadCurrent, Return, v1Files, WritingLabels
  <2> QED
    BY <2>1, <2>2, <2>3 DEF Step
<1>2. InTransaction(p)
  BY <1>1 DEF RuleInv, ControlFlow, InTransaction, WritingLabels, LockedOps
<1> QED
  BY <1>2 DEF RuleInv, LockOwner

LEMMA OwnerWrites ==
  ASSUME RuleInv, [Next]_vars, <<v1, files>>' # <<v1, files>>
  PROVE  \E p \in Procs : lock = p /\ \A q \in Procs \ {p} : pc'[q] = pc[q]
<1>1. PICK p \in Procs : Start(p) \/ Step(p) \/ WriteFails(p) \/ Crash(p)
  BY DEF Next, Environment, V1Repaired, V1StrayRepair, Grant, Expire, RemoveStaleLock, v1Files, vars
<1> QED
  BY <1>1, WriterOwns, OnlyOwnSteps

\* Ingestion and activation run as transactions (rule_activation.py and snapshot.py under
\* transaction_lock): the lock has one owner, a failure leaves it stale, and while a
\* command owns it no other one changes either history, so that a load under the lock is
\* one step.
THEOREM Transactions == Spec => Transactional
<1>1. Init => lock = Free
  BY DEF Init
<1>2. [Next]_vars => [(\E p \in Procs : Lock!Take(p) \/ Lock!GiveBack(p) \/ Lock!Abandon(p)) \/ Lock!Clear]_lock
  BY LockIsOwned
<1>3. RuleInv /\ [Next]_vars =>
        [<<v1, files>>' # <<v1, files>> =>
           \E p \in Procs : lock = p /\ \A q \in Procs \ {p} : pc'[q] = pc[q]]_vars
  BY OwnerWrites
<1> QED
  BY <1>1, <1>2, <1>3, RuleInvariant, PTL DEF Spec, Transactional, OwnersWrite, Lock!LockSpec
=============================================================================
