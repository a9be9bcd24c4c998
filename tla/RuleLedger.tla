----------------------------- MODULE RuleLedger -----------------------------
(***************************************************************************)
(* The v2 rule snapshots of one profile (guardian_core/rule_activation.py) *)
(* beside the v1 catalog they continue.  The v1 catalog is seen through    *)
(* the register that CatalogLedger implements: the set v1 of promoted      *)
(* snapshots, and v1State, which says whether a read-only verification     *)
(* succeeds.  The v2 files are modelled as in CatalogLedger, one step per  *)
(* write and two per exclusive write.                                      *)
(*                                                                         *)
(* Operations: "v1" (ingest_snapshot with a v1 catalog), "activate"        *)
(* (apply_rule_activation), "ingest" (ingest_rule_snapshot) and "load"     *)
(* (load_rule_snapshot, which takes no lock).  Under the lock a load is    *)
(* one step.  A catalog is known by its sequence and digest; assessment    *)
(* times never tell two snapshots of one history apart here.               *)
(***************************************************************************)
EXTENDS Integers, FiniteSets

CONSTANTS Procs,      \* command processes
          Seqs,       \* approval sequences
          Digests,    \* approval digests
          Ops,        \* the operations commands are started with
          MaxFaults,  \* bound on crashes and failed writes
          MaxGrants,  \* bound on the permissions the user grants
          Nothing,    \* no snapshot
          Free,       \* no lock file
          Stale       \* a lock file whose owner died

LockedOps == {"v1", "activate", "ingest"}

ASSUME SeqsAssumption == Seqs \subseteq Nat \ {0}
ASSUME OpsAssumption == Ops \subseteq {"v1", "activate", "ingest", "load"}
ASSUME BoundsAssumption == MaxFaults \in Nat /\ MaxGrants \in Nat

Id == [seq : Seqs, digest : Digests]

\* What the user grants: activating one exact catalog on one exact v1 high-water.
Binding == [base : Id, catalog : Id]

\* A sealed v2 snapshot: its catalog, the snapshot it continues and the
\* permission of the first activation.
Rule == [seq : Seqs, digest : Digests, prev : Id, perm : Binding]

ASSUME DistinctAssumption ==
  /\ Nothing \notin Id /\ Nothing \notin Rule
  /\ Free \notin Procs /\ Stale \notin Procs /\ Free # Stale

VARIABLES
  lock,       \* transaction.lock: Free, Stale or its owner
  v1,         \* promoted v1 snapshots
  v1State,    \* "whole"; "unpointed": only the pointer is missing; "broken"
  dirs,       \* v2 history directories that exist
  snaps,      \* sealed v2 snapshots
  tornSnaps,  \* v2 snapshot paths created but not complete
  recs,       \* sealed v2 sequence records (the snapshot each one names)
  tornRecs,   \* v2 record paths created but not complete
  pointer,    \* current-rule-snapshot.json
  granted,    \* permissions granted on a preview
  expired,    \* catalogs that are no longer fresh
  pc,         \* the next step of each command
  op,         \* its operation
  request,    \* its input: a catalog, with a base when it is a permission
  cand,       \* the v2 snapshot it writes
  observed,   \* the high-water it verified
  seenSnaps,  \* what a load read of the snapshots
  seenRecs,   \* what a load read of the records
  faults      \* crashes and failed writes so far

v1Files == <<v1, v1State>>
files == <<dirs, snaps, tornSnaps, recs, tornRecs, pointer>>
world == <<granted, expired>>
locals == <<op, request, cand, observed, seenSnaps, seenRecs>>
vars == <<lock, v1Files, files, world, pc, locals, faults>>

-----------------------------------------------------------------------------

Init ==
  /\ lock = Free
  /\ v1 = {} /\ v1State = "whole"
  /\ dirs = {}
  /\ snaps = {} /\ tornSnaps = {}
  /\ recs = {} /\ tornRecs = {}
  /\ pointer = Nothing
  /\ granted = {} /\ expired = {}
  /\ pc = [p \in Procs |-> "idle"]
  /\ op = [p \in Procs |-> "none"]
  /\ request = [p \in Procs |-> Nothing]
  /\ cand = [p \in Procs |-> Nothing]
  /\ observed = [p \in Procs |-> Nothing]
  /\ seenSnaps = [p \in Procs |-> {}]
  /\ seenRecs = [p \in Procs |-> {}]
  /\ faults = 0

Goto(p, label) == pc' = [pc EXCEPT ![p] = label]

\* The command is over: its local state is gone.
Forgets(p) ==
  /\ Goto(p, "idle")
  /\ op' = [op EXCEPT ![p] = "none"]
  /\ request' = [request EXCEPT ![p] = Nothing]
  /\ cand' = [cand EXCEPT ![p] = Nothing]
  /\ observed' = [observed EXCEPT ![p] = Nothing]
  /\ seenSnaps' = [seenSnaps EXCEPT ![p] = {}]
  /\ seenRecs' = [seenRecs EXCEPT ![p] = {}]

\* Leaving the `with` block, on return or on an error, removes an owned lock.
Exits(p) ==
  /\ Forgets(p)
  /\ lock' = IF lock = p THEN Free ELSE lock

TopOf(S) == {s \in S : \A t \in S : t.seq <= s.seq}

IdOf(r) == [seq |-> r.seq, digest |-> r.digest]

Ids(S) == {IdOf(r) : r \in S}

\* has_rule_namespace_evidence: any v2 path exists, an empty directory included.
Evidence == dirs # {} \/ pointer # Nothing

-----------------------------------------------------------------------------
(* What a complete v2 history is.                                          *)

OnePerSequence(S) == \A s, t \in S : s.seq = t.seq => s = t

\* Every snapshot continues its predecessor, the first one the v1 high-water
\* (so the sequences are contiguous from it), under one permission.
Chain(S) ==
  /\ S # {}
  /\ OnePerSequence(S)
  /\ \A r \in S : r.seq = r.prev.seq + 1 /\ r.prev \in TopOf(v1) \cup Ids(S)
  /\ \A r, t \in S : r.perm = t.perm

\* load_rule_snapshot accepts: snapshots S, records R and pointer c agree.
Agree(S, R, c) == Chain(S) /\ R = S /\ c \in TopOf(S)

Loadable ==
  /\ v1State = "whole" /\ v1 # {}
  /\ tornSnaps = {} /\ tornRecs = {}
  /\ Agree(snaps, recs, pointer)

\* _recover_partial_first_activation and _preflight_first_storage accept, but
\* for the freshness of the catalog.
PartialFirst(b) ==
  /\ v1State = "whole" /\ b.base \in TopOf(v1)
  /\ tornSnaps = {} /\ tornRecs = {}
  /\ \E r \in snaps :
       /\ snaps = {r}
       /\ r.prev = b.base /\ r.seq = b.base.seq + 1
       /\ IdOf(r) = b.catalog /\ r.perm = b
       /\ recs \subseteq {r}
       /\ pointer \in {Nothing, r}

\* _recover_partial_later_snapshot accepts: one snapshot too many, perhaps with
\* its record, and it was built from catalog c.
PartialLater(c) ==
  /\ v1State = "whole" /\ v1 # {}
  /\ tornSnaps = {} /\ tornRecs = {}
  /\ Chain(snaps)
  /\ recs # {}
  /\ \E t \in TopOf(snaps) :
       /\ pointer \in snaps /\ t.seq = pointer.seq + 1
       /\ recs \in {snaps, snaps \ {t}}
       /\ IdOf(t) = c

-----------------------------------------------------------------------------
(* Starting a command and taking the profile transaction lock.             *)

Start(p) ==
  /\ pc[p] = "idle"
  /\ \E o \in Ops :
       /\ op' = [op EXCEPT ![p] = o]
       /\ \/ /\ o = "v1"
             /\ \E c \in Id : request' = [request EXCEPT ![p] = c]
             /\ Goto(p, "check")
          \/ /\ o = "activate"
             /\ \E b \in granted : request' = [request EXCEPT ![p] = b]
             /\ Goto(p, "lock")
          \/ /\ o = "ingest"
             /\ \E c \in Id : request' = [request EXCEPT ![p] = c]
             /\ Goto(p, "lock")
          \/ /\ o = "load"
             /\ UNCHANGED request
             /\ Goto(p, "snaps")
  /\ UNCHANGED <<lock, v1Files, files, world, cand, observed, seenSnaps, seenRecs, faults>>

\* ingest_snapshot looks for v2 evidence once before it takes the lock.
V1Check(p) ==
  /\ pc[p] = "check"
  /\ IF Evidence THEN Exits(p) ELSE Goto(p, "lock") /\ UNCHANGED <<lock, locals>>
  /\ UNCHANGED <<v1Files, files, world, faults>>

\* Fault variant: the lock file is opened without O_EXCL.
Mut_AcquireShared(p) ==
  /\ pc[p] = "lock"
  /\ lock' = p
  /\ Goto(p, "decide")
  /\ UNCHANGED <<v1Files, files, world, locals, faults>>

Acquire(p) ==
  /\ pc[p] = "lock"
  /\ lock = Free
  /\ lock' = p
  /\ Goto(p, "decide")
  /\ UNCHANGED <<v1Files, files, world, locals, faults>>

\* The five-second deadline passed: TimeoutError, the lock is left alone.
GiveUp(p) ==
  /\ pc[p] = "lock"
  /\ lock # Free
  /\ Exits(p)
  /\ UNCHANGED <<v1Files, files, world, faults>>

-----------------------------------------------------------------------------
(* v1 promotion, as far as v2 depends on it.                               *)

V1Next(c) == v1 # {} => \E h \in TopOf(v1) : c.seq = h.seq + 1

\* Fault variant: the evidence is not looked for again under the lock.
Mut_V1BeginUnchecked(p) ==
  /\ pc[p] = "decide" /\ op[p] = "v1"
  /\ v1State # "broken" /\ V1Next(request[p])
  /\ IF v1 = {} THEN UNCHANGED observed
     ELSE \E h \in TopOf(v1) : observed' = [observed EXCEPT ![p] = h]
  /\ v1State' = "broken"
  /\ Goto(p, "v1record")
  /\ UNCHANGED <<lock, v1, files, world, op, request, cand, seenSnaps, seenRecs, faults>>

\* Between its snapshot and its pointer a promotion leaves no aligned history.
V1Begin(p) ==
  /\ pc[p] = "decide" /\ op[p] = "v1"
  /\ ~Evidence
  /\ v1State # "broken" /\ V1Next(request[p])
  /\ IF v1 = {} THEN UNCHANGED observed
     ELSE \E h \in TopOf(v1) : observed' = [observed EXCEPT ![p] = h]
  /\ v1State' = "broken"
  /\ Goto(p, "v1record")
  /\ UNCHANGED <<lock, v1, files, world, op, request, cand, seenSnaps, seenRecs, faults>>

V1Record(p) ==
  /\ pc[p] = "v1record"
  /\ v1' = v1 \cup {request[p]}
  /\ v1State' = IF v1 = {} THEN "unpointed" ELSE "broken"
  /\ Goto(p, "v1pointer")
  /\ UNCHANGED <<lock, files, world, locals, faults>>

V1Pointer(p) ==
  /\ pc[p] = "v1pointer"
  /\ v1State' = "whole"
  /\ Goto(p, "done")
  /\ UNCHANGED <<lock, v1, files, world, locals, faults>>

\* Verification recovers a missing pointer before the request is compared.
V1Refused(p) ==
  /\ pc[p] = "decide" /\ op[p] = "v1"
  /\ Evidence \/ v1State = "broken" \/ ~V1Next(request[p])
  /\ v1State' = IF ~Evidence /\ v1State = "unpointed" THEN "whole" ELSE v1State
  /\ Exits(p)
  /\ UNCHANGED <<v1, files, world, faults>>

\* Any other v1 command recovers a missing v1 pointer.
V1Repaired ==
  /\ v1State = "unpointed"
  /\ v1State' = "whole"
  /\ UNCHANGED <<lock, v1, files, world, pc, locals, faults>>

\* The unlocked repair of `guardian rules list` puts an old v1 pointer back.
V1StrayRepair ==
  /\ Cardinality(v1) > 1
  /\ v1State' = "broken"
  /\ UNCHANGED <<lock, v1, files, world, pc, locals, faults>>

-----------------------------------------------------------------------------
(* Permission and time.                                                    *)

\* The user grants what preview_rule_activation reports: the high-water it
\* read and a fresh catalog that follows it.
Grant(b) ==
  /\ Cardinality(granted) < MaxGrants
  /\ ~Evidence
  /\ v1State = "whole" /\ b.base \in TopOf(v1)
  /\ b.catalog.seq = b.base.seq + 1
  /\ b.catalog \notin expired
  /\ granted' = granted \cup {b}
  /\ UNCHANGED <<lock, v1Files, files, expired, pc, locals, faults>>

\* 168 hours after its sources were retrieved, a catalog is stale.
Expire(c) ==
  /\ c \in {b.catalog : b \in granted} \ expired
  /\ expired' = expired \cup {c}
  /\ UNCHANGED <<lock, v1Files, files, granted, pc, locals, faults>>

-----------------------------------------------------------------------------
(* apply_rule_activation under the lock.                                   *)

\* Fault variant: the base that the permission names is taken for the high-water.
Mut_ActivateFirstUnbound(p) ==
  /\ pc[p] = "decide" /\ op[p] = "activate"
  /\ ~Evidence
  /\ v1State = "whole"
  /\ request[p].catalog.seq = request[p].base.seq + 1
  /\ request[p].catalog \notin expired
  /\ observed' = [observed EXCEPT ![p] = request[p].base]
  /\ cand' = [cand EXCEPT ![p] =
       [seq |-> request[p].catalog.seq, digest |-> request[p].catalog.digest,
        prev |-> request[p].base, perm |-> request[p]]]
  /\ Goto(p, "createSnapshot")
  /\ UNCHANGED <<lock, v1Files, files, world, op, request, seenSnaps, seenRecs, faults>>

\* No evidence: the candidate is built anew and must be the permitted one.
ActivateFirst(p) ==
  /\ pc[p] = "decide" /\ op[p] = "activate"
  /\ ~Evidence
  /\ v1State = "whole" /\ request[p].base \in TopOf(v1)
  /\ request[p].catalog.seq = request[p].base.seq + 1
  /\ request[p].catalog \notin expired
  /\ observed' = [observed EXCEPT ![p] = request[p].base]
  /\ cand' = [cand EXCEPT ![p] =
       [seq |-> request[p].catalog.seq, digest |-> request[p].catalog.digest,
        prev |-> request[p].base, perm |-> request[p]]]
  /\ Goto(p, "createSnapshot")
  /\ UNCHANGED <<lock, v1Files, files, world, op, request, seenSnaps, seenRecs, faults>>

\* Fault variant: any complete activation is reported as the requested one.
Mut_ActivateAgainUnchecked(p) ==
  /\ pc[p] = "decide" /\ op[p] = "activate"
  /\ Evidence /\ Loadable
  /\ observed' = [observed EXCEPT ![p] = IdOf(pointer)]
  /\ Goto(p, "done")
  /\ UNCHANGED <<lock, v1Files, files, world, op, request, cand, seenSnaps, seenRecs, faults>>

\* A complete history whose current snapshot is the permitted one: no change.
ActivateAgain(p) ==
  /\ pc[p] = "decide" /\ op[p] = "activate"
  /\ Evidence /\ Loadable
  /\ request[p].base \in TopOf(v1)
  /\ IdOf(pointer) = request[p].catalog /\ pointer.perm = request[p]
  /\ observed' = [observed EXCEPT ![p] = IdOf(pointer)]
  /\ Goto(p, "done")
  /\ UNCHANGED <<lock, v1Files, files, world, op, request, cand, seenSnaps, seenRecs, faults>>

\* An interrupted first activation is completed: only missing files are written.
ActivateRecover(p) ==
  /\ pc[p] = "decide" /\ op[p] = "activate"
  /\ Evidence /\ ~Loadable
  /\ PartialFirst(request[p])
  /\ request[p].catalog \notin expired
  /\ \E r \in snaps : cand' = [cand EXCEPT ![p] = r]
  /\ observed' = [observed EXCEPT ![p] = request[p].base]
  /\ Goto(p, IF recs = {} THEN "createRecord" ELSE "writePointer")
  /\ UNCHANGED <<lock, v1Files, files, world, op, request, seenSnaps, seenRecs, faults>>

ActivateRefused(p) ==
  /\ pc[p] = "decide" /\ op[p] = "activate"
  /\ IF Evidence
       THEN IF Loadable
              THEN \/ request[p].base \notin TopOf(v1)
                   \/ IdOf(pointer) # request[p].catalog
                   \/ pointer.perm # request[p]
              ELSE ~PartialFirst(request[p]) \/ request[p].catalog \in expired
       ELSE \/ v1State # "whole"
            \/ request[p].base \notin TopOf(v1)
            \/ request[p].catalog \in expired
  /\ Exits(p)
  /\ UNCHANGED <<v1Files, files, world, faults>>

-----------------------------------------------------------------------------
(* ingest_rule_snapshot under the lock.                                    *)

IngestNext(p) ==
  /\ pc[p] = "decide" /\ op[p] = "ingest"
  /\ Evidence /\ Loadable
  /\ request[p].seq = pointer.seq + 1
  /\ observed' = [observed EXCEPT ![p] = IdOf(pointer)]
  /\ cand' = [cand EXCEPT ![p] =
       [seq |-> request[p].seq, digest |-> request[p].digest,
        prev |-> IdOf(pointer), perm |-> pointer.perm]]
  /\ Goto(p, "createSnapshot")
  /\ UNCHANGED <<lock, v1Files, files, world, op, request, seenSnaps, seenRecs, faults>>

\* The current catalog again: the current snapshot is returned.
IngestCurrent(p) ==
  /\ pc[p] = "decide" /\ op[p] = "ingest"
  /\ Evidence /\ Loadable
  /\ request[p] = IdOf(pointer)
  /\ observed' = [observed EXCEPT ![p] = IdOf(pointer)]
  /\ Goto(p, "done")
  /\ UNCHANGED <<lock, v1Files, files, world, op, request, cand, seenSnaps, seenRecs, faults>>

\* An interrupted ingestion of the same catalog is completed.
IngestRecover(p) ==
  /\ pc[p] = "decide" /\ op[p] = "ingest"
  /\ Evidence /\ ~Loadable
  /\ PartialLater(request[p])
  /\ \E t \in TopOf(snaps) :
       /\ cand' = [cand EXCEPT ![p] = t]
       /\ Goto(p, IF t \in recs THEN "writePointer" ELSE "createRecord")
  /\ observed' = [observed EXCEPT ![p] = IdOf(pointer)]
  /\ UNCHANGED <<lock, v1Files, files, world, op, request, seenSnaps, seenRecs, faults>>

\* Before any activation, out of order, another content, or not recoverable.
IngestRefused(p) ==
  /\ pc[p] = "decide" /\ op[p] = "ingest"
  /\ Evidence =>
       IF Loadable THEN request[p].seq # pointer.seq + 1 /\ request[p] # IdOf(pointer)
                   ELSE ~PartialLater(request[p])
  /\ Exits(p)
  /\ UNCHANGED <<v1Files, files, world, faults>>

-----------------------------------------------------------------------------
(* The writes of both: snapshot, record, pointer; then a verifying load.   *)

CreateSnapshot(p) ==
  /\ pc[p] = "createSnapshot"
  /\ dirs' = dirs \cup {"rule-snapshots"}
  /\ tornSnaps' = tornSnaps \cup {cand[p]}
  /\ Goto(p, "fillSnapshot")
  /\ UNCHANGED <<lock, v1Files, snaps, recs, tornRecs, pointer, world, locals, faults>>

\* Fault variant: the pointer is written before the record.
Mut_FillSnapshotThenPointer(p) ==
  /\ pc[p] = "fillSnapshot"
  /\ tornSnaps' = tornSnaps \ {cand[p]}
  /\ snaps' = snaps \cup {cand[p]}
  /\ Goto(p, "writePointer")
  /\ UNCHANGED <<lock, v1Files, dirs, recs, tornRecs, pointer, world, locals, faults>>

FillSnapshot(p) ==
  /\ pc[p] = "fillSnapshot"
  /\ tornSnaps' = tornSnaps \ {cand[p]}
  /\ snaps' = snaps \cup {cand[p]}
  /\ Goto(p, "createRecord")
  /\ UNCHANGED <<lock, v1Files, dirs, recs, tornRecs, pointer, world, locals, faults>>

CreateRecord(p) ==
  /\ pc[p] = "createRecord"
  /\ dirs' = dirs \cup {"rule-approval-sequences"}
  /\ tornRecs' = tornRecs \cup {cand[p]}
  /\ Goto(p, "fillRecord")
  /\ UNCHANGED <<lock, v1Files, snaps, tornSnaps, recs, pointer, world, locals, faults>>

FillRecord(p) ==
  /\ pc[p] = "fillRecord"
  /\ tornRecs' = tornRecs \ {cand[p]}
  /\ recs' = recs \cup {cand[p]}
  /\ Goto(p, "writePointer")
  /\ UNCHANGED <<lock, v1Files, dirs, snaps, tornSnaps, pointer, world, locals, faults>>

\* An activation does not replace a pointer that exists.
WritePointer(p) ==
  /\ pc[p] = "writePointer"
  /\ pointer' = IF op[p] = "activate" /\ pointer # Nothing THEN pointer ELSE cand[p]
  /\ Goto(p, "verify")
  /\ UNCHANGED <<lock, v1Files, dirs, snaps, tornSnaps, recs, tornRecs,
                 world, locals, faults>>

Verify(p) ==
  /\ pc[p] = "verify"
  /\ IF Loadable /\ cand[p] \in snaps
       THEN Goto(p, "done") /\ UNCHANGED <<lock, locals>>
       ELSE Exits(p)
  /\ UNCHANGED <<v1Files, files, world, faults>>

-----------------------------------------------------------------------------
(* load_rule_snapshot without the lock.                                    *)

\* Without evidence there is nothing to load; otherwise v1 is verified and the
\* snapshot directory read.
LoadSnaps(p) ==
  /\ pc[p] = "snaps"
  /\ IF Evidence /\ v1State = "whole" /\ v1 # {} /\ tornSnaps = {} /\ snaps # {}
       THEN /\ seenSnaps' = [seenSnaps EXCEPT ![p] = snaps]
            /\ Goto(p, "recs")
            /\ UNCHANGED <<lock, op, request, cand, observed, seenRecs>>
       ELSE Exits(p)
  /\ UNCHANGED <<v1Files, files, world, faults>>

LoadRecs(p) ==
  /\ pc[p] = "recs"
  /\ IF tornRecs = {} /\ recs # {}
       THEN /\ seenRecs' = [seenRecs EXCEPT ![p] = recs]
            /\ Goto(p, "current")
            /\ UNCHANGED <<lock, op, request, cand, observed, seenSnaps>>
       ELSE Exits(p)
  /\ UNCHANGED <<v1Files, files, world, faults>>

\* Fault variant: the newest snapshot is returned without reading the pointer.
Mut_LoadNewest(p) ==
  /\ pc[p] = "current"
  /\ IF Chain(seenSnaps[p]) /\ seenSnaps[p] = seenRecs[p]
       THEN /\ \E r \in TopOf(seenSnaps[p]) :
                 observed' = [observed EXCEPT ![p] = IdOf(r)]
            /\ Goto(p, "done")
            /\ UNCHANGED <<lock, op, request, cand, seenSnaps, seenRecs>>
       ELSE Exits(p)
  /\ UNCHANGED <<v1Files, files, world, faults>>

\* The pointer is read last.  The v1 high-water of the first step still is the
\* high-water: v1 does not change once there is evidence (V1Frozen).
LoadCurrent(p) ==
  /\ pc[p] = "current"
  /\ IF Agree(seenSnaps[p], seenRecs[p], pointer)
       THEN /\ observed' = [observed EXCEPT ![p] = IdOf(pointer)]
            /\ Goto(p, "done")
            /\ UNCHANGED <<lock, op, request, cand, seenSnaps, seenRecs>>
       ELSE Exits(p)
  /\ UNCHANGED <<v1Files, files, world, faults>>

\* The command returns; the lock file is removed by its owner.
Return(p) ==
  /\ pc[p] = "done"
  /\ Exits(p)
  /\ UNCHANGED <<v1Files, files, world, faults>>

-----------------------------------------------------------------------------
(* Faults.                                                                 *)

\* An exclusive write that raises unlinks its file (not its directory).  In v1
\* that heals the history only if the directory held a snapshot before.
WriteFails(p) ==
  /\ faults < MaxFaults
  /\ pc[p] \in {"v1record", "v1pointer", "fillSnapshot", "fillRecord", "writePointer"}
  /\ tornSnaps' = IF pc[p] = "fillSnapshot" THEN tornSnaps \ {cand[p]} ELSE tornSnaps
  /\ tornRecs' = IF pc[p] = "fillRecord" THEN tornRecs \ {cand[p]} ELSE tornRecs
  /\ v1State' \in IF pc[p] = "v1record" /\ v1 # {} THEN {"whole", v1State} ELSE {v1State}
  /\ Exits(p)
  /\ faults' = faults + 1
  /\ UNCHANGED <<v1, dirs, snaps, recs, pointer, world>>

\* A command dies: files stay as they are, an owned lock becomes stale.
Crash(p) ==
  /\ faults < MaxFaults
  /\ pc[p] # "idle"
  /\ Forgets(p)
  /\ lock' = IF lock = p THEN Stale ELSE lock
  /\ faults' = faults + 1
  /\ UNCHANGED <<v1Files, files, world>>

\* The operator removes a lock after making sure that its owner is gone.
RemoveStaleLock ==
  /\ lock = Stale
  /\ lock' = Free
  /\ UNCHANGED <<v1Files, files, world, pc, locals, faults>>

-----------------------------------------------------------------------------

V1Ingestion(p) ==
  \/ V1Check(p) \/ V1Begin(p) \/ V1Record(p) \/ V1Pointer(p) \/ V1Refused(p)

Activation(p) ==
  \/ ActivateFirst(p) \/ ActivateAgain(p) \/ ActivateRecover(p) \/ ActivateRefused(p)

Ingestion(p) ==
  \/ IngestNext(p) \/ IngestCurrent(p) \/ IngestRecover(p) \/ IngestRefused(p)

Writing(p) ==
  \/ CreateSnapshot(p) \/ FillSnapshot(p) \/ CreateRecord(p) \/ FillRecord(p)
  \/ WritePointer(p) \/ Verify(p)

Loading(p) == LoadSnaps(p) \/ LoadRecs(p) \/ LoadCurrent(p)

\* What a started command does by itself.
Step(p) ==
  \/ Acquire(p) \/ GiveUp(p) \/ V1Ingestion(p) \/ Activation(p) \/ Ingestion(p)
  \/ Writing(p) \/ Loading(p) \/ Return(p)

Environment ==
  \/ V1Repaired \/ V1StrayRepair \/ RemoveStaleLock
  \/ \E b \in Binding : Grant(b)
  \/ \E c \in Id : Expire(c)

Next ==
  \/ \E p \in Procs : Start(p) \/ Step(p) \/ WriteFails(p) \/ Crash(p)
  \/ Environment

Spec == Init /\ [][Next]_vars

-----------------------------------------------------------------------------
(* The inductive invariant.                                                *)

Labels == {"idle", "check", "lock", "decide", "v1record", "v1pointer", "createSnapshot",
           "fillSnapshot", "createRecord", "fillRecord", "writePointer", "verify",
           "snaps", "recs", "current", "done"}

TypeOK ==
  /\ lock \in Procs \cup {Free, Stale}
  /\ v1 \subseteq Id /\ v1State \in {"whole", "unpointed", "broken"}
  /\ dirs \subseteq {"rule-snapshots", "rule-approval-sequences"}
  /\ snaps \subseteq Rule /\ tornSnaps \subseteq Rule
  /\ recs \subseteq Rule /\ tornRecs \subseteq Rule
  /\ pointer \in Rule \cup {Nothing}
  /\ granted \subseteq Binding /\ expired \subseteq Id
  /\ pc \in [Procs -> Labels]
  /\ op \in [Procs -> LockedOps \cup {"load", "none"}]
  /\ request \in [Procs -> Id \cup Binding \cup {Nothing}]
  /\ cand \in [Procs -> Rule \cup {Nothing}]
  /\ observed \in [Procs -> Id \cup {Nothing}]
  /\ seenSnaps \in [Procs -> SUBSET Rule]
  /\ seenRecs \in [Procs -> SUBSET Rule]
  /\ faults \in 0 .. MaxFaults

WritingLabels == {"createSnapshot", "fillSnapshot", "createRecord", "fillRecord",
                  "writePointer", "verify"}

InTransaction(p) == op[p] \in LockedOps /\ pc[p] \notin {"idle", "check", "lock"}

\* Which operation can be where in its program.
ControlFlow ==
  \A p \in Procs :
    /\ pc[p] = "idle" <=> op[p] = "none"
    /\ pc[p] \in {"check", "v1record", "v1pointer"} => op[p] = "v1"
    /\ pc[p] \in {"lock", "decide"} => op[p] \in LockedOps
    /\ pc[p] \in WritingLabels => op[p] \in {"activate", "ingest"} /\ cand[p] \in Rule
    /\ pc[p] \in {"snaps", "recs", "current"} => op[p] = "load"
    /\ op[p] \in {"v1", "ingest"} => request[p] \in Id
    /\ op[p] = "activate" => request[p] \in granted
    /\ pc[p] \in {"idle", "check", "lock", "decide"} => observed[p] = Nothing

\* The lock file belongs to the one command inside the transaction.
LockOwner == \A p \in Procs : InTransaction(p) <=> lock = p

\* The v2 snapshots that a pointer has covered.
promoted == {r \in recs : pointer # Nothing /\ r.seq <= pointer.seq}

\* The snapshot of an unfinished promotion, complete or torn.
trailing == (snaps \cup tornSnaps) \ promoted

\* The last promoted snapshot of both namespaces.
Last == IF pointer = Nothing THEN TopOf(v1) ELSE {IdOf(pointer)}

\* Records and pointer only name what was written before them.
Grounded ==
  /\ OnePerSequence(v1)
  /\ recs \subseteq snaps /\ tornRecs \subseteq snaps \ recs
  /\ snaps \cap tornSnaps = {}
  /\ pointer \in recs \cup {Nothing}
  /\ snaps \cup tornSnaps # {} => "rule-snapshots" \in dirs
  /\ recs \cup tornRecs # {} => "rule-approval-sequences" \in dirs
  /\ Evidence => TopOf(v1) # {}
  /\ \A p \in Procs : seenSnaps[p] \subseteq snaps /\ seenRecs[p] \subseteq recs

\* Every v2 snapshot, torn or not, continues the promoted history under the
\* permission of the first one.
Lineage ==
  \A r \in snaps \cup tornSnaps :
    /\ r.perm \in granted /\ r.perm.base \in TopOf(v1)
    /\ r.perm.catalog.seq = r.perm.base.seq + 1
    /\ r.seq = r.prev.seq + 1
    /\ r.prev \in TopOf(v1) \cup Ids(promoted)
    /\ r.prev \in TopOf(v1) => IdOf(r) = r.perm.catalog
    /\ \A t \in snaps \cup tornSnaps : t.perm = r.perm /\ (t.seq = r.seq => t = r)

\* At most one snapshot is unfinished, and it follows the last promoted one.
Trailing ==
  /\ promoted \cap tornSnaps = {}
  /\ \A r \in promoted : \A h \in TopOf(v1) : r.seq > h.seq
  /\ \A t \in trailing : t.prev \in Last
  /\ \A s, t \in trailing : s = t
  /\ tornSnaps # {} => snaps = promoted

UpToDate(p) == IF v1 = {} THEN observed[p] = Nothing ELSE observed[p] \in TopOf(v1)

\* What the owner of the lock has established at each of its steps.
Progress(p) ==
  /\ pc[p] \in {"v1record", "v1pointer"} => ~Evidence
  /\ pc[p] = "v1record" => UpToDate(p) /\ V1Next(request[p])
  /\ pc[p] \in WritingLabels \ {"verify"} =>
       /\ observed[p] \in Last /\ cand[p].prev = observed[p]
       /\ cand[p].seq = observed[p].seq + 1
       /\ TopOf(v1) # {}
       /\ IdOf(cand[p]) = IF op[p] = "activate" THEN request[p].catalog ELSE request[p]
       /\ op[p] = "activate" => pointer = Nothing
       /\ op[p] = "ingest" => pointer # Nothing
  /\ pc[p] = "createSnapshot" =>
       /\ trailing = {} /\ tornRecs = {}
       /\ IF op[p] = "activate"
            THEN /\ cand[p].perm = request[p] /\ request[p].base = observed[p]
                 /\ ~Evidence
            ELSE cand[p].perm = pointer.perm
  /\ pc[p] = "fillSnapshot" => tornSnaps = {cand[p]} /\ tornRecs = {}
  /\ pc[p] \in {"createRecord", "fillRecord", "writePointer"} =>
       trailing = {cand[p]} /\ tornSnaps = {}
  /\ pc[p] = "createRecord" => tornRecs = {} /\ cand[p] \notin recs
  /\ pc[p] = "fillRecord" => tornRecs = {cand[p]}
  /\ pc[p] = "writePointer" => tornRecs = {} /\ cand[p] \in recs
  /\ pc[p] = "verify" =>
       /\ pointer = cand[p]
       /\ IdOf(cand[p]) = IF op[p] = "activate" THEN request[p].catalog ELSE request[p]

RuleInv ==
  /\ TypeOK
  /\ ControlFlow
  /\ LockOwner
  /\ Grounded
  /\ Lineage
  /\ Trailing
  /\ \A p \in Procs : InTransaction(p) => Progress(p)

-----------------------------------------------------------------------------
(* What the transaction lock is good for.                                  *)

Lock == INSTANCE ProfileLock WITH owner <- lock

\* The lock is owned as ProfileLock promises, and neither the v2 files nor the promoted
\* v1 snapshots change but by a step of its owner (ingest_snapshot,
\* apply_rule_activation and ingest_rule_snapshot): between two steps of the owner both
\* histories stand still.
OwnersWrite ==
  [][<<v1, files>>' # <<v1, files>> =>
       \E p \in Procs : lock = p /\ \A q \in Procs \ {p} : pc'[q] = pc[q]]_vars
Transactional == Lock!LockSpec /\ OwnersWrite

-----------------------------------------------------------------------------
(* What both namespaces guarantee together.                                *)

Register ==
  INSTANCE CatalogRegister WITH
    Snapshots <- Id, approved <- v1 \cup Ids(promoted)

\* The v1 catalog and the v2 rule snapshots together implement one
\* compare-and-append register: v2 continues the v1 high-water without a gap or
\* a fork, and what any load returns, the lock-free one too, is the high-water
\* at the instant it reads the pointer.
ImplementsRegister == Register!RegisterSpec

\* Once any v2 path exists, no v1 promotion lands any more, not even one that
\* found no evidence before it waited for the lock (ingest_snapshot).
V1Frozen == [][Evidence => v1' = v1]_vars

\* Every v2 history, torn files included, rests on one permission that the user
\* granted for exactly the current v1 high-water and the catalog of its first
\* snapshot (apply_rule_activation): a permission does not survive a v1
\* promotion, and a retry or a recovery does not exchange it.
PermissionExact ==
  \A r \in snaps \cup tornSnaps :
    /\ r.perm \in granted
    /\ r.perm.base \in TopOf(v1)
    /\ r.prev \in TopOf(v1) => IdOf(r) = r.perm.catalog
    /\ \A t \in snaps \cup tornSnaps : t.perm = r.perm

\* An activation or ingestion that reports success did promote its catalog:
\* that catalog is the v2 high-water then, whoever wrote it.
SuccessMeansCurrent ==
  [][\A p \in Procs :
       /\ pc[p] \in {"decide", "verify"} /\ pc'[p] = "done"
       /\ op[p] \in {"activate", "ingest"}
       => /\ pointer # Nothing
          /\ IdOf(pointer) = IF op[p] = "activate" THEN request[p].catalog ELSE request[p]]_vars

\* As long as no file is torn, the snapshot directory is not empty and v1 is
\* intact, the history is complete, or one retry completes it: of an activation
\* whose catalog is still fresh, or of an ingestion.
Recoverable ==
  snaps # {} /\ tornSnaps = {} /\ tornRecs = {} /\ v1State = "whole" =>
    \/ Loadable
    \/ \E b \in granted : PartialFirst(b)
    \/ \E t \in TopOf(snaps) : PartialLater(IdOf(t))

-----------------------------------------------------------------------------
(* A statement of the repository that the code does not keep.              *)

\* "exact retry is idempotent; interrupted or divergent apply fails closed and
\* recovers deterministically": an interrupted apply leaves evidence that a
\* retry completes.
InterruptedApplyRecovers ==
  Evidence /\ lock = Free /\ v1State = "whole" =>
    \/ Loadable
    \/ \E b \in granted : PartialFirst(b)
    \/ \E t \in TopOf(snaps) : PartialLater(IdOf(t))
=============================================================================
