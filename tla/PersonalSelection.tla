--------------------------- MODULE PersonalSelection ---------------------------
(***************************************************************************)
(* Personal selection of design-system libraries (personal_selection.py):  *)
(* one task run is bound to the libraries that its user allowed.  Applying *)
(* a selection installs personal trust, a profile named by the scope of    *)
(* the selection, the seal that makes it personal, an approved catalog     *)
(* snapshot and at last the record of the run, each by a write of its own; *)
(* only the catalog is written under a lock.                               *)
(*                                                                         *)
(* A discovery is                                                          *)
(*   [target : file version, candidates : set of                           *)
(*     [file, version, published, use], adapters, sources : set of files   *)
(*     and versions that the catalog names, provenance : file version of   *)
(*     the tokens, tokens, assets : sets of [id, file, version, locator,   *)
(*     content] (assets with the file versions of their instances),        *)
(*     readback : [sources, tokens, assets]].                              *)
(* Names of files and libraries are for display only and are left out.     *)
(***************************************************************************)
EXTENDS Onboarding

CONSTANTS Requests \* [run, discovery, permission]: what users ask for

Runs == {r.run : r \in Requests}

VARIABLES
  binding,  \* the seal of each personal profile: Nothing, Torn or its scope
  selection \* the record of each run: Nothing, Torn or a selection

selections == <<binding, selection>>

-----------------------------------------------------------------------------
(* What a discovery selects.                                               *)

Selected(d) == {c \in d.candidates : c.use}
Excluded(d) == d.candidates \ Selected(d)
Files(cs) == {c.file : c \in cs}
AtVersion(x, d) == \E c \in Selected(d) : c.file = x.file /\ c.version = x.version

\* The versions of files do not enter the scope.
Scope(d) == [files |-> Files(Selected(d)), target |-> d.target.file, adapters |-> d.adapters]

CompleteCandidates(d) ==
  /\ Selected(d) # {}
  /\ \A c \in d.candidates : c.file # d.target.file /\ (c.use => c.published)
  /\ Cardinality(Files(d.candidates)) = Cardinality(d.candidates)

OneToOne(proofs) ==
  \A x, y \in proofs : x # y => x.id # y.id /\ x.locator # y.locator

\* The catalog was read back from every selected library, in the selected version.
ReadbackCovers(d) ==
  /\ d.readback.sources = {[file |-> c.file, version |-> c.version] : c \in Selected(d)}
  /\ OneToOne(d.readback.tokens)
  /\ d.readback.tokens = d.tokens
  /\ \A t \in d.tokens : AtVersion(t, d)
  /\ OneToOne(d.readback.assets)
  /\ d.readback.assets = {a \in d.assets : a.file \in Files(Selected(d))}
  /\ \A a \in d.readback.assets : AtVersion(a, d)

\* Nothing in the catalog comes from a file that nobody decided on.
Attributable(d) ==
  /\ \A s \in d.sources :
       /\ s.file \in Files(d.candidates) \cup {d.target.file}
       /\ s.file \in Files(Selected(d)) => AtVersion(s, d)
       /\ s.file = d.target.file => s = d.target
  /\ \A c \in Selected(d) : \E s \in d.sources : s.file = c.file
  /\ AtVersion(d.provenance, d)
  /\ \A a \in d.assets :
       /\ a.file \in Files(d.candidates)
       /\ a.file \notin Files(Excluded(d)) =>
            AtVersion(a, d) /\ a.instances \subseteq {d.target}

\* Fault variant: excluded libraries stay in the catalog.
Mut_PersonalCatalog(d) ==
  [sources |-> d.sources \cup {d.target}, tokens |-> d.tokens, assets |-> d.assets]

\* What is approved is the catalog without the excluded libraries.
PersonalCatalog(d) ==
  [sources |-> {s \in d.sources : s.file \in Files(Selected(d))} \cup {d.target},
   tokens |-> d.tokens,
   assets |-> {a \in d.assets : a.file \notin Files(Excluded(d))}]

\* The permission is for this run and this very discovery.
Permitted(r) ==
  r.permission = [granted |-> TRUE, run |-> r.run, discovery |-> r.discovery]

Acceptable(r) ==
  /\ CompleteCandidates(r.discovery) /\ ReadbackCovers(r.discovery)
  /\ Permitted(r)

\* Every scope that is asked for has its profile; a record is told from a torn one.
ASSUME RequestsAssumption ==
  /\ \A r \in Requests : Acceptable(r) => Scope(r.discovery) \in Personal
  /\ {Nothing, Torn} \cap [discovery : {r.discovery : r \in Requests}, seq : Nat] = {}

-----------------------------------------------------------------------------
(* Reading a selection.                                                    *)

WholeSelection(run) == selection[run] \notin {Nothing, Torn}

BindingVerifies(id) ==
  TrustVerifies /\ CapabilityVerifies /\ binding[id] = id /\ profile[id] = id

\* inspect_personal_selection repairs nothing.
SelectionAllowed(run) ==
  LET s == selection[run]
      id == Scope(s.discovery)
  IN /\ BindingVerifies(id)
     /\ LoadsUnrepaired(id) /\ s.seq \in DOMAIN snapshots[id]
     /\ snapshots[id][s.seq].catalog = PersonalCatalog(s.discovery)

-----------------------------------------------------------------------------
(* apply_personal_selection.                                               *)

\* A discovery that is not acceptable is refused before anything is read.
BeginSelect(p) ==
  /\ \E r \in Requests :
       /\ Acceptable(r)
       /\ Begin(p, [kind |-> "select", run |-> r.run, discovery |-> r.discovery,
                    id |-> Scope(r.discovery), seq |-> 0,
                    catalog |-> PersonalCatalog(r.discovery)], "existing")
  /\ UNCHANGED <<trust, catalogs, selections>>

\* A run is bound once.  The exact retry is looked at, never repaired.
ExistingRetry(p) ==
  /\ pc[p] = "existing"
  /\ LET s == selection[job[p].run] IN
     IF s = Nothing
       THEN IF Attributable(job[p].discovery) THEN Step(p, "personal") ELSE Refuse(p)
     ELSE IF s # Torn /\ s.discovery = job[p].discovery /\ SelectionAllowed(job[p].run)
       THEN Step(p, "ok")
     ELSE Refuse(p)
  /\ UNCHANGED <<trust, catalogs, selections>>

\* The seal is created exclusively: an existing one has to be the same.
CreateBinding(p) ==
  /\ pc[p] = "bind"
  /\ LET id == job[p].id IN
     IF ~(TrustVerifies /\ CapabilityVerifies /\ profile[id] = id)
       THEN Refuse(p) /\ UNCHANGED binding
     ELSE IF binding[id] = Nothing
       THEN binding' = [binding EXCEPT ![id] = Torn] /\ Step(p, "fillBinding")
     ELSE /\ UNCHANGED binding
          /\ IF binding[id] = id THEN Step(p, "approve") ELSE Refuse(p)
  /\ UNCHANGED <<trust, catalogs, selection>>

FillBinding(p) ==
  /\ pc[p] = "fillBinding"
  /\ binding' = [binding EXCEPT ![job[p].id] = job[p].id]
  /\ Step(p, "approve")
  /\ UNCHANGED <<trust, catalogs, selection>>

\* The host approves the catalog: the current one once more, or the next one.  A
\* missing pointer is put back on the way.
Approve(p) ==
  /\ pc[p] = "approve" /\ profileLock[job[p].id] = Nothing
  /\ LET id == job[p].id
         retained == snapshots[id]
         current == retained # <<>> /\ Last(retained).catalog = job[p].catalog IN
     IF BindingVerifies(id) /\ Whole(id)
       THEN /\ mend' = [mend EXCEPT ![id] = "whole"]
            /\ job' = [job EXCEPT ![p].seq = Len(retained) + IF current THEN 0 ELSE 1]
            /\ Goto(p, "ingest") /\ UNCHANGED <<agenda, commands, faults>>
       ELSE UNCHANGED mend /\ Refuse(p)
  /\ UNCHANGED <<trust, profile, snapshots, profileLock, selections>>

Record(p) == [discovery |-> job[p].discovery, seq |-> job[p].seq]

\* Another selection may have been sealed for the run since it was looked up.
CreateRecord(p) ==
  /\ pc[p] = "record"
  /\ LET run == job[p].run IN
     IF selection[run] = Nothing
       THEN selection' = [selection EXCEPT ![run] = Torn] /\ Step(p, "fillRecord")
       ELSE /\ UNCHANGED selection
            /\ IF selection[run] = Record(p) THEN Step(p, "ok") ELSE Refuse(p)
  /\ UNCHANGED <<trust, catalogs, binding>>

FillRecord(p) ==
  /\ pc[p] = "fillRecord"
  /\ selection' = [selection EXCEPT ![job[p].run] = Record(p)]
  /\ Step(p, "ok")
  /\ UNCHANGED <<trust, catalogs, binding>>

\* A write that raises unlinks what it created.
SelectionWriteFails(p) ==
  /\ pc[p] \in {"fillBinding", "fillRecord"}
  /\ faults < MaxFaults
  /\ faults' = faults + 1
  /\ IF pc[p] = "fillBinding"
       THEN binding' = [binding EXCEPT ![job[p].id] = Nothing] /\ UNCHANGED selection
       ELSE selection' = [selection EXCEPT ![job[p].run] = Nothing] /\ UNCHANGED binding
  /\ Leave(p)
  /\ UNCHANGED <<trust, catalogs, agenda, commands>>

SelectionNext(p) ==
  \/ BeginSelect(p) \/ ExistingRetry(p)
  \/ CreateBinding(p) \/ FillBinding(p) \/ Approve(p)
  \/ CreateRecord(p) \/ FillRecord(p) \/ SelectionWriteFails(p)

SelectionInit ==
  /\ binding = [i \in Personal |-> Nothing]
  /\ selection = [r \in Runs |-> Nothing]
=============================================================================
