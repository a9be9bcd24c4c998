---------------------------- MODULE ReleaseChannel ----------------------------
(***************************************************************************)
(* The local ledger of the release channels (release.py): signed actions   *)
(* are archived, recorded as events and made current by a state file, each *)
(* by a write of its own under the release lock (modelled in               *)
(* TransactionLock, so one command at a time is past it).  Readers take no *)
(* lock.  The public functions stop before any of this for want of an      *)
(* external head; what is modelled is what they call behind that stop.     *)
(*                                                                         *)
(* A digest is the document itself.  Signatures hold and nobody edits a    *)
(* file.  A command that dies while it writes an archived file leaves it   *)
(* torn; what a reader may see of a file that is being written, which only *)
(* makes it refuse, is left out.                                           *)
(***************************************************************************)
EXTENDS Integers, FiniteSets

CONSTANTS Builds,     \* release coordinates: version, commit, artifact, compatibility
          Version,    \* the rank of a build's version among versions
          Prerelease, \* builds whose version is a prerelease
          Accepts,    \* the Guardian runtimes a build's compatibility range admits
          MaxRuntime, \* runtimes are 1 .. MaxRuntime
          MaxSeq,     \* bound on channel sequences
          Signed,     \* the manifests the release authority has signed
          MaxTime,    \* bound on the clock
          MaxFaults   \* bound on interruptions and on steps back of the clock

Nothing == [none |-> TRUE]

Channels == {"canary", "stable"}
Runtimes == 1 .. MaxRuntime
Times == 1 .. MaxTime

ASSUME BoundsAssumption ==
  MaxRuntime \in Nat \ {0} /\ MaxSeq \in Nat \ {0} /\ MaxTime \in Nat \ {0} /\ MaxFaults \in Nat
ASSUME BuildsAssumption ==
  /\ Version \in [Builds -> Nat]
  /\ Prerelease \subseteq Builds
  /\ Accepts \in [Builds -> SUBSET Runtimes]

\* Manifests that keep the exact contract of their kind.
Releases ==
  {m \in [kind : {"release"}, channel : Channels, seq : 1 .. MaxSeq, build : Builds,
          issued : Times, target : {Nothing}] :
     m.channel = "stable" => m.build \notin Prerelease}
Restorations ==
  {m \in [kind : {"restoration"}, channel : Channels, seq : 1 .. MaxSeq, build : Builds,
          issued : Times, target : Releases] :
     m.channel = "stable" => m.build \notin Prerelease}
Manifests == Releases \cup Restorations

ASSUME SignedAssumption == Signed \subseteq Manifests

\* A proof names the canary event of a stable release by its digest.
Proof(e) == [action |-> e.action, recorded |-> e.recorded]
Proofs == [action : Releases, recorded : Times] \cup {Nothing}
Events ==
  [action : Manifests, active : Releases, previous : Releases \cup {Nothing},
   proof : Proofs, recorded : Times]
States ==
  [action : Manifests, active : Releases, proof : Proofs, recorded : Times, activated : Times]

\* A file that is created once and was being written for an action.
TornFiles == [place : {"manifest", "artifact", "event"}, action : Manifests]

VARIABLES
  archived,  \* the manifests in releases/manifests
  artifacts, \* the builds whose artifact is in releases/artifacts
  events,    \* the files of releases/history, both channels
  chan,      \* the state file of each channel, or Nothing
  torn,      \* the files that a command has died writing
  now,       \* the clock of the host
  runtime,   \* the Guardian runtime that is installed
  pc,        \* the next step of the command that has the lock, or "idle"
  cmd,       \* what that command has established under the lock
  reader,    \* a lock-free reader and what it has read, or Nothing
  faults     \* interruptions and steps back of the clock so far

files == <<archived, artifacts, events, chan>>
disk == <<files, torn>>
host == <<now, runtime>>
vars == <<disk, host, pc, cmd, reader, faults>>

Init ==
  /\ archived = {} /\ artifacts = {} /\ events = {}
  /\ chan = [c \in Channels |-> Nothing]
  /\ torn = {}
  /\ now = 1 /\ runtime = 1
  /\ pc = "idle" /\ cmd = Nothing
  /\ reader = Nothing
  /\ faults = 0

-----------------------------------------------------------------------------
(* What a read accepts.  A read with a pending action tolerates what an    *)
(* interrupted attempt at exactly that action has left.                    *)

History(c) == {e \in events : e.action.channel = c}
Archive(c) == {m \in archived : m.channel = c}
Recorded(E) == {e.action : e \in E}

\* Every manifest is read, those of the other channel too, and must be whole
\* and issued by now.
ArchiveReads ==
  /\ \A t \in torn : t.place # "manifest"
  /\ \A m \in archived : m.issued <= now

TornEvent(c) == \E t \in torn : t.place = "event" /\ t.action.channel = c
TornArtifact(b) == \E t \in torn : t.place = "artifact" /\ t.action.build = b

\* Sequences without gaps, each used once.
Contiguous(S) ==
  /\ \A m, n \in S : m.seq = n.seq => m = n
  /\ \A m \in S : \A k \in 1 .. m.seq : \E n \in S : n.seq = k

Latest(E) == CHOOSE e \in E : \A f \in E : f.action.seq <= e.action.seq

EventChain(E) ==
  /\ Contiguous(Recorded(E))
  /\ \A e, f \in E : e.action = f.action => e = f
  /\ \A e \in E : e.recorded <= now /\ e.action.issued <= e.recorded /\ e.active.issued <= now
  /\ \A e \in E : e.action.seq = 1 => e.previous = Nothing
  /\ \A e, f \in E : f.action.seq = e.action.seq + 1 =>
       f.previous = e.active /\ e.recorded <= f.recorded

Matches(state, e) ==
  /\ state.action = e.action
  /\ state.active = e.active
  /\ state.proof = e.proof
  /\ state.recorded = e.recorded

\* The events E lead up to the state.
LeadsTo(E, state, pending) ==
  IF state = Nothing
  THEN E # {} => Latest(E).action.seq = 1 /\ Latest(E).action = pending
  ELSE /\ E # {}
       /\ \/ Matches(state, Latest(E))
          \/ /\ Latest(E).action = pending
             /\ Latest(E).action.seq = state.action.seq + 1
             /\ Latest(E).previous = state.active

\* Fault variant: an interrupted action is not tolerated.
Mut_NothingBeyondStrict(E, A, pending) == Contiguous(A) /\ Recorded(E) = A

\* The archive has nothing beyond the events E, except the pending action.
NothingBeyond(E, A, pending) ==
  /\ Contiguous(A)
  /\ Recorded(E) \subseteq A
  /\ A \ Recorded(E) \subseteq {pending}

\* What a state file rests on is there, and not of the future.
StateStands(state) ==
  state # Nothing =>
    /\ state.activated <= now /\ state.recorded <= now
    /\ state.action.issued <= state.recorded /\ state.active.issued <= now
    /\ {state.action, state.active} \subseteq archived
    /\ state.active.build \in artifacts

CanaryReads ==
  /\ StateStands(chan["canary"])
  /\ EventChain(History("canary")) /\ ~TornEvent("canary")
  /\ ArchiveReads
  /\ NothingBeyond(History("canary"), Archive("canary"), Nothing)
  /\ LeadsTo(History("canary"), chan["canary"], Nothing)

\* The canary promotion that a record of a stable release rests on.
ProofHolds(proof, build) ==
  /\ CanaryReads
  /\ \E e \in History("canary") :
       e.action.kind = "release" /\ Proof(e) = proof /\ e.active.build = build

Proven(c, record) ==
  IF c = "canary" THEN record.proof = Nothing ELSE ProofHolds(record.proof, record.active.build)

StateReads(c, state) == StateStands(state) /\ (state # Nothing => Proven(c, state))

HistoryReads(c, E) == EventChain(E) /\ ~TornEvent(c) /\ \A e \in E : Proven(c, e)

ReadsWith(c, pending) ==
  /\ StateReads(c, chan[c])
  /\ HistoryReads(c, History(c))
  /\ ArchiveReads
  /\ NothingBeyond(History(c), Archive(c), pending)
  /\ LeadsTo(History(c), chan[c], pending)

-----------------------------------------------------------------------------
(* The commands.  Everything before the first write only reads, and but    *)
(* for the verification of the action, whose time is checked again when it *)
(* is recorded, happens under the lock: it is one step.                    *)

NextSequence(c) == IF chan[c] = Nothing THEN 1 ELSE chan[c].action.seq + 1

Activatable(m) == runtime \in Accepts[m.build]

Promotions(c) == {e \in History(c) : e.action.kind = "release"}

\* Fault variant: the version of an earlier promotion may be used again.
Mut_MayPromoteSameVersion(m) ==
  /\ m.kind = "release"
  /\ \A e \in Promotions(m.channel) : e.action # m => Version[e.active.build] <= Version[m.build]
  /\ m.channel = "stable" =>
       CanaryReads /\ \E e \in Promotions("canary") : e.active.build = m.build

MayPromote(m) ==
  /\ m.kind = "release"
  /\ \A e \in Promotions(m.channel) : e.action # m => Version[e.active.build] < Version[m.build]
  /\ m.channel = "stable" =>
       CanaryReads /\ \E e \in Promotions("canary") : e.active.build = m.build

MayRestore(m) ==
  /\ m.kind = "restoration"
  /\ chan[m.channel] # Nothing
  /\ m.target # chan[m.channel].active
  /\ m.build = m.target.build
  /\ m.build \in artifacts
  /\ \E e \in Promotions(m.channel) : e.action = m.target /\ Proven(m.channel, e)

Permitted(m) ==
  /\ m.issued <= now
  /\ m.seq = NextSequence(m.channel)
  /\ Activatable(m)
  /\ ReadsWith(m.channel, m)
  /\ MayPromote(m) \/ MayRestore(m)

ProofFor(m) ==
  IF m.channel = "canary" THEN Nothing
  ELSE IF m.kind = "release"
       THEN Proof(CHOOSE e \in Promotions("canary") : e.active.build = m.build)
       ELSE (CHOOSE e \in Promotions("stable") : e.action = m.target).proof

\* Fault variant: the retry does not look for its earlier event.
Mut_PendingEventForgotten(m) == Nothing

\* The event of an interrupted attempt at m, or Nothing.
PendingEvent(m) ==
  IF m \in Recorded(History(m.channel)) THEN Latest(History(m.channel)) ELSE Nothing

Begin(m) ==
  /\ pc = "idle"
  /\ Permitted(m)
  /\ cmd' = [action |-> m, active |-> IF m.kind = "release" THEN m ELSE m.target,
             current |-> chan[m.channel], proof |-> ProofFor(m), pending |-> PendingEvent(m)]
  /\ pc' = "manifest"
  /\ UNCHANGED <<disk, host, reader, faults>>

ArchiveManifest ==
  /\ pc = "manifest"
  /\ archived' = archived \cup {cmd.action}
  /\ pc' = IF cmd.action.kind = "release" THEN "artifact" ELSE "event"
  /\ UNCHANGED <<artifacts, events, chan, torn, host, cmd, reader, faults>>

\* An artifact that is there is not written again, a torn one is refused.
ArchiveArtifact ==
  /\ pc = "artifact"
  /\ IF TornArtifact(cmd.action.build)
     THEN pc' = "idle" /\ cmd' = Nothing /\ UNCHANGED artifacts
     ELSE /\ artifacts' = artifacts \cup {cmd.action.build}
          /\ pc' = "event" /\ UNCHANGED cmd
  /\ UNCHANGED <<archived, events, chan, torn, host, reader, faults>>

Event(time) ==
  [action |-> cmd.action, active |-> cmd.active, proof |-> cmd.proof, recorded |-> time,
   previous |-> IF cmd.current = Nothing THEN Nothing ELSE cmd.current.active]

Prior == IF cmd.pending = Nothing THEN History(cmd.action.channel) ELSE {}

\* Fault variant: the issuance of the action is not looked at again.
Mut_TimeToRecord ==
  \/ cmd.pending # Nothing
  \/ /\ \A e \in Prior : e.recorded <= now
     /\ cmd.current # Nothing => cmd.current.activated <= now

\* The clock may have moved back since the action was verified, and below
\* the previous event or activation.
TimeToRecord ==
  \/ cmd.pending # Nothing
  \/ /\ cmd.action.issued <= now
     /\ \A e \in Prior : e.recorded <= now
     /\ cmd.current # Nothing => cmd.current.activated <= now

WriteEvent ==
  /\ pc = "event"
  /\ IF TimeToRecord
     THEN /\ events' = events \cup
                 {Event(IF cmd.pending = Nothing THEN now ELSE cmd.pending.recorded)}
          /\ cmd' = [cmd EXCEPT !.pending =
                       Event(IF cmd.pending = Nothing THEN now ELSE cmd.pending.recorded)]
          /\ pc' = "state"
     ELSE /\ pc' = "idle" /\ cmd' = Nothing /\ UNCHANGED events
  /\ UNCHANGED <<archived, artifacts, chan, torn, host, reader, faults>>

TimeToActivate ==
  /\ cmd.pending.recorded <= now
  /\ cmd.current # Nothing => cmd.current.activated <= now

\* The last write; what follows only reads it back.
WriteState ==
  /\ pc = "state"
  /\ chan' = IF TimeToActivate
             THEN [chan EXCEPT ![cmd.action.channel] =
                     [action |-> cmd.action, active |-> cmd.active, proof |-> cmd.proof,
                      recorded |-> cmd.pending.recorded, activated |-> now]]
             ELSE chan
  /\ pc' = "idle" /\ cmd' = Nothing
  /\ UNCHANGED <<archived, artifacts, events, torn, host, reader, faults>>

\* A step fails, which removes the file it has begun, and the lock is freed;
\* or the command dies between two steps and an operator removes its lock.
Interrupt ==
  /\ pc # "idle"
  /\ faults < MaxFaults
  /\ faults' = faults + 1
  /\ pc' = "idle" /\ cmd' = Nothing
  /\ UNCHANGED <<disk, host, reader>>

\* The next step creates a file.
Creates ==
  \/ pc = "manifest" /\ cmd.action \notin archived
  \/ pc = "artifact" /\ cmd.action.build \notin artifacts /\ ~TornArtifact(cmd.action.build)
  \/ pc = "event" /\ cmd.pending = Nothing /\ TimeToRecord

\* The command dies while it writes a file that is created once.
DieWriting ==
  /\ Creates
  /\ faults < MaxFaults
  /\ faults' = faults + 1
  /\ torn' = torn \cup {[place |-> pc, action |-> cmd.action]}
  /\ pc' = "idle" /\ cmd' = Nothing
  /\ UNCHANGED <<files, host, reader>>

-----------------------------------------------------------------------------
(* read_channel_state and read_release_history, without the lock.          *)

ReadState(c) ==
  /\ reader = Nothing
  /\ StateReads(c, chan[c])
  /\ reader' = [channel |-> c, at |-> "history", state |-> chan[c], entries |-> {}]
  /\ UNCHANGED <<disk, host, pc, cmd, faults>>

ReadHistory ==
  /\ reader # Nothing
  /\ reader.at = "history"
  /\ reader' = IF HistoryReads(reader.channel, History(reader.channel))
               THEN [reader EXCEPT !.at = "archive", !.entries = History(reader.channel)]
               ELSE Nothing
  /\ UNCHANGED <<disk, host, pc, cmd, faults>>

\* Fault variant: the archive is not compared.
Mut_ReadReturnsEarly == ArchiveReads /\ LeadsTo(reader.entries, reader.state, Nothing)

ReadReturns ==
  /\ ArchiveReads
  /\ NothingBeyond(reader.entries, Archive(reader.channel), Nothing)
  /\ LeadsTo(reader.entries, reader.state, Nothing)

\* The read returns its state or its entries, or fails.
EndRead ==
  /\ reader # Nothing
  /\ reader.at = "archive"
  /\ reader' = Nothing
  /\ UNCHANGED <<disk, host, pc, cmd, faults>>

-----------------------------------------------------------------------------
(* The host.                                                               *)

Tick ==
  /\ now < MaxTime
  /\ now' = now + 1
  /\ UNCHANGED <<disk, runtime, pc, cmd, reader, faults>>

ClockBack ==
  /\ now > 1 /\ faults < MaxFaults
  /\ now' = now - 1
  /\ faults' = faults + 1
  /\ UNCHANGED <<disk, runtime, pc, cmd, reader>>

\* Another Guardian is installed while no command runs.
Upgrade ==
  /\ pc = "idle"
  /\ runtime < MaxRuntime
  /\ runtime' = runtime + 1
  /\ UNCHANGED <<disk, now, pc, cmd, reader, faults>>

Next ==
  \/ \E m \in Signed : Begin(m)
  \/ ArchiveManifest \/ ArchiveArtifact \/ WriteEvent \/ WriteState
  \/ Interrupt \/ DieWriting
  \/ \E c \in Channels : ReadState(c)
  \/ ReadHistory \/ EndRead
  \/ Tick \/ ClockBack \/ Upgrade

Spec == Init /\ [][Next]_vars

-----------------------------------------------------------------------------
(* Properties.                                                             *)

TypeOK ==
  /\ archived \subseteq Manifests
  /\ artifacts \subseteq Builds
  /\ events \subseteq Events
  /\ chan \in [Channels -> States \cup {Nothing}]
  /\ torn \subseteq TornFiles
  /\ now \in Times /\ runtime \in Runtimes
  /\ pc \in {"idle", "manifest", "artifact", "event", "state"}
  /\ cmd = Nothing <=> pc = "idle"
  /\ faults \in 0 .. MaxFaults

\* The actions of a channel that have not reached its state file.
Pending(c) == {m \in Archive(c) : chan[c] = Nothing \/ chan[c].action.seq < m.seq}

\* The archive, the events and the state of a channel never drift apart by
\* more than the one action that is under way.
ChannelAligned(c) ==
  /\ Contiguous(Archive(c))
  /\ Recorded(History(c)) \subseteq Archive(c)
  /\ \A m, n \in Pending(c) : m = n
  /\ \A e, f \in History(c) : e.action = f.action => e = f
  /\ chan[c] # Nothing => \E e \in History(c) : Matches(chan[c], e)

\* The proof of every stable event is a canary promotion of the same build.
StableProven ==
  \A e \in History("stable") :
    \E f \in History("canary") :
      f.action.kind = "release" /\ Proof(f) = e.proof /\ f.active.build = e.active.build

\* release.py:937-990.  Whatever is interrupted, archive, events and state of
\* a channel stay within one action of each other, no sequence is claimed
\* twice, and no stable event outlives the canary promotion it rests on.
ReleaseInv == TypeOK /\ StableProven /\ \A c \in Channels : ChannelAligned(c)

ClockCaughtUp ==
  /\ \A m \in archived : m.issued <= now
  /\ \A e \in events : e.recorded <= now
  /\ \A c \in Channels : chan[c] # Nothing => chan[c].activated <= now

\* No file that a read of the channel opens is torn.
WholeFiles(c) == ~TornEvent(c) /\ \A t \in torn : t.place # "manifest"

\* release.py:525, 541-569, 960-990, 1110-1229.  Between commands, once the
\* clock has caught up with every issuance and record, a channel without an
\* interrupted action can be read, and an interrupted one is permitted again
\* to exactly its own action, as long as the runtime still admits it and the
\* canary channel can be read.  The exception is a command that has died
\* inside a write: a torn manifest stops both channels for good, a torn event
\* its own channel (that of canary stable too), and a torn artifact lets no
\* promotion of its build past the artifact.
Recoverable ==
  pc = "idle" /\ ClockCaughtUp =>
    \A c \in Channels :
      WholeFiles(c) /\ (c = "stable" => CanaryReads) =>
        /\ Pending(c) = {} => ReadsWith(c, Nothing)
        /\ \A m \in Pending(c) : Activatable(m) => Permitted(m)

\* release.py:785-790, 993-999.  A lock-free reader reads three places one
\* after the other.  When it returns, what it returns is current at that
\* instant and no later action has even been archived.
ReadIsNewest ==
  reader # Nothing /\ reader.at = "archive" /\ ReadReturns =>
    /\ reader.state = chan[reader.channel]
    /\ reader.entries = History(reader.channel)
    /\ Pending(reader.channel) = {}

\* An action has taken effect once the state file names it or a later one.
Applied(c) ==
  [k \in 1 .. NextSequence(c) - 1 |-> CHOOSE m \in Archive(c) : m.seq = k]

Register == INSTANCE ChannelRegister WITH
  Actions <- Signed, applied <- [c \in Channels |-> Applied(c)]

\* release.py:1110-1187.  Through every interruption and retry each channel is
\* a log of actions: versions only rise, stable follows canary, and a
\* restoration returns to what its channel has promoted.
ImplementsRegister == Register!RegisterSpec
=============================================================================
