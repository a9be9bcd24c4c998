------------------------ MODULE ReleaseChannel_proofs ------------------------
(***************************************************************************)
(* Proofs about ReleaseChannel, for every set of builds and signed         *)
(* actions, every clock and every number of interruptions.                 *)
(*                                                                         *)
(* What the files of a channel say is not inductive by itself: an action   *)
(* that was interrupted is completed much later, by a command that judges  *)
(* it anew.  ChannelInv adds that what made an action admissible stays     *)
(* true until the action is applied (Admissible), because nothing else can *)
(* be archived on its channel meanwhile, and CmdInv what the running       *)
(* command has established.                                                *)
(***************************************************************************)
EXTENDS ReleaseChannel, SequenceTheorems, TLAPS

-----------------------------------------------------------------------------
(* The inductive invariant.                                                *)

ActiveOf(m) == IF m.kind = "release" THEN m ELSE m.target

Commands ==
  [action : Signed, active : Releases, current : States \cup {Nothing}, proof : Proofs,
   pending : Events \cup {Nothing}]

Readers ==
  [channel : Channels, at : {"history", "archive"}, state : States \cup {Nothing},
   entries : SUBSET Events]

Types ==
  /\ TypeOK
  /\ cmd \in Commands \cup {Nothing}
  /\ reader \in Readers \cup {Nothing}

\* What made action m permitted, as far as it lasts.
Admissible(m) ==
  LET c == m.channel IN
  /\ m.seq = NextSequence(c)
  /\ m.kind = "release" =>
       /\ \A e \in Promotions(c) : e.action # m => Version[e.active.build] < Version[m.build]
       /\ c = "stable" =>
            \E e \in Promotions("canary") :
              e.active.build = m.build /\ e.action.seq < NextSequence("canary")
  /\ m.kind = "restoration" =>
       /\ chan[c] # Nothing /\ m.target # chan[c].active
       /\ m.build = m.target.build /\ m.build \in artifacts
       /\ \E e \in Promotions(c) : e.action = m.target

\* The proof that an event of action m has to carry.
ProofOk(m, proof) ==
  IF m.channel = "canary" THEN proof = Nothing
  ELSE IF m.kind = "release"
    THEN \E f \in Promotions("canary") : f.active.build = m.build /\ proof = Proof(f)
  ELSE \E g \in Promotions("stable") : g.action = m.target /\ proof = g.proof

\* The archive: one action per sequence, at most one beyond the state.
ArchiveInv(c) ==
  /\ \A m, n \in Archive(c) : m.seq = n.seq => m = n
  /\ \A m \in Archive(c) : m.seq <= NextSequence(c)
  /\ \A m \in Archive(c) : m.seq = NextSequence(c) => Admissible(m)

\* The events: a chain of archived actions that the state is a link of.
HistoryInv(c) ==
  /\ \A e, f \in History(c) : e.action = f.action => e = f
  /\ \A e \in History(c) : e.action \in archived
  /\ \A k \in 1 .. NextSequence(c) - 1 : \E e \in History(c) : e.action.seq = k
  /\ chan[c] # Nothing => \E e \in History(c) : Matches(chan[c], e)
  /\ \A e \in History(c) : e.action.seq = 1 => e.previous = Nothing
  /\ \A e, f \in History(c) : f.action.seq = e.action.seq + 1 =>
       f.previous = e.active /\ e.recorded <= f.recorded

\* What an event says of its action.
EventsInv(c) ==
  /\ \A e \in History(c) :
       /\ e.active = ActiveOf(e.action) /\ e.active \in archived
       /\ e.active.build = e.action.build /\ e.active.build \in artifacts
       /\ ProofOk(e.action, e.proof)
       /\ e.action.issued <= e.recorded
  /\ \A e, f \in Promotions(c) :
       e.action.seq < f.action.seq => Version[e.active.build] < Version[f.active.build]

ChannelInv(c) == ArchiveInv(c) /\ HistoryInv(c) /\ EventsInv(c)

CmdInv ==
  pc # "idle" =>
    LET m == cmd.action
        c == m.channel
    IN
    /\ cmd.active = ActiveOf(m) /\ cmd.current = chan[c]
    /\ Admissible(m) /\ ProofOk(m, cmd.proof)
    /\ \A n \in Archive(c) : n.seq = m.seq => n = m
    /\ IF cmd.pending = Nothing THEN m \notin Recorded(History(c))
       ELSE cmd.pending \in History(c) /\ cmd.pending.action = m
    /\ pc # "manifest" => m \in archived
    /\ pc \in {"event", "state"} => m.build \in artifacts
    /\ pc = "state" => cmd.pending # Nothing

\* A reader has read what was current, and only older things since.
ReaderInv ==
  reader # Nothing =>
    LET c == reader.channel IN
    /\ reader.state # Nothing =>
         /\ chan[c] # Nothing
         /\ chan[c] = reader.state \/ reader.state.action.seq < chan[c].action.seq
    /\ reader.at = "archive" => reader.entries \subseteq History(c)

IInv == Types /\ (\A c \in Channels : ChannelInv(c)) /\ CmdInv /\ ReaderInv

-----------------------------------------------------------------------------
(* The documents.                                                          *)

LEMMA NothingIsNone == \A x : "action" \in DOMAIN x \/ "kind" \in DOMAIN x
                                \/ "recorded" \in DOMAIN x \/ "at" \in DOMAIN x => x # Nothing
<1>1. DOMAIN Nothing = {"none"}
  BY DEF Nothing
<1> QED
  BY <1>1

LEMMA ReleaseFields ==
  ASSUME NEW m \in Releases
  PROVE  /\ m.kind = "release" /\ m.channel \in Channels /\ m.seq \in 1 .. MaxSeq
         /\ m.build \in Builds /\ m.issued \in Times /\ m # Nothing
<1>1. m \in [kind : {"release"}, channel : Channels, seq : 1 .. MaxSeq, build : Builds,
             issued : Times, target : {Nothing}]
  BY DEF Releases
<1>2. "kind" \in DOMAIN m
  BY <1>1
<1> QED
  BY <1>1, <1>2, NothingIsNone

LEMMA ManifestFields ==
  ASSUME NEW m \in Manifests
  PROVE  /\ m.kind \in {"release", "restoration"} /\ m.channel \in Channels
         /\ m.seq \in 1 .. MaxSeq /\ m.seq \in Nat /\ m.build \in Builds /\ m # Nothing
         /\ m.issued \in Times /\ m.issued \in Int
         /\ m.kind = "release" => m \in Releases
         /\ m.kind = "restoration" => m.target \in Releases
         /\ ActiveOf(m) \in Releases
<1>0. MaxSeq \in Nat /\ \A t \in Times : t \in Int
  BY BoundsAssumption DEF Times
<1>1. CASE m \in Releases
  BY <1>0, <1>1, ReleaseFields DEF ActiveOf
<1>2. CASE m \in Restorations
  <2>1. m \in [kind : {"restoration"}, channel : Channels, seq : 1 .. MaxSeq, build : Builds,
               issued : Times, target : Releases]
    BY <1>2 DEF Restorations
  <2>2. "kind" \in DOMAIN m
    BY <2>1
  <2> QED
    BY <1>0, <2>1, <2>2, NothingIsNone DEF ActiveOf
<1> QED
  BY <1>1, <1>2 DEF Manifests

LEMMA EventFields ==
  ASSUME NEW e \in Events
  PROVE  /\ e.action \in Manifests /\ e.active \in Releases
         /\ e.previous \in Releases \cup {Nothing} /\ e.proof \in Proofs
         /\ e.recorded \in Times /\ e.recorded \in Int /\ e # Nothing
         /\ e = [action |-> e.action, active |-> e.active, previous |-> e.previous,
                 proof |-> e.proof, recorded |-> e.recorded]
<1>1. "action" \in DOMAIN e
  BY DEF Events
<1>2. e.recorded \in Int
  BY BoundsAssumption DEF Events, Times
<1> QED
  BY <1>1, <1>2, NothingIsNone DEF Events

LEMMA StateFields ==
  ASSUME NEW s \in States
  PROVE  /\ s.action \in Manifests /\ s.active \in Releases /\ s.proof \in Proofs
         /\ s.recorded \in Times /\ s.activated \in Times /\ s # Nothing
<1>1. "action" \in DOMAIN s
  BY DEF States
<1> QED
  BY <1>1, NothingIsNone DEF States

LEMMA CommandFields ==
  ASSUME NEW k \in Commands
  PROVE  /\ k.action \in Signed /\ k.active \in Releases
         /\ k.current \in States \cup {Nothing} /\ k.proof \in Proofs
         /\ k.pending \in Events \cup {Nothing} /\ k # Nothing
<1>1. "action" \in DOMAIN k
  BY DEF Commands
<1> QED
  BY <1>1, NothingIsNone DEF Commands

LEMMA ReaderFields ==
  ASSUME NEW r \in Readers
  PROVE  /\ r.channel \in Channels /\ r.at \in {"history", "archive"}
         /\ r.state \in States \cup {Nothing} /\ r.entries \subseteq Events /\ r # Nothing
<1>1. "at" \in DOMAIN r
  BY DEF Readers
<1> QED
  BY <1>1, NothingIsNone DEF Readers

LEMMA SignedFields == ASSUME NEW m \in Signed PROVE m \in Manifests
  BY SignedAssumption

LEMMA EventProof ==
  ASSUME NEW e \in Events, e.action \in Releases
  PROVE  Proof(e) \in Proofs
  BY EventFields DEF Proof, Proofs

-----------------------------------------------------------------------------
(* What the files of a channel are.                                        *)

LEMMA HistoryType ==
  ASSUME Types, NEW c \in Channels, NEW e \in History(c)
  PROVE  e \in Events /\ e.action \in Manifests /\ e.action.channel = c /\ e \in events
  BY EventFields DEF Types, TypeOK, History

LEMMA ArchiveType ==
  ASSUME Types, NEW c \in Channels, NEW m \in Archive(c)
  PROVE  m \in Manifests /\ m.channel = c /\ m \in archived
  BY DEF Types, TypeOK, Archive

LEMMA StateType ==
  ASSUME Types, NEW c \in Channels
  PROVE  /\ chan[c] # Nothing => chan[c] \in States
         /\ NextSequence(c) \in Nat \ {0}
         /\ chan[c] # Nothing => NextSequence(c) = chan[c].action.seq + 1
                                 /\ chan[c].action.seq \in Nat \ {0}
         /\ chan[c] = Nothing => NextSequence(c) = 1
<1>1. chan[c] # Nothing => chan[c] \in States
  BY DEF Types, TypeOK
<1>2. chan[c] # Nothing => chan[c].action.seq \in 1 .. MaxSeq
  BY <1>1, StateFields, ManifestFields
<1> QED
  BY <1>1, <1>2, BoundsAssumption DEF NextSequence

LEMMA RecordedIsArchived ==
  ASSUME Types, NEW c \in Channels, HistoryInv(c), NEW e \in History(c)
  PROVE  e.action \in Archive(c) /\ e.action \in Recorded(History(c))
  BY HistoryType DEF HistoryInv, Archive, Recorded

\* An archived action is recorded or is the next one.
LEMMA ArchivedIsRecorded ==
  ASSUME Types, NEW c \in Channels, ChannelInv(c), NEW m \in Archive(c)
  PROVE  m.seq = NextSequence(c) \/ \E e \in History(c) : e.action = m
<1>1. m.seq \in 1 .. MaxSeq /\ m.seq \in Nat
  BY ArchiveType, ManifestFields
<1>2. CASE m.seq < NextSequence(c)
  <2>1. m.seq \in 1 .. NextSequence(c) - 1
    BY <1>1, <1>2, StateType, BoundsAssumption
  <2>2. PICK e \in History(c) : e.action.seq = m.seq
    BY <2>1 DEF ChannelInv, HistoryInv
  <2>3. e.action \in Archive(c)
    BY RecordedIsArchived DEF ChannelInv
  <2> QED
    BY <2>2, <2>3 DEF ChannelInv, ArchiveInv
<1>3. m.seq <= NextSequence(c)
  BY DEF ChannelInv, ArchiveInv
<1> QED
  BY <1>1, <1>2, <1>3, StateType

\* The event of a sequence is one.
LEMMA OneEvent ==
  ASSUME Types, NEW c \in Channels, ChannelInv(c), NEW e \in History(c), NEW f \in History(c),
         e.action.seq = f.action.seq
  PROVE  e = f
<1>1. e.action \in Archive(c) /\ f.action \in Archive(c)
  BY RecordedIsArchived DEF ChannelInv
<1> QED
  BY <1>1 DEF ChannelInv, ArchiveInv, HistoryInv

LEMMA EventSequence ==
  ASSUME Types, NEW c \in Channels, ChannelInv(c), NEW e \in History(c)
  PROVE  e.action.seq \in Nat \ {0} /\ e.action.seq <= NextSequence(c)
<1>1. e.action \in Archive(c) /\ e.action.seq \in 1 .. MaxSeq
  BY RecordedIsArchived, HistoryType, ManifestFields DEF ChannelInv
<1> QED
  BY <1>1, BoundsAssumption DEF ChannelInv, ArchiveInv

\* The newest event is that of the next action or the state's.
LEMMA LatestEvent ==
  ASSUME Types, NEW c \in Channels, ChannelInv(c), History(c) # {}
  PROVE  LET l == Latest(History(c)) IN
         /\ l \in History(c) /\ \A f \in History(c) : f.action.seq <= l.action.seq
         /\ \/ l.action.seq = NextSequence(c)
            \/ chan[c] # Nothing /\ Matches(chan[c], l)
<1> DEFINE IsLast(e) == \A f \in History(c) : f.action.seq <= e.action.seq
<1>1. CASE \E e \in History(c) : e.action.seq = NextSequence(c)
  <2>1. PICK e \in History(c) : e.action.seq = NextSequence(c)
    BY <1>1
  <2>2. IsLast(e)
    BY <2>1, EventSequence
  <2>3. Latest(History(c)) \in History(c) /\ IsLast(Latest(History(c)))
    BY <2>2 DEF Latest
  <2>4. Latest(History(c)).action.seq = e.action.seq
    <3>1. PICK l : l = Latest(History(c))
      OBVIOUS
    <3>2. l.action.seq <= e.action.seq /\ e.action.seq <= l.action.seq
      BY <2>2, <2>3, <3>1
    <3>3. l.action.seq \in Nat /\ e.action.seq \in Nat
      BY <2>3, <3>1, EventSequence
    <3> QED
      BY <3>1, <3>2, <3>3
  <2> QED
    BY <2>1, <2>3, <2>4
<1>2. CASE \A e \in History(c) : e.action.seq # NextSequence(c)
  <2>1. \A e \in History(c) : e.action.seq < NextSequence(c) /\ e.action.seq \in Nat \ {0}
    BY <1>2, EventSequence, StateType
  <2>2. chan[c] # Nothing
    BY <2>1, StateType
  <2>3. PICK s \in History(c) : Matches(chan[c], s)
    BY <2>2 DEF ChannelInv, HistoryInv
  <2>4. s.action.seq = NextSequence(c) - 1
    BY <2>2, <2>3, StateType DEF Matches
  <2>5. IsLast(s)
    BY <2>1, <2>4, StateType
  <2>6. PICK l : l = Latest(History(c)) /\ l \in History(c) /\ IsLast(l)
    BY <2>5 DEF Latest
  <2>7. l.action.seq = s.action.seq
    BY <2>1, <2>5, <2>6
  <2>8. l = s
    BY <2>6, <2>7, OneEvent
  <2> QED
    BY <2>2, <2>3, <2>6, <2>8
<1> QED
  BY <1>1, <1>2

-----------------------------------------------------------------------------
(* What a step keeps.                                                      *)

LEMMA SameFiles ==
  ASSUME UNCHANGED files, NEW c \in Channels
  PROVE  /\ History(c)' = History(c) /\ Archive(c)' = Archive(c)
         /\ Promotions(c)' = Promotions(c) /\ NextSequence(c)' = NextSequence(c)
         /\ chan[c]' = chan[c]
  BY DEF files, History, Archive, Promotions, NextSequence

LEMMA MoreEvents ==
  ASSUME events \subseteq events', NEW c \in Channels
  PROVE  History(c) \subseteq History(c)' /\ Promotions(c) \subseteq Promotions(c)'
  BY DEF History, Promotions

\* A proof stays a proof.
LEMMA ProofStays ==
  ASSUME events \subseteq events', NEW m, NEW p, ProofOk(m, p)
  PROVE  ProofOk(m, p)'
<1>1. Promotions("canary") \subseteq Promotions("canary")'
  BY MoreEvents DEF Channels
<1>2. Promotions("stable") \subseteq Promotions("stable")'
  BY MoreEvents DEF Channels
<1> QED
  BY <1>1, <1>2 DEF ProofOk

\* What made an action admissible lasts until the action is applied.
LEMMA AdmissibleStays ==
  ASSUME Types, NEW m \in Manifests, Admissible(m),
         events \subseteq events', artifacts \subseteq artifacts',
         chan[m.channel]' = chan[m.channel],
         NextSequence("canary") <= NextSequence("canary")', NextSequence("canary")' \in Nat,
         \A e \in Promotions(m.channel)' : e \in Promotions(m.channel) \/ e.action = m
  PROVE  Admissible(m)'
<1> DEFINE c == m.channel
<1>1. c \in Channels /\ "canary" \in Channels
  BY ManifestFields DEF Channels
<1>2. NextSequence(c)' = NextSequence(c)
  BY DEF NextSequence
<1>3. Promotions(c) \subseteq Promotions(c)' /\ Promotions("canary") \subseteq Promotions("canary")'
  BY <1>1, MoreEvents
<1>4. ASSUME m.kind = "release"
      PROVE  \A e \in Promotions(c)' : e.action # m => Version[e.active.build] < Version[m.build]
  BY <1>4 DEF Admissible
<1>5. ASSUME m.kind = "release", c = "stable"
      PROVE  \E e \in Promotions("canary")' :
               e.active.build = m.build /\ e.action.seq < NextSequence("canary")'
  <2>1. PICK e \in Promotions("canary") :
               e.active.build = m.build /\ e.action.seq < NextSequence("canary")
    BY <1>5 DEF Admissible
  <2>2. e.action.seq \in Nat
    BY <1>1, <2>1, HistoryType, ManifestFields DEF Promotions
  <2>3. e.action.seq < NextSequence("canary")'
    BY <1>1, <2>1, <2>2, StateType
  <2> QED
    BY <1>3, <2>1, <2>3
<1>6. ASSUME m.kind = "restoration"
      PROVE  /\ chan[c]' # Nothing /\ m.target # (chan[c]').active
             /\ m.build = m.target.build /\ m.build \in artifacts'
             /\ \E e \in Promotions(c)' : e.action = m.target
  BY <1>3, <1>6 DEF Admissible
<1> QED
  BY <1>2, <1>4, <1>5, <1>6 DEF Admissible

\* Steps that write no file of the channels keep what the files are.
LEMMA FilesStay ==
  ASSUME UNCHANGED files, NEW c \in Channels, ChannelInv(c)
  PROVE  ChannelInv(c)'
<1> USE SameFiles
<1>1. \A m : Admissible(m)' <=> Admissible(m)
  BY DEF files, Admissible, NextSequence, Promotions, History
<1>2. \A m, p : ProofOk(m, p)' <=> ProofOk(m, p)
  BY DEF files, ProofOk, Promotions, History
<1>3. ArchiveInv(c)'
  BY <1>1 DEF ChannelInv, ArchiveInv
<1>4. HistoryInv(c)'
  BY DEF ChannelInv, HistoryInv, files
<1>5. EventsInv(c)'
  BY <1>2 DEF ChannelInv, EventsInv, files
<1> QED
  BY <1>3, <1>4, <1>5 DEF ChannelInv

-----------------------------------------------------------------------------
(* Promotions.                                                             *)

LEMMA PromotionType ==
  ASSUME Types, NEW c \in Channels, NEW e \in Promotions(c)
  PROVE  /\ e \in History(c) /\ e \in Events /\ e.action \in Releases
         /\ e.action.channel = c /\ e.active \in Releases
  BY HistoryType, EventFields, ManifestFields DEF Promotions

\* A build is promoted once on a channel.
LEMMA OnePromotion ==
  ASSUME Types, NEW c \in Channels, ChannelInv(c), NEW e \in Promotions(c), NEW f \in Promotions(c),
         e.active.build = f.active.build
  PROVE  e = f
<1>1. e \in History(c) /\ f \in History(c) /\ e.active.build \in Builds
  BY PromotionType, ReleaseFields
<1>2. e.action.seq \in Nat /\ f.action.seq \in Nat
  BY <1>1, EventSequence
<1>3. Version[e.active.build] \in Nat
  BY <1>1, BuildsAssumption
<1>4. ~(e.action.seq < f.action.seq) /\ ~(f.action.seq < e.action.seq)
  BY <1>3 DEF ChannelInv, EventsInv
<1> QED
  BY <1>1, <1>2, <1>4, OneEvent

\* An action has one proof.
LEMMA OneProof ==
  ASSUME Types, \A c \in Channels : ChannelInv(c), NEW m, NEW p, NEW q,
         ProofOk(m, p), ProofOk(m, q)
  PROVE  p = q
<1>1. "canary" \in Channels /\ "stable" \in Channels
  BY DEF Channels
<1>2. CASE m.channel = "canary"
  BY <1>2 DEF ProofOk
<1>3. CASE m.channel # "canary" /\ m.kind = "release"
  BY <1>1, <1>3, OnePromotion DEF ProofOk
<1>4. CASE m.channel # "canary" /\ m.kind # "release"
  <2>1. PICK e \in Promotions("stable") : e.action = m.target /\ p = e.proof
    BY <1>4 DEF ProofOk
  <2>2. PICK f \in Promotions("stable") : f.action = m.target /\ q = f.proof
    BY <1>4 DEF ProofOk
  <2>3. e = f
    BY <1>1, <2>1, <2>2, PromotionType, OneEvent
  <2> QED
    BY <2>1, <2>2, <2>3
<1> QED
  BY <1>2, <1>3, <1>4

\* Where the newest event is that of an action with the next sequence.
LEMMA NextRecorded ==
  ASSUME Types, NEW c \in Channels, ChannelInv(c), NEW e \in History(c),
         e.action.seq = NextSequence(c)
  PROVE  Latest(History(c)) = e
<1>1. PICK l : l = Latest(History(c))
  OBVIOUS
<1>2. l \in History(c) /\ e.action.seq <= l.action.seq
  BY <1>1, LatestEvent
<1>3. l.action.seq \in Nat /\ l.action.seq <= NextSequence(c)
  BY <1>2, EventSequence
<1>4. e.action.seq \in Nat
  BY EventSequence
<1>5. l.action.seq = e.action.seq
  BY <1>2, <1>3, <1>4
<1> QED
  BY <1>1, <1>2, <1>5, OneEvent

\* A channel that can be read with pending action p records nothing else
\* beyond its state.
LEMMA OnlyPending ==
  ASSUME Types, NEW c \in Channels, ChannelInv(c), NEW p, LeadsTo(History(c), chan[c], p),
         NEW e \in History(c), e.action.seq = NextSequence(c)
  PROVE  e.action = p
<1>1. Latest(History(c)) = e
  BY NextRecorded
<1>2. chan[c] # Nothing => ~Matches(chan[c], e)
  BY StateType DEF Matches
<1> QED
  BY <1>1, <1>2 DEF LeadsTo

-----------------------------------------------------------------------------
(* Beginning a command.                                                    *)

LEMMA BeginAdmissible ==
  ASSUME Types, \A c \in Channels : ChannelInv(c), NEW m \in Manifests, Permitted(m)
  PROVE  Admissible(m)
<1>1. "canary" \in Channels /\ m.channel \in Channels
  BY ManifestFields DEF Channels
<1>2. CASE MayPromote(m)
  <2>1. ASSUME m.channel = "stable"
        PROVE  \E e \in Promotions("canary") :
                 e.active.build = m.build /\ e.action.seq < NextSequence("canary")
    <3>1. PICK e \in Promotions("canary") : e.active.build = m.build
      BY <1>2, <2>1 DEF MayPromote
    <3>2. e \in History("canary") /\ e.action \in Manifests /\ e.action # Nothing
      BY <1>1, <3>1, PromotionType, HistoryType, ManifestFields
    <3>3. LeadsTo(History("canary"), chan["canary"], Nothing)
      BY <1>2, <2>1 DEF MayPromote, CanaryReads
    <3>4. e.action.seq # NextSequence("canary")
      BY <1>1, <3>2, <3>3, OnlyPending
    <3>5. e.action.seq \in Nat /\ e.action.seq <= NextSequence("canary")
      BY <1>1, <3>2, EventSequence
    <3> QED
      BY <1>1, <3>1, <3>4, <3>5, StateType
  <2>2. /\ m.kind = "release" /\ m.seq = NextSequence(m.channel)
        /\ \A e \in Promotions(m.channel) : e.action # m => Version[e.active.build] < Version[m.build]
    BY <1>2 DEF MayPromote, Permitted
  <2> QED
    BY <2>1, <2>2 DEF Admissible
<1>3. CASE MayRestore(m)
  <2>1. /\ m.kind = "restoration" /\ m.seq = NextSequence(m.channel)
        /\ chan[m.channel] # Nothing /\ m.target # chan[m.channel].active
        /\ m.build = m.target.build /\ m.build \in artifacts
        /\ \E e \in Promotions(m.channel) : e.action = m.target
    BY <1>3 DEF MayRestore, Permitted
  <2> QED
    BY <2>1 DEF Admissible
<1> QED
  BY <1>2, <1>3 DEF Permitted

LEMMA BeginProof ==
  ASSUME Types, NEW m \in Manifests, Permitted(m)
  PROVE  ProofOk(m, ProofFor(m)) /\ ProofFor(m) \in Proofs
<1>1. "canary" \in Channels /\ "stable" \in Channels
  BY DEF Channels
<1>2. CASE m.channel = "canary"
  BY <1>2 DEF ProofFor, ProofOk, Proofs
<1>3. CASE m.channel # "canary" /\ MayPromote(m)
  <2>1. m.channel = "stable" /\ m.kind = "release"
    BY <1>3, ManifestFields DEF MayPromote, Channels
  <2>2. PICK f : f = CHOOSE e \in Promotions("canary") : e.active.build = m.build
    OBVIOUS
  <2>3. f \in Promotions("canary") /\ f.active.build = m.build
    BY <1>3, <2>1, <2>2 DEF MayPromote
  <2>4. ProofFor(m) = Proof(f)
    BY <2>1, <2>2 DEF ProofFor
  <2> QED
    BY <1>1, <2>1, <2>3, <2>4, PromotionType, EventProof DEF ProofOk
<1>4. CASE m.channel # "canary" /\ MayRestore(m)
  <2>1. m.channel = "stable" /\ m.kind # "release"
    BY <1>4, ManifestFields DEF MayRestore, Channels
  <2>2. PICK g : g = CHOOSE e \in Promotions("stable") : e.action = m.target
    OBVIOUS
  <2>3. g \in Promotions("stable") /\ g.action = m.target
    BY <1>4, <2>1, <2>2 DEF MayRestore
  <2>4. ProofFor(m) = g.proof
    BY <2>1, <2>2 DEF ProofFor
  <2> QED
    BY <1>1, <2>1, <2>3, <2>4, PromotionType, EventFields DEF ProofOk
<1> QED
  BY <1>2, <1>3, <1>4 DEF Permitted

\* What a command may begin with: no rival is archived, and an event of the
\* action is the newest.
LEMMA BeginAlone ==
  ASSUME Types, \A c \in Channels : ChannelInv(c), NEW m \in Manifests, Permitted(m)
  PROVE  /\ \A n \in Archive(m.channel) : n.seq = m.seq => n = m
         /\ IF PendingEvent(m) = Nothing THEN m \notin Recorded(History(m.channel))
            ELSE /\ PendingEvent(m) \in History(m.channel)
                 /\ PendingEvent(m).action = m
         /\ PendingEvent(m) \in Events \cup {Nothing}
<1> DEFINE c == m.channel
<1>1. c \in Channels /\ ChannelInv(c) /\ m.seq = NextSequence(c)
  BY ManifestFields DEF Permitted
<1>2. LeadsTo(History(c), chan[c], m) /\ NothingBeyond(History(c), Archive(c), m)
  BY DEF Permitted, ReadsWith
<1>3. ASSUME NEW n \in Archive(c), n.seq = m.seq
      PROVE  n = m
  <2>1. CASE n \in Recorded(History(c))
    <3>1. PICK e \in History(c) : e.action = n
      BY <2>1 DEF Recorded
    <3> QED
      BY <1>1, <1>2, <1>3, <3>1, OnlyPending
  <2> QED
    BY <1>2, <2>1 DEF NothingBeyond
<1>4. ASSUME m \in Recorded(History(c))
      PROVE  /\ PendingEvent(m) \in History(c) /\ PendingEvent(m).action = m
             /\ PendingEvent(m) \in Events /\ PendingEvent(m) # Nothing
  <2>1. PICK e \in History(c) : e.action = m
    BY <1>4 DEF Recorded
  <2>2. Latest(History(c)) = e
    BY <1>1, <2>1, NextRecorded
  <2> QED
    BY <1>1, <1>4, <2>1, <2>2, HistoryType, EventFields DEF PendingEvent
<1>5. m \notin Recorded(History(c)) => PendingEvent(m) = Nothing
  BY DEF PendingEvent
<1> QED
  BY <1>3, <1>4, <1>5

LEMMA BeginKeeps ==
  ASSUME IInv, NEW m \in Signed, Begin(m)
  PROVE  IInv'
<1>1. Types /\ (\A c \in Channels : ChannelInv(c)) /\ Permitted(m) /\ UNCHANGED <<files, torn>>
  BY DEF IInv, Begin, disk
<1>2. m \in Manifests /\ m.channel \in Channels /\ ActiveOf(m) \in Releases
  BY SignedFields, ManifestFields
<1> DEFINE c == m.channel
<1>3. PICK k : k = [action |-> m, active |-> ActiveOf(m), current |-> chan[c],
                    proof |-> ProofFor(m), pending |-> PendingEvent(m)]
  OBVIOUS
<1>4. cmd' = k /\ pc' = "manifest"
  BY <1>3 DEF Begin, ActiveOf
<1>5. k \in Commands /\ k # Nothing
  <2>1. chan[c] \in States \cup {Nothing}
    BY <1>1, <1>2 DEF Types, TypeOK
  <2>2. k \in Commands
    BY <1>1, <1>2, <1>3, <2>1, BeginProof, BeginAlone DEF Commands
  <2> QED
    BY <2>2, CommandFields
<1>6. Types'
  BY <1>1, <1>4, <1>5 DEF Begin, Types, TypeOK, files, host
<1>7. \A d \in Channels : ChannelInv(d)'
  BY <1>1, FilesStay
<1>8. CmdInv'
  <2>1. Admissible(m) /\ ProofOk(m, k.proof)
    BY <1>1, <1>2, <1>3, BeginAdmissible, BeginProof
  <2>2. Admissible(m)' /\ ProofOk(m, k.proof)'
    BY <1>1, <2>1 DEF files, Admissible, ProofOk, NextSequence, Promotions, History
  <2>3. History(c)' = History(c) /\ Archive(c)' = Archive(c) /\ chan[c]' = chan[c]
    BY <1>1, <1>2, SameFiles
  <2>4. /\ \A n \in Archive(c) : n.seq = m.seq => n = m
        /\ IF k.pending = Nothing THEN m \notin Recorded(History(c))
           ELSE k.pending \in History(c) /\ k.pending.action = m
    BY <1>1, <1>2, <1>3, BeginAlone
  <2>5. k.action = m /\ k.active = ActiveOf(m) /\ k.current = chan[c]
    BY <1>3
  <2> QED
    BY <1>4, <2>2, <2>3, <2>4, <2>5 DEF CmdInv, Recorded
<1>9. ReaderInv'
  <2>1. reader' = reader /\ ReaderInv
    BY DEF Begin, IInv
  <2> QED
    BY <1>1, <2>1 DEF ReaderInv, files, History
<1> QED
  BY <1>6, <1>7, <1>8, <1>9 DEF IInv

-----------------------------------------------------------------------------
(* The writes of a command.                                                *)

\* What is known while a command runs.
LEMMA Running ==
  ASSUME IInv, pc # "idle"
  PROVE  /\ cmd \in Commands /\ cmd.action \in Signed /\ cmd.action \in Manifests
         /\ cmd.action.channel \in Channels /\ cmd.action.seq = NextSequence(cmd.action.channel)
         /\ cmd.active = ActiveOf(cmd.action) /\ cmd.current = chan[cmd.action.channel]
         /\ cmd.active \in Releases /\ cmd.proof \in Proofs
         /\ cmd.pending \in Events \cup {Nothing}
         /\ Admissible(cmd.action) /\ ProofOk(cmd.action, cmd.proof)
<1>1. cmd \in Commands
  BY DEF IInv, Types, TypeOK
<1>2. cmd.action \in Manifests /\ cmd.action.channel \in Channels
  BY <1>1, CommandFields, SignedFields, ManifestFields
<1>3. /\ cmd.active = ActiveOf(cmd.action) /\ cmd.current = chan[cmd.action.channel]
      /\ Admissible(cmd.action) /\ ProofOk(cmd.action, cmd.proof)
  BY DEF IInv, CmdInv
<1>4. cmd.action.seq = NextSequence(cmd.action.channel)
  BY <1>3 DEF Admissible
<1> QED
  BY <1>1, <1>2, <1>3, <1>4, CommandFields

LEMMA ArchiveManifestKeeps ==
  ASSUME IInv, ArchiveManifest
  PROVE  IInv'
<1>0. PICK m : m = cmd.action
  OBVIOUS
<1> DEFINE c == m.channel
<1>1. Types /\ (\A d \in Channels : ChannelInv(d)) /\ CmdInv /\ ReaderInv
  BY DEF IInv
<1>2. /\ pc = "manifest" /\ archived' = archived \cup {m} /\ cmd' = cmd
      /\ pc' = IF m.kind = "release" THEN "artifact" ELSE "event"
      /\ UNCHANGED <<artifacts, events, chan, torn, host, reader, faults>>
  BY <1>0 DEF ArchiveManifest
<1>3. m \in Manifests /\ c \in Channels /\ m.seq = NextSequence(c) /\ Admissible(m)
  BY <1>0, <1>2, Running
<1>4. \A d \in Channels : /\ History(d)' = History(d) /\ Promotions(d)' = Promotions(d)
                          /\ NextSequence(d)' = NextSequence(d) /\ chan[d]' = chan[d]
  BY <1>2 DEF History, Promotions, NextSequence
<1>5. \A n : Admissible(n)' <=> Admissible(n)
  BY <1>2 DEF Admissible, NextSequence, Promotions, History
<1>6. \A n, p : ProofOk(n, p)' <=> ProofOk(n, p)
  BY <1>2 DEF ProofOk, Promotions, History
<1>7. \A d \in Channels : Archive(d)' = IF d = c THEN Archive(d) \cup {m} ELSE Archive(d)
  BY <1>2 DEF Archive
<1>8. \A n \in Archive(c) : n.seq = m.seq => n = m
  BY <1>0, <1>1, <1>2 DEF CmdInv
<1>9. Types'
  BY <1>1, <1>2, <1>3 DEF Types, TypeOK, host
<1>10. ASSUME NEW d \in Channels PROVE ChannelInv(d)'
  <2>1. ArchiveInv(d) /\ HistoryInv(d) /\ EventsInv(d)
    BY <1>1 DEF ChannelInv
  <2>2. ArchiveInv(d)'
    <3>1. CASE d # c
      BY <1>4, <1>5, <1>7, <2>1, <3>1 DEF ArchiveInv
    <3>2. CASE d = c
      <4>1. Archive(c)' = Archive(c) \cup {m} /\ m.seq <= NextSequence(c)
        BY <1>3, <1>7, <3>2, <1>1, StateType
      <4> QED
        BY <1>3, <1>4, <1>5, <1>8, <2>1, <3>2, <4>1 DEF ArchiveInv
    <3> QED
      BY <3>1, <3>2
  <2>3. HistoryInv(d)'
    BY <1>2, <1>4, <2>1 DEF HistoryInv
  <2>4. EventsInv(d)'
    BY <1>2, <1>4, <1>6, <2>1 DEF EventsInv
  <2> QED
    BY <2>2, <2>3, <2>4 DEF ChannelInv
<1>11. CmdInv'
  <2>1. Archive(c)' = Archive(c) \cup {m}
    BY <1>3, <1>7
  <2>2. m.kind # "release" => m.build \in artifacts
    BY <1>3, ManifestFields DEF Admissible
  <2>3. Recorded(History(c))' = Recorded(History(c))
    BY <1>3, <1>4 DEF Recorded
  <2> QED
    BY <1>0, <1>1, <1>2, <1>3, <1>4, <1>5, <1>6, <1>8, <2>1, <2>2, <2>3 DEF CmdInv
<1>12. ReaderInv'
  BY <1>1, <1>2 DEF ReaderInv, History
<1> QED
  BY <1>9, <1>10, <1>11, <1>12 DEF IInv

LEMMA ArtifactKeeps ==
  ASSUME IInv, ArchiveArtifact, ~TornArtifact(cmd.action.build)
  PROVE  IInv'
<1>0. PICK m : m = cmd.action
  OBVIOUS
<1> DEFINE c == m.channel
<1>1. Types /\ (\A d \in Channels : ChannelInv(d)) /\ CmdInv /\ ReaderInv
  BY DEF IInv
<1>2. /\ pc = "artifact" /\ artifacts' = artifacts \cup {m.build} /\ cmd' = cmd
      /\ pc' = "event"
      /\ UNCHANGED <<archived, events, chan, torn, host, reader, faults>>
  BY <1>0 DEF ArchiveArtifact
<1>3. m \in Manifests /\ c \in Channels /\ m.build \in Builds
  BY <1>0, <1>2, Running, ManifestFields
<1>4. \A d \in Channels : /\ History(d)' = History(d) /\ Promotions(d)' = Promotions(d)
                          /\ NextSequence(d)' = NextSequence(d) /\ chan[d]' = chan[d]
                          /\ Archive(d)' = Archive(d)
  BY <1>2 DEF History, Promotions, NextSequence, Archive
<1>5. \A n : Admissible(n) => Admissible(n)'
  BY <1>2 DEF Admissible, NextSequence, Promotions, History
<1>6. \A n, p : ProofOk(n, p)' <=> ProofOk(n, p)
  BY <1>2 DEF ProofOk, Promotions, History
<1>9. Types'
  BY <1>1, <1>2, <1>3 DEF Types, TypeOK, host
<1>10. ASSUME NEW d \in Channels PROVE ChannelInv(d)'
  <2>1. ArchiveInv(d) /\ HistoryInv(d) /\ EventsInv(d)
    BY <1>1 DEF ChannelInv
  <2>2. ArchiveInv(d)'
    BY <1>4, <1>5, <2>1 DEF ArchiveInv
  <2>3. HistoryInv(d)'
    BY <1>2, <1>4, <2>1 DEF HistoryInv
  <2>4. EventsInv(d)'
    BY <1>2, <1>4, <1>6, <2>1 DEF EventsInv
  <2> QED
    BY <2>2, <2>3, <2>4 DEF ChannelInv
<1>11. CmdInv'
  <2>3. Recorded(History(c))' = Recorded(History(c))
    BY <1>3, <1>4 DEF Recorded
  <2> QED
    BY <1>0, <1>1, <1>2, <1>3, <1>4, <1>5, <1>6, <2>3 DEF CmdInv
<1>12. ReaderInv'
  BY <1>1, <1>2 DEF ReaderInv, History
<1> QED
  BY <1>9, <1>10, <1>11, <1>12 DEF IInv

\* The event that a command writes: the one it has found, or a new one.
LEMMA SameEvent ==
  ASSUME IInv, pc # "idle", cmd.pending # Nothing
  PROVE  Event(cmd.pending.recorded) = cmd.pending
<1>0. PICK k : k = cmd
  OBVIOUS
<1>1. PICK c : c = k.action.channel
  OBVIOUS
<1>2. /\ c \in Channels /\ Types /\ ChannelInv(c) /\ \A d \in Channels : ChannelInv(d)
      /\ k \in Commands /\ k.action.seq = NextSequence(c) /\ k.current = chan[c]
      /\ k.active = ActiveOf(k.action) /\ ProofOk(k.action, k.proof)
  BY <1>0, <1>1, Running DEF IInv
<1>3. PICK e : e = k.pending
  OBVIOUS
<1>4. e \in History(c) /\ e.action = k.action /\ e \in Events
  BY <1>0, <1>1, <1>2, <1>3, HistoryType DEF IInv, CmdInv
<1>5. e.active = k.active
  BY <1>2, <1>4 DEF ChannelInv, EventsInv
<1>6. e.proof = k.proof
  <2>1. ProofOk(k.action, e.proof)
    BY <1>2, <1>4 DEF ChannelInv, EventsInv
  <2> QED
    BY <1>2, <2>1, OneProof
<1>7. e.previous = IF k.current = Nothing THEN Nothing ELSE k.current.active
  <2>1. CASE chan[c] = Nothing
    <3>1. e.action.seq = 1
      BY <1>2, <1>4, <2>1, StateType
    <3> QED
      BY <1>2, <1>4, <2>1, <3>1 DEF ChannelInv, HistoryInv
  <2>2. CASE chan[c] # Nothing
    <3>1. PICK s \in History(c) : Matches(chan[c], s)
      BY <1>2, <2>2 DEF ChannelInv, HistoryInv
    <3>2. e.action.seq = s.action.seq + 1
      BY <1>2, <1>4, <2>2, <3>1, StateType DEF Matches
    <3>3. e.previous = s.active
      BY <1>2, <1>4, <3>1, <3>2 DEF ChannelInv, HistoryInv
    <3> QED
      BY <1>2, <2>2, <3>1, <3>3 DEF Matches
  <2> QED
    BY <2>1, <2>2
<1>8. e = [action |-> e.action, active |-> e.active, previous |-> e.previous,
           proof |-> e.proof, recorded |-> e.recorded]
  BY <1>4, EventFields
<1>9. Event(e.recorded) = [action |-> k.action, active |-> k.active, proof |-> k.proof,
                           recorded |-> e.recorded,
                           previous |-> IF k.current = Nothing THEN Nothing ELSE k.current.active]
  BY <1>0 DEF Event
<1>10. Event(e.recorded) = e
  BY <1>4, <1>5, <1>6, <1>7, <1>8, <1>9
<1> QED
  BY <1>0, <1>3, <1>10

LEMMA NewEvent ==
  ASSUME IInv, pc = "event", cmd.pending = Nothing, TimeToRecord, NEW e, e = Event(now),
         NEW c, c = cmd.action.channel
  PROVE  /\ e \in Events /\ e.action = cmd.action /\ e.active = cmd.active
         /\ e.proof = cmd.proof /\ e.recorded = now /\ cmd.action.issued <= now
         /\ \A f \in History(c) : f.recorded <= now /\ f.action # cmd.action
         /\ e.action.seq = 1 => e.previous = Nothing
         /\ \A f \in History(c) : e.action.seq = f.action.seq + 1 => e.previous = f.active
<1>0. PICK k : k = cmd
  OBVIOUS
<1>2. /\ c \in Channels /\ Types /\ ChannelInv(c)
      /\ k \in Commands /\ k.action.seq = NextSequence(c) /\ k.current = chan[c]
      /\ k.action \in Manifests /\ k.active \in Releases /\ k.proof \in Proofs
  BY <1>0, Running DEF IInv
<1>3. e = [action |-> k.action, active |-> k.active, proof |-> k.proof, recorded |-> now,
           previous |-> IF k.current = Nothing THEN Nothing ELSE k.current.active]
  BY <1>0 DEF Event
<1>4. chan[c] # Nothing => chan[c].active \in Releases
  BY <1>2, StateType, StateFields
<1>5. e \in Events
  <2>1. now \in Times
    BY <1>2 DEF Types, TypeOK
  <2>2. (IF k.current = Nothing THEN Nothing ELSE k.current.active) \in Releases \cup {Nothing}
    BY <1>2, <1>4
  <2> QED
    BY <1>2, <1>3, <2>1, <2>2 DEF Events
<1>6. cmd.action.issued <= now /\ \A f \in History(c) : f.recorded <= now
  BY DEF TimeToRecord, Prior
<1>7. \A f \in History(c) : f.action # k.action
  BY <1>0 DEF IInv, CmdInv, Recorded
<1>8. e.action.seq = 1 => e.previous = Nothing
  BY <1>2, <1>3, StateType
<1>9. ASSUME NEW f \in History(c), e.action.seq = f.action.seq + 1
      PROVE  e.previous = f.active
  <2>1. f.action.seq \in Nat \ {0}
    BY <1>2, EventSequence
  <2>2. chan[c] # Nothing
    BY <1>2, <1>3, <1>9, <2>1, StateType
  <2>3. PICK s \in History(c) : Matches(chan[c], s)
    BY <1>2, <2>2 DEF ChannelInv, HistoryInv
  <2>4. s.action.seq = f.action.seq
    BY <1>2, <1>3, <1>9, <2>1, <2>2, <2>3, StateType DEF Matches
  <2>5. s = f
    BY <1>2, <2>3, <2>4, OneEvent
  <2> QED
    BY <1>2, <1>3, <2>2, <2>3, <2>5 DEF Matches
<1> QED
  BY <1>0, <1>3, <1>5, <1>6, <1>7, <1>8, <1>9

LEMMA RecordKeeps ==
  ASSUME IInv, pc = "event", cmd.pending = Nothing, TimeToRecord, NEW e, e = Event(now),
         events' = events \cup {e}, cmd' = [cmd EXCEPT !.pending = e], pc' = "state",
         UNCHANGED <<archived, artifacts, chan, torn, host, reader, faults>>
  PROVE  IInv'
<1>0. PICK k : k = cmd
  OBVIOUS
<1>1. PICK m : m = k.action
  OBVIOUS
<1> DEFINE c == m.channel
<1>2. Types /\ (\A d \in Channels : ChannelInv(d)) /\ CmdInv /\ ReaderInv
  BY DEF IInv
<1>3. /\ c \in Channels /\ k \in Commands /\ m \in Manifests /\ m.seq = NextSequence(c)
      /\ k.active = ActiveOf(m) /\ Admissible(m) /\ ProofOk(m, k.proof)
      /\ k.current = chan[c]
  BY <1>0, <1>1, Running
<1>4. /\ e \in Events /\ e.action = m /\ e.active = k.active /\ e.proof = k.proof
      /\ e.recorded = now /\ e # Nothing /\ m.issued <= now
      /\ \A f \in History(c) : f.recorded <= now /\ f.action # m
      /\ m.seq = 1 => e.previous = Nothing
      /\ \A f \in History(c) : m.seq = f.action.seq + 1 => e.previous = f.active
  BY <1>0, <1>1, NewEvent, EventFields
<1>5. cmd' = [k EXCEPT !.pending = e] /\ [k EXCEPT !.pending = e] \in Commands
  BY <1>0, <1>3, <1>4 DEF Commands
<1>6. PICK k2 : k2 = [k EXCEPT !.pending = e]
  OBVIOUS
<1>7. /\ cmd' = k2 /\ k2 \in Commands /\ k2 # Nothing /\ k2.action = m /\ k2.active = k.active
      /\ k2.current = k.current /\ k2.proof = k.proof /\ k2.pending = e
  <2>1. k2 \in Commands
    BY <1>5, <1>6
  <2>2. DOMAIN k = {"action", "active", "current", "proof", "pending"}
    BY <1>3 DEF Commands
  <2> QED
    BY <1>1, <1>5, <1>6, <2>1, <2>2, CommandFields
<1>8. Types'
  BY <1>2, <1>4, <1>7 DEF Types, TypeOK, host
<1>9. \A d \in Channels : /\ History(d)' = IF d = c THEN History(d) \cup {e} ELSE History(d)
                          /\ Archive(d)' = Archive(d)
                          /\ NextSequence(d)' = NextSequence(d) /\ chan[d]' = chan[d]
  BY <1>4 DEF History, Archive, NextSequence
<1>10. \A d \in Channels : \A f \in Promotions(d)' : f \in Promotions(d) \/ (d = c /\ f = e)
  BY <1>9 DEF Promotions
<1>11. \A n, p : ProofOk(n, p) => ProofOk(n, p)'
  BY ProofStays
<1>12. m \in archived /\ m.build \in artifacts
  BY <1>0, <1>1, <1>2 DEF CmdInv
<1>13. \A n \in Archive(c) : n.seq = m.seq => n = m
  BY <1>0, <1>1, <1>2 DEF CmdInv
<1>14. ASSUME NEW n \in Manifests, Admissible(n), n.channel = c => n = m
       PROVE  Admissible(n)'
  <2>1. n.channel \in Channels /\ "canary" \in Channels
    BY ManifestFields DEF Channels
  <2>2. NextSequence("canary") \in Nat
    BY <1>2, <2>1, StateType
  <2>3. NextSequence("canary")' = NextSequence("canary") /\ chan[n.channel]' = chan[n.channel]
    BY <1>9, <2>1
  <2>4. \A f \in Promotions(n.channel)' : f \in Promotions(n.channel) \/ f.action = n
    BY <1>4, <1>10, <1>14, <2>1
  <2> QED
    BY <1>2, <1>14, <2>2, <2>3, <2>4, AdmissibleStays
<1>15. ASSUME NEW d \in Channels
       PROVE  ArchiveInv(d)'
  <2>1. ArchiveInv(d)
    BY <1>2 DEF ChannelInv
  <2>2. ASSUME NEW n \in Archive(d), n.seq = NextSequence(d)
        PROVE  Admissible(n)'
    <3>1. n \in Manifests /\ n.channel = d
      BY <1>2, ArchiveType
    <3>2. Admissible(n)
      BY <2>1, <2>2 DEF ArchiveInv
    <3>3. d = c => n = m
      BY <1>3, <1>13, <2>2
    <3> QED
      BY <1>14, <3>1, <3>2, <3>3
  <2> QED
    BY <1>9, <2>1, <2>2 DEF ArchiveInv
<1>16. ASSUME NEW f \in History(c)
       PROVE  f.action.seq \in Nat /\ f.action.seq < m.seq + 1 /\ f.action.seq # m.seq + 1
  BY <1>2, <1>3, EventSequence, StateType
<1>17. m.seq \in Nat /\ m.seq # m.seq + 1 /\ now \in Int
  BY <1>2, <1>3, <1>4, ManifestFields, EventFields
<1>18. ASSUME NEW d \in Channels
       PROVE  HistoryInv(d)'
  <2>1. HistoryInv(d)
    BY <1>2 DEF ChannelInv
  <2>2. CASE d # c
    BY <1>9, <2>1, <2>2 DEF HistoryInv
  <2>3. CASE d = c
    <3>1. History(d)' = History(c) \cup {e} /\ NextSequence(d)' = NextSequence(c)
          /\ chan[d]' = chan[c]
      BY <1>9, <2>3
    <3>2. \A f, g \in History(d)' : f.action = g.action => f = g
      BY <1>4, <2>1, <2>3, <3>1 DEF HistoryInv
    <3>3. \A f \in History(d)' : f.action \in archived'
      BY <1>4, <1>12, <2>1, <2>3, <3>1 DEF HistoryInv
    <3>4. \A n \in 1 .. NextSequence(d)' - 1 : \E f \in History(d)' : f.action.seq = n
      BY <2>1, <2>3, <3>1 DEF HistoryInv
    <3>5. chan[d]' # Nothing => \E f \in History(d)' : Matches(chan[d]', f)
      BY <2>1, <2>3, <3>1 DEF HistoryInv
    <3>6. \A f \in History(d)' : f.action.seq = 1 => f.previous = Nothing
      BY <1>4, <2>1, <2>3, <3>1 DEF HistoryInv
    <3>7. ASSUME NEW f \in History(d)', NEW g \in History(d)', g.action.seq = f.action.seq + 1
          PROVE  g.previous = f.active /\ f.recorded <= g.recorded
      <4>1. CASE f \in History(c) /\ g \in History(c)
        BY <2>1, <2>3, <3>7, <4>1 DEF HistoryInv
      <4>2. CASE f \in History(c) /\ g = e
        BY <1>4, <3>7, <4>2
      <4>3. CASE f = e
        BY <1>4, <1>16, <1>17, <3>1, <3>7, <4>3
      <4> QED
        BY <3>1, <4>1, <4>2, <4>3
    <3> QED
      BY <3>2, <3>3, <3>4, <3>5, <3>6, <3>7, <3>1 DEF HistoryInv
  <2> QED
    BY <2>2, <2>3
<1>19. /\ e.active \in archived /\ e.active.build = m.build
       /\ m.kind = "release" => e.active = m
  <2>1. CASE m.kind = "release"
    BY <1>3, <1>4, <1>12, <2>1 DEF ActiveOf
  <2>2. CASE m.kind = "restoration"
    <3>1. m.build = m.target.build /\ \E f \in Promotions(c) : f.action = m.target
      BY <1>3, <2>2 DEF Admissible
    <3>2. PICK f \in Promotions(c) : f.action = m.target
      BY <3>1
    <3>3. f.action \in archived
      BY <1>2, <1>3, <3>2 DEF ChannelInv, HistoryInv, Promotions
    <3> QED
      BY <1>3, <1>4, <2>2, <3>1, <3>2, <3>3 DEF ActiveOf
  <2> QED
    BY <1>3, <2>1, <2>2, ManifestFields
<1>20. ASSUME NEW d \in Channels
       PROVE  EventsInv(d)'
  <2>1. EventsInv(d)
    BY <1>2 DEF ChannelInv
  <2>2. ASSUME NEW f \in History(d)'
        PROVE  /\ f.active = ActiveOf(f.action) /\ f.active \in archived'
               /\ f.active.build = f.action.build /\ f.active.build \in artifacts'
               /\ ProofOk(f.action, f.proof)' /\ f.action.issued <= f.recorded
    <3>1. CASE f \in History(d)
      BY <1>11, <2>1, <3>1 DEF EventsInv
    <3>2. CASE f = e
      BY <1>3, <1>4, <1>11, <1>12, <1>19, <3>2
    <3> QED
      BY <1>9, <3>1, <3>2
  <2>3. ASSUME NEW f \in Promotions(d)', NEW g \in Promotions(d)', f.action.seq < g.action.seq
        PROVE  Version[f.active.build] < Version[g.active.build]
    <3>1. CASE f \in Promotions(d) /\ g \in Promotions(d)
      BY <2>1, <2>3, <3>1 DEF EventsInv
    <3>2. CASE d = c /\ f \in Promotions(d) /\ g = e
      <4>1. e.action.kind = "release"
        BY <2>3, <3>2 DEF Promotions
      <4>2. f \in Promotions(c) /\ f.action # m
        BY <1>4, <3>2 DEF Promotions
      <4>3. Version[f.active.build] < Version[m.build]
        BY <1>3, <1>4, <4>1, <4>2 DEF Admissible
      <4> QED
        BY <1>4, <1>19, <3>2, <4>1, <4>3
    <3>3. CASE d = c /\ f = e
      <4>1. g.action.seq \in Nat /\ g.action.seq < m.seq + 1
        BY <1>3, <1>4, <1>9, <1>16, <1>17, <2>3, <3>3 DEF Promotions
      <4> QED
        BY <1>4, <1>17, <2>3, <3>3, <4>1
    <3> QED
      BY <1>10, <3>1, <3>2, <3>3
  <2> QED
    BY <2>2, <2>3 DEF EventsInv
<1>21. CmdInv'
  <2>1. Admissible(m)' /\ ProofOk(m, k.proof)'
    BY <1>3, <1>11, <1>14
  <2>2. e \in History(c)' /\ Archive(c)' = Archive(c) /\ chan[c]' = chan[c]
    BY <1>3, <1>9
  <2> QED
    BY <1>3, <1>4, <1>7, <1>12, <1>13, <2>1, <2>2 DEF CmdInv
<1>22. ReaderInv'
  BY <1>2 DEF ReaderInv, History
<1> QED
  BY <1>2, <1>8, <1>15, <1>18, <1>20, <1>21, <1>22 DEF IInv, ChannelInv

\* A command that ends without having written a whole file keeps the
\* invariant.
LEMMA EndKeeps ==
  ASSUME IInv, UNCHANGED files, torn' \subseteq TornFiles, cmd' = Nothing, pc' = "idle",
         UNCHANGED <<host, reader>>, faults' \in 0 .. MaxFaults
  PROVE  IInv'
<1>1. Types /\ (\A d \in Channels : ChannelInv(d)) /\ ReaderInv
  BY DEF IInv
<1>2. Types'
  BY <1>1 DEF Types, TypeOK, files, host
<1>3. \A d \in Channels : ChannelInv(d)'
  BY <1>1, FilesStay
<1>4. CmdInv' /\ ReaderInv'
  BY <1>1 DEF CmdInv, ReaderInv, files, History
<1> QED
  BY <1>2, <1>3, <1>4 DEF IInv

LEMMA ArchiveArtifactKeeps ==
  ASSUME IInv, ArchiveArtifact
  PROVE  IInv'
<1>1. CASE TornArtifact(cmd.action.build)
  <2>1. /\ UNCHANGED files /\ UNCHANGED <<torn, host, reader, faults>>
        /\ cmd' = Nothing /\ pc' = "idle"
    BY <1>1 DEF ArchiveArtifact, files
  <2>2. torn' \subseteq TornFiles /\ faults' \in 0 .. MaxFaults
    BY <2>1 DEF IInv, Types, TypeOK
  <2> QED
    BY <2>1, <2>2, EndKeeps
<1>2. CASE ~TornArtifact(cmd.action.build)
  BY <1>2, ArtifactKeeps
<1> QED
  BY <1>1, <1>2

LEMMA WriteEventKeeps ==
  ASSUME IInv, WriteEvent
  PROVE  IInv'
<1>1. pc = "event" /\ UNCHANGED <<archived, artifacts, chan, torn, host, reader, faults>>
  BY DEF WriteEvent
<1>2. Types /\ (\A d \in Channels : ChannelInv(d)) /\ CmdInv /\ ReaderInv /\ cmd \in Commands
  BY <1>1, Running DEF IInv
<1>3. CASE ~TimeToRecord
  <2>1. UNCHANGED files /\ cmd' = Nothing /\ pc' = "idle"
    BY <1>1, <1>3 DEF WriteEvent, files
  <2>2. torn' \subseteq TornFiles /\ faults' \in 0 .. MaxFaults
    BY <1>1, <1>2 DEF Types, TypeOK
  <2> QED
    BY <1>1, <2>1, <2>2, EndKeeps
<1>4. CASE TimeToRecord /\ cmd.pending = Nothing
  <2>1. PICK e : e = Event(now)
    OBVIOUS
  <2>2. events' = events \cup {e} /\ cmd' = [cmd EXCEPT !.pending = e] /\ pc' = "state"
    BY <1>4, <2>1 DEF WriteEvent
  <2> QED
    BY <1>1, <1>4, <2>1, <2>2, RecordKeeps
<1>5. CASE cmd.pending # Nothing
  <2>1. Event(cmd.pending.recorded) = cmd.pending
    BY <1>1, <1>5, SameEvent
  <2>2. cmd.pending \in events
    BY <1>1, <1>2, <1>5 DEF CmdInv, History
  <2>3. events' = events /\ cmd' = [cmd EXCEPT !.pending = cmd.pending] /\ pc' = "state"
    BY <1>5, <2>1, <2>2 DEF WriteEvent, TimeToRecord
  <2>4. cmd' = cmd
    BY <1>2, <2>3 DEF Commands
  <2>5. UNCHANGED files
    BY <1>1, <2>3 DEF files
  <2>6. Types'
    BY <1>1, <1>2, <2>3, <2>4 DEF Types, TypeOK, host
  <2>7. \A d \in Channels : ChannelInv(d)'
    BY <1>2, <2>5, FilesStay
  <2>8. CmdInv'
    <3>1. PICK m : m = cmd.action
      OBVIOUS
    <3>2. \A p : Admissible(m)' = Admissible(m) /\ ProofOk(m, p)' = ProofOk(m, p)
      BY <2>5 DEF files, Admissible, ProofOk, NextSequence, Promotions, History
    <3>3. /\ History(m.channel)' = History(m.channel) /\ Archive(m.channel)' = Archive(m.channel)
          /\ chan[m.channel]' = chan[m.channel]
      BY <2>5 DEF files, History, Archive
    <3> QED
      BY <1>1, <1>2, <1>5, <2>3, <2>4, <3>1, <3>2, <3>3 DEF CmdInv
  <2>9. ReaderInv'
    BY <1>1, <1>2, <2>3 DEF ReaderInv, History
  <2> QED
    BY <2>6, <2>7, <2>8, <2>9 DEF IInv
<1> QED
  BY <1>3, <1>4, <1>5 DEF TimeToRecord

LEMMA ActivateKeeps ==
  ASSUME IInv, pc = "state", NEW s, NEW m, m = cmd.action,
         s = [action |-> cmd.action, active |-> cmd.active, proof |-> cmd.proof,
              recorded |-> cmd.pending.recorded, activated |-> now],
         chan' = [chan EXCEPT ![m.channel] = s], cmd' = Nothing, pc' = "idle",
         UNCHANGED <<archived, artifacts, events, torn, host, reader, faults>>
  PROVE  IInv'
<1>0. PICK k : k = cmd
  OBVIOUS
<1> DEFINE c == m.channel
<1>2. Types /\ (\A d \in Channels : ChannelInv(d)) /\ CmdInv /\ ReaderInv
  BY DEF IInv
<1>3. /\ c \in Channels /\ k \in Commands /\ m \in Manifests /\ m.seq = NextSequence(c)
      /\ k.active = ActiveOf(m) /\ k.active \in Releases /\ k.proof \in Proofs
      /\ ProofOk(m, k.proof)
  BY <1>0, Running
<1>4. PICK e : e = k.pending
  OBVIOUS
<1>5. e \in History(c) /\ e.action = m /\ e \in Events
  BY <1>0, <1>2, <1>3, <1>4, HistoryType DEF CmdInv
<1>6. s = [action |-> m, active |-> k.active, proof |-> k.proof, recorded |-> e.recorded,
           activated |-> now]
  BY <1>0, <1>4
<1>7. s \in States /\ s # Nothing
  <2>1. now \in Times
    BY <1>2 DEF Types, TypeOK
  <2>2. s \in States
    BY <1>3, <1>5, <1>6, <2>1, EventFields DEF States
  <2> QED
    BY <2>2, StateFields
<1>8. Matches(s, e)
  <2>1. e.active = k.active
    BY <1>2, <1>3, <1>5 DEF ChannelInv, EventsInv
  <2>2. ProofOk(m, e.proof)
    BY <1>2, <1>3, <1>5 DEF ChannelInv, EventsInv
  <2>3. e.proof = k.proof
    BY <1>2, <1>3, <2>2, OneProof
  <2> QED
    BY <1>5, <1>6, <2>1, <2>3 DEF Matches
<1>9. chan \in [Channels -> States \cup {Nothing}]
  BY <1>2 DEF Types, TypeOK
<1>10. chan'[c] = s /\ \A d \in Channels : d # c => chan'[d] = chan[d]
  BY <1>3, <1>9
<1>11. Types'
  BY <1>2, <1>3, <1>7, <1>9 DEF Types, TypeOK, host
<1>12. \A d \in Channels : /\ History(d)' = History(d) /\ Archive(d)' = Archive(d)
                           /\ Promotions(d)' = Promotions(d)
  BY DEF History, Archive, Promotions
<1>13. m.seq \in Nat \ {0}
  BY <1>2, <1>3, StateType
<1>14. NextSequence(c)' = m.seq + 1 /\ \A d \in Channels : d # c => NextSequence(d)' = NextSequence(d)
  BY <1>6, <1>7, <1>10 DEF NextSequence
<1>15. \A n, p : ProofOk(n, p)' <=> ProofOk(n, p)
  BY DEF ProofOk, Promotions, History
<1>16. ASSUME NEW n \in Manifests, n.channel # c, Admissible(n)
       PROVE  Admissible(n)'
  <2>1. n.channel \in Channels /\ "canary" \in Channels
    BY ManifestFields DEF Channels
  <2>2. NextSequence("canary") <= NextSequence("canary")' /\ NextSequence("canary")' \in Nat
    BY <1>2, <1>3, <1>13, <1>14, <2>1, StateType
  <2>3. chan[n.channel]' = chan[n.channel]
    BY <1>10, <1>16, <2>1
  <2> QED
    BY <1>2, <1>12, <1>16, <2>1, <2>2, <2>3, AdmissibleStays
<1>17. ASSUME NEW d \in Channels
       PROVE  ArchiveInv(d)'
  <2>1. ArchiveInv(d)
    BY <1>2 DEF ChannelInv
  <2>2. CASE d = c
    <3>1. \A n \in Archive(c) : n.seq \in Nat /\ n.seq <= m.seq
      BY <1>2, <1>3, <2>1, <2>2, ArchiveType, ManifestFields DEF ArchiveInv
    <3>2. \A n \in Archive(c) : n.seq <= m.seq + 1 /\ n.seq # m.seq + 1
      BY <1>13, <3>1
    <3> QED
      BY <1>12, <1>14, <2>1, <2>2, <3>2 DEF ArchiveInv
  <2>3. CASE d # c
    <3>1. \A n \in Archive(d) : n \in Manifests /\ n.channel # c
      BY <1>2, <2>3, ArchiveType
    <3> QED
      BY <1>12, <1>14, <1>16, <2>1, <2>3, <3>1 DEF ArchiveInv
  <2> QED
    BY <2>2, <2>3
<1>18. ASSUME NEW d \in Channels
       PROVE  HistoryInv(d)'
  <2>1. HistoryInv(d) /\ History(d)' = History(d)
    BY <1>2, <1>12 DEF ChannelInv
  <2>2. CASE d = c
    <3>1. ASSUME NEW n \in 1 .. NextSequence(c)' - 1
          PROVE  \E f \in History(c) : f.action.seq = n
      <4>1. n \in 1 .. NextSequence(c) - 1 \/ n = m.seq
        BY <1>3, <1>13, <1>14
      <4> QED
        BY <1>5, <2>1, <2>2, <4>1 DEF HistoryInv
    <3>2. chan[d]' # Nothing => \E f \in History(d)' : Matches(chan[d]', f)
      BY <1>5, <1>8, <1>10, <2>1, <2>2
    <3> QED
      BY <2>1, <2>2, <3>1, <3>2 DEF HistoryInv
  <2>3. CASE d # c
    BY <1>10, <1>14, <2>1, <2>3 DEF HistoryInv
  <2> QED
    BY <2>2, <2>3
<1>19. ASSUME NEW d \in Channels
       PROVE  EventsInv(d)'
  BY <1>2, <1>12, <1>15 DEF ChannelInv, EventsInv
<1>20. CmdInv'
  BY DEF CmdInv
<1>21. ReaderInv'
  <2>1. CASE reader = Nothing
    BY <2>1 DEF ReaderInv
  <2>2. CASE reader # Nothing
    <3>1. PICK r : r = reader
      OBVIOUS
    <3>2. r \in Readers /\ r.channel \in Channels /\ r # Nothing /\ reader' = r
      BY <1>2, <2>2, <3>1, ReaderFields DEF Types
    <3>3. r.at = "archive" => r.entries \subseteq History(r.channel)'
      BY <1>2, <1>12, <3>1, <3>2 DEF ReaderInv
    <3>4. ASSUME r.state # Nothing
          PROVE  /\ chan'[r.channel] # Nothing
                 /\ chan'[r.channel] = r.state \/ r.state.action.seq < chan'[r.channel].action.seq
      <4>1. /\ chan[r.channel] # Nothing
            /\ chan[r.channel] = r.state \/ r.state.action.seq < chan[r.channel].action.seq
        BY <1>2, <3>1, <3>2, <3>4 DEF ReaderInv
      <4>2. CASE r.channel # c
        BY <1>10, <3>2, <4>1, <4>2
      <4>3. CASE r.channel = c
        <5>1. m.seq = chan[c].action.seq + 1 /\ chan[c].action.seq \in Nat
          BY <1>2, <1>3, <4>1, <4>3, StateType
        <5>2. r.state.action.seq \in Nat
          BY <3>2, <3>4, ReaderFields, StateFields, ManifestFields
        <5>3. r.state.action.seq < m.seq
          BY <4>1, <4>3, <5>1, <5>2
        <5> QED
          BY <1>6, <1>7, <1>10, <4>3, <5>3
      <4> QED
        BY <4>2, <4>3
    <3> QED
      BY <3>2, <3>3, <3>4 DEF ReaderInv
  <2> QED
    BY <2>1, <2>2
<1> QED
  BY <1>2, <1>11, <1>17, <1>18, <1>19, <1>20, <1>21 DEF IInv, ChannelInv

LEMMA WriteStateKeeps ==
  ASSUME IInv, WriteState
  PROVE  IInv'
<1>1. /\ pc = "state" /\ cmd' = Nothing /\ pc' = "idle"
      /\ UNCHANGED <<archived, artifacts, events, torn, host, reader, faults>>
  BY DEF WriteState
<1>2. CASE TimeToActivate
  <2>1. PICK s : s = [action |-> cmd.action, active |-> cmd.active, proof |-> cmd.proof,
                      recorded |-> cmd.pending.recorded, activated |-> now]
    OBVIOUS
  <2>2. PICK m : m = cmd.action
    OBVIOUS
  <2>3. chan' = [chan EXCEPT ![m.channel] = s]
    BY <1>2, <2>1, <2>2 DEF WriteState
  <2> QED
    BY <1>1, <2>1, <2>2, <2>3, ActivateKeeps
<1>3. CASE ~TimeToActivate
  <2>1. UNCHANGED files
    BY <1>1, <1>3 DEF WriteState, files
  <2>2. torn' \subseteq TornFiles /\ faults' \in 0 .. MaxFaults
    BY <1>1 DEF IInv, Types, TypeOK
  <2> QED
    BY <1>1, <2>1, <2>2, EndKeeps
<1> QED
  BY <1>2, <1>3

-----------------------------------------------------------------------------
(* Interruptions, readers and the host.                                    *)

LEMMA InterruptKeeps ==
  ASSUME IInv, Interrupt
  PROVE  IInv'
<1>1. UNCHANGED <<files, torn>> /\ cmd' = Nothing /\ pc' = "idle" /\ UNCHANGED <<host, reader>>
  BY DEF Interrupt, disk
<1>2. torn' \subseteq TornFiles /\ faults' \in 0 .. MaxFaults
  BY <1>1, BoundsAssumption DEF IInv, Types, TypeOK, Interrupt
<1> QED
  BY <1>1, <1>2, EndKeeps

LEMMA DieWritingKeeps ==
  ASSUME IInv, DieWriting
  PROVE  IInv'
<1>1. UNCHANGED files /\ cmd' = Nothing /\ pc' = "idle" /\ UNCHANGED <<host, reader>>
  BY DEF DieWriting
<1>2. PICK t : t = [place |-> pc, action |-> cmd.action]
  OBVIOUS
<1>3. pc \in {"manifest", "artifact", "event"} /\ torn' = torn \cup {t}
  BY <1>2 DEF DieWriting, Creates
<1>4. t \in TornFiles
  BY <1>2, <1>3, Running DEF TornFiles
<1>5. torn' \subseteq TornFiles /\ faults' \in 0 .. MaxFaults
  BY <1>3, <1>4, BoundsAssumption DEF IInv, Types, TypeOK, DieWriting
<1> QED
  BY <1>1, <1>5, EndKeeps

\* A step that leaves the files and the command alone.
LEMMA CommandStays ==
  ASSUME IInv, UNCHANGED <<files, pc, cmd>>, Types', ReaderInv'
  PROVE  IInv'
<1>1. Types /\ (\A d \in Channels : ChannelInv(d)) /\ CmdInv
  BY DEF IInv
<1>2. \A d \in Channels : ChannelInv(d)'
  BY <1>1, FilesStay
<1>3. CmdInv'
  <2>1. PICK k : k = cmd
    OBVIOUS
  <2>2. \A m, p : Admissible(m)' = Admissible(m) /\ ProofOk(m, p)' = ProofOk(m, p)
    BY DEF files, Admissible, ProofOk, NextSequence, Promotions, History
  <2>3. \A d : History(d)' = History(d) /\ Archive(d)' = Archive(d)
    BY DEF files, History, Archive
  <2>4. cmd' = k /\ pc' = pc /\ chan' = chan /\ archived' = archived /\ artifacts' = artifacts
    BY <2>1 DEF files
  <2> QED
    BY <1>1, <2>1, <2>2, <2>3, <2>4 DEF CmdInv, Recorded
<1> QED
  BY <1>2, <1>3 DEF IInv

LEMMA ReadKeeps ==
  ASSUME IInv, (\E c \in Channels : ReadState(c)) \/ ReadHistory \/ EndRead
  PROVE  IInv'
<1>1. Types /\ ReaderInv
  BY DEF IInv
<1>2. UNCHANGED <<files, torn, host, pc, cmd, faults>>
  BY DEF ReadState, ReadHistory, EndRead, disk
<1>3. \A d : History(d)' = History(d)
  BY <1>2 DEF files, History
<1>4. ASSUME NEW c \in Channels, ReadState(c)
      PROVE  reader' \in Readers \cup {Nothing} /\ ReaderInv'
  <2>1. PICK r : r = [channel |-> c, at |-> "history", state |-> chan[c], entries |-> {}]
    OBVIOUS
  <2>2. reader' = r /\ chan' = chan
    BY <1>2, <1>4, <2>1 DEF ReadState, files
  <2>3. chan[c] \in States \cup {Nothing}
    BY <1>1 DEF Types, TypeOK
  <2>4. r \in Readers
    BY <2>1, <2>3 DEF Readers
  <2>5. r.at # "archive" /\ r.state = chan[c] /\ r.channel = c
    BY <2>1
  <2> QED
    BY <2>2, <2>4, <2>5 DEF ReaderInv
<1>5. ASSUME ReadHistory
      PROVE  reader' \in Readers \cup {Nothing} /\ ReaderInv'
  <2>1. PICK r : r = reader
    OBVIOUS
  <2>2. r \in Readers /\ r # Nothing /\ r.channel \in Channels
    BY <1>1, <1>5, <2>1, ReaderFields DEF ReadHistory, Types
  <2>3. PICK q : q = [r EXCEPT !.at = "archive", !.entries = History(r.channel)]
    OBVIOUS
  <2>4. reader' = q \/ reader' = Nothing
    BY <1>5, <2>1, <2>3 DEF ReadHistory
  <2>5. History(r.channel) \subseteq Events
    BY <1>1, <2>2, HistoryType
  <2>6. q \in Readers
    BY <2>2, <2>3, <2>5 DEF Readers
  <2>7. q.state = r.state /\ q.channel = r.channel /\ q.entries = History(r.channel)
    BY <2>2, <2>3 DEF Readers
  <2>8. chan' = chan
    BY <1>2 DEF files
  <2>9. reader' = q => ReaderInv'
    BY <1>1, <1>3, <2>1, <2>2, <2>7, <2>8 DEF ReaderInv
  <2>10. reader' = Nothing => ReaderInv'
    BY DEF ReaderInv
  <2> QED
    BY <2>4, <2>6, <2>9, <2>10
<1>6. ASSUME EndRead
      PROVE  reader' \in Readers \cup {Nothing} /\ ReaderInv'
  BY <1>6 DEF EndRead, ReaderInv
<1>7. reader' \in Readers \cup {Nothing} /\ ReaderInv'
  BY <1>4, <1>5, <1>6
<1>8. Types'
  BY <1>1, <1>2, <1>7 DEF Types, TypeOK, files, host
<1> QED
  BY <1>2, <1>7, <1>8, CommandStays

LEMMA HostKeeps ==
  ASSUME IInv, Tick \/ ClockBack \/ Upgrade \/ UNCHANGED vars
  PROVE  IInv'
<1>1. Types /\ ReaderInv
  BY DEF IInv
<1>2. UNCHANGED <<files, torn, pc, cmd, reader>>
  BY DEF Tick, ClockBack, Upgrade, vars, disk
<1>3. now' \in Times /\ runtime' \in Runtimes /\ faults' \in 0 .. MaxFaults
  BY <1>1, BoundsAssumption
  DEF Types, TypeOK, Times, Runtimes, Tick, ClockBack, Upgrade, vars, host
<1>4. Types'
  BY <1>1, <1>2, <1>3 DEF Types, TypeOK, files
<1>5. ReaderInv'
  BY <1>1, <1>2 DEF ReaderInv, files, History
<1> QED
  BY <1>2, <1>4, <1>5, CommandStays

LEMMA InitHolds ==
  ASSUME Init
  PROVE  IInv
<1>1. 1 \in Times /\ 1 \in Runtimes /\ 0 \in 0 .. MaxFaults
  BY BoundsAssumption DEF Times, Runtimes
<1>2. Types
  BY <1>1 DEF Init, Types, TypeOK
<1>3. ASSUME NEW c \in Channels
      PROVE  History(c) = {} /\ Archive(c) = {} /\ chan[c] = Nothing /\ NextSequence(c) = 1
  BY DEF Init, History, Archive, NextSequence
<1>4. ASSUME NEW c \in Channels
      PROVE  ChannelInv(c)
  BY <1>3 DEF ChannelInv, ArchiveInv, HistoryInv, EventsInv, Promotions
<1> QED
  BY <1>2, <1>4 DEF IInv, CmdInv, ReaderInv, Init

\* IInv is an inductive invariant.
LEMMA Inductive == Spec => []IInv
<1>1. Init => IInv
  BY InitHolds
<1>2. IInv /\ [Next]_vars => IInv'
  <2> SUFFICES ASSUME IInv, [Next]_vars PROVE IInv'
    OBVIOUS
  <2>1. ASSUME NEW m \in Signed, Begin(m) PROVE IInv'
    BY <2>1, BeginKeeps
  <2>2. CASE ArchiveManifest
    BY <2>2, ArchiveManifestKeeps
  <2>3. CASE ArchiveArtifact
    BY <2>3, ArchiveArtifactKeeps
  <2>4. CASE WriteEvent
    BY <2>4, WriteEventKeeps
  <2>5. CASE WriteState
    BY <2>5, WriteStateKeeps
  <2>6. CASE Interrupt \/ DieWriting
    BY <2>6, InterruptKeeps, DieWritingKeeps
  <2>7. CASE (\E c \in Channels : ReadState(c)) \/ ReadHistory \/ EndRead
    BY <2>7, ReadKeeps
  <2>8. CASE Tick \/ ClockBack \/ Upgrade \/ UNCHANGED vars
    BY <2>8, HostKeeps
  <2> QED
    BY <2>1, <2>2, <2>3, <2>4, <2>5, <2>6, <2>7, <2>8 DEF Next
<1> QED
  BY <1>1, <1>2, PTL DEF Spec

-----------------------------------------------------------------------------
(* What the invariant gives.                                               *)

\* The event that a state file was written from.
LEMMA StateEvent ==
  ASSUME IInv, NEW c \in Channels, chan[c] # Nothing
  PROVE  \E s \in History(c) : Matches(chan[c], s) /\ s.action.seq = NextSequence(c) - 1
<1>1. Types /\ ChannelInv(c)
  BY DEF IInv
<1>2. PICK s \in History(c) : Matches(chan[c], s)
  BY <1>1 DEF ChannelInv, HistoryInv
<1> QED
  BY <1>1, <1>2, StateType DEF Matches

LEMMA PendingIsNext ==
  ASSUME IInv, NEW c \in Channels, NEW m \in Archive(c)
  PROVE  /\ m \in Pending(c) <=> m.seq = NextSequence(c)
         /\ m.seq \in Nat \ {0} /\ m.seq <= NextSequence(c) /\ m # Nothing
<1>1. Types /\ ChannelInv(c)
  BY DEF IInv
<1>2. m.seq \in Nat \ {0} /\ m # Nothing
  BY <1>1, ArchiveType, ManifestFields, BoundsAssumption
<1>3. m.seq <= NextSequence(c)
  BY <1>1 DEF ChannelInv, ArchiveInv
<1>4. m \in Pending(c) <=> m.seq = NextSequence(c)
  BY <1>1, <1>2, <1>3, StateType DEF Pending
<1> QED
  BY <1>2, <1>3, <1>4

LEMMA ContiguousArchive ==
  ASSUME IInv, NEW c \in Channels
  PROVE  Contiguous(Archive(c)) /\ Contiguous(Recorded(History(c)))
<1>1. Types /\ ChannelInv(c)
  BY DEF IInv
<1>2. Recorded(History(c)) \subseteq Archive(c)
  BY <1>1, RecordedIsArchived DEF ChannelInv, Recorded
<1>3. \A m, n \in Archive(c) : m.seq = n.seq => m = n
  BY <1>1 DEF ChannelInv, ArchiveInv
<1>4. ASSUME NEW S, S = Archive(c) \/ S = Recorded(History(c)), NEW m \in S, NEW k \in 1 .. m.seq
      PROVE  \E n \in S : n.seq = k
  <2>1. m.seq \in Nat \ {0} /\ m.seq <= NextSequence(c)
    BY <1>2, <1>4, PendingIsNext
  <2>2. k = m.seq \/ k \in 1 .. NextSequence(c) - 1
    BY <1>1, <2>1, StateType
  <2>3. ASSUME k \in 1 .. NextSequence(c) - 1
        PROVE  \E n \in Recorded(History(c)) : n.seq = k
    BY <1>1, <2>3 DEF ChannelInv, HistoryInv, Recorded
  <2> QED
    BY <1>2, <1>4, <2>2, <2>3
<1> QED
  BY <1>2, <1>3, <1>4 DEF Contiguous

\* Every event of stable rests on the canary promotion of its build.
LEMMA StableRests ==
  ASSUME IInv
  PROVE  StableProven
<1>1. Types /\ ChannelInv("stable") /\ ChannelInv("canary") /\ "stable" \in Channels /\ "canary" \in Channels
  BY DEF IInv, Channels
<1>2. ASSUME NEW e \in History("stable")
      PROVE  \E f \in Promotions("canary") : Proof(f) = e.proof /\ f.active.build = e.active.build
  <2>1. /\ ProofOk(e.action, e.proof) /\ e.active = ActiveOf(e.action)
        /\ e.active.build = e.action.build /\ e.action.channel = "stable"
        /\ e.action \in Manifests
    BY <1>1, HistoryType DEF ChannelInv, EventsInv
  <2>2. CASE e.action.kind = "release"
    BY <2>1, <2>2 DEF ProofOk
  <2>3. CASE e.action.kind # "release"
    <3>1. PICK g \in Promotions("stable") : g.action = e.action.target /\ e.proof = g.proof
      BY <2>1, <2>3 DEF ProofOk
    <3>2. /\ g \in History("stable") /\ g.action.channel = "stable"
          /\ g.action.kind = "release"
      BY <1>1, <3>1, PromotionType, ReleaseFields
    <3>3. ProofOk(g.action, g.proof) /\ g.active = ActiveOf(g.action)
      BY <1>1, <3>2 DEF ChannelInv, EventsInv
    <3>4. PICK f \in Promotions("canary") : f.active.build = g.action.build /\ g.proof = Proof(f)
      BY <3>2, <3>3 DEF ProofOk
    <3>5. e.active = g.action
      BY <2>1, <2>3, <3>1 DEF ActiveOf
    <3> QED
      BY <3>1, <3>4, <3>5
  <2> QED
    BY <2>2, <2>3
<1> QED
  BY <1>2 DEF StableProven, Promotions

LEMMA Aligned ==
  ASSUME IInv, NEW c \in Channels
  PROVE  ChannelAligned(c)
<1>1. Types /\ ChannelInv(c)
  BY DEF IInv
<1>2. Recorded(History(c)) \subseteq Archive(c)
  BY <1>1, RecordedIsArchived DEF ChannelInv, Recorded
<1>3. \A m, n \in Pending(c) : m = n
  <2>1. \A m \in Pending(c) : m \in Archive(c) /\ m.seq = NextSequence(c)
    BY PendingIsNext DEF Pending
  <2> QED
    BY <1>1, <2>1 DEF ChannelInv, ArchiveInv
<1> QED
  BY <1>1, <1>2, <1>3, ContiguousArchive DEF ChannelAligned, ChannelInv, HistoryInv

\* release.py:937-990.  Archive, events and state of a channel stay within one
\* action of each other, and every stable event rests on a canary promotion,
\* for every set of signed actions and every number of interruptions.
THEOREM LedgerStands == Spec => []ReleaseInv
<1>1. IInv => ReleaseInv
  BY StableRests, Aligned DEF IInv, Types, ReleaseInv
<1> QED
  BY <1>1, Inductive, PTL

\* release.py:785-790, 993-999.  What a lock-free reader returns is current at
\* that instant: no later action has been archived, whatever ran meanwhile.
THEOREM ReadersAreCurrent == Spec => []ReadIsNewest
<1>1. IInv => ReadIsNewest
  <2> SUFFICES ASSUME IInv, reader # Nothing, reader.at = "archive", ReadReturns
               PROVE  /\ reader.state = chan[reader.channel]
                      /\ reader.entries = History(reader.channel)
                      /\ Pending(reader.channel) = {}
    BY DEF ReadIsNewest
  <2>1. PICK r : r = reader
    OBVIOUS
  <2>2. PICK c : c = r.channel
    OBVIOUS
  <2>3. r \in Readers /\ c \in Channels /\ r.state \in States \cup {Nothing}
    BY <2>1, <2>2, ReaderFields DEF IInv, Types
  <2>4. Types /\ ChannelInv(c)
    BY <2>3 DEF IInv
  <2>5. PICK E : E = r.entries
    OBVIOUS
  <2>6. /\ E \subseteq History(c)
        /\ r.state # Nothing =>
             /\ chan[c] # Nothing
             /\ chan[c] = r.state \/ r.state.action.seq < chan[c].action.seq
    BY <2>1, <2>2, <2>5 DEF IInv, ReaderInv
  <2>7. NothingBeyond(E, Archive(c), Nothing) /\ LeadsTo(E, r.state, Nothing)
    BY <2>1, <2>2, <2>5 DEF ReadReturns
  <2>8. ASSUME NEW n \in Archive(c)
        PROVE  \E e \in E : e.action = n
    <3>1. n # Nothing
      BY <2>3, PendingIsNext
    <3> QED
      BY <2>7, <3>1 DEF NothingBeyond, Recorded
  <2>9. E = History(c)
    <3>1. ASSUME NEW e \in History(c)
          PROVE  e \in E
      <4>1. PICK f \in E : f.action = e.action
        BY <2>3, <2>4, <2>8, RecordedIsArchived DEF ChannelInv
      <4> QED
        BY <2>4, <2>6, <4>1 DEF ChannelInv, HistoryInv
    <3> QED
      BY <2>6, <3>1
  <2>10. E = {} \/ Latest(E).action # Nothing
    <3>1. CASE E # {}
      <4>1. PICK l : l = Latest(E)
        OBVIOUS
      <4>2. l \in History(c)
        BY <2>3, <2>4, <2>9, <3>1, <4>1, LatestEvent
      <4> QED
        BY <2>3, <2>4, <4>1, <4>2, HistoryType, ManifestFields
    <3> QED
      BY <3>1
  <2>11. CASE r.state = Nothing
    <3>1. History(c) = {}
      BY <2>7, <2>9, <2>10, <2>11 DEF LeadsTo
    <3>2. chan[c] = Nothing
      BY <2>4, <3>1 DEF ChannelInv, HistoryInv
    <3>3. Archive(c) = {}
      BY <2>8, <2>9, <3>1
    <3> QED
      BY <2>1, <2>2, <2>5, <2>9, <2>11, <3>2, <3>3 DEF Pending
  <2>12. CASE r.state # Nothing
    <3>1. PICK l : l = Latest(History(c))
      OBVIOUS
    <3>2. Matches(r.state, l) /\ History(c) # {}
      BY <2>7, <2>9, <2>10, <2>12, <3>1 DEF LeadsTo
    <3>3. PICK s \in History(c) : Matches(chan[c], s) /\ s.action.seq = NextSequence(c) - 1
      BY <2>3, <2>6, <2>12, StateEvent
    <3>4. l \in History(c) /\ \A f \in History(c) : f.action.seq <= l.action.seq
      BY <2>3, <2>4, <3>1, <3>2, LatestEvent
    <3>5. chan[c] # Nothing /\ NextSequence(c) = chan[c].action.seq + 1 /\ chan[c].action.seq \in Nat
      BY <2>3, <2>4, <2>6, <2>12, StateType
    <3>6. s.action.seq <= l.action.seq /\ l.action.seq = r.state.action.seq
          /\ s.action.seq = chan[c].action.seq
      BY <3>2, <3>3, <3>4 DEF Matches
    <3>7. l.action.seq \in Nat
      BY <2>3, <2>4, <3>4, EventSequence
    <3>8. r.state = chan[c]
      BY <2>6, <2>12, <3>5, <3>6, <3>7
    <3>9. ASSUME NEW n \in Pending(c)
          PROVE  FALSE
      <4>1. n \in Archive(c) /\ n.seq = NextSequence(c)
        BY <2>3, PendingIsNext DEF Pending
      <4>2. PICK e \in History(c) : e.action = n
        BY <2>8, <2>9, <4>1
      <4>3. e.action.seq <= l.action.seq
        BY <3>4
      <4> QED
        BY <3>5, <3>6, <3>7, <3>8, <4>1, <4>2, <4>3
    <3> QED
      BY <2>1, <2>2, <2>5, <2>9, <3>8, <3>9
  <2> QED
    BY <2>11, <2>12
<1> QED
  BY <1>1, Inductive, PTL

-----------------------------------------------------------------------------
(* Recovery.                                                               *)

\* What the commands read, once the clock has caught up, allows exactly the
\* pending action, or, if there is none, a read without one.
LEMMA Standing ==
  ASSUME IInv, ClockCaughtUp, NEW c \in Channels, WholeFiles(c),
         c = "stable" => CanaryReads, NEW p,
         (p = Nothing /\ Pending(c) = {}) \/ p \in Pending(c)
  PROVE  ReadsWith(c, p) /\ \A e \in History(c) : Proven(c, e)
<1>1. Types /\ ChannelInv(c)
  BY DEF IInv
<1>2. ASSUME NEW e \in History(c)
      PROVE  /\ e.active \in archived /\ e.action \in archived /\ e.active.build \in artifacts
             /\ e.recorded <= now /\ e.action \in Archive(c)
             /\ e.action.issued <= e.recorded /\ e.active.issued <= now
  BY <1>1, HistoryType, RecordedIsArchived DEF ChannelInv, EventsInv, HistoryInv, ClockCaughtUp
<1>3. ASSUME NEW e \in History(c), NEW x, x.proof = e.proof, x.active = e.active
      PROVE  Proven(c, x)
  <2>1. CASE c = "canary"
    <3>1. ProofOk(e.action, e.proof) /\ e.action.channel = "canary"
      BY <1>1, <2>1, HistoryType DEF ChannelInv, EventsInv
    <3> QED
      BY <1>3, <2>1, <3>1 DEF Proven, ProofOk
  <2>2. CASE c = "stable"
    <3>1. PICK f \in History("canary") :
            f.action.kind = "release" /\ Proof(f) = e.proof /\ f.active.build = e.active.build
      BY <2>2, StableRests DEF StableProven
    <3>2. c # "canary"
      BY <2>2
    <3> QED
      BY <1>3, <2>2, <3>1, <3>2 DEF Proven, ProofHolds
  <2> QED
    BY <2>1, <2>2 DEF Channels
<1>4. StateReads(c, chan[c])
  <2>1. CASE chan[c] # Nothing
    <3>1. PICK s \in History(c) : Matches(chan[c], s)
      BY <2>1, StateEvent
    <3>2. Proven(c, chan[c])
      BY <1>3, <3>1 DEF Matches
    <3>3. StateStands(chan[c])
      BY <1>2, <2>1, <3>1 DEF Matches, StateStands, ClockCaughtUp
    <3> QED
      BY <3>2, <3>3 DEF StateReads
  <2> QED
    BY <2>1 DEF StateReads, StateStands
<1>5. HistoryReads(c, History(c))
  <2>1. EventChain(History(c))
    BY <1>1, <1>2, ContiguousArchive DEF EventChain, ChannelInv, HistoryInv
  <2> QED
    BY <1>3, <2>1 DEF HistoryReads, WholeFiles
<1>6. ASSUME NEW n \in Archive(c), n \in Pending(c) PROVE n = p
  BY <1>6, Aligned DEF ChannelAligned
<1>7. NothingBeyond(History(c), Archive(c), p)
  <2>1. Recorded(History(c)) \subseteq Archive(c)
    BY <1>2 DEF Recorded
  <2>2. ASSUME NEW n \in Archive(c), n \notin Recorded(History(c)) PROVE n = p
    <3>1. n.seq = NextSequence(c)
      BY <1>1, <2>2, ArchivedIsRecorded DEF Recorded
    <3> QED
      BY <1>6, <3>1, PendingIsNext
  <2> QED
    BY <2>1, <2>2, ContiguousArchive DEF NothingBeyond
<1>8. LeadsTo(History(c), chan[c], p)
  <2>1. ASSUME NEW e \in History(c), e.action.seq = NextSequence(c)
        PROVE  e.action = p
    BY <1>2, <1>6, <2>1, PendingIsNext
  <2>2. PICK l : l = Latest(History(c))
    OBVIOUS
  <2>3. CASE chan[c] = Nothing
    <3>1. ASSUME History(c) # {}
          PROVE  l.action.seq = 1 /\ l.action = p
      <4>1. l \in History(c) /\ l.action.seq = NextSequence(c)
        BY <1>1, <2>2, <2>3, <3>1, LatestEvent
      <4> QED
        BY <1>1, <2>1, <2>3, <4>1, StateType
    <3> QED
      BY <2>2, <2>3, <3>1 DEF LeadsTo
  <2>4. CASE chan[c] # Nothing
    <3>1. PICK s \in History(c) : Matches(chan[c], s) /\ s.action.seq = NextSequence(c) - 1
      BY <2>4, StateEvent
    <3>2. /\ l \in History(c)
          /\ l.action.seq = NextSequence(c) \/ Matches(chan[c], l)
      BY <1>1, <2>2, <3>1, LatestEvent
    <3>3. ASSUME l.action.seq = NextSequence(c)
          PROVE  /\ l.action = p /\ l.action.seq = chan[c].action.seq + 1
                 /\ l.previous = chan[c].active
      <4>1. l.action.seq = s.action.seq + 1 /\ l.action.seq = chan[c].action.seq + 1
        BY <1>1, <2>4, <3>1, <3>3, StateType
      <4>2. l.previous = s.active
        BY <1>1, <3>1, <3>2, <4>1 DEF ChannelInv, HistoryInv
      <4> QED
        BY <2>1, <3>1, <3>2, <3>3, <4>1, <4>2 DEF Matches
    <3> QED
      BY <2>2, <2>4, <3>1, <3>2, <3>3 DEF LeadsTo
  <2> QED
    BY <2>3, <2>4
<1> QED
  BY <1>3, <1>4, <1>5, <1>7, <1>8 DEF ReadsWith, ArchiveReads, WholeFiles, ClockCaughtUp

\* release.py:525, 541-569, 960-990, 1110-1229.  Between commands and once the
\* clock has caught up, a channel without an interrupted action can be read
\* and an interrupted action is permitted again, whatever interrupted it and
\* however often, unless a death has left a torn file that its reads open.
THEOREM Completable == Spec => []Recoverable
<1>1. IInv => Recoverable
  <2> SUFFICES ASSUME IInv, ClockCaughtUp, NEW c \in Channels, WholeFiles(c),
                      c = "stable" => CanaryReads
               PROVE  /\ Pending(c) = {} => ReadsWith(c, Nothing)
                      /\ \A m \in Pending(c) : Activatable(m) => Permitted(m)
    BY DEF Recoverable
  <2>1. Pending(c) = {} => ReadsWith(c, Nothing)
    BY Standing
  <2>2. ASSUME NEW m \in Pending(c), Activatable(m)
        PROVE  Permitted(m)
    <3>1. m \in Archive(c) /\ m.seq = NextSequence(c)
      BY PendingIsNext DEF Pending
    <3>2. Types /\ ArchiveInv(c) /\ m \in Manifests /\ m.channel = c /\ m \in archived
      BY <3>1, ArchiveType DEF IInv, ChannelInv
    <3>3. Admissible(m)
      BY <3>1, <3>2 DEF ArchiveInv
    <3>4. ReadsWith(c, m) /\ (\A e \in History(c) : Proven(c, e)) /\ m.issued <= now
      BY <3>2, Standing DEF ClockCaughtUp
    <3>5. CASE m.kind = "release"
      <4>1. \A e \in Promotions(c) : e.action # m => Version[e.active.build] < Version[m.build]
        BY <3>2, <3>3, <3>5 DEF Admissible
      <4>2. c = "stable" => \E e \in Promotions("canary") : e.active.build = m.build
        BY <3>2, <3>3, <3>5 DEF Admissible
      <4>3. MayPromote(m)
        BY <3>2, <3>5, <4>1, <4>2 DEF MayPromote
      <4> QED
        BY <2>2, <3>1, <3>2, <3>4, <4>3 DEF Permitted
    <3>6. CASE m.kind = "restoration"
      <4>1. /\ chan[c] # Nothing /\ m.target # chan[c].active
            /\ m.build = m.target.build /\ m.build \in artifacts
            /\ \E e \in Promotions(c) : e.action = m.target
        BY <3>2, <3>3, <3>6 DEF Admissible
      <4>2. MayRestore(m)
        BY <3>2, <3>4, <3>6, <4>1 DEF MayRestore, Promotions
      <4> QED
        BY <2>2, <3>1, <3>2, <3>4, <4>2 DEF Permitted
    <3> QED
      BY <3>2, <3>5, <3>6, ManifestFields
  <2> QED
    BY <2>1, <2>2
<1> QED
  BY <1>1, Inductive, PTL

-----------------------------------------------------------------------------
(* The register.                                                           *)

Log == [c \in Channels |-> Applied(c)]

\* What has taken effect at each position of a channel.
LEMMA AppliedAt ==
  ASSUME IInv, NEW c \in Channels
  PROVE  /\ Applied(c) \in Seq(Manifests) /\ Len(Applied(c)) = NextSequence(c) - 1
         /\ DOMAIN Applied(c) = 1 .. NextSequence(c) - 1
         /\ \A n \in Archive(c) : n.seq < NextSequence(c) => Applied(c)[n.seq] = n
         /\ \A k \in DOMAIN Applied(c) : \E e \in History(c) :
              e.action.seq = k /\ e.action \in Archive(c) /\ Applied(c)[k] = e.action
<1>1. Types /\ ChannelInv(c) /\ NextSequence(c) \in Nat \ {0}
  BY StateType DEF IInv
<1>2. DOMAIN Applied(c) = 1 .. NextSequence(c) - 1
  BY DEF Applied
<1>3. ASSUME NEW n \in Archive(c), n.seq \in DOMAIN Applied(c)
      PROVE  Applied(c)[n.seq] = n
  <2>1. PICK k : k = n.seq
    OBVIOUS
  <2>2. Applied(c)[k] = CHOOSE m \in Archive(c) : m.seq = k
    BY <1>2, <1>3, <2>1 DEF Applied
  <2>3. \A m \in Archive(c) : m.seq = k => m = n
    BY <1>1, <2>1 DEF ChannelInv, ArchiveInv
  <2> QED
    BY <2>1, <2>2, <2>3
<1>4. \A n \in Archive(c) : n.seq < NextSequence(c) => n.seq \in DOMAIN Applied(c)
  BY <1>1, <1>2, PendingIsNext
<1>5. ASSUME NEW k \in DOMAIN Applied(c)
      PROVE  \E e \in History(c) :
               e.action.seq = k /\ e.action \in Archive(c) /\ Applied(c)[k] = e.action
  <2>1. PICK e \in History(c) : e.action.seq = k
    BY <1>1, <1>2, <1>5 DEF ChannelInv, HistoryInv
  <2>2. e.action \in Archive(c)
    BY <1>1, RecordedIsArchived DEF ChannelInv
  <2> QED
    BY <1>3, <1>5, <2>1, <2>2
<1>6. Applied(c) \in [1 .. NextSequence(c) - 1 -> Manifests]
  <2>1. \A k \in DOMAIN Applied(c) : Applied(c)[k] \in Manifests
    BY <1>1, <1>5, ArchiveType
  <2>2. Applied(c) = [k \in DOMAIN Applied(c) |-> Applied(c)[k]]
    BY DEF Applied
  <2> QED
    BY <1>2, <2>1, <2>2
<1>7. Applied(c) \in Seq(Manifests) /\ Len(Applied(c)) = NextSequence(c) - 1
  BY <1>1, <1>6
<1> QED
  BY <1>2, <1>3, <1>4, <1>5, <1>7

\* What has taken effect stays as it is.
LEMMA AppliedStays ==
  ASSUME IInv, IInv', NEW c \in Channels, Archive(c) \subseteq Archive(c)',
         NEW k \in DOMAIN Applied(c), NextSequence(c) <= NextSequence(c)',
         NextSequence(c)' \in Nat
  PROVE  k \in DOMAIN Applied(c)' /\ Applied(c)'[k] = Applied(c)[k]
<1>1. Types /\ NextSequence(c) \in Nat \ {0}
  BY StateType DEF IInv
<1>2. k \in 1 .. NextSequence(c)' - 1 /\ DOMAIN Applied(c)' = 1 .. NextSequence(c)' - 1
  BY <1>1, AppliedAt DEF Applied
<1>3. PICK n \in Archive(c) : n.seq = k /\ Applied(c)[k] = n
  BY AppliedAt
<1>4. Applied(c)'[k] = CHOOSE m \in Archive(c)' : m.seq = k
  BY <1>2 DEF Applied
<1>5. \A m \in Archive(c)' : m.seq = k => m = n
  BY <1>3 DEF IInv, ChannelInv, ArchiveInv
<1> QED
  BY <1>2, <1>3, <1>4, <1>5

LEMMA LogStays ==
  ASSUME IInv, IInv', archived \subseteq archived', NEW c \in Channels,
         NextSequence(c)' = NextSequence(c)
  PROVE  Applied(c)' = Applied(c)
<1>1. NextSequence(c) \in Nat \ {0}
  BY StateType DEF IInv
<1>2. Archive(c) \subseteq Archive(c)'
  BY DEF Archive
<1>3. \A k \in DOMAIN Applied(c) : Applied(c)'[k] = Applied(c)[k]
  BY <1>1, <1>2, AppliedStays
<1>4. DOMAIN Applied(c) = 1 .. NextSequence(c) - 1 /\ DOMAIN Applied(c)' = 1 .. NextSequence(c) - 1
  BY DEF Applied
<1>5. /\ Applied(c) = [k \in 1 .. NextSequence(c) - 1 |-> Applied(c)[k]]
      /\ Applied(c)' = [k \in 1 .. NextSequence(c) - 1 |-> Applied(c)'[k]]
  BY DEF Applied
<1> QED
  BY <1>3, <1>4, <1>5

\* Making an action current appends it to the log.
LEMMA LogGrows ==
  ASSUME IInv, IInv', archived' = archived, NEW m \in Manifests, m \in archived,
         m.seq = NextSequence(m.channel), NextSequence(m.channel)' = m.seq + 1
  PROVE  Applied(m.channel)' = Append(Applied(m.channel), m)
<1> DEFINE c == m.channel
           log == Applied(c)
           grown == Applied(c)'
<1>1. c \in Channels /\ m.seq \in Nat \ {0} /\ m \in Archive(c)
  BY ManifestFields, BoundsAssumption DEF Archive
<1>2. Archive(c)' = Archive(c)
  BY DEF Archive
<1>3. DOMAIN log = 1 .. m.seq - 1 /\ Len(log) = m.seq - 1 /\ log \in Seq(Manifests)
  BY <1>1, AppliedAt
<1>4. \A k \in DOMAIN log : grown[k] = log[k]
  BY <1>1, <1>2, AppliedStays
<1>5. DOMAIN grown = 1 .. m.seq
  BY <1>1 DEF Applied
<1>6. grown[m.seq] = m
  <2>1. grown[m.seq] = CHOOSE n \in Archive(c) : n.seq = m.seq
    BY <1>1, <1>2, <1>5 DEF Applied
  <2>2. \A n \in Archive(c) : n.seq = m.seq => n = m
    BY <1>1 DEF IInv, ChannelInv, ArchiveInv
  <2> QED
    BY <1>1, <2>1, <2>2
<1>7. grown = [k \in 1 .. m.seq |-> grown[k]]
  BY <1>1 DEF Applied
<1>8. /\ Append(log, m) \in Seq(Manifests) /\ Len(Append(log, m)) = m.seq
      /\ \A k \in 1 .. m.seq : Append(log, m)[k] = IF k = m.seq THEN m ELSE log[k]
  <2>1. PICK s : s = log
    OBVIOUS
  <2>2. s \in Seq(Manifests) /\ Len(s) + 1 = m.seq
    BY <1>1, <1>3, <2>1
  <2>3. /\ Append(s, m) \in Seq(Manifests) /\ Len(Append(s, m)) = Len(s) + 1
        /\ \A k \in 1 .. Len(s) : Append(s, m)[k] = s[k]
        /\ Append(s, m)[Len(s) + 1] = m
    BY <2>2, AppendProperties
  <2> QED
    BY <1>1, <2>1, <2>2, <2>3
<1>9. \A k \in 1 .. m.seq : grown[k] = Append(log, m)[k]
  BY <1>1, <1>3, <1>4, <1>6, <1>8
<1>10. Append(log, m) = [k \in 1 .. m.seq |-> Append(log, m)[k]]
  <2>1. PICK s : s = Append(log, m)
    OBVIOUS
  <2>2. s \in Seq(Manifests) /\ Len(s) = m.seq
    BY <1>8, <2>1
  <2> QED
    BY <2>1, <2>2
<1> QED
  BY <1>7, <1>9, <1>10

\* What is admissible is what the register allows next.
LEMMA AdmissibleApplies ==
  ASSUME IInv, NEW m \in Manifests, Admissible(m), m \in archived
  PROVE  m.seq = Len(Log[m.channel]) + 1 /\ (Register!Promote(m) \/ Register!Restore(m))
<1> DEFINE c == m.channel
<1>1. /\ c \in Channels /\ m.seq = NextSequence(c) /\ m.seq \in Nat \ {0} /\ m \in Archive(c)
      /\ "canary" \in Channels
  BY ManifestFields, BoundsAssumption DEF Admissible, Archive, Channels
<1>2. \A d \in Channels : Types /\ ChannelInv(d) /\ Log[d] = Applied(d)
  BY DEF IInv, Log
<1>3. m.seq = Len(Log[c]) + 1
  BY <1>1, <1>2, AppliedAt
<1>4. \A d : Register!Promoted(d) = {Log[d][n] : n \in {k \in DOMAIN Log[d] : Log[d][k].kind = "release"}}
  BY DEF Register!Promoted, Log
<1>5. ASSUME NEW d \in Channels, NEW e \in Promotions(d), e.action.seq < NextSequence(d)
      PROVE  e.action \in Register!Promoted(d)
  <2>1. e \in History(d) /\ e.action \in Releases /\ e.action.kind = "release"
    BY <1>2, PromotionType, ReleaseFields
  <2>2. e.action \in Archive(d) /\ e.action.seq \in Nat \ {0}
    BY <1>2, <2>1, RecordedIsArchived, EventSequence DEF ChannelInv
  <2>3. Applied(d)[e.action.seq] = e.action /\ e.action.seq \in DOMAIN Applied(d)
    BY <1>2, <1>5, <2>2, AppliedAt, StateType
  <2> QED
    BY <1>2, <1>4, <2>1, <2>3
<1>6. CASE m.kind = "release"
  <2>1. ASSUME NEW p \in Register!Promoted(c)
        PROVE  Version[p.build] < Version[m.build]
    <3>1. PICK k \in DOMAIN Applied(c) : p = Applied(c)[k] /\ p.kind = "release"
      BY <1>1, <1>2, <1>4, <2>1
    <3>2. PICK e \in History(c) : e.action.seq = k /\ p = e.action
      BY <1>1, <3>1, AppliedAt
    <3>3. e \in Promotions(c) /\ e.active.build = p.build
      BY <1>1, <1>2, <3>1, <3>2 DEF Promotions, ChannelInv, EventsInv
    <3>4. e.action # m
      BY <1>1, <3>1, <3>2, AppliedAt
    <3> QED
      BY <1>6, <3>3, <3>4 DEF Admissible
  <2>2. ASSUME c = "stable"
        PROVE  \E p \in Register!Promoted("canary") : p.build = m.build
    <3>1. PICK e \in Promotions("canary") :
                 e.active.build = m.build /\ e.action.seq < NextSequence("canary")
      BY <1>6, <2>2 DEF Admissible
    <3>2. e.active.build = e.action.build
      BY <1>1, <1>2, <3>1 DEF Promotions, ChannelInv, EventsInv
    <3> QED
      BY <1>1, <1>5, <3>1, <3>2
  <2> QED
    BY <1>3, <1>6, <2>1, <2>2 DEF Register!Promote
<1>7. CASE m.kind = "restoration"
  <2>1. /\ chan[c] # Nothing /\ m.target # chan[c].active /\ m.build = m.target.build
        /\ \E e \in Promotions(c) : e.action = m.target
    BY <1>7 DEF Admissible
  <2>2. PICK e \in Promotions(c) : e.action = m.target
    BY <2>1
  <2>3. e \in History(c) /\ e.action.kind = "release"
    BY <1>1, <1>2, <2>2, PromotionType, ReleaseFields
  <2>4. e.action.seq < NextSequence(c)
    <3>1. e.action \in Archive(c) /\ e.action.seq \in Nat /\ e.action.seq <= NextSequence(c)
      BY <1>1, <1>2, <2>3, RecordedIsArchived, EventSequence DEF ChannelInv
    <3>2. e.action # m
      BY <1>7, <2>3
    <3>3. e.action.seq # m.seq
      BY <1>1, <1>2, <3>1, <3>2 DEF ChannelInv, ArchiveInv
    <3> QED
      BY <1>1, <3>1, <3>3
  <2>5. m.target \in Register!Promoted(c)
    BY <1>1, <1>5, <2>2, <2>4
  <2>6. PICK s \in History(c) : Matches(chan[c], s) /\ s.action.seq = NextSequence(c) - 1
    BY <1>1, <2>1, StateEvent
  <2>7. Log[c][Len(Log[c])] = s.action
    <3>1. s.action \in Archive(c)
      BY <1>1, <1>2, RecordedIsArchived DEF ChannelInv
    <3>2. Applied(c)[s.action.seq] = s.action /\ Len(Applied(c)) = s.action.seq
      BY <1>1, <2>6, <3>1, AppliedAt
    <3> QED
      BY <1>1, <1>2, <3>2
  <2>8. Register!Active(s.action) = chan[c].active
    BY <1>1, <1>2, <2>6 DEF Register!Active, ActiveOf, ChannelInv, EventsInv, Matches
  <2>9. m.target # Register!Active(Log[c][Len(Log[c])])
    BY <2>1, <2>7, <2>8
  <2> QED
    BY <1>3, <1>7, <2>1, <2>5, <2>9 DEF Register!Restore, Log
<1> QED
  BY <1>3, <1>6, <1>7, ManifestFields

\* Only the last write of a command takes effect, and as the register allows.
LEMMA ActivateRefines ==
  ASSUME IInv, IInv', WriteState
  PROVE  Register!Next \/ Log' = Log
<1>0. PICK m : m = cmd.action
  OBVIOUS
<1> DEFINE c == m.channel
<1>1. /\ pc = "state" /\ UNCHANGED <<archived, artifacts, events>>
  BY DEF WriteState
<1>2. /\ m \in Signed /\ m \in Manifests /\ c \in Channels /\ m.seq = NextSequence(c)
      /\ Admissible(m) /\ m \in archived /\ Types
  BY <1>0, <1>1, Running DEF IInv, CmdInv
<1>3. CASE TimeToActivate
  <2>1. PICK s : s = [action |-> cmd.action, active |-> cmd.active, proof |-> cmd.proof,
                      recorded |-> cmd.pending.recorded, activated |-> now]
    OBVIOUS
  <2>2. chan' = [chan EXCEPT ![c] = s] /\ s.action = m
    BY <1>0, <1>3, <2>1 DEF WriteState
  <2>3. chan'[c] = s /\ \A d \in Channels : d # c => chan'[d] = chan[d]
    BY <1>2, <2>2 DEF Types, TypeOK
  <2>4. "action" \in DOMAIN s
    BY <2>1
  <2>5. NextSequence(c)' = m.seq + 1 /\ \A d \in Channels : d # c => NextSequence(d)' = NextSequence(d)
    BY <1>2, <2>2, <2>3, <2>4, NothingIsNone DEF NextSequence
  <2>6. Applied(c)' = Append(Applied(c), m)
    BY <1>1, <1>2, <2>5, LogGrows
  <2>7. \A d \in Channels : d # c => Applied(d)' = Applied(d)
    BY <1>1, <2>5, LogStays
  <2>8. Log' = [Log EXCEPT ![c] = Append(@, m)]
    BY <1>2, <2>6, <2>7 DEF Log
  <2>9. Register!Apply(m)
    BY <1>2, <2>8, AdmissibleApplies DEF Register!Apply, Log
  <2> QED
    BY <1>2, <2>9 DEF Register!Next
<1>4. CASE ~TimeToActivate
  <2>1. \A d \in Channels : NextSequence(d)' = NextSequence(d)
    BY <1>4 DEF WriteState, NextSequence
  <2>2. \A d \in Channels : Applied(d)' = Applied(d)
    BY <1>1, <2>1, LogStays
  <2> QED
    BY <2>2 DEF Log
<1> QED
  BY <1>3, <1>4

LEMMA OthersStutter ==
  ASSUME IInv, IInv', [Next]_vars, ~WriteState
  PROVE  Log' = Log
<1>1. chan' = chan /\ archived \subseteq archived'
  BY DEF Next, vars, disk, files, Begin, ArchiveManifest, ArchiveArtifact, WriteEvent, Interrupt,
         DieWriting,
         ReadState, ReadHistory, EndRead, Tick, ClockBack, Upgrade
<1>2. \A d \in Channels : NextSequence(d)' = NextSequence(d)
  BY <1>1 DEF NextSequence
<1>3. \A d \in Channels : Applied(d)' = Applied(d)
  BY <1>1, <1>2, LogStays
<1> QED
  BY <1>3 DEF Log

\* release.py:1110-1187.  The files of the channels implement the register of
\* applied actions, through every interruption and retry.
THEOREM Refinement == Spec => ImplementsRegister
<1>1. Init => Register!Init
  <2> SUFFICES ASSUME Init PROVE Register!Init
    OBVIOUS
  <2>1. \A c \in Channels : NextSequence(c) = 1
    BY DEF Init, NextSequence
  <2>2. ASSUME NEW c \in Channels PROVE Applied(c) = <<>>
    <3>1. IInv
      BY InitHolds
    <3>2. Applied(c) \in Seq(Manifests) /\ Len(Applied(c)) = 0
      BY <2>1, <3>1, AppliedAt
    <3> QED
      BY <3>2
  <2> QED
    BY <2>2 DEF Register!Init
<1>2. IInv /\ IInv' /\ [Next]_vars => [Register!Next]_Log
  BY ActivateRefines, OthersStutter
<1>3. Log = [c \in Channels |-> Applied(c)]
  BY DEF Log
<1>4. IInv /\ IInv' /\ [Next]_vars => [Register!Next]_([c \in Channels |-> Applied(c)])
  BY <1>2 DEF Log
<1> QED
  BY <1>1, <1>4, Inductive, PTL DEF Spec, ImplementsRegister, Register!RegisterSpec
=============================================================================
