--------------------------- MODULE TransactionLock ---------------------------
(***************************************************************************)
(* The create-once lock file of storage.transaction_lock, which serializes *)
(* the commands of a profile, and of release._release_lock, which          *)
(* serializes those of a release root.  The file is created empty with     *)
(* O_EXCL, then its owner writes a unique token into it, reads it back,    *)
(* runs the transaction and unlinks the file if it still has the token.    *)
(* A waiting command retries every ten milliseconds until its deadline.    *)
(* Tokens are named by the command's process: a process that starts again  *)
(* only meets its old token as a file that exists.                         *)
(***************************************************************************)
EXTENDS Naturals

CONSTANTS Procs,      \* command processes
          MaxFaults,  \* bound on crashes and failed token writes
          Absent,     \* there is no lock file
          Partial,    \* a lock file without a complete token
          Stale       \* the abstract state of a lock nobody will give back

ASSUME FaultsAssumption == MaxFaults \in Nat
ASSUME DistinctAssumption ==
  /\ Absent \notin Procs /\ Partial \notin Procs /\ Stale \notin Procs
  /\ Absent # Partial /\ Absent # Stale

VARIABLES
  kind,    \* which of the two implementations
  file,    \* Absent, Partial, or the token in the lock file
  pc,      \* the next step of each command
  late,    \* the commands whose deadline has passed
  faults   \* crashes and failed token writes so far

vars == <<kind, file, pc, late, faults>>

Init ==
  /\ kind \in {"profile", "release"}
  /\ file = Absent
  /\ pc = [p \in Procs |-> "idle"]
  /\ late = {}
  /\ faults = 0

Goto(p, label) == pc' = [pc EXCEPT ![p] = label]

Start(p) ==
  /\ pc[p] = "idle"
  /\ Goto(p, "open")
  /\ late' = late \ {p}
  /\ UNCHANGED <<kind, file, faults>>

\* Fault variant: the file is opened without O_EXCL.
Mut_CreateShared(p) ==
  /\ pc[p] = "open"
  /\ file' = Partial
  /\ Goto(p, "write")
  /\ UNCHANGED <<kind, late, faults>>

Create(p) ==
  /\ pc[p] = "open"
  /\ file = Absent
  /\ file' = Partial
  /\ Goto(p, "write")
  /\ UNCHANGED <<kind, late, faults>>

\* Until then a failed open is followed by a short sleep and another one.
Deadline(p) ==
  /\ pc[p] = "open"
  /\ late' = late \cup {p}
  /\ UNCHANGED <<kind, file, pc, faults>>

\* Fault variant: the deadline is measured anew after every attempt.
Mut_GiveUpNever(p) ==
  /\ pc[p] = "open"
  /\ file # Absent
  /\ p \in late
  /\ late' = late \ {p}
  /\ UNCHANGED <<kind, file, pc, faults>>

\* Fault variant: a lock that outlasts the deadline is taken for a stale one.
Mut_GiveUpBreaks(p) ==
  /\ pc[p] = "open"
  /\ file # Absent
  /\ p \in late
  /\ file' = Absent
  /\ UNCHANGED <<kind, pc, late, faults>>

\* TimeoutError: the lock is neither broken nor bypassed.
GiveUp(p) ==
  /\ pc[p] = "open"
  /\ file # Absent
  /\ p \in late
  /\ Goto(p, "idle")
  /\ UNCHANGED <<kind, file, late, faults>>

WriteToken(p) ==
  /\ pc[p] = "write"
  /\ file' = p
  /\ Goto(p, "readBack")
  /\ UNCHANGED <<kind, late, faults>>

\* The write or the sync raises, with a part or all of the token in the file.
\* Only the profile lock looks at what it has written.
WriteFails(p) ==
  /\ faults < MaxFaults
  /\ pc[p] = "write"
  /\ file' \in {Partial, p}
  /\ Goto(p, IF kind = "profile" THEN "cleanUp" ELSE "idle")
  /\ faults' = faults + 1
  /\ UNCHANGED <<kind, late>>

ReadBack(p) ==
  /\ pc[p] = "readBack"
  /\ Goto(p, IF file = p THEN "transaction" ELSE "leave")
  /\ UNCHANGED <<kind, file, late, faults>>

Leave(p) ==
  /\ pc[p] = "transaction"
  /\ Goto(p, "leave")
  /\ UNCHANGED <<kind, file, late, faults>>

\* A file without the own token is left alone, and the command fails.
CheckOwn(p) ==
  /\ pc[p] \in {"leave", "cleanUp"}
  /\ Goto(p, IF file = p THEN "unlink" ELSE "idle")
  /\ UNCHANGED <<kind, file, late, faults>>

\* Fault variant: the file is not removed.
Mut_UnlinkNothing(p) ==
  /\ pc[p] = "unlink"
  /\ Goto(p, "idle")
  /\ UNCHANGED <<kind, file, late, faults>>

Unlink(p) ==
  /\ pc[p] = "unlink"
  /\ file' = Absent
  /\ Goto(p, "idle")
  /\ UNCHANGED <<kind, late, faults>>

Crash(p) ==
  /\ faults < MaxFaults
  /\ pc[p] # "idle"
  /\ Goto(p, "idle")
  /\ faults' = faults + 1
  /\ UNCHANGED <<kind, file, late>>

\* The commands that have created the file and still run.
InsideLabels == {"write", "readBack", "transaction", "leave", "cleanUp", "unlink"}

Inside == {p \in Procs : pc[p] \in InsideLabels}

\* An operator removes the file after making sure that no such command runs.
RemoveStaleLock ==
  /\ file # Absent /\ Inside = {}
  /\ file' = Absent
  /\ UNCHANGED <<kind, pc, late, faults>>

Step(p) ==
  \/ Create(p) \/ GiveUp(p) \/ WriteToken(p) \/ ReadBack(p) \/ Leave(p)
  \/ CheckOwn(p) \/ Unlink(p)

Next ==
  \/ \E p \in Procs : Start(p) \/ Deadline(p) \/ Step(p) \/ WriteFails(p) \/ Crash(p)
  \/ RemoveStaleLock

\* A running command is scheduled, its transaction ends, and its clock passes
\* the deadline.  Nothing makes a command start or an operator look.
Fairness == \A p \in Procs : WF_vars(Step(p)) /\ WF_vars(Deadline(p))

Spec == Init /\ [][Next]_vars

FairSpec == Spec /\ Fairness

-----------------------------------------------------------------------------
(* Properties.                                                             *)

Labels == {"idle", "open"} \cup InsideLabels

TypeOK ==
  /\ kind \in {"profile", "release"}
  /\ file \in Procs \cup {Absent, Partial}
  /\ pc \in [Procs -> Labels]
  /\ late \subseteq Procs
  /\ faults \in 0 .. MaxFaults

\* What a command inside knows of the file, although it does not look at it
\* before every step: no other command is inside, and the content is its own.
LockInv ==
  /\ TypeOK
  /\ \A p, q \in Inside : p = q
  /\ \A p \in Inside :
       /\ file # Absent
       /\ pc[p] = "write" => file = Partial
       /\ pc[p] \in {"readBack", "transaction", "leave", "unlink"} => file = p
       /\ pc[p] = "cleanUp" => file \in {Partial, p}

\* The command inside owns the lock; a file nobody inside created is stale.
Abstract ==
  INSTANCE ProfileLock WITH
    Free <- Absent,
    owner <- IF file = Absent THEN Absent
             ELSE IF Inside = {} THEN Stale
             ELSE CHOOSE p \in Inside : TRUE

\* Both lock files implement the lock with one owner, for every order of the
\* file operations and with failed token writes: no command removes or enters
\* a lock of another one, and only a failure makes it stale.
ImplementsLock == Abstract!LockSpec

\* A command never waits for ever, whoever holds the lock or left it behind:
\* it gets its transaction, or gives up after the deadline.
CommandsEnd == \A p \in Procs : pc[p] # "idle" ~> pc[p] = "idle"

\* While nothing failed, the lock becomes free again and again: normal and
\* rejected transactions leave no lock file behind.
FreedWithoutFaults == [](faults = 0) => []<>(file = Absent)
=============================================================================
