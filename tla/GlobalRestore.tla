---------------------------- MODULE GlobalRestore ----------------------------
(***************************************************************************)
(* Physical restore of the installation-wide Global database, with the     *)
(* maintenance admission it runs under, the backups it restores and the    *)
(* ordinary clients that read and write the database between two tries.    *)
(*                                                                         *)
(* A restore operation owns a private directory: a journal, a staged image *)
(* and the retained previous image.  Every change of one of these files is *)
(* a step.  Between any two steps the process may be killed or return an   *)
(* I/O error; either way the kernel drops its exclusive lock, the files    *)
(* stay, and the same operation can be tried again.                        *)
(*                                                                         *)
(* A database image is its identity, its revision, its schema version and  *)
(* the set of commits it contains; comparing two images stands for         *)
(* comparing the content digests.  Abstracted: paths, symlink checks,      *)
(* SQLite sidecars, directory syncs (a killed process loses no rename),    *)
(* the temporary copies that a rename publishes, version 1 journals.       *)
(***************************************************************************)
EXTENDS Naturals, FiniteSets

CONSTANTS
  Ops,            \* restore operation identifiers
  Packages,       \* backup package paths
  Clients,        \* ordinary connections
  MaxCommits,     \* bound on ordinary commits
  MaxInterrupts   \* bound on killed or failed restore tries

ASSUME BoundAssumption == MaxCommits \in Nat /\ MaxInterrupts \in Nat

VARIABLES
  live,         \* the active database file
  package,      \* the published backup packages
  shared,       \* clients that hold shared admission
  try,          \* the restore process of each operation: step and package asked for
  journal,      \* restore-journal.json of each operation
  staged,       \* the staged image of each operation
  previous,     \* previous.sqlite of each operation
  reported,     \* operations that answered success
  ids,          \* identities handed out so far
  lived,        \* identities that were live at some time
  commits,      \* ordinary commits so far
  interrupts

clientVars == <<package, shared, commits>>
fileVars == <<journal, staged, previous>>
ghostVars == <<reported, ids, lived>>
vars == <<live, clientVars, try, fileVars, ghostVars, interrupts>>

Current == 3   \* GLOBAL_SCHEMA_VERSION; anything below is migrated on open

NoFile == [id |-> 0, rev |-> 0, schema |-> 0, data |-> {}]
Present(image) == image.id # 0

Phases == {"none", "intent", "staged_ready", "previous_retained", "activated", "committed"}
Steps == {"idle", "journal", "check", "stage", "rebrand", "staged", "verify", "retain", "retained",
          "prepare", "activate", "activated", "finish"}

None == "none"
NoTry == [step |-> "idle", package |-> None]
NoJournal == [phase |-> "none", package |-> None, source |-> NoFile, target |-> 0, previous |-> NoFile]

MaxIds == 2 + Cardinality(Ops)
Images == [id : 0..MaxIds, rev : 0..MaxCommits, schema : 0..Current, data : SUBSET (1..MaxCommits)]

TypeOK ==
  /\ live \in Images
  /\ package \in [Packages -> Images]
  /\ shared \subseteq Clients
  /\ try \in [Ops -> [step : Steps, package : Packages \cup {None}]]
  /\ journal \in [Ops -> [phase : Phases, package : Packages \cup {None}, source : Images,
                          target : 0..MaxIds, previous : Images]]
  /\ staged \in [Ops -> Images]
  /\ previous \in [Ops -> Images]
  /\ reported \subseteq Ops
  /\ ids \in 0..MaxIds
  /\ lived \subseteq 1..MaxIds
  /\ commits \in 0..MaxCommits
  /\ interrupts \in 0..MaxInterrupts

\* A database written by an older version, or none and perhaps a package of
\* an earlier installation.
Init ==
  /\ live \in {NoFile, [id |-> 1, rev |-> 0, schema |-> Current - 1, data |-> {}]}
  /\ package \in [Packages -> {NoFile, [id |-> 1, rev |-> 0, schema |-> Current, data |-> {}]}]
  /\ Present(live) => package = [p \in Packages |-> NoFile]
  /\ shared = {}
  /\ try = [o \in Ops |-> NoTry]
  /\ journal = [o \in Ops |-> NoJournal]
  /\ staged = [o \in Ops |-> NoFile]
  /\ previous = [o \in Ops |-> NoFile]
  /\ reported = {}
  /\ ids = 1
  /\ lived = {1}
  /\ commits = 0
  /\ interrupts = 0

-----------------------------------------------------------------------------
(* Admission: flock, shared or exclusive, never waiting.                   *)

ExclusiveFree == shared = {} /\ \A o \in Ops : try[o].step = "idle"

\* Mutant: a client is admitted whatever a restore does.
SharedFreeIgnoringRestore == TRUE

SharedFree == \A o \in Ops : try[o].step = "idle"

(* Ordinary clients.                                                       *)

\* First open: the file is created and initialised under migration admission.
Bootstrap ==
  /\ ExclusiveFree /\ ~Present(live)
  /\ live' = [id |-> ids + 1, rev |-> 0, schema |-> Current, data |-> {}]
  /\ ids' = ids + 1
  /\ lived' = lived \cup {ids + 1}
  /\ UNCHANGED <<clientVars, try, fileVars, reported, interrupts>>

\* An older schema is upgraded in place: the content changes, the identity
\* and the revision do not.
MigrateSchema ==
  /\ ExclusiveFree /\ Present(live) /\ live.schema < Current
  /\ live' = [live EXCEPT !.schema = Current]
  /\ UNCHANGED <<clientVars, try, fileVars, ghostVars, interrupts>>

Open(c) ==
  /\ c \notin shared
  /\ SharedFree /\ Present(live) /\ live.schema = Current
  /\ shared' = shared \cup {c}
  /\ UNCHANGED <<live, package, commits, try, fileVars, ghostVars, interrupts>>

Commit(c) ==
  /\ c \in shared /\ commits < MaxCommits
  /\ live' = [live EXCEPT !.rev = @ + 1, !.data = @ \cup {commits + 1}]
  /\ commits' = commits + 1
  /\ UNCHANGED <<package, shared, try, fileVars, ghostVars, interrupts>>

\* A destination that already holds a package is never written again.
Backup(c, p) ==
  /\ c \in shared /\ ~Present(package[p])
  /\ package' = [package EXCEPT ![p] = live]
  /\ UNCHANGED <<live, shared, commits, try, fileVars, ghostVars, interrupts>>

Close(c) ==
  /\ c \in shared
  /\ shared' = shared \ {c}
  /\ UNCHANGED <<live, package, commits, try, fileVars, ghostVars, interrupts>>

-----------------------------------------------------------------------------
(* One try of a restore operation.                                         *)

At(o, step) == try[o].step = step
Go(o, step) == try' = [try EXCEPT ![o].step = step]
Refuse(o) == try' = [try EXCEPT ![o] = NoTry]

\* The package is validated, then exclusive admission is taken.
Acquire(o, p) ==
  /\ ExclusiveFree /\ Present(package[p])
  /\ try' = [try EXCEPT ![o] = [step |-> "journal", package |-> p]]
  /\ UNCHANGED <<live, clientVars, fileVars, ghostVars, interrupts>>

\* Mutant: the restored database keeps the identity of its package.
FreshIdIsPackageId(p) == package[p].id

FreshId(p) == ids + 1

\* A first try writes the intent, and with it the identity the restored
\* database will have; a later one must ask for the same package.
LoadJournal(o) ==
  LET p == try[o].package
      j == journal[o]
  IN  /\ At(o, "journal")
      /\ \/ /\ j.phase = "none"
            /\ journal' = [journal EXCEPT ![o] = [phase |-> "intent", package |-> p,
                             source |-> package[p], target |-> FreshId(p), previous |-> live]]
            /\ ids' = ids + 1
            /\ Go(o, "check")
         \/ /\ j.phase # "none" /\ j.package = p
            /\ Go(o, "check") /\ UNCHANGED <<journal, ids>>
         \/ /\ j.phase # "none" /\ j.package # p
            /\ Refuse(o) /\ UNCHANGED <<journal, ids>>
      /\ UNCHANGED <<live, clientVars, staged, previous, reported, lived, interrupts>>

Restored(o) == [journal[o].source EXCEPT !.id = journal[o].target]

\* Has this operation replaced the live file already, and if not, is the
\* live file still the one the intent was written for?
ResumeAt(o) ==
  LET j == journal[o]
  IN  CASE live.id = j.target /\ j.phase \notin {"intent", "staged_ready"} -> "finish"
        [] live = j.previous /\ j.phase = "intent" -> "stage"
        [] live = j.previous /\ j.phase \in {"staged_ready", "previous_retained"} -> "verify"
        [] OTHER -> "idle"

CheckActive(o) ==
  /\ At(o, "check")
  /\ IF ResumeAt(o) = "idle" THEN Refuse(o) ELSE Go(o, ResumeAt(o))
  /\ UNCHANGED <<live, clientVars, fileVars, ghostVars, interrupts>>

\* Mutant: an unfinished stage in the way is an error.
StagePackageOnce(o) ==
  /\ At(o, "stage")
  /\ IF Present(staged[o])
       THEN Refuse(o) /\ UNCHANGED staged
       ELSE staged' = [staged EXCEPT ![o] = package[try[o].package]] /\ Go(o, "rebrand")
  /\ UNCHANGED <<live, clientVars, journal, previous, ghostVars, interrupts>>

\* What is left of an interrupted stage is cleared and copied again.
StagePackage(o) ==
  /\ At(o, "stage")
  /\ staged' = [staged EXCEPT ![o] = package[try[o].package]]
  /\ Go(o, "rebrand")
  /\ UNCHANGED <<live, clientVars, journal, previous, ghostVars, interrupts>>

RebrandStaged(o) ==
  /\ At(o, "rebrand")
  /\ staged' = [staged EXCEPT ![o].id = journal[o].target]
  /\ Go(o, "staged")
  /\ UNCHANGED <<live, clientVars, journal, previous, ghostVars, interrupts>>

VerifyStaged(o) ==
  /\ At(o, "verify")
  /\ IF staged[o] = Restored(o) THEN Go(o, "retain") ELSE Refuse(o)
  /\ UNCHANGED <<live, clientVars, fileVars, ghostVars, interrupts>>

\* A phase is durable before the step it admits.
RecordPhase(o, step, phase, next) ==
  /\ At(o, step)
  /\ journal' = [journal EXCEPT ![o].phase = phase]
  /\ Go(o, next)
  /\ UNCHANGED <<live, clientVars, staged, previous, ghostVars, interrupts>>

RecordStaged(o) == RecordPhase(o, "staged", "staged_ready", "retain")
RecordRetained(o) == RecordPhase(o, "retained", "previous_retained", "prepare")
RecordActivated(o) == RecordPhase(o, "activated", "activated", "finish")

\* The live database is copied beside the stage before it may be replaced; a
\* complete copy is kept, anything else is copied again.
RetainPrevious(o) ==
  /\ At(o, "retain")
  /\ IF live = journal[o].previous
       THEN previous' = [previous EXCEPT ![o] = live] /\ Go(o, "retained")
       ELSE Refuse(o) /\ UNCHANGED previous
  /\ UNCHANGED <<live, clientVars, journal, staged, ghostVars, interrupts>>

\* The live file is looked at a last time, and so is the stage.
PrepareActive(o) ==
  /\ At(o, "prepare")
  /\ IF /\ live.id = journal[o].previous.id /\ live.rev = journal[o].previous.rev
        /\ staged[o] = Restored(o)
       THEN Go(o, "activate")
       ELSE Refuse(o)
  /\ UNCHANGED <<live, clientVars, fileVars, ghostVars, interrupts>>

\* rename(staged, live).
Activate(o) ==
  /\ At(o, "activate")
  /\ live' = staged[o]
  /\ staged' = [staged EXCEPT ![o] = NoFile]
  /\ lived' = lived \cup {staged[o].id}
  /\ Go(o, "activated")
  /\ UNCHANGED <<clientVars, journal, previous, reported, ids, interrupts>>

\* Success is answered only after the retained and the live image were read
\* back; a live revision other than the package's is refused.
FinishActivated(o) ==
  /\ At(o, "finish")
  /\ IF previous[o] = journal[o].previous /\ live = Restored(o)
       THEN /\ journal' = [journal EXCEPT ![o].phase = "committed"]
            /\ reported' = reported \cup {o}
       ELSE UNCHANGED <<journal, reported>>
  /\ Refuse(o)
  /\ UNCHANGED <<live, clientVars, staged, previous, ids, lived, interrupts>>

\* The process is killed or an I/O call fails.
Interrupt(o) ==
  /\ try[o].step # "idle" /\ interrupts < MaxInterrupts
  /\ Refuse(o)
  /\ interrupts' = interrupts + 1
  /\ UNCHANGED <<live, clientVars, fileVars, ghostVars>>

-----------------------------------------------------------------------------
ClientStep ==
  \/ Bootstrap
  \/ MigrateSchema
  \/ \E c \in Clients : Open(c) \/ Commit(c) \/ Close(c)
  \/ \E c \in Clients, p \in Packages : Backup(c, p)

TryStep(o) ==
  \/ LoadJournal(o)
  \/ CheckActive(o)
  \/ StagePackage(o)
  \/ RebrandStaged(o)
  \/ RecordStaged(o)
  \/ VerifyStaged(o)
  \/ RetainPrevious(o)
  \/ RecordRetained(o)
  \/ PrepareActive(o)
  \/ Activate(o)
  \/ RecordActivated(o)
  \/ FinishActivated(o)

Next ==
  \/ ClientStep
  \/ \E o \in Ops, p \in Packages : Acquire(o, p)
  \/ \E o \in Ops : TryStep(o) \/ Interrupt(o)

Spec == Init /\ [][Next]_vars

\* A restore once begun is tried again until it answers success.
Retry(o) ==
  /\ journal[o].phase # "none" /\ o \notin reported
  /\ Acquire(o, journal[o].package)

\* A process that runs goes on and a connection is closed some day.  The
\* lock never queues: an operator who repeats a busy restore gets it when it
\* is free again and again, which is strong fairness.
Fairness ==
  /\ \A o \in Ops : WF_vars(TryStep(o)) /\ SF_vars(Retry(o))
  /\ \A c \in Clients : WF_vars(Close(c))

FairSpec == Spec /\ Fairness

-----------------------------------------------------------------------------
\* No ordinary commit is ever destroyed: whatever is restored over it, in
\* whatever order tries are killed and repeated, it is in the live database
\* or in the previous.sqlite some operation retained
\* (retain_previous_database before activate_staged_database).
NothingIsLost ==
  \A w \in 1..commits : w \in live.data \/ \E o \in Ops : w \in previous[o].data

\* An identity names one database: the one that replaces the live file has
\* never been live before, so that a clone and its origin are told apart
\* although their revisions meet again (fresh_database_id, kept in the
\* journal over every retry).
IdentityIsFresh ==
  [][live'.id # live.id => live'.id \notin lived /\ live'.id \notin {package[p].id : p \in Packages}]_vars

\* An interrupted restore can always be resumed to its success, from every
\* step, unless the database was changed by somebody else meanwhile
\* (restore_global_backup_package_with_interruption).
RestoreResumes ==
  \A o \in Ops : journal[o].phase # "none" ~>
    o \in reported \/ live \notin {journal[o].previous, Restored(o)}

\* A restore that has replaced the live file answers its success to a retry:
\* the journal is there to resume an interrupted activation idempotently.
\* It does not hold: README, section 5.
ActivationIsReadBack ==
  \A o \in Ops : journal[o].phase # "none" /\ live.id = journal[o].target ~> o \in reported
=============================================================================
