--------------------------- MODULE MemoryPublish ---------------------------
(***************************************************************************)
(* Publication of reviewed memory into a Git worktree.  A publisher plans  *)
(* the merged manifest, admits the plan and a durable job in the store,    *)
(* wins the job, and then, under the lock file of the memory root, writes  *)
(* the note and the manifest, stages both, commits them and journals each  *)
(* stage beside the root.  What happened in Git is believed only after it  *)
(* has been read back through that journal; an operator can reconcile a    *)
(* publication whose process died.                                         *)
(*                                                                         *)
(* A note's content is the operation that published it; a manifest is the  *)
(* operation that wrote it with the operation behind each entry, and is    *)
(* its own identity.  A revision is a position in the history of HEAD.     *)
(***************************************************************************)
EXTENDS ExternalJob, Naturals, Sequences, SequencesExt, TLC

CONSTANTS
  Ops,        \* publication operations
  Entries,    \* memory entries
  Procs,      \* processes that publish
  MaxUpsets   \* bound on processes killed and notes edited in the worktree, together

ASSUME BoundAssumption == MaxUpsets \in Nat
ASSUME NameAssumption == None \notin Ops \cup Entries \cup Procs

VARIABLES
  req,     \* what the client of an operation asked for: the entry and the base
  plan,    \* the manifest admitted in the intent row
  job,     \* the external job row
  tree,    \* the worktree of the memory root
  index,   \* the Git index
  history, \* the commits of HEAD, oldest first
  journal, \* the publication journal beside the root
  lock,    \* the lock file at its path: the operation it was created for
  owner,   \* what each operation's lock file says of the process that wrote it
  stolen,  \* whether a reaper has removed a lock file it had not inspected
  proc,    \* the publishing processes
  upsets

vars == <<req, plan, job, tree, index, history, journal, lock, owner, stolen, proc, upsets>>
store == <<req, plan, job>>
git == <<tree, index, history>>
lockFiles == <<lock, owner, stolen>>

Edited == "edited"
NoManifest == [op |-> None, entries |-> [e \in Entries |-> None]]
Empty == [manifest |-> NoManifest, notes |-> [e \in Entries |-> None]]
NoRequest == [entry |-> None, base |-> NoManifest]
NoJournal == [op |-> None, state |-> "clean", manifest |-> NoManifest, rev |-> 0]
Idle == [step |-> "idle", op |-> None, manifest |-> NoManifest, ref |-> None, done |-> FALSE,
         seen |-> None]

Steps == {"idle", "admit", "register", "admit_job", "acquire", "recheck", "lock", "inspect",
          "reap", "sign", "base",
          "prepare", "status", "write_note", "write_manifest", "stage_manifest", "stage_note",
          "record_staged", "commit", "record_committed", "readback", "started", "marked",
          "reconcile"}

Init ==
  /\ req = [o \in Ops |-> NoRequest]
  /\ plan = [o \in Ops |-> NoManifest]
  /\ job = [o \in Ops |-> NoJob]
  /\ tree = Empty /\ index = Empty /\ history = <<>>
  /\ journal = NoJournal
  /\ lock = None /\ owner = [o \in Ops |-> "unsigned"] /\ stolen = FALSE
  /\ proc = [p \in Procs |-> Idle]
  /\ upsets = 0

-----------------------------------------------------------------------------
(* Git as the publisher uses it.                                           *)

HeadTree == IF history = <<>> THEN Empty ELSE Last(history)

Clean == tree = index /\ index = HeadTree

StagedNotes == {e \in Entries : index.notes[e] # HeadTree.notes[e]}

StagedManifest == index.manifest # HeadTree.manifest

Revision(n) == "git:" \o ToString(n)

\* The manifest of the worktree with one entry replaced or added.
Merge(o) ==
  [op |-> o, entries |-> [tree.manifest.entries EXCEPT ![req[o].entry] = o]]

\* Exactly the two files of the publication are in the index, with its bytes.
StagedExactly(o, manifest) ==
  /\ StagedManifest /\ StagedNotes = {req[o].entry}
  /\ index.manifest = manifest /\ index.notes[req[o].entry] = o

-----------------------------------------------------------------------------
(* Reading a publication back.  The journal names one operation, the       *)
(* latest; a journal without a revision is judged against HEAD.            *)

\* Mutant: a journal without a revision is not judged against HEAD.
JournalRevisionRecorded == journal.rev
JournalRevision == IF journal.rev # 0 THEN journal.rev ELSE Len(history)

CommittedProof ==
  /\ JournalRevision # 0
  /\ LET commit == history[JournalRevision]
     IN  /\ commit.manifest = journal.manifest
         /\ commit.notes[req[journal.op].entry] = journal.op

\* The bytes on disk are the ones the journal names.
MaterialMatches ==
  /\ tree.manifest = journal.manifest
  /\ tree.notes[req[journal.op].entry] = journal.op
  /\ journal.state = "staged" => StagedExactly(journal.op, journal.manifest)
  /\ journal.state = "files_prepared" /\ (StagedManifest \/ StagedNotes # {})
       => StagedExactly(journal.op, journal.manifest)

\* Mutant: the journal's word is enough.
PublicationReadbackOfJournal(o) ==
  IF journal.op = None THEN "no_publication"
  ELSE IF journal.op # o THEN "conflict"
  ELSE IF journal.state \in {"staged", "committed"} THEN "reconciled"
  ELSE "readback_required"

PublicationReadback(o) ==
  IF journal.op = None THEN "no_publication"
  ELSE IF journal.op # o THEN "conflict"
  ELSE IF CommittedProof /\ Clean /\ (MaterialMatches \/ journal.state = "staged")
    THEN "reconciled"
  ELSE "readback_required"

SideEffectRef(o) ==
  IF CommittedProof THEN Revision(JournalRevision)
  ELSE IF journal.rev # 0 THEN Revision(journal.rev)
  ELSE "memory-publication"

-----------------------------------------------------------------------------
(* A publishing process.                                                   *)

At(p, step) == proc[p].step = step
Go(p, step) == proc' = [proc EXCEPT ![p].step = step]
Stop(p) == proc' = [proc EXCEPT ![p] = Idle]

\* Between the base check and the journal record of the commit.
Inside(p) ==
  proc[p].step \in {"base", "prepare", "status", "write_note", "write_manifest", "stage_manifest",
                   "stage_note", "record_staged", "commit", "record_committed"}

\* The winner of a job, who is the one that may publish.
Publishes(p) == proc[p].step \notin {"idle", "admit", "register", "admit_job", "acquire"}

\* The client repeats an operation with the entry and base it asked for first;
\* a plan already admitted replaces the one computed from today's manifest.
Begin(p, o, e) ==
  /\ At(p, "idle")
  /\ req[o] # NoRequest => req[o].entry = e
  /\ req' = IF req[o] = NoRequest
              THEN [req EXCEPT ![o] = [entry |-> e, base |-> tree.manifest]]
              ELSE req
  /\ proc' = [proc EXCEPT ![p] =
       [Idle EXCEPT !.step = "admit", !.op = o,
          !.manifest = IF plan[o] # NoManifest THEN plan[o]
                       ELSE [op |-> o, entries |-> [tree.manifest.entries EXCEPT ![e] = o]]]]
  /\ UNCHANGED <<plan, job, git, journal, lockFiles, upsets>>

\* One transaction: the intent row and the registered job, or the replay of
\* an operation whose request digest covers the same planned manifest.
AdmitPublication(p) ==
  LET o == proc[p].op
  IN  /\ At(p, "admit")
      /\ IF plan[o] = NoManifest
           THEN /\ plan' = [plan EXCEPT ![o] = proc[p].manifest]
                /\ job' = [job EXCEPT ![o] = Advanced(@, "registered", None, None)]
                /\ Go(p, "register")
           ELSE /\ UNCHANGED <<plan, job>>
                /\ IF plan[o] = proc[p].manifest THEN Go(p, "register") ELSE Stop(p)
      /\ UNCHANGED <<req, git, journal, lockFiles, upsets>>

\* Only the caller that still finds the job registered may go on to Git.
Register(p) ==
  /\ At(p, "register")
  /\ IF job[proc[p].op].stage = "registered" THEN Go(p, "admit_job") ELSE Stop(p)
  /\ UNCHANGED <<store, git, journal, lockFiles, upsets>>

AdmitJob(p) ==
  /\ At(p, "admit_job")
  /\ job' = [job EXCEPT ![proc[p].op] = RegisterAndAdmit(@)]
  /\ Go(p, "acquire")
  /\ UNCHANGED <<req, plan, git, journal, lockFiles, upsets>>

Acquire(p) ==
  LET o == proc[p].op
  IN  /\ At(p, "acquire")
      /\ IF WinsAcquisition(job[o])
           THEN /\ job' = [job EXCEPT ![o] = Advance(@, "running", None, None)]
                /\ Go(p, "recheck")
           ELSE UNCHANGED job /\ Stop(p)
      /\ UNCHANGED <<req, plan, git, journal, lockFiles, upsets>>

\* The winner plans again; a plan that has moved on is an error.
Recheck(p) ==
  /\ At(p, "recheck")
  /\ IF Merge(proc[p].op) = plan[proc[p].op] THEN Go(p, "lock") ELSE Stop(p)
  /\ UNCHANGED <<store, git, journal, lockFiles, upsets>>

\* The lock file.  An operation's publication creates one at most, so a lock
\* file is known by its operation, the path by the file it leads to, and each
\* file holds the pid of its creator: not yet written, of a live process or of
\* a dead one.

\* Mutant: the publication lock is not taken.
LockIsFreeAlways(p) == TRUE
LockIsFree(p) == lock = None

CreateLock(p) ==
  /\ At(p, "lock") /\ LockIsFree(p)
  /\ lock' = proc[p].op
  /\ Go(p, "sign")
  /\ UNCHANGED <<store, git, journal, owner, stolen, upsets>>

SignLock(p) ==
  /\ At(p, "sign")
  /\ owner' = [owner EXCEPT ![proc[p].op] = "alive"]
  /\ Go(p, "base")
  /\ UNCHANGED <<store, git, journal, lock, stolen, upsets>>

\* A file that exists is opened, and what is behind the path may change from
\* here on.
OpenLock(p) ==
  /\ At(p, "lock") /\ ~LockIsFree(p)
  /\ proc' = [proc EXCEPT ![p].step = "inspect", ![p].seen = lock]
  /\ UNCHANGED <<store, git, journal, lockFiles, upsets>>

\* A writer that died in between left an empty file, which nobody reaps.  The
\* advisory locks of two reapers order their inspections and not what follows.
InspectLock(p) ==
  /\ At(p, "inspect")
  /\ Go(p, IF owner[proc[p].seen] = "dead" THEN "reap" ELSE "lock")
  /\ UNCHANGED <<store, git, journal, lockFiles, upsets>>

\* The path is removed, wherever it leads by now.
ReapLock(p) ==
  /\ At(p, "reap")
  /\ lock' = None
  /\ stolen' = (stolen \/ lock \notin {None, proc[p].seen})
  /\ Go(p, "lock")
  /\ UNCHANGED <<store, git, journal, owner, upsets>>

\* The time to wait for the lock may run out whenever it is not held.
LockTimeout(p) ==
  /\ At(p, "lock")
  /\ Go(p, "readback")
  /\ UNCHANGED <<store, git, journal, lockFiles, upsets>>

\* Every return of the publisher removes the lock file if it is still its own
\* and goes on to the readback.
Return(p) == lock' = (IF lock = proc[p].op THEN None ELSE lock) /\ Go(p, "readback")

Committed(o) == {n \in 1..Len(history) : history[n].manifest.op = o}

\* The checks under the lock: an operation already in the history is answered
\* from there, the base is the one asked for, and a journal left unfinished by
\* another operation stops the publication.
CheckBase(p) ==
  LET o == proc[p].op
      known == Committed(o)
  IN  /\ At(p, "base")
      /\ IF known # {}
           THEN /\ journal' = IF Clean
                     THEN [op |-> o, state |-> "committed", rev |-> Min(known),
                           manifest |-> history[Min(known)].manifest]
                     ELSE journal
                /\ Return(p)
           ELSE IF /\ tree.manifest = req[o].base
                   /\ IF journal.op = o THEN MaterialMatches
                      ELSE journal.state \in {"clean", "committed"}
             THEN /\ proc' = [proc EXCEPT ![p].step = "prepare", ![p].manifest =
                       IF tree.manifest.entries[req[o].entry] = o THEN tree.manifest ELSE Merge(o)]
                  /\ UNCHANGED <<journal, lock>>
             ELSE UNCHANGED journal /\ Return(p)
      /\ UNCHANGED <<store, git, owner, stolen, upsets>>

Prepare(p) ==
  /\ At(p, "prepare")
  /\ journal' = [op |-> proc[p].op, state |-> "files_prepared",
                 manifest |-> proc[p].manifest, rev |-> 0]
  /\ Go(p, "status")
  /\ UNCHANGED <<store, git, lockFiles, upsets>>

\* Only a clean worktree, or exactly what this operation left, may be written.
CheckStatus(p) ==
  LET o == proc[p].op
      e == req[o].entry
      filesMatch == tree.manifest = proc[p].manifest /\ tree.notes[e] = o
      onlyManaged == \A f \in Entries \ {e} : tree.notes[f] = index.notes[f]
                                           /\ index.notes[f] = HeadTree.notes[f]
      stagedOk == StagedManifest \/ StagedNotes # {} => StagedExactly(o, proc[p].manifest)
      replacing == tree.manifest.entries[e] \notin {None, o}
  IN  /\ At(p, "status")
      /\ IF /\ stagedOk
            /\ Clean => ~filesMatch /\ (tree.notes[e] \in {None, o} \/ replacing)
            /\ ~Clean => filesMatch /\ onlyManaged
           THEN Go(p, IF filesMatch THEN "stage_manifest" ELSE "write_note") /\ UNCHANGED lock
           ELSE Return(p)
      /\ UNCHANGED <<store, git, journal, owner, stolen, upsets>>

WriteNote(p) ==
  /\ At(p, "write_note")
  /\ tree' = [tree EXCEPT !.notes[req[proc[p].op].entry] = proc[p].op]
  /\ Go(p, "write_manifest")
  /\ UNCHANGED <<store, index, history, journal, lockFiles, upsets>>

WriteManifest(p) ==
  /\ At(p, "write_manifest")
  /\ tree' = [tree EXCEPT !.manifest = proc[p].manifest]
  /\ Go(p, "stage_manifest")
  /\ UNCHANGED <<store, index, history, journal, lockFiles, upsets>>

StageManifest(p) ==
  /\ At(p, "stage_manifest")
  /\ index' = [index EXCEPT !.manifest = proc[p].manifest]
  /\ Go(p, "stage_note")
  /\ UNCHANGED <<store, tree, history, journal, lockFiles, upsets>>

\* Mutant: whatever the worktree holds is staged.
StageNoteFromWorktree(p) ==
  /\ At(p, "stage_note")
  /\ index' = tree
  /\ Go(p, "record_staged")
  /\ UNCHANGED <<store, tree, history, journal, lockFiles, upsets>>

\* The bytes of the publication, whatever the worktree holds by now.
StageNote(p) ==
  /\ At(p, "stage_note")
  /\ index' = [index EXCEPT !.notes[req[proc[p].op].entry] = proc[p].op]
  /\ Go(p, "record_staged")
  /\ UNCHANGED <<store, tree, history, journal, lockFiles, upsets>>

RecordStaged(p) ==
  /\ At(p, "record_staged")
  /\ IF StagedManifest /\ StagedNotes = {req[proc[p].op].entry}
       THEN /\ journal' = [op |-> proc[p].op, state |-> "staged",
                           manifest |-> proc[p].manifest, rev |-> 0]
            /\ Go(p, "commit") /\ UNCHANGED lock
       ELSE UNCHANGED journal /\ Return(p)
  /\ UNCHANGED <<store, git, owner, stolen, upsets>>

Commit(p) ==
  /\ At(p, "commit")
  /\ history' = Append(history, index)
  /\ Go(p, "record_committed")
  /\ UNCHANGED <<store, tree, index, journal, lockFiles, upsets>>

RecordCommitted(p) ==
  /\ At(p, "record_committed")
  /\ journal' = [op |-> proc[p].op, state |-> "committed", manifest |-> proc[p].manifest,
                 rev |-> Len(history)]
  /\ Return(p)
  /\ UNCHANGED <<store, git, owner, stolen, upsets>>

\* What Git shows decides what the job row may say; anything else leaves it.
Readback(p) ==
  LET o == proc[p].op
      found == PublicationReadback(o)
  IN  /\ At(p, "readback")
      /\ IF \/ found = "readback_required"
            \/ found = "reconciled" /\ journal.manifest = plan[o]
           THEN proc' = [proc EXCEPT ![p].step = "started", ![p].ref = SideEffectRef(o),
                                     ![p].done = (found = "reconciled")]
           ELSE Stop(p)
      /\ UNCHANGED <<store, git, journal, lockFiles, upsets>>

MarkEffectStarted(p) ==
  LET o == proc[p].op
      after == MarkStarted(job[o], proc[p].ref)
  IN  /\ At(p, "started")
      /\ job' = [job EXCEPT ![o] = after]
      /\ IF MarkStartedOk(after, proc[p].ref) THEN Go(p, "marked") ELSE Stop(p)
      /\ UNCHANGED <<req, plan, git, journal, lockFiles, upsets>>

MarkReadbackRequired(p) ==
  LET o == proc[p].op
  IN  /\ At(p, "marked")
      /\ job' = [job EXCEPT ![o] = MarkReadback(@, proc[p].ref)]
      /\ IF proc[p].done /\ MarkReadbackOk(job[o], proc[p].ref)
           THEN Go(p, "reconcile") ELSE Stop(p)
      /\ UNCHANGED <<req, plan, git, journal, lockFiles, upsets>>

ReconcileReadback(p) ==
  LET o == proc[p].op
  IN  /\ At(p, "reconcile")
      /\ job' = IF ReconcileOk(job[o], proc[p].ref, o)
                  THEN [job EXCEPT ![o] = Reconcile(@, o)] ELSE job
      /\ Stop(p)
      /\ UNCHANGED <<req, plan, git, journal, lockFiles, upsets>>

-----------------------------------------------------------------------------
(* The operator, the human author and the operating system.                *)

\* The operator's command walks the row to reconciled in one transaction.
Reconcilable(o) ==
  /\ PublicationReadback(o) = "reconciled"
  /\ plan[o] # NoManifest /\ journal.manifest = plan[o]
  /\ job[o].stage \notin {None, "rejected", "failed"}
  /\ Keeps(job[o].ref, SideEffectRef(o)) /\ Keeps(job[o].digest, o)

ReconcilePublication(o) ==
  /\ Reconcilable(o) /\ ~Resolved(job[o])
  /\ job' = [job EXCEPT ![o] = [stage |-> "reconciled", ref |-> SideEffectRef(o), digest |-> o]]
  /\ UNCHANGED <<req, plan, git, journal, lockFiles, proc, upsets>>

\* A human edits a published note in the worktree, or takes the edit back.
EditNote(e) ==
  /\ upsets < MaxUpsets
  /\ tree.notes[e] \notin {None, Edited}
  /\ tree' = [tree EXCEPT !.notes[e] = Edited]
  /\ upsets' = upsets + 1
  /\ UNCHANGED <<store, index, history, journal, lockFiles, proc>>

RevertNote(e) ==
  /\ tree.notes[e] = Edited
  /\ tree' = [tree EXCEPT !.notes[e] = index.notes[e]]
  /\ UNCHANGED <<store, index, history, journal, lockFiles, proc, upsets>>

\* A killed process leaves its files, its row and its lock file, which names a
\* dead process from here on if it names one.
Crash(p) ==
  /\ upsets < MaxUpsets
  /\ ~At(p, "idle")
  /\ upsets' = upsets + 1
  /\ owner' = IF Publishes(p) /\ owner[proc[p].op] = "alive"
               THEN [owner EXCEPT ![proc[p].op] = "dead"] ELSE owner
  /\ Stop(p)
  /\ UNCHANGED <<store, git, journal, lock, stolen>>

\* The process of a finished publication exits, which matters to whoever still
\* has its lock file open.
Exit(o) ==
  /\ owner[o] = "alive"
  /\ \A p \in Procs : ~(Publishes(p) /\ proc[p].op = o)
  /\ \E p \in Procs : At(p, "inspect") /\ proc[p].seen = o
  /\ owner' = [owner EXCEPT ![o] = "dead"]
  /\ UNCHANGED <<store, git, journal, lock, stolen, proc, upsets>>

-----------------------------------------------------------------------------
AdmissionStep(p) ==
  \/ \E o \in Ops, e \in Entries : Begin(p, o, e)
  \/ AdmitPublication(p) \/ Register(p) \/ AdmitJob(p) \/ Acquire(p) \/ Recheck(p)

GitStep(p) ==
  \/ CreateLock(p) \/ SignLock(p) \/ OpenLock(p) \/ InspectLock(p) \/ ReapLock(p) \/ LockTimeout(p)
  \/ CheckBase(p) \/ Prepare(p) \/ CheckStatus(p)
  \/ WriteNote(p) \/ WriteManifest(p) \/ StageManifest(p) \/ StageNote(p)
  \/ RecordStaged(p) \/ Commit(p) \/ RecordCommitted(p)

SettleStep(p) ==
  Readback(p) \/ MarkEffectStarted(p) \/ MarkReadbackRequired(p) \/ ReconcileReadback(p)

Next ==
  \/ \E p \in Procs : AdmissionStep(p) \/ GitStep(p) \/ SettleStep(p) \/ Crash(p)
  \/ \E o \in Ops : ReconcilePublication(o) \/ Exit(o)
  \/ \E e \in Entries : EditNote(e) \/ RevertNote(e)

Spec == Init /\ [][Next]_vars

-----------------------------------------------------------------------------
(* Properties.                                                             *)

Manifests == [op : Ops \cup {None}, entries : [Entries -> Ops \cup {None}]]
Snapshots == [manifest : Manifests, notes : [Entries -> Ops \cup {None, Edited}]]

\* Type invariant of the rows, the repository, the journal and the processes.
TypeOK ==
  /\ \A o \in Ops :
       /\ req[o].entry \in Entries \cup {None} /\ req[o].base \in Manifests
       /\ plan[o] \in Manifests
       /\ job[o].stage \in Stages /\ job[o].digest \in {None, o}
  /\ tree \in Snapshots /\ index \in Snapshots
  /\ \A n \in 1..Len(history) : history[n] \in Snapshots
  /\ journal.op \in Ops \cup {None} /\ journal.manifest \in Manifests
  /\ journal.state \in {"clean", "files_prepared", "staged", "committed"}
  /\ journal.rev \in 0..Len(history)
  /\ lock \in Ops \cup {None} /\ stolen \in BOOLEAN
  /\ \A o \in Ops : owner[o] \in {"unsigned", "alive", "dead"}
  /\ \A p \in Procs : proc[p].step \in Steps /\ proc[p].manifest \in Manifests
  /\ upsets \in 0..MaxUpsets

\* Two publishers are never between the base check and the journal record of
\* the commit at once: a reaper cannot inspect one lock file and unlink the
\* replacement a racing writer created (PublicationLock, try_reap_dead_lock).
\* It does not hold: README, section 5.
PublicationIsExclusive ==
  \A p, q \in Procs : Inside(p) /\ Inside(q) => p = q

\* As long as no reaper has removed a lock file it had not inspected, every
\* commit is the manifest its operation was admitted with and the note
\* contents that manifest names, whatever was written to the worktree between
\* the checks, the staging and the commit, and wherever a holder of the lock
\* died (publish_with_expected_base, stage_exact, commit_index_exact).
CommitIsPlanned ==
  ~stolen => \A n \in 1..Len(history) :
    LET commit == history[n]
    IN  /\ commit.manifest = plan[commit.manifest.op]
        /\ commit.notes = commit.manifest.entries

\* As long as no reaper has removed a lock file it had not inspected, a
\* publication replaces its own entry and loses no other: plans made against
\* the same base by two processes cannot both be committed, dead holders of
\* the lock included (PublicationLock, the expected base and the plan checked
\* again by the winner).
PublishedIsKept ==
  [][history' # history /\ ~stolen =>
       /\ history = SubSeq(history', 1, Len(history))
       /\ \A e \in Entries :
            Last(history').manifest.entries[e] # HeadTree.manifest.entries[e]
              => Last(history').manifest.entries[e] = Last(history').manifest.op]_vars

\* A job that says reconciled names the commit of its own operation, however
\* the publisher, its retries and the operator's command interleaved, and
\* whoever was inside the lock (publication_readback, StorePublicationJobPort::reconcile,
\* reconcile_memory_publication).
ReconciledIsPublished ==
  \A o \in Ops :
    Resolved(job[o]) =>
      /\ job[o].digest = o
      /\ \E n \in 1..Len(history) : job[o].ref = Revision(n) /\ history[n].manifest.op = o

Published(o) == Committed(o) # {}

\* From its commit on, whether its process goes on or was killed anywhere, a
\* publication can be reconciled by the operator, as long as nothing newer was
\* journalled, the worktree holds no edit and no reaper has let a second
\* publisher in (read_publication_journal against HEAD).
LatestCommitIsReconcilable ==
  ~stolen => \A o \in Ops :
    Published(o) /\ journal.op = o /\ Clean => Resolved(job[o]) \/ Reconcilable(o)

\* Any committed publication can be recorded in the database, the older ones
\* too (read_publication_journal keeps one journal for the whole root).  It does
\* not hold: README, section 5.
CommitIsReconcilable ==
  \A o \in Ops :
    Published(o) /\ Clean /\ (\A p \in Procs : At(p, "idle"))
      => Resolved(job[o]) \/ Reconcilable(o)
=============================================================================
