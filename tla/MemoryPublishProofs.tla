------------------------ MODULE MemoryPublishProofs ------------------------
(***************************************************************************)
(* What holds of memory publication for any number of operations, entries  *)
(* and processes, any number of kills and any number of human edits: as    *)
(* long as no reaper has removed a lock file it had not inspected, every   *)
(* commit is what its operation was admitted with, and it replaces one     *)
(* entry and loses no other; a job that says reconciled names such a       *)
(* commit whatever the reapers did.                                        *)
(*                                                                         *)
(* The invariant rests on two exclusions.  One process at a time wins the  *)
(* job of an operation (WinnersOK), so an operation writes its manifest    *)
(* once; until then no manifest mentions it (FreshOK).  One process at a   *)
(* time holds the lock file, whose owner is alive (LockOK): a reaper that  *)
(* removes only files it found dead leaves it alone, so what the base and  *)
(* status checks saw is still there when the index is committed            *)
(* (WriterOK).  Together they say why the base need only be compared under *)
(* the lock: a manifest never comes back, and a worktree that shows the    *)
(* base the client asked for is one for which the admitted plan was        *)
(* computed (PlansOK).                                                     *)
(***************************************************************************)
EXTENDS MemoryPublish, SequenceTheorems, WellFoundedInduction, TLAPS

Refs == {Revision(n) : n \in Nat} \cup {"memory-publication", None}

Requests == [entry : Entries \cup {None}, base : Manifests]
Journals == [op : Ops \cup {None}, state : {"clean", "files_prepared", "staged", "committed"},
             manifest : Manifests, rev : Nat]
Processes == [step : Steps, op : Ops \cup {None}, manifest : Manifests, ref : Refs, done : BOOLEAN,
              seen : Ops \cup {None}]
Owners == [Ops -> {"unsigned", "alive", "dead"}]

PublishTypeOK ==
  /\ req \in [Ops -> Requests]
  /\ plan \in [Ops -> Manifests]
  /\ job \in [Ops -> Jobs(Refs, Ops)]
  /\ tree \in Snapshots /\ index \in Snapshots /\ history \in Seq(Snapshots)
  /\ journal \in Journals
  /\ proc \in [Procs -> Processes]
  /\ lock \in Ops \cup {None} /\ owner \in Owners

\* The steps after a won acquisition, those that precede the write of the
\* manifest, those inside the lock, and those of who has created its file.
EarlySteps == {"recheck", "lock", "inspect", "reap", "sign", "base", "prepare", "status", "write_note", "write_manifest"}
LockedSteps == {"base", "prepare", "status", "write_note", "write_manifest", "stage_manifest", "stage_note",
                "record_staged", "commit", "record_committed"}
HoldSteps == LockedSteps \cup {"sign"}
WinnerSteps == EarlySteps \cup LockedSteps \cup {"readback", "started", "marked", "reconcile"}

Unstarted == {None, "registered", "admitted"}

\* One process went past the acquisition of an operation's job, and the row
\* says that somebody did.
WinnersOK ==
  \A p \in Procs : proc[p].step \in WinnerSteps =>
    /\ job[proc[p].op].stage \notin Unstarted
    /\ \A q \in Procs : proc[q].step \in WinnerSteps /\ proc[q].op = proc[p].op => q = p

\* The path leads to the file of whoever is inside, whose owner is alive, and a
\* reaper has seen a dead one.
LockOK ==
  /\ \A o \in Ops : job[o].stage \in Unstarted => owner[o] = "unsigned"
  /\ \A p \in Procs :
       /\ proc[p].step \in HoldSteps => lock = proc[p].op
       /\ proc[p].step \in WinnerSteps => owner[proc[p].op] # "dead"
       /\ proc[p].step \in {"inspect", "reap"} => proc[p].seen \in Ops
       /\ proc[p].step = "reap" => owner[proc[p].seen] = "dead"

\* The manifest that an operation plans from the base its client asked for.
Planned(o, r) == [op |-> o, entries |-> [r.base.entries EXCEPT ![r.entry] = o]]

\* The row r, the plan m and the job j of the operation o, with the manifest w
\* in the worktree.
RowAt(o, r, m, j, w) ==
  /\ r = NoRequest => m = NoManifest
  /\ r # NoRequest => r.entry \in Entries
  /\ m = NoManifest <=> j.stage = None
  /\ m # NoManifest => m.op = o
  /\ m # NoManifest /\ w = r.base => m = Planned(o, r)

\* A process k that works on the request r with the plan m.
ProcessAt(k, r, m, w) ==
  /\ k.op \in Ops /\ r.entry \in Entries
  /\ k.step = "admit" => k.manifest.op = k.op /\ (w = r.base => k.manifest = Planned(k.op, r))
  /\ k.step # "admit" => m # NoManifest

PlansOK ==
  /\ \A o \in Ops : RowAt(o, req[o], plan[o], job[o], tree.manifest)
  /\ \A p \in Procs : proc[p].step # "idle" =>
       ProcessAt(proc[p], req[proc[p].op], plan[proc[p].op], tree.manifest)

Mentions(m, x) == m.op = x \/ \E e \in Entries : m.entries[e] = x

\* No manifest that could become a base mentions the operation yet.
Unwritten(x) ==
  /\ ~Mentions(tree.manifest, x)
  /\ \A o \in Ops : ~Mentions(req[o].base, x)
  /\ \A n \in 1..Len(history) : history[n].manifest.op # x

FreshOK ==
  /\ \A x \in Ops : job[x].stage \in Unstarted => Unwritten(x)
  /\ \A p \in Procs : proc[p].step \in EarlySteps => Unwritten(proc[p].op)

\* What the process k, with the request r and the plan m, has made of the
\* worktree's manifest w and the index i when head is the tree of HEAD.
WriterAt(k, r, m, w, i, head) ==
  /\ k.step \in LockedSteps \ {"base"} => k.manifest = m /\ m = Planned(k.op, r)
  /\ k.step \in {"prepare", "status", "write_note", "write_manifest"} => w = r.base
  /\ k.step \in {"write_note", "write_manifest", "stage_manifest"} => i = head /\ head.manifest = r.base
  /\ k.step = "stage_note" => i = [head EXCEPT !.manifest = m] /\ head.manifest = r.base
  /\ k.step \in {"record_staged", "commit"} =>
       i.manifest = m /\ i.notes = [head.notes EXCEPT ![r.entry] = k.op] /\ head.manifest = r.base

WriterOK ==
  \A p \in Procs : proc[p].step # "idle" =>
    WriterAt(proc[p], req[proc[p].op], plan[proc[p].op], tree.manifest, index, HeadTree)

\* CommitIsPlanned, with the operation of every commit.
HistoryOK ==
  \A n \in 1..Len(history) :
    /\ history[n].manifest.op \in Ops
    /\ history[n].manifest = plan[history[n].manifest.op]
    /\ history[n].notes = history[n].manifest.entries

\* A journal holds the manifest of its operation and names a commit that exists.
JournalAt(j) == (j.op # None => j.manifest.op = j.op) /\ j.rev <= Len(history)

JournalOK == JournalAt(journal)

\* The reference ref names a commit of o.
Names(ref, o) == \E n \in 1..Len(history) : ref = Revision(n) /\ history[n].manifest.op = o

SettledOK ==
  /\ \A p \in Procs :
       /\ proc[p].step = "reconcile" => proc[p].done
       /\ proc[p].step \in {"started", "marked", "reconcile"} /\ proc[p].done => Names(proc[p].ref, proc[p].op)
  /\ \A o \in Ops : Resolved(job[o]) => job[o].digest = o /\ Names(job[o].ref, o)

PublishInv ==
  /\ PublishTypeOK
  /\ WinnersOK
  /\ LockOK
  /\ PlansOK
  /\ FreshOK
  /\ WriterOK
  /\ HistoryOK
  /\ JournalOK
  /\ SettledOK

-----------------------------------------------------------------------------
(* The initial states.                                                     *)

LEMMA NoManifestType ==
  /\ NoManifest \in Manifests /\ NoManifest.op = None /\ \A e \in Entries : NoManifest.entries[e] = None
  /\ Empty \in Snapshots /\ Empty.manifest = NoManifest /\ Empty.notes = NoManifest.entries
<1>1. /\ NoManifest \in Manifests /\ NoManifest.op = None
      /\ \A e \in Entries : NoManifest.entries[e] = None
  BY DEF NoManifest, Manifests
<1>2. Empty.manifest = NoManifest /\ Empty.notes = NoManifest.entries
  BY DEF Empty, NoManifest
<1>3. Empty \in Snapshots
  BY <1>1 DEF Empty, Snapshots
<1>4. QED  BY <1>1, <1>2, <1>3

LEMMA StagesMean ==
  Stages = {"none", "registered", "admitted", "running", "side_effect_started", "side_effect_finished",
            "readback_required", "cancel_requested", "reconciled", "committed", "rejected", "failed"}
BY DEF Stages, Transitions

LEMMA InitInv == Init => PublishInv
<1> SUFFICES ASSUME Init PROVE PublishInv
  OBVIOUS
<1>1. NoJob \in Jobs(Refs, Ops) /\ NoJob.stage = None
  BY StagesMean DEF NoJob, Jobs, Refs, None
<1>2. NoRequest \in Requests /\ NoRequest.base = NoManifest
  BY NoManifestType DEF NoRequest, Requests
<1>3. NoJournal \in Journals /\ NoJournal.op = None
  BY NoManifestType DEF NoJournal, Journals
<1>4. Idle \in Processes /\ Idle.step = "idle"
  BY NoManifestType DEF Idle, Processes, Steps, Refs
<1>5. PublishTypeOK
  BY <1>1, <1>2, <1>3, <1>4, NoManifestType, EmptySeq DEF Init, PublishTypeOK, Owners
<1>6. WinnersOK /\ LockOK /\ WriterOK /\ SettledOK
  BY <1>1, <1>4 DEF Init, WinnersOK, LockOK, WriterOK, SettledOK, WinnerSteps, EarlySteps, LockedSteps, HoldSteps, Resolved, None
<1>7. PlansOK
  BY <1>1, <1>4, NoManifestType DEF Init, PlansOK, RowAt
<1>8. FreshOK
  BY <1>2, <1>4, NoManifestType, NameAssumption DEF Init, FreshOK, EarlySteps, Unwritten, Mentions
<1>9. HistoryOK /\ JournalOK
  BY <1>3 DEF Init, HistoryOK, JournalOK, JournalAt, NoJournal
<1>10. QED  BY <1>5, <1>6, <1>7, <1>8, <1>9 DEF PublishInv

-----------------------------------------------------------------------------
(* Steps that leave the requests, the plans, the manifest of the worktree  *)
(* and the history alone.                                                  *)

\* The job row of o becomes j.
RowMoves(o, j) ==
  /\ job' = [job EXCEPT ![o] = j]
  /\ j.stage = None <=> job[o].stage = None
  /\ j.stage \in Unstarted => job[o].stage \in Unstarted
  /\ Resolved(j) => j.digest = o /\ Names(j.ref, o)

\* The process p becomes k, while the row of o becomes j.
ProcMoves(p, o, j, k) ==
  k.step # "idle" =>
    /\ proc[p].step # "idle" /\ k.op = proc[p].op /\ k.step # "admit" /\ plan[k.op] # NoManifest
    /\ k.step \in WinnerSteps => \/ proc[p].step \in WinnerSteps
                                 \/ k.op = o /\ job[o].stage \in Unstarted /\ j.stage \notin Unstarted
    /\ k.step \in EarlySteps => Unwritten(k.op)
    /\ k.step \in HoldSteps => lock' = k.op
    /\ k.step \in {"inspect", "reap"} => k.seen \in Ops
    /\ k.step = "reap" => owner[k.seen] = "dead"
    /\ k.step \in WinnerSteps => owner'[k.op] # "dead"
    /\ WriterAt(k, req[k.op], plan[k.op], tree.manifest, index', HeadTree)
    /\ k.step = "reconcile" => k.done
    /\ k.step \in {"started", "marked", "reconcile"} /\ k.done => Names(k.ref, k.op)

\* The step of p keeps the lock of everybody else, and the index too unless
\* nobody else is inside; the owner of a lock file dies only with the process
\* that published; the journal names the operation whose manifest it holds.
FilesMove(p) ==
  /\ \A q \in Procs : q # p /\ proc[q].step \in HoldSteps => lock' = lock
  /\ lock' \in Ops \cup {None} /\ owner' \in Owners
  /\ \A x \in Ops : owner'[x] # owner[x] =>
       /\ job[x].stage \notin Unstarted /\ owner[x] # "dead"
       /\ owner'[x] = "dead" =>
            /\ \A q \in Procs : q # p /\ proc[q].step \in WinnerSteps => proc[q].op # x
            /\ p \in Procs => proc'[p].step = "idle"
  /\ tree' \in Snapshots /\ tree'.manifest = tree.manifest
  /\ index' \in Snapshots
  /\ index' = index \/ \A q \in Procs : q # p => proc[q].step \notin LockedSteps
  /\ journal' \in Journals /\ JournalAt(journal')
  /\ UNCHANGED <<req, plan, history>>

LEMMA StepInv ==
  ASSUME PublishInv, NEW p, NEW k, NEW o \in Ops, NEW j \in Jobs(Refs, Ops),
         RowMoves(o, j), FilesMove(p),
         p \in Procs => proc' = [proc EXCEPT ![p] = k] /\ k \in Processes /\ ProcMoves(p, o, j, k),
         p \notin Procs => proc' = proc
  PROVE  PublishInv'
<1> USE DEF PublishInv
<1>1. /\ proc' \in [Procs -> Processes] /\ \A q \in Procs : q # p => proc'[q] = proc[q]
      /\ p \in Procs => proc'[p] = k
  BY DEF PublishTypeOK
<1>2. /\ job' \in [Ops -> Jobs(Refs, Ops)] /\ job'[o] = j /\ \A x \in Ops : x # o => job'[x] = job[x]
  BY DEF RowMoves, PublishTypeOK
<1>3. /\ \A x \in Ops : job'[x].stage = None <=> job[x].stage = None
      /\ \A x \in Ops : job'[x].stage \in Unstarted => job[x].stage \in Unstarted
  BY <1>2 DEF RowMoves
<1>4. UNCHANGED <<req, plan, history>> /\ tree'.manifest = tree.manifest /\ HeadTree' = HeadTree
  BY DEF FilesMove, HeadTree
<1>5. PublishTypeOK'
  BY <1>1, <1>2, <1>4 DEF FilesMove, PublishTypeOK
<1>6. \A q \in Procs : proc[q].step # "idle" => proc[q].op \in Ops
  BY DEF PlansOK, ProcessAt
<1>7. "idle" \notin WinnerSteps /\ "idle" \notin LockedSteps /\ "idle" \notin EarlySteps /\ "admit" \notin WinnerSteps
      /\ LockedSteps \subseteq WinnerSteps /\ EarlySteps \subseteq WinnerSteps
  BY DEF WinnerSteps, LockedSteps, EarlySteps
<1>8. WinnersOK'
  <2> SUFFICES ASSUME NEW q \in Procs, proc'[q].step \in WinnerSteps
               PROVE  /\ job'[proc'[q].op].stage \notin Unstarted
                      /\ \A r \in Procs : proc'[r].step \in WinnerSteps /\ proc'[r].op = proc'[q].op => r = q
    BY DEF WinnersOK
  <2>1. \A r \in Procs : proc'[r].step \in WinnerSteps =>
          /\ proc'[r].op = proc[r].op /\ proc[r].op \in Ops
          /\ \/ proc[r].step \in WinnerSteps
             \/ r = p /\ proc[r].op = o /\ job[o].stage \in Unstarted /\ j.stage \notin Unstarted
    BY <1>1, <1>6, <1>7 DEF ProcMoves
  <2>2. job'[proc'[q].op].stage \notin Unstarted
    BY <1>2, <1>3, <2>1 DEF WinnersOK
  <2>3. ASSUME NEW r \in Procs, proc'[r].step \in WinnerSteps, proc'[r].op = proc'[q].op PROVE r = q
    BY <2>1, <2>3 DEF WinnersOK
  <2>4. QED  BY <2>2, <2>3
<1>9. LockOK'
  <2>1. \A x \in Ops : job'[x].stage \in Unstarted => owner'[x] = "unsigned"
    BY <1>3 DEF LockOK, FilesMove
  <2>2. \A x \in Ops : owner[x] = "dead" => owner'[x] = "dead"
    BY DEF FilesMove
  <2>3. ASSUME NEW q \in Procs
        PROVE  /\ proc'[q].step \in HoldSteps => lock' = proc'[q].op
               /\ proc'[q].step \in WinnerSteps => owner'[proc'[q].op] # "dead"
               /\ proc'[q].step \in {"inspect", "reap"} => proc'[q].seen \in Ops
               /\ proc'[q].step = "reap" => owner'[proc'[q].seen] = "dead"
    <3>1. CASE q = p
      BY <1>1, <1>7, <2>2, <3>1 DEF ProcMoves, HoldSteps
    <3>2. CASE q # p
      <4>1. proc[q].step \in HoldSteps => lock' = proc[q].op
        BY <3>2 DEF LockOK, FilesMove
      <4>2. proc[q].step \in WinnerSteps => proc[q].op \in Ops /\ owner[proc[q].op] # "dead"
        BY <1>6, <1>7 DEF LockOK
      <4>3. proc[q].step \in WinnerSteps => owner'[proc[q].op] # "dead"
        BY <3>2, <4>2 DEF FilesMove
      <4>4. QED  BY <1>1, <2>2, <3>2, <4>1, <4>3 DEF LockOK
    <3>3. QED  BY <3>1, <3>2
  <2>4. QED  BY <2>1, <2>3 DEF LockOK
<1>10. PlansOK'
  <2>1. ASSUME NEW x \in Ops PROVE RowAt(x, req[x], plan[x], job[x], tree.manifest)'
    BY <1>3, <1>4 DEF PlansOK, RowAt
  <2>2. ASSUME NEW q \in Procs, proc'[q].step # "idle"
        PROVE  ProcessAt(proc[q], req[proc[q].op], plan[proc[q].op], tree.manifest)'
    <3>1. CASE q # p
      BY <1>1, <1>4, <2>2, <3>1 DEF PlansOK
    <3>2. CASE q = p
      BY <1>1, <1>4, <2>2, <3>2 DEF PlansOK, ProcessAt, ProcMoves
    <3>3. QED  BY <3>1, <3>2
  <2>3. QED  BY <2>1, <2>2 DEF PlansOK
<1>11. FreshOK'
  <2>1. \A x : Unwritten(x)' <=> Unwritten(x)
    BY <1>4 DEF Unwritten
  <2>2. \A q \in Procs : proc'[q].step \in EarlySteps => Unwritten(proc'[q].op)
    BY <1>1, <1>7 DEF FreshOK, ProcMoves
  <2>3. QED  BY <1>3, <2>1, <2>2 DEF FreshOK
<1>12. WriterOK'
  <2> SUFFICES ASSUME NEW q \in Procs, proc'[q].step # "idle"
               PROVE  WriterAt(proc[q], req[proc[q].op], plan[proc[q].op], tree.manifest, index, HeadTree)'
    BY DEF WriterOK
  <2>1. CASE q = p
    BY <1>1, <1>4, <2>1 DEF ProcMoves
  <2>2. CASE q # p /\ index' = index
    BY <1>1, <1>4, <2>2 DEF WriterOK
  <2>3. CASE q # p /\ proc[q].step \notin LockedSteps
    BY <1>1, <2>3 DEF WriterAt, LockedSteps
  <2>4. QED  BY <2>1, <2>2, <2>3 DEF FilesMove
<1>13. HistoryOK' /\ JournalOK'
  BY <1>4 DEF HistoryOK, JournalOK, JournalAt, FilesMove
<1>14. SettledOK'
  <2>1. \A ref, x : Names(ref, x)' <=> Names(ref, x)
    BY <1>4 DEF Names
  <2>2. \A q \in Procs :
          /\ proc'[q].step = "reconcile" => proc'[q].done
          /\ proc'[q].step \in {"started", "marked", "reconcile"} /\ proc'[q].done => Names(proc'[q].ref, proc'[q].op)
    BY <1>1 DEF SettledOK, ProcMoves
  <2>3. \A x \in Ops : Resolved(job'[x]) => job'[x].digest = x /\ Names(job'[x].ref, x)
    BY <1>2 DEF SettledOK, RowMoves
  <2>4. QED  BY <2>1, <2>2, <2>3 DEF SettledOK
<1>15. QED  BY <1>5, <1>8, <1>9, <1>10, <1>11, <1>12, <1>13, <1>14

LEMMA ProcFacts ==
  ASSUME PublishInv, NEW p \in Procs, proc[p].step # "idle"
  PROVE  /\ proc[p] \in Processes /\ proc[p].op \in Ops
         /\ req[proc[p].op] \in Requests /\ req[proc[p].op].entry \in Entries
         /\ plan[proc[p].op] \in Manifests
         /\ proc[p].step # "admit" => plan[proc[p].op] # NoManifest
         /\ job[proc[p].op] \in Jobs(Refs, Ops)
         /\ WriterAt(proc[p], req[proc[p].op], plan[proc[p].op], tree.manifest, index, HeadTree)
         /\ proc[p].step \in EarlySteps => Unwritten(proc[p].op)
         /\ proc[p].step \in LockedSteps => lock = proc[p].op
         /\ proc[p].step \in WinnerSteps => owner[proc[p].op] # "dead"
BY DEF PublishInv, PublishTypeOK, PlansOK, ProcessAt, WriterOK, FreshOK, LockOK, HoldSteps

LEMMA GoTyped ==
  ASSUME PublishTypeOK, NEW p \in Procs, NEW step \in Steps, Go(p, step)
  PROVE  \E k \in Processes :
           /\ k.step = step /\ k.op = proc[p].op /\ k.manifest = proc[p].manifest
           /\ k.ref = proc[p].ref /\ k.done = proc[p].done /\ k.seen = proc[p].seen
           /\ proc' = [proc EXCEPT ![p] = k]
<1>1. proc \in [Procs -> Processes]
  BY DEF PublishTypeOK
<1>2. [proc[p] EXCEPT !.step = step] \in Processes
  BY <1>1 DEF Processes
<1>3. QED  BY <1>1, <1>2 DEF Go, Processes

LEMMA GoFacts ==
  ASSUME PublishInv, NEW p \in Procs, NEW step \in Steps, Go(p, step)
  PROVE  \E k \in Processes :
           /\ k.step = step /\ k.op = proc[p].op /\ k.manifest = proc[p].manifest
           /\ k.ref = proc[p].ref /\ k.done = proc[p].done /\ k.seen = proc[p].seen
           /\ proc' = [proc EXCEPT ![p] = k]
BY GoTyped DEF PublishInv

LEMMA FilesSame ==
  ASSUME PublishInv, NEW p, UNCHANGED <<req, plan, git>>, journal' = journal, UNCHANGED lockFiles
  PROVE  FilesMove(p)
BY DEF PublishInv, PublishTypeOK, FilesMove, JournalOK, git, lockFiles

\* A step that leaves the row of the operation as it is.
LEMMA KeepsRow ==
  ASSUME PublishInv, NEW o \in Ops, job' = job
  PROVE  job[o] \in Jobs(Refs, Ops) /\ RowMoves(o, job[o])
<1>1. job[o] \in Jobs(Refs, Ops) /\ job' = [job EXCEPT ![o] = job[o]]
  BY DEF PublishInv, PublishTypeOK
<1>2. QED  BY <1>1 DEF PublishInv, SettledOK, RowMoves

LEMMA StopInv ==
  ASSUME PublishInv, NEW p \in Procs, proc[p].step # "idle", Stop(p), job' = job, FilesMove(p)
  PROVE  PublishInv'
<1>1. PICK k \in Processes : k.step = "idle" /\ proc' = [proc EXCEPT ![p] = k]
  BY NoManifestType DEF Stop, Idle, Processes, Steps, Refs
<1>2. PICK o \in Ops : o = proc[p].op
  BY ProcFacts
<1>3. job[o] \in Jobs(Refs, Ops) /\ RowMoves(o, job[o])
  BY KeepsRow
<1>4. ProcMoves(p, o, job[o], k)
  BY <1>1 DEF ProcMoves
<1>5. QED  BY <1>1, <1>3, <1>4, StepInv

\* A step of a process that goes on with the manifest it has, without writing
\* its row; the caller says what is true of the index at the next step.
LEMMA GoInv ==
  ASSUME PublishInv, NEW p \in Procs, proc[p].step \notin {"idle", "admit"}, NEW step \in Steps, Go(p, step),
         job' = job, FilesMove(p), step \notin {"idle", "admit", "inspect", "reap", "sign", "started", "marked", "reconcile"},
         step \in WinnerSteps => proc[p].step \in WinnerSteps,
         step \in EarlySteps => proc[p].step \in EarlySteps,
         step \in LockedSteps => /\ lock' = proc[p].op
                                /\ \A k \in Processes :
                                     k.step = step /\ k.op = proc[p].op /\ k.manifest = proc[p].manifest =>
                                       WriterAt(k, req[k.op], plan[k.op], tree.manifest, index', HeadTree)
  PROVE  PublishInv'
<1>1. PICK k \in Processes : /\ k.step = step /\ k.op = proc[p].op /\ k.manifest = proc[p].manifest
                             /\ proc' = [proc EXCEPT ![p] = k]
  BY GoFacts
<1>2. PICK o \in Ops : o = proc[p].op
  BY ProcFacts
<1>3. job[o] \in Jobs(Refs, Ops) /\ RowMoves(o, job[o])
  BY KeepsRow
<1>4. WriterAt(k, req[k.op], plan[k.op], tree.manifest, index', HeadTree)
  <2>1. CASE step \in LockedSteps
    BY <1>1, <2>1
  <2>2. CASE step \notin LockedSteps
    BY <1>1, <2>2 DEF WriterAt, LockedSteps
  <2>3. QED  BY <2>1, <2>2
<1>5. step \in WinnerSteps => owner'[o] # "dead"
  <2>1. proc'[p].step = step
    BY <1>1 DEF PublishInv, PublishTypeOK
  <2>2. proc[p].step \in WinnerSteps => owner[o] # "dead"
    BY <1>2, ProcFacts
  <2>3. QED  BY <2>1, <2>2 DEF FilesMove
<1>6. ProcMoves(p, o, job[o], k)
  BY <1>1, <1>2, <1>4, <1>5, ProcFacts DEF ProcMoves, HoldSteps
<1>7. QED  BY <1>1, <1>3, <1>6, StepInv

-----------------------------------------------------------------------------
(* Admission.                                                              *)

LEMMA RegisterInv ==
  ASSUME PublishInv, NEW p \in Procs, Register(p)
  PROVE  PublishInv'
<1>1. /\ proc[p].step \notin {"idle", "admit"} /\ job' = job /\ FilesMove(p)
      /\ Go(p, "admit_job") \/ Stop(p)
  BY FilesSame DEF Register, At, store
<1>2. CASE Go(p, "admit_job")
  BY <1>1, <1>2, GoInv DEF Steps, WinnerSteps, EarlySteps, LockedSteps
<1>3. QED  BY <1>1, <1>2, StopInv

LEMMA RecheckInv ==
  ASSUME PublishInv, NEW p \in Procs, Recheck(p)
  PROVE  PublishInv'
<1>1. /\ proc[p].step = "recheck" /\ job' = job /\ FilesMove(p)
      /\ Go(p, "lock") \/ Stop(p)
  BY FilesSame DEF Recheck, At, store
<1>2. CASE Go(p, "lock")
  BY <1>1, <1>2, GoInv DEF Steps, WinnerSteps, EarlySteps, LockedSteps
<1>3. QED  BY <1>1, <1>2, StopInv

LEMMA TransitionFacts ==
  \A s \in Stages :
    /\ "running" \in Transitions[s] <=> s = "admitted"
    /\ "side_effect_started" \in Transitions[s] <=> s = "running"
    /\ "readback_required" \in Transitions[s] <=> s \in {"side_effect_started", "side_effect_finished"}
    /\ "reconciled" \in Transitions[s] <=> s \in {"readback_required", "cancel_requested"}
BY StagesMean DEF Transitions

LEMMA AdvancedFacts ==
  ASSUME NEW j \in Jobs(Refs, Ops), NEW next \in Stages, NEW ref \in Refs, NEW digest \in Ops \cup {None}
  PROVE  /\ Advanced(j, next, ref, digest) \in Jobs(Refs, Ops)
         /\ Advanced(j, next, ref, digest).stage = next
         /\ Advanced(j, next, ref, digest).ref = (IF ref = None THEN j.ref ELSE ref)
         /\ Advanced(j, next, ref, digest).digest = (IF digest = None THEN j.digest ELSE digest)
BY DEF Advanced, Coalesce, Jobs, Refs

\* Advanced without a new reference or digest.
LEMMA AdvancedPlain ==
  ASSUME NEW j \in Jobs(Refs, Ops), NEW next \in Stages
  PROVE  Advanced(j, next, None, None) \in Jobs(Refs, Ops) /\ Advanced(j, next, None, None).stage = next
<1>1. None \in Refs /\ None \in Ops \cup {None}
  BY DEF Refs
<1>2. QED  BY <1>1, AdvancedFacts

LEMMA AdmitJobInv ==
  ASSUME PublishInv, NEW p \in Procs, AdmitJob(p)
  PROVE  PublishInv'
<1>1. PICK o \in Ops : o = proc[p].op
  BY ProcFacts DEF AdmitJob, At
<1>2. /\ proc[p].step = "admit_job" /\ plan[o] # NoManifest /\ job[o] \in Jobs(Refs, Ops) /\ job[o].stage # None
  BY <1>1, ProcFacts DEF AdmitJob, At, PublishInv, PlansOK, RowAt
<1>3. PICK k \in Processes : /\ k.step = "acquire" /\ k.op = o /\ proc' = [proc EXCEPT ![p] = k]
  BY <1>1, GoFacts DEF AdmitJob, Steps
<1>4. PICK j \in Jobs(Refs, Ops) : /\ job' = [job EXCEPT ![o] = j]
                                   /\ j = job[o] \/ (job[o].stage = "registered" /\ j.stage = "admitted")
  <2>1. CASE job[o].stage = "registered"
    <3>1. PICK a \in Jobs(Refs, Ops) : a = Advanced(job[o], "registered", None, None)
      <4>1. "registered" \in Stages
        BY StagesMean
      <4>2. QED  BY <1>2, <4>1, AdvancedPlain
    <3>2. Advanced(a, "admitted", None, None) \in Jobs(Refs, Ops) /\ Advanced(a, "admitted", None, None).stage = "admitted"
      <4>1. "admitted" \in Stages
        BY StagesMean
      <4>2. QED  BY <4>1, AdvancedPlain
    <3>3. QED  BY <1>1, <2>1, <3>1, <3>2 DEF AdmitJob, RegisterAndAdmit
  <2>2. CASE job[o].stage # "registered"
    BY <1>1, <1>2, <2>2 DEF AdmitJob, RegisterAndAdmit
  <2>3. QED  BY <2>1, <2>2
<1>5. RowMoves(o, j)
  BY <1>4 DEF RowMoves, PublishInv, SettledOK, Resolved, Unstarted, None
<1>6. ProcMoves(p, o, j, k)
  BY <1>1, <1>2, <1>3 DEF ProcMoves, WinnerSteps, EarlySteps, LockedSteps, HoldSteps, WriterAt
<1>7. FilesMove(p)
  BY FilesSame DEF AdmitJob
<1>8. QED  BY <1>3, <1>4, <1>5, <1>6, <1>7, StepInv

LEMMA AcquireInv ==
  ASSUME PublishInv, NEW p \in Procs, Acquire(p)
  PROVE  PublishInv'
<1>1. PICK o \in Ops : o = proc[p].op
  BY ProcFacts DEF Acquire, At
<1>2. /\ proc[p].step = "acquire" /\ plan[o] # NoManifest /\ job[o] \in Jobs(Refs, Ops) /\ FilesMove(p)
  BY <1>1, ProcFacts, FilesSame DEF Acquire, At
<1>3. CASE WinsAcquisition(job[o])
  <2>1. job[o].stage = "admitted"
    BY <1>2, <1>3, TransitionFacts DEF WinsAcquisition, CanAdvance, Jobs
  <2>2. PICK j \in Jobs(Refs, Ops) : job' = [job EXCEPT ![o] = j] /\ j.stage = "running"
    <3>1. "running" \in Stages
      BY StagesMean
    <3>2. job' = [job EXCEPT ![o] = Advanced(job[o], "running", None, None)]
      BY <1>1, <1>3 DEF Acquire, WinsAcquisition, Advance
    <3>3. QED  BY <1>2, <3>1, <3>2, AdvancedPlain
  <2>3. PICK k \in Processes : /\ k.step = "recheck" /\ k.op = o /\ proc' = [proc EXCEPT ![p] = k]
    BY <1>1, <1>3, GoFacts DEF Acquire, Steps
  <2>4. RowMoves(o, j)
    BY <2>1, <2>2 DEF RowMoves, Resolved, Unstarted, None
  <2>5. Unwritten(o) /\ owner'[o] # "dead"
    BY <2>1 DEF PublishInv, FreshOK, LockOK, Unstarted, Acquire, lockFiles
  <2>6. ProcMoves(p, o, j, k)
    BY <1>1, <1>2, <2>1, <2>2, <2>3, <2>5 DEF ProcMoves, LockedSteps, HoldSteps, WriterAt, Unstarted, None
  <2>7. QED  BY <1>2, <2>2, <2>3, <2>4, <2>6, StepInv
<1>4. CASE ~WinsAcquisition(job[o])
  BY <1>1, <1>2, <1>4, StopInv DEF Acquire
<1>5. QED  BY <1>3, <1>4

LEMMA BeginInv ==
  ASSUME PublishInv, NEW p \in Procs, NEW o \in Ops, NEW e \in Entries, Begin(p, o, e)
  PROVE  PublishInv'
<1> USE DEF PublishInv
<1>1. /\ tree.manifest \in Manifests /\ plan[o] \in Manifests /\ req[o] \in Requests
      /\ UNCHANGED <<plan, job, tree, index, history, journal, lock, owner>> /\ HeadTree' = HeadTree
  BY DEF Begin, PublishTypeOK, Snapshots, git, lockFiles, HeadTree
<1>2. PICK r \in Requests : /\ r.entry = e /\ req' = [req EXCEPT ![o] = r]
                            /\ \/ r = req[o]
                               \/ req[o] = NoRequest /\ r.base = tree.manifest
  <2>1. CASE req[o] = NoRequest
    <3>1. [entry |-> e, base |-> tree.manifest] \in Requests
      BY <1>1 DEF Requests
    <3>2. QED  BY <2>1, <3>1 DEF Begin
  <2>2. CASE req[o] # NoRequest
    BY <1>1, <2>2 DEF Begin, PublishTypeOK
  <2>3. QED  BY <2>1, <2>2
<1>3. req' \in [Ops -> Requests] /\ req'[o] = r /\ \A x \in Ops : x # o => req'[x] = req[x]
  BY <1>2 DEF PublishTypeOK
<1>4. [op |-> o, entries |-> [tree.manifest.entries EXCEPT ![e] = o]] \in Manifests
  BY <1>1 DEF Manifests
<1>5. PICK m \in Manifests :
        /\ m = (IF plan[o] # NoManifest THEN plan[o]
                ELSE [op |-> o, entries |-> [tree.manifest.entries EXCEPT ![e] = o]])
  BY <1>1, <1>4
<1>6. PICK k \in Processes : k.step = "admit" /\ k.op = o /\ k.manifest = m /\ proc' = [proc EXCEPT ![p] = k]
  BY <1>5, NoManifestType DEF Begin, Idle, Processes, Steps, Refs
<1>7. /\ proc' \in [Procs -> Processes] /\ proc'[p] = k /\ \A q \in Procs : q # p => proc'[q] = proc[q]
  BY <1>6 DEF PublishTypeOK
<1>8. PublishTypeOK'
  BY <1>1, <1>3, <1>7 DEF PublishTypeOK
<1>9. "admit" \notin WinnerSteps /\ "admit" \notin LockedSteps /\ "admit" \notin EarlySteps
  BY DEF WinnerSteps, LockedSteps, EarlySteps
<1>10. \A q \in Procs : proc[q].step # "idle" => proc[q].op \in Ops /\ req'[proc[q].op] = req[proc[q].op]
  BY <1>2, <1>3, NameAssumption DEF PlansOK, ProcessAt, NoRequest
<1>11. WinnersOK' /\ LockOK'
  BY <1>1, <1>6, <1>7, <1>9 DEF WinnersOK, LockOK, HoldSteps
<1>12. PlansOK'
  <2>1. RowAt(o, req[o], plan[o], job[o], tree.manifest)
    BY DEF PlansOK
  <2>2. RowAt(o, r, plan[o], job[o], tree.manifest)
    BY <1>2, <2>1 DEF RowAt
  <2>3. \A x \in Ops : RowAt(x, req[x], plan[x], job[x], tree.manifest)'
    BY <1>1, <1>3, <2>2 DEF PlansOK
  <2>4. m.op = o /\ (tree.manifest = r.base => m = Planned(o, r))
    BY <1>2, <1>5, <2>2 DEF RowAt, Planned
  <2>5. ProcessAt(k, r, plan[o], tree.manifest)
    BY <1>2, <1>6, <2>4 DEF ProcessAt
  <2>6. \A q \in Procs : proc'[q].step # "idle" =>
          ProcessAt(proc[q], req[proc[q].op], plan[proc[q].op], tree.manifest)'
    BY <1>1, <1>3, <1>6, <1>7, <1>10, <2>5 DEF PlansOK
  <2>7. QED  BY <2>3, <2>6 DEF PlansOK
<1>13. FreshOK'
  <2>1. \A x : Unwritten(x) => Unwritten(x)'
    BY <1>1, <1>2, <1>3 DEF Unwritten
  <2>2. QED  BY <1>1, <1>6, <1>7, <1>9, <2>1 DEF FreshOK
<1>14. WriterOK'
  <2>1. WriterAt(k, r, plan[o], tree.manifest, index, HeadTree)
    BY <1>6, <1>9 DEF WriterAt
  <2>2. QED  BY <1>1, <1>3, <1>6, <1>7, <1>10, <2>1 DEF WriterOK
<1>15. HistoryOK' /\ JournalOK'
  BY <1>1 DEF HistoryOK, JournalOK, JournalAt
<1>16. SettledOK'
  BY <1>1, <1>6, <1>7 DEF SettledOK, Names
<1>17. QED  BY <1>8, <1>11, <1>12, <1>13, <1>14, <1>15, <1>16

LEMMA AdmitPublicationInv ==
  ASSUME PublishInv, NEW p \in Procs, AdmitPublication(p)
  PROVE  PublishInv'
<1>1. PICK o \in Ops : o = proc[p].op
  BY ProcFacts DEF AdmitPublication, At
<1>2. /\ proc[p].step = "admit" /\ proc[p] \in Processes /\ job[o] \in Jobs(Refs, Ops) /\ req[o].entry \in Entries
      /\ UNCHANGED <<req, tree, index, history, journal, lock, owner>> /\ HeadTree' = HeadTree
  BY <1>1, ProcFacts DEF AdmitPublication, At, git, lockFiles, HeadTree
<1>3. CASE plan[o] # NoManifest
  <2>1. job' = job /\ FilesMove(p) /\ (Go(p, "register") \/ Stop(p))
    BY <1>1, <1>3, FilesSame DEF AdmitPublication
  <2>2. CASE Go(p, "register")
    <3>1. PICK k \in Processes : k.step = "register" /\ k.op = o /\ proc' = [proc EXCEPT ![p] = k]
      BY <1>1, <2>2, GoFacts DEF Steps
    <3>2. job[o] \in Jobs(Refs, Ops) /\ RowMoves(o, job[o])
      BY <2>1, KeepsRow
    <3>3. ProcMoves(p, o, job[o], k)
      BY <1>1, <1>2, <1>3, <3>1 DEF ProcMoves, WinnerSteps, EarlySteps, LockedSteps, HoldSteps, WriterAt
    <3>4. QED  BY <2>1, <3>1, <3>2, <3>3, StepInv
  <2>3. QED  BY <1>2, <2>1, <2>2, StopInv
<1>4. CASE plan[o] = NoManifest
  <2> USE DEF PublishInv
  <2>1. PICK m \in Manifests : m = proc[p].manifest /\ plan' = [plan EXCEPT ![o] = m]
    BY <1>1, <1>2, <1>4 DEF AdmitPublication, Processes
  <2>2. PICK j \in Jobs(Refs, Ops) : j.stage = "registered" /\ job' = [job EXCEPT ![o] = j]
    <3>1. "registered" \in Stages
      BY StagesMean
    <3>2. QED  BY <1>1, <1>2, <1>4, <3>1, AdvancedPlain DEF AdmitPublication
  <2>3. PICK k \in Processes : k.step = "register" /\ k.op = o /\ proc' = [proc EXCEPT ![p] = k]
    BY <1>1, <1>4, GoFacts DEF AdmitPublication, Steps
  <2>4. /\ m.op = o /\ (tree.manifest = req[o].base => m = Planned(o, req[o]))
        /\ m # NoManifest /\ req[o] # NoRequest /\ job[o].stage = None
    <3>1. ProcessAt(proc[p], req[o], plan[o], tree.manifest) /\ RowAt(o, req[o], plan[o], job[o], tree.manifest)
      BY <1>1, <1>2 DEF PlansOK
    <3>2. m.op = o /\ (tree.manifest = req[o].base => m = Planned(o, req[o])) /\ job[o].stage = None
      BY <1>1, <1>2, <1>4, <2>1, <3>1 DEF ProcessAt, RowAt
    <3>3. m # NoManifest /\ req[o] # NoRequest
      BY <1>2, <3>2, NoManifestType, NameAssumption DEF NoRequest
    <3>4. QED  BY <3>2, <3>3
  <2>5. /\ proc' \in [Procs -> Processes] /\ proc'[p] = k /\ \A q \in Procs : q # p => proc'[q] = proc[q]
    BY <2>3 DEF PublishTypeOK
  <2>6. /\ plan' \in [Ops -> Manifests] /\ plan'[o] = m /\ \A x \in Ops : x # o => plan'[x] = plan[x]
    BY <2>1 DEF PublishTypeOK
  <2>7. /\ job' \in [Ops -> Jobs(Refs, Ops)] /\ job'[o] = j /\ \A x \in Ops : x # o => job'[x] = job[x]
    BY <2>2 DEF PublishTypeOK
  <2>8. PublishTypeOK'
    BY <1>2, <2>5, <2>6, <2>7 DEF PublishTypeOK
  <2>9. "register" \notin WinnerSteps /\ "register" \notin LockedSteps /\ "register" \notin EarlySteps
        /\ "registered" \in Unstarted /\ None \in Unstarted /\ "registered" # None
        /\ "idle" \notin WinnerSteps
    BY DEF WinnerSteps, LockedSteps, EarlySteps, Unstarted, None
  <2>10. \A q \in Procs : proc[q].step # "idle" /\ proc[q].op = o => proc[q].step = "admit"
    BY <1>4 DEF PlansOK, ProcessAt
  <2>11. \A q \in Procs : proc[q].step # "idle" => proc[q].op \in Ops
    BY DEF PlansOK, ProcessAt
  <2>12. WinnersOK'
    <3> SUFFICES ASSUME NEW q \in Procs, proc'[q].step \in WinnerSteps
                 PROVE  /\ job'[proc'[q].op].stage \notin Unstarted
                        /\ \A r \in Procs : proc'[r].step \in WinnerSteps /\ proc'[r].op = proc'[q].op => r = q
      BY DEF WinnersOK
    <3>1. q # p /\ proc[q].step \in WinnerSteps /\ proc'[q] = proc[q]
      BY <2>3, <2>5, <2>9
    <3>2. job[proc[q].op].stage \notin Unstarted /\ proc[q].op \in Ops
      BY <2>9, <2>11, <3>1 DEF WinnersOK
    <3>3. QED  BY <2>3, <2>4, <2>5, <2>7, <2>9, <3>1, <3>2 DEF WinnersOK
  <2>13. LockOK'
    <3>1. \A x \in Ops : job'[x].stage \in Unstarted => job[x].stage \in Unstarted
      BY <2>4, <2>7, <2>9
    <3>2. \A q \in Procs : proc'[q].step \in HoldSteps \cup WinnerSteps \cup {"inspect", "reap"} => proc'[q] = proc[q]
      BY <2>3, <2>5, <2>9 DEF HoldSteps
    <3>3. QED  BY <1>2, <3>1, <3>2 DEF LockOK
  <2>14. PlansOK'
    <3>1. RowAt(o, req[o], m, j, tree.manifest)
      BY <1>2, <2>2, <2>4, <2>9 DEF RowAt
    <3>2. \A x \in Ops : RowAt(x, req[x], plan[x], job[x], tree.manifest)'
      BY <1>2, <2>6, <2>7, <3>1 DEF PlansOK
    <3>3. ASSUME NEW q \in Procs, proc'[q].step # "idle"
          PROVE  ProcessAt(proc[q], req[proc[q].op], plan[proc[q].op], tree.manifest)'
      <4>1. CASE q = p
        BY <1>2, <2>3, <2>4, <2>5, <2>6, <4>1 DEF ProcessAt
      <4>2. CASE q # p /\ proc[q].op = o
        <5>1. ProcessAt(proc[q], req[o], plan[o], tree.manifest) /\ proc[q].step = "admit"
          BY <2>5, <2>10, <3>3, <4>2 DEF PlansOK
        <5>2. ProcessAt(proc[q], req[o], m, tree.manifest)
          BY <5>1 DEF ProcessAt
        <5>3. QED  BY <1>2, <2>5, <2>6, <4>2, <5>2
      <4>3. CASE q # p /\ proc[q].op # o
        BY <1>2, <2>5, <2>6, <2>11, <3>3, <4>3 DEF PlansOK
      <4>4. QED  BY <4>1, <4>2, <4>3
    <3>4. QED  BY <3>2, <3>3 DEF PlansOK
  <2>15. FreshOK'
    <3>1. \A x : Unwritten(x)' <=> Unwritten(x)
      BY <1>2 DEF Unwritten
    <3>2. QED  BY <2>3, <2>4, <2>5, <2>7, <2>9, <3>1 DEF FreshOK
  <2>16. WriterOK'
    <3> SUFFICES ASSUME NEW q \in Procs, proc'[q].step # "idle"
                 PROVE  WriterAt(proc[q], req[proc[q].op], plan[proc[q].op], tree.manifest, index, HeadTree)'
      BY DEF WriterOK
    <3>1. CASE q # p /\ proc[q].op # o
      BY <1>2, <2>5, <2>6, <2>11, <3>1 DEF WriterOK
    <3>2. CASE q = p \/ proc[q].op = o
      <4>1. proc'[q].step \in {"admit", "register"}
        BY <2>3, <2>5, <2>10, <3>2
      <4>2. QED  BY <4>1 DEF WriterAt, LockedSteps
    <3>3. QED  BY <3>1, <3>2
  <2>17. HistoryOK' /\ JournalOK'
    <3>1. Unwritten(o)
      BY <2>4, <2>9 DEF FreshOK
    <3>2. QED  BY <1>2, <2>6, <3>1 DEF HistoryOK, JournalOK, JournalAt, Unwritten
  <2>18. SettledOK'
    BY <1>2, <2>2, <2>3, <2>5, <2>7 DEF SettledOK, Names, Resolved
  <2>19. QED  BY <2>8, <2>12, <2>13, <2>14, <2>15, <2>16, <2>17, <2>18
<1>5. QED  BY <1>3, <1>4

-----------------------------------------------------------------------------
(* Under the lock.                                                         *)

\* While p holds the lock no other process holds it, and none works on the
\* operation of p.
LEMMA OthersWait ==
  ASSUME PublishInv, NEW p \in Procs, proc[p].step \in LockedSteps
  PROVE  /\ \A q \in Procs : q # p => proc[q].step \notin HoldSteps /\ proc[q].step \notin LockedSteps
         /\ \A q \in Procs : q # p /\ proc[q].step \in EarlySteps => proc[q].op # proc[p].op
         /\ job[proc[p].op].stage \notin Unstarted
<1>1. LockedSteps \subseteq HoldSteps /\ HoldSteps \subseteq WinnerSteps /\ EarlySteps \subseteq WinnerSteps
  BY DEF HoldSteps, WinnerSteps, EarlySteps, LockedSteps
<1>2. QED  BY <1>1 DEF PublishInv, LockOK, WinnersOK

\* A process in the lock rewrites what it holds the lock for, and keeps the
\* lock file or removes it.
LEMMA HoldersFilesMove ==
  ASSUME PublishInv, NEW p \in Procs, proc[p].step \in LockedSteps, owner' = owner, lock' \in {lock, None},
         UNCHANGED <<req, plan, history>>, tree' \in Snapshots, tree'.manifest = tree.manifest,
         index' \in Snapshots, journal' \in Journals, JournalAt(journal')
  PROVE  FilesMove(p)
<1>1. owner \in Owners /\ lock \in Ops \cup {None}
  BY DEF PublishInv, PublishTypeOK
<1>2. \A q \in Procs : q # p => proc[q].step \notin HoldSteps /\ proc[q].step \notin LockedSteps
  BY OthersWait
<1>3. QED  BY <1>1, <1>2 DEF FilesMove

LEMMA CreateLockInv ==
  ASSUME PublishInv, NEW p \in Procs, CreateLock(p)
  PROVE  PublishInv'
<1>1. PICK o \in Ops : o = proc[p].op
  BY ProcFacts DEF CreateLock, At
<1>2. /\ proc[p].step = "lock" /\ lock = None /\ lock' = o /\ owner' = owner /\ job' = job
      /\ UNCHANGED <<req, plan, git, journal>> /\ Go(p, "sign")
  BY <1>1 DEF CreateLock, At, LockIsFree, store
<1>3. PICK k \in Processes : k.step = "sign" /\ k.op = o /\ proc' = [proc EXCEPT ![p] = k]
  BY <1>1, <1>2, GoFacts DEF Steps
<1>4. job[o] \in Jobs(Refs, Ops) /\ RowMoves(o, job[o])
  BY <1>2, KeepsRow
<1>5. FilesMove(p)
  <2>1. \A q \in Procs : proc[q].step \notin HoldSteps
    <3>1. \A q \in Procs : proc[q].step \in HoldSteps => proc[q].step # "idle" /\ lock = proc[q].op
      BY DEF PublishInv, LockOK, HoldSteps, LockedSteps
    <3>2. QED  BY <1>2, <3>1, ProcFacts, NameAssumption
  <2>2. QED  BY <1>2, <2>1 DEF FilesMove, git, PublishInv, PublishTypeOK, JournalOK
<1>6. plan[o] # NoManifest /\ Unwritten(o) /\ owner[o] # "dead" /\ proc[p].step \in WinnerSteps
  BY <1>1, <1>2, ProcFacts DEF EarlySteps, WinnerSteps
<1>7. ProcMoves(p, o, job[o], k)
  BY <1>1, <1>2, <1>3, <1>6 DEF ProcMoves, WriterAt, LockedSteps
<1>8. QED  BY <1>3, <1>4, <1>5, <1>7, StepInv

LEMMA SignLockInv ==
  ASSUME PublishInv, NEW p \in Procs, SignLock(p)
  PROVE  PublishInv'
<1>1. PICK o \in Ops : o = proc[p].op
  BY ProcFacts DEF SignLock, At
<1>2. /\ proc[p].step = "sign" /\ lock' = lock /\ owner' = [owner EXCEPT ![o] = "alive"] /\ job' = job
      /\ UNCHANGED <<req, plan, git, journal>> /\ Go(p, "base")
  BY <1>1 DEF SignLock, At, store
<1>3. /\ lock = o /\ owner[o] # "dead" /\ job[o].stage \notin Unstarted /\ owner \in Owners
  BY <1>1, <1>2 DEF PublishInv, PublishTypeOK, LockOK, WinnersOK, HoldSteps, WinnerSteps, EarlySteps
<1>4. FilesMove(p)
  BY <1>2, <1>3 DEF FilesMove, Owners, git, PublishInv, PublishTypeOK, JournalOK
<1>5. \A k \in Processes : k.step = "base" => WriterAt(k, req[k.op], plan[k.op], tree.manifest, index', HeadTree)
  BY DEF WriterAt
<1>6. "base" \in Steps /\ proc[p].step \in WinnerSteps /\ proc[p].step \in EarlySteps
  BY <1>2 DEF Steps, WinnerSteps, EarlySteps
<1>7. QED  BY <1>1, <1>2, <1>3, <1>4, <1>5, <1>6, GoInv

LEMMA OpenLockInv ==
  ASSUME PublishInv, NEW p \in Procs, OpenLock(p)
  PROVE  PublishInv'
<1>1. PICK o \in Ops : o = proc[p].op
  BY ProcFacts DEF OpenLock, At
<1>2. /\ proc[p].step = "lock" /\ job' = job /\ proc \in [Procs -> Processes] /\ owner' = owner
      /\ proc' = [proc EXCEPT ![p].step = "inspect", ![p].seen = lock]
  BY DEF OpenLock, At, store, lockFiles, PublishInv, PublishTypeOK
<1>3. lock \in Ops
  BY DEF OpenLock, LockIsFree, PublishInv, PublishTypeOK
<1>4. PICK k : k = [proc[p] EXCEPT !.step = "inspect", !.seen = lock]
  OBVIOUS
<1>5. k \in Processes /\ k.step = "inspect" /\ k.op = o /\ k.seen \in Ops /\ proc' = [proc EXCEPT ![p] = k]
  BY <1>1, <1>2, <1>3, <1>4 DEF Processes, Steps
<1>6. job[o] \in Jobs(Refs, Ops) /\ RowMoves(o, job[o])
  BY <1>2, KeepsRow
<1>7. FilesMove(p)
  BY FilesSame DEF OpenLock, store
<1>8. plan[o] # NoManifest /\ Unwritten(o) /\ owner[o] # "dead" /\ proc[p].step \in WinnerSteps
  BY <1>1, <1>2, ProcFacts DEF EarlySteps, WinnerSteps
<1>9. ProcMoves(p, o, job[o], k)
  BY <1>1, <1>2, <1>5, <1>8 DEF ProcMoves, WriterAt, LockedSteps, HoldSteps
<1>10. QED  BY <1>5, <1>6, <1>7, <1>9, StepInv

LEMMA InspectLockInv ==
  ASSUME PublishInv, NEW p \in Procs, InspectLock(p)
  PROVE  PublishInv'
<1>1. PICK o \in Ops : o = proc[p].op
  BY ProcFacts DEF InspectLock, At
<1>2. proc[p].step = "inspect" /\ job' = job /\ owner' = owner /\ FilesMove(p)
  BY FilesSame DEF InspectLock, At, store, lockFiles
<1>3. CASE owner[proc[p].seen] # "dead"
  <2>1. Go(p, "lock")
    BY <1>3 DEF InspectLock
  <2>2. QED  BY <1>2, <2>1, GoInv DEF Steps, WinnerSteps, EarlySteps, LockedSteps
<1>4. CASE owner[proc[p].seen] = "dead"
  <2>1. PICK k \in Processes : k.step = "reap" /\ k.op = o /\ k.seen = proc[p].seen /\ proc' = [proc EXCEPT ![p] = k]
    <3>1. Go(p, "reap") /\ "reap" \in Steps
      BY <1>4 DEF InspectLock, Steps
    <3>2. QED  BY <1>1, <3>1, GoFacts
  <2>2. job[o] \in Jobs(Refs, Ops) /\ RowMoves(o, job[o])
    BY <1>2, KeepsRow
  <2>3. plan[o] # NoManifest /\ Unwritten(o) /\ owner[o] # "dead" /\ proc[p].step \in WinnerSteps
    BY <1>1, <1>2, ProcFacts DEF EarlySteps, WinnerSteps
  <2>4. k.seen \in Ops
    BY <1>2, <2>1 DEF PublishInv, LockOK
  <2>5. ProcMoves(p, o, job[o], k)
    BY <1>1, <1>2, <1>4, <2>1, <2>3, <2>4 DEF ProcMoves, WriterAt, LockedSteps, HoldSteps
  <2>6. QED  BY <1>2, <2>1, <2>2, <2>5, StepInv
<1>5. QED  BY <1>3, <1>4

\* The path still leads to the file that was inspected, whose owner is dead,
\* or to nothing.
LEMMA ReapLockInv ==
  ASSUME PublishInv, NEW p \in Procs, ReapLock(p), ~stolen'
  PROVE  PublishInv'
<1>1. /\ proc[p].step = "reap" /\ job' = job /\ lock' = None /\ owner' = owner
      /\ UNCHANGED <<req, plan, git, journal>> /\ Go(p, "lock") /\ lock \in {None, proc[p].seen}
  BY DEF ReapLock, At, store
<1>2. owner[proc[p].seen] = "dead"
  BY <1>1 DEF PublishInv, LockOK
<1>3. \A q \in Procs : proc[q].step \notin HoldSteps
  <2> SUFFICES ASSUME NEW q \in Procs, proc[q].step \in HoldSteps PROVE FALSE
    OBVIOUS
  <2>1. proc[q].step # "idle" /\ proc[q].step \in WinnerSteps
    BY DEF HoldSteps, LockedSteps, WinnerSteps, EarlySteps
  <2>2. lock = proc[q].op /\ proc[q].op \in Ops /\ owner[proc[q].op] # "dead"
    BY <2>1, ProcFacts DEF PublishInv, LockOK
  <2>3. QED  BY <1>1, <1>2, <2>2, NameAssumption
<1>4. FilesMove(p)
  BY <1>1, <1>3 DEF FilesMove, git, PublishInv, PublishTypeOK, JournalOK
<1>5. QED  BY <1>1, <1>4, GoInv DEF Steps, WinnerSteps, EarlySteps, LockedSteps

LEMMA LockTimeoutInv ==
  ASSUME PublishInv, NEW p \in Procs, LockTimeout(p)
  PROVE  PublishInv'
<1>1. proc[p].step = "lock" /\ job' = job /\ Go(p, "readback") /\ FilesMove(p)
  BY FilesSame DEF LockTimeout, At, store
<1>2. QED  BY <1>1, GoInv DEF Steps, WinnerSteps, EarlySteps, LockedSteps

LEMMA ReturnInv ==
  ASSUME PublishInv, NEW p \in Procs, proc[p].step \in LockedSteps, Return(p), UNCHANGED <<store, git>>,
         owner' = owner, journal' \in Journals, JournalAt(journal')
  PROVE  PublishInv'
<1>1. FilesMove(p)
  BY HoldersFilesMove DEF Return, store, git, PublishInv, PublishTypeOK
<1>2. job' = job /\ Go(p, "readback") /\ proc[p].step \notin {"idle", "admit"}
      /\ proc[p].step \in WinnerSteps
  BY DEF Return, store, LockedSteps, WinnerSteps
<1>3. QED  BY <1>1, <1>2, GoInv DEF Steps, EarlySteps, LockedSteps

\* What the operation of an early step finds: it is nowhere yet.
LEMMA UnwrittenFacts ==
  ASSUME PublishInv, NEW p \in Procs, NEW o, o = proc[p].op, proc[p].step \in EarlySteps
  PROVE  /\ o \in Ops /\ req[o] \in Requests /\ req[o].entry \in Entries
         /\ tree.manifest.op # o /\ tree.manifest.entries[req[o].entry] # o
         /\ Committed(o) = {}
         /\ plan[o] \in Manifests /\ plan[o] # NoManifest /\ plan[o].op = o
         /\ tree.manifest = req[o].base => plan[o] = Planned(o, req[o])
<1>1. proc[p].step # "idle" /\ proc[p].step # "admit"
  BY DEF EarlySteps
<1>2. /\ o \in Ops /\ req[o] \in Requests /\ req[o].entry \in Entries /\ plan[o] \in Manifests
      /\ plan[o] # NoManifest /\ Unwritten(o)
  BY <1>1, ProcFacts
<1>3. RowAt(o, req[o], plan[o], job[o], tree.manifest)
  BY <1>2 DEF PublishInv, PlansOK
<1>4. QED  BY <1>2, <1>3 DEF Unwritten, Mentions, Committed, RowAt

LEMMA CheckBaseInv ==
  ASSUME PublishInv, NEW p \in Procs, CheckBase(p)
  PROVE  PublishInv'
<1>1. PICK o : o = proc[p].op
  OBVIOUS
<1>2. proc[p].step = "base" /\ proc[p].step \in EarlySteps /\ proc[p].step \in LockedSteps
  BY DEF CheckBase, At, EarlySteps, LockedSteps
<1>3. /\ o \in Ops /\ req[o] \in Requests /\ tree.manifest.entries[req[o].entry] # o /\ Committed(o) = {}
      /\ plan[o] \in Manifests /\ plan[o] # NoManifest
      /\ tree.manifest = req[o].base => plan[o] = Planned(o, req[o])
  BY <1>1, <1>2, UnwrittenFacts
<1>4. UNCHANGED <<store, git, journal>> /\ owner' = owner
  BY <1>1, <1>3 DEF CheckBase
<1>5. CASE Return(p)
  BY <1>2, <1>4, <1>5, ReturnInv DEF PublishInv, PublishTypeOK, JournalOK
<1>6. CASE ~Return(p)
  <2>1. /\ tree.manifest = req[o].base /\ lock' = lock
        /\ proc' = [proc EXCEPT ![p].step = "prepare", ![p].manifest = Merge(o)]
    BY <1>1, <1>3, <1>6 DEF CheckBase
  <2>2. Merge(o) = plan[o] /\ Merge(o) = Planned(o, req[o])
    BY <1>3, <2>1 DEF Merge, Planned
  <2>3. PICK k \in Processes : /\ k.step = "prepare" /\ k.op = o /\ k.manifest = plan[o]
                               /\ proc' = [proc EXCEPT ![p] = k]
    <3>1. proc \in [Procs -> Processes] /\ "prepare" \in Steps
      BY DEF PublishInv, PublishTypeOK, Steps
    <3>2. PICK k : k = [proc[p] EXCEPT !.step = "prepare", !.manifest = plan[o]]
      OBVIOUS
    <3>3. k \in Processes /\ k.step = "prepare" /\ k.op = o /\ k.manifest = plan[o]
      BY <1>1, <1>3, <3>1, <3>2 DEF Processes
    <3>4. proc' = [proc EXCEPT ![p] = k]
      BY <2>1, <2>2, <3>1, <3>2
    <3>5. QED  BY <3>3, <3>4
  <2>4. job[o] \in Jobs(Refs, Ops) /\ RowMoves(o, job[o])
    BY <1>3, <1>4, KeepsRow DEF store
  <2>5. FilesMove(p)
    BY <1>2, <1>4, <2>1, HoldersFilesMove DEF store, git, PublishInv, PublishTypeOK, JournalOK
  <2>6. Unwritten(o) /\ lock = proc[p].op /\ owner[o] # "dead" /\ plan[o] = Planned(o, req[o])
    BY <1>1, <1>2, <2>2, ProcFacts DEF WinnerSteps
  <2>7. WriterAt(k, req[o], plan[o], tree.manifest, index', HeadTree)
    BY <2>1, <2>3, <2>6 DEF WriterAt
  <2>8. ProcMoves(p, o, job[o], k)
    BY <1>1, <1>2, <1>3, <1>4, <2>1, <2>3, <2>6, <2>7 DEF ProcMoves, WinnerSteps
  <2>9. QED  BY <2>3, <2>4, <2>5, <2>8, <1>3, StepInv
<1>7. QED  BY <1>5, <1>6

LEMMA PrepareInv ==
  ASSUME PublishInv, NEW p \in Procs, Prepare(p)
  PROVE  PublishInv'
<1>1. PICK o : o = proc[p].op
  OBVIOUS
<1>2. proc[p].step = "prepare" /\ proc[p].step \in EarlySteps /\ proc[p].step \in LockedSteps
  BY DEF Prepare, At, EarlySteps, LockedSteps
<1>3. /\ WriterAt(proc[p], req[o], plan[o], tree.manifest, index, HeadTree) /\ lock = proc[p].op
      /\ proc[p] \in Processes
  BY <1>1, <1>2, ProcFacts
<1>4. o \in Ops /\ plan[o].op = o /\ proc[p].manifest = plan[o]
  BY <1>1, <1>2, <1>3, UnwrittenFacts DEF WriterAt
<1>5. journal' \in Journals /\ JournalAt(journal')
  <2>1. journal' \in Journals /\ journal'.rev = 0 /\ journal'.manifest = plan[o] /\ journal'.op = o
    BY <1>1, <1>3, <1>4 DEF Prepare, Journals, Processes
  <2>2. Len(history') \in Nat
    BY DEF Prepare, git, PublishInv, PublishTypeOK
  <2>3. QED  BY <1>4, <2>1, <2>2 DEF JournalAt, Prepare, git
<1>6. FilesMove(p) /\ job' = job /\ lock' = proc[p].op /\ Go(p, "status") /\ index' = index
  BY <1>2, <1>3, <1>5, HoldersFilesMove DEF Prepare, store, git, lockFiles, PublishInv, PublishTypeOK
<1>7. \A k \in Processes : k.step = "status" /\ k.op = proc[p].op /\ k.manifest = proc[p].manifest =>
        WriterAt(k, req[k.op], plan[k.op], tree.manifest, index', HeadTree)
  BY <1>1, <1>2, <1>3, <1>6 DEF WriterAt, LockedSteps
<1>8. "status" \in Steps /\ "status" \notin {"idle", "admit", "inspect", "reap", "sign", "started", "marked", "reconcile"}
      /\ proc[p].step \in WinnerSteps /\ proc[p].step \notin {"idle", "admit"}
  BY <1>2 DEF Steps, WinnerSteps
<1>9. QED  BY <1>2, <1>6, <1>7, <1>8, GoInv

LEMMA CheckStatusInv ==
  ASSUME PublishInv, NEW p \in Procs, CheckStatus(p)
  PROVE  PublishInv'
<1>1. PICK o : o = proc[p].op
  OBVIOUS
<1>2. proc[p].step = "status" /\ proc[p].step \in EarlySteps /\ proc[p].step \in LockedSteps
  BY DEF CheckStatus, At, EarlySteps, LockedSteps
<1>3. WriterAt(proc[p], req[o], plan[o], tree.manifest, index, HeadTree) /\ lock = proc[p].op
  BY <1>1, <1>2, ProcFacts
<1>4. /\ tree.manifest # proc[p].manifest /\ tree.manifest = req[o].base
      /\ proc[p].manifest = plan[o] /\ plan[o] = Planned(o, req[o])
  BY <1>1, <1>2, <1>3, UnwrittenFacts DEF WriterAt
<1>5. UNCHANGED <<store, git, journal>> /\ owner' = owner
  BY DEF CheckStatus
<1>6. CASE Return(p)
  BY <1>2, <1>5, <1>6, ReturnInv DEF PublishInv, PublishTypeOK, JournalOK
<1>7. CASE ~Return(p)
  <2>1. Clean /\ Go(p, "write_note") /\ lock' = lock
    BY <1>4, <1>7 DEF CheckStatus
  <2>2. FilesMove(p) /\ job' = job /\ lock' = proc[p].op /\ index' = index
    BY <1>2, <1>3, <1>5, <2>1, HoldersFilesMove DEF store, git, PublishInv, PublishTypeOK, JournalOK
  <2>3. index = HeadTree /\ HeadTree.manifest = req[o].base
    BY <1>4, <2>1 DEF Clean
  <2>4. \A k \in Processes : k.step = "write_note" /\ k.op = proc[p].op /\ k.manifest = proc[p].manifest =>
          WriterAt(k, req[k.op], plan[k.op], tree.manifest, index', HeadTree)
    BY <1>1, <1>4, <2>2, <2>3 DEF WriterAt
  <2>5. "write_note" \in Steps /\ "write_note" \notin {"idle", "admit", "inspect", "reap", "sign", "started", "marked", "reconcile"}
        /\ proc[p].step \in WinnerSteps /\ proc[p].step \notin {"idle", "admit"}
    BY <1>2 DEF Steps, WinnerSteps
  <2>6. QED  BY <1>2, <2>1, <2>2, <2>4, <2>5, GoInv
<1>8. QED  BY <1>6, <1>7

LEMMA WriteNoteInv ==
  ASSUME PublishInv, NEW p \in Procs, WriteNote(p)
  PROVE  PublishInv'
<1>1. PICK o : o = proc[p].op
  OBVIOUS
<1>2. proc[p].step = "write_note" /\ proc[p].step \in EarlySteps /\ proc[p].step \in LockedSteps
  BY DEF WriteNote, At, EarlySteps, LockedSteps
<1>3. WriterAt(proc[p], req[o], plan[o], tree.manifest, index, HeadTree) /\ lock = proc[p].op /\ o \in Ops
  BY <1>1, <1>2, ProcFacts
<1>4. tree' \in Snapshots /\ tree'.manifest = tree.manifest
  <2>1. tree \in Snapshots /\ tree' = [tree EXCEPT !.notes[req[o].entry] = o]
    BY <1>1 DEF WriteNote, PublishInv, PublishTypeOK
  <2>2. QED  BY <1>3, <2>1 DEF Snapshots
<1>5. FilesMove(p) /\ job' = job /\ lock' = proc[p].op /\ index' = index /\ Go(p, "write_manifest")
  BY <1>2, <1>3, <1>4, HoldersFilesMove DEF WriteNote, store, lockFiles, PublishInv, PublishTypeOK, JournalOK
<1>6. \A k \in Processes : k.step = "write_manifest" /\ k.op = proc[p].op /\ k.manifest = proc[p].manifest =>
        WriterAt(k, req[k.op], plan[k.op], tree.manifest, index', HeadTree)
  BY <1>1, <1>2, <1>3, <1>5 DEF WriterAt
<1>7. "write_manifest" \in Steps /\ "write_manifest" \notin {"idle", "admit", "inspect", "reap", "sign", "started", "marked", "reconcile"}
      /\ proc[p].step \in WinnerSteps /\ proc[p].step \notin {"idle", "admit"}
  BY <1>2 DEF Steps, WinnerSteps
<1>8. QED  BY <1>2, <1>5, <1>6, <1>7, GoInv

LEMMA WriteManifestInv ==
  ASSUME PublishInv, NEW p \in Procs, WriteManifest(p)
  PROVE  PublishInv'
<1>1. PICK o : o = proc[p].op
  OBVIOUS
<1>2. proc[p].step = "write_manifest" /\ proc[p].step \in EarlySteps /\ proc[p].step \in LockedSteps
  BY DEF WriteManifest, At, EarlySteps, LockedSteps
<1>3. /\ WriterAt(proc[p], req[o], plan[o], tree.manifest, index, HeadTree) /\ lock = proc[p].op /\ o \in Ops
      /\ Unwritten(o) /\ req[o] \in Requests /\ plan[o] \in Manifests /\ plan[o] # NoManifest
      /\ req[o].entry \in Entries
  BY <1>1, <1>2, ProcFacts
<1>4. PICK m \in Manifests : /\ m = proc[p].manifest /\ m = plan[o] /\ m = Planned(o, req[o]) /\ m.op = o
                             /\ tree.manifest = req[o].base /\ index = HeadTree /\ HeadTree.manifest = req[o].base
  BY <1>1, <1>2, <1>3, UnwrittenFacts DEF WriterAt
<1>5. PICK k \in Processes : k.step = "stage_manifest" /\ k.op = o /\ k.manifest = m /\ proc' = [proc EXCEPT ![p] = k]
  <2>1. Go(p, "stage_manifest") /\ "stage_manifest" \in Steps
    BY DEF WriteManifest, Steps
  <2>2. PICK k \in Processes : /\ k.step = "stage_manifest" /\ k.op = proc[p].op /\ k.manifest = proc[p].manifest
                               /\ proc' = [proc EXCEPT ![p] = k]
    BY <2>1, GoFacts
  <2>3. k.op = o /\ k.manifest = m
    BY <1>1, <1>4, <2>2
  <2>4. QED  BY <2>2, <2>3
<1> USE DEF PublishInv
<1>6. /\ proc' \in [Procs -> Processes] /\ proc'[p] = k /\ \A q \in Procs : q # p => proc'[q] = proc[q]
  BY <1>5 DEF PublishTypeOK
<1>7. tree' \in Snapshots /\ tree'.manifest = m
  <2>1. tree \in Snapshots /\ tree' = [tree EXCEPT !.manifest = m]
    BY <1>4 DEF WriteManifest, PublishTypeOK
  <2>2. QED  BY <2>1 DEF Snapshots
<1>8. UNCHANGED <<req, plan, job, index, history, journal, lock, owner>> /\ HeadTree' = HeadTree
  BY DEF WriteManifest, store, lockFiles, HeadTree
<1>9. PublishTypeOK'
  BY <1>6, <1>7, <1>8 DEF PublishTypeOK
<1>10. /\ \A q \in Procs : q # p => proc[q].step \notin LockedSteps
       /\ \A q \in Procs : q # p /\ proc[q].step \in EarlySteps => proc[q].op # o
       /\ job[o].stage \notin Unstarted
  BY <1>1, <1>2, OthersWait
<1>11. "stage_manifest" \notin EarlySteps /\ "stage_manifest" \in LockedSteps /\ "stage_manifest" \in WinnerSteps
       /\ proc[p].step \in WinnerSteps
  BY <1>2 DEF EarlySteps, LockedSteps, WinnerSteps
<1>12. WinnersOK'
  <2>1. \A q \in Procs : proc'[q].step \in WinnerSteps => proc[q].step \in WinnerSteps /\ proc'[q].op = proc[q].op
    BY <1>1, <1>5, <1>6, <1>11
  <2>2. QED  BY <1>8, <2>1 DEF WinnersOK
<1>13. LockOK'
  <2>1. \A q \in Procs : q # p => proc'[q] = proc[q]
    BY <1>6
  <2>2. lock = proc'[p].op /\ owner[proc'[p].op] # "dead" /\ proc'[p].step \notin {"inspect", "reap"}
    BY <1>1, <1>2, <1>3, <1>5, <1>6, <1>11, ProcFacts
  <2>3. QED  BY <1>8, <2>1, <2>2 DEF LockOK
<1>14. \A x \in Ops : req[x].base # m
  BY <1>3, <1>4 DEF Unwritten, Mentions
<1>15. PlansOK'
  <2>1. \A x \in Ops : RowAt(x, req[x], plan[x], job[x], tree.manifest)'
    BY <1>7, <1>8, <1>14 DEF PlansOK, RowAt
  <2>2. ASSUME NEW q \in Procs, proc'[q].step # "idle"
        PROVE  ProcessAt(proc[q], req[proc[q].op], plan[proc[q].op], tree.manifest)'
    <3>1. CASE q = p
      BY <1>3, <1>5, <1>6, <1>8, <3>1 DEF ProcessAt
    <3>2. CASE q # p
      BY <1>6, <1>7, <1>8, <1>14, <2>2, <3>2 DEF PlansOK, ProcessAt
    <3>3. QED  BY <3>1, <3>2
  <2>3. QED  BY <2>1, <2>2 DEF PlansOK
<1>16. FreshOK'
  <2>1. ASSUME NEW x, x # o, Unwritten(x) PROVE Unwritten(x)'
    <3>1. ASSUME NEW e \in Entries PROVE m.entries[e] # x
      <4>1. req[o].base \in Manifests /\ req[o].base.entries[e] # x
        BY <1>3, <2>1 DEF Unwritten, Mentions, Requests
      <4>2. m.entries[e] = o \/ m.entries[e] = req[o].base.entries[e]
        BY <1>3, <1>4, <4>1 DEF Planned, Manifests
      <4>3. QED  BY <2>1, <4>1, <4>2
    <3>2. ~Mentions(m, x)
      BY <1>4, <2>1, <3>1 DEF Mentions
    <3>3. QED  BY <1>7, <1>8, <2>1, <3>2 DEF Unwritten
  <2>2. \A x \in Ops : job'[x].stage \in Unstarted => Unwritten(x)'
    BY <1>8, <1>10, <2>1 DEF FreshOK
  <2>3. \A q \in Procs : proc'[q].step \in EarlySteps => Unwritten(proc[q].op)'
    <3> SUFFICES ASSUME NEW q \in Procs, proc'[q].step \in EarlySteps PROVE Unwritten(proc[q].op)'
      OBVIOUS
    <3>1. q # p /\ proc'[q] = proc[q] /\ proc[q].op # o /\ Unwritten(proc[q].op)
      BY <1>5, <1>6, <1>10, <1>11 DEF FreshOK
    <3>2. PICK x : x = proc[q].op
      OBVIOUS
    <3>3. Unwritten(x)'
      BY <2>1, <3>1, <3>2
    <3>4. QED  BY <3>1, <3>2, <3>3
  <2>4. QED  BY <2>2, <2>3 DEF FreshOK
<1>17. WriterOK'
  <2> SUFFICES ASSUME NEW q \in Procs, proc'[q].step # "idle"
               PROVE  WriterAt(proc[q], req[proc[q].op], plan[proc[q].op], tree.manifest, index, HeadTree)'
    BY DEF WriterOK
  <2>1. CASE q = p
    BY <1>4, <1>5, <1>6, <1>8, <2>1 DEF WriterAt
  <2>2. CASE q # p
    BY <1>6, <1>10, <2>2 DEF WriterAt, LockedSteps
  <2>3. QED  BY <2>1, <2>2
<1>18. HistoryOK' /\ JournalOK'
  BY <1>8 DEF HistoryOK, JournalOK, JournalAt
<1>19. SettledOK'
  BY <1>5, <1>6, <1>8 DEF SettledOK, Names
<1>20. QED  BY <1>9, <1>12, <1>13, <1>15, <1>16, <1>17, <1>18, <1>19

LEMMA HeadType == ASSUME PublishInv PROVE HeadTree \in Snapshots
<1>1. history \in Seq(Snapshots)
  BY DEF PublishInv, PublishTypeOK
<1>2. CASE history = <<>>
  BY <1>2, NoManifestType DEF HeadTree
<1>3. CASE history # <<>>
  BY <1>1, <1>3 DEF HeadTree, Last
<1>4. QED  BY <1>2, <1>3

LEMMA StageManifestInv ==
  ASSUME PublishInv, NEW p \in Procs, StageManifest(p)
  PROVE  PublishInv'
<1>1. PICK o : o = proc[p].op
  OBVIOUS
<1>2. proc[p].step = "stage_manifest" /\ proc[p].step \in LockedSteps
  BY DEF StageManifest, At, LockedSteps
<1>3. /\ WriterAt(proc[p], req[o], plan[o], tree.manifest, index, HeadTree) /\ lock = proc[p].op /\ o \in Ops
      /\ plan[o] \in Manifests
  BY <1>1, <1>2, ProcFacts
<1>4. /\ proc[p].manifest = plan[o] /\ plan[o] = Planned(o, req[o]) /\ index = HeadTree
      /\ HeadTree.manifest = req[o].base
  BY <1>1, <1>2, <1>3 DEF WriterAt
<1>5. index' = [HeadTree EXCEPT !.manifest = plan[o]] /\ index' \in Snapshots
  <2>1. index' = [HeadTree EXCEPT !.manifest = plan[o]]
    BY <1>4 DEF StageManifest
  <2>2. QED  BY <1>3, <2>1, HeadType DEF Snapshots
<1>6. FilesMove(p) /\ job' = job /\ lock' = proc[p].op /\ Go(p, "stage_note")
  BY <1>2, <1>3, <1>5, HoldersFilesMove DEF StageManifest, store, lockFiles, PublishInv, PublishTypeOK, JournalOK
<1>7. \A k \in Processes : k.step = "stage_note" /\ k.op = proc[p].op /\ k.manifest = proc[p].manifest =>
        WriterAt(k, req[k.op], plan[k.op], tree.manifest, index', HeadTree)
  BY <1>1, <1>4, <1>5 DEF WriterAt
<1>8. "stage_note" \in Steps /\ "stage_note" \notin {"idle", "admit", "inspect", "reap", "sign", "started", "marked", "reconcile"}
      /\ proc[p].step \in WinnerSteps /\ proc[p].step \notin {"idle", "admit"} /\ "stage_note" \notin EarlySteps
  BY <1>2 DEF Steps, WinnerSteps, LockedSteps, EarlySteps
<1>9. QED  BY <1>6, <1>7, <1>8, GoInv

LEMMA StageNoteInv ==
  ASSUME PublishInv, NEW p \in Procs, StageNote(p)
  PROVE  PublishInv'
<1>1. PICK o : o = proc[p].op
  OBVIOUS
<1>2. proc[p].step = "stage_note" /\ proc[p].step \in LockedSteps
  BY DEF StageNote, At, LockedSteps
<1>3. /\ WriterAt(proc[p], req[o], plan[o], tree.manifest, index, HeadTree) /\ lock = proc[p].op /\ o \in Ops
      /\ plan[o] \in Manifests
  BY <1>1, <1>2, ProcFacts
<1>4. /\ proc[p].manifest = plan[o] /\ plan[o] = Planned(o, req[o]) /\ index = [HeadTree EXCEPT !.manifest = plan[o]]
      /\ HeadTree.manifest = req[o].base
  BY <1>1, <1>2, <1>3 DEF WriterAt
<1>5. /\ index' \in Snapshots /\ index'.manifest = plan[o]
      /\ index'.notes = [HeadTree.notes EXCEPT ![req[o].entry] = o]
  <2>1. index' = [index EXCEPT !.notes[req[o].entry] = o]
    BY <1>1 DEF StageNote
  <2>2. index \in Snapshots /\ index.manifest = plan[o] /\ index.notes = HeadTree.notes
    BY <1>3, <1>4, HeadType DEF Snapshots
  <2>3. QED  BY <1>3, <2>1, <2>2 DEF Snapshots
<1>6. FilesMove(p) /\ job' = job /\ lock' = proc[p].op /\ Go(p, "record_staged")
  BY <1>2, <1>3, <1>5, HoldersFilesMove DEF StageNote, store, lockFiles, PublishInv, PublishTypeOK, JournalOK
<1>7. \A k \in Processes : k.step = "record_staged" /\ k.op = proc[p].op /\ k.manifest = proc[p].manifest =>
        WriterAt(k, req[k.op], plan[k.op], tree.manifest, index', HeadTree)
  BY <1>1, <1>4, <1>5 DEF WriterAt
<1>8. "record_staged" \in Steps /\ "record_staged" \notin {"idle", "admit", "inspect", "reap", "sign", "started", "marked", "reconcile"}
      /\ proc[p].step \in WinnerSteps /\ proc[p].step \notin {"idle", "admit"} /\ "record_staged" \notin EarlySteps
  BY <1>2 DEF Steps, WinnerSteps, LockedSteps, EarlySteps
<1>9. QED  BY <1>6, <1>7, <1>8, GoInv

\* The journal that a process writes with the manifest it has.
LEMMA WritesJournal ==
  ASSUME PublishInv, NEW p \in Procs, proc[p].step \in LockedSteps \ {"base"},
         NEW state \in {"files_prepared", "staged", "committed"}, NEW rev \in 0..Len(history),
         journal' = [op |-> proc[p].op, state |-> state, manifest |-> proc[p].manifest, rev |-> rev],
         history' = history
  PROVE  journal' \in Journals /\ JournalAt(journal')
<1>1. PICK o : o = proc[p].op
  OBVIOUS
<1>2. proc[p].step \notin {"idle", "admit"}
  BY DEF LockedSteps
<1>3. /\ WriterAt(proc[p], req[o], plan[o], tree.manifest, index, HeadTree) /\ o \in Ops
      /\ plan[o] \in Manifests /\ plan[o] # NoManifest
  BY <1>1, <1>2, ProcFacts
<1>4. proc[p].manifest = plan[o] /\ plan[o].op = o
  BY <1>1, <1>3 DEF WriterAt, PublishInv, PlansOK, RowAt
<1>5. Len(history) \in Nat
  BY DEF PublishInv, PublishTypeOK
<1>6. QED  BY <1>1, <1>3, <1>4, <1>5 DEF Journals, JournalAt

LEMMA RecordStagedInv ==
  ASSUME PublishInv, NEW p \in Procs, RecordStaged(p)
  PROVE  PublishInv'
<1>1. PICK o : o = proc[p].op
  OBVIOUS
<1>2. proc[p].step = "record_staged" /\ proc[p].step \in LockedSteps \ {"base"}
  BY DEF RecordStaged, At, LockedSteps
<1>3. WriterAt(proc[p], req[o], plan[o], tree.manifest, index, HeadTree) /\ lock = proc[p].op
  BY <1>1, <1>2, ProcFacts
<1>4. UNCHANGED <<store, git>> /\ owner' = owner
  BY DEF RecordStaged
<1>5. journal' \in Journals /\ JournalAt(journal')
  <2>1. CASE journal' = journal
    BY <1>4, <2>1 DEF PublishInv, PublishTypeOK, JournalOK
  <2>2. CASE journal' # journal
    <3>1. Len(history) \in Nat
      BY DEF PublishInv, PublishTypeOK
    <3>2. 0 \in 0..Len(history) /\ history' = history
      BY <1>4, <3>1 DEF git
    <3>3. QED  BY <1>2, <2>2, <3>2, WritesJournal DEF RecordStaged
  <2>3. QED  BY <2>1, <2>2
<1>6. CASE Return(p)
  BY <1>2, <1>4, <1>5, <1>6, ReturnInv
<1>7. CASE ~Return(p)
  <2>1. Go(p, "commit") /\ lock' = proc[p].op /\ job' = job /\ index' = index
    BY <1>3, <1>4, <1>7 DEF RecordStaged, store, git
  <2>2. FilesMove(p)
    BY <1>2, <1>3, <1>4, <1>5, <2>1, HoldersFilesMove DEF store, git, PublishInv, PublishTypeOK
  <2>3. \A k \in Processes : k.step = "commit" /\ k.op = proc[p].op /\ k.manifest = proc[p].manifest =>
          WriterAt(k, req[k.op], plan[k.op], tree.manifest, index', HeadTree)
    BY <1>1, <1>2, <1>3, <2>1 DEF WriterAt, LockedSteps
  <2>4. "commit" \in Steps /\ "commit" \notin {"idle", "admit", "inspect", "reap", "sign", "started", "marked", "reconcile"}
        /\ proc[p].step \in WinnerSteps /\ proc[p].step \notin {"idle", "admit"} /\ "commit" \notin EarlySteps
    BY <1>2 DEF Steps, WinnerSteps, LockedSteps, EarlySteps
  <2>5. QED  BY <2>1, <2>2, <2>3, <2>4, GoInv
<1>8. QED  BY <1>6, <1>7

LEMMA RecordCommittedInv ==
  ASSUME PublishInv, NEW p \in Procs, RecordCommitted(p)
  PROVE  PublishInv'
<1>1. proc[p].step \in LockedSteps \ {"base"} /\ Return(p) /\ UNCHANGED <<store, git>> /\ owner' = owner
  BY DEF RecordCommitted, At, LockedSteps
<1>2. Len(history) \in Nat
  BY DEF PublishInv, PublishTypeOK
<1>3. Len(history) \in 0..Len(history) /\ history' = history
  BY <1>1, <1>2 DEF git
<1>4. journal' \in Journals /\ JournalAt(journal')
  BY <1>1, <1>3, WritesJournal DEF RecordCommitted
<1>5. QED  BY <1>1, <1>4, ReturnInv

\* What a process that is about to commit has in the index.
LEMMA CommitFacts ==
  ASSUME PublishInv, NEW p \in Procs, NEW o, o = proc[p].op, proc[p].step = "commit"
  PROVE  /\ o \in Ops /\ lock = proc[p].op /\ index \in Snapshots /\ req[o].entry \in Entries /\ req[o].base \in Manifests
         /\ plan[o] # NoManifest /\ plan[o].op = o
         /\ proc[p].manifest = plan[o] /\ plan[o] = Planned(o, req[o])
         /\ index.manifest = plan[o] /\ HeadTree.manifest = req[o].base
         /\ index.notes = [HeadTree.notes EXCEPT ![req[o].entry] = o]
         /\ index.notes = index.manifest.entries
<1>1. /\ o \in Ops /\ lock = proc[p].op /\ req[o] \in Requests /\ req[o].entry \in Entries /\ plan[o] # NoManifest
      /\ WriterAt(proc[p], req[o], plan[o], tree.manifest, index, HeadTree)
  BY ProcFacts DEF LockedSteps
<1>2. /\ proc[p].manifest = plan[o] /\ plan[o] = Planned(o, req[o])
      /\ index.manifest = plan[o] /\ HeadTree.manifest = req[o].base
      /\ index.notes = [HeadTree.notes EXCEPT ![req[o].entry] = o]
  BY <1>1 DEF WriterAt, LockedSteps
<1>3. HeadTree.notes = HeadTree.manifest.entries
  <2>1. CASE history = <<>>
    BY <2>1, NoManifestType DEF HeadTree
  <2>2. CASE history # <<>>
    <3>1. Len(history) \in 1..Len(history) /\ HeadTree = history[Len(history)]
      BY <2>2 DEF PublishInv, PublishTypeOK, HeadTree, Last
    <3>2. QED  BY <3>1 DEF PublishInv, HistoryOK
  <2>3. QED  BY <2>1, <2>2
<1>4. plan[o].entries = [req[o].base.entries EXCEPT ![req[o].entry] = o] /\ plan[o].op = o
  BY <1>2 DEF Planned
<1>5. QED  BY <1>1, <1>2, <1>3, <1>4 DEF PublishInv, PublishTypeOK, Requests

LEMMA CommitInv ==
  ASSUME PublishInv, NEW p \in Procs, Commit(p)
  PROVE  PublishInv'
<1>1. PICK o : o = proc[p].op
  OBVIOUS
<1>2. proc[p].step = "commit" /\ proc[p].step \in LockedSteps /\ proc[p].step \in WinnerSteps
  BY DEF Commit, At, LockedSteps, WinnerSteps
<1>3. /\ o \in Ops /\ lock = proc[p].op /\ index \in Snapshots /\ req[o].entry \in Entries /\ plan[o] # NoManifest
      /\ plan[o].op = o /\ proc[p].manifest = plan[o] /\ plan[o] = Planned(o, req[o])
      /\ index.manifest = plan[o] /\ index.notes = index.manifest.entries
  BY <1>1, <1>2, CommitFacts
<1>4. PICK k \in Processes : /\ k.step = "record_committed" /\ k.op = o /\ k.manifest = plan[o]
                             /\ proc' = [proc EXCEPT ![p] = k]
  <2>1. Go(p, "record_committed") /\ "record_committed" \in Steps
    BY DEF Commit, Steps
  <2>2. PICK k \in Processes : /\ k.step = "record_committed" /\ k.op = proc[p].op /\ k.manifest = proc[p].manifest
                               /\ proc' = [proc EXCEPT ![p] = k]
    BY <2>1, GoFacts
  <2>3. QED  BY <1>1, <1>3, <2>2
<1>5. /\ \A q \in Procs : q # p => proc[q].step \notin LockedSteps
      /\ \A q \in Procs : q # p /\ proc[q].step \in EarlySteps => proc[q].op # o
      /\ job[o].stage \notin Unstarted
  BY <1>1, <1>2, OthersWait
<1> USE DEF PublishInv
<1>6. /\ proc' \in [Procs -> Processes] /\ proc'[p] = k /\ \A q \in Procs : q # p => proc'[q] = proc[q]
  BY <1>4 DEF PublishTypeOK
<1>7. UNCHANGED <<req, plan, job, tree, index, journal, lock, owner>>
  BY DEF Commit, store, lockFiles
<1>8. /\ history \in Seq(Snapshots) /\ history' \in Seq(Snapshots) /\ Len(history) \in Nat
      /\ Len(history') = Len(history) + 1 /\ history'[Len(history) + 1] = index
      /\ \A n \in 1..Len(history) : history'[n] = history[n]
  BY <1>3 DEF Commit, PublishTypeOK
<1>9. PublishTypeOK'
  BY <1>6, <1>7, <1>8 DEF PublishTypeOK
<1>10. "record_committed" \notin EarlySteps /\ "record_committed" \in WinnerSteps /\ "record_committed" # "idle"
  BY DEF EarlySteps, LockedSteps, WinnerSteps
<1>11. WinnersOK'
  <2>1. \A q \in Procs : proc'[q].step \in WinnerSteps => proc[q].step \in WinnerSteps /\ proc'[q].op = proc[q].op
    BY <1>1, <1>2, <1>4, <1>6
  <2>2. QED  BY <1>7, <2>1 DEF WinnersOK
<1>12. LockOK'
  <2>1. \A q \in Procs : q # p => proc'[q] = proc[q]
    BY <1>6
  <2>2. lock = proc'[p].op /\ owner[proc'[p].op] # "dead" /\ proc'[p].step \notin {"inspect", "reap"}
    BY <1>1, <1>2, <1>3, <1>4, <1>6, ProcFacts
  <2>3. QED  BY <1>7, <2>1, <2>2 DEF LockOK
<1>13. PlansOK'
  <2>1. \A x \in Ops : RowAt(x, req[x], plan[x], job[x], tree.manifest)'
    BY <1>7 DEF PlansOK
  <2>2. ProcessAt(k, req[o], plan[o], tree.manifest)
    BY <1>3, <1>4 DEF ProcessAt
  <2>3. \A q \in Procs : proc'[q].step # "idle" =>
          ProcessAt(proc[q], req[proc[q].op], plan[proc[q].op], tree.manifest)'
    BY <1>4, <1>6, <1>7, <2>2 DEF PlansOK
  <2>4. QED  BY <2>1, <2>3 DEF PlansOK
<1>14. FreshOK'
  <2>1. ASSUME NEW x, x # o, Unwritten(x) PROVE Unwritten(x)'
    <3>1. ASSUME NEW n \in 1..Len(history') PROVE history'[n].manifest.op # x
      <4>1. n \in 1..Len(history) \/ n = Len(history) + 1
        BY <1>8
      <4>2. QED  BY <1>3, <1>8, <2>1, <4>1 DEF Unwritten
    <3>2. QED  BY <1>7, <2>1, <3>1 DEF Unwritten
  <2>2. \A x \in Ops : job'[x].stage \in Unstarted => Unwritten(x)'
    BY <1>5, <1>7, <2>1 DEF FreshOK
  <2>3. \A q \in Procs : proc'[q].step \in EarlySteps => Unwritten(proc[q].op)'
    <3> SUFFICES ASSUME NEW q \in Procs, proc'[q].step \in EarlySteps PROVE Unwritten(proc[q].op)'
      OBVIOUS
    <3>1. q # p /\ proc'[q] = proc[q] /\ proc[q].op # o /\ Unwritten(proc[q].op)
      BY <1>4, <1>5, <1>6, <1>10 DEF FreshOK
    <3>2. PICK x : x = proc[q].op
      OBVIOUS
    <3>3. Unwritten(x)'
      BY <2>1, <3>1, <3>2
    <3>4. QED  BY <3>1, <3>2, <3>3
  <2>4. QED  BY <2>2, <2>3 DEF FreshOK
<1>15. WriterOK'
  <2> SUFFICES ASSUME NEW q \in Procs, proc'[q].step # "idle"
               PROVE  WriterAt(proc[q], req[proc[q].op], plan[proc[q].op], tree.manifest, index, HeadTree)'
    BY DEF WriterOK
  <2>1. CASE q = p
    BY <1>3, <1>4, <1>6, <1>7, <2>1 DEF WriterAt
  <2>2. CASE q # p
    BY <1>5, <1>6, <2>2 DEF WriterAt, LockedSteps
  <2>3. QED  BY <2>1, <2>2
<1>16. HistoryOK'
  <2> SUFFICES ASSUME NEW n \in 1..Len(history')
               PROVE  /\ history'[n].manifest.op \in Ops
                      /\ history'[n].manifest = plan[history'[n].manifest.op]
                      /\ history'[n].notes = history'[n].manifest.entries
    BY <1>7 DEF HistoryOK
  <2>1. CASE n \in 1..Len(history)
    BY <1>8, <2>1 DEF HistoryOK
  <2>2. CASE n = Len(history) + 1
    BY <1>3, <1>8, <2>2
  <2>3. QED  BY <1>8, <2>1, <2>2
<1>17. JournalOK'
  <2>1. journal.rev \in Nat
    BY DEF PublishTypeOK, Journals
  <2>2. QED  BY <1>7, <1>8, <2>1 DEF JournalOK, JournalAt
<1>18. SettledOK'
  <2>1. \A ref, x : Names(ref, x) => Names(ref, x)'
    BY <1>8 DEF Names
  <2>2. \A q \in Procs :
          /\ proc'[q].step = "reconcile" => proc'[q].done
          /\ proc'[q].step \in {"started", "marked", "reconcile"} /\ proc'[q].done => Names(proc[q].ref, proc[q].op) /\ proc'[q] = proc[q]
    BY <1>4, <1>6 DEF SettledOK
  <2>3. \A q \in Procs : proc'[q].step \in {"started", "marked", "reconcile"} /\ proc'[q].done => Names(proc[q].ref, proc[q].op)'
    <3> SUFFICES ASSUME NEW q \in Procs, proc'[q].step \in {"started", "marked", "reconcile"}, proc'[q].done
                 PROVE  Names(proc[q].ref, proc[q].op)'
      OBVIOUS
    <3>1. PICK ref, x : ref = proc[q].ref /\ x = proc[q].op
      OBVIOUS
    <3>2. Names(ref, x)' /\ proc'[q] = proc[q]
      BY <2>1, <2>2, <3>1
    <3>3. QED  BY <3>1, <3>2
  <2>4. \A x \in Ops : Resolved(job'[x]) => job'[x].digest = x /\ Names(job[x].ref, x)'
    <3> SUFFICES ASSUME NEW x \in Ops, Resolved(job'[x]) PROVE job'[x].digest = x /\ Names(job[x].ref, x)'
      OBVIOUS
    <3>1. PICK ref : ref = job[x].ref
      OBVIOUS
    <3>2. job[x].digest = x /\ Names(ref, x)
      BY <1>7, <3>1 DEF SettledOK
    <3>3. Names(ref, x)'
      BY <2>1, <3>2
    <3>4. QED  BY <1>7, <3>1, <3>2, <3>3
  <2>5. QED  BY <2>2, <2>3, <2>4 DEF SettledOK
<1>19. QED  BY <1>9, <1>11, <1>12, <1>13, <1>14, <1>15, <1>16, <1>17, <1>18

-----------------------------------------------------------------------------
(* Settling the job.                                                       *)

\* A readback of "reconciled" has found a commit of the operation, which the
\* reference names.
LEMMA ReadbackFacts ==
  ASSUME PublishInv, NEW o \in Ops
  PROVE  /\ SideEffectRef(o) \in Refs
         /\ PublicationReadback(o) = "reconciled" => Names(SideEffectRef(o), o)
<1>1. /\ journal.rev \in Nat /\ Len(history) \in Nat /\ journal.rev <= Len(history)
      /\ journal.op # None => journal.manifest.op = journal.op
  BY DEF PublishInv, PublishTypeOK, Journals, JournalOK, JournalAt
<1>2. JournalRevision \in Nat /\ JournalRevision <= Len(history)
  BY <1>1 DEF JournalRevision
<1>3. SideEffectRef(o) \in Refs
  BY <1>1, <1>2 DEF SideEffectRef, Refs
<1>4. ASSUME PublicationReadback(o) = "reconciled" PROVE Names(SideEffectRef(o), o)
  <2>1. journal.op = o /\ journal.op # None /\ CommittedProof
    BY <1>4 DEF PublicationReadback
  <2>2. /\ JournalRevision \in 1..Len(history)
        /\ history[JournalRevision].manifest.op = o
    BY <1>1, <1>2, <2>1 DEF CommittedProof
  <2>3. SideEffectRef(o) = Revision(JournalRevision)
    BY <2>1 DEF SideEffectRef
  <2>4. QED  BY <2>2, <2>3 DEF Names
<1>5. QED  BY <1>3, <1>4

LEMMA ReadbackInv ==
  ASSUME PublishInv, NEW p \in Procs, Readback(p)
  PROVE  PublishInv'
<1>1. PICK o \in Ops : o = proc[p].op
  BY ProcFacts DEF Readback, At
<1>2. proc[p].step = "readback" /\ plan[o] # NoManifest /\ job' = job /\ FilesMove(p)
  BY <1>1, ProcFacts, FilesSame DEF Readback, At, store
<1>3. CASE Stop(p)
  BY <1>2, <1>3, StopInv
<1>4. CASE ~Stop(p)
  <2>1. proc' = [proc EXCEPT ![p].step = "started", ![p].ref = SideEffectRef(o),
                             ![p].done = (PublicationReadback(o) = "reconciled")]
    BY <1>1, <1>4 DEF Readback
  <2>2. PICK ref \in Refs, done \in BOOLEAN :
          /\ proc' = [proc EXCEPT ![p].step = "started", ![p].ref = ref, ![p].done = done]
          /\ done => Names(ref, o)
    BY <2>1, ReadbackFacts
  <2>3. PICK k \in Processes : /\ k.step = "started" /\ k.op = o /\ k.ref = ref /\ k.done = done
                               /\ proc' = [proc EXCEPT ![p] = k]
    <3>1. proc \in [Procs -> Processes] /\ "started" \in Steps
      BY DEF PublishInv, PublishTypeOK, Steps
    <3>2. PICK k : k = [proc[p] EXCEPT !.step = "started", !.ref = ref, !.done = done]
      OBVIOUS
    <3>3. k \in Processes /\ k.step = "started" /\ k.op = o /\ k.ref = ref /\ k.done = done
      BY <1>1, <3>1, <3>2 DEF Processes
    <3>4. proc' = [proc EXCEPT ![p] = k]
      BY <2>2, <3>1, <3>2
    <3>5. QED  BY <3>3, <3>4
  <2>4. job[o] \in Jobs(Refs, Ops) /\ RowMoves(o, job[o])
    BY <1>2, KeepsRow
  <2>5. owner'[o] # "dead"
    BY <1>1, <1>2, ProcFacts DEF Readback, lockFiles, WinnerSteps
  <2>6. ProcMoves(p, o, job[o], k)
    BY <1>1, <1>2, <2>2, <2>3, <2>5 DEF ProcMoves, WinnerSteps, EarlySteps, LockedSteps, HoldSteps, WriterAt
  <2>7. QED  BY <1>2, <2>3, <2>4, <2>6, StepInv
<1>5. QED  BY <1>3, <1>4

\* What a winner that has read its publication back knows of its row.
LEMMA SettleFacts ==
  ASSUME PublishInv, NEW p \in Procs, proc[p].step \in {"started", "marked", "reconcile"}, NEW o, o = proc[p].op
  PROVE  /\ o \in Ops /\ job[o] \in Jobs(Refs, Ops) /\ job[o].stage \notin Unstarted
         /\ proc[p].ref \in Refs /\ proc[p].step \in WinnerSteps /\ plan[o] # NoManifest
         /\ proc[p].step = "reconcile" => proc[p].done
         /\ proc[p].done => Names(proc[p].ref, o)
         /\ Resolved(job[o]) => job[o].digest = o /\ Names(job[o].ref, o)
<1>1. proc[p].step \in WinnerSteps /\ proc[p].step # "idle" /\ proc[p].step # "admit"
  BY DEF WinnerSteps
<1>2. o \in Ops /\ job[o] \in Jobs(Refs, Ops) /\ proc[p] \in Processes /\ plan[o] # NoManifest
  BY <1>1, ProcFacts
<1>3. QED  BY <1>1, <1>2 DEF PublishInv, WinnersOK, SettledOK, Processes

\* A winner at the end of its work either goes on to the next of its last
\* steps or stops, while its row is advanced.
LEMMA SettleInv ==
  ASSUME PublishInv, NEW p \in Procs, proc[p].step \in {"started", "marked", "reconcile"},
         NEW o, o = proc[p].op, NEW j \in Jobs(Refs, Ops), job' = [job EXCEPT ![o] = j],
         j.stage \notin Unstarted, Resolved(j) => j.digest = o /\ Names(j.ref, o),
         \/ Stop(p)
         \/ Go(p, "marked")
         \/ Go(p, "reconcile") /\ proc[p].done,
         UNCHANGED <<req, plan, git, journal, lockFiles>>
  PROVE  PublishInv'
<1>1. /\ o \in Ops /\ job[o].stage \notin Unstarted /\ proc[p].step \in WinnerSteps /\ plan[o] # NoManifest
      /\ proc[p].done => Names(proc[p].ref, o)
      /\ owner'[o] # "dead"
  BY SettleFacts DEF PublishInv, LockOK, lockFiles
<1>2. RowMoves(o, j)
  BY <1>1 DEF RowMoves, Unstarted
<1>3. FilesMove(p)
  BY FilesSame
<1>4. PICK k \in Processes : /\ proc' = [proc EXCEPT ![p] = k]
                             /\ \/ k.step = "idle"
                                \/ /\ k.step \in {"marked", "reconcile"} /\ k.op = o /\ k.ref = proc[p].ref
                                   /\ k.done = proc[p].done /\ (k.step = "reconcile" => k.done)
  <2>1. CASE Stop(p)
    <3>1. PICK k \in Processes : k.step = "idle" /\ proc' = [proc EXCEPT ![p] = k]
      BY <2>1, NoManifestType DEF Stop, Idle, Processes, Steps, Refs
    <3>2. QED  BY <3>1
  <2>2. CASE Go(p, "marked")
    BY <2>2, GoFacts DEF Steps
  <2>3. CASE Go(p, "reconcile") /\ proc[p].done
    <3>1. PICK k \in Processes : /\ k.step = "reconcile" /\ k.op = o /\ k.ref = proc[p].ref
                                 /\ k.done = proc[p].done /\ proc' = [proc EXCEPT ![p] = k]
      <4>1. "reconcile" \in Steps /\ Go(p, "reconcile")
        BY <2>3 DEF Steps
      <4>2. QED  BY <4>1, GoFacts
    <3>2. k.done
      BY <2>3, <3>1
    <3>3. QED  BY <3>1, <3>2
  <2>4. QED  BY <2>1, <2>2, <2>3
<1>5. ProcMoves(p, o, j, k)
  BY <1>1, <1>4 DEF ProcMoves, WinnerSteps, EarlySteps, LockedSteps, HoldSteps, WriterAt
<1>6. QED  BY <1>1, <1>2, <1>3, <1>4, <1>5, StepInv

LEMMA MarkEffectStartedInv ==
  ASSUME PublishInv, NEW p \in Procs, MarkEffectStarted(p)
  PROVE  PublishInv'
<1>1. PICK o : o = proc[p].op
  OBVIOUS
<1>2. proc[p].step \in {"started", "marked", "reconcile"}
  BY DEF MarkEffectStarted, At
<1>3. /\ job[o] \in Jobs(Refs, Ops) /\ job[o].stage \notin Unstarted /\ proc[p].ref \in Refs
      /\ Resolved(job[o]) => job[o].digest = o /\ Names(job[o].ref, o)
  BY <1>1, <1>2, SettleFacts
<1>4. PICK j \in Jobs(Refs, Ops) : /\ j = MarkStarted(job[o], proc[p].ref)
                                   /\ j = job[o] \/ j.stage = "side_effect_started"
  <2>1. None \in Ops \cup {None} /\ "side_effect_started" \in Stages
    BY StagesMean
  <2>2. /\ Advanced(job[o], "side_effect_started", proc[p].ref, None) \in Jobs(Refs, Ops)
        /\ Advanced(job[o], "side_effect_started", proc[p].ref, None).stage = "side_effect_started"
    BY <1>3, <2>1, AdvancedFacts
  <2>3. QED  BY <1>3, <2>2 DEF MarkStarted, Advance
<1>5. job' = [job EXCEPT ![o] = j] /\ (Stop(p) \/ Go(p, "marked")) /\ UNCHANGED <<req, plan, git, journal, lockFiles>>
  BY <1>1, <1>4 DEF MarkEffectStarted
<1>6. j.stage \notin Unstarted /\ (Resolved(j) => j.digest = o /\ Names(j.ref, o))
  BY <1>3, <1>4 DEF Unstarted, Resolved, None
<1>7. QED  BY <1>1, <1>2, <1>5, <1>6, SettleInv

LEMMA MarkReadbackRequiredInv ==
  ASSUME PublishInv, NEW p \in Procs, MarkReadbackRequired(p)
  PROVE  PublishInv'
<1>1. PICK o : o = proc[p].op
  OBVIOUS
<1>2. proc[p].step \in {"started", "marked", "reconcile"}
  BY DEF MarkReadbackRequired, At
<1>3. /\ job[o] \in Jobs(Refs, Ops) /\ job[o].stage \notin Unstarted /\ proc[p].ref \in Refs
      /\ Resolved(job[o]) => job[o].digest = o /\ Names(job[o].ref, o)
  BY <1>1, <1>2, SettleFacts
<1>4. PICK j \in Jobs(Refs, Ops) : /\ j = MarkReadback(job[o], proc[p].ref)
                                   /\ j = job[o] \/ j.stage = "readback_required"
  <2>1. None \in Ops \cup {None} /\ "readback_required" \in Stages
    BY StagesMean
  <2>2. /\ Advanced(job[o], "readback_required", proc[p].ref, None) \in Jobs(Refs, Ops)
        /\ Advanced(job[o], "readback_required", proc[p].ref, None).stage = "readback_required"
    BY <1>3, <2>1, AdvancedFacts
  <2>3. QED  BY <1>3, <2>2 DEF MarkReadback, Advance
<1>5. /\ job' = [job EXCEPT ![o] = j] /\ UNCHANGED <<req, plan, git, journal, lockFiles>>
      /\ Stop(p) \/ (Go(p, "reconcile") /\ proc[p].done)
  BY <1>1, <1>4 DEF MarkReadbackRequired
<1>6. j.stage \notin Unstarted /\ (Resolved(j) => j.digest = o /\ Names(j.ref, o))
  BY <1>3, <1>4 DEF Unstarted, Resolved, None
<1>7. QED  BY <1>1, <1>2, <1>5, <1>6, SettleInv

LEMMA ReconcileReadbackInv ==
  ASSUME PublishInv, NEW p \in Procs, ReconcileReadback(p)
  PROVE  PublishInv'
<1>1. PICK o : o = proc[p].op
  OBVIOUS
<1>2. proc[p].step = "reconcile" /\ Stop(p) /\ UNCHANGED <<req, plan, git, journal, lockFiles>>
  BY DEF ReconcileReadback, At
<1>3. /\ o \in Ops /\ job[o] \in Jobs(Refs, Ops) /\ job[o].stage \notin Unstarted
      /\ Names(proc[p].ref, o)
      /\ Resolved(job[o]) => job[o].digest = o /\ Names(job[o].ref, o)
  BY <1>1, <1>2, SettleFacts
<1>4. PICK j \in Jobs(Refs, Ops) : /\ job' = [job EXCEPT ![o] = j]
                                   /\ \/ j = job[o]
                                      \/ j.stage = "reconciled" /\ j.digest = o /\ Names(j.ref, o)
  <2>1. CASE ReconcileOk(job[o], proc[p].ref, o) /\ CanAdvance(job[o], "reconciled", None, o)
    <3>1. "reconciled" \in Stages /\ None \in Refs /\ o \in Ops \cup {None} /\ o # None
      BY <1>3, StagesMean, NameAssumption DEF Refs
    <3>2. PICK j \in Jobs(Refs, Ops) : /\ j = Advanced(job[o], "reconciled", None, o)
                                       /\ j.stage = "reconciled" /\ j.ref = job[o].ref /\ j.digest = o
      BY <1>3, <3>1, AdvancedFacts
    <3>3. job' = [job EXCEPT ![o] = j]
      BY <1>1, <2>1, <3>2 DEF ReconcileReadback, Reconcile, Advance
    <3>4. Names(j.ref, o)
      BY <1>3, <2>1, <3>2 DEF ReconcileOk
    <3>5. QED  BY <3>2, <3>3, <3>4
  <2>2. CASE ~(ReconcileOk(job[o], proc[p].ref, o) /\ CanAdvance(job[o], "reconciled", None, o))
    <3>1. job' = job
      BY <1>1, <1>3, <2>2 DEF ReconcileReadback, Reconcile, Advance, PublishInv, PublishTypeOK
    <3>2. QED  BY <1>3, <3>1 DEF PublishInv, PublishTypeOK
  <2>3. QED  BY <2>1, <2>2
<1>5. j.stage \notin Unstarted /\ (Resolved(j) => j.digest = o /\ Names(j.ref, o))
  BY <1>3, <1>4 DEF Unstarted, Resolved, None
<1>6. QED  BY <1>1, <1>2, <1>4, <1>5, SettleInv

LEMMA ReconcilePublicationInv ==
  ASSUME PublishInv, NEW o \in Ops, ReconcilePublication(o)
  PROVE  PublishInv'
<1>1. /\ PublicationReadback(o) = "reconciled" /\ plan[o] # NoManifest /\ proc' = proc
      /\ job[o].stage # None
  BY DEF ReconcilePublication, Reconcilable
<1>2. SideEffectRef(o) \in Refs /\ Names(SideEffectRef(o), o)
  BY <1>1, ReadbackFacts
<1>3. PICK j \in Jobs(Refs, Ops) : /\ job' = [job EXCEPT ![o] = j] /\ j.stage = "reconciled"
                                   /\ j.digest = o /\ Names(j.ref, o)
  <2>1. [stage |-> "reconciled", ref |-> SideEffectRef(o), digest |-> o] \in Jobs(Refs, Ops)
    BY <1>2, StagesMean DEF Jobs
  <2>2. QED  BY <1>2, <2>1 DEF ReconcilePublication
<1>4. RowMoves(o, j)
  BY <1>1, <1>3 DEF RowMoves, Unstarted, None
<1>5. FilesMove(None) /\ None \notin Procs
  BY FilesSame, NameAssumption DEF ReconcilePublication
<1>6. QED  BY <1>1, <1>3, <1>4, <1>5, StepInv

-----------------------------------------------------------------------------
(* The human author and the operating system.                              *)

\* A step that changes at most the notes of the worktree.
LEMMA NotesInv ==
  ASSUME PublishInv, UNCHANGED <<req, plan, job, index, history, journal, lock, owner, proc>>,
         tree' \in Snapshots, tree'.manifest = tree.manifest
  PROVE  PublishInv'
<1> USE DEF PublishInv
<1>1. HeadTree' = HeadTree
  BY DEF HeadTree
<1>2. PublishTypeOK' /\ WinnersOK' /\ LockOK'
  BY DEF PublishTypeOK, WinnersOK, LockOK
<1>3. PlansOK'
  BY DEF PlansOK
<1>4. FreshOK'
  BY DEF FreshOK, Unwritten
<1>5. WriterOK'
  BY <1>1 DEF WriterOK
<1>6. HistoryOK' /\ JournalOK' /\ SettledOK'
  BY DEF HistoryOK, JournalOK, JournalAt, SettledOK, Names
<1>7. QED  BY <1>2, <1>3, <1>4, <1>5, <1>6

LEMMA EditInv ==
  ASSUME PublishInv, NEW e \in Entries, EditNote(e) \/ RevertNote(e)
  PROVE  PublishInv'
<1>1. tree \in Snapshots /\ index.notes[e] \in Ops \cup {None, Edited}
  BY DEF PublishInv, PublishTypeOK, Snapshots
<1>2. tree' = [tree EXCEPT !.notes[e] = Edited] \/ tree' = [tree EXCEPT !.notes[e] = index.notes[e]]
  BY DEF EditNote, RevertNote
<1>3. tree' \in Snapshots /\ tree'.manifest = tree.manifest
  BY <1>1, <1>2 DEF Snapshots
<1>4. UNCHANGED <<req, plan, job, index, history, journal, lock, owner, proc>>
  BY DEF EditNote, RevertNote, store, lockFiles
<1>5. QED  BY <1>3, <1>4, NotesInv

\* The owner of a lock file that dies is the process killed, which was the one
\* winner of the operation.
LEMMA CrashInv ==
  ASSUME PublishInv, NEW p \in Procs, Crash(p)
  PROVE  PublishInv'
<1>1. PICK o \in Ops : o = proc[p].op
  BY ProcFacts DEF Crash, At
<1>2. /\ proc[p].step # "idle" /\ proc[p].step \in Steps /\ Stop(p) /\ job' = job /\ lock' = lock
      /\ UNCHANGED <<req, plan, git, journal>>
  BY ProcFacts DEF Crash, At, store, Processes
<1>3. proc'[p].step = "idle" /\ owner \in Owners
  BY <1>2 DEF Stop, Idle, PublishInv, PublishTypeOK
<1>4. /\ owner' \in Owners
      /\ \A x \in Ops : owner'[x] # owner[x] => x = o /\ Publishes(p) /\ owner[x] = "alive"
  BY <1>1, <1>3 DEF Crash, Owners
<1>5. Publishes(p) => /\ job[o].stage \notin Unstarted
                      /\ \A q \in Procs : q # p /\ proc[q].step \in WinnerSteps => proc[q].op # o
  <2>1. Publishes(p) => proc[p].step \in WinnerSteps
    BY <1>2 DEF Publishes, Steps, WinnerSteps, EarlySteps, LockedSteps
  <2>2. QED  BY <1>1, <2>1 DEF PublishInv, WinnersOK
<1>6. FilesMove(p)
  BY <1>2, <1>3, <1>4, <1>5 DEF FilesMove, git, PublishInv, PublishTypeOK, JournalOK
<1>7. QED  BY <1>2, <1>6, StopInv

LEMMA ExitInv ==
  ASSUME PublishInv, NEW o \in Ops, Exit(o)
  PROVE  PublishInv'
<1>1. /\ owner[o] = "alive" /\ owner' = [owner EXCEPT ![o] = "dead"] /\ owner \in Owners
      /\ proc' = proc /\ job' = job /\ lock' = lock /\ UNCHANGED <<req, plan, git, journal>>
  BY DEF Exit, store, PublishInv, PublishTypeOK
<1>2. job[o].stage \notin Unstarted
  BY <1>1 DEF PublishInv, LockOK
<1>3. \A q \in Procs : proc[q].step \in WinnerSteps => proc[q].op # o
  BY DEF Exit, Publishes, WinnerSteps, EarlySteps, LockedSteps
<1>4. None \notin Procs /\ FilesMove(None)
  BY <1>1, <1>2, <1>3, NameAssumption DEF FilesMove, Owners, git, PublishInv, PublishTypeOK, JournalOK
<1>5. job[o] \in Jobs(Refs, Ops) /\ RowMoves(o, job[o])
  BY <1>1, KeepsRow
<1>6. QED  BY <1>1, <1>4, <1>5, StepInv

\* What a reaper did to a lock file it had not inspected stays done.
LEMMA StolenStays == [Next]_vars /\ ~stolen' => ~stolen
<1> SUFFICES ASSUME [Next]_vars, ~stolen' PROVE stolen' = stolen \/ ~stolen
  OBVIOUS
<1>1. ASSUME NEW p \in Procs, AdmissionStep(p) PROVE stolen' = stolen
  BY <1>1 DEF AdmissionStep, Begin, AdmitPublication, Register, AdmitJob, Acquire, Recheck, lockFiles
<1>2. ASSUME NEW p \in Procs, GitStep(p), ~ReapLock(p) PROVE stolen' = stolen
  BY <1>2 DEF GitStep, CreateLock, SignLock, OpenLock, InspectLock, LockTimeout, CheckBase, Prepare, CheckStatus,
              WriteNote, WriteManifest, StageManifest, StageNote, RecordStaged, Commit, RecordCommitted, lockFiles
<1>3. ASSUME NEW p \in Procs, ReapLock(p) PROVE ~stolen
  BY <1>3, Zenon DEF ReapLock
<1>4. ASSUME NEW p \in Procs, SettleStep(p) PROVE stolen' = stolen
  BY <1>4 DEF SettleStep, Readback, MarkEffectStarted, MarkReadbackRequired, ReconcileReadback, lockFiles
<1>5. ASSUME NEW p \in Procs, Crash(p) PROVE stolen' = stolen
  BY <1>5 DEF Crash
<1>6. ASSUME NEW o \in Ops, ReconcilePublication(o) \/ Exit(o) PROVE stolen' = stolen
  BY <1>6 DEF ReconcilePublication, Exit, lockFiles
<1>7. ASSUME NEW e \in Entries, EditNote(e) \/ RevertNote(e) PROVE stolen' = stolen
  BY <1>7 DEF EditNote, RevertNote, lockFiles
<1>8. CASE UNCHANGED vars
  BY <1>8 DEF vars
<1>9. QED  BY <1>1, <1>2, <1>3, <1>4, <1>5, <1>6, <1>7, <1>8 DEF Next

LEMMA NextInv == PublishInv /\ ~stolen' /\ [Next]_vars => PublishInv'
<1> SUFFICES ASSUME PublishInv, ~stolen', [Next]_vars PROVE PublishInv'
  OBVIOUS
<1>1. CASE UNCHANGED vars
  BY <1>1, NotesInv DEF vars, PublishInv, PublishTypeOK
<1>2. ASSUME NEW p \in Procs, AdmissionStep(p) PROVE PublishInv'
  BY <1>2, BeginInv, AdmitPublicationInv, RegisterInv, AdmitJobInv, AcquireInv, RecheckInv DEF AdmissionStep
<1>3. ASSUME NEW p \in Procs, GitStep(p) PROVE PublishInv'
  BY <1>3, CreateLockInv, SignLockInv, OpenLockInv, InspectLockInv, ReapLockInv, LockTimeoutInv, CheckBaseInv,
     PrepareInv, CheckStatusInv, WriteNoteInv, WriteManifestInv, StageManifestInv, StageNoteInv, RecordStagedInv,
     CommitInv, RecordCommittedInv DEF GitStep
<1>4. ASSUME NEW p \in Procs, SettleStep(p) PROVE PublishInv'
  BY <1>4, ReadbackInv, MarkEffectStartedInv, MarkReadbackRequiredInv, ReconcileReadbackInv DEF SettleStep
<1>5. QED  BY <1>1, <1>2, <1>3, <1>4, CrashInv, ExitInv, ReconcilePublicationInv, EditInv DEF Next

\* Every state reached before a reaper removes a lock file it had not
\* inspected satisfies the invariant, whatever the number of operations,
\* entries, processes, kills and edits (PublicationLock, try_reap_dead_lock).
THEOREM PublishInvHolds == Spec => [](~stolen => PublishInv)
<1>1. (~stolen => PublishInv) /\ [Next]_vars => (~stolen' => PublishInv')
  BY NextInv, StolenStays
<1>2. QED  BY <1>1, InitInv, PTL DEF Spec

\* As long as no reaper has removed a lock file it had not inspected, every
\* commit holds the manifest admitted for its operation and the notes that
\* manifest names (publish_with_expected_base, stage_exact): no edit of the
\* worktree and no other publisher gets between the checks and the commit.
THEOREM CommitsArePlanned == Spec => []CommitIsPlanned
<1>1. (~stolen => PublishInv) => CommitIsPlanned
  BY DEF PublishInv, HistoryOK, CommitIsPlanned
<1>2. QED  BY <1>1, PublishInvHolds, PTL

LEMMA OnlyCommitWritesHistory ==
  ASSUME [Next]_vars, history' # history
  PROVE  \E p \in Procs : Commit(p)
<1>1. ASSUME NEW p \in Procs, AdmissionStep(p) PROVE history' = history
  BY <1>1 DEF AdmissionStep, Begin, AdmitPublication, Register, AdmitJob, Acquire, Recheck, git
<1>2. ASSUME NEW p \in Procs, GitStep(p), ~Commit(p) PROVE history' = history
  BY <1>2 DEF GitStep, CreateLock, SignLock, OpenLock, InspectLock, ReapLock, LockTimeout, CheckBase, Prepare,
              CheckStatus, WriteNote, WriteManifest, StageManifest, StageNote, RecordStaged, RecordCommitted, git
<1>3. ASSUME NEW p \in Procs, SettleStep(p) PROVE history' = history
  BY <1>3 DEF SettleStep, Readback, MarkEffectStarted, MarkReadbackRequired, ReconcileReadback, git
<1>4. ASSUME NEW p \in Procs, Crash(p) PROVE history' = history
  BY <1>4 DEF Crash, git
<1>5. ASSUME NEW o \in Ops, ReconcilePublication(o) \/ Exit(o) PROVE history' = history
  BY <1>5 DEF ReconcilePublication, Exit, git
<1>6. ASSUME NEW e \in Entries, EditNote(e) \/ RevertNote(e) PROVE history' = history
  BY <1>6 DEF EditNote, RevertNote
<1>7. ~UNCHANGED vars
  BY DEF vars
<1>8. QED  BY <1>1, <1>2, <1>3, <1>4, <1>5, <1>6, <1>7 DEF Next

\* As long as no reaper has removed a lock file it had not inspected, the
\* history only grows, and a commit changes no entry but its own: what another
\* publication wrote is never lost to a plan made before it (PublicationLock,
\* the expected base, the winner's second plan).
THEOREM PublicationsAreKept == Spec => PublishedIsKept
<1>1. (~stolen => PublishInv) /\ [Next]_vars =>
        (history' # history /\ ~stolen =>
           /\ history = SubSeq(history', 1, Len(history))
           /\ \A e \in Entries :
                Last(history').manifest.entries[e] # HeadTree.manifest.entries[e]
                  => Last(history').manifest.entries[e] = Last(history').manifest.op)
  <2> SUFFICES ASSUME PublishInv, [Next]_vars, history' # history, ~stolen
               PROVE  /\ history = SubSeq(history', 1, Len(history))
                      /\ \A e \in Entries :
                           Last(history').manifest.entries[e] # HeadTree.manifest.entries[e]
                             => Last(history').manifest.entries[e] = Last(history').manifest.op
    OBVIOUS
  <2>1. PICK p \in Procs : Commit(p)
    BY OnlyCommitWritesHistory
  <2>2. PICK o : o = proc[p].op
    OBVIOUS
  <2>3. /\ o \in Ops /\ index \in Snapshots /\ req[o].entry \in Entries /\ req[o].base \in Manifests
        /\ plan[o].op = o /\ plan[o] = Planned(o, req[o]) /\ index.manifest = plan[o]
        /\ HeadTree.manifest = req[o].base
    BY <2>1, <2>2, CommitFacts DEF Commit, At
  <2>4. history \in Seq(Snapshots) /\ history' = Append(history, index) /\ Len(history) \in Nat
    BY <2>1 DEF Commit, PublishInv, PublishTypeOK
  <2>5. Last(history') = index
    BY <2>3, <2>4 DEF Last
  <2>6. history = SubSeq(history', 1, Len(history))
    <3>1. /\ history' \in Seq(Snapshots) /\ Len(history') = Len(history) + 1
          /\ \A n \in 1..Len(history) : history'[n] = history[n]
      BY <2>3, <2>4
    <3>2. /\ SubSeq(history', 1, Len(history)) \in Seq(Snapshots)
          /\ Len(SubSeq(history', 1, Len(history))) = Len(history)
          /\ \A n \in 1..Len(history) : SubSeq(history', 1, Len(history))[n] = history'[n]
      BY <2>4, <3>1
    <3>3. QED  BY <2>4, <3>1, <3>2, SeqEqual
  <2>7. \A e \in Entries : plan[o].entries[e] # req[o].base.entries[e] => plan[o].entries[e] = o
    BY <2>3 DEF Planned, Manifests
  <2>8. QED  BY <2>3, <2>5, <2>6, <2>7
<1>2. QED  BY <1>1, PublishInvHolds, PTL DEF Spec, PublishedIsKept

-----------------------------------------------------------------------------
(* What a reconciled job says is true whoever is inside the lock: it needs *)
(* the types, the plan's name and the readback alone.                      *)

\* What the process k holds.
ReaderAt(k) ==
  k.step # "idle" =>
    /\ k.op \in Ops /\ req[k.op].entry \in Entries
    /\ k.step = "admit" => k.manifest.op = k.op
    /\ k.step # "admit" => plan[k.op] # NoManifest
    /\ k.step = "reconcile" => k.done
    /\ k.step \in {"started", "marked", "reconcile"} /\ k.done => Names(k.ref, k.op)

\* The job row j of the operation o.
RowNames(o, j) == Resolved(j) => j.digest = o /\ Names(j.ref, o)

ReadInv ==
  /\ PublishTypeOK
  /\ \A o \in Ops : plan[o] # NoManifest => plan[o].op = o
  /\ \A o \in Ops : RowNames(o, job[o])
  /\ \A p \in Procs : ReaderAt(proc[p])
  /\ journal.rev <= Len(history)

LEMMA ReadInit == Init => ReadInv
<1> SUFFICES ASSUME Init PROVE ReadInv
  OBVIOUS
<1>1. PublishTypeOK
  BY InitInv DEF PublishInv
<1>2. NoJob.stage = None /\ Idle.step = "idle" /\ NoJournal.rev = 0
  BY DEF NoJob, Idle, NoJournal
<1>3. QED  BY <1>1, <1>2 DEF Init, ReadInv, RowNames, Resolved, ReaderAt, None

LEMMA ReadTypes ==
  ASSUME ReadInv
  PROVE  /\ tree \in Snapshots /\ index \in Snapshots /\ journal \in Journals /\ journal.rev <= Len(history)
         /\ lock \in Ops \cup {None} /\ owner \in Owners /\ Len(history) \in Nat /\ history \in Seq(Snapshots)
BY DEF ReadInv, PublishTypeOK

\* A step of p, which becomes k, while the row of o becomes j.
LEMMA ReadStep ==
  ASSUME ReadInv, PublishTypeOK', NEW p, NEW k, NEW o \in Ops, NEW j,
         job' = [job EXCEPT ![o] = j], RowNames(o, j)',
         p \in Procs => proc' = [proc EXCEPT ![p] = k] /\ ReaderAt(k)',
         p \notin Procs => proc' = proc,
         \A x \in Ops : req[x].entry \in Entries => req'[x].entry \in Entries,
         \A x \in Ops : plan'[x] = plan[x] \/ (plan[x] = NoManifest /\ plan'[x].op = x),
         Len(history) <= Len(history') /\ \A n \in 1..Len(history) : history'[n] = history[n],
         journal'.rev <= Len(history')
  PROVE  ReadInv'
<1>1. /\ \A q \in Procs : q # p => proc'[q] = proc[q]
      /\ p \in Procs => proc'[p] = k
      /\ job'[o] = j /\ \A x \in Ops : x # o => job'[x] = job[x]
  BY DEF ReadInv, PublishTypeOK
<1>2. \A ref, x : Names(ref, x) => Names(ref, x)'
  <2>1. Len(history) \in Nat /\ Len(history') \in Nat
    BY DEF ReadInv, PublishTypeOK
  <2>2. QED  BY <2>1 DEF Names
<1>3. ASSUME NEW x \in Ops, plan'[x] # NoManifest PROVE plan'[x].op = x
  BY <1>3 DEF ReadInv
<1>4. ASSUME NEW x \in Ops PROVE RowNames(x, job[x])'
  <2>1. CASE x = o
    BY <1>1, <2>1
  <2>2. CASE x # o
    <3>1. PICK ref : ref = job[x].ref
      OBVIOUS
    <3>2. Resolved(job[x]) => job[x].digest = x /\ Names(ref, x)'
      BY <1>2, <3>1 DEF ReadInv, RowNames
    <3>3. QED  BY <1>1, <2>2, <3>1, <3>2 DEF RowNames
  <2>3. QED  BY <2>1, <2>2
<1>5. ASSUME NEW q \in Procs PROVE ReaderAt(proc[q])'
  <2>1. CASE q = p
    BY <1>1, <2>1
  <2>2. CASE q # p
    <3>1. PICK ref, x : ref = proc[q].ref /\ x = proc[q].op
      OBVIOUS
    <3>2. ReaderAt(proc[q]) /\ proc'[q] = proc[q]
      BY <1>1, <2>2 DEF ReadInv
    <3>3. proc[q].step \in {"started", "marked", "reconcile"} /\ proc[q].done => Names(ref, x)'
      BY <1>2, <3>1, <3>2 DEF ReaderAt
    <3>4. proc[q].step # "idle" /\ proc[q].step # "admit" => plan'[x] # NoManifest
      BY <3>1, <3>2 DEF ReaderAt
    <3>5. QED  BY <3>1, <3>2, <3>3, <3>4 DEF ReaderAt
  <2>3. QED  BY <2>1, <2>2
<1>6. QED  BY <1>3, <1>4, <1>5 DEF ReadInv

LEMMA ReadFacts ==
  ASSUME ReadInv, NEW p \in Procs, proc[p].step # "idle"
  PROVE  /\ proc[p] \in Processes /\ proc[p].op \in Ops
         /\ req[proc[p].op] \in Requests /\ req[proc[p].op].entry \in Entries
         /\ plan[proc[p].op] \in Manifests /\ proc[p].manifest \in Manifests
         /\ proc[p].step # "admit" => plan[proc[p].op] # NoManifest
         /\ job[proc[p].op] \in Jobs(Refs, Ops)
BY DEF ReadInv, PublishTypeOK, ReaderAt, Processes

\* The steps of a process that leave the requests, the plans, the rows and the
\* history alone; it stops, or goes on with its operation and settles nothing.
LEMMA ReadQuiet ==
  ASSUME ReadInv, NEW p \in Procs, proc[p].step # "idle", NEW k \in Processes,
         proc' = [proc EXCEPT ![p] = k], UNCHANGED <<req, plan, job, history>>,
         tree' \in Snapshots, index' \in Snapshots, journal' \in Journals, journal'.rev <= Len(history),
         lock' \in Ops \cup {None}, owner' \in Owners,
         k.step = "idle" \/ /\ k.op = proc[p].op /\ proc[p].step # "admit"
                            /\ k.step \notin {"admit", "started", "marked", "reconcile"}
  PROVE  ReadInv'
<1>1. PICK o \in Ops : o = proc[p].op
  BY ReadFacts
<1>2. PublishTypeOK' /\ journal'.rev <= Len(history')
  BY DEF ReadInv, PublishTypeOK
<1>3. PICK j : j = job[o] /\ job' = [job EXCEPT ![o] = j] /\ RowNames(o, j)'
  <2>1. PICK j : j = job[o]
    OBVIOUS
  <2>2. job' = [job EXCEPT ![o] = j] /\ RowNames(o, j)
    BY <2>1 DEF ReadInv, PublishTypeOK
  <2>3. RowNames(o, j)'
    BY <2>2 DEF RowNames, Names
  <2>4. QED  BY <2>1, <2>2, <2>3
<1>4. ReaderAt(k)'
  BY ReadFacts DEF ReaderAt
<1>5. /\ Len(history) <= Len(history') /\ \A n \in 1..Len(history) : history'[n] = history[n]
      /\ \A x \in Ops : plan'[x] = plan[x] /\ req'[x] = req[x]
  BY ReadTypes
<1>6. QED  BY <1>2, <1>3, <1>4, <1>5, ReadStep

LEMMA ReadStop ==
  ASSUME ReadInv, NEW p \in Procs, proc[p].step # "idle", Stop(p),
         UNCHANGED <<req, plan, job, git, journal, lock>>, owner' \in Owners
  PROVE  ReadInv'
<1>1. PICK k \in Processes : k.step = "idle" /\ proc' = [proc EXCEPT ![p] = k]
  BY NoManifestType DEF Stop, Idle, Processes, Steps, Refs
<1>2. QED  BY <1>1, ReadQuiet DEF ReadInv, PublishTypeOK, git

LEMMA ReadGo ==
  ASSUME ReadInv, NEW p \in Procs, proc[p].step \notin {"idle", "admit"}, NEW step \in Steps, Go(p, step),
         step \notin {"admit", "started", "marked", "reconcile"},
         UNCHANGED <<req, plan, job, history>>,
         tree' \in Snapshots, index' \in Snapshots, journal' \in Journals, journal'.rev <= Len(history),
         lock' \in Ops \cup {None}, owner' \in Owners
  PROVE  ReadInv'
<1>1. PICK k \in Processes : k.step = step /\ k.op = proc[p].op /\ proc' = [proc EXCEPT ![p] = k]
  BY GoTyped DEF ReadInv
<1>2. QED  BY <1>1, ReadQuiet

\* The steps around the lock file.
LEMMA ReadLockSteps ==
  ASSUME ReadInv, NEW p \in Procs,
         \/ Register(p) \/ Recheck(p) \/ CreateLock(p) \/ SignLock(p) \/ OpenLock(p) \/ InspectLock(p)
         \/ ReapLock(p) \/ LockTimeout(p)
  PROVE  ReadInv'
<1> USE ReadTypes DEF Steps, At, store, git, lockFiles
<1>1. CASE Register(p) \/ Recheck(p)
  BY <1>1, ReadGo, ReadStop DEF Register, Recheck
<1>2. CASE CreateLock(p)
  BY <1>2, ReadGo, ReadFacts DEF CreateLock
<1>3. CASE SignLock(p)
  <2>1. owner' \in Owners
    BY <1>3 DEF SignLock, Owners
  <2>2. QED  BY <1>3, <2>1, ReadGo DEF SignLock
<1>4. CASE OpenLock(p)
  <2>1. proc \in [Procs -> Processes] /\ proc[p].step = "lock"
    BY <1>4 DEF OpenLock, ReadInv, PublishTypeOK
  <2>2. PICK k : k = [proc[p] EXCEPT !.step = "inspect", !.seen = lock]
    OBVIOUS
  <2>3. k \in Processes /\ k.step = "inspect" /\ k.op = proc[p].op
    BY <2>1, <2>2 DEF Processes
  <2>4. proc' = [proc EXCEPT ![p] = k]
    BY <1>4, <2>1, <2>2 DEF OpenLock
  <2>5. QED  BY <1>4, <2>1, <2>3, <2>4, ReadQuiet DEF OpenLock
<1>5. CASE InspectLock(p)
  BY <1>5, ReadGo DEF InspectLock
<1>6. CASE ReapLock(p) \/ LockTimeout(p)
  BY <1>6, ReadGo DEF ReapLock, LockTimeout
<1>7. QED  BY <1>1, <1>2, <1>3, <1>4, <1>5, <1>6

LEMMA LeastNatural ==
  ASSUME NEW S \in SUBSET Nat, S # {}
  PROVE  Min(S) \in S
<1>1. PICK x \in S : \A y \in S : <<y, x>> \notin OpToRel(<, Nat)
  BY NatLessThanWellFounded, WFMin
<1>2. \A y \in S : x <= y
  <2> SUFFICES ASSUME NEW y \in S PROVE x <= y
    OBVIOUS
  <2>1. <<y, x>> \in Nat \X Nat /\ ~(y < x)
    BY <1>1 DEF OpToRel
  <2>2. QED  BY <2>1
<1>3. QED  BY <1>2 DEF Min

\* A process inside the lock returns.
LEMMA ReadReturn ==
  ASSUME ReadInv, NEW p \in Procs, proc[p].step \notin {"idle", "admit"}, Return(p), UNCHANGED <<store, git, owner>>,
         journal' \in Journals, journal'.rev <= Len(history)
  PROVE  ReadInv'
BY ReadTypes, ReadGo DEF Return, Steps, store, git

\* The journal that a process writes with its manifest.
LEMMA ReadJournal ==
  ASSUME ReadInv, NEW p \in Procs, proc[p].step # "idle",
         NEW state \in {"files_prepared", "staged", "committed"}, NEW rev \in 0..Len(history),
         journal' = [op |-> proc[p].op, state |-> state, manifest |-> proc[p].manifest, rev |-> rev]
  PROVE  journal' \in Journals /\ journal'.rev <= Len(history)
<1>1. rev \in Nat /\ rev <= Len(history)
  BY ReadTypes
<1>2. QED  BY <1>1, ReadFacts DEF Journals

LEMMA ReadCheckBase ==
  ASSUME ReadInv, NEW p \in Procs, CheckBase(p)
  PROVE  ReadInv'
<1>1. PICK o : o = proc[p].op
  OBVIOUS
<1>2. proc[p].step = "base" /\ UNCHANGED <<store, git, owner>>
  BY DEF CheckBase, At
<1>3. o \in Ops /\ req[o].entry \in Entries /\ proc[p] \in Processes
  BY <1>1, <1>2, ReadFacts
<1>4. journal' \in Journals /\ journal'.rev <= Len(history)
  <2>1. CASE journal' = journal
    BY <2>1, ReadTypes
  <2>2. CASE journal' # journal
    <3>1. /\ Committed(o) # {}
          /\ journal' = [op |-> o, state |-> "committed", rev |-> Min(Committed(o)),
                         manifest |-> history[Min(Committed(o))].manifest]
      BY <1>1, <2>2 DEF CheckBase
    <3>2. Committed(o) \in SUBSET Nat /\ Committed(o) \subseteq 1..Len(history)
      BY ReadTypes DEF Committed
    <3>3. PICK n \in 1..Len(history) : n = Min(Committed(o))
      BY <3>1, <3>2, LeastNatural
    <3>4. history[n] \in Snapshots /\ n \in Nat /\ n <= Len(history)
      BY <3>3, ReadTypes
    <3>5. history[n].manifest \in Manifests
      BY <3>4 DEF Snapshots
    <3>6. QED  BY <1>3, <3>1, <3>3, <3>4, <3>5 DEF Journals
  <2>3. QED  BY <2>1, <2>2
<1>5. CASE Return(p)
  BY <1>2, <1>4, <1>5, ReadReturn
<1>6. CASE ~Return(p)
  <2>1. PICK m \in Manifests : /\ lock' = lock
                               /\ proc' = [proc EXCEPT ![p].step = "prepare", ![p].manifest = m]
    <3>1. tree.manifest \in Manifests /\ Merge(o) \in Manifests
      BY <1>3, ReadTypes DEF Merge, Snapshots, Manifests
    <3>2. QED  BY <1>1, <1>6, <3>1 DEF CheckBase
  <2>2. proc \in [Procs -> Processes]
    BY DEF ReadInv, PublishTypeOK
  <2>3. PICK k : k = [proc[p] EXCEPT !.step = "prepare", !.manifest = m]
    OBVIOUS
  <2>4. k \in Processes /\ k.step = "prepare" /\ k.op = proc[p].op
    BY <1>3, <2>3 DEF Processes, Steps
  <2>5. proc' = [proc EXCEPT ![p] = k]
    BY <2>1, <2>2, <2>3
  <2>6. QED  BY <1>2, <1>4, <2>1, <2>4, <2>5, ReadQuiet, ReadTypes DEF store, git
<1>7. QED  BY <1>5, <1>6

\* The steps that write the worktree, the index and the journal.
LEMMA ReadFileSteps ==
  ASSUME ReadInv, NEW p \in Procs,
         \/ Prepare(p) \/ CheckStatus(p) \/ WriteNote(p) \/ WriteManifest(p) \/ StageManifest(p) \/ StageNote(p)
         \/ RecordStaged(p) \/ RecordCommitted(p)
  PROVE  ReadInv'
<1>1. PICK o : o = proc[p].op
  OBVIOUS
<1>2. proc[p].step \notin {"idle", "admit"}
  BY DEF Prepare, CheckStatus, WriteNote, WriteManifest, StageManifest, StageNote, RecordStaged, RecordCommitted, At
<1>3. o \in Ops /\ req[o].entry \in Entries /\ proc[p].manifest \in Manifests
  BY <1>1, <1>2, ReadFacts
<1>4. 0 \in 0..Len(history) /\ Len(history) \in 0..Len(history)
  BY ReadTypes
<1> USE ReadTypes DEF Steps, store, git, lockFiles
<1>5. CASE Prepare(p)
  <2>1. journal' \in Journals /\ journal'.rev <= Len(history)
    BY <1>2, <1>4, <1>5, ReadJournal DEF Prepare
  <2>2. QED  BY <1>2, <1>5, <2>1, ReadGo DEF Prepare
<1>6. CASE CheckStatus(p)
  <2>1. CASE Return(p)
    BY <1>2, <1>6, <2>1, ReadReturn DEF CheckStatus
  <2>2. CASE ~Return(p)
    <3>1. PICK step \in {"stage_manifest", "write_note"} : Go(p, step) /\ lock' = lock
      BY <1>6, <2>2 DEF CheckStatus
    <3>2. QED  BY <1>2, <1>6, <3>1, ReadGo DEF CheckStatus
  <2>3. QED  BY <2>1, <2>2
<1>7. CASE WriteNote(p)
  <2>1. tree' \in Snapshots
    BY <1>1, <1>3, <1>7 DEF WriteNote, Snapshots
  <2>2. QED  BY <1>2, <1>7, <2>1, ReadGo DEF WriteNote
<1>8. CASE WriteManifest(p)
  <2>1. tree' \in Snapshots
    BY <1>3, <1>8 DEF WriteManifest, Snapshots
  <2>2. QED  BY <1>2, <1>8, <2>1, ReadGo DEF WriteManifest
<1>9. CASE StageManifest(p)
  <2>1. index' \in Snapshots
    BY <1>3, <1>9 DEF StageManifest, Snapshots
  <2>2. QED  BY <1>2, <1>9, <2>1, ReadGo DEF StageManifest
<1>10. CASE StageNote(p)
  <2>1. index' \in Snapshots
    BY <1>1, <1>3, <1>10 DEF StageNote, Snapshots
  <2>2. QED  BY <1>2, <1>10, <2>1, ReadGo DEF StageNote
<1>11. CASE RecordStaged(p)
  <2>1. CASE Return(p)
    <3>1. journal' \in Journals /\ journal'.rev <= Len(history)
      <4>1. CASE journal' = journal
        BY <4>1
      <4>2. CASE journal' # journal
        BY <1>2, <1>4, <1>11, <4>2, ReadJournal DEF RecordStaged
      <4>3. QED  BY <4>1, <4>2
    <3>2. QED  BY <1>2, <1>11, <2>1, <3>1, ReadReturn DEF RecordStaged
  <2>2. CASE ~Return(p)
    <3>1. /\ journal' = [op |-> proc[p].op, state |-> "staged", manifest |-> proc[p].manifest, rev |-> 0]
          /\ Go(p, "commit") /\ lock' = lock
      BY <1>11, <2>2 DEF RecordStaged
    <3>2. journal' \in Journals /\ journal'.rev <= Len(history)
      BY <1>2, <1>4, <3>1, ReadJournal
    <3>3. QED  BY <1>2, <1>11, <3>1, <3>2, ReadGo DEF RecordStaged
  <2>3. QED  BY <2>1, <2>2
<1>12. CASE RecordCommitted(p)
  <2>1. journal' \in Journals /\ journal'.rev <= Len(history)
    BY <1>2, <1>4, <1>12, ReadJournal DEF RecordCommitted
  <2>2. QED  BY <1>2, <1>12, <2>1, ReadReturn DEF RecordCommitted
<1>13. QED  BY <1>5, <1>6, <1>7, <1>8, <1>9, <1>10, <1>11, <1>12

LEMMA ReadCommit ==
  ASSUME ReadInv, NEW p \in Procs, Commit(p)
  PROVE  ReadInv'
<1>1. /\ proc[p].step = "commit" /\ Go(p, "record_committed") /\ history' = Append(history, index)
      /\ UNCHANGED <<req, plan, job, tree, index, journal, lock, owner>>
  BY DEF Commit, At, store, lockFiles
<1>2. PICK o \in Ops : o = proc[p].op
  BY <1>1, ReadFacts
<1>3. PICK k \in Processes : /\ k.step = "record_committed" /\ k.op = o /\ proc' = [proc EXCEPT ![p] = k]
  <2>1. "record_committed" \in Steps /\ PublishTypeOK
    BY DEF Steps, ReadInv
  <2>2. QED  BY <1>1, <1>2, <2>1, GoTyped
<1>4. /\ history' \in Seq(Snapshots) /\ Len(history') = Len(history) + 1 /\ Len(history) \in Nat
      /\ \A n \in 1..Len(history) : history'[n] = history[n]
  BY <1>1, ReadTypes
<1>5. PublishTypeOK'
  BY <1>1, <1>3, <1>4 DEF ReadInv, PublishTypeOK
<1>6. ReaderAt(k)'
  BY <1>1, <1>2, <1>3, ReadFacts DEF ReaderAt
<1>7. PICK j : j = job[o] /\ job' = [job EXCEPT ![o] = j]
  BY <1>1 DEF ReadInv, PublishTypeOK
<1>8. RowNames(o, j)'
  <2>1. PICK ref : ref = j.ref
    OBVIOUS
  <2>2. Names(ref, o) => Names(ref, o)'
    BY <1>4 DEF Names
  <2>3. QED  BY <1>7, <2>1, <2>2 DEF ReadInv, RowNames
<1>9. journal'.rev <= Len(history') /\ Len(history) <= Len(history')
  <2>1. journal.rev \in Nat /\ journal.rev <= Len(history)
    BY ReadTypes DEF Journals
  <2>2. QED  BY <1>1, <1>4, <2>1
<1>10. \A x \in Ops : plan'[x] = plan[x] /\ req'[x] = req[x]
  BY <1>1
<1>11. QED  BY <1>3, <1>4, <1>5, <1>6, <1>7, <1>8, <1>9, <1>10, ReadStep

\* A readback that the plan confirms has found a commit of the operation.
LEMMA ReadbackNames ==
  ASSUME ReadInv, NEW o \in Ops
  PROVE  /\ SideEffectRef(o) \in Refs
         /\ PublicationReadback(o) = "reconciled" /\ journal.manifest = plan[o] /\ plan[o] # NoManifest =>
              Names(SideEffectRef(o), o)
<1>1. journal.rev \in Nat /\ Len(history) \in Nat /\ journal.rev <= Len(history)
  BY ReadTypes DEF Journals
<1>2. JournalRevision \in Nat /\ JournalRevision <= Len(history)
  BY <1>1 DEF JournalRevision
<1>3. SideEffectRef(o) \in Refs
  BY <1>1, <1>2 DEF SideEffectRef, Refs
<1>4. ASSUME PublicationReadback(o) = "reconciled", journal.manifest = plan[o], plan[o] # NoManifest
      PROVE  Names(SideEffectRef(o), o)
  <2>1. CommittedProof /\ plan[o].op = o
    BY <1>4 DEF PublicationReadback, ReadInv
  <2>2. JournalRevision \in 1..Len(history) /\ history[JournalRevision].manifest.op = o
    BY <1>1, <1>2, <1>4, <2>1 DEF CommittedProof
  <2>3. SideEffectRef(o) = Revision(JournalRevision)
    BY <2>1 DEF SideEffectRef
  <2>4. QED  BY <2>2, <2>3 DEF Names
<1>5. QED  BY <1>3, <1>4

\* The steps that write rows: p becomes k and the row of o becomes j.
LEMMA ReadRows ==
  ASSUME ReadInv, NEW p, NEW k, NEW o \in Ops, NEW j \in Jobs(Refs, Ops),
         job' = [job EXCEPT ![o] = j], RowNames(o, j),
         p \in Procs => proc' = [proc EXCEPT ![p] = k] /\ k \in Processes /\ ReaderAt(k),
         p \notin Procs => proc' = proc,
         UNCHANGED <<req, plan, git, journal, lockFiles>>
  PROVE  ReadInv'
<1>1. PublishTypeOK'
  BY DEF ReadInv, PublishTypeOK, git, lockFiles
<1>2. RowNames(o, j)' /\ (p \in Procs => ReaderAt(k)')
  BY DEF RowNames, ReaderAt, Names, git
<1>3. \A x \in Ops : plan'[x] = plan[x] /\ req'[x] = req[x]
  OBVIOUS
<1>4. /\ Len(history) <= Len(history') /\ \A n \in 1..Len(history) : history'[n] = history[n]
      /\ journal'.rev <= Len(history')
  BY ReadTypes DEF git
<1>5. QED  BY <1>1, <1>2, <1>3, <1>4, ReadStep

LEMMA ReadBegin ==
  ASSUME ReadInv, NEW p \in Procs, NEW o \in Ops, NEW e \in Entries, Begin(p, o, e)
  PROVE  ReadInv'
<1>1. /\ tree.manifest \in Manifests /\ plan[o] \in Manifests /\ req[o] \in Requests
      /\ UNCHANGED <<plan, job, tree, index, history, journal, lock, owner>>
  BY DEF Begin, ReadInv, PublishTypeOK, Snapshots, git, lockFiles
<1>2. PICK r \in Requests : r.entry = e /\ req' = [req EXCEPT ![o] = r]
  <2>1. CASE req[o] = NoRequest
    <3>1. [entry |-> e, base |-> tree.manifest] \in Requests
      BY <1>1 DEF Requests
    <3>2. QED  BY <2>1, <3>1 DEF Begin
  <2>2. CASE req[o] # NoRequest
    BY <1>1, <2>2 DEF Begin, ReadInv, PublishTypeOK
  <2>3. QED  BY <2>1, <2>2
<1>3. req' \in [Ops -> Requests] /\ req'[o] = r /\ \A x \in Ops : x # o => req'[x] = req[x]
  BY <1>2 DEF ReadInv, PublishTypeOK
<1>4. PICK m \in Manifests :
        /\ m = (IF plan[o] # NoManifest THEN plan[o]
                ELSE [op |-> o, entries |-> [tree.manifest.entries EXCEPT ![e] = o]])
        /\ m.op = o
  <2>1. [op |-> o, entries |-> [tree.manifest.entries EXCEPT ![e] = o]] \in Manifests
    BY <1>1 DEF Manifests
  <2>2. plan[o] # NoManifest => plan[o].op = o
    BY DEF ReadInv
  <2>3. QED  BY <1>1, <2>1, <2>2
<1>5. PICK k \in Processes : k.step = "admit" /\ k.op = o /\ k.manifest = m /\ proc' = [proc EXCEPT ![p] = k]
  BY <1>4, NoManifestType DEF Begin, Idle, Processes, Steps, Refs
<1>6. PublishTypeOK'
  BY <1>1, <1>3, <1>5 DEF ReadInv, PublishTypeOK
<1>7. PICK j : j = job[o] /\ job' = [job EXCEPT ![o] = j]
  BY <1>1 DEF ReadInv, PublishTypeOK
<1>8. RowNames(o, j)' /\ ReaderAt(k)'
  BY <1>1, <1>2, <1>3, <1>4, <1>5, <1>7 DEF ReadInv, RowNames, Names, ReaderAt
<1>9. /\ Len(history) <= Len(history') /\ \A n \in 1..Len(history) : history'[n] = history[n]
      /\ journal'.rev <= Len(history')
  BY <1>1, ReadTypes
<1>10. \A x \in Ops : plan'[x] = plan[x] /\ (req[x].entry \in Entries => req'[x].entry \in Entries)
  BY <1>1, <1>2, <1>3
<1>11. QED  BY <1>5, <1>6, <1>7, <1>8, <1>9, <1>10, ReadStep

LEMMA ReadAdmit ==
  ASSUME ReadInv, NEW p \in Procs, AdmitPublication(p)
  PROVE  ReadInv'
<1>1. PICK o \in Ops : o = proc[p].op
  BY ReadFacts DEF AdmitPublication, At
<1>2. /\ proc[p].step = "admit" /\ UNCHANGED <<req, git, journal, lockFiles>> /\ job[o] \in Jobs(Refs, Ops)
      /\ proc[p].manifest \in Manifests /\ proc[p].manifest.op = o /\ req[o].entry \in Entries
  BY <1>1, ReadFacts DEF AdmitPublication, At, ReadInv, ReaderAt
<1>3. PICK k \in Processes : /\ k.step = "idle" \/ (k.step = "register" /\ k.op = o)
                             /\ proc' = [proc EXCEPT ![p] = k]
  <2>1. CASE Stop(p)
    <3>1. PICK k \in Processes : k.step = "idle" /\ proc' = [proc EXCEPT ![p] = k]
      BY <2>1, NoManifestType DEF Stop, Idle, Processes, Steps, Refs
    <3>2. QED  BY <3>1
  <2>2. CASE Go(p, "register")
    BY <1>1, <2>2, GoTyped DEF ReadInv, Steps
  <2>3. QED  BY <1>1, <2>1, <2>2 DEF AdmitPublication
<1>4. CASE plan[o] # NoManifest
  <2>1. UNCHANGED <<plan, job>>
    BY <1>1, <1>4 DEF AdmitPublication
  <2>2. PICK j \in Jobs(Refs, Ops) : j = job[o] /\ job' = [job EXCEPT ![o] = j] /\ RowNames(o, j)
    BY <1>2, <2>1 DEF ReadInv, PublishTypeOK
  <2>3. ReaderAt(k)
    BY <1>2, <1>3, <1>4 DEF ReaderAt
  <2>4. QED  BY <1>2, <1>3, <2>1, <2>2, <2>3, ReadRows
<1>5. CASE plan[o] = NoManifest
  <2>1. PICK m \in Manifests : m.op = o /\ m # NoManifest /\ plan' = [plan EXCEPT ![o] = m]
    BY <1>1, <1>2, <1>5, NoManifestType, NameAssumption DEF AdmitPublication
  <2>2. PICK j \in Jobs(Refs, Ops) : j.stage = "registered" /\ job' = [job EXCEPT ![o] = j]
    <3>1. "registered" \in Stages
      BY StagesMean
    <3>2. QED  BY <1>1, <1>2, <1>5, <3>1, AdvancedPlain DEF AdmitPublication
  <2>3. PublishTypeOK'
    BY <1>2, <1>3, <2>1, <2>2 DEF ReadInv, PublishTypeOK, git, lockFiles
  <2>4. plan'[o] = m /\ \A x \in Ops : x # o => plan'[x] = plan[x]
    BY <2>1 DEF ReadInv, PublishTypeOK
  <2>5. RowNames(o, j)' /\ ReaderAt(k)'
    BY <1>2, <1>3, <2>1, <2>2, <2>4 DEF RowNames, Resolved, ReaderAt
  <2>6. /\ Len(history) <= Len(history') /\ \A n \in 1..Len(history) : history'[n] = history[n]
        /\ journal'.rev <= Len(history')
    BY <1>2, ReadTypes DEF git
  <2>7. \A x \in Ops : /\ plan'[x] = plan[x] \/ (plan[x] = NoManifest /\ plan'[x].op = x)
                       /\ req'[x] = req[x]
    BY <1>2, <1>5, <2>1, <2>4
  <2>8. QED  BY <1>3, <2>2, <2>3, <2>5, <2>6, <2>7, ReadStep
<1>6. QED  BY <1>4, <1>5

\* A step of p that advances the row of its operation to one that is not
\* resolved or leaves it, and goes on or stops.
LEMMA ReadAdvance ==
  ASSUME ReadInv, NEW p \in Procs, proc[p].step \notin {"idle", "admit"}, NEW o, o = proc[p].op,
         NEW j \in Jobs(Refs, Ops), job' = [job EXCEPT ![o] = j], RowNames(o, j), NEW step \in Steps,
         Stop(p) \/ Go(p, step), step \notin {"admit", "started"},
         step \in {"marked", "reconcile"} => proc[p].step \in {"started", "marked"},
         step = "reconcile" => proc[p].done,
         UNCHANGED <<req, plan, git, journal, lockFiles>>
  PROVE  ReadInv'
<1>1. o \in Ops /\ ReaderAt(proc[p]) /\ proc[p] \in Processes
  BY ReadFacts DEF ReadInv
<1>2. CASE Stop(p)
  <2>1. PICK k \in Processes : k.step = "idle" /\ proc' = [proc EXCEPT ![p] = k]
    BY <1>2, NoManifestType DEF Stop, Idle, Processes, Steps, Refs
  <2>2. ReaderAt(k)
    BY <2>1 DEF ReaderAt
  <2>3. QED  BY <1>1, <2>1, <2>2, ReadRows
<1>3. CASE Go(p, step)
  <2>1. PICK k \in Processes : /\ k.step = step /\ k.op = proc[p].op /\ k.ref = proc[p].ref /\ k.done = proc[p].done
                               /\ proc' = [proc EXCEPT ![p] = k]
    BY <1>3, GoTyped DEF ReadInv
  <2>2. step = "reconcile" => k.done
    BY <1>3, <2>1
  <2>3. ReaderAt(k)
    BY <1>1, <2>1, <2>2 DEF ReaderAt
  <2>4. QED  BY <1>1, <2>1, <2>3, ReadRows
<1>4. QED  BY <1>2, <1>3

LEMMA ReadAdmission ==
  ASSUME ReadInv, NEW p \in Procs, AdmitJob(p) \/ Acquire(p)
  PROVE  ReadInv'
<1>1. PICK o : o = proc[p].op
  OBVIOUS
<1>2. /\ proc[p].step \in {"admit_job", "acquire"} /\ UNCHANGED <<req, plan, git, journal, lockFiles>>
      /\ Stop(p) \/ Go(p, "acquire") \/ Go(p, "recheck")
  BY DEF AdmitJob, Acquire, At
<1>3. o \in Ops /\ job[o] \in Jobs(Refs, Ops) /\ RowNames(o, job[o]) /\ job \in [Ops -> Jobs(Refs, Ops)]
  BY <1>1, <1>2, ReadFacts DEF ReadInv, PublishTypeOK
<1>4. PICK j \in Jobs(Refs, Ops) : job' = [job EXCEPT ![o] = j] /\ (j = job[o] \/ j.stage \in {"admitted", "running"})
  <2>1. "registered" \in Stages /\ "admitted" \in Stages /\ "running" \in Stages
    BY StagesMean
  <2>2. /\ \A a \in Jobs(Refs, Ops) : /\ Advanced(a, "admitted", None, None) \in Jobs(Refs, Ops)
                                     /\ Advanced(a, "admitted", None, None).stage = "admitted"
        /\ Advanced(job[o], "registered", None, None) \in Jobs(Refs, Ops)
        /\ Advanced(job[o], "running", None, None) \in Jobs(Refs, Ops)
        /\ Advanced(job[o], "running", None, None).stage = "running"
    BY <1>3, <2>1, AdvancedPlain
  <2>3. CASE AdmitJob(p)
    BY <1>1, <1>3, <2>2, <2>3 DEF AdmitJob, RegisterAndAdmit
  <2>4. CASE Acquire(p) /\ WinsAcquisition(job[o])
    BY <1>1, <2>2, <2>4 DEF Acquire, WinsAcquisition, Advance
  <2>5. CASE Acquire(p) /\ ~WinsAcquisition(job[o])
    BY <1>1, <1>3, <2>5 DEF Acquire
  <2>6. QED  BY <2>3, <2>4, <2>5
<1>5. RowNames(o, j)
  BY <1>3, <1>4 DEF RowNames, Resolved
<1>6. PICK step \in {"acquire", "recheck"} : Stop(p) \/ Go(p, step)
  BY <1>2
<1>7. proc[p].step \notin {"idle", "admit"} /\ step \in Steps /\ step \notin {"admit", "started", "marked", "reconcile"}
  BY <1>2, <1>6 DEF Steps
<1>8. QED  BY <1>1, <1>2, <1>3, <1>4, <1>5, <1>6, <1>7, ReadAdvance

LEMMA ReadReadback ==
  ASSUME ReadInv, NEW p \in Procs, Readback(p)
  PROVE  ReadInv'
<1>1. PICK o \in Ops : o = proc[p].op
  BY ReadFacts DEF Readback, At
<1>2. /\ proc[p].step = "readback" /\ plan[o] # NoManifest /\ req[o].entry \in Entries /\ proc[p] \in Processes
      /\ UNCHANGED <<req, plan, job, git, journal, lockFiles>>
  BY <1>1, ReadFacts DEF Readback, At, store
<1>3. CASE Stop(p)
  BY <1>2, <1>3, ReadStop, ReadTypes DEF lockFiles
<1>4. CASE ~Stop(p)
  <2>1. PICK ref \in Refs, done \in BOOLEAN :
          /\ proc' = [proc EXCEPT ![p].step = "started", ![p].ref = ref, ![p].done = done]
          /\ done => Names(ref, o)
    <3>1. /\ proc' = [proc EXCEPT ![p].step = "started", ![p].ref = SideEffectRef(o),
                                  ![p].done = (PublicationReadback(o) = "reconciled")]
          /\ PublicationReadback(o) = "reconciled" => journal.manifest = plan[o]
      BY <1>1, <1>4 DEF Readback
    <3>2. SideEffectRef(o) \in Refs /\ (PublicationReadback(o) = "reconciled" => Names(SideEffectRef(o), o))
      BY <1>2, <3>1, ReadbackNames
    <3>3. QED  BY <3>1, <3>2
  <2>2. PICK k : k = [proc[p] EXCEPT !.step = "started", !.ref = ref, !.done = done]
    OBVIOUS
  <2>3. k \in Processes /\ k.step = "started" /\ k.op = o /\ k.ref = ref /\ k.done = done
    BY <1>1, <1>2, <2>2 DEF Processes, Steps
  <2>4. proc' = [proc EXCEPT ![p] = k]
    BY <2>1, <2>2 DEF ReadInv, PublishTypeOK
  <2>5. ReaderAt(k)
    BY <1>2, <2>1, <2>3 DEF ReaderAt
  <2>6. PICK j \in Jobs(Refs, Ops) : j = job[o] /\ job' = [job EXCEPT ![o] = j] /\ RowNames(o, j)
    BY <1>2 DEF ReadInv, PublishTypeOK
  <2>7. QED  BY <1>2, <2>3, <2>4, <2>5, <2>6, ReadRows
<1>5. QED  BY <1>3, <1>4

LEMMA ReadMarks ==
  ASSUME ReadInv, NEW p \in Procs, MarkEffectStarted(p) \/ MarkReadbackRequired(p)
  PROVE  ReadInv'
<1>1. PICK o : o = proc[p].op
  OBVIOUS
<1>2. proc[p].step \in {"started", "marked"} /\ UNCHANGED <<req, plan, git, journal, lockFiles>>
  BY DEF MarkEffectStarted, MarkReadbackRequired, At
<1>3. /\ o \in Ops /\ job[o] \in Jobs(Refs, Ops) /\ RowNames(o, job[o]) /\ proc[p].ref \in Refs
      /\ proc \in [Procs -> Processes]
  BY <1>1, <1>2, ReadFacts DEF ReadInv, PublishTypeOK, Processes
<1>4. PICK j \in Jobs(Refs, Ops) : /\ job' = [job EXCEPT ![o] = j]
                                   /\ j = job[o] \/ j.stage \in {"side_effect_started", "readback_required"}
  <2>1. None \in Ops \cup {None} /\ "side_effect_started" \in Stages /\ "readback_required" \in Stages
    BY StagesMean
  <2>2. /\ Advanced(job[o], "side_effect_started", proc[p].ref, None) \in Jobs(Refs, Ops)
        /\ Advanced(job[o], "side_effect_started", proc[p].ref, None).stage = "side_effect_started"
        /\ Advanced(job[o], "readback_required", proc[p].ref, None) \in Jobs(Refs, Ops)
        /\ Advanced(job[o], "readback_required", proc[p].ref, None).stage = "readback_required"
    BY <1>3, <2>1, AdvancedFacts
  <2>3. CASE MarkEffectStarted(p)
    BY <1>1, <1>3, <2>2, <2>3 DEF MarkEffectStarted, MarkStarted, Advance
  <2>4. CASE MarkReadbackRequired(p)
    BY <1>1, <1>3, <2>2, <2>4 DEF MarkReadbackRequired, MarkReadback, Advance
  <2>5. QED  BY <2>3, <2>4
<1>5. RowNames(o, j)
  BY <1>3, <1>4 DEF RowNames, Resolved
<1>6. PICK step \in {"marked", "reconcile"} : (Stop(p) \/ Go(p, step)) /\ (step = "reconcile" => proc[p].done)
  <2>1. Stop(p) \/ Go(p, "marked") \/ (Go(p, "reconcile") /\ proc[p].done)
    BY DEF MarkEffectStarted, MarkReadbackRequired
  <2>2. QED  BY <2>1
<1>7. proc[p].step \notin {"idle", "admit"} /\ step \in Steps /\ step \notin {"admit", "started"}
  BY <1>2, <1>6 DEF Steps
<1>8. QED  BY <1>1, <1>2, <1>3, <1>4, <1>5, <1>6, <1>7, ReadAdvance

LEMMA ReadReconcile ==
  ASSUME ReadInv, NEW p \in Procs, ReconcileReadback(p)
  PROVE  ReadInv'
<1>1. PICK o : o = proc[p].op
  OBVIOUS
<1>2. proc[p].step = "reconcile" /\ Stop(p) /\ UNCHANGED <<req, plan, git, journal, lockFiles>>
  BY DEF ReconcileReadback, At
<1>3. o \in Ops /\ job[o] \in Jobs(Refs, Ops) /\ Names(proc[p].ref, o) /\ RowNames(o, job[o])
  BY <1>1, <1>2, ReadFacts DEF ReadInv, ReaderAt
<1>4. PICK j \in Jobs(Refs, Ops) : job' = [job EXCEPT ![o] = j] /\ RowNames(o, j)
  <2>1. CASE ReconcileOk(job[o], proc[p].ref, o) /\ CanAdvance(job[o], "reconciled", None, o)
    <3>1. "reconciled" \in Stages /\ None \in Refs /\ o \in Ops \cup {None} /\ o # None
      BY <1>3, StagesMean, NameAssumption DEF Refs
    <3>2. PICK j \in Jobs(Refs, Ops) : /\ j = Advanced(job[o], "reconciled", None, o)
                                       /\ j.ref = job[o].ref /\ j.digest = o
      BY <1>3, <3>1, AdvancedFacts
    <3>3. job' = [job EXCEPT ![o] = j]
      BY <1>1, <2>1, <3>2 DEF ReconcileReadback, Reconcile, Advance
    <3>4. RowNames(o, j)
      BY <1>3, <2>1, <3>2 DEF ReconcileOk, RowNames
    <3>5. QED  BY <3>3, <3>4
  <2>2. CASE ~(ReconcileOk(job[o], proc[p].ref, o) /\ CanAdvance(job[o], "reconciled", None, o))
    <3>1. job' = job
      BY <1>1, <1>3, <2>2 DEF ReconcileReadback, Reconcile, Advance, ReadInv, PublishTypeOK
    <3>2. QED  BY <1>3, <3>1 DEF ReadInv, PublishTypeOK
  <2>3. QED  BY <2>1, <2>2
<1>5. proc[p].step \notin {"idle", "admit"} /\ "readback" \in Steps
  BY <1>2 DEF Steps
<1>6. "readback" \notin {"admit", "started", "marked", "reconcile"}
  OBVIOUS
<1>7. QED  BY <1>1, <1>2, <1>4, <1>5, <1>6, ReadAdvance

LEMMA ReadReconcilePublication ==
  ASSUME ReadInv, NEW o \in Ops, ReconcilePublication(o)
  PROVE  ReadInv'
<1>1. /\ PublicationReadback(o) = "reconciled" /\ plan[o] # NoManifest /\ journal.manifest = plan[o]
      /\ proc' = proc /\ UNCHANGED <<req, plan, git, journal, lockFiles>>
  BY DEF ReconcilePublication, Reconcilable
<1>2. SideEffectRef(o) \in Refs /\ Names(SideEffectRef(o), o)
  BY <1>1, ReadbackNames
<1>3. PICK j \in Jobs(Refs, Ops) : job' = [job EXCEPT ![o] = j] /\ j.digest = o /\ Names(j.ref, o)
  <2>1. [stage |-> "reconciled", ref |-> SideEffectRef(o), digest |-> o] \in Jobs(Refs, Ops)
    BY <1>2, StagesMean DEF Jobs
  <2>2. QED  BY <1>2, <2>1 DEF ReconcilePublication
<1>4. None \notin Procs /\ RowNames(o, j)
  BY <1>3, NameAssumption DEF RowNames
<1>5. QED  BY <1>1, <1>3, <1>4, ReadRows

\* A step of nobody: the worktree's notes and the owners of lock files change.
LEMMA ReadOutside ==
  ASSUME ReadInv, UNCHANGED <<req, plan, job, index, history, journal, lock, proc>>, tree' \in Snapshots,
         owner' \in Owners
  PROVE  ReadInv'
BY DEF ReadInv, PublishTypeOK, RowNames, ReaderAt, Names

LEMMA ReadNext == ReadInv /\ [Next]_vars => ReadInv'
<1> SUFFICES ASSUME ReadInv, [Next]_vars PROVE ReadInv'
  OBVIOUS
<1>1. CASE UNCHANGED vars
  BY <1>1, ReadOutside, ReadTypes DEF vars
<1>2. ASSUME NEW p \in Procs, AdmissionStep(p) PROVE ReadInv'
  BY <1>2, ReadBegin, ReadAdmit, ReadLockSteps, ReadAdmission DEF AdmissionStep
<1>3. ASSUME NEW p \in Procs, GitStep(p) PROVE ReadInv'
  BY <1>3, ReadLockSteps, ReadCheckBase, ReadFileSteps, ReadCommit DEF GitStep
<1>4. ASSUME NEW p \in Procs, SettleStep(p) PROVE ReadInv'
  BY <1>4, ReadReadback, ReadMarks, ReadReconcile DEF SettleStep
<1>5. ASSUME NEW p \in Procs, Crash(p) PROVE ReadInv'
  <2>1. owner' \in Owners
    BY <1>5, ReadTypes DEF Crash, Owners
  <2>2. proc[p].step # "idle" /\ Stop(p) /\ UNCHANGED <<req, plan, job, git, journal, lock>>
    BY <1>5 DEF Crash, At, store
  <2>3. QED  BY <2>1, <2>2, ReadStop
<1>6. ASSUME NEW o \in Ops, Exit(o) PROVE ReadInv'
  BY <1>6, ReadOutside, ReadTypes DEF Exit, Owners, store, git
<1>7. ASSUME NEW e \in Entries, EditNote(e) \/ RevertNote(e) PROVE ReadInv'
  <2>1. tree' = [tree EXCEPT !.notes[e] = Edited] \/ tree' = [tree EXCEPT !.notes[e] = index.notes[e]]
    BY <1>7 DEF EditNote, RevertNote
  <2>2. tree' \in Snapshots
    BY <2>1, ReadTypes DEF Snapshots
  <2>3. QED  BY <1>7, <2>2, ReadOutside, ReadTypes DEF EditNote, RevertNote, store, lockFiles
<1>8. QED  BY <1>1, <1>2, <1>3, <1>4, <1>5, <1>6, <1>7, ReadReconcilePublication DEF Next

\* A job row that says reconciled carries the digest of its operation and the
\* revision of a commit that the operation made, whoever was inside the lock
\* with it (publication_readback, reconcile_memory_publication).
THEOREM ReconciledNamesItsCommit == Spec => []ReconciledIsPublished
<1>1. ReadInv => ReconciledIsPublished
  BY DEF ReadInv, RowNames, ReconciledIsPublished, Names
<1>2. QED  BY <1>1, ReadInit, ReadNext, PTL DEF Spec

-----------------------------------------------------------------------------
(* The latest publication can be reconciled.  The journal is rewritten     *)
(* before every commit, so it either has no revision or names HEAD; while  *)
(* it names a committed operation, HEAD is the commit of that operation,   *)
(* and the only reference its job can have recorded is that revision.      *)

\* Before the commit of its operation a winner has recorded nothing yet.
BeforeCommit == EarlySteps \cup {"stage_manifest", "stage_note", "record_staged", "commit"}

Latest(o) == journal.op = o /\ Published(o)

\* The reference ref was read back from the journal as it is now.
RefAt(o, ref) == Latest(o) /\ ref # None => ref = Revision(Len(history))

RowsOK ==
  \A o \in Ops :
    /\ job[o].stage \notin {"rejected", "failed"} /\ job[o].digest \in {None, o}
    /\ job[o].stage \in Unstarted => job[o].ref = None
    /\ RefAt(o, job[o].ref)
    /\ plan[o] # NoManifest => plan[o].entries[req[o].entry] = o

StepAt(k) ==
  /\ k.step = "admit" => k.manifest.entries[req[k.op].entry] = k.op
  /\ k.step \in LockedSteps \ {"base", "prepare"} => journal.op = k.op /\ journal.rev = 0
  /\ k.step \in BeforeCommit => job[k.op].ref = None /\ ~Published(k.op)
  /\ k.step \in {"started", "marked", "reconcile"} => RefAt(k.op, k.ref)

StepsOK == \A p \in Procs : StepAt(proc[p])

LatestOK ==
  /\ journal.rev \in {0, Len(history)}
  /\ journal.op # None => journal.manifest = plan[journal.op] /\ plan[journal.op] # NoManifest
  /\ \A o \in Ops : Latest(o) => history[Len(history)].manifest.op = o

LatestInv == RowsOK /\ StepsOK /\ LatestOK

LEMMA LatestInit == Init => LatestInv
<1> SUFFICES ASSUME Init PROVE LatestInv
  OBVIOUS
<1>1. NoJob.stage = None /\ NoJob.ref = None /\ NoJob.digest = None
  BY DEF NoJob
<1>2. Idle.step = "idle" /\ NoJournal.op = None /\ NoJournal.rev = 0
  BY DEF Idle, NoJournal
<1>3. RowsOK
  BY <1>1 DEF Init, RowsOK, RefAt, None
<1>4. StepsOK
  BY <1>2 DEF Init, StepsOK, StepAt, LockedSteps, BeforeCommit, EarlySteps
<1>5. LatestOK
  BY <1>2, NameAssumption DEF Init, LatestOK, Latest
<1>6. QED  BY <1>3, <1>4, <1>5 DEF LatestInv

\* The row of o becomes j while the journal and the history stand still.
LatestRow(o, j) ==
  /\ job' = [job EXCEPT ![o] = j]
  /\ j.stage \notin {"rejected", "failed"} /\ j.digest \in {None, o}
  /\ j.stage \in Unstarted => j.ref = None
  /\ RefAt(o, j.ref)
  /\ \A q \in Procs : proc[q].step \in BeforeCommit /\ proc[q].op = o => j.ref = None

\* A process becomes k, working on o with the row j.
LatestProc(o, j, k) ==
  k.step # "idle" =>
    /\ k.op = o /\ k.step # "admit"
    /\ k.step \in LockedSteps \ {"base", "prepare"} => journal.op = o /\ journal.rev = 0
    /\ k.step \in BeforeCommit => j.ref = None /\ ~Published(o)
    /\ k.step \in {"started", "marked", "reconcile"} => RefAt(o, k.ref)

LEMMA LatestStep ==
  ASSUME PublishInv, LatestInv, NEW p, NEW k, NEW o \in Ops, NEW j \in Jobs(Refs, Ops),
         LatestRow(o, j), UNCHANGED <<req, plan, history, journal>>,
         p \in Procs => proc' = [proc EXCEPT ![p] = k] /\ k \in Processes /\ LatestProc(o, j, k),
         p \notin Procs => proc' = proc
  PROVE  LatestInv'
<1> USE DEF LatestInv
<1>1. /\ \A q \in Procs : q # p => proc'[q] = proc[q]
      /\ p \in Procs => proc'[p] = k
  BY DEF PublishInv, PublishTypeOK
<1>2. job'[o] = j /\ \A x \in Ops : x # o => job'[x] = job[x]
  BY DEF LatestRow, PublishInv, PublishTypeOK
<1>3. /\ \A x : Published(x)' <=> Published(x)
      /\ \A x : Latest(x)' <=> Latest(x)
      /\ \A x, ref : RefAt(x, ref)' <=> RefAt(x, ref)
  BY DEF Published, Committed, Latest, RefAt
<1>4. RowsOK'
  <2> SUFFICES ASSUME NEW x \in Ops
               PROVE  /\ job'[x].stage \notin {"rejected", "failed"} /\ job'[x].digest \in {None, x}
                      /\ job'[x].stage \in Unstarted => job'[x].ref = None
                      /\ RefAt(x, job'[x].ref)
                      /\ plan[x] # NoManifest => plan[x].entries[req[x].entry] = x
    BY <1>3 DEF RowsOK, RefAt, Latest, Published, Committed
  <2>1. CASE x = o
    BY <1>2, <2>1 DEF LatestRow, RowsOK
  <2>2. CASE x # o
    BY <1>2, <2>2 DEF RowsOK
  <2>3. QED  BY <2>1, <2>2
<1>5. StepsOK'
  <2> SUFFICES ASSUME NEW q \in Procs
               PROVE  /\ proc'[q].step = "admit" => proc'[q].manifest.entries[req[proc'[q].op].entry] = proc'[q].op
                      /\ proc'[q].step \in LockedSteps \ {"base", "prepare"} => journal.op = proc'[q].op /\ journal.rev = 0
                      /\ proc'[q].step \in BeforeCommit => job'[proc'[q].op].ref = None /\ ~Published(proc'[q].op)
                      /\ proc'[q].step \in {"started", "marked", "reconcile"} => RefAt(proc'[q].op, proc'[q].ref)
    BY <1>3 DEF StepsOK, StepAt, RefAt, Latest, Published, Committed
  <2>1. CASE q = p
    BY <1>1, <1>2, <2>1 DEF LatestProc, LockedSteps, BeforeCommit, EarlySteps
  <2>2. CASE q # p
    <3>1. StepAt(proc[q]) /\ proc'[q] = proc[q]
      BY <1>1, <2>2 DEF StepsOK
    <3>2. proc[q].step \in BeforeCommit => job'[proc[q].op].ref = None
      <4>1. proc[q].step \in BeforeCommit => proc[q].op \in Ops
        BY DEF PublishInv, PlansOK, ProcessAt, BeforeCommit, EarlySteps
      <4>2. QED  BY <1>2, <3>1, <4>1 DEF StepAt, LatestRow
    <3>3. QED  BY <3>1, <3>2 DEF StepAt
  <2>3. QED  BY <2>1, <2>2
<1>6. LatestOK'
  BY <1>3 DEF LatestOK
<1>7. QED  BY <1>4, <1>5, <1>6

\* A process goes from step a to step b without a change to its row.
MovesOn(a, b) ==
  /\ b \notin {"idle", "admit", "started", "marked", "reconcile"}
  /\ b \in LockedSteps \ {"base", "prepare"} => a \in LockedSteps \ {"base", "prepare"}
  /\ b \in BeforeCommit => a \in BeforeCommit

LEMMA LatestQuiet ==
  ASSUME PublishInv, LatestInv, NEW p \in Procs, proc[p].step # "idle", NEW k \in Processes,
         proc' = [proc EXCEPT ![p] = k], UNCHANGED <<req, plan, job, history, journal>>,
         k.step = "idle" \/ (k.op = proc[p].op /\ MovesOn(proc[p].step, k.step))
  PROVE  LatestInv'
<1>1. PICK o \in Ops : o = proc[p].op
  BY ProcFacts
<1>2. job[o] \in Jobs(Refs, Ops) /\ job' = [job EXCEPT ![o] = job[o]]
  BY DEF PublishInv, PublishTypeOK
<1>3. LatestRow(o, job[o])
  BY <1>2 DEF LatestRow, LatestInv, RowsOK, StepsOK, StepAt
<1>4. StepAt(proc[p])
  BY DEF LatestInv, StepsOK
<1>5. LatestProc(o, job[o], k)
  BY <1>1, <1>4 DEF LatestProc, StepAt, MovesOn
<1>6. QED  BY <1>2, <1>3, <1>5, LatestStep

LEMMA LatestStop ==
  ASSUME PublishInv, LatestInv, NEW p \in Procs, proc[p].step # "idle", Stop(p),
         UNCHANGED <<req, plan, job, history, journal>>
  PROVE  LatestInv'
<1>1. PICK k \in Processes : k.step = "idle" /\ proc' = [proc EXCEPT ![p] = k]
  BY NoManifestType DEF Stop, Idle, Processes, Steps, Refs
<1>2. QED  BY <1>1, LatestQuiet

LEMMA LatestGo ==
  ASSUME PublishInv, LatestInv, NEW p \in Procs, proc[p].step # "idle", NEW step \in Steps, Go(p, step),
         MovesOn(proc[p].step, step), UNCHANGED <<req, plan, job, history, journal>>
  PROVE  LatestInv'
<1>1. PICK k \in Processes : k.step = step /\ k.op = proc[p].op /\ proc' = [proc EXCEPT ![p] = k]
  BY GoFacts
<1>2. QED  BY <1>1, LatestQuiet

\* The steps that write neither the rows nor the journal nor the history.
LEMMA LatestPlain ==
  ASSUME PublishInv, LatestInv, NEW p \in Procs,
         \/ Register(p) \/ Recheck(p) \/ CreateLock(p) \/ SignLock(p) \/ OpenLock(p) \/ InspectLock(p)
         \/ ReapLock(p) \/ LockTimeout(p) \/ CheckStatus(p) \/ WriteNote(p) \/ WriteManifest(p) \/ StageManifest(p) \/ StageNote(p)
  PROVE  LatestInv'
<1> USE DEF MovesOn, LockedSteps, BeforeCommit, EarlySteps, Steps, At
<1>1. UNCHANGED <<req, plan, job, history, journal>> /\ proc[p].step # "idle"
  BY DEF Register, Recheck, CreateLock, SignLock, OpenLock, InspectLock, ReapLock, LockTimeout, CheckStatus,
         WriteNote, WriteManifest, StageManifest, StageNote, store, git
<1>2. CASE OpenLock(p)
  <2>1. proc \in [Procs -> Processes] /\ lock \in Ops \cup {None} /\ proc[p].step = "lock"
    BY <1>2 DEF OpenLock, PublishInv, PublishTypeOK
  <2>2. PICK k : k = [proc[p] EXCEPT !.step = "inspect", !.seen = lock]
    OBVIOUS
  <2>3. k \in Processes /\ k.step = "inspect" /\ k.op = proc[p].op
    BY <2>1, <2>2 DEF Processes
  <2>4. proc' = [proc EXCEPT ![p] = k]
    BY <1>2, <2>1, <2>2 DEF OpenLock
  <2>5. MovesOn(proc[p].step, k.step)
    BY <2>1, <2>3
  <2>6. QED  BY <1>1, <2>3, <2>4, <2>5, LatestQuiet
<1>3. CASE ~OpenLock(p)
  <2> SUFFICES Stop(p) \/ \E step \in Steps : Go(p, step) /\ MovesOn(proc[p].step, step)
    BY <1>1, LatestStop, LatestGo
  <2>1. CASE Register(p) \/ Recheck(p)
    BY <2>1 DEF Register, Recheck
  <2>2. CASE CreateLock(p) \/ SignLock(p) \/ InspectLock(p) \/ ReapLock(p) \/ LockTimeout(p)
    BY <2>2 DEF CreateLock, SignLock, InspectLock, ReapLock, LockTimeout
  <2>3. CASE CheckStatus(p)
    <3>1. Go(p, "write_note") \/ Go(p, "stage_manifest") \/ Go(p, "readback")
      BY <2>3 DEF CheckStatus, Return
    <3>2. proc[p].step = "status"
      BY <2>3 DEF CheckStatus
    <3>3. QED  BY <3>1, <3>2
  <2>4. CASE WriteNote(p) \/ WriteManifest(p)
    BY <2>4 DEF WriteNote, WriteManifest
  <2>5. CASE StageManifest(p) \/ StageNote(p)
    BY <2>5 DEF StageManifest, StageNote
  <2>6. QED  BY <1>3, <2>1, <2>2, <2>3, <2>4, <2>5
<1>4. QED  BY <1>2, <1>3

LEMMA LatestCheckBase ==
  ASSUME PublishInv, LatestInv, NEW p \in Procs, CheckBase(p)
  PROVE  LatestInv'
<1>1. PICK o : o = proc[p].op
  OBVIOUS
<1>2. proc[p].step = "base" /\ proc[p].step \in EarlySteps
  BY DEF CheckBase, At, EarlySteps
<1>3. Committed(o) = {} /\ plan[o] \in Manifests /\ tree.manifest.entries[req[o].entry] # o
      /\ (tree.manifest = req[o].base => plan[o] = Planned(o, req[o]))
  BY <1>1, <1>2, UnwrittenFacts
<1>4. UNCHANGED <<req, plan, job, history, journal>>
  BY <1>1, <1>3 DEF CheckBase, store, git
<1>5. CASE Return(p)
  <2>1. Go(p, "readback") /\ "readback" \in Steps /\ MovesOn(proc[p].step, "readback")
    BY <1>5 DEF Return, Steps, MovesOn, LockedSteps, BeforeCommit, EarlySteps
  <2>2. QED  BY <1>2, <1>4, <2>1, LatestGo
<1>6. CASE ~Return(p)
  <2>1. /\ tree.manifest = req[o].base
        /\ proc' = [proc EXCEPT ![p].step = "prepare", ![p].manifest = Merge(o)]
    BY <1>1, <1>3, <1>6 DEF CheckBase
  <2>2. Merge(o) = plan[o]
    BY <1>3, <2>1 DEF Merge, Planned
  <2>3. PICK k \in Processes : k.step = "prepare" /\ k.op = o /\ proc' = [proc EXCEPT ![p] = k]
    <3>1. proc \in [Procs -> Processes] /\ "prepare" \in Steps
      BY DEF PublishInv, PublishTypeOK, Steps
    <3>2. PICK k : k = [proc[p] EXCEPT !.step = "prepare", !.manifest = plan[o]]
      OBVIOUS
    <3>3. k \in Processes /\ k.step = "prepare" /\ k.op = o
      BY <1>1, <1>3, <3>1, <3>2 DEF Processes
    <3>4. proc' = [proc EXCEPT ![p] = k]
      BY <2>1, <2>2, <3>1, <3>2
    <3>5. QED  BY <3>3, <3>4
  <2>4. MovesOn(proc[p].step, "prepare")
    BY <1>2 DEF MovesOn, LockedSteps, BeforeCommit, EarlySteps
  <2>5. QED  BY <1>1, <1>2, <1>4, <2>3, <2>4, LatestQuiet
<1>7. QED  BY <1>5, <1>6

LEMMA LatestAdmitJob ==
  ASSUME PublishInv, LatestInv, NEW p \in Procs, AdmitJob(p)
  PROVE  LatestInv'
<1>1. PICK o \in Ops : o = proc[p].op
  BY ProcFacts DEF AdmitJob, At
<1>2. /\ job[o] \in Jobs(Refs, Ops) /\ UNCHANGED <<req, plan, history, journal>>
  BY DEF AdmitJob, git, PublishInv, PublishTypeOK
<1>3. PICK k \in Processes : k.step = "acquire" /\ k.op = o /\ proc' = [proc EXCEPT ![p] = k]
  BY <1>1, GoFacts DEF AdmitJob, Steps
<1>4. PICK j \in Jobs(Refs, Ops) : /\ job' = [job EXCEPT ![o] = j]
                                   /\ j.ref = job[o].ref /\ j.digest = job[o].digest
                                   /\ j = job[o] \/ (job[o].stage \in Unstarted /\ j.stage = "admitted")
  <2>1. CASE job[o].stage \in {None, "registered"}
    <3>1. None \in Refs /\ None \in Ops \cup {None} /\ "registered" \in Stages /\ "admitted" \in Stages
      BY StagesMean DEF Refs
    <3>2. PICK a \in Jobs(Refs, Ops) : /\ a = Advanced(job[o], "registered", None, None)
                                       /\ a.ref = job[o].ref /\ a.digest = job[o].digest
      BY <1>2, <3>1, AdvancedFacts
    <3>3. PICK j \in Jobs(Refs, Ops) : /\ j = Advanced(a, "admitted", None, None) /\ j.stage = "admitted"
                                       /\ j.ref = a.ref /\ j.digest = a.digest
      BY <3>1, AdvancedFacts
    <3>4. job' = [job EXCEPT ![o] = j]
      BY <1>1, <2>1, <3>2, <3>3 DEF AdmitJob, RegisterAndAdmit
    <3>5. QED  BY <2>1, <3>2, <3>3, <3>4 DEF Unstarted
  <2>2. CASE job[o].stage \notin {None, "registered"}
    BY <1>1, <1>2, <2>2 DEF AdmitJob, RegisterAndAdmit
  <2>3. QED  BY <2>1, <2>2
<1>5. LatestRow(o, j)
  BY <1>4 DEF LatestRow, LatestInv, RowsOK, StepsOK, StepAt
<1>6. LatestProc(o, j, k)
  BY <1>3 DEF LatestProc, LockedSteps, BeforeCommit, EarlySteps
<1>7. QED  BY <1>2, <1>3, <1>4, <1>5, <1>6, LatestStep

LEMMA LatestAcquire ==
  ASSUME PublishInv, LatestInv, NEW p \in Procs, Acquire(p)
  PROVE  LatestInv'
<1>1. PICK o \in Ops : o = proc[p].op
  BY ProcFacts DEF Acquire, At
<1>2. /\ proc[p].step = "acquire" /\ job[o] \in Jobs(Refs, Ops) /\ UNCHANGED <<req, plan, history, journal>>
  BY DEF Acquire, At, git, PublishInv, PublishTypeOK
<1>3. CASE WinsAcquisition(job[o])
  <2>1. job[o].stage = "admitted"
    BY <1>2, <1>3, TransitionFacts DEF WinsAcquisition, CanAdvance, Jobs
  <2>2. job[o].ref = None /\ ~Published(o)
    BY <2>1 DEF LatestInv, RowsOK, Unstarted, PublishInv, FreshOK, Unwritten, Published, Committed
  <2>3. PICK j \in Jobs(Refs, Ops) : /\ job' = [job EXCEPT ![o] = j] /\ j.stage = "running"
                                     /\ j.ref = job[o].ref /\ j.digest = job[o].digest
    <3>1. "running" \in Stages /\ None \in Refs /\ None \in Ops \cup {None}
      BY StagesMean DEF Refs
    <3>2. job' = [job EXCEPT ![o] = Advanced(job[o], "running", None, None)]
      BY <1>1, <1>3 DEF Acquire, WinsAcquisition, Advance
    <3>3. PICK j \in Jobs(Refs, Ops) : /\ j = Advanced(job[o], "running", None, None) /\ j.stage = "running"
                                       /\ j.ref = job[o].ref /\ j.digest = job[o].digest
      BY <1>2, <3>1, AdvancedFacts
    <3>4. QED  BY <3>2, <3>3
  <2>4. PICK k \in Processes : k.step = "recheck" /\ k.op = o /\ proc' = [proc EXCEPT ![p] = k]
    BY <1>1, <1>3, GoFacts DEF Acquire, Steps
  <2>5. LatestRow(o, j)
    BY <2>2, <2>3 DEF LatestRow, LatestInv, RowsOK, RefAt, Unstarted, None
  <2>6. LatestProc(o, j, k)
    BY <2>2, <2>3, <2>4 DEF LatestProc, LockedSteps
  <2>7. QED  BY <1>2, <2>3, <2>4, <2>5, <2>6, LatestStep
<1>4. CASE ~WinsAcquisition(job[o])
  BY <1>1, <1>2, <1>4, LatestStop DEF Acquire
<1>5. QED  BY <1>3, <1>4

\* The journal is written with the manifest of the operation that holds the
\* lock.
LEMMA LatestJournal ==
  ASSUME PublishInv, LatestInv, NEW p \in Procs, proc[p].step \in LockedSteps \ {"base"},
         UNCHANGED <<req, plan, job, history>>, NEW rev \in {0, Len(history)}, NEW step \in Steps, Go(p, step),
         journal'.op = proc[p].op, journal'.manifest = proc[p].manifest, journal'.rev = rev,
         step \notin {"idle", "admit", "started", "marked", "reconcile"},
         step \in LockedSteps \ {"base", "prepare"} => rev = 0,
         step \in BeforeCommit => proc[p].step \in BeforeCommit
  PROVE  LatestInv'
<1> USE DEF LatestInv
<1>1. PICK o : o = proc[p].op
  OBVIOUS
<1>2. PICK k \in Processes : k.step = step /\ k.op = o /\ proc' = [proc EXCEPT ![p] = k]
  BY <1>1, GoFacts
<1>3. proc'[p] = k /\ \A q \in Procs : q # p => proc'[q] = proc[q]
  BY <1>2 DEF PublishInv, PublishTypeOK
<1>4. proc[p].step # "idle" /\ proc[p].step # "admit" /\ proc[p].step \in LockedSteps
  BY DEF LockedSteps
<1>5. /\ o \in Ops /\ plan[o] # NoManifest
      /\ WriterAt(proc[p], req[o], plan[o], tree.manifest, index, HeadTree)
  BY <1>1, <1>4, ProcFacts
<1>6. proc[p].manifest = plan[o] /\ StepAt(proc[p])
  BY <1>1, <1>5 DEF WriterAt, StepsOK
<1>7. Published(o) => journal.op = o
  BY <1>1, <1>6 DEF StepAt, LockedSteps, BeforeCommit, EarlySteps
<1>8. /\ \A x : Published(x)' <=> Published(x)
      /\ \A x : Latest(x)' => Latest(x)
      /\ \A x, ref : RefAt(x, ref) => RefAt(x, ref)'
  BY <1>1, <1>7 DEF Published, Committed, Latest, RefAt
<1>9. RowsOK'
  <2> SUFFICES ASSUME NEW x \in Ops PROVE RefAt(x, job[x].ref)'
    BY DEF RowsOK
  <2>1. PICK ref : ref = job[x].ref
    OBVIOUS
  <2>2. RefAt(x, ref)'
    BY <1>8, <2>1 DEF RowsOK
  <2>3. QED  BY <2>1, <2>2
<1>10. StepsOK'
  <2> SUFFICES ASSUME NEW q \in Procs PROVE StepAt(proc[q])'
    BY DEF StepsOK
  <2>1. CASE q = p
    <3>1. proc'[q].step = step /\ proc'[q].op = o
      BY <1>2, <1>3, <2>1
    <3>2. step \in BeforeCommit => job[o].ref = None /\ ~Published(o)
      BY <1>1, <1>6 DEF StepAt
    <3>3. QED  BY <1>1, <1>8, <3>1, <3>2 DEF StepAt, LockedSteps, BeforeCommit, EarlySteps
  <2>2. CASE q # p
    <3>1. proc[q].step \notin LockedSteps /\ StepAt(proc[q]) /\ proc'[q] = proc[q]
      BY <1>3, <1>4, <2>2, OthersWait DEF StepsOK
    <3>2. PICK x, ref : x = proc[q].op /\ ref = proc[q].ref
      OBVIOUS
    <3>3. proc[q].step \in {"started", "marked", "reconcile"} => RefAt(x, ref)'
      BY <1>8, <3>1, <3>2 DEF StepAt
    <3>4. QED  BY <1>8, <3>1, <3>2, <3>3 DEF StepAt
  <2>3. QED  BY <2>1, <2>2
<1>11. LatestOK'
  BY <1>1, <1>5, <1>6, <1>8 DEF LatestOK
<1>12. QED  BY <1>9, <1>10, <1>11

LEMMA LatestJournalSteps ==
  ASSUME PublishInv, LatestInv, NEW p \in Procs, Prepare(p) \/ RecordStaged(p) \/ RecordCommitted(p)
  PROVE  LatestInv'
<1> USE DEF LockedSteps, BeforeCommit, EarlySteps, Steps
<1>1. UNCHANGED <<req, plan, job, history>>
  BY DEF Prepare, RecordStaged, RecordCommitted, store, git
<1>2. CASE Prepare(p)
  <2>1. /\ proc[p].step = "prepare" /\ Go(p, "status") /\ journal'.op = proc[p].op
        /\ journal'.manifest = proc[p].manifest /\ journal'.rev = 0
    BY <1>2 DEF Prepare, At
  <2>2. QED  BY <1>1, <2>1, LatestJournal
<1>3. CASE RecordCommitted(p)
  <2>1. /\ proc[p].step = "record_committed" /\ Go(p, "readback") /\ journal'.op = proc[p].op
        /\ journal'.manifest = proc[p].manifest /\ journal'.rev = Len(history)
    BY <1>3 DEF RecordCommitted, At, Return
  <2>2. QED  BY <1>1, <2>1, LatestJournal
<1>4. CASE RecordStaged(p) /\ journal' = journal /\ Return(p)
  <2>1. proc[p].step = "record_staged" /\ Go(p, "readback")
    BY <1>4 DEF RecordStaged, At, Return
  <2>2. MovesOn(proc[p].step, "readback")
    BY <2>1 DEF MovesOn
  <2>3. QED  BY <1>1, <1>4, <2>1, <2>2, LatestGo
<1>5. CASE RecordStaged(p) /\ ~(journal' = journal /\ Return(p))
  <2>1. /\ proc[p].step = "record_staged" /\ Go(p, "commit") /\ journal'.op = proc[p].op
        /\ journal'.manifest = proc[p].manifest /\ journal'.rev = 0
    BY <1>5 DEF RecordStaged, At
  <2>2. QED  BY <1>1, <2>1, LatestJournal
<1>6. QED  BY <1>2, <1>3, <1>4, <1>5

LEMMA LatestCommit ==
  ASSUME PublishInv, LatestInv, NEW p \in Procs, Commit(p)
  PROVE  LatestInv'
<1>1. PICK o : o = proc[p].op
  OBVIOUS
<1>2. proc[p].step = "commit" /\ proc[p].step \in LockedSteps /\ proc[p].step \in WinnerSteps /\ proc[p].step \in BeforeCommit
  BY DEF Commit, At, LockedSteps, WinnerSteps, BeforeCommit
<1>3. o \in Ops /\ index \in Snapshots /\ plan[o].op = o /\ index.manifest = plan[o]
  BY <1>1, <1>2, CommitFacts
<1>4. PICK k \in Processes : k.step = "record_committed" /\ k.op = o /\ proc' = [proc EXCEPT ![p] = k]
  BY <1>1, GoFacts DEF Commit, Steps
<1>5. proc'[p] = k /\ \A q \in Procs : q # p => proc'[q] = proc[q]
  BY <1>4 DEF PublishInv, PublishTypeOK
<1>6. UNCHANGED <<req, plan, job, journal>>
  BY DEF Commit, store
<1>7. /\ Len(history) \in Nat /\ Len(history') = Len(history) + 1 /\ history'[Len(history) + 1] = index
      /\ \A n \in 1..Len(history) : history'[n] = history[n]
  BY <1>3 DEF Commit, PublishInv, PublishTypeOK
<1> USE DEF LatestInv
<1>8. journal.op = o /\ journal.rev = 0 /\ job[o].ref = None
  BY <1>1, <1>2 DEF StepsOK, StepAt
<1>9. ASSUME NEW x, x # o PROVE ~Latest(x)' /\ (Published(x)' <=> Published(x))
  <2>1. \A n : n \in 1..Len(history') <=> n \in 1..Len(history) \/ n = Len(history) + 1
    BY <1>7
  <2>2. Published(x)' <=> \E n \in 1..Len(history') : history'[n].manifest.op = x
    BY DEF Published, Committed
  <2>3. Published(x) <=> \E n \in 1..Len(history) : history[n].manifest.op = x
    BY DEF Published, Committed
  <2>4. Published(x)' <=> Published(x)
    BY <1>3, <1>7, <1>9, <2>1, <2>2, <2>3
  <2>5. QED  BY <1>6, <1>8, <1>9, <2>4 DEF Latest
<1>10. RowsOK'
  <2> SUFFICES ASSUME NEW x \in Ops PROVE RefAt(x, job[x].ref)'
    BY <1>6 DEF RowsOK
  <2>1. QED  BY <1>6, <1>8, <1>9 DEF RefAt
<1>11. StepsOK'
  <2> SUFFICES ASSUME NEW q \in Procs PROVE StepAt(proc[q])'
    BY DEF StepsOK
  <2>1. CASE q = p
    BY <1>4, <1>5, <1>6, <1>8, <2>1 DEF StepAt, BeforeCommit, EarlySteps
  <2>2. CASE q # p
    <3>1. StepAt(proc[q]) /\ proc'[q] = proc[q] /\ proc[q].step \notin LockedSteps
      BY <1>2, <1>5, <2>2, OthersWait DEF StepsOK
    <3>2. proc[q].step \in WinnerSteps => proc[q].op # o
      BY <1>1, <1>2, <2>2 DEF PublishInv, WinnersOK
    <3>3. PICK x, ref : x = proc[q].op /\ ref = proc[q].ref
      OBVIOUS
    <3>4. x # o => RefAt(x, ref)' /\ (Published(x)' <=> Published(x))
      BY <1>9 DEF RefAt
    <3>5. BeforeCommit \subseteq WinnerSteps /\ {"started", "marked", "reconcile"} \subseteq WinnerSteps
      BY DEF BeforeCommit, WinnerSteps, LockedSteps
    <3>6. QED  BY <1>6, <3>1, <3>2, <3>3, <3>4, <3>5 DEF StepAt
  <2>3. QED  BY <2>1, <2>2
<1>12. LatestOK'
  BY <1>3, <1>6, <1>7, <1>8, <1>9 DEF LatestOK
<1>13. QED  BY <1>10, <1>11, <1>12

\* What the readback of the latest operation answers.
LEMMA LatestReadback ==
  ASSUME PublishInv, LatestInv, NEW o \in Ops, Latest(o)
  PROVE  /\ CommittedProof /\ JournalRevision = Len(history)
         /\ SideEffectRef(o) = Revision(Len(history))
<1> USE DEF LatestInv
<1>1. /\ journal.op = o /\ Len(history) \in Nat /\ Len(history) # 0 /\ o # None
      /\ history[Len(history)].manifest.op = o
  <2>1. Len(history) \in Nat /\ o # None
    BY NameAssumption DEF PublishInv, PublishTypeOK
  <2>2. Len(history) # 0
    BY <2>1 DEF Latest, Published, Committed
  <2>3. QED  BY <2>1, <2>2 DEF Latest, LatestOK
<1>2. JournalRevision = Len(history)
  BY DEF LatestOK, JournalRevision
<1>3. Len(history) \in 1..Len(history)
  BY <1>1
<1>4. /\ history[Len(history)].manifest = plan[o] /\ history[Len(history)].notes = plan[o].entries
      /\ journal.manifest = plan[o] /\ plan[o].entries[req[o].entry] = o
  BY <1>1, <1>3 DEF PublishInv, HistoryOK, LatestOK, RowsOK
<1>5. CommittedProof
  BY <1>1, <1>2, <1>4 DEF CommittedProof
<1>6. QED  BY <1>2, <1>5 DEF SideEffectRef

LEMMA LatestReadbackStep ==
  ASSUME PublishInv, LatestInv, NEW p \in Procs, Readback(p)
  PROVE  LatestInv'
<1>1. PICK o \in Ops : o = proc[p].op
  BY ProcFacts DEF Readback, At
<1>2. proc[p].step # "idle" /\ UNCHANGED <<req, plan, job, history, journal>>
  BY DEF Readback, At, store, git
<1>3. CASE Stop(p)
  BY <1>2, <1>3, LatestStop
<1>4. CASE ~Stop(p)
  <2>1. PICK ref \in Refs, done \in BOOLEAN :
          /\ proc' = [proc EXCEPT ![p].step = "started", ![p].ref = ref, ![p].done = done]
          /\ ref = SideEffectRef(o)
    BY <1>1, <1>4, ReadbackFacts DEF Readback
  <2>2. PICK k \in Processes : /\ k.step = "started" /\ k.op = o /\ k.ref = ref
                               /\ proc' = [proc EXCEPT ![p] = k]
    <3>1. proc \in [Procs -> Processes] /\ "started" \in Steps
      BY DEF PublishInv, PublishTypeOK, Steps
    <3>2. PICK k : k = [proc[p] EXCEPT !.step = "started", !.ref = ref, !.done = done]
      OBVIOUS
    <3>3. k \in Processes /\ k.step = "started" /\ k.op = o /\ k.ref = ref
      BY <1>1, <3>1, <3>2 DEF Processes
    <3>4. proc' = [proc EXCEPT ![p] = k]
      BY <2>1, <3>1, <3>2
    <3>5. QED  BY <3>3, <3>4
  <2>3. job[o] \in Jobs(Refs, Ops) /\ job' = [job EXCEPT ![o] = job[o]]
    BY <1>2 DEF PublishInv, PublishTypeOK
  <2>4. LatestRow(o, job[o])
    BY <2>3 DEF LatestRow, LatestInv, RowsOK, StepsOK, StepAt
  <2>5. RefAt(o, ref)
    BY <2>1, LatestReadback DEF RefAt
  <2>6. LatestProc(o, job[o], k)
    BY <2>2, <2>5 DEF LatestProc, LockedSteps, BeforeCommit, EarlySteps
  <2>7. QED  BY <1>2, <2>2, <2>3, <2>4, <2>6, LatestStep
<1>5. QED  BY <1>3, <1>4

\* The last steps of a winner, which record what it has read back.
LEMMA LatestSettle ==
  ASSUME PublishInv, LatestInv, NEW p \in Procs, proc[p].step \in {"started", "marked", "reconcile"},
         NEW o, o = proc[p].op, NEW j \in Jobs(Refs, Ops), job' = [job EXCEPT ![o] = j],
         j.stage \notin {"rejected", "failed"}, j.stage \in Unstarted => job[o].stage \in Unstarted /\ j.ref = job[o].ref,
         j.digest \in {job[o].digest, o}, j.ref \in {job[o].ref, proc[p].ref},
         Stop(p) \/ Go(p, "marked") \/ Go(p, "reconcile"),
         UNCHANGED <<req, plan, history, journal>>
  PROVE  LatestInv'
<1>1. o \in Ops /\ proc[p].step \in WinnerSteps
  BY SettleFacts
<1>2. StepAt(proc[p]) /\ RefAt(o, proc[p].ref) /\ RefAt(o, job[o].ref) /\ job[o].digest \in {None, o}
  BY <1>1 DEF LatestInv, StepsOK, StepAt, RowsOK
<1>3. \A q \in Procs : proc[q].step \in BeforeCommit => proc[q].op # o
  <2>1. BeforeCommit \subseteq WinnerSteps /\ proc[p].step \notin BeforeCommit
    BY DEF BeforeCommit, WinnerSteps, LockedSteps, EarlySteps
  <2>2. QED  BY <1>1, <2>1 DEF PublishInv, WinnersOK
<1>4. LatestRow(o, j)
  BY <1>1, <1>2, <1>3 DEF LatestRow, LatestInv, RowsOK
<1>5. PICK k \in Processes : /\ proc' = [proc EXCEPT ![p] = k]
                             /\ \/ k.step = "idle"
                                \/ k.step \in {"marked", "reconcile"} /\ k.op = o /\ k.ref = proc[p].ref
  <2>1. CASE Stop(p)
    <3>1. PICK k \in Processes : k.step = "idle" /\ proc' = [proc EXCEPT ![p] = k]
      BY <2>1, NoManifestType DEF Stop, Idle, Processes, Steps, Refs
    <3>2. QED  BY <3>1
  <2>2. CASE Go(p, "marked") \/ Go(p, "reconcile")
    BY <2>2, GoFacts DEF Steps
  <2>3. QED  BY <2>1, <2>2
<1>6. LatestProc(o, j, k)
  BY <1>2, <1>5 DEF LatestProc, LockedSteps, BeforeCommit, EarlySteps
<1>7. QED  BY <1>1, <1>4, <1>5, <1>6, LatestStep

LEMMA LatestMarks ==
  ASSUME PublishInv, LatestInv, NEW p \in Procs,
         MarkEffectStarted(p) \/ MarkReadbackRequired(p) \/ ReconcileReadback(p)
  PROVE  LatestInv'
<1>1. PICK o : o = proc[p].op
  OBVIOUS
<1>2. /\ proc[p].step \in {"started", "marked", "reconcile"} /\ UNCHANGED <<req, plan, history, journal>>
      /\ Stop(p) \/ Go(p, "marked") \/ Go(p, "reconcile")
  BY DEF MarkEffectStarted, MarkReadbackRequired, ReconcileReadback, At, git
<1>3. /\ o \in Ops /\ job[o] \in Jobs(Refs, Ops) /\ job[o].stage \notin Unstarted /\ proc[p].ref \in Refs
  BY <1>1, <1>2, SettleFacts
<1>4. PICK next \in Stages, ref \in Refs, digest \in Ops \cup {None} :
        /\ next \in {"side_effect_started", "readback_required", "reconciled"}
        /\ ref \in {None, proc[p].ref} /\ digest \in {None, o}
        /\ job' = job \/ job' = [job EXCEPT ![o] = Advanced(job[o], next, ref, digest)]
  <2>1. /\ "side_effect_started" \in Stages /\ "readback_required" \in Stages /\ "reconciled" \in Stages
        /\ None \in Refs /\ None \in Ops \cup {None} /\ o \in Ops \cup {None}
    BY <1>3, StagesMean DEF Refs
  <2>2. [job EXCEPT ![o] = job[o]] = job
    BY DEF PublishInv, PublishTypeOK
  <2>3. CASE MarkEffectStarted(p)
    <3>1. job' = job \/ job' = [job EXCEPT ![o] = Advanced(job[o], "side_effect_started", proc[p].ref, None)]
      BY <1>1, <2>2, <2>3 DEF MarkEffectStarted, MarkStarted, Advance
    <3>2. QED  BY <1>3, <2>1, <3>1
  <2>4. CASE MarkReadbackRequired(p)
    <3>1. job' = job \/ job' = [job EXCEPT ![o] = Advanced(job[o], "readback_required", proc[p].ref, None)]
      BY <1>1, <2>2, <2>4 DEF MarkReadbackRequired, MarkReadback, Advance
    <3>2. QED  BY <1>3, <2>1, <3>1
  <2>5. CASE ReconcileReadback(p)
    <3>1. job' = job \/ job' = [job EXCEPT ![o] = Advanced(job[o], "reconciled", None, o)]
      BY <1>1, <2>2, <2>5 DEF ReconcileReadback, Reconcile, Advance
    <3>2. QED  BY <1>3, <2>1, <3>1
  <2>6. QED  BY <2>3, <2>4, <2>5
<1>5. PICK j \in Jobs(Refs, Ops) : /\ job' = [job EXCEPT ![o] = j]
                                   /\ j.stage \in {job[o].stage, next}
                                   /\ j.digest \in {job[o].digest, o} /\ j.ref \in {job[o].ref, proc[p].ref}
  <2>1. CASE job' = job
    <3>1. job' = [job EXCEPT ![o] = job[o]]
      BY <2>1 DEF PublishInv, PublishTypeOK
    <3>2. QED  BY <1>3, <3>1
  <2>2. CASE job' = [job EXCEPT ![o] = Advanced(job[o], next, ref, digest)]
    <3>1. PICK j \in Jobs(Refs, Ops) : /\ j = Advanced(job[o], next, ref, digest) /\ j.stage = next
                                       /\ j.ref = (IF ref = None THEN job[o].ref ELSE ref)
                                       /\ j.digest = (IF digest = None THEN job[o].digest ELSE digest)
      BY <1>3, AdvancedFacts
    <3>2. QED  BY <1>4, <2>2, <3>1
  <2>3. QED  BY <1>4, <2>1, <2>2
<1>6. job[o].stage \notin {"rejected", "failed"}
  BY <1>3 DEF LatestInv, RowsOK
<1>7. j.stage \notin {"rejected", "failed"} /\ j.stage \notin Unstarted
  BY <1>3, <1>4, <1>5, <1>6 DEF Unstarted, None
<1>8. QED  BY <1>1, <1>2, <1>5, <1>7, LatestSettle

LEMMA LatestReconcilePublication ==
  ASSUME PublishInv, LatestInv, NEW o \in Ops, ReconcilePublication(o)
  PROVE  LatestInv'
<1>1. /\ PublicationReadback(o) = "reconciled" /\ UNCHANGED <<req, plan, history, journal, proc>>
  BY DEF ReconcilePublication, Reconcilable, git
<1>2. SideEffectRef(o) \in Refs /\ Names(SideEffectRef(o), o)
  BY <1>1, ReadbackFacts
<1>3. Latest(o)
  <2>1. journal.op = o
    BY <1>1 DEF PublicationReadback
  <2>2. QED  BY <1>2, <2>1 DEF Names, Latest, Published, Committed
<1>4. PICK j \in Jobs(Refs, Ops) : /\ job' = [job EXCEPT ![o] = j] /\ j.stage = "reconciled"
                                   /\ j.digest = o /\ j.ref = Revision(Len(history))
  <2>1. [stage |-> "reconciled", ref |-> SideEffectRef(o), digest |-> o] \in Jobs(Refs, Ops)
    BY <1>2, StagesMean DEF Jobs
  <2>2. QED  BY <1>3, <2>1, LatestReadback DEF ReconcilePublication
<1>5. \A q \in Procs : proc[q].step \in BeforeCommit => proc[q].op # o
  BY <1>3 DEF LatestInv, StepsOK, StepAt, Latest
<1>6. LatestRow(o, j)
  BY <1>4, <1>5 DEF LatestRow, RefAt, Unstarted, None
<1>7. None \notin Procs
  BY NameAssumption
<1>8. QED  BY <1>1, <1>4, <1>6, <1>7, LatestStep

LEMMA LatestBegin ==
  ASSUME PublishInv, LatestInv, NEW p \in Procs, NEW o \in Ops, NEW e \in Entries, Begin(p, o, e)
  PROVE  LatestInv'
<1> USE DEF LatestInv
<1>1. /\ tree.manifest \in Manifests /\ UNCHANGED <<plan, job, history, journal>>
      /\ RowAt(o, req[o], plan[o], job[o], tree.manifest)
  BY DEF Begin, git, PublishInv, PublishTypeOK, Snapshots, PlansOK
<1>2. /\ req'[o].entry = e /\ \A x \in Ops : x # o => req'[x] = req[x]
      /\ req'[o] = req[o] \/ req[o] = NoRequest
  BY DEF Begin, PublishInv, PublishTypeOK
<1>3. PICK m : m = (IF plan[o] # NoManifest THEN plan[o]
                    ELSE [op |-> o, entries |-> [tree.manifest.entries EXCEPT ![e] = o]])
  OBVIOUS
<1>4. m.entries[e] = o
  <2>1. CASE plan[o] # NoManifest
    BY <1>1, <1>2, <1>3, <2>1 DEF RowAt, RowsOK
  <2>2. CASE plan[o] = NoManifest
    BY <1>1, <1>3, <2>2 DEF Manifests
  <2>3. QED  BY <2>1, <2>2
<1>5. PICK k : k.step = "admit" /\ k.op = o /\ k.manifest = m /\ proc' = [proc EXCEPT ![p] = k]
  <2>1. PICK k : k = [Idle EXCEPT !.step = "admit", !.op = o, !.manifest = m]
    OBVIOUS
  <2>2. k.step = "admit" /\ k.op = o /\ k.manifest = m
    BY <2>1 DEF Idle
  <2>3. proc' = [proc EXCEPT ![p] = k]
    BY <1>3, <2>1 DEF Begin
  <2>4. QED  BY <2>2, <2>3
<1>6. proc'[p] = k /\ \A q \in Procs : q # p => proc'[q] = proc[q]
  BY <1>5 DEF PublishInv, PublishTypeOK
<1>7. /\ \A x : Published(x)' <=> Published(x)
      /\ \A x, ref : RefAt(x, ref)' <=> RefAt(x, ref)
      /\ \A x : Latest(x)' <=> Latest(x)
  BY <1>1 DEF Published, Committed, RefAt, Latest
<1>8. RowsOK'
  <2> SUFFICES ASSUME NEW x \in Ops
               PROVE  RefAt(x, job[x].ref)' /\ (plan[x] # NoManifest => plan[x].entries[req'[x].entry] = x)
    BY <1>1 DEF RowsOK
  <2>1. RefAt(x, job[x].ref)'
    BY <1>1 DEF RowsOK, RefAt, Latest, Published, Committed
  <2>2. plan[x] # NoManifest => plan[x].entries[req'[x].entry] = x
    BY <1>1, <1>2 DEF RowsOK, RowAt
  <2>3. QED  BY <2>1, <2>2
<1>9. StepsOK'
  <2> SUFFICES ASSUME NEW q \in Procs PROVE StepAt(proc[q])'
    BY DEF StepsOK
  <2>1. CASE q = p
    BY <1>2, <1>4, <1>5, <1>6, <2>1 DEF StepAt, LockedSteps, BeforeCommit, EarlySteps
  <2>2. CASE q # p
    <3>1. proc'[q] = proc[q] /\ StepAt(proc[q])
      BY <1>6, <2>2 DEF StepsOK
    <3>2. proc[q].step = "admit" => req'[proc[q].op] = req[proc[q].op]
      BY <1>2, NameAssumption DEF PublishInv, PlansOK, ProcessAt, NoRequest
    <3>3. QED  BY <1>1, <3>1, <3>2 DEF StepAt, RefAt, Latest, Published, Committed
  <2>3. QED  BY <2>1, <2>2
<1>10. LatestOK'
  BY <1>1, <1>7 DEF LatestOK
<1>11. QED  BY <1>8, <1>9, <1>10

LEMMA LatestAdmit ==
  ASSUME PublishInv, LatestInv, NEW p \in Procs, AdmitPublication(p)
  PROVE  LatestInv'
<1> USE DEF LatestInv
<1>1. PICK o \in Ops : o = proc[p].op
  BY ProcFacts DEF AdmitPublication, At
<1>2. /\ proc[p].step = "admit" /\ job[o] \in Jobs(Refs, Ops) /\ UNCHANGED <<req, history, journal>>
  BY DEF AdmitPublication, At, git, PublishInv, PublishTypeOK
<1>3. CASE plan[o] # NoManifest
  <2>1. UNCHANGED <<req, plan, job, history, journal>> /\ (Go(p, "register") \/ Stop(p))
    BY <1>1, <1>2, <1>3 DEF AdmitPublication
  <2>2. MovesOn(proc[p].step, "register") /\ "register" \in Steps
    BY DEF MovesOn, LockedSteps, BeforeCommit, EarlySteps, Steps
  <2>3. QED  BY <1>2, <2>1, <2>2, LatestGo, LatestStop
<1>4. CASE plan[o] = NoManifest
  <2>1. PICK k \in Processes : k.step = "register" /\ k.op = o /\ proc' = [proc EXCEPT ![p] = k]
    BY <1>1, <1>4, GoFacts DEF AdmitPublication, Steps
  <2>2. proc'[p] = k /\ \A q \in Procs : q # p => proc'[q] = proc[q]
    BY <2>1 DEF PublishInv, PublishTypeOK
  <2>3. PICK m : m = proc[p].manifest /\ plan'[o] = m /\ \A x \in Ops : x # o => plan'[x] = plan[x]
    BY <1>1, <1>4 DEF AdmitPublication, PublishInv, PublishTypeOK
  <2>4. job[o].stage = None
    BY <1>4 DEF PublishInv, PlansOK, RowAt
  <2>5. job[o].ref = None
    BY <2>4 DEF RowsOK, Unstarted
  <2>6. PICK j : /\ job' = [job EXCEPT ![o] = j] /\ j.stage = "registered"
                 /\ j.ref = None /\ j.digest = job[o].digest
    <3>1. None \in Refs /\ None \in Ops \cup {None} /\ "registered" \in Stages
      BY StagesMean DEF Refs
    <3>2. PICK j : /\ j = Advanced(job[o], "registered", None, None) /\ j.stage = "registered"
                   /\ j.ref = job[o].ref /\ j.digest = job[o].digest
      BY <1>2, <3>1, AdvancedFacts
    <3>3. job' = [job EXCEPT ![o] = j]
      BY <1>1, <1>4, <3>2 DEF AdmitPublication
    <3>4. QED  BY <2>5, <3>2, <3>3
  <2>7. job'[o] = j /\ \A x \in Ops : x # o => job'[x] = job[x]
    BY <2>6 DEF PublishInv, PublishTypeOK
  <2>8. /\ \A x : Published(x)' <=> Published(x)
        /\ \A x, ref : RefAt(x, ref)' <=> RefAt(x, ref)
        /\ \A x : Latest(x)' <=> Latest(x)
    BY <1>2 DEF Published, Committed, RefAt, Latest
  <2>9. m.entries[req[o].entry] = o /\ StepAt(proc[p])
    BY <1>1, <1>2, <2>3 DEF StepsOK, StepAt
  <2>10. RowsOK'
    <3> SUFFICES ASSUME NEW x \in Ops
                 PROVE  /\ job'[x].stage \notin {"rejected", "failed"} /\ job'[x].digest \in {None, x}
                        /\ job'[x].stage \in Unstarted => job'[x].ref = None
                        /\ RefAt(x, job'[x].ref)
                        /\ plan'[x] # NoManifest => plan'[x].entries[req[x].entry] = x
      BY <1>2 DEF RowsOK, RefAt, Latest, Published, Committed
    <3>1. CASE x = o
      <4>1. job'[x].digest \in {None, x}
        BY <2>6, <2>7, <3>1 DEF RowsOK
      <4>2. QED  BY <2>3, <2>6, <2>7, <2>9, <3>1, <4>1 DEF RefAt
    <3>2. CASE x # o
      BY <2>3, <2>7, <3>2 DEF RowsOK
    <3>3. QED  BY <3>1, <3>2
  <2>11. StepsOK'
    <3> SUFFICES ASSUME NEW q \in Procs PROVE StepAt(proc[q])'
      BY DEF StepsOK
    <3>1. CASE q = p
      BY <2>1, <2>2, <3>1 DEF StepAt, LockedSteps, BeforeCommit, EarlySteps
    <3>2. CASE q # p
      <4>1. proc'[q] = proc[q] /\ StepAt(proc[q])
        BY <2>2, <3>2 DEF StepsOK
      <4>2. proc[q].step \in BeforeCommit => proc[q].op \in Ops
        BY DEF PublishInv, PlansOK, ProcessAt, BeforeCommit, EarlySteps
      <4>3. proc[q].step \in BeforeCommit => job'[proc[q].op].ref = None
        BY <2>6, <2>7, <4>1, <4>2 DEF StepAt
      <4>4. QED  BY <1>2, <4>1, <4>3 DEF StepAt, RefAt, Latest, Published, Committed
    <3>3. QED  BY <3>1, <3>2
  <2>12. LatestOK'
    <3>1. journal.op \in Ops \cup {None} /\ journal.op # o
      BY <1>4, NameAssumption DEF LatestOK, PublishInv, PublishTypeOK, Journals
    <3>2. QED  BY <1>2, <2>3, <2>8, <3>1 DEF LatestOK
  <2>13. QED  BY <2>10, <2>11, <2>12
<1>5. QED  BY <1>3, <1>4

LEMMA LatestNext == PublishInv /\ LatestInv /\ [Next]_vars => LatestInv'
<1> SUFFICES ASSUME PublishInv, LatestInv, [Next]_vars PROVE LatestInv'
  OBVIOUS
<1>1. ASSUME NEW p \in Procs, AdmissionStep(p) PROVE LatestInv'
  BY <1>1, LatestBegin, LatestAdmit, LatestPlain, LatestAdmitJob, LatestAcquire DEF AdmissionStep
<1>2. ASSUME NEW p \in Procs, GitStep(p) PROVE LatestInv'
  BY <1>2, LatestPlain, LatestCheckBase, LatestJournalSteps, LatestCommit DEF GitStep
<1>3. ASSUME NEW p \in Procs, SettleStep(p) PROVE LatestInv'
  BY <1>3, LatestReadbackStep, LatestMarks DEF SettleStep
<1>4. ASSUME NEW p \in Procs, Crash(p) PROVE LatestInv'
  <2>1. proc[p].step # "idle" /\ Stop(p) /\ UNCHANGED <<req, plan, job, history, journal>>
    BY <1>4 DEF Crash, At, store, git
  <2>2. QED  BY <2>1, LatestStop
<1>5. ASSUME UNCHANGED <<req, plan, job, history, journal, proc>> PROVE LatestInv'
  BY <1>5 DEF LatestInv, RowsOK, StepsOK, StepAt, LatestOK, RefAt, Latest, Published, Committed
<1>6. ASSUME NEW e \in Entries, EditNote(e) \/ RevertNote(e) PROVE LatestInv'
  <2>1. UNCHANGED <<req, plan, job, history, journal, proc>>
    BY <1>6 DEF EditNote, RevertNote, store
  <2>2. QED  BY <1>5, <2>1
<1>7. CASE UNCHANGED vars
  BY <1>5, <1>7 DEF vars
<1>8. ASSUME NEW o \in Ops, Exit(o) PROVE LatestInv'
  <2>1. UNCHANGED <<req, plan, job, history, journal, proc>>
    BY <1>8 DEF Exit, store, git
  <2>2. QED  BY <1>5, <2>1
<1>9. QED  BY <1>1, <1>2, <1>3, <1>4, <1>6, <1>7, <1>8, LatestReconcilePublication DEF Next

\* From its commit on a publication can be reconciled by the operator, as long
\* as the journal names it, the worktree holds no edit and no reaper has removed
\* a lock file it had not inspected, wherever its process was killed
\* (read_publication_journal, reconcile_memory_publication).
THEOREM LatestIsReconcilable == Spec => []LatestCommitIsReconcilable
<1>1. (~stolen => PublishInv /\ LatestInv) => LatestCommitIsReconcilable
  <2> SUFFICES ASSUME PublishInv, LatestInv, NEW o \in Ops, Published(o), journal.op = o, Clean, ~Resolved(job[o])
               PROVE  Reconcilable(o)
    BY DEF LatestCommitIsReconcilable
  <2>1. Latest(o) /\ o # None
    BY NameAssumption DEF Latest
  <2>2. CommittedProof /\ JournalRevision = Len(history) /\ SideEffectRef(o) = Revision(Len(history))
    BY <2>1, LatestReadback
  <2>3. journal.manifest = plan[o] /\ plan[o] # NoManifest
    BY <2>1 DEF LatestInv, LatestOK
  <2>4. history # <<>> /\ HeadTree = history[Len(history)]
    <3>1. history # <<>>
      BY DEF Published, Committed
    <3>2. QED  BY <3>1 DEF HeadTree, Last
  <2>5. tree = HeadTree /\ index = HeadTree
    BY DEF Clean
  <2>6. MaterialMatches \/ journal.state = "staged"
    <3>1. HeadTree.manifest = journal.manifest /\ HeadTree.notes[req[journal.op].entry] = journal.op
      BY <2>2, <2>4 DEF CommittedProof
    <3>2. ~StagedManifest /\ StagedNotes = {}
      BY <2>5 DEF StagedManifest, StagedNotes
    <3>3. QED  BY <2>5, <3>1, <3>2 DEF MaterialMatches
  <2>7. PublicationReadback(o) = "reconciled"
    BY <2>1, <2>2, <2>6 DEF PublicationReadback
  <2>8. job[o].stage \notin {None, "rejected", "failed"}
    BY <2>3 DEF LatestInv, RowsOK, PublishInv, PlansOK, RowAt
  <2>9. Keeps(job[o].ref, SideEffectRef(o)) /\ Keeps(job[o].digest, o)
    BY <2>1, <2>2 DEF LatestInv, RowsOK, RefAt, Keeps
  <2>10. QED  BY <2>3, <2>7, <2>8, <2>9 DEF Reconcilable
<1>2. (~stolen => PublishInv) /\ (~stolen => LatestInv) /\ [Next]_vars => (~stolen' => LatestInv')
  BY LatestNext, StolenStays
<1>3. QED  BY <1>1, <1>2, LatestInit, PublishInvHolds, PTL DEF Spec

=============================================================================
