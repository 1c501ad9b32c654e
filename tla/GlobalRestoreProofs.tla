------------------------- MODULE GlobalRestoreProofs -------------------------
(***************************************************************************)
(* What holds of the physical restore of the Global database for any       *)
(* number of restore operations, packages and clients, and any number of   *)
(* kills and retries: no commit is destroyed and no identity comes back.   *)
(*                                                                         *)
(* The invariant says, step by step, what a try may rely on.  One try runs *)
(* at a time and no client is connected meanwhile (LockOK), so what a step *)
(* reads of the live file is still true at the next one (TryAt).  What an  *)
(* operation retained is the file its intent names or nothing at all,      *)
(* hence copying it again on a retry destroys nothing.  An operation whose *)
(* target was live once finds a live file other than the one its intent    *)
(* names for ever after (TargetAt), so it never activates twice.           *)
(***************************************************************************)
EXTENDS GlobalRestore, TLAPS

Image == [id : Nat, rev : Nat, schema : Nat, data : SUBSET Nat]
Try == [step : Steps, package : Packages \cup {None}]
Journal == [phase : Phases, package : Packages \cup {None}, source : Image, target : Nat, previous : Image]

\* The types, without the bounds that make an instance finite.
FilesTypeOK ==
  /\ live \in Image
  /\ package \in [Packages -> Image]
  /\ try \in [Ops -> Try]
  /\ journal \in [Ops -> Journal]
  /\ staged \in [Ops -> Image]
  /\ previous \in [Ops -> Image]
  /\ ids \in Nat
  /\ lived \subseteq Nat
  /\ commits \in Nat

\* flock: one exclusive holder, and no shared one beside it; a client that is
\* connected has a database.
LockOK ==
  /\ \A o \in Ops : try[o].step # "idle" =>
       /\ shared = {}
       /\ \A q \in Ops : try[q].step # "idle" => q = o
  /\ shared # {} => live.id # 0

\* The step t of a try with the journal j, the stage s and the retained
\* image r, when l is the live file.
TryAt(t, j, s, r, l) ==
  /\ t.step # "idle" => t.package \in Packages
  /\ j.phase = "none" => r = NoFile /\ t.step \in {"idle", "journal"}
  /\ r \in {NoFile, j.previous}
  /\ t.step \in {"retained", "prepare", "activate"} => r = l /\ l = j.previous
  /\ t.step = "activate" => s = [j.source EXCEPT !.id = j.target]

TryOK == \A o \in Ops : TryAt(try[o], journal[o], staged[o], previous[o], live)

\* The identity an intent chose, when l is live, n identities were handed out
\* and those in old have been live.
TargetAt(j, l, n, old) ==
  j.phase # "none" =>
    /\ j.target \in 1..n
    /\ j.previous.id \in old \cup {0}
    /\ j.previous.id # j.target
    /\ j.target \in old => l.id # j.previous.id

TargetOK == \A o \in Ops : TargetAt(journal[o], live, ids, lived)

\* Two operations never restore under one identity.
TargetsDiffer ==
  \A o, q \in Ops : o # q /\ journal[o].phase # "none" /\ journal[q].phase # "none"
                      => journal[o].target # journal[q].target

\* Every image that exists outside a restore was live under its identity.
IdsOK ==
  /\ lived \subseteq 1..ids
  /\ live.id \in lived \cup {0}
  /\ \A p \in Packages : package[p].id \in lived \cup {0}
  /\ live.id = 0 => live = NoFile

RestoreInv ==
  /\ FilesTypeOK
  /\ LockOK
  /\ TryOK
  /\ TargetOK
  /\ TargetsDiffer
  /\ IdsOK
  /\ NothingIsLost

-----------------------------------------------------------------------------
(* The initial states.                                                     *)

LEMMA InitInv == Init => RestoreInv
<1> SUFFICES ASSUME Init PROVE RestoreInv
  OBVIOUS
<1> USE DEF Init, NoTry, NoJournal, NoFile, Current
<1>1. FilesTypeOK
  <2>1. NoFile \in Image /\ live \in Image
    BY DEF Image
  <2>2. NoTry \in Try /\ NoJournal \in Journal
    BY <2>1 DEF Try, Journal, Steps, Phases, None
  <2>3. [id |-> 1, rev |-> 0, schema |-> Current, data |-> {}] \in Image
    BY DEF Image
  <2>4. package \in [Packages -> Image]
    BY <2>1, <2>3
  <2>5. QED  BY <2>1, <2>2, <2>4 DEF FilesTypeOK
<1>2. LockOK /\ TryOK /\ TargetOK /\ TargetsDiffer
  BY DEF LockOK, TryOK, TryAt, TargetOK, TargetAt, TargetsDiffer
<1>3. IdsOK
  BY DEF IdsOK
<1>4. NothingIsLost
  BY DEF NothingIsLost
<1>5. QED  BY <1>1, <1>2, <1>3, <1>4 DEF RestoreInv

-----------------------------------------------------------------------------
(* Ordinary clients.                                                       *)

\* While a client may be admitted no try runs, so no try relies on the live
\* file: an image that keeps its identity may take its place.
LEMMA ClientInv ==
  ASSUME RestoreInv, ClientStep
  PROVE  RestoreInv'
<1> USE DEF RestoreInv
<1>1. CASE Bootstrap
  <2> USE <1>1 DEF Bootstrap, ExclusiveFree, Present, NoFile, Current, clientVars, fileVars
  <2>1. FilesTypeOK'
    BY DEF FilesTypeOK, Image
  <2>2. LockOK' /\ TargetsDiffer'
    BY DEF LockOK, TargetsDiffer
  <2>3. TryOK'
    BY DEF TryOK, TryAt
  <2>4. TargetOK'
    BY DEF TargetOK, TargetAt, IdsOK, FilesTypeOK, Journal, Image
  <2>5. IdsOK'
    BY DEF IdsOK, FilesTypeOK
  <2>6. NothingIsLost'
    BY DEF IdsOK, NothingIsLost
  <2>7. QED  BY <2>1, <2>2, <2>3, <2>4, <2>5, <2>6
<1>2. CASE MigrateSchema
  <2> USE <1>2 DEF MigrateSchema, ExclusiveFree, Present, Current, clientVars, fileVars, ghostVars
  <2>1. FilesTypeOK'
    BY DEF FilesTypeOK, Image
  <2>2. live'.id = live.id /\ live'.data = live.data
    BY DEF FilesTypeOK, Image
  <2>3. LockOK' /\ TargetsDiffer'
    BY DEF LockOK, TargetsDiffer
  <2>4. TryOK'
    BY DEF TryOK, TryAt
  <2>5. TargetOK' /\ IdsOK'
    BY <2>2 DEF TargetOK, TargetAt, IdsOK
  <2>6. NothingIsLost'
    BY <2>2 DEF NothingIsLost
  <2>7. QED  BY <2>1, <2>3, <2>4, <2>5, <2>6
<1>3. ASSUME NEW c \in Clients, Open(c)
      PROVE  RestoreInv'
  <2> USE <1>3 DEF Open, SharedFree, fileVars, ghostVars
  <2>1. LockOK'
    BY DEF LockOK, Present
  <2>2. QED
    BY <2>1 DEF FilesTypeOK, TryOK, TargetOK, TargetsDiffer, IdsOK, NothingIsLost
<1>4. ASSUME NEW c \in Clients, Commit(c)
      PROVE  RestoreInv'
  <2> USE <1>4 DEF Commit, fileVars, ghostVars
  <2>1. FilesTypeOK'
    <3>1. live.rev + 1 \in Nat /\ commits + 1 \in Nat /\ live.data \cup {commits + 1} \in SUBSET Nat
      BY DEF FilesTypeOK, Image
    <3>2. live' \in Image
      BY <3>1 DEF FilesTypeOK, Image
    <3>3. QED  BY <3>1, <3>2 DEF FilesTypeOK
  <2>2. live'.id = live.id /\ live'.data = live.data \cup {commits + 1}
    BY DEF FilesTypeOK, Image
  <2>3. \A o \in Ops : try[o].step = "idle"
    BY DEF LockOK
  <2>4. LockOK' /\ TargetsDiffer'
    BY <2>2 DEF LockOK, TargetsDiffer
  <2>5. TryOK'
    BY <2>3 DEF TryOK, TryAt
  <2>6. TargetOK'
    BY <2>2 DEF TargetOK, TargetAt
  <2>7. IdsOK'
    BY <2>2 DEF IdsOK, LockOK
  <2>8. NothingIsLost'
    BY <2>2 DEF NothingIsLost, FilesTypeOK
  <2>9. QED  BY <2>1, <2>4, <2>5, <2>6, <2>7, <2>8
<1>5. ASSUME NEW c \in Clients, Close(c)
      PROVE  RestoreInv'
  <2> USE <1>5 DEF Close, fileVars, ghostVars
  <2>1. LockOK'
    BY DEF LockOK
  <2>2. QED
    BY <2>1 DEF FilesTypeOK, TryOK, TargetOK, TargetsDiffer, IdsOK, NothingIsLost
<1>6. ASSUME NEW c \in Clients, NEW p \in Packages, Backup(c, p)
      PROVE  RestoreInv'
  <2> USE <1>6 DEF Backup, fileVars, ghostVars
  <2>1. FilesTypeOK'
    BY DEF FilesTypeOK
  <2>2. IdsOK'
    BY DEF IdsOK, FilesTypeOK
  <2>3. QED
    BY <2>1, <2>2 DEF LockOK, TryOK, TargetOK, TargetsDiffer, NothingIsLost
<1>7. QED
  BY <1>1, <1>2, <1>3, <1>4, <1>5, <1>6 DEF ClientStep

-----------------------------------------------------------------------------
(* One try of a restore operation.                                         *)

\* Until it activates, a try leaves the live file and the identities that
\* lived alone and writes files of its own operation only: the rest of the
\* invariant follows from what it makes of them.
Writes(o, t, j, s, r) ==
  /\ try' = [try EXCEPT ![o] = t]
  /\ journal' = [journal EXCEPT ![o] = j]
  /\ staged' = [staged EXCEPT ![o] = s]
  /\ previous' = [previous EXCEPT ![o] = r]

LEMMA WritesInv ==
  ASSUME RestoreInv, NEW o \in Ops, try[o].step # "idle" \/ ExclusiveFree,
         NEW t \in Try, NEW j \in Journal, NEW s \in Image, NEW r \in Image,
         Writes(o, t, j, s, r), UNCHANGED <<live, clientVars, lived>>,
         TryAt(t, j, s, r, live),
         previous[o] \in {NoFile, r},
         \/ ids' = ids /\ (j.phase = "none" <=> journal[o].phase = "none")
              /\ j.target = journal[o].target /\ j.previous = journal[o].previous
         \/ ids' = ids + 1 /\ j.target = ids + 1 /\ j.previous = live
  PROVE  RestoreInv'
<1> USE DEF RestoreInv, Writes, clientVars
<1>1. FilesTypeOK'
  BY DEF FilesTypeOK
<1>2. LockOK'
  BY DEF LockOK, ExclusiveFree, FilesTypeOK
<1>3. TryOK'
  BY DEF TryOK, FilesTypeOK
<1>4. TargetOK'
  <2> SUFFICES ASSUME NEW q \in Ops PROVE TargetAt(journal[q], live, ids, lived)'
    BY DEF TargetOK
  <2>1. TargetAt(journal[q], live, ids, lived)
    BY DEF TargetOK
  <2>2. CASE q # o
    BY <2>1, <2>2 DEF TargetAt, FilesTypeOK, Journal
  <2>3. CASE q = o
    BY <2>1, <2>3 DEF TargetAt, FilesTypeOK, Journal, IdsOK
  <2>4. QED  BY <2>2, <2>3
<1>5. TargetsDiffer'
  BY DEF TargetsDiffer, TargetOK, TargetAt, FilesTypeOK, Journal
<1>6. IdsOK'
  BY DEF IdsOK, FilesTypeOK
<1>7. NothingIsLost'
  BY DEF NothingIsLost, FilesTypeOK, NoFile
<1>8. QED  BY <1>1, <1>2, <1>3, <1>4, <1>5, <1>6, <1>7

\* Taking the lock, and giving it up at an error, a refusal or a kill.
LEMMA LockInv ==
  ASSUME RestoreInv, NEW o \in Ops, NEW t \in Try, t.step = "idle" \/ (t.step = "journal" /\ t.package \in Packages),
         try' = [try EXCEPT ![o] = t], UNCHANGED <<live, clientVars, fileVars, ids, lived>>,
         try[o].step # "idle" \/ ExclusiveFree
  PROVE  RestoreInv'
<1>1. TryAt(t, journal[o], staged[o], previous[o], live)
  BY DEF RestoreInv, TryOK, TryAt
<1>2. Writes(o, t, journal[o], staged[o], previous[o])
  BY DEF RestoreInv, FilesTypeOK, Writes, fileVars
<1>3. journal[o] \in Journal /\ staged[o] \in Image /\ previous[o] \in Image
  BY DEF RestoreInv, FilesTypeOK
<1>4. QED  BY <1>1, <1>2, <1>3, WritesInv

LEMMA NoTryType == NoTry \in Try /\ NoTry.step = "idle"
  BY DEF NoTry, Try, Steps, None

LEMMA AcquireInv ==
  ASSUME RestoreInv, NEW o \in Ops, NEW p \in Packages, Acquire(o, p)
  PROVE  RestoreInv'
<1>1. [step |-> "journal", package |-> p] \in Try
  BY DEF Try, Steps
<1>2. QED  BY <1>1, LockInv DEF Acquire, fileVars, ghostVars

LEMMA RefuseInv ==
  ASSUME RestoreInv, NEW o \in Ops, try[o].step # "idle", Refuse(o),
         UNCHANGED <<live, clientVars, fileVars, ids, lived>>
  PROVE  RestoreInv'
<1>1. PICK t \in Try : t.step = "idle" /\ try' = [try EXCEPT ![o] = t]
  BY NoTryType DEF Refuse
<1>2. QED  BY <1>1, LockInv

LEMMA GoTry ==
  ASSUME try \in [Ops -> Try], NEW o \in Ops, NEW step \in Steps, Go(o, step)
  PROVE  \E t \in Try : t.step = step /\ t.package = try[o].package /\ try' = [try EXCEPT ![o] = t]
<1>1. [try[o] EXCEPT !.step = step] \in Try
  BY DEF Try
<1>2. QED  BY <1>1 DEF Go, Try

\* A step of a try that only goes on to the next one.
LEMMA GoInv ==
  ASSUME RestoreInv, NEW o \in Ops, try[o].step # "idle", NEW step \in Steps,
         Go(o, step), UNCHANGED <<live, clientVars, fileVars, ids, lived>>,
         step \in {"idle", "journal"} \/ journal[o].phase # "none",
         step \in {"retained", "prepare", "activate"} => previous[o] = live /\ live = journal[o].previous,
         step = "activate" => staged[o] = Restored(o)
  PROVE  RestoreInv'
<1>1. PICK t \in Try : t.step = step /\ t.package = try[o].package /\ try' = [try EXCEPT ![o] = t]
  BY GoTry DEF RestoreInv, FilesTypeOK
<1>2. TryAt(t, journal[o], staged[o], previous[o], live)
  BY <1>1 DEF RestoreInv, TryOK, TryAt, Restored
<1>3. Writes(o, t, journal[o], staged[o], previous[o])
  BY <1>1 DEF RestoreInv, FilesTypeOK, Writes, fileVars
<1>4. journal[o] \in Journal /\ staged[o] \in Image /\ previous[o] \in Image
  BY DEF RestoreInv, FilesTypeOK
<1>5. QED  BY <1>2, <1>3, <1>4, WritesInv

LEMMA LoadJournalInv ==
  ASSUME RestoreInv, NEW o \in Ops, LoadJournal(o)
  PROVE  RestoreInv'
<1>0. try[o].step # "idle" /\ previous[o] \in Image /\ staged[o] \in Image /\ try[o] \in Try
  BY DEF LoadJournal, At, RestoreInv, FilesTypeOK
<1>1. CASE /\ journal[o].phase = "none"
           /\ journal' = [journal EXCEPT ![o] = [phase |-> "intent", package |-> try[o].package,
                source |-> package[try[o].package], target |-> FreshId(try[o].package), previous |-> live]]
           /\ ids' = ids + 1 /\ Go(o, "check")
  <2>1. PICK j \in Journal : /\ journal' = [journal EXCEPT ![o] = j]
                             /\ j.phase = "intent" /\ j.target = ids + 1 /\ j.previous = live
    <3>1. package[try[o].package] \in Image
      BY <1>0 DEF RestoreInv, FilesTypeOK, TryOK, TryAt
    <3>2. ids + 1 \in Nat /\ live \in Image
      BY DEF RestoreInv, FilesTypeOK
    <3>3. [phase |-> "intent", package |-> try[o].package, source |-> package[try[o].package],
           target |-> ids + 1, previous |-> live] \in Journal
      BY <1>0, <3>1, <3>2 DEF Journal, Phases, Try
    <3>4. QED  BY <1>1, <3>3 DEF FreshId
  <2>2. PICK t \in Try : /\ t.step = "check" /\ t.package = try[o].package
                         /\ try' = [try EXCEPT ![o] = t]
    BY <1>1, GoTry DEF RestoreInv, FilesTypeOK, Steps
  <2>3. previous[o] = NoFile /\ TryAt(t, j, staged[o], previous[o], live)
    BY <1>0, <1>1, <2>1, <2>2 DEF RestoreInv, TryOK, TryAt
  <2>4. Writes(o, t, j, staged[o], previous[o])
    BY <2>1, <2>2 DEF LoadJournal, RestoreInv, FilesTypeOK, Writes
  <2>5. QED
    BY <1>0, <1>1, <2>1, <2>3, <2>4, WritesInv DEF LoadJournal
<1>2. CASE /\ journal[o].phase # "none" /\ Go(o, "check") /\ UNCHANGED <<journal, ids>>
  BY <1>0, <1>2, GoInv DEF LoadJournal, Steps, fileVars
<1>3. CASE Refuse(o) /\ UNCHANGED <<journal, ids>>
  BY <1>0, <1>3, RefuseInv DEF LoadJournal, fileVars
<1>4. QED  BY <1>1, <1>2, <1>3 DEF LoadJournal

LEMMA CheckActiveInv ==
  ASSUME RestoreInv, NEW o \in Ops, CheckActive(o)
  PROVE  RestoreInv'
<1>1. try[o].step # "idle" /\ journal[o].phase # "none"
  BY DEF CheckActive, At, RestoreInv, TryOK, TryAt
<1>2. ResumeAt(o) \in {"finish", "stage", "verify", "idle"}
  BY DEF ResumeAt
<1>3. UNCHANGED <<live, clientVars, fileVars, ids, lived>>
  BY DEF CheckActive, ghostVars
<1>4. CASE ResumeAt(o) = "idle"
  BY <1>1, <1>3, <1>4, RefuseInv DEF CheckActive
<1>5. CASE ResumeAt(o) # "idle"
  <2>1. PICK step \in {"finish", "stage", "verify"} : Go(o, step)
    BY <1>2, <1>5 DEF CheckActive
  <2>2. QED  BY <1>1, <1>3, <2>1, GoInv DEF Steps
<1>6. QED  BY <1>4, <1>5

\* The stage is written, with no other file.
LEMMA StageInv ==
  ASSUME RestoreInv, NEW o \in Ops, try[o].step # "idle", journal[o].phase # "none",
         NEW s \in Image, staged' = [staged EXCEPT ![o] = s],
         NEW step \in {"rebrand", "staged"}, Go(o, step),
         UNCHANGED <<live, clientVars, journal, previous, ids, lived>>
  PROVE  RestoreInv'
<1>1. PICK t \in Try : t.step = step /\ t.package = try[o].package /\ try' = [try EXCEPT ![o] = t]
  BY GoTry DEF RestoreInv, FilesTypeOK, Steps
<1>2. TryAt(t, journal[o], s, previous[o], live)
  BY <1>1 DEF RestoreInv, TryOK, TryAt
<1>3. Writes(o, t, journal[o], s, previous[o])
  BY <1>1 DEF RestoreInv, FilesTypeOK, Writes
<1>4. journal[o] \in Journal /\ previous[o] \in Image
  BY DEF RestoreInv, FilesTypeOK
<1>5. QED  BY <1>2, <1>3, <1>4, WritesInv

LEMMA StagePackageInv ==
  ASSUME RestoreInv, NEW o \in Ops, StagePackage(o)
  PROVE  RestoreInv'
<1>1. try[o].step # "idle" /\ journal[o].phase # "none" /\ package[try[o].package] \in Image
  BY DEF StagePackage, At, RestoreInv, TryOK, TryAt, FilesTypeOK
<1>2. QED  BY <1>1, StageInv DEF StagePackage, ghostVars

LEMMA RebrandStagedInv ==
  ASSUME RestoreInv, NEW o \in Ops, RebrandStaged(o)
  PROVE  RestoreInv'
<1>1. try[o].step # "idle" /\ journal[o].phase # "none"
  BY DEF RebrandStaged, At, RestoreInv, TryOK, TryAt
<1>2. [staged[o] EXCEPT !.id = journal[o].target] \in Image
  BY DEF RestoreInv, FilesTypeOK, Image, Journal
<1>3. PICK s \in Image : staged' = [staged EXCEPT ![o] = s]
  BY <1>2 DEF RebrandStaged
<1>4. QED  BY <1>1, <1>3, StageInv DEF RebrandStaged, ghostVars

LEMMA VerifyStagedInv ==
  ASSUME RestoreInv, NEW o \in Ops, VerifyStaged(o)
  PROVE  RestoreInv'
<1>1. try[o].step # "idle" /\ journal[o].phase # "none" /\ "retain" \in Steps
  BY DEF VerifyStaged, At, RestoreInv, TryOK, TryAt, Steps
<1>2. UNCHANGED <<live, clientVars, fileVars, ids, lived>>
  BY DEF VerifyStaged, ghostVars
<1>3. Go(o, "retain") \/ Refuse(o)
  BY DEF VerifyStaged
<1>4. QED  BY <1>1, <1>2, <1>3, GoInv, RefuseInv

LEMMA PrepareActiveInv ==
  ASSUME RestoreInv, NEW o \in Ops, PrepareActive(o)
  PROVE  RestoreInv'
<1>1. /\ try[o].step # "idle" /\ journal[o].phase # "none" /\ "activate" \in Steps
      /\ previous[o] = live /\ live = journal[o].previous
  BY DEF PrepareActive, At, RestoreInv, TryOK, TryAt, Steps
<1>2. UNCHANGED <<live, clientVars, fileVars, ids, lived>>
  BY DEF PrepareActive, ghostVars
<1>3. (Go(o, "activate") /\ staged[o] = Restored(o)) \/ Refuse(o)
  BY DEF PrepareActive
<1>4. QED  BY <1>1, <1>2, <1>3, GoInv, RefuseInv

\* A phase is recorded, with no other change of a file.
LEMMA RecordInv ==
  ASSUME RestoreInv, NEW o \in Ops, try[o].step # "idle", journal[o].phase # "none",
         NEW phase \in Phases, phase # "none", journal' = [journal EXCEPT ![o].phase = phase],
         NEW t \in Try, try' = [try EXCEPT ![o] = t], t.step # "idle" => t.package = try[o].package,
         t.step \in {"idle", "retain", "finish"} \/ (t.step = "prepare" /\ try[o].step = "retained"),
         UNCHANGED <<live, clientVars, staged, previous, ids, lived>>
  PROVE  RestoreInv'
<1>1. PICK j \in Journal : /\ journal' = [journal EXCEPT ![o] = j]
                           /\ j.phase = phase /\ j.target = journal[o].target /\ j.previous = journal[o].previous
  <2>1. [journal[o] EXCEPT !.phase = phase] \in Journal
    BY DEF RestoreInv, FilesTypeOK, Journal
  <2>2. QED  BY <2>1 DEF RestoreInv, FilesTypeOK, Journal
<1>2. TryAt(t, j, staged[o], previous[o], live)
  BY <1>1 DEF RestoreInv, TryOK, TryAt
<1>3. Writes(o, t, j, staged[o], previous[o])
  BY <1>1 DEF RestoreInv, FilesTypeOK, Writes
<1>4. staged[o] \in Image /\ previous[o] \in Image
  BY DEF RestoreInv, FilesTypeOK
<1>5. QED  BY <1>1, <1>2, <1>3, <1>4, WritesInv

LEMMA RecordPhaseInv ==
  ASSUME RestoreInv, NEW o \in Ops, RecordStaged(o) \/ RecordRetained(o) \/ RecordActivated(o)
  PROVE  RestoreInv'
<1>1. PICK step \in {"staged", "retained", "activated"}, phase \in Phases, next \in {"retain", "prepare", "finish"} :
        /\ RecordPhase(o, step, phase, next)
        /\ phase # "none" /\ (next = "prepare" => step = "retained")
  BY DEF RecordStaged, RecordRetained, RecordActivated, Phases
<1>2. try[o].step # "idle" /\ journal[o].phase # "none" /\ try[o].step = step
  BY <1>1 DEF RecordPhase, At, RestoreInv, TryOK, TryAt
<1>3. PICK t \in Try : t.step = next /\ t.package = try[o].package /\ try' = [try EXCEPT ![o] = t]
  BY <1>1, GoTry DEF RecordPhase, RestoreInv, FilesTypeOK, Steps
<1>4. UNCHANGED <<live, clientVars, staged, previous, ids, lived>> /\ journal' = [journal EXCEPT ![o].phase = phase]
  BY <1>1 DEF RecordPhase, ghostVars
<1>5. t.step \in {"idle", "retain", "finish"} \/ (t.step = "prepare" /\ try[o].step = "retained")
  BY <1>1, <1>2, <1>3
<1>6. QED  BY <1>1, <1>2, <1>3, <1>4, <1>5, RecordInv

\* A second copy replaces nothing but the same one.
LEMMA RetainPreviousInv ==
  ASSUME RestoreInv, NEW o \in Ops, RetainPrevious(o)
  PROVE  RestoreInv'
<1>1. /\ try[o].step # "idle" /\ journal[o].phase # "none" /\ previous[o] \in {NoFile, journal[o].previous}
      /\ journal[o] \in Journal /\ staged[o] \in Image /\ live \in Image
  BY DEF RetainPrevious, At, RestoreInv, TryOK, TryAt, FilesTypeOK
<1>2. UNCHANGED <<live, clientVars, journal, staged, ids, lived>>
  BY DEF RetainPrevious, ghostVars
<1>3. CASE live = journal[o].previous
  <2>1. PICK t \in Try : t.step = "retained" /\ t.package = try[o].package /\ try' = [try EXCEPT ![o] = t]
    BY <1>3, GoTry DEF RetainPrevious, RestoreInv, FilesTypeOK, Steps
  <2>2. TryAt(t, journal[o], staged[o], live, live)
    BY <1>1, <1>3, <2>1 DEF RestoreInv, TryOK, TryAt
  <2>3. Writes(o, t, journal[o], staged[o], live)
    BY <1>2, <1>3, <2>1 DEF RetainPrevious, RestoreInv, FilesTypeOK, Writes
  <2>4. QED  BY <1>1, <1>2, <1>3, <2>2, <2>3, WritesInv
<1>4. CASE live # journal[o].previous
  BY <1>1, <1>2, <1>4, RefuseInv DEF RetainPrevious, fileVars
<1>5. QED  BY <1>3, <1>4

LEMMA FinishActivatedInv ==
  ASSUME RestoreInv, NEW o \in Ops, FinishActivated(o)
  PROVE  RestoreInv'
<1>1. try[o].step # "idle" /\ journal[o].phase # "none" /\ "committed" \in Phases
  BY DEF FinishActivated, At, RestoreInv, TryOK, TryAt, Phases
<1>2. UNCHANGED <<live, clientVars, staged, previous, ids, lived>> /\ Refuse(o)
  BY DEF FinishActivated
<1>3. CASE journal' = [journal EXCEPT ![o].phase = "committed"]
  <2>1. PICK t \in Try : t.step = "idle" /\ try' = [try EXCEPT ![o] = t]
    BY <1>2, NoTryType DEF Refuse
  <2>2. t.step \in {"idle", "retain", "finish"}
    BY <2>1
  <2>3. QED  BY <1>1, <1>2, <1>3, <2>1, <2>2, RecordInv
<1>4. CASE UNCHANGED journal
  BY <1>1, <1>2, <1>4, RefuseInv DEF fileVars
<1>5. QED  BY <1>3, <1>4 DEF FinishActivated

\* What is true of an operation that is about to rename its stage over the
\* live file.
LEMMA ActivateFacts ==
  ASSUME RestoreInv, NEW o \in Ops, Activate(o)
  PROVE  /\ staged[o].id = journal[o].target
         /\ journal[o].phase # "none"
         /\ journal[o].target \in 1..ids /\ journal[o].target \notin lived /\ journal[o].target # 0
         /\ journal[o].target # journal[o].previous.id
         /\ previous[o] = live
         /\ staged[o] \in Image /\ live \in Image
<1>1. TryAt(try[o], journal[o], staged[o], previous[o], live) /\ try[o].step = "activate"
  BY DEF Activate, At, RestoreInv, TryOK
<1>2. /\ journal[o].phase # "none" /\ previous[o] = live /\ live = journal[o].previous
      /\ staged[o] = [journal[o].source EXCEPT !.id = journal[o].target]
  BY <1>1 DEF TryAt
<1>3. staged[o].id = journal[o].target /\ staged[o] \in Image /\ live \in Image
  BY <1>2 DEF RestoreInv, FilesTypeOK, Journal, Image
<1>4. TargetAt(journal[o], live, ids, lived)
  BY DEF RestoreInv, TargetOK
<1>5. journal[o].target # 0
  BY <1>2, <1>4 DEF TargetAt, RestoreInv, FilesTypeOK
<1>6. QED  BY <1>2, <1>3, <1>4, <1>5 DEF TargetAt

LEMMA ActivateInv ==
  ASSUME RestoreInv, NEW o \in Ops, Activate(o)
  PROVE  RestoreInv'
<1> USE ActivateFacts DEF RestoreInv
<1>1. PICK t \in Try : t.step = "activated" /\ t.package = try[o].package /\ try' = [try EXCEPT ![o] = t]
  BY GoTry DEF Activate, FilesTypeOK, Steps
<1>2. UNCHANGED <<clientVars, journal, previous, ids>> /\ live' = staged[o] /\ live' \in Image
      /\ lived' = lived \cup {staged[o].id} /\ staged' = [staged EXCEPT ![o] = NoFile]
  BY DEF Activate
<1>3. try[o].step = "activate"
  BY DEF Activate, At
<1>4. FilesTypeOK'
  <2>1. NoFile \in Image
    BY DEF NoFile, Image
  <2>2. QED  BY <1>1, <1>2, <2>1 DEF FilesTypeOK, clientVars, Image
<1>5. LockOK'
  BY <1>1, <1>2, <1>3 DEF LockOK, FilesTypeOK, clientVars
<1>6. TryOK'
  <2> SUFFICES ASSUME NEW q \in Ops
               PROVE  TryAt(try[q], journal[q], staged[q], previous[q], live)'
    BY DEF TryOK
  <2>1. TryAt(try[q], journal[q], staged[q], previous[q], live)
    BY DEF TryOK
  <2>2. CASE q = o
    BY <1>1, <1>2, <1>3, <2>1, <2>2 DEF TryAt, FilesTypeOK
  <2>3. CASE q # o
    BY <1>1, <1>2, <1>3, <2>1, <2>3 DEF TryAt, LockOK, FilesTypeOK
  <2>4. QED  BY <2>2, <2>3
<1>7. TargetOK'
  <2> SUFFICES ASSUME NEW q \in Ops PROVE TargetAt(journal[q], live, ids, lived)'
    BY DEF TargetOK
  <2>1. TargetAt(journal[q], live, ids, lived)
    BY DEF TargetOK
  <2>2. CASE q = o
    BY <1>2, <2>1, <2>2 DEF TargetAt
  <2>3. CASE q # o
    BY <1>2, <2>1, <2>3 DEF TargetAt, TargetsDiffer
  <2>4. QED  BY <2>2, <2>3
<1>8. TargetsDiffer'
  BY <1>2 DEF TargetsDiffer
<1>9. IdsOK'
  <2>1. live'.id = journal[o].target /\ lived' = lived \cup {journal[o].target} /\ ids' = ids /\ package' = package
    BY <1>2 DEF clientVars
  <2>2. lived' \subseteq 1..ids
    BY <2>1 DEF IdsOK
  <2>3. QED  BY <2>1, <2>2 DEF IdsOK
<1>10. NothingIsLost'
  BY <1>2 DEF NothingIsLost, clientVars
<1>11. QED  BY <1>4, <1>5, <1>6, <1>7, <1>8, <1>9, <1>10

-----------------------------------------------------------------------------
(* Every step, and every reachable state.                                  *)

LEMMA InterruptInv ==
  ASSUME RestoreInv, NEW o \in Ops, Interrupt(o)
  PROVE  RestoreInv'
BY RefuseInv DEF Interrupt, ghostVars

LEMMA NextInv == RestoreInv /\ [Next]_vars => RestoreInv'
<1> SUFFICES ASSUME RestoreInv, [Next]_vars PROVE RestoreInv'
  OBVIOUS
<1>1. CASE UNCHANGED vars
  BY <1>1 DEF vars, clientVars, fileVars, ghostVars, RestoreInv, FilesTypeOK, LockOK, TryOK, TargetOK,
     TargetsDiffer, IdsOK, NothingIsLost
<1>2. CASE ClientStep
  BY <1>2, ClientInv
<1>3. ASSUME NEW o \in Ops, NEW p \in Packages, Acquire(o, p) PROVE RestoreInv'
  BY <1>3, AcquireInv
<1>4. ASSUME NEW o \in Ops, TryStep(o) PROVE RestoreInv'
  BY <1>4, LoadJournalInv, CheckActiveInv, StagePackageInv, RebrandStagedInv, RecordPhaseInv, VerifyStagedInv,
     RetainPreviousInv, PrepareActiveInv, ActivateInv, FinishActivatedInv DEF TryStep
<1>5. ASSUME NEW o \in Ops, Interrupt(o) PROVE RestoreInv'
  BY <1>5, InterruptInv
<1>6. QED  BY <1>1, <1>2, <1>3, <1>4, <1>5 DEF Next

\* Every state of every run satisfies the invariant.
THEOREM RestoreInvHolds == Spec => []RestoreInv
<1>1. QED  BY InitInv, NextInv, PTL DEF Spec

-----------------------------------------------------------------------------
(* The theorems.                                                           *)

\* Whatever is restored over an ordinary commit, and however often a try is
\* killed and repeated with other clients in between, the commit is in the
\* live database or in a previous.sqlite (retain_previous_database before
\* activate_staged_database).
THEOREM NoCommitIsLost == Spec => []NothingIsLost
<1>1. RestoreInv => NothingIsLost
  BY DEF RestoreInv
<1>2. QED  BY <1>1, RestoreInvHolds, PTL

\* A database that replaces the live one has an identity that was never live
\* and that no backup carries, on a retry as on the first try
\* (fresh_database_id, kept in restore-journal.json).
THEOREM RestoredIdentityIsNew == Spec => IdentityIsFresh
<1> DEFINE Fresh == live'.id # live.id =>
                     live'.id \notin lived /\ live'.id \notin {package[p].id : p \in Packages}
<1>1. ASSUME RestoreInv, [Next]_vars PROVE [Fresh]_vars
  <2>1. CASE live'.id = live.id
    BY <2>1
  <2>2. CASE Bootstrap
    BY <1>1, <2>2 DEF Bootstrap, RestoreInv, IdsOK, FilesTypeOK
  <2>3. ASSUME NEW o \in Ops, Activate(o) PROVE Fresh
    <3>1. live'.id = journal[o].target /\ journal[o].target \notin lived \cup {0}
      BY <1>1, <2>3, ActivateFacts DEF Activate
    <3>2. QED  BY <1>1, <3>1 DEF RestoreInv, IdsOK
  <2>4. Bootstrap \/ (\E o \in Ops : Activate(o)) \/ live'.id = live.id
    BY <1>1 DEF Next, ClientStep, TryStep, vars, RestoreInv, FilesTypeOK, Image, MigrateSchema, Open, Commit, Close,
       Backup, Acquire, LoadJournal, CheckActive, StagePackage, RebrandStaged, RecordStaged, RecordRetained,
       RecordActivated, RecordPhase, VerifyStaged, RetainPrevious, PrepareActive, FinishActivated, Interrupt
  <2>5. QED  BY <2>1, <2>2, <2>3, <2>4
<1>2. QED  BY <1>1, RestoreInvHolds, PTL DEF Spec, IdentityIsFresh
=============================================================================
