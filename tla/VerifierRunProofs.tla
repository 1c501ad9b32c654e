------------------------- MODULE VerifierRunProofs -------------------------
(***************************************************************************)
(* Proofs about `evidence run`, for any number of workers, operations,     *)
(* registered sources, attempts and crashes.                               *)
(*                                                                         *)
(* The argument: the admission of an operation lets one worker through for *)
(* good (OneRunner), so the job row and the launch count of the operation  *)
(* stand where that worker's program counter says (RunnerOK), and what no  *)
(* worker runs any more keeps what the last one left (OperationOK).  Every *)
(* step of a worker touches the rows of its own operation only (Touches),  *)
(* so the invariant is shown for the operation of the worker that moves    *)
(* and carried over for all others.                                        *)
(***************************************************************************)
EXTENDS VerifierRun, TLAPS

Entering == {"journal", "admit"}
Running == Steps \ ({"idle"} \cup Entering)

\* The worker was let through by an admission and has not given up yet.
Runs(c) == caller[c].pc \in Running

JobRow(stage, ref, digest) == [stage |-> stage, ref |-> ref, digest |-> digest]

-----------------------------------------------------------------------------
(* The inductive invariant.                                                *)

Contexts == [pc : Steps, op : Ops \cup {None}, fence : 0..MaxFence,
             source : Sources \cup {None}, outcome : Outcomes \cup {None}]

ReceiptRows == [op : Ops, fence : 0..MaxFence, source : Sources \cup {None},
                result : Outcomes \cup {"rejected"}]

RowsTypeOK ==
  /\ attempt \in [fence : 1..MaxFence, phase : {"running", "submitted", "ended", "closed"},
                  live : BOOLEAN, source : Sources \cup {None}]
  /\ sealed \in [source : Sources \cup {None}, receipts : SUBSET Ops]
  /\ journal \in [Ops -> [fence : 0..MaxFence, source : Sources \cup {None}]]
  /\ caller \in [Callers -> Contexts]
  /\ exec \in [Ops -> ExecStates]
  /\ job \in [Ops -> Jobs(Ops, Outcomes)]
  /\ launches \in [Ops -> Nat]
  /\ receipts \in Seq(ReceiptRows)
  /\ host \in [up : BOOLEAN, starting : BOOLEAN, early : BOOLEAN, todo : SUBSET Ops]
  /\ crashes \in 0..MaxCrashes

\* A worker that serves a request knows its operation.
BusyOK == \A c \in Callers : caller[c].pc # "idle" => caller[c].op \in Ops

\* One worker at a time runs an operation.
OneRunner ==
  \A c, d \in Callers : Runs(c) /\ Runs(d) /\ caller[c].op = caller[d].op => c = d

\* What the program counter and the outcome of the runner of o say about the
\* execution row e, the job row j and the launch count n of o.
RunnerAt(pc, outcome, o, e, j, n) ==
  /\ pc \in {"prepare", "acquire"} =>
       j = JobRow("admitted", None, None) /\ n = 0 /\ e \in {"admitted", "unknown"}
  /\ pc = "effect" =>
       j = JobRow("running", None, None) /\ n = 0 /\ e \in {"admitted", "unknown"}
  /\ pc \in {"start", "launch", "wait", "finish", "readback"} =>
       j = JobRow("side_effect_started", SideEffect(o), None)
  /\ pc = "start" => n = 0 /\ e \in {"admitted", "unknown"}
  /\ pc = "launch" => n = 0 /\ e \in {"running", "unknown"}
  /\ pc \in {"wait", "finish"} => n = 1 /\ e \in {"running", "unknown"}
  /\ pc \in {"check", "reconcile"} => j = JobRow("readback_required", SideEffect(o), None)
  /\ pc = "insert" => j = JobRow("reconciled", SideEffect(o), outcome)
  /\ pc \in {"readback", "check", "reconcile", "insert"} => n = 1 /\ e \in {"exited", "unknown"}
  /\ pc \in {"finish", "readback", "check", "reconcile", "insert"} => outcome \in Outcomes
  /\ pc \in {"unknown", "settle"} =>
       /\ \/ j = JobRow("admitted", None, None) /\ n = 0
          \/ j = JobRow("side_effect_started", SideEffect(o), None) /\ n \in {0, 1}
       /\ e \in {"admitted", "running", "unknown"}

RunnerOK ==
  \A c \in Callers : Runs(c) =>
    LET o == caller[c].op
    IN  /\ RunnerAt(caller[c].pc, caller[c].outcome, o, exec[o], job[o], launches[o])
        /\ ~ReceiptFor(o)

\* A spawned process has a job row that names it.
Recorded(o, j, n) ==
  n = 1 => /\ j.ref = SideEffect(o)
           /\ j.stage \in {"side_effect_started", "readback_required", "reconciled"}

\* What holds of an operation whoever runs it.
OperationAt(o) ==
  /\ exec[o] = "none" => job[o] = NoJob /\ launches[o] = 0 /\ ~ReceiptFor(o)
  /\ launches[o] \in {0, 1}
  /\ Recorded(o, job[o], launches[o])
  /\ \A i \in DOMAIN receipts :
       receipts[i].op = o /\ receipts[i].result \in Outcomes => exec[o] = "receipt_committed"

OperationOK == \A o \in Ops : OperationAt(o)

\* A starting host only has executions to mark that were admitted once.
TodoOK == \A o \in host.todo : exec[o] # "none"

RunInv == RowsTypeOK /\ BusyOK /\ OneRunner /\ RunnerOK /\ OperationOK /\ TodoOK

-----------------------------------------------------------------------------
(* What the adapter calls make of the job rows that occur.                 *)

USE DEF SideEffect

LEMMA AdmittedRow ==
  RegisterAndAdmit(NoJob) = JobRow("admitted", None, None)
BY DEF RegisterAndAdmit, NoJob, Advanced, Coalesce, JobRow, None

LEMMA RunningRow ==
  ASSUME NEW j, j = JobRow("admitted", None, None)
  PROVE  Advanced(j, "running", None, None) = JobRow("running", None, None)
BY DEF Advanced, Coalesce, JobRow, None

LEMMA StartedRow ==
  ASSUME NEW o \in Ops, NEW j, j = JobRow("running", None, None)
  PROVE  /\ MarkStarted(j, o) = JobRow("side_effect_started", o, None)
         /\ MarkStartedOk(MarkStarted(j, o), o)
<1>1. Transitions[j.stage] = {"side_effect_started", "failed", "cancel_requested"}
  BY DEF Transitions, JobRow
<1>2. CanAdvance(j, "side_effect_started", o, None)
  BY <1>1 DEF CanAdvance, Keeps, JobRow
<1>3. MarkStarted(j, o) = JobRow("side_effect_started", o, None)
  BY <1>2, OpAssumption DEF MarkStarted, Advance, Advanced, Coalesce, JobRow
<1>4. QED  BY <1>3 DEF MarkStartedOk, JobRow

\* A started effect is put up for read-back, once.
LEMMA ReadbackRow ==
  ASSUME NEW o \in Ops, NEW j,
         j = JobRow("side_effect_started", o, None) \/ j = JobRow("readback_required", o, None)
  PROVE  ToReadback(j, o) = JobRow("readback_required", o, None)
<1>1. Transitions["side_effect_started"] = {"side_effect_finished", "readback_required", "failed"}
      /\ Transitions["readback_required"] = {"reconciled"}
  BY DEF Transitions
<1>2. ToReadback(j, o) = MarkReadback(j, o)
  BY DEF ToReadback, JobRow
<1>3. CASE j = JobRow("side_effect_started", o, None)
  <2>1. CanAdvance(j, "readback_required", o, None)
    BY <1>1, <1>3, OpAssumption DEF CanAdvance, Keeps, Coalesce, JobRow
  <2>2. QED  BY <1>2, <1>3, <2>1, OpAssumption DEF MarkReadback, Advance, Advanced, Coalesce, JobRow
<1>4. CASE j = JobRow("readback_required", o, None)
  <2>1. ~CanAdvance(j, "readback_required", o, None)
    BY <1>1, <1>4 DEF CanAdvance, JobRow
  <2>2. QED  BY <1>2, <1>4, <2>1 DEF MarkReadback, Advance
<1>5. QED  BY <1>3, <1>4

\* A run that never started its effect is written off.
LEMMA FailedRow ==
  ASSUME NEW o \in Ops, NEW j, j = JobRow("admitted", None, None)
  PROVE  ToReadback(j, o) = JobRow("failed", None, None)
BY DEF ToReadback, Advanced, Coalesce, JobRow, None

LEMMA ReconciledRow ==
  ASSUME NEW o \in Ops, NEW j, NEW r \in Outcomes, j = JobRow("readback_required", o, None)
  PROVE  /\ ~Resolved(j) /\ ReconcileOk(j, o, r)
         /\ Reconcile(j, r) = JobRow("reconciled", o, r)
<1>1. r # None
  BY DEF Outcomes, None
<1>2. Transitions[j.stage] = {"reconciled"}
  BY DEF Transitions, JobRow
<1>3. CanAdvance(j, "reconciled", None, r)
  BY <1>1, <1>2 DEF CanAdvance, Keeps, Coalesce, JobRow
<1>4. Reconcile(j, r) = JobRow("reconciled", o, r)
  BY <1>1, <1>3 DEF Reconcile, Advance, Advanced, Coalesce, JobRow
<1>5. QED  BY <1>4 DEF Resolved, ReconcileOk, JobRow

LEMMA RowsAreJobs ==
  ASSUME NEW o \in Ops, NEW s \in Stages, NEW f \in {o, None}, NEW r \in Outcomes \cup {None}
  PROVE  JobRow(s, f, r) \in Jobs(Ops, Outcomes)
BY DEF JobRow, Jobs

-----------------------------------------------------------------------------
(* A step of one worker.                                                   *)

RowsKept(p) ==
  /\ exec'[p] = exec[p] /\ job'[p] = job[p] /\ launches'[p] = launches[p]
  /\ \A i \in DOMAIN receipts' :
       receipts'[i].op = p => i \in DOMAIN receipts /\ receipts'[i] = receipts[i]

\* Worker c moves and touches the rows of operation o at most; it does so as
\* the runner of o, as the worker that becomes its runner, or not at all.
Touches(c, o) ==
  /\ \A d \in Callers \ {c} : caller'[d] = caller[d]
  /\ caller'[c].pc # "idle" => caller'[c].op = o
  /\ \A p \in Ops \ {o} : RowsKept(p)
  /\ host' = host
  /\ exec[o] # "none" => exec'[o] # "none"
  /\ \/ Runs(c)
     \/ Runs(c)' /\ exec[o] = "none"
     \/ ~Runs(c)' /\ RowsKept(o)

\* It leaves the rows of o as its new program counter says.
LeavesOK(c, o) ==
  /\ RowsTypeOK'
  /\ OperationAt(o)'
  /\ Runs(c)' =>
       /\ RunnerAt(caller'[c].pc, caller'[c].outcome, o, exec'[o], job'[o], launches'[o])
       /\ ~ReceiptFor(o)'

LEMMA KeptOperation ==
  ASSUME NEW p, RowsKept(p), OperationAt(p)
  PROVE  OperationAt(p)'
BY DEF RowsKept, OperationAt, ReceiptFor

\* A runner's execution was admitted.
LEMMA RunnerIsAdmitted ==
  ASSUME RunInv, NEW c \in Callers, Runs(c)
  PROVE  exec[caller[c].op] # "none"
BY DEF RunInv, RunnerOK, RunnerAt, Runs, Running, Steps, Entering, RowsTypeOK

LEMMA MoveKeepsInv ==
  ASSUME RunInv, NEW c \in Callers, NEW o \in Ops,
         caller[c].pc # "idle" => caller[c].op = o,
         Touches(c, o), LeavesOK(c, o)
  PROVE  RunInv'
<1> USE DEF RunInv
<1>1. RowsTypeOK'
  BY DEF LeavesOK
<1>2. BusyOK'
  BY DEF BusyOK, Touches
<1>3. ASSUME NEW d \in Callers \ {c}, Runs(d), caller[d].op = o
      PROVE  ~Runs(c)' /\ RowsKept(o)
  <2>1. ~Runs(c)
    BY <1>3 DEF OneRunner, Runs, Running
  <2>2. exec[o] # "none"
    BY <1>3, RunnerIsAdmitted
  <2>3. QED  BY <2>1, <2>2 DEF Touches
<1>4. ASSUME NEW d \in Callers \ {c}
      PROVE  caller'[d] = caller[d] /\ (Runs(d)' <=> Runs(d))
  BY DEF Touches, Runs
<1>5. Runs(c)' => caller'[c].op = o
  BY DEF Runs, Running, Touches
<1>6. OneRunner'
  <2> SUFFICES ASSUME NEW d \in Callers, NEW e \in Callers, Runs(d)', Runs(e)',
                      caller'[d].op = caller'[e].op
               PROVE  d = e
    BY DEF OneRunner
  <2>1. CASE d # c /\ e # c
    BY <2>1, <1>4 DEF OneRunner
  <2>2. CASE d = c /\ e # c
    BY <2>2, <1>3, <1>4, <1>5
  <2>3. CASE d # c /\ e = c
    BY <2>3, <1>3, <1>4, <1>5
  <2>4. QED  BY <2>1, <2>2, <2>3
<1>7. RunnerOK'
  <2> SUFFICES ASSUME NEW d \in Callers, Runs(d)',
                      NEW q, q = caller'[d].op
               PROVE  /\ RunnerAt(caller'[d].pc, caller'[d].outcome, q, exec'[q], job'[q], launches'[q])
                      /\ ~ReceiptFor(q)'
    BY DEF RunnerOK
  <2>1. CASE d = c
    BY <2>1, <1>5 DEF LeavesOK
  <2>2. CASE d # c
    <3>1. Runs(d) /\ caller'[d] = caller[d]
      BY <2>2, <1>4
    <3>2. q \in Ops
      BY <3>1 DEF BusyOK, Runs, Running
    <3>3. RowsKept(q)
      BY <2>2, <3>1, <3>2, <1>3 DEF Touches
    <3>4. /\ RunnerAt(caller[d].pc, caller[d].outcome, q, exec[q], job[q], launches[q])
          /\ ~ReceiptFor(q)
      BY <3>1 DEF RunnerOK
    <3>5. /\ exec'[q] = exec[q] /\ job'[q] = job[q] /\ launches'[q] = launches[q]
          /\ ~ReceiptFor(q)'
      BY <3>3, <3>4 DEF RowsKept, ReceiptFor
    <3>6. QED  BY <3>1, <3>4, <3>5
  <2>3. QED  BY <2>1, <2>2
<1>8. OperationOK'
  <2> SUFFICES ASSUME NEW p \in Ops  PROVE OperationAt(p)'
    BY DEF OperationOK
  <2>1. CASE p = o
    BY <2>1 DEF LeavesOK
  <2>2. CASE p # o
    BY <2>2, KeptOperation DEF Touches, OperationOK
  <2>3. QED  BY <2>1, <2>2
<1>9. TodoOK'
  BY DEF TodoOK, Touches, RowsKept, RowsTypeOK
<1>10. QED  BY <1>1, <1>2, <1>6, <1>7, <1>8, <1>9

-----------------------------------------------------------------------------
(* The steps of a worker, one by one.                                      *)

\* The worker goes on with the same context.
LEMMA GoesOn ==
  ASSUME RunInv, NEW c \in Callers, NEW pc \in Steps, Go(c, pc)
  PROVE  /\ caller' \in [Callers -> Contexts]
         /\ \A d \in Callers \ {c} : caller'[d] = caller[d]
         /\ caller'[c].pc = pc /\ caller'[c].op = caller[c].op
         /\ caller'[c].outcome = caller[c].outcome
<1>1. caller \in [Callers -> Contexts] /\ caller[c] \in Contexts
  BY DEF RunInv, RowsTypeOK
<1>2. caller' = [caller EXCEPT ![c] = [caller[c] EXCEPT !.pc = pc]]
  BY DEF Go
<1>3. [caller[c] EXCEPT !.pc = pc] \in Contexts
  BY <1>1 DEF Contexts
<1>4. QED  BY <1>1, <1>2, <1>3 DEF Contexts

\* The worker answers its client and takes the next request.
LEMMA Answers ==
  ASSUME RunInv, NEW c \in Callers, Stop(c)
  PROVE  /\ caller' \in [Callers -> Contexts]
         /\ \A d \in Callers \ {c} : caller'[d] = caller[d]
         /\ caller'[c].pc = "idle" /\ ~Runs(c)'
BY FenceAssumption DEF RunInv, RowsTypeOK, Stop, Idle, Contexts, Runs, Running, Steps

\* What is known of the operation of a worker that takes a step.
LEMMA OwnOperation ==
  ASSUME RunInv, NEW c \in Callers, NEW o, o = caller[c].op, caller[c].pc # "idle"
  PROVE  /\ o \in Ops
         /\ OperationAt(o)
         /\ Runs(c) => RunnerAt(caller[c].pc, caller[c].outcome, o, exec[o], job[o], launches[o])
         /\ Runs(c) => ~ReceiptFor(o)
BY DEF RunInv, BusyOK, OperationOK, RunnerOK

\* A worker that has not been let through, or answers, and writes no row.
LEMMA NoWriteIsOK ==
  ASSUME RunInv, NEW c \in Callers, NEW o \in Ops,
         caller' \in [Callers -> Contexts],
         \A d \in Callers \ {c} : caller'[d] = caller[d],
         caller'[c].pc # "idle" => caller'[c].op = o,
         ~Runs(c)',
         UNCHANGED <<envVars, exec, job, receipts, hostVars, launches>>,
         journal' \in [Ops -> [fence : 0..MaxFence, source : Sources \cup {None}]]
  PROVE  Touches(c, o) /\ LeavesOK(c, o)
<1>1. \A p : RowsKept(p)
  BY DEF RowsKept
<1>2. Touches(c, o)
  BY <1>1 DEF Touches, hostVars
<1>3. OperationAt(o)'
  BY <1>1, KeptOperation DEF RunInv, OperationOK
<1>4. RowsTypeOK'
  BY DEF RunInv, RowsTypeOK, envVars, hostVars
<1>5. QED  BY <1>2, <1>3, <1>4 DEF LeavesOK

LEMMA BeginIsOK ==
  ASSUME RunInv, NEW c \in Callers, NEW o \in Ops, Begin(c, o)
  PROVE  Touches(c, o) /\ LeavesOK(c, o)
<1>1. /\ caller' \in [Callers -> Contexts]
      /\ \A d \in Callers \ {c} : caller'[d] = caller[d]
      /\ caller'[c].pc = "journal" /\ caller'[c].op = o
  BY FenceAssumption DEF Begin, RunInv, RowsTypeOK, Contexts, Steps
<1>2. ~Runs(c)'
  BY <1>1 DEF Runs, Running, Entering
<1>3. /\ UNCHANGED <<envVars, exec, job, receipts, hostVars, launches>>
      /\ journal' \in [Ops -> [fence : 0..MaxFence, source : Sources \cup {None}]]
  BY DEF Begin, RunInv, RowsTypeOK
<1>4. QED  BY <1>1, <1>2, <1>3, NoWriteIsOK

LEMMA AppendJournalIsOK ==
  ASSUME RunInv, NEW c \in Callers, NEW o, o = caller[c].op, AppendJournal(c)
  PROVE  Touches(c, o) /\ LeavesOK(c, o)
<1>1. caller[c].pc = "journal" /\ o \in Ops
  BY OwnOperation DEF AppendJournal, At
<1>2. [fence |-> caller[c].fence, source |-> caller[c].source]
         \in [fence : 0..MaxFence, source : Sources \cup {None}]
  BY DEF RunInv, RowsTypeOK, Contexts
<1>3. journal' \in [Ops -> [fence : 0..MaxFence, source : Sources \cup {None}]]
  BY <1>1, <1>2 DEF AppendJournal, RunInv, RowsTypeOK
<1>4. UNCHANGED <<envVars, exec, job, receipts, hostVars, launches>>
  BY DEF AppendJournal
<1>5. CASE Stop(c)
  BY <1>1, <1>3, <1>4, <1>5, Answers, NoWriteIsOK
<1>6. CASE Go(c, "admit")
  <2>1. /\ caller' \in [Callers -> Contexts]
        /\ \A d \in Callers \ {c} : caller'[d] = caller[d]
        /\ caller'[c].pc = "admit" /\ caller'[c].op = o
    BY <1>6, GoesOn DEF Steps
  <2>2. ~Runs(c)'
    BY <2>1 DEF Runs, Running, Entering
  <2>3. QED  BY <1>1, <1>3, <1>4, <2>1, <2>2, NoWriteIsOK
<1>7. QED  BY <1>5, <1>6 DEF AppendJournal

\* The step leaves the execution e, the job j and the launch count n for o.
RowsWritten(o, e, j, n) ==
  /\ e \in ExecStates \ {"none"} /\ j \in Jobs(Ops, Outcomes) /\ n \in {0, 1}
  /\ Recorded(o, j, n)
  /\ exec' = [exec EXCEPT ![o] = e]
  /\ job' = [job EXCEPT ![o] = j]
  /\ launches' = [launches EXCEPT ![o] = n]
  /\ UNCHANGED <<envVars, journal, receipts, hostVars>>

\* A runner, or the worker whose admission is fresh, writes the rows of its
\* operation.
LEMMA WriteIsOK ==
  ASSUME RunInv, NEW c \in Callers, NEW o \in Ops, ~ReceiptFor(o),
         NEW e, NEW j, NEW n, RowsWritten(o, e, j, n),
         caller' \in [Callers -> Contexts],
         \A d \in Callers \ {c} : caller'[d] = caller[d],
         caller'[c].pc # "idle" => caller'[c].op = o,
         Runs(c) \/ (Runs(c)' /\ exec[o] = "none"),
         Runs(c)' => RunnerAt(caller'[c].pc, caller'[c].outcome, o, e, j, n)
  PROVE  Touches(c, o) /\ LeavesOK(c, o)
<1> USE DEF RowsWritten
<1>1. exec'[o] = e /\ job'[o] = j /\ launches'[o] = n
  BY DEF RunInv, RowsTypeOK
<1>2. \A p \in Ops \ {o} : RowsKept(p)
  BY DEF RowsKept, RunInv, RowsTypeOK
<1>3. Touches(c, o)
  BY <1>1, <1>2 DEF Touches, hostVars
<1>4. ~ReceiptFor(o)'
  BY DEF ReceiptFor
<1>5. OperationAt(o)'
  BY <1>1, <1>4 DEF OperationAt, ReceiptFor
<1>6. RowsTypeOK'
  BY <1>1 DEF RunInv, RowsTypeOK, envVars, hostVars
<1>7. QED  BY <1>1, <1>3, <1>4, <1>5, <1>6 DEF LeavesOK

LEMMA AdmitExecutionIsOK ==
  ASSUME RunInv, NEW c \in Callers, NEW o, o = caller[c].op, AdmitExecution(c)
  PROVE  Touches(c, o) /\ LeavesOK(c, o)
<1>1. caller[c].pc = "admit" /\ o \in Ops /\ OperationAt(o)
  BY OwnOperation DEF AdmitExecution, At
<1>2. UNCHANGED <<envVars, journal, receipts, hostVars, launches>>
  BY DEF AdmitExecution
<1>3. CASE Stop(c) /\ UNCHANGED <<exec, job>>
  <2>1. journal' \in [Ops -> [fence : 0..MaxFence, source : Sources \cup {None}]]
    BY <1>2 DEF RunInv, RowsTypeOK
  <2>2. QED  BY <1>1, <1>2, <1>3, <2>1, Answers, NoWriteIsOK
<1>4. CASE exec[o] = "none" /\ AdmitFresh(c)
  <2>1. /\ caller' \in [Callers -> Contexts]
        /\ \A d \in Callers \ {c} : caller'[d] = caller[d]
        /\ caller'[c].pc = "prepare" /\ caller'[c].op = o
    BY <1>4, GoesOn DEF Steps, AdmitFresh
  <2>2. Runs(c)'
    BY <2>1 DEF Runs, Running, Entering, Steps
  <2>3. job[o] = NoJob /\ launches[o] = 0 /\ ~ReceiptFor(o)
    BY <1>1, <1>4 DEF OperationAt
  <2>4. /\ exec' = [exec EXCEPT ![o] = "admitted"]
        /\ job' = [job EXCEPT ![o] = JobRow("admitted", None, None)]
    BY <1>4, <2>3, AdmittedRow DEF AdmitFresh
  <2>5. launches' = [launches EXCEPT ![o] = 0]
    BY <1>2, <2>3 DEF RunInv, RowsTypeOK
  <2>6. JobRow("admitted", None, None) \in Jobs(Ops, Outcomes)
    BY <1>1, RowsAreJobs DEF Stages, Transitions
  <2>7. RunnerAt(caller'[c].pc, caller'[c].outcome, o, "admitted", JobRow("admitted", None, None), 0)
    BY <2>1 DEF RunnerAt
  <2>8. RowsWritten(o, "admitted", JobRow("admitted", None, None), 0)
    <3>1. "admitted" \in ExecStates \ {"none"} /\ Recorded(o, JobRow("admitted", None, None), 0)
      BY DEF ExecStates, Recorded
    <3>2. QED  BY <1>2, <2>4, <2>5, <2>6, <3>1 DEF RowsWritten
  <2>9. QED  BY <1>1, <1>4, <2>1, <2>2, <2>3, <2>7, <2>8, WriteIsOK
<1>5. QED  BY <1>3, <1>4 DEF AdmitExecution

LEMMA SameRows ==
  ASSUME RunInv, NEW o \in Ops
  PROVE  /\ exec = [exec EXCEPT ![o] = exec[o]] /\ exec[o] \in ExecStates
         /\ job = [job EXCEPT ![o] = job[o]] /\ job[o] \in Jobs(Ops, Outcomes)
         /\ launches = [launches EXCEPT ![o] = launches[o]]
BY DEF RunInv, RowsTypeOK

\* A step of a runner that leaves rows e, j and n and then answers or goes on.
LEMMA RunnerStepIsOK ==
  ASSUME RunInv, NEW c \in Callers, NEW o, o = caller[c].op, Runs(c),
         NEW e, NEW j, NEW n, RowsWritten(o, e, j, n),
         NEW pc \in Running,
         Stop(c) \/ (Go(c, pc) /\ RunnerAt(pc, caller[c].outcome, o, e, j, n))
  PROVE  Touches(c, o) /\ LeavesOK(c, o)
<1>1. caller[c].pc # "idle"
  BY DEF Runs, Running
<1>2. o \in Ops /\ ~ReceiptFor(o)
  BY <1>1, OwnOperation
<1>3. CASE Stop(c)
  BY <1>2, <1>3, Answers, WriteIsOK
<1>4. CASE Go(c, pc) /\ RunnerAt(pc, caller[c].outcome, o, e, j, n)
  <2>1. /\ caller' \in [Callers -> Contexts]
        /\ \A d \in Callers \ {c} : caller'[d] = caller[d]
        /\ caller'[c].pc = pc /\ caller'[c].op = o /\ caller'[c].outcome = caller[c].outcome
    BY <1>4, GoesOn DEF Running
  <2>2. QED  BY <1>2, <1>4, <2>1, WriteIsOK
<1>5. QED  BY <1>3, <1>4

LEMMA PrepareArtifactsIsOK ==
  ASSUME RunInv, NEW c \in Callers, NEW o, o = caller[c].op, PrepareArtifacts(c)
  PROVE  Touches(c, o) /\ LeavesOK(c, o)
<1>1. caller[c].pc = "prepare" /\ Runs(c)
  BY DEF PrepareArtifacts, At, Runs, Running, Steps, Entering
<1>2. /\ o \in Ops
      /\ exec[o] \in {"admitted", "unknown"} /\ job[o] = JobRow("admitted", None, None) /\ launches[o] = 0
  BY <1>1, OwnOperation DEF RunnerAt
<1>3. PICK pc \in {"acquire", "unknown"} : Go(c, pc)
  BY DEF PrepareArtifacts
<1>4. RowsWritten(o, exec[o], job[o], 0)
  BY <1>2, SameRows DEF PrepareArtifacts, RowsWritten, Recorded
<1>5. pc \in Running /\ RunnerAt(pc, caller[c].outcome, o, exec[o], job[o], 0)
  BY <1>2 DEF RunnerAt, Running, Steps, Entering
<1>6. QED  BY <1>1, <1>3, <1>4, <1>5, RunnerStepIsOK

LEMMA StartAcquisitionIsOK ==
  ASSUME RunInv, NEW c \in Callers, NEW o, o = caller[c].op, StartAcquisition(c)
  PROVE  Touches(c, o) /\ LeavesOK(c, o)
<1>1. caller[c].pc = "acquire" /\ Runs(c)
  BY DEF StartAcquisition, At, Runs, Running, Steps, Entering
<1>2. /\ o \in Ops
      /\ exec[o] \in {"admitted", "unknown"} /\ job[o] = JobRow("admitted", None, None) /\ launches[o] = 0
  BY <1>1, OwnOperation DEF RunnerAt
<1>3. UNCHANGED <<envVars, journal, receipts, hostVars, exec, launches>>
  BY DEF StartAcquisition
<1>4. "effect" \in Running /\ RunnerAt("effect", caller[c].outcome, o, exec[o], JobRow("running", None, None), 0)
  BY <1>2 DEF RunnerAt, Running, Steps, Entering
<1>5. CASE Stop(c) /\ UNCHANGED job
  <2>1. RowsWritten(o, exec[o], job[o], 0)
    BY <1>2, <1>3, <1>5, SameRows DEF RowsWritten, Recorded
  <2>2. QED  BY <1>1, <1>4, <1>5, <2>1, RunnerStepIsOK
<1>6. CASE Go(c, "effect") /\ job' = [job EXCEPT ![o] = Advanced(@, "running", None, None)]
  <2>1. job' = [job EXCEPT ![o] = JobRow("running", None, None)]
    BY <1>2, <1>6, RunningRow
  <2>2. JobRow("running", None, None) \in Jobs(Ops, Outcomes)
    BY <1>2, RowsAreJobs DEF Stages, Transitions
  <2>3. RowsWritten(o, exec[o], JobRow("running", None, None), 0)
    BY <1>2, <1>3, <2>1, <2>2, SameRows DEF RowsWritten, Recorded
  <2>4. QED  BY <1>1, <1>4, <1>6, <2>3, RunnerStepIsOK
<1>7. QED  BY <1>5, <1>6 DEF StartAcquisition

LEMMA MarkSideEffectStartedIsOK ==
  ASSUME RunInv, NEW c \in Callers, NEW o, o = caller[c].op, MarkSideEffectStarted(c)
  PROVE  Touches(c, o) /\ LeavesOK(c, o)
<1>1. caller[c].pc = "effect" /\ Runs(c)
  BY DEF MarkSideEffectStarted, At, Runs, Running, Steps, Entering
<1>2. /\ o \in Ops
      /\ exec[o] \in {"admitted", "unknown"} /\ job[o] = JobRow("running", None, None) /\ launches[o] = 0
  BY <1>1, OwnOperation DEF RunnerAt
<1>3. job' = [job EXCEPT ![o] = JobRow("side_effect_started", o, None)]
  BY <1>2, StartedRow DEF MarkSideEffectStarted
<1>4. JobRow("side_effect_started", o, None) \in Jobs(Ops, Outcomes)
  BY <1>2, RowsAreJobs DEF Stages, Transitions
<1>5. RowsWritten(o, exec[o], JobRow("side_effect_started", o, None), 0)
  <2>1. UNCHANGED <<envVars, journal, exec, receipts, hostVars, launches>>
    BY DEF MarkSideEffectStarted
  <2>2. QED  BY <1>2, <1>3, <1>4, <2>1, SameRows DEF RowsWritten, Recorded
<1>6. "start" \in Running /\ RunnerAt("start", caller[c].outcome, o, exec[o], JobRow("side_effect_started", o, None), 0)
  BY <1>2 DEF RunnerAt, Running, Steps, Entering
<1>7. Stop(c) \/ Go(c, "start")
  BY DEF MarkSideEffectStarted
<1>8. QED  BY <1>1, <1>5, <1>6, <1>7, RunnerStepIsOK

LEMMA StartExecutionIsOK ==
  ASSUME RunInv, NEW c \in Callers, NEW o, o = caller[c].op, StartExecution(c)
  PROVE  Touches(c, o) /\ LeavesOK(c, o)
<1>1. caller[c].pc = "start" /\ Runs(c)
  BY DEF StartExecution, At, Runs, Running, Steps, Entering
<1>2. /\ o \in Ops
      /\ exec[o] \in {"admitted", "unknown"} /\ job[o] = JobRow("side_effect_started", o, None) /\ launches[o] = 0
  BY <1>1, OwnOperation DEF RunnerAt
<1>3. UNCHANGED <<envVars, journal, receipts, hostVars, job, launches>>
  BY DEF StartExecution
<1>4. "launch" \in Running /\ RunnerAt("launch", caller[c].outcome, o, "running", job[o], 0)
  BY <1>2 DEF RunnerAt, Running, Steps, Entering
<1>5. CASE Stop(c) /\ UNCHANGED exec
  <2>1. RowsWritten(o, exec[o], job[o], 0)
    BY <1>2, <1>3, <1>5, SameRows DEF RowsWritten, Recorded
  <2>2. QED  BY <1>1, <1>4, <1>5, <2>1, RunnerStepIsOK
<1>6. CASE Go(c, "launch") /\ exec' = [exec EXCEPT ![o] = "running"]
  <2>1. RowsWritten(o, "running", job[o], 0)
    BY <1>2, <1>3, <1>6, SameRows DEF RowsWritten, Recorded, ExecStates
  <2>2. QED  BY <1>1, <1>4, <1>6, <2>1, RunnerStepIsOK
<1>7. QED  BY <1>5, <1>6 DEF StartExecution

LEMMA LaunchIsOK ==
  ASSUME RunInv, NEW c \in Callers, NEW o, o = caller[c].op, Launch(c)
  PROVE  Touches(c, o) /\ LeavesOK(c, o)
<1>1. caller[c].pc = "launch" /\ Runs(c)
  BY DEF Launch, At, Runs, Running, Steps, Entering
<1>2. /\ o \in Ops
      /\ exec[o] \in {"running", "unknown"} /\ job[o] = JobRow("side_effect_started", o, None) /\ launches[o] = 0
  BY <1>1, OwnOperation DEF RunnerAt
<1>3. UNCHANGED <<envVars, journal, receipts, hostVars, exec, job>>
  BY DEF Launch
<1>4. CASE Go(c, "wait") /\ launches' = [launches EXCEPT ![o] = @ + 1]
  <2>1. RowsWritten(o, exec[o], job[o], 1)
    BY <1>2, <1>3, <1>4, SameRows DEF RowsWritten, Recorded, JobRow
  <2>2. "wait" \in Running /\ RunnerAt("wait", caller[c].outcome, o, exec[o], job[o], 1)
    BY <1>2 DEF RunnerAt, Running, Steps, Entering
  <2>3. QED  BY <1>1, <1>4, <2>1, <2>2, RunnerStepIsOK
<1>5. CASE Go(c, "unknown") /\ UNCHANGED launches
  <2>1. RowsWritten(o, exec[o], job[o], 0)
    BY <1>2, <1>3, <1>5, SameRows DEF RowsWritten, Recorded
  <2>2. "unknown" \in Running /\ RunnerAt("unknown", caller[c].outcome, o, exec[o], job[o], 0)
    BY <1>2 DEF RunnerAt, Running, Steps, Entering
  <2>3. QED  BY <1>1, <1>5, <2>1, <2>2, RunnerStepIsOK
<1>6. QED  BY <1>4, <1>5 DEF Launch

LEMMA AwaitExitIsOK ==
  ASSUME RunInv, NEW c \in Callers, NEW o, o = caller[c].op, AwaitExit(c)
  PROVE  Touches(c, o) /\ LeavesOK(c, o)
<1>1. caller[c].pc = "wait" /\ Runs(c)
  BY DEF AwaitExit, At, Runs, Running, Steps, Entering
<1>2. /\ o \in Ops /\ ~ReceiptFor(o)
      /\ exec[o] \in {"running", "unknown"} /\ job[o] = JobRow("side_effect_started", o, None) /\ launches[o] = 1
  BY <1>1, OwnOperation DEF RunnerAt
<1>3. RowsWritten(o, exec[o], job[o], 1)
  BY <1>2, SameRows DEF AwaitExit, RowsWritten, Recorded, JobRow
<1>4. ASSUME NEW r \in Outcomes, caller' = [caller EXCEPT ![c].pc = "finish", ![c].outcome = r]
      PROVE  Touches(c, o) /\ LeavesOK(c, o)
  <2>1. caller' = [caller EXCEPT ![c] = [caller[c] EXCEPT !.pc = "finish", !.outcome = r]]
    BY <1>4
  <2>2. caller[c] \in Contexts /\ caller \in [Callers -> Contexts]
    BY DEF RunInv, RowsTypeOK
  <2>3. [caller[c] EXCEPT !.pc = "finish", !.outcome = r] \in Contexts
    BY <2>2 DEF Contexts, Steps
  <2>4. /\ caller' \in [Callers -> Contexts]
        /\ \A d \in Callers \ {c} : caller'[d] = caller[d]
        /\ caller'[c].pc = "finish" /\ caller'[c].op = o /\ caller'[c].outcome = r
    BY <2>1, <2>2, <2>3 DEF Contexts
  <2>5. RunnerAt(caller'[c].pc, caller'[c].outcome, o, exec[o], job[o], 1)
    BY <1>2, <2>4 DEF RunnerAt
  <2>6. QED  BY <1>1, <1>2, <1>3, <2>4, <2>5, WriteIsOK
<1>5. CASE Go(c, "unknown")
  <2>1. "unknown" \in Running /\ RunnerAt("unknown", caller[c].outcome, o, exec[o], job[o], 1)
    BY <1>2 DEF RunnerAt, Running, Steps, Entering
  <2>2. QED  BY <1>1, <1>3, <1>5, <2>1, RunnerStepIsOK
<1>6. QED  BY <1>4, <1>5 DEF AwaitExit

LEMMA FinishExecutionIsOK ==
  ASSUME RunInv, NEW c \in Callers, NEW o, o = caller[c].op, FinishExecution(c)
  PROVE  Touches(c, o) /\ LeavesOK(c, o)
<1>1. caller[c].pc = "finish" /\ Runs(c)
  BY DEF FinishExecution, At, Runs, Running, Steps, Entering
<1>2. /\ o \in Ops /\ caller[c].outcome \in Outcomes
      /\ exec[o] \in {"running", "unknown"} /\ job[o] = JobRow("side_effect_started", o, None) /\ launches[o] = 1
  BY <1>1, OwnOperation DEF RunnerAt
<1>3. UNCHANGED <<envVars, journal, receipts, hostVars, job, launches>>
  BY DEF FinishExecution
<1>4. "readback" \in Running /\ RunnerAt("readback", caller[c].outcome, o, "exited", job[o], 1)
  BY <1>2 DEF RunnerAt, Running, Steps, Entering
<1>5. CASE Stop(c) /\ UNCHANGED exec
  <2>1. RowsWritten(o, exec[o], job[o], 1)
    BY <1>2, <1>3, <1>5, SameRows DEF RowsWritten, Recorded, JobRow
  <2>2. QED  BY <1>1, <1>4, <1>5, <2>1, RunnerStepIsOK
<1>6. CASE Go(c, "readback") /\ exec' = [exec EXCEPT ![o] = "exited"]
  <2>1. RowsWritten(o, "exited", job[o], 1)
    BY <1>2, <1>3, <1>6, SameRows DEF RowsWritten, Recorded, JobRow, ExecStates
  <2>2. QED  BY <1>1, <1>4, <1>6, <2>1, RunnerStepIsOK
<1>7. QED  BY <1>5, <1>6 DEF FinishExecution

LEMMA FinishReadbackIsOK ==
  ASSUME RunInv, NEW c \in Callers, NEW o, o = caller[c].op, FinishReadback(c)
  PROVE  Touches(c, o) /\ LeavesOK(c, o)
<1>1. caller[c].pc = "readback" /\ Runs(c)
  BY DEF FinishReadback, At, Runs, Running, Steps, Entering
<1>2. /\ o \in Ops /\ caller[c].outcome \in Outcomes
      /\ exec[o] \in {"exited", "unknown"} /\ job[o] = JobRow("side_effect_started", o, None) /\ launches[o] = 1
  BY <1>1, OwnOperation DEF RunnerAt
<1>3. job' = [job EXCEPT ![o] = JobRow("readback_required", o, None)] /\ Go(c, "check")
  BY <1>2, ReadbackRow DEF FinishReadback
<1>4. JobRow("readback_required", o, None) \in Jobs(Ops, Outcomes)
  BY <1>2, RowsAreJobs DEF Stages, Transitions
<1>5. RowsWritten(o, exec[o], JobRow("readback_required", o, None), 1)
  BY <1>2, <1>3, <1>4, SameRows DEF FinishReadback, RowsWritten, Recorded, JobRow
<1>6. "check" \in Running /\ RunnerAt("check", caller[c].outcome, o, exec[o], JobRow("readback_required", o, None), 1)
  BY <1>2 DEF RunnerAt, Running, Steps, Entering
<1>7. QED  BY <1>1, <1>3, <1>5, <1>6, RunnerStepIsOK

LEMMA MarkUnknownIsOK ==
  ASSUME RunInv, NEW c \in Callers, NEW o, o = caller[c].op, MarkUnknown(c)
  PROVE  Touches(c, o) /\ LeavesOK(c, o)
<1>1. caller[c].pc = "unknown" /\ Runs(c)
  BY DEF MarkUnknown, At, Runs, Running, Steps, Entering
<1>2. /\ o \in Ops /\ OperationAt(o)
      /\ exec[o] \in {"admitted", "running", "unknown"}
      /\ RunnerAt("unknown", caller[c].outcome, o, exec[o], job[o], launches[o])
  BY <1>1, OwnOperation DEF RunnerAt
<1>3. Go(c, "settle") /\ exec' = [exec EXCEPT ![o] = "unknown"]
  BY <1>2 DEF MarkUnknown
<1>4. RowsWritten(o, "unknown", job[o], launches[o])
  BY <1>2, <1>3, SameRows DEF MarkUnknown, RowsWritten, OperationAt, ExecStates
<1>5. "settle" \in Running /\ RunnerAt("settle", caller[c].outcome, o, "unknown", job[o], launches[o])
  BY <1>2 DEF RunnerAt, Running, Steps, Entering
<1>6. QED  BY <1>1, <1>3, <1>4, <1>5, RunnerStepIsOK

LEMMA SettleJobIsOK ==
  ASSUME RunInv, NEW c \in Callers, NEW o, o = caller[c].op, SettleJob(c)
  PROVE  Touches(c, o) /\ LeavesOK(c, o)
<1>1. caller[c].pc = "settle" /\ Runs(c)
  BY DEF SettleJob, At, Runs, Running, Steps, Entering
<1>2. /\ o \in Ops
      /\ \/ job[o] = JobRow("admitted", None, None) /\ launches[o] = 0
         \/ job[o] = JobRow("side_effect_started", o, None) /\ launches[o] \in {0, 1}
      /\ exec[o] \in {"admitted", "running", "unknown"}
  BY <1>1, OwnOperation DEF RunnerAt
<1>3. UNCHANGED <<envVars, journal, receipts, hostVars, exec, launches>> /\ Stop(c)
  BY DEF SettleJob
<1>4. PICK j : j = ToReadback(job[o], o)
  OBVIOUS
<1>5. job' = [job EXCEPT ![o] = j]
  BY <1>4 DEF SettleJob
<1>6. CASE job[o] = JobRow("admitted", None, None) /\ launches[o] = 0
  <2>1. j = JobRow("failed", None, None)
    BY <1>2, <1>4, <1>6, FailedRow
  <2>2. j \in Jobs(Ops, Outcomes)
    BY <1>2, <2>1, RowsAreJobs DEF Stages, Transitions
  <2>3. RowsWritten(o, exec[o], j, launches[o])
    BY <1>2, <1>3, <1>5, <1>6, <2>2, SameRows DEF RowsWritten, Recorded
  <2>4. QED  BY <1>1, <1>3, <2>3, RunnerStepIsOK DEF Runs
<1>7. CASE job[o] = JobRow("side_effect_started", o, None) /\ launches[o] \in {0, 1}
  <2>1. j = JobRow("readback_required", o, None)
    BY <1>2, <1>4, <1>7, ReadbackRow
  <2>2. j \in Jobs(Ops, Outcomes)
    BY <1>2, <2>1, RowsAreJobs DEF Stages, Transitions
  <2>3. RowsWritten(o, exec[o], j, launches[o])
    BY <1>2, <1>3, <1>5, <1>7, <2>1, <2>2, SameRows DEF RowsWritten, Recorded, JobRow
  <2>4. QED  BY <1>1, <1>3, <2>3, RunnerStepIsOK DEF Runs
<1>8. QED  BY <1>2, <1>6, <1>7

LEMMA CheckContextIsOK ==
  ASSUME RunInv, NEW c \in Callers, NEW o, o = caller[c].op, CheckContext(c)
  PROVE  Touches(c, o) /\ LeavesOK(c, o)
<1>1. caller[c].pc = "check" /\ Runs(c)
  BY DEF CheckContext, At, Runs, Running, Steps, Entering
<1>2. /\ o \in Ops /\ OperationAt(o)
      /\ exec[o] \in {"exited", "unknown"}
      /\ RunnerAt("check", caller[c].outcome, o, exec[o], job[o], launches[o])
  BY <1>1, OwnOperation DEF RunnerAt
<1>3. RowsWritten(o, exec[o], job[o], launches[o])
  BY <1>2, SameRows DEF CheckContext, RowsWritten, OperationAt
<1>4. "reconcile" \in Running /\ RunnerAt("reconcile", caller[c].outcome, o, exec[o], job[o], launches[o])
  BY <1>2 DEF RunnerAt, Running, Steps, Entering
<1>5. Stop(c) \/ Go(c, "reconcile")
  BY DEF CheckContext
<1>6. QED  BY <1>1, <1>3, <1>4, <1>5, RunnerStepIsOK

LEMMA ReconcileJobIsOK ==
  ASSUME RunInv, NEW c \in Callers, NEW o, o = caller[c].op, ReconcileJob(c)
  PROVE  Touches(c, o) /\ LeavesOK(c, o)
<1>1. caller[c].pc = "reconcile" /\ Runs(c)
  BY DEF ReconcileJob, At, Runs, Running, Steps, Entering
<1>2. /\ o \in Ops /\ caller[c].outcome \in Outcomes
      /\ exec[o] \in {"exited", "unknown"} /\ job[o] = JobRow("readback_required", o, None) /\ launches[o] = 1
  BY <1>1, OwnOperation DEF RunnerAt
<1>3. ToReadback(job[o], o) = job[o]
  BY <1>2, ReadbackRow
<1>4. PICK j : j = JobRow("reconciled", o, caller[c].outcome)
  OBVIOUS
<1>5. job' = [job EXCEPT ![o] = j] /\ Go(c, "insert")
  BY <1>2, <1>3, <1>4, ReconciledRow DEF ReconcileJob
<1>6. j \in Jobs(Ops, Outcomes)
  BY <1>2, <1>4, RowsAreJobs DEF Stages, Transitions
<1>7. RowsWritten(o, exec[o], j, 1)
  BY <1>2, <1>4, <1>5, <1>6, SameRows DEF ReconcileJob, RowsWritten, Recorded, JobRow
<1>8. "insert" \in Running /\ RunnerAt("insert", caller[c].outcome, o, exec[o], j, 1)
  BY <1>2, <1>4 DEF RunnerAt, Running, Steps, Entering
<1>9. QED  BY <1>1, <1>5, <1>7, <1>8, RunnerStepIsOK

LEMMA InsertReceiptIsOK ==
  ASSUME RunInv, NEW c \in Callers, NEW o, o = caller[c].op, InsertReceipt(c)
  PROVE  Touches(c, o) /\ LeavesOK(c, o)
<1>1. caller[c].pc = "insert" /\ Runs(c)
  BY DEF InsertReceipt, At, Runs, Running, Steps, Entering
<1>2. /\ o \in Ops /\ ~ReceiptFor(o) /\ OperationAt(o) /\ caller[c].outcome \in Outcomes
      /\ exec[o] \in {"exited", "unknown"}
  BY <1>1, OwnOperation DEF RunnerAt
<1>3. UNCHANGED <<envVars, journal, job, hostVars, launches>> /\ Stop(c)
  BY DEF InsertReceipt
<1>4. /\ caller' \in [Callers -> Contexts]
      /\ \A d \in Callers \ {c} : caller'[d] = caller[d]
      /\ caller'[c].pc = "idle" /\ ~Runs(c)'
  BY <1>3, Answers
<1>5. CASE UNCHANGED <<receipts, exec>>
  <2>1. journal' \in [Ops -> [fence : 0..MaxFence, source : Sources \cup {None}]]
    BY <1>3 DEF RunInv, RowsTypeOK
  <2>2. QED  BY <1>2, <1>3, <1>4, <1>5, <2>1, NoWriteIsOK
<1>6. CASE ~UNCHANGED <<receipts, exec>>
  <2>1. PICK r : r = Receipt(o, caller[c].fence, caller[c].source,
                             IF ReceiptAcceptable(c) THEN caller[c].outcome ELSE "rejected")
    OBVIOUS
  <2>2. /\ receipts' = Append(receipts, r)
        /\ exec' = [exec EXCEPT ![o] = IF @ = "exited" THEN "receipt_committed" ELSE @]
    BY <1>6, <2>1 DEF InsertReceipt
  <2>3. r \in ReceiptRows /\ r.op = o
    BY <1>2, <2>1 DEF Receipt, ReceiptRows, RunInv, RowsTypeOK, Contexts
  <2>4. /\ DOMAIN receipts' = DOMAIN receipts \cup {Len(receipts) + 1}
        /\ receipts'[Len(receipts) + 1] = r
        /\ \A i \in DOMAIN receipts : receipts'[i] = receipts[i]
        /\ receipts' \in Seq(ReceiptRows)
    BY <2>2, <2>3 DEF RunInv, RowsTypeOK
  <2>5. /\ exec'[o] = IF exec[o] = "exited" THEN "receipt_committed" ELSE exec[o]
        /\ \A p \in Ops \ {o} : exec'[p] = exec[p]
        /\ exec' \in [Ops -> ExecStates]
    BY <1>2, <2>2 DEF RunInv, RowsTypeOK, ExecStates
  <2>6. \A p \in Ops \ {o} : RowsKept(p)
    BY <1>3, <2>3, <2>4, <2>5 DEF RowsKept
  <2>7. Touches(c, o)
    BY <1>1, <1>2, <1>3, <1>4, <2>5, <2>6 DEF Touches, hostVars
  <2>8. r.result \in Outcomes => exec[o] = "exited"
    BY <2>1 DEF Receipt, ReceiptAcceptable, Outcomes
  <2>9. OperationAt(o)'
    <3>1. exec'[o] # "none" /\ launches'[o] \in {0, 1} /\ Recorded(o, job'[o], launches'[o])
      BY <1>2, <1>3, <2>5 DEF OperationAt
    <3>2. ASSUME NEW i \in DOMAIN receipts', receipts'[i].op = o, receipts'[i].result \in Outcomes
          PROVE  exec'[o] = "receipt_committed"
      BY <1>2, <2>4, <2>5, <2>8, <3>2 DEF ReceiptFor
    <3>3. QED  BY <3>1, <3>2 DEF OperationAt
  <2>10. RowsTypeOK'
    BY <1>3, <1>4, <2>4, <2>5 DEF RunInv, RowsTypeOK, envVars, hostVars
  <2>11. QED  BY <1>4, <2>7, <2>9, <2>10 DEF LeavesOK
<1>7. QED  BY <1>5, <1>6

LEMMA CallerStepKeepsInv ==
  ASSUME RunInv, NEW c \in Callers, CallerStep(c)
  PROVE  RunInv'
<1>1. PICK o : o = caller[c].op
  OBVIOUS
<1>2. caller[c].pc # "idle"
  BY DEF CallerStep, At, AppendJournal, AdmitExecution, PrepareArtifacts, StartAcquisition,
         MarkSideEffectStarted, StartExecution, Launch, AwaitExit, FinishExecution, FinishReadback,
         MarkUnknown, SettleJob, CheckContext, ReconcileJob, InsertReceipt
<1>3. o \in Ops
  BY <1>1, <1>2, OwnOperation
<1>4. Touches(c, o) /\ LeavesOK(c, o)
  <2>1. CASE AppendJournal(c)          BY <1>1, <2>1, AppendJournalIsOK
  <2>2. CASE AdmitExecution(c)         BY <1>1, <2>2, AdmitExecutionIsOK
  <2>3. CASE PrepareArtifacts(c)       BY <1>1, <2>3, PrepareArtifactsIsOK
  <2>4. CASE StartAcquisition(c)       BY <1>1, <2>4, StartAcquisitionIsOK
  <2>5. CASE MarkSideEffectStarted(c)  BY <1>1, <2>5, MarkSideEffectStartedIsOK
  <2>6. CASE StartExecution(c)         BY <1>1, <2>6, StartExecutionIsOK
  <2>7. CASE Launch(c)                 BY <1>1, <2>7, LaunchIsOK
  <2>8. CASE AwaitExit(c)              BY <1>1, <2>8, AwaitExitIsOK
  <2>9. CASE FinishExecution(c)        BY <1>1, <2>9, FinishExecutionIsOK
  <2>10. CASE FinishReadback(c)        BY <1>1, <2>10, FinishReadbackIsOK
  <2>11. CASE MarkUnknown(c)           BY <1>1, <2>11, MarkUnknownIsOK
  <2>12. CASE SettleJob(c)             BY <1>1, <2>12, SettleJobIsOK
  <2>13. CASE CheckContext(c)          BY <1>1, <2>13, CheckContextIsOK
  <2>14. CASE ReconcileJob(c)          BY <1>1, <2>14, ReconcileJobIsOK
  <2>15. CASE InsertReceipt(c)         BY <1>1, <2>15, InsertReceiptIsOK
  <2>16. QED
    BY <2>1, <2>2, <2>3, <2>4, <2>5, <2>6, <2>7, <2>8, <2>9, <2>10, <2>11, <2>12, <2>13, <2>14,
       <2>15 DEF CallerStep
<1>5. QED  BY <1>1, <1>3, <1>4, MoveKeepsInv

-----------------------------------------------------------------------------
(* The steps of the work item and of the hosts.                            *)

\* What changes only the attempt and the submission concerns no run.
LEMMA OutsideKeepsRuns ==
  ASSUME RunInv, UNCHANGED <<exec, job, receipts, caller, host, launches>>, RowsTypeOK'
  PROVE  RunInv'
<1>1. BusyOK' /\ OneRunner' /\ TodoOK'
  BY DEF RunInv, BusyOK, OneRunner, Runs, TodoOK
<1>2. RunnerOK' /\ OperationOK'
  BY DEF RunInv, RunnerOK, Runs, ReceiptFor, OperationOK, OperationAt
<1>3. QED  BY <1>1, <1>2 DEF RunInv

LEMMA WorkStepKeepsInv ==
  ASSUME RunInv, WorkStep
  PROVE  RunInv'
<1>1. UNCHANGED <<journal, exec, job, receipts, caller, hostVars, launches>>
  BY DEF WorkStep, BindResult, Seal, Close, LeaseElapses, EndAttempt, Claim
<1>2. SubmissionReceipts \in SUBSET Ops
  <2>1. \A x \in ToSet(receipts) : x \in ReceiptRows
    BY DEF ToSet, RunInv, RowsTypeOK
  <2>2. QED  BY <2>1 DEF SubmissionReceipts, ReceiptRows
<1>3. /\ attempt' \in [fence : 1..MaxFence, phase : {"running", "submitted", "ended", "closed"},
                       live : BOOLEAN, source : Sources \cup {None}]
      /\ sealed' \in [source : Sources \cup {None}, receipts : SUBSET Ops]
  <2> USE DEF RunInv, RowsTypeOK
  <2>1. CASE \E s \in Sources : BindResult(s)
    BY <2>1 DEF BindResult
  <2>2. CASE Seal
    BY <1>2, <2>2 DEF Seal
  <2>3. CASE Close
    BY <2>3 DEF Close
  <2>4. CASE LeaseElapses
    BY <2>4 DEF LeaseElapses
  <2>5. CASE EndAttempt
    BY <2>5 DEF EndAttempt, NoSubmission
  <2>6. CASE Claim
    BY <2>6, FenceAssumption DEF Claim
  <2>7. QED  BY <2>1, <2>2, <2>3, <2>4, <2>5, <2>6 DEF WorkStep
<1>4. RowsTypeOK'
  BY <1>1, <1>3 DEF RunInv, RowsTypeOK, hostVars
<1>5. QED  BY <1>1, <1>4, OutsideKeepsRuns DEF hostVars

\* A crash drops every worker and no row.
LEMMA CrashKeepsInv ==
  ASSUME RunInv, Crash
  PROVE  RunInv'
<1>1. \A c \in Callers : caller'[c] = Idle /\ ~Runs(c)'
  BY DEF Crash, Runs, Running, Idle
<1>2. RowsTypeOK'
  <2>1. Idle \in Contexts
    BY FenceAssumption DEF Idle, Contexts, Steps
  <2>2. caller' \in [Callers -> Contexts]
    BY <2>1 DEF Crash
  <2>3. host' \in [up : BOOLEAN, starting : BOOLEAN, early : BOOLEAN, todo : SUBSET Ops]
    BY DEF Crash, RunInv, RowsTypeOK
  <2>4. crashes' \in 0..MaxCrashes
    BY FenceAssumption DEF Crash, RunInv, RowsTypeOK
  <2>5. QED  BY <2>2, <2>3, <2>4 DEF Crash, RunInv, RowsTypeOK, envVars
<1>3. BusyOK' /\ OneRunner' /\ RunnerOK'
  BY <1>1 DEF BusyOK, OneRunner, RunnerOK, Idle
<1>4. OperationOK'
  BY DEF Crash, RunInv, OperationOK, OperationAt, ReceiptFor
<1>5. TodoOK'
  BY DEF Crash, RunInv, TodoOK, RowsTypeOK
<1>6. QED  BY <1>2, <1>3, <1>4, <1>5 DEF RunInv

\* A recovery that runs while a predecessor serves changes the execution of a
\* runner to unknown, which every program counter allows.
LEMMA RecoverKeepsInv ==
  ASSUME RunInv, NEW o \in Ops, RecoverExecution(o)
  PROVE  RunInv'
<1>1. UNCHANGED <<envVars, journal, job, receipts, caller, crashes, launches>>
  BY DEF RecoverExecution
<1>2. exec[o] # "none" /\ o \in host.todo
  BY DEF RecoverExecution, RunInv, TodoOK
<1>3. exec' \in [Ops -> ExecStates] /\ host'.todo \in SUBSET host.todo
  <2>1. exec' \in [Ops -> ExecStates]
    BY DEF RecoverExecution, RunInv, RowsTypeOK, ExecStates
  <2>2. host'.todo = {} \/ host'.todo = host.todo \ {o}
    BY DEF RecoverExecution, RunInv, RowsTypeOK
  <2>3. QED  BY <2>1, <2>2
<1>4. RowsTypeOK'
  <2>1. host' \in [up : BOOLEAN, starting : BOOLEAN, early : BOOLEAN, todo : SUBSET Ops]
    <3>1. host \in [up : BOOLEAN, starting : BOOLEAN, early : BOOLEAN, todo : SUBSET Ops]
      BY DEF RunInv, RowsTypeOK
    <3>2. CASE host' = [host EXCEPT !.starting = FALSE, !.early = FALSE, !.todo = {}]
      BY <3>1, <3>2
    <3>3. CASE host' = [host EXCEPT !.todo = @ \ {o}]
      <4>1. host.todo \ {o} \in SUBSET Ops
        BY <3>1
      <4>2. QED  BY <3>1, <3>3, <4>1
    <3>4. QED  BY <3>2, <3>3 DEF RecoverExecution
  <2>2. QED  BY <1>1, <1>3, <2>1 DEF RunInv, RowsTypeOK, envVars
<1>5. \A p \in Ops : exec'[p] = exec[p]
                     \/ (exec'[p] = "unknown" /\ exec[p] # "none" /\ exec[p] # "receipt_committed")
  BY <1>2 DEF RecoverExecution, RunInv, RowsTypeOK
<1>6. BusyOK' /\ OneRunner'
  BY <1>1 DEF RunInv, BusyOK, OneRunner, Runs
<1>7. RunnerOK'
  <2> SUFFICES ASSUME NEW c \in Callers, Runs(c), NEW p, p = caller[c].op
               PROVE  /\ RunnerAt(caller[c].pc, caller[c].outcome, p, exec'[p], job[p], launches[p])
                      /\ ~ReceiptFor(p)'
    BY <1>1 DEF RunnerOK, Runs
  <2>1. p \in Ops /\ ~ReceiptFor(p)
        /\ RunnerAt(caller[c].pc, caller[c].outcome, p, exec[p], job[p], launches[p])
    BY OwnOperation DEF Runs, Running
  <2>2. RunnerAt(caller[c].pc, caller[c].outcome, p, "unknown", job[p], launches[p])
    BY <2>1 DEF RunnerAt
  <2>3. ~ReceiptFor(p)'
    BY <1>1, <2>1 DEF ReceiptFor
  <2>4. QED  BY <1>5, <2>1, <2>2, <2>3
<1>8. OperationOK'
  <2> SUFFICES ASSUME NEW p \in Ops  PROVE OperationAt(p)'
    BY DEF OperationOK
  <2>1. OperationAt(p)
    BY DEF RunInv, OperationOK
  <2>2. QED  BY <1>1, <1>5, <2>1 DEF OperationAt, ReceiptFor
<1>9. TodoOK'
  BY <1>3, <1>5 DEF RunInv, TodoOK, RowsTypeOK
<1>10. QED  BY <1>4, <1>6, <1>7, <1>8, <1>9 DEF RunInv

LEMMA HostStepKeepsInv ==
  ASSUME RunInv, HostStep
  PROVE  RunInv'
<1>1. CASE StartHost \/ Elect
  <2>1. UNCHANGED <<envVars, journal, exec, job, receipts, caller, crashes, launches>>
    BY <1>1 DEF StartHost, Elect
  <2>2. host'.todo = {} \/ host'.todo = Incomplete
    <3>1. Elect => host'.todo = {}
      BY DEF Elect
    <3>2. StartHost => host'.todo = Incomplete
      BY DEF StartHost, RunInv, RowsTypeOK
    <3>3. QED  BY <1>1, <3>1, <3>2
  <2>3. host' \in [up : BOOLEAN, starting : BOOLEAN, early : BOOLEAN, todo : SUBSET Ops]
    <3>1. Incomplete \in SUBSET Ops
      BY DEF Incomplete
    <3>2. CASE StartHost
      BY <3>1, <3>2 DEF StartHost, RunInv, RowsTypeOK
    <3>3. CASE Elect
      BY <3>3 DEF Elect, RunInv, RowsTypeOK
    <3>4. QED  BY <1>1, <3>2, <3>3
  <2>4. RowsTypeOK'
    BY <2>1, <2>3 DEF RunInv, RowsTypeOK, envVars
  <2>5. BusyOK' /\ OneRunner' /\ RunnerOK' /\ OperationOK'
    BY <2>1 DEF RunInv, BusyOK, OneRunner, Runs, RunnerOK, ReceiptFor, OperationOK, OperationAt
  <2>6. TodoOK'
    BY <2>1, <2>2 DEF Incomplete, TodoOK
  <2>7. QED  BY <2>5, <2>6, <2>4 DEF RunInv
<1>2. QED  BY <1>1, RecoverKeepsInv DEF HostStep

LEMMA RunInvInit == Init => RunInv
<1> SUFFICES ASSUME Init PROVE RunInv
  OBVIOUS
<1>1. \A c \in Callers : caller[c] = Idle /\ ~Runs(c)
  BY DEF Init, Idle, Runs, Running
<1>2. RowsTypeOK
  <2>1. Idle \in Contexts /\ NoJob \in Jobs(Ops, Outcomes)
    BY FenceAssumption DEF Idle, Contexts, Steps, NoJob, Jobs, Stages, Transitions, None
  <2>2. QED  BY <2>1, FenceAssumption DEF Init, RowsTypeOK, NoSubmission, ExecStates
<1>3. BusyOK /\ OneRunner /\ RunnerOK
  BY <1>1 DEF BusyOK, OneRunner, RunnerOK, Idle
<1>4. OperationOK /\ TodoOK
  BY DEF Init, OperationOK, OperationAt, ReceiptFor, Recorded, TodoOK
<1>5. QED  BY <1>2, <1>3, <1>4 DEF RunInv

LEMMA RunInvNext == RunInv /\ [Next]_vars => RunInv'
<1> SUFFICES ASSUME RunInv, [Next]_vars PROVE RunInv'
  OBVIOUS
<1>1. CASE WorkStep
  BY <1>1, WorkStepKeepsInv
<1>2. ASSUME NEW c \in Callers, NEW o \in Ops, Begin(c, o)  PROVE RunInv'
  <2>1. caller[c].pc = "idle"
    BY <1>2 DEF Begin, At
  <2>2. QED  BY <1>2, <2>1, BeginIsOK, MoveKeepsInv
<1>3. ASSUME NEW c \in Callers, CallerStep(c)  PROVE RunInv'
  BY <1>3, CallerStepKeepsInv
<1>4. CASE Crash
  BY <1>4, CrashKeepsInv
<1>5. CASE HostStep
  BY <1>5, HostStepKeepsInv
<1>6. CASE UNCHANGED vars
  <2>1. UNCHANGED <<exec, job, receipts, caller, host, launches>>
    BY <1>6 DEF vars, hostVars
  <2>2. RowsTypeOK'
    BY <1>6 DEF vars, envVars, hostVars, RunInv, RowsTypeOK
  <2>3. QED  BY <2>1, <2>2, OutsideKeepsRuns
<1>7. QED  BY <1>1, <1>2, <1>3, <1>4, <1>5, <1>6 DEF Next

LEMMA RunInvHolds == Spec => []RunInv
BY RunInvInit, RunInvNext, PTL DEF Spec

-----------------------------------------------------------------------------
(* The theorems.                                                           *)

\* Whatever workers retry, replay, crash or are started again, the verifier of
\* an operation is spawned at most once (evidence_run_result,
\* start_acquisition).
THEOREM LaunchedAtMostOnce == Spec => []AtMostOneLaunch
<1>1. RunInv => AtMostOneLaunch
  BY DEF RunInv, OperationOK, OperationAt, AtMostOneLaunch
<1>2. QED  BY <1>1, RunInvHolds, PTL

\* A verifier process is never spawned before the store can attribute it: its
\* job row names it and is past running, and stays so when the worker or the
\* service dies (start_witnessed_execution, transition_verifier_to_readback).
THEOREM LaunchedIsRecorded == Spec => []LaunchIsRecorded
<1>1. RunInv => LaunchIsRecorded
  BY DEF RunInv, OperationOK, OperationAt, Recorded, LaunchIsRecorded
<1>2. QED  BY <1>1, RunInvHolds, PTL

\* No step takes an execution out of unknown.
LEMMA UnknownStays ==
  ASSUME RunInv, [Next]_vars, NEW o \in Ops, exec[o] = "unknown"
  PROVE  exec'[o] = "unknown"
<1> USE DEF RunInv, RowsTypeOK
<1>1. CASE UNCHANGED exec
  BY <1>1
<1>2. ASSUME NEW c \in Callers, CallerStep(c), exec' # exec  PROVE exec'[o] = "unknown"
  <2>1. CASE AdmitExecution(c)
    BY <2>1 DEF AdmitExecution, AdmitFresh
  <2>2. CASE StartExecution(c)
    BY <2>2 DEF StartExecution
  <2>3. CASE FinishExecution(c)
    BY <2>3 DEF FinishExecution
  <2>4. CASE MarkUnknown(c)
    BY <2>4 DEF MarkUnknown
  <2>5. CASE InsertReceipt(c)
    BY <2>5 DEF InsertReceipt
  <2>6. QED
    BY <1>2, <2>1, <2>2, <2>3, <2>4, <2>5
    DEF CallerStep, AppendJournal, PrepareArtifacts, StartAcquisition, MarkSideEffectStarted,
        Launch, AwaitExit, FinishReadback, SettleJob, CheckContext, ReconcileJob
<1>3. ASSUME NEW p \in Ops, RecoverExecution(p)  PROVE exec'[o] = "unknown"
  BY <1>3 DEF RecoverExecution
<1>4. QED
  BY <1>1, <1>2, <1>3
  DEF Next, WorkStep, BindResult, Seal, Close, LeaseElapses, EndAttempt, Claim, Begin, Crash,
      HostStep, StartHost, Elect, vars

\* A late answer never turns an execution that was declared unknown into
\* proof: it stays unknown, and no receipt of it is or becomes accepted
\* (mark_evidence_execution_unknown against finish_evidence_execution and
\* insert_receipt).
THEOREM UnknownStaysUnknown == Spec => UnknownIsFinal
<1>1. RunInv /\ RunInv' /\ [Next]_vars =>
        \A o \in Ops : exec[o] = "unknown" =>
          /\ exec'[o] = "unknown"
          /\ \A i \in DOMAIN receipts' : receipts'[i].op = o => receipts'[i].result = "rejected"
  <2> SUFFICES ASSUME RunInv, RunInv', [Next]_vars, NEW o \in Ops, exec[o] = "unknown"
               PROVE  /\ exec'[o] = "unknown"
                      /\ \A i \in DOMAIN receipts' :
                           receipts'[i].op = o => receipts'[i].result = "rejected"
    OBVIOUS
  <2>1. exec'[o] = "unknown"
    BY UnknownStays
  <2>2. ASSUME NEW i \in DOMAIN receipts', receipts'[i].op = o  PROVE receipts'[i].result = "rejected"
    <3>1. receipts'[i].result \notin Outcomes
      BY <2>1, <2>2 DEF RunInv, OperationOK, OperationAt
    <3>2. receipts'[i] \in ReceiptRows
      BY DEF RunInv, RowsTypeOK
    <3>3. QED  BY <3>1, <3>2 DEF ReceiptRows
  <2>3. QED  BY <2>1, <2>2
<1>2. QED  BY <1>1, RunInvHolds, PTL DEF Spec, UnknownIsFinal

\* Only the inserting transaction adds a receipt, and only its own.
LEMMA ReceiptsGrowByInsert ==
  ASSUME [Next]_vars, receipts' # receipts
  PROVE  \E c \in Callers : InsertReceipt(c)
BY DEF Next, WorkStep, BindResult, Seal, Close, LeaseElapses, EndAttempt, Claim, Begin, CallerStep,
       AppendJournal, AdmitExecution, PrepareArtifacts, StartAcquisition, MarkSideEffectStarted,
       StartExecution, Launch, AwaitExit, FinishExecution, FinishReadback, MarkUnknown, SettleJob,
       CheckContext, ReconcileJob, Crash, HostStep, StartHost, RecoverExecution, Elect, vars

\* A receipt is accepted only in a state in which its attempt is the provable
\* one and the result it verified is the bound one, for a run that exited and
\* whose job was read back with that outcome (insert_receipt,
\* receipt_acceptance_error, reconcile_verifier_job).
THEOREM AcceptanceIsCurrent == Spec => AcceptedProofIsCurrent
<1> DEFINE Current ==
      \A i \in DOMAIN receipts' \ DOMAIN receipts :
        LET r == receipts'[i]
        IN  r.result \in Outcomes =>
              /\ r.fence = attempt.fence /\ r.source = attempt.source
              /\ attempt.phase \in {"running", "submitted"}
              /\ exec[r.op] = "exited" /\ exec'[r.op] = "receipt_committed"
              /\ job[r.op].stage = "reconciled" /\ job[r.op].digest = r.result
<1>1. RunInv /\ [Next]_vars => Current
  <2> SUFFICES ASSUME RunInv, [Next]_vars, receipts' # receipts PROVE Current
    OBVIOUS
  <2>1. PICK c \in Callers : InsertReceipt(c)
    BY ReceiptsGrowByInsert
  <2>2. PICK o : o = caller[c].op
    OBVIOUS
  <2>3. caller[c].pc = "insert" /\ Runs(c)
    BY <2>1 DEF InsertReceipt, At, Runs, Running, Steps, Entering
  <2>4. /\ o \in Ops /\ caller[c].outcome \in Outcomes
        /\ job[o] = JobRow("reconciled", o, caller[c].outcome)
    BY <2>2, <2>3, OwnOperation DEF RunnerAt
  <2>5. PICK r : r = Receipt(o, caller[c].fence, caller[c].source,
                             IF ReceiptAcceptable(c) THEN caller[c].outcome ELSE "rejected")
    OBVIOUS
  <2>6. /\ receipts' = Append(receipts, r)
        /\ exec' = [exec EXCEPT ![o] = IF @ = "exited" THEN "receipt_committed" ELSE @]
    BY <2>1, <2>2, <2>5 DEF InsertReceipt
  <2>7. \A i \in DOMAIN receipts' \ DOMAIN receipts : receipts'[i] = r
    <3>1. r \in ReceiptRows
      BY <2>4, <2>5 DEF Receipt, ReceiptRows, RunInv, RowsTypeOK, Contexts
    <3>2. receipts \in Seq(ReceiptRows)
      BY DEF RunInv, RowsTypeOK
    <3>3. /\ DOMAIN receipts' = DOMAIN receipts \cup {Len(receipts) + 1}
          /\ receipts'[Len(receipts) + 1] = r
      BY <2>6, <3>1, <3>2
    <3>4. QED  BY <3>3
  <2>8. r.op = o /\ (r.result \in Outcomes =>
          /\ ReceiptAcceptable(c) /\ r.result = caller[c].outcome
          /\ r.fence = caller[c].fence /\ r.source = caller[c].source)
    BY <2>5 DEF Receipt, Outcomes
  <2>9. exec[o] = "exited" => exec'[o] = "receipt_committed"
    BY <2>4, <2>6 DEF RunInv, RowsTypeOK
  <2>10. job[o].stage = "reconciled" /\ job[o].digest = caller[c].outcome
    BY <2>4 DEF JobRow
  <2>11. QED
    BY <2>2, <2>7, <2>8, <2>9, <2>10 DEF ReceiptAcceptable, Provable, BindingMatches
<1>2. QED  BY <1>1, RunInvHolds, PTL DEF Spec, AcceptedProofIsCurrent
=============================================================================
