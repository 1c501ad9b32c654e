---------------------------- MODULE VerifierRun ----------------------------
(***************************************************************************)
(* `evidence run`: a declared verifier is admitted, launched outside the   *)
(* store, and its result is recorded as a receipt that may satisfy the     *)
(* verification gate of the work item under execution.                     *)
(*                                                                         *)
(* Every step of a caller is one transaction of the store or one effect    *)
(* outside it, and the rows it read may have changed before the next one.  *)
(* The service can crash between any two steps.  A host that starts marks  *)
(* every unfinished execution unknown before it asks for the project       *)
(* election, so a second host does that while the first one is serving.    *)
(*                                                                         *)
(* Abstracted: one work item with one verification gate and no review      *)
(* gate, the pinned profile and configuration (never change here), the     *)
(* owner of the attempt (every caller acts for it), the expected project   *)
(* revision (not given), paths, artifacts and timestamps.  A fence stands  *)
(* for the attempt that carries it.                                        *)
(***************************************************************************)
EXTENDS ExternalJob, Naturals, Sequences, FiniteSets, SequencesExt

CONSTANTS
  Callers,      \* dispatch workers that serve `evidence run`
  Ops,          \* operation identifiers the clients use
  Sources,      \* registered workspace snapshots
  MaxFence,     \* bound on the attempts of the work item
  MaxCrashes    \* bound on the crashes of the service

ASSUME FenceAssumption == MaxFence \in Nat \ {0} /\ MaxCrashes \in Nat
ASSUME SourceAssumption == None \notin Sources
ASSUME OpAssumption == None \notin Ops

VARIABLES
  attempt,   \* the latest attempt: its fence, phase, live deadlines, bound result
  sealed,    \* the current submission: its source and receipts
  journal,   \* admission record of each operation
  exec,      \* evidence_execution.state
  job,       \* the external job of each operation
  receipts,  \* receipt rows in insertion order
  caller,    \* program counter and context of each worker
  host,      \* is a host serving, is one starting, what it still has to mark,
             \* and was that list loaded while a predecessor was serving
  crashes,
  launches   \* how often the verifier of each operation was spawned

envVars == <<attempt, sealed>>
hostVars == <<host, crashes>>
vars == <<envVars, journal, exec, job, receipts, caller, hostVars, launches>>

Outcomes == {"passed", "failed"}
ExecStates == {"none", "admitted", "running", "exited", "unknown", "receipt_committed"}
Steps == {"idle", "journal", "admit", "prepare", "acquire", "effect", "start", "launch", "wait",
          "finish", "readback", "check", "reconcile", "insert", "unknown", "settle"}

NoSubmission == [source |-> None, receipts |-> {}]
Idle == [pc |-> "idle", op |-> None, fence |-> 0, source |-> None, outcome |-> None]

\* The job row and the side effect are named after the operation.
SideEffect(o) == o

Receipt(o, fence, source, result) == [op |-> o, fence |-> fence, source |-> source, result |-> result]

TypeOK ==
  /\ attempt \in [fence : 1..MaxFence, phase : {"running", "submitted", "ended", "closed"},
                  live : BOOLEAN, source : Sources \cup {None}]
  /\ sealed \in [source : Sources \cup {None}, receipts : SUBSET Ops]
  /\ journal \in [Ops -> [fence : 0..MaxFence, source : Sources \cup {None}]]
  /\ exec \in [Ops -> ExecStates]
  /\ job \in [Ops -> Jobs(Ops, Outcomes)]
  /\ Len(receipts) <= Cardinality(Ops)
  /\ caller \in [Callers -> [pc : Steps, op : Ops \cup {None}, fence : 0..MaxFence,
                             source : Sources \cup {None}, outcome : Outcomes \cup {None}]]
  /\ host \in [up : BOOLEAN, starting : BOOLEAN, early : BOOLEAN, todo : SUBSET Ops]
  /\ crashes \in 0..MaxCrashes
  /\ launches \in [Ops -> Nat]

Init ==
  /\ attempt = [fence |-> 1, phase |-> "running", live |-> TRUE, source |-> None]
  /\ sealed = NoSubmission
  /\ journal = [o \in Ops |-> [fence |-> 0, source |-> None]]
  /\ exec = [o \in Ops |-> "none"]
  /\ job = [o \in Ops |-> NoJob]
  /\ receipts = <<>>
  /\ caller = [c \in Callers |-> Idle]
  /\ host = [up |-> TRUE, starting |-> FALSE, early |-> FALSE, todo |-> {}]
  /\ crashes = 0
  /\ launches = [o \in Ops |-> 0]

-----------------------------------------------------------------------------
(* The work item the proof is about.                                       *)

ReceiptFor(o) == \E i \in DOMAIN receipts : receipts[i].op = o

\* Receipts of the attempt that name the result bound now, accepted or not.
SubmissionReceipts ==
  {r.op : r \in {x \in ToSet(receipts) : x.fence = attempt.fence /\ x.source = attempt.source}}

\* The newest receipt kept for the gate of this attempt; a rejected receipt
\* names no gate.
GateReceipts == SelectSeq(receipts, LAMBDA r : r.fence = attempt.fence /\ r.result \in Outcomes)

GateSatisfied == GateReceipts # <<>> /\ Last(GateReceipts).result = "passed"

\* A result is bound to the running attempt; it opens a new proof generation.
BindResult(s) ==
  /\ attempt.phase = "running" /\ attempt.live /\ s # attempt.source
  /\ attempt' = [attempt EXCEPT !.source = s]
  /\ UNCHANGED <<sealed, journal, exec, job, receipts, caller, hostVars, launches>>

\* Submitting ends execution ownership; sealing again replaces the candidate.
Seal ==
  /\ attempt.source # None
  /\ \/ attempt.phase = "running" /\ attempt.live
     \/ attempt.phase = "submitted" /\ sealed.receipts # SubmissionReceipts
  /\ sealed' = [source |-> attempt.source, receipts |-> SubmissionReceipts]
  /\ attempt' = [attempt EXCEPT !.phase = "submitted"]
  /\ UNCHANGED <<journal, exec, job, receipts, caller, hostVars, launches>>

Close ==
  /\ attempt.phase = "submitted"
  /\ GateSatisfied
  /\ sealed.receipts = SubmissionReceipts
  /\ attempt' = [attempt EXCEPT !.phase = "closed"]
  /\ UNCHANGED <<sealed, journal, exec, job, receipts, caller, hostVars, launches>>

LeaseElapses ==
  /\ attempt.phase = "running" /\ attempt.live
  /\ attempt' = [attempt EXCEPT !.live = FALSE]
  /\ UNCHANGED <<sealed, journal, exec, job, receipts, caller, hostVars, launches>>

\* A release, an expiry, a returned submission: the attempt proves no more.
EndAttempt ==
  /\ attempt.phase \in {"running", "submitted"}
  /\ attempt' = [attempt EXCEPT !.phase = "ended"]
  /\ sealed' = NoSubmission
  /\ UNCHANGED <<journal, exec, job, receipts, caller, hostVars, launches>>

Claim ==
  /\ attempt.phase = "ended" /\ attempt.fence < MaxFence
  /\ attempt' = [fence |-> attempt.fence + 1, phase |-> "running", live |-> TRUE, source |-> None]
  /\ UNCHANGED <<sealed, journal, exec, job, receipts, caller, hostVars, launches>>

-----------------------------------------------------------------------------
(* Admission.                                                              *)

At(c, pc) == host.up /\ caller[c].pc = pc
Go(c, pc) == caller' = [caller EXCEPT ![c].pc = pc]
Stop(c) == caller' = [caller EXCEPT ![c] = Idle]

\* A completed operation and a known execution are answered without a launch.
Answered(o) == ReceiptFor(o) \/ exec[o] # "none"

\* The running attempt and its bound result become the context of the run.
Begin(c, o) ==
  /\ At(c, "idle")
  /\ ~Answered(o)
  /\ attempt.phase = "running" /\ attempt.source # None
  /\ caller' = [caller EXCEPT ![c] = [pc |-> "journal", op |-> o, fence |-> attempt.fence,
                                       source |-> attempt.source, outcome |-> None]]
  /\ UNCHANGED <<envVars, journal, exec, job, receipts, hostVars, launches>>

\* The attempt of the context is the latest one, executing or submitted.
Provable(c) == caller[c].fence = attempt.fence /\ attempt.phase \in {"running", "submitted"}

BindingMatches(c) == caller[c].source = attempt.source

\* The same admission is journalled once; another one of this operation is a
\* conflict.
Journalled(c) ==
  LET entry == journal[caller[c].op]
  IN  entry = [fence |-> 0, source |-> None]
        \/ entry = [fence |-> caller[c].fence, source |-> caller[c].source]

AppendJournal(c) ==
  /\ At(c, "journal")
  /\ IF Provable(c) /\ attempt.live /\ BindingMatches(c) /\ Journalled(c)
       THEN /\ journal' = [journal EXCEPT ![caller[c].op] =
                             [fence |-> caller[c].fence, source |-> caller[c].source]]
            /\ Go(c, "admit")
       ELSE Stop(c) /\ UNCHANGED journal
  /\ UNCHANGED <<envVars, exec, job, receipts, hostVars, launches>>

\* Checked again in the transaction that writes the execution and its job.
MayAdmit(c) ==
  /\ Provable(c) /\ BindingMatches(c)
  /\ attempt.phase = "running" => attempt.live

AdmitFresh(c) ==
  LET o == caller[c].op
  IN  /\ exec' = [exec EXCEPT ![o] = "admitted"]
      /\ job' = [job EXCEPT ![o] = RegisterAndAdmit(@)]
      /\ Go(c, "prepare")

\* Mutant: a replayed admission writes the rows again.
AdmitExecutionUpserts(c) ==
  LET o == caller[c].op
  IN  /\ At(c, "admit")
      /\ IF MayAdmit(c)
           THEN /\ exec' = [exec EXCEPT ![o] = "admitted"]
                /\ job' = [job EXCEPT ![o] = RegisterAndAdmit(NoJob)]
                /\ Go(c, "prepare")
           ELSE Stop(c) /\ UNCHANGED <<exec, job>>
      /\ UNCHANGED <<envVars, journal, receipts, hostVars, launches>>

\* A replayed admission grants no launch.
AdmitExecution(c) ==
  /\ At(c, "admit")
  /\ IF exec[caller[c].op] = "none" /\ MayAdmit(c)
       THEN AdmitFresh(c)
       ELSE Stop(c) /\ UNCHANGED <<exec, job>>
  /\ UNCHANGED <<envVars, journal, receipts, hostVars, launches>>

-----------------------------------------------------------------------------
(* The run.                                                                *)

PrepareArtifacts(c) ==
  /\ At(c, "prepare")
  /\ \E next \in {"acquire", "unknown"} : Go(c, next)
  /\ UNCHANGED <<envVars, journal, exec, job, receipts, hostVars, launches>>

\* Mutant: the side effect is not recorded before the launch.
StartAcquisitionUnrecorded(c) ==
  LET o == caller[c].op
  IN  /\ At(c, "acquire")
      /\ IF WinsAcquisition(job[o])
           THEN job' = [job EXCEPT ![o] = Advanced(@, "running", None, None)] /\ Go(c, "start")
           ELSE Stop(c) /\ UNCHANGED job
      /\ UNCHANGED <<envVars, journal, exec, receipts, hostVars, launches>>

StartAcquisition(c) ==
  LET o == caller[c].op
  IN  /\ At(c, "acquire")
      /\ IF WinsAcquisition(job[o])
           THEN job' = [job EXCEPT ![o] = Advanced(@, "running", None, None)] /\ Go(c, "effect")
           ELSE Stop(c) /\ UNCHANGED job
      /\ UNCHANGED <<envVars, journal, exec, receipts, hostVars, launches>>

MarkSideEffectStarted(c) ==
  LET o == caller[c].op
  IN  /\ At(c, "effect")
      /\ job' = [job EXCEPT ![o] = MarkStarted(@, SideEffect(o))]
      /\ IF MarkStartedOk(job'[o], SideEffect(o)) THEN Go(c, "start") ELSE Stop(c)
      /\ UNCHANGED <<envVars, journal, exec, receipts, hostVars, launches>>

StartExecution(c) ==
  LET o == caller[c].op
  IN  /\ At(c, "start")
      /\ IF exec[o] = "admitted"
           THEN exec' = [exec EXCEPT ![o] = "running"] /\ Go(c, "launch")
           ELSE Stop(c) /\ UNCHANGED exec
      /\ UNCHANGED <<envVars, journal, job, receipts, hostVars, launches>>

\* The process is spawned, or an error comes before the spawn.
Launch(c) ==
  /\ At(c, "launch")
  /\ \/ Go(c, "wait") /\ launches' = [launches EXCEPT ![caller[c].op] = @ + 1]
     \/ Go(c, "unknown") /\ UNCHANGED launches
  /\ UNCHANGED <<envVars, journal, exec, job, receipts, hostVars>>

\* Exit or timeout gives a result; a broken capture gives none.
AwaitExit(c) ==
  /\ At(c, "wait")
  /\ \/ \E r \in Outcomes :
          caller' = [caller EXCEPT ![c].pc = "finish", ![c].outcome = r]
     \/ Go(c, "unknown")
  /\ UNCHANGED <<envVars, journal, exec, job, receipts, hostVars, launches>>

\* Mutant: the state the execution has now is not looked at.
FinishExecutionAlways(c) ==
  /\ At(c, "finish")
  /\ exec' = [exec EXCEPT ![caller[c].op] = "exited"]
  /\ Go(c, "readback")
  /\ UNCHANGED <<envVars, journal, job, receipts, hostVars, launches>>

FinishExecution(c) ==
  LET o == caller[c].op
  IN  /\ At(c, "finish")
      /\ IF exec[o] = "running"
           THEN exec' = [exec EXCEPT ![o] = "exited"] /\ Go(c, "readback")
           ELSE Stop(c) /\ UNCHANGED exec
      /\ UNCHANGED <<envVars, journal, job, receipts, hostVars, launches>>

\* transition_verifier_to_readback: what an attributable job becomes once the
\* caller knows the run is over, or that it does not know.
ToReadback(j, ref) ==
  CASE j.stage = "admitted" -> Advanced(j, "failed", None, None)
    [] j.stage = "running"  -> MarkReadback(MarkStarted(j, ref), ref)
    [] OTHER                -> MarkReadback(j, ref)

FinishReadback(c) ==
  LET o == caller[c].op
  IN  /\ At(c, "readback")
      /\ job' = [job EXCEPT ![o] = ToReadback(@, SideEffect(o))]
      /\ Go(c, "check")
      /\ UNCHANGED <<envVars, journal, exec, receipts, hostVars, launches>>

MarkUnknown(c) ==
  LET o == caller[c].op
  IN  /\ At(c, "unknown")
      /\ IF exec[o] \in {"admitted", "running", "exited", "unknown"}
           THEN exec' = [exec EXCEPT ![o] = "unknown"] /\ Go(c, "settle")
           ELSE Stop(c) /\ UNCHANGED exec
      /\ UNCHANGED <<envVars, journal, job, receipts, hostVars, launches>>

SettleJob(c) ==
  LET o == caller[c].op
  IN  /\ At(c, "settle")
      /\ job' = [job EXCEPT ![o] = ToReadback(@, SideEffect(o))]
      /\ Stop(c)
      /\ UNCHANGED <<envVars, journal, exec, receipts, hostVars, launches>>

-----------------------------------------------------------------------------
(* The receipt.                                                            *)

CheckContext(c) ==
  /\ At(c, "check")
  /\ IF Provable(c) /\ BindingMatches(c) THEN Go(c, "reconcile") ELSE Stop(c)
  /\ UNCHANGED <<envVars, journal, exec, job, receipts, hostVars, launches>>

ReconcileJob(c) ==
  LET o == caller[c].op
      j == ToReadback(job[o], SideEffect(o))
  IN  /\ At(c, "reconcile")
      /\ IF Resolved(j) \/ ReconcileOk(j, SideEffect(o), caller[c].outcome)
           THEN /\ job' = [job EXCEPT ![o] = IF Resolved(j) THEN j ELSE Reconcile(j, caller[c].outcome)]
                /\ Go(c, "insert")
           ELSE job' = [job EXCEPT ![o] = j] /\ Stop(c)
      /\ UNCHANGED <<envVars, journal, exec, receipts, hostVars, launches>>

\* Mutant: the bound result is not compared again.
ReceiptAcceptableAnySource(c) == Provable(c) /\ exec[caller[c].op] = "exited"

\* The acceptance boundary: what the inserting transaction itself sees.
ReceiptAcceptable(c) ==
  /\ Provable(c) /\ BindingMatches(c)
  /\ exec[caller[c].op] = "exited"

\* A refused receipt is kept as a fact and still completes the operation; a
\* work item that is no longer open keeps nothing.
InsertReceipt(c) ==
  LET o == caller[c].op
      result == IF ReceiptAcceptable(c) THEN caller[c].outcome ELSE "rejected"
  IN  /\ At(c, "insert")
      /\ IF attempt.phase = "closed" \/ ReceiptFor(o)
           THEN UNCHANGED <<receipts, exec>>
           ELSE /\ receipts' = Append(receipts, Receipt(o, caller[c].fence, caller[c].source, result))
                /\ exec' = [exec EXCEPT ![o] = IF @ = "exited" THEN "receipt_committed" ELSE @]
      /\ Stop(c)
      /\ UNCHANGED <<envVars, journal, job, hostVars, launches>>

-----------------------------------------------------------------------------
(* Hosts.                                                                  *)

Crash ==
  /\ host.up /\ crashes < MaxCrashes
  /\ host' = [host EXCEPT !.up = FALSE]
  /\ caller' = [c \in Callers |-> Idle]
  /\ crashes' = crashes + 1
  /\ UNCHANGED <<envVars, journal, exec, job, receipts, launches>>

\* Mutant: executions that were admitted and not started are left out.
IncompleteRunningOnly == {o \in Ops : exec[o] = "running"}

Incomplete == {o \in Ops : exec[o] \notin {"none", "receipt_committed"}}

\* A host loads the unfinished executions first, serving or not.
StartHost ==
  /\ ~host.starting
  /\ host' = [host EXCEPT !.starting = TRUE, !.early = host.up, !.todo = Incomplete]
  /\ UNCHANGED <<envVars, journal, exec, job, receipts, caller, crashes, launches>>

\* An execution that was committed meanwhile refuses the mark and the start.
RecoverExecution(o) ==
  /\ host.starting /\ o \in host.todo
  /\ IF exec[o] = "receipt_committed"
       THEN host' = [host EXCEPT !.starting = FALSE, !.early = FALSE, !.todo = {}] /\ UNCHANGED exec
       ELSE /\ exec' = [exec EXCEPT ![o] = "unknown"]
            /\ host' = [host EXCEPT !.todo = @ \ {o}]
  /\ UNCHANGED <<envVars, journal, job, receipts, caller, crashes, launches>>

\* Only then comes the election: a host that finds an owner gives up.
Elect ==
  /\ host.starting /\ host.todo = {}
  /\ host' = [up |-> TRUE, starting |-> FALSE, early |-> host.early /\ ~host.up, todo |-> {}]
  /\ UNCHANGED <<envVars, journal, exec, job, receipts, caller, crashes, launches>>

-----------------------------------------------------------------------------
WorkStep ==
  \/ \E s \in Sources : BindResult(s)
  \/ Seal
  \/ Close
  \/ LeaseElapses
  \/ EndAttempt
  \/ Claim

CallerStep(c) ==
  \/ AppendJournal(c)
  \/ AdmitExecution(c)
  \/ PrepareArtifacts(c)
  \/ StartAcquisition(c)
  \/ MarkSideEffectStarted(c)
  \/ StartExecution(c)
  \/ Launch(c)
  \/ AwaitExit(c)
  \/ FinishExecution(c)
  \/ FinishReadback(c)
  \/ MarkUnknown(c)
  \/ SettleJob(c)
  \/ CheckContext(c)
  \/ ReconcileJob(c)
  \/ InsertReceipt(c)

HostStep ==
  \/ StartHost
  \/ \E o \in Ops : RecoverExecution(o)
  \/ Elect

Next ==
  \/ WorkStep
  \/ \E c \in Callers, o \in Ops : Begin(c, o)
  \/ \E c \in Callers : CallerStep(c)
  \/ Crash
  \/ HostStep

Spec == Init /\ [][Next]_vars

\* A worker that serves a request goes on, the verifier is bounded by its
\* timeout, and a service that is down is started again.
Fairness ==
  /\ \A c \in Callers : WF_vars(CallerStep(c))
  /\ WF_vars(~host.up /\ StartHost)
  /\ \A o \in Ops : WF_vars(RecoverExecution(o))
  /\ WF_vars(Elect)

FairSpec == Spec /\ Fairness

-----------------------------------------------------------------------------
\* The verifier of an operation is spawned at most once, whatever retries,
\* replays, crashes and restarts happen: admission and acquisition together
\* grant one launch (evidence_run_result, start_acquisition).
AtMostOneLaunch == \A o \in Ops : launches[o] <= 1

\* A process is never spawned before the store can attribute it: its job row
\* names the side effect and stands past running, and a job written off as
\* failed never had a process (start_witnessed_execution,
\* transition_verifier_to_readback).
LaunchIsRecorded ==
  \A o \in Ops : launches[o] > 0 =>
    /\ job[o].ref = SideEffect(o)
    /\ job[o].stage \in {"side_effect_started", "readback_required", "reconciled"}

\* The work item changes while a verifier runs.  A receipt is accepted only
\* in a state in which its attempt still is the provable one and the result
\* it verified still is the bound one, by a run that exited and was read
\* back with that outcome (insert_receipt, receipt_acceptance_error).
AcceptedProofIsCurrent ==
  [][\A i \in DOMAIN receipts' \ DOMAIN receipts :
       LET r == receipts'[i]
       IN  r.result \in Outcomes =>
             /\ r.fence = attempt.fence /\ r.source = attempt.source
             /\ attempt.phase \in {"running", "submitted"}
             /\ exec[r.op] = "exited" /\ exec'[r.op] = "receipt_committed"
             /\ job[r.op].stage = "reconciled" /\ job[r.op].digest = r.result]_vars

\* Once an execution is unknown no late answer turns it into proof: it stays
\* unknown and no receipt of it is accepted (mark_evidence_execution_unknown
\* against a late finish_evidence_execution or insert_receipt).
UnknownIsFinal ==
  [][\A o \in Ops : exec[o] = "unknown" =>
       /\ exec'[o] = "unknown"
       /\ \A i \in DOMAIN receipts' : receipts'[i].op = o => receipts'[i].result = "rejected"]_vars

\* No execution stays admitted or running for ever: its caller or the
\* recovery of the next host settles it, before that host accepts requests
\* (prepare_start, list_incomplete_evidence_executions).  It does not hold:
\* README, section 5.
ExecutionsSettle ==
  \A o \in Ops : exec[o] \in {"admitted", "running"} ~>
                  exec[o] \in {"exited", "unknown", "receipt_committed"}

\* The same promise as far as the code keeps it: it can fail only when the
\* host that took over had loaded its list while its predecessor served.
ExecutionsSettleInOrder ==
  \A o \in Ops : exec[o] \in {"admitted", "running"} ~>
                  \/ exec[o] \in {"exited", "unknown", "receipt_committed"}
                  \/ host.up /\ host.early /\ ~host.starting

\* A closed item was verified: the gate that let it close was passed by the
\* result that was submitted, as the proof selection of the specification
\* demands (acceptance-and-proof.md, steps 1 to 6).
ClosedResultIsVerified ==
  attempt.phase = "closed" =>
    \E r \in ToSet(receipts) :
      r.fence = attempt.fence /\ r.source = sealed.source /\ r.result = "passed"
=============================================================================
