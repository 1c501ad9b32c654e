--------------------------- MODULE Orchestration ---------------------------
(***************************************************************************)
(* Orchestration of one run: the tick that selects, claims and counts work *)
(* for it, the dispatch that launches the harness process of a claim, the  *)
(* daemon with its lease and its recovery, and the operator.  A process is *)
(* a daemon with one worker slot or a CLI call of tick --dispatch-now; the *)
(* operation id of a tick names its claim, its attempt and its job too.    *)
(*                                                                         *)
(* Every mutation is one SQLite transaction that is refused when the       *)
(* project revision it was prepared at is no longer the current one, which *)
(* any other writer of the project can bring about: a fault.  A request    *)
(* that was already committed, with the same id, digest and project        *)
(* revision, is answered as a success all the same, and no caller asks     *)
(* whether it was a replay: the callers that had prepared the same request *)
(* when one of them was committed go on as if each had made it.  The       *)
(* mutation lock of a process only orders its own threads and is left out: *)
(* the model has the orders it forbids too.                                *)
(***************************************************************************)
EXTENDS Naturals, FiniteSets

CONSTANTS
  Works,       \* work items of the project
  Ticks,       \* operation ids of ticks
  CallerTicks, \* those of them that callers of the CLI pass
  Daemons,     \* starts of `orchestrate daemon run`
  Clis,        \* callers of `orchestrate tick --dispatch-now`
  None,
  MaxClaims,   \* max_claims of the run
  MaxFaults    \* bound on refused calls, killed processes and acts of the operator

ASSUME BoundAssumption == MaxClaims \in Nat /\ MaxFaults \in Nat
ASSUME TicksAssumption == IsFiniteSet(Ticks)
ASSUME NoneAssumption ==
  None \notin Works \cup Ticks \cup {"selected", "claimed", "rejected", "accepted", "starting",
                                     "running", "readback_required", "uncertain", "alive", "over"}

VARIABLES
  run,      \* the orchestration_run row with the pin of its selector
  tick,     \* the orchestration_tick rows
  attempt,  \* the attempt each tick's claim made
  closed,   \* work items whose agent finished them
  job,      \* the orchestration_process_job rows
  lease,    \* the orchestration_worker row
  policy,   \* the current policy of the harness, by its digest
  child,    \* the harness processes each caller started for a tick
  orphans,  \* children whose supervisor was killed
  proc,     \* the processes
  stop,     \* RUNTIME_STOP_REQUESTED of each daemon
  faults

vars == <<run, tick, attempt, closed, job, lease, policy, child, orphans, proc, stop, faults>>
world == <<child, orphans>>
daemon == <<lease, stop>>
claims == <<run, tick>>

Procs == Daemons \cup Clis
Idle == [step |-> "idle", tick |-> None, rev |-> 0, work |-> None, policy |-> 0,
         echo |-> FALSE, result |-> None]
Off == [Idle EXCEPT !.step = "off"]
Gone == [Idle EXCEPT !.step = "gone"]
NoTick == [state |-> None, work |-> None, replayed |-> FALSE]
NoAttempt == [phase |-> None, work |-> None, current |-> FALSE]
NoJob == [state |-> None, rev |-> 0]

Init ==
  /\ run = [state |-> "queued", pending |-> None, by |-> None, count |-> 0, rev |-> 1]
  /\ tick = [t \in Ticks |-> NoTick]
  /\ attempt = [t \in Ticks |-> NoAttempt]
  /\ closed = {}
  /\ job = [t \in Ticks |-> NoJob]
  /\ lease = [owner |-> None, state |-> "stopped", rev |-> 0]
  /\ policy = 0
  /\ child = [t \in Ticks |-> [p \in Procs |-> None]]
  /\ orphans = {}
  /\ proc = [p \in Procs |-> IF p \in Daemons THEN Off ELSE Idle]
  /\ stop = [d \in Daemons |-> FALSE]
  /\ faults = 0
-----------------------------------------------------------------------------
At(p, step) == proc[p].step = step
Go(p, step) == proc' = [proc EXCEPT ![p].step = step]
Return(p) == proc' = [proc EXCEPT ![p] = Idle]

\* A call that the store refuses or does not answer.
Fault == faults < MaxFaults /\ faults' = faults + 1
NoFault == UNCHANGED faults

\* p's request is committed and p goes on as next.  Those who have prepared the
\* same request at this revision are the ones whose call is a replay from now on.
Committed(p, next, same) ==
  proc' = [q \in Procs |-> IF q = p THEN next
                          ELSE IF q \in same THEN [proc[q] EXCEPT !.echo = TRUE] ELSE proc[q]]

\* q is about to make, for the same tick and work, the call p makes.
Shares(p, q) == /\ proc[q].step = proc[p].step /\ proc[q].tick = proc[p].tick
                /\ proc[q].work = proc[p].work

Current(t) == attempt[t].current
InPhase(t, phase) == Current(t) /\ attempt[t].phase = phase
Claimable(w) == w \notin closed /\ \A t \in Ticks : attempt[t].work = w => ~Current(t)
Active(t) == job[t].state \in {"starting", "running", "readback_required"}

MayBecome(from) ==
  CASE from = "starting" -> {"running", "failed", "uncertain", "readback_required"}
    [] from = "running" -> {"succeeded", "failed", "cancelled", "uncertain", "readback_required"}
    [] from = "readback_required" -> {"uncertain"}
    [] OTHER -> {}

\* transition_process: the caller names the revision it last saw.
Permits(t, expected, state) == job[t].rev = expected /\ state \in MayBecome(job[t].state)
Transition(t, expected, state) ==
  /\ Permits(t, expected, state)
  /\ job' = [job EXCEPT ![t] = [state |-> state, rev |-> expected + 1]]

\* A transition whose failure the caller ignores.
Note(t, expected, state) ==
  \/ Transition(t, expected, state) /\ NoFault
  \/ ~Permits(t, expected, state) /\ NoFault /\ UNCHANGED job
  \/ Fault /\ UNCHANGED job
-----------------------------------------------------------------------------
\* The id of a daemon's tick is made from its own operation: nobody used it yet.
Fresh(t) == tick[t] = NoTick /\ attempt[t] = NoAttempt /\ \A p \in Procs : proc[p].tick # t

Open == run.state \in {"queued", "running"} /\ run.count < MaxClaims

\* tick reads the run, answers a tick that was finished from its record, and
\* checks the policy before anything is selected.
Begin(p, t) ==
  /\ At(p, "idle") /\ run.count < MaxClaims
  /\ tick[t].state \notin {"claimed", "rejected"}
  /\ p \in Clis => t \in CallerTicks
  /\ p \in Daemons => ~stop[p] /\ run.state \in {"queued", "running"} /\ Fresh(t)
  /\ proc' = [proc EXCEPT ![p] = [Idle EXCEPT !.step = "pin", !.tick = t, !.rev = run.rev,
                                              !.policy = policy]]
  /\ UNCHANGED <<run, tick, attempt, closed, job, daemon, policy, world, faults>>

\* A work item that is already pinned is taken as it is, whoever pinned it.
TakePin(p) ==
  /\ At(p, "pin") /\ run.pending # None
  /\ proc' = [proc EXCEPT ![p].work = run.pending, ![p].step = "check"]
  /\ UNCHANGED <<run, tick, attempt, closed, job, daemon, policy, world, faults>>

Selectable(p) == Open /\ run.rev = proc[p].rev /\ tick[proc[p].tick] = NoTick

\* orchestration_tick_select: the pin and the tick row are written together.
Select(p, w) ==
  /\ At(p, "pin") /\ run.pending = None /\ Claimable(w) /\ Selectable(p)
  /\ run' = [run EXCEPT !.pending = w, !.by = proc[p].tick, !.rev = @ + 1]
  /\ tick' = [tick EXCEPT ![proc[p].tick] = [NoTick EXCEPT !.state = "selected", !.work = w]]
  /\ proc' = [proc EXCEPT ![p].work = w, ![p].rev = run.rev + 1, ![p].step = "check"]
  /\ UNCHANGED <<attempt, closed, job, daemon, policy, world, faults>>

\* No candidate, or the selection is refused.
SelectNothing(p) ==
  /\ At(p, "pin") /\ run.pending = None
  /\ \/ NoFault /\ (~Selectable(p) \/ \A w \in Works : ~Claimable(w))
     \/ Fault
  /\ Return(p)
  /\ UNCHANGED <<run, tick, attempt, closed, job, daemon, policy, world>>

\* OrchestrationApplication::tick before it claims.
MayClaim(p) ==
  LET own == tick[proc[p].tick] IN
  /\ own.state \notin {"claimed", "rejected"}
  /\ own # NoTick => own.work = proc[p].work
  /\ Open /\ run.rev = proc[p].rev /\ run.pending = proc[p].work

CheckRun(p) ==
  /\ At(p, "check")
  /\ IF MayClaim(p)
       THEN Go(p, "claim")
       ELSE Return(p)
  /\ UNCHANGED <<run, tick, attempt, closed, job, daemon, policy, world, faults>>

Answered(p, result) == [proc[p] EXCEPT !.step = "finish", !.result = result, !.echo = FALSE]
Claimed(p, result) == proc' = [proc EXCEPT ![p] = Answered(p, result)]

\* claim_result under the operation id of the tick.  An error after the commit
\* counts as a rejection.
Claim(p) ==
  LET t == proc[p].tick  same == {q \in Procs : Shares(p, q)} IN
  /\ At(p, "claim") /\ attempt[t] = NoAttempt /\ Claimable(proc[p].work)
  /\ attempt' = [attempt EXCEPT ![t] = [phase |-> "claimed", work |-> proc[p].work, current |-> TRUE]]
  /\ \/ NoFault /\ Committed(p, Answered(p, "claimed"), same)
     \/ Fault /\ Committed(p, Answered(p, "rejected"), same)
  /\ UNCHANGED <<run, tick, closed, job, daemon, policy, world>>

\* The same claim was committed by another caller, and is still the current one.
ReplayClaim(p) ==
  /\ At(p, "claim") /\ proc[p].echo /\ Current(proc[p].tick)
  /\ Claimed(p, "replayed")
  /\ UNCHANGED <<run, tick, attempt, closed, job, daemon, policy, world, faults>>

RefuseClaim(p) ==
  /\ At(p, "claim")
  /\ \/ NoFault /\ (attempt[proc[p].tick] # NoAttempt \/ ~Claimable(proc[p].work))
     \/ Fault
  /\ Claimed(p, "rejected")
  /\ UNCHANGED <<run, tick, attempt, closed, job, daemon, policy, world>>

\* Mutant: the tick row is not looked at.
MayFinishAnyTick(p) ==
  /\ run.rev = proc[p].rev /\ run.pending = proc[p].work
  /\ proc[p].result # "rejected" => run.count < MaxClaims

\* orchestration_tick_finish.
MayFinish(p) ==
  /\ run.rev = proc[p].rev /\ run.pending = proc[p].work
  /\ proc[p].result # "rejected" => run.count < MaxClaims
  /\ tick[proc[p].tick].state = "selected"

Counted(result) == IF result = "rejected" THEN 0 ELSE 1

\* Both the run's revision and the answer to the claim, which says whether that
\* was a replay, are part of the request.
SameFinish(p, q) ==
  /\ Shares(p, q) /\ proc[q].rev = proc[p].rev /\ proc[q].result = proc[p].result

Dispatching(p) == [Idle EXCEPT !.step = "policy", !.tick = proc[p].tick, !.policy = proc[p].policy]

FinishTick(p) ==
  LET result == proc[p].result  same == {q \in Procs : SameFinish(p, q)} IN
  /\ At(p, "finish") /\ MayFinish(p)
  /\ run' = [state |-> IF result # "rejected" /\ run.state = "queued" THEN "running" ELSE run.state,
             pending |-> None, by |-> None,
             count |-> run.count + Counted(result), rev |-> run.rev + 1]
  /\ tick' = [tick EXCEPT ![proc[p].tick].state = IF result = "rejected" THEN "rejected" ELSE "claimed",
                          ![proc[p].tick].replayed = result = "replayed"]
  /\ Committed(p, IF result = "rejected" THEN Idle ELSE Dispatching(p), same)
  /\ UNCHANGED <<attempt, closed, job, daemon, policy, world, faults>>

\* finish_tick does not ask who finished the tick.
ReplayFinish(p) ==
  /\ At(p, "finish") /\ proc[p].echo
  /\ proc' = [proc EXCEPT ![p] = IF proc[p].result = "rejected" THEN Idle ELSE Dispatching(p)]
  /\ UNCHANGED <<run, tick, attempt, closed, job, daemon, policy, world, faults>>

\* Mutant: the claim is dispatched although it could not be counted.
FinishRefusedDispatches(p) ==
  /\ At(p, "finish") /\ ~MayFinish(p) /\ proc[p].result # "rejected"
  /\ Go(p, "policy")
  /\ UNCHANGED <<run, tick, attempt, closed, job, daemon, policy, world, faults>>

FinishRefused(p) ==
  /\ At(p, "finish")
  /\ \/ NoFault /\ ~MayFinish(p)
     \/ Fault
  /\ Return(p)
  /\ UNCHANGED <<run, tick, attempt, closed, job, daemon, policy, world>>
-----------------------------------------------------------------------------
\* dispatch_claim, under the attempt of the claim that was just counted.
EndAttempt(t) == attempt' = [attempt EXCEPT ![t].current = FALSE]

CheckPolicy(p) ==
  /\ At(p, "policy") /\ Current(proc[p].tick) /\ proc[p].policy = policy /\ Go(p, "register")
  /\ UNCHANGED <<claims, attempt, closed, job, daemon, policy, world, faults>>

\* An attempt that is not current any more is left alone; a policy that changed
\* since the preflight releases the claim.
ReleaseClaim(p) ==
  LET t == proc[p].tick IN
  /\ At(p, "policy")
  /\ \/ Current(t) /\ proc[p].policy # policy
        /\ \/ EndAttempt(t) /\ NoFault
           \/ Fault /\ UNCHANGED attempt
     \/ ~Current(t) /\ NoFault /\ UNCHANGED attempt
  /\ Return(p)
  /\ UNCHANGED <<claims, closed, job, daemon, policy, world>>

\* register_process; the row is unique for the tick.
Register(p) ==
  LET t == proc[p].tick  same == {q \in Procs : Shares(p, q)} IN
  /\ At(p, "register")
  /\ \/ /\ job[t] = NoJob /\ NoFault
        /\ job' = [job EXCEPT ![t] = [state |-> "starting", rev |-> 1]]
        /\ Committed(p, [proc[p] EXCEPT !.step = "accept"], same)
     \/ /\ proc[p].echo /\ NoFault
        /\ proc' = [proc EXCEPT ![p].step = "accept", ![p].echo = FALSE] /\ UNCHANGED job
     \/ /\ \/ job[t] # NoJob /\ NoFault
           \/ Fault
        /\ Return(p) /\ UNCHANGED job
  /\ UNCHANGED <<claims, attempt, closed, daemon, policy, world>>

\* One step of the attempt, from one phase to the next, which is a replay for
\* everybody who comes later; the step after it, or after its refusal, follows.
Advance(p, from, to, next, Refused) ==
  LET t == proc[p].tick  old == attempt[t].phase IN
  \/ /\ InPhase(t, from) /\ NoFault
     /\ attempt' = [attempt EXCEPT ![t].phase = to]
     /\ Go(p, next)
  \/ /\ old \in {to, "running"} /\ NoFault
     /\ Go(p, next) /\ UNCHANGED attempt
  \/ /\ \/ old \notin {to, "running"} /\ ~InPhase(t, from) /\ NoFault
        \/ Fault
     /\ Refused /\ UNCHANGED attempt

Accept(p) ==
  /\ At(p, "accept") /\ Advance(p, "claimed", "accepted", "accepted", Go(p, "accept_failed"))
  /\ UNCHANGED <<claims, closed, job, daemon, policy, world>>

AcceptFailed(p) ==
  /\ At(p, "accept_failed") /\ Note(proc[p].tick, 1, "failed") /\ Return(p)
  /\ UNCHANGED <<claims, attempt, closed, daemon, policy, world>>

\* An attempt that changed hands after its acceptance ends the dispatch; the
\* job row stays as it is.
Accepted(p) ==
  /\ At(p, "accepted")
  /\ IF InPhase(proc[p].tick, "accepted") THEN Go(p, "start") ELSE Return(p)
  /\ UNCHANGED <<claims, attempt, closed, job, daemon, policy, world, faults>>

Start(p) ==
  /\ At(p, "start") /\ Advance(p, "accepted", "running", "launch_check", Return(p))
  /\ UNCHANGED <<claims, closed, job, daemon, policy, world>>

\* The last boundary before the spawn: session, attempt and policy.
LaunchCheck(p) ==
  /\ At(p, "launch_check")
  /\ \/ /\ InPhase(proc[p].tick, "running") /\ proc[p].policy = policy
        /\ NoFault /\ proc' = [proc EXCEPT ![p].step = "spawn", ![p].policy = 0]
     \/ /\ \/ NoFault /\ (~InPhase(proc[p].tick, "running") \/ proc[p].policy # policy)
           \/ Fault
        /\ Go(p, "unlaunched")
  /\ UNCHANGED <<claims, attempt, closed, job, daemon, policy, world>>

Unlaunched(p) ==
  /\ At(p, "unlaunched") /\ Note(proc[p].tick, 1, "readback_required") /\ Return(p)
  /\ UNCHANGED <<claims, attempt, closed, daemon, policy, world>>

Spawn(p) ==
  /\ At(p, "spawn")
  /\ child' = [child EXCEPT ![proc[p].tick][p] = "alive"]
  /\ Go(p, "record")
  /\ UNCHANGED <<claims, attempt, closed, job, daemon, policy, orphans, faults>>

SpawnFails(p) ==
  /\ At(p, "spawn") /\ Fault /\ Go(p, "spawn_failed")
  /\ UNCHANGED <<claims, attempt, closed, job, daemon, policy, world>>

SpawnFailed(p) ==
  /\ At(p, "spawn_failed")
  /\ \/ Note(proc[p].tick, 1, "failed") /\ Go(p, "end")
     \/ Fault /\ Return(p) /\ UNCHANGED job
  /\ UNCHANGED <<claims, attempt, closed, daemon, policy, world>>

Kill(p) == child' = [child EXCEPT ![proc[p].tick][p] = "over"]

\* Mutant: the error of the recording is returned at once.
RecordReturns(p) ==
  LET t == proc[p].tick IN
  /\ At(p, "record")
  /\ \/ Transition(t, 1, "running") /\ NoFault /\ Go(p, "supervise")
     \/ ~Permits(t, 1, "running") /\ NoFault /\ Go(p, "unrecorded") /\ UNCHANGED job
  /\ UNCHANGED <<claims, attempt, closed, daemon, policy, world>>

\* The child is recorded under the revision of its registration, or killed.
Record(p) ==
  LET t == proc[p].tick IN
  /\ At(p, "record")
  /\ \/ Transition(t, 1, "running") /\ NoFault /\ Go(p, "supervise") /\ UNCHANGED child
     \/ /\ Kill(p) /\ UNCHANGED job
        /\ \/ ~Permits(t, 1, "running") /\ NoFault /\ Go(p, "unrecorded")
           \/ Fault /\ (Go(p, "unrecorded") \/ Return(p))
  /\ UNCHANGED <<claims, attempt, closed, daemon, policy, orphans>>

Unrecorded(p) ==
  LET t == proc[p].tick IN
  /\ At(p, "unrecorded") /\ Note(t, job[t].rev, "readback_required") /\ Return(p)
  /\ UNCHANGED <<claims, attempt, closed, daemon, policy, world>>
-----------------------------------------------------------------------------
\* The supervision loop.  Each way out kills what is left of the child's group.
Leave(p, result) ==
  /\ Kill(p)
  /\ proc' = [proc EXCEPT ![p].step = "settle", ![p].result = result]
  /\ UNCHANGED <<claims, attempt, closed, job, daemon, policy, orphans>>

SeeStop(p) ==
  /\ At(p, "supervise") /\ p \in Daemons /\ stop[p]
  /\ Leave(p, "cancelled") /\ NoFault

SeeExit(p) ==
  /\ At(p, "supervise") /\ child[proc[p].tick][p] # "alive"
  /\ \E result \in {"succeeded", "failed"} : Leave(p, result)
  /\ NoFault

\* Mutant: the deadline is read only when the child has already exited.
TimeoutAfterExit(p) ==
  /\ At(p, "supervise") /\ child[proc[p].tick][p] # "alive"
  /\ Leave(p, "failed") /\ NoFault

Timeout(p) ==
  /\ At(p, "supervise") /\ child[proc[p].tick][p] = "alive"
  /\ Leave(p, "failed") /\ NoFault

\* Run, attempt and, for a daemon, the lease are read again every 20 seconds.
SeeLoss(p) ==
  /\ At(p, "supervise") /\ child[proc[p].tick][p] = "alive"
  /\ \/ run.state = "cancelled" \/ ~Current(proc[p].tick)
     \/ p \in Daemons /\ (lease.owner # p \/ lease.state # "running")
  /\ Leave(p, "cancelled") /\ NoFault

\* A read or the renewal of the attempt's lease fails, or the output of a child
\* that is over cannot be read to its end.
LoseContact(p) ==
  /\ At(p, "supervise")
  /\ Leave(p, "readback_required") /\ Fault

Settle(p) ==
  LET t == proc[p].tick  result == proc[p].result IN
  /\ At(p, "settle")
  /\ \/ /\ Transition(t, job[t].rev, result) /\ NoFault
        /\ IF result \in {"cancelled", "failed"} THEN Go(p, "end") ELSE Return(p)
     \/ /\ \/ ~Permits(t, job[t].rev, result) /\ NoFault
           \/ Fault
        /\ Return(p) /\ UNCHANGED job
  /\ UNCHANGED <<claims, attempt, closed, daemon, policy, world>>

\* release or fail of an attempt that is still the current one.
End(p) ==
  LET t == proc[p].tick IN
  /\ At(p, "end")
  /\ \/ Current(t) /\ EndAttempt(t) /\ NoFault
     \/ ~Current(t) /\ NoFault /\ UNCHANGED attempt
     \/ Fault /\ UNCHANGED attempt
  /\ Return(p)
  /\ UNCHANGED <<claims, closed, job, daemon, policy, world>>
-----------------------------------------------------------------------------
\* The lease of another daemon, 60 seconds from its last heartbeat, has lapsed.
Acquire(d) ==
  /\ At(d, "off")
  /\ lease' = [owner |-> d, state |-> "running", rev |-> lease.rev + 1]
  /\ Go(d, "recover")
  /\ UNCHANGED <<claims, attempt, closed, job, policy, world, stop, faults>>

\* Every active job of the project, whoever supervises it, becomes uncertain.
RecoverAs == "uncertain"
Recover(d) ==
  /\ At(d, "recover")
  /\ \E t \in Ticks : Active(t) /\ Transition(t, job[t].rev, RecoverAs)
  /\ UNCHANGED <<claims, attempt, closed, policy, world, daemon, proc, faults>>

RecoverFails(d) ==
  /\ At(d, "recover") /\ (\E t \in Ticks : Active(t)) /\ Fault
  /\ proc' = [proc EXCEPT ![d] = Gone]
  /\ UNCHANGED <<claims, attempt, closed, job, policy, world, daemon>>

Recovered(d) ==
  /\ At(d, "recover") /\ (\A t \in Ticks : ~Active(t)) /\ Go(d, "idle")
  /\ UNCHANGED <<claims, attempt, closed, job, policy, world, daemon, faults>>

\* Heartbeat and stop look for the worker row at the revision of the project,
\* which every change of the row advances as well, after the registrations of
\* the pool, the harness and the run.
LeastRevision == 3 + lease.rev
RowIsMine(d) == lease.owner = d /\ lease.rev >= LeastRevision

Heartbeat(d) ==
  /\ proc[d].step \in {"idle", "supervise"} /\ ~stop[d]
  /\ IF RowIsMine(d) /\ lease.state = "running"
       THEN lease' = [lease EXCEPT !.rev = @ + 1] /\ UNCHANGED stop
       ELSE stop' = [stop EXCEPT ![d] = TRUE] /\ UNCHANGED lease
  /\ UNCHANGED <<claims, attempt, closed, job, policy, world, proc, faults>>

\* Its requests are spent, there was nothing to do for a while, or it was told
\* to stop; in each case no worker is left.
StopDaemon(d) ==
  /\ At(d, "idle") /\ d \in Daemons
  /\ IF RowIsMine(d)
       THEN lease' = [lease EXCEPT !.state = "stopped", !.rev = @ + 1]
       ELSE UNCHANGED lease
  /\ proc' = [proc EXCEPT ![d] = Gone]
  /\ UNCHANGED <<claims, attempt, closed, job, policy, world, stop, faults>>
-----------------------------------------------------------------------------
\* resume, complete and fail.  pause and cancel send a word that is not a state
\* of a run, and are always refused.
OperatorStates == {"running", "completed", "failed"}
MayTurn(from) ==
  CASE from = "queued" -> {"running", "paused", "cancelled", "failed"}
    [] from = "running" -> {"paused", "completed", "cancelled", "failed"}
    [] from = "paused" -> {"running", "cancelled", "failed"}
    [] OTHER -> {}

Operate(state) ==
  /\ Fault /\ state \in OperatorStates \cap MayTurn(run.state)
  /\ state = "running" \/ run.pending = None
  /\ run' = [run EXCEPT !.state = state, !.rev = @ + 1]
  /\ UNCHANGED <<tick, attempt, closed, job, policy, world, daemon, proc>>

ConfigureHarness ==
  /\ Fault /\ policy' = policy + 1
  /\ UNCHANGED <<claims, attempt, closed, job, world, daemon, proc>>

ChildExits(t, p) ==
  /\ child[t][p] = "alive"
  /\ child' = [child EXCEPT ![t][p] = "over"]
  /\ UNCHANGED <<claims, attempt, closed, job, policy, orphans, daemon, proc, faults>>

\* The agent finishes the work of its attempt.
AgentFinishes(t) ==
  /\ (\E p \in Procs : child[t][p] = "alive") /\ InPhase(t, "running")
  /\ closed' = closed \cup {attempt[t].work} /\ EndAttempt(t)
  /\ UNCHANGED <<claims, job, policy, world, daemon, proc, faults>>

\* The lease of the attempt lapses, or somebody releases it.
AttemptLapses(t) ==
  /\ Current(t) /\ EndAttempt(t)
  /\ UNCHANGED <<claims, closed, job, policy, world, daemon, proc, faults>>

\* A killed process leaves its child behind.
Children(p) == {t \in Ticks : child[t][p] = "alive"}
Crash(p) ==
  /\ Fault
  /\ proc[p].step \notin {"off", "gone"} /\ (p \in Clis => ~At(p, "idle"))
  /\ orphans' = orphans \cup {<<t, p>> : t \in {proc[p].tick} \cap Children(p)}
  /\ proc' = [proc EXCEPT ![p] = IF p \in Daemons THEN Gone ELSE Idle]
  /\ UNCHANGED <<claims, attempt, closed, job, policy, child, daemon>>

TickStep(p) ==
  \/ \E t \in Ticks : Begin(p, t)
  \/ TakePin(p) \/ SelectNothing(p) \/ \E w \in Works : Select(p, w)
  \/ CheckRun(p) \/ Claim(p) \/ ReplayClaim(p) \/ RefuseClaim(p)
  \/ FinishTick(p) \/ ReplayFinish(p) \/ FinishRefused(p)

LaunchStep(p) ==
  \/ CheckPolicy(p) \/ ReleaseClaim(p) \/ Register(p)
  \/ Accept(p) \/ AcceptFailed(p) \/ Accepted(p) \/ Start(p)
  \/ LaunchCheck(p) \/ Unlaunched(p)
  \/ Spawn(p) \/ SpawnFails(p) \/ SpawnFailed(p)
  \/ Record(p) \/ Unrecorded(p)

SuperviseStep(p) ==
  \/ SeeStop(p) \/ SeeExit(p) \/ Timeout(p) \/ SeeLoss(p) \/ LoseContact(p)
  \/ Settle(p) \/ End(p)

DaemonStep(d) ==
  \/ Acquire(d) \/ Recover(d) \/ RecoverFails(d) \/ Recovered(d)
  \/ Heartbeat(d) \/ StopDaemon(d)

Next ==
  \/ \E p \in Procs : TickStep(p) \/ LaunchStep(p) \/ SuperviseStep(p) \/ Crash(p)
  \/ \E d \in Daemons : DaemonStep(d)
  \/ ConfigureHarness
  \/ \E state \in OperatorStates : Operate(state)
  \/ \E t \in Ticks : AgentFinishes(t) \/ AttemptLapses(t) \/ \E p \in Procs : ChildExits(t, p)

Spec == Init /\ [][Next]_vars

\* A thread that is launching or supervising goes on until it returns; what the
\* agents, the operator and the clocks do is up to them.
FairSpec == Spec /\ \A p \in Procs : WF_vars(LaunchStep(p) \/ SuperviseStep(p))
-----------------------------------------------------------------------------
TypeOK ==
  /\ run \in [state : {"queued", "running", "completed", "failed"}, pending : Works \cup {None},
              by : Ticks \cup {None}, count : 0 .. MaxClaims, rev : Nat]
  /\ tick \in [Ticks -> [state : {None, "selected", "claimed", "rejected"}, work : Works \cup {None},
                         replayed : BOOLEAN]]
  /\ attempt \in [Ticks -> [phase : {None, "claimed", "accepted", "running"},
                            work : Works \cup {None}, current : BOOLEAN]]
  /\ closed \subseteq Works
  /\ job \in [Ticks -> [state : {None, "starting", "running", "readback_required", "succeeded",
                                 "failed", "cancelled", "uncertain"}, rev : 0 .. 4]]
  /\ child \in [Ticks -> [Procs -> {None, "alive", "over"}]]
  /\ lease.owner \in Daemons \cup {None} /\ orphans \subseteq Ticks \X Procs

Launched(t) == {p \in Procs : child[t][p] # None}
Supervisors(t) == {p \in Procs : proc[p].step \in {"supervise", "settle"} /\ proc[p].tick = t}

\* However callers retry, race or die, a harness is only started for a claim
\* that was counted, the count is that of the claimed ticks and within
\* max_claims, and of the harnesses started for one claim at most one goes on
\* under supervision; no second one is even started when the claim was counted
\* by the caller that made it (orchestration_tick_finish, register_process,
\* transition_process).
LaunchesAreCounted ==
  /\ \A t \in Ticks :
       /\ Launched(t) # {} => tick[t].state = "claimed"
       /\ ~tick[t].replayed => \A p, q \in Launched(t) : p = q
       /\ \A p, q \in Supervisors(t) : p = q
  /\ run.count = Cardinality({t \in Ticks : tick[t].state = "claimed"})
  /\ run.count <= MaxClaims

\* A harness process that is alive is accounted for: its launcher is about to
\* record or to kill it, supervises it, or was killed.  No job row says that a
\* supervised process is over or was never started (after the start of a daemon
\* it is at most uncertain), nor, unless its claim was dispatched twice, does
\* the row of one whose launcher was killed (dispatch_claim, daemon_run).
AliveIsAccountedFor ==
  \A t \in Ticks, p \in Procs : child[t][p] = "alive" =>
    /\ \/ <<t, p>> \in orphans
       \/ proc[p].tick = t /\ proc[p].step \in {"record", "supervise"}
    /\ p \in Supervisors(t) \/ ~tick[t].replayed =>
         job[t].state \in {"starting", "running", "readback_required", "uncertain"}

\* The pin of the run and the one unfinished tick name each other, so that the
\* caller who replays that tick can always resolve it, and nobody else does
\* (orchestration_tick_select, orchestration_tick_finish).
PinHasItsTick ==
  /\ {t \in Ticks : tick[t].state = "selected"} = {run.by} \ {None}
  /\ run.by # None => run.pending = tick[run.by].work
  /\ run.by = None => run.pending = None

\* The harnesses that were launched, finitely many, are over some time, whatever
\* they do themselves: each one's launcher kills it, sees it exit, stops it, or is
\* killed itself (the loop of dispatch_claim).
Attended == (UNION {Children(p) \X {p} : p \in Procs}) \ orphans
SupervisionEnds == Attended # {} ~> Attended = {}

\* A claim is launched once.  It does not hold: README, section 5.
LaunchedOnce == \A t \in Ticks : \A p, q \in Launched(t) : p = q

\* A rejected tick holds no claim.  It does not hold: README, section 5.
RejectedHoldsNoClaim == \A t \in Ticks : tick[t].state = "rejected" => attempt[t] = NoAttempt

\* The run makes no more attempts than max_claims.  It does not hold: README,
\* section 5.
AttemptsWithinLimit == Cardinality({t \in Ticks : attempt[t] # NoAttempt}) <= MaxClaims

\* A daemon that stopped leaves no running lease.  It does not hold: README,
\* section 5.
StopReleasesLease ==
  [][\A d \in Daemons : StopDaemon(d) => lease'.owner # d \/ lease'.state = "stopped"]_vars
=============================================================================
