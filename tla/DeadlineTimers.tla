--------------------------- MODULE DeadlineTimers ---------------------------
(***************************************************************************)
(* How the running service enforces the deadline of an attempt: command    *)
(* workers commit to the store and then, from the response, schedule or    *)
(* cancel a timer; the maintenance thread takes due timers out of the      *)
(* registry and reconciles the attempt with the store; a failed            *)
(* reconciliation is retried under a key of its own; a restart loses the   *)
(* registry and rebuilds it from the store.                                *)
(*                                                                         *)
(* One attempt, as timer keys name one attempt and fence.  Timers are      *)
(* indexed by their number of retries, 0 for the deadline itself.          *)
(***************************************************************************)
EXTENDS Integers, FiniteSets, SequencesExt

CONSTANTS
  CommandWorkers, \* dispatch workers: responses whose timer update is pending
  Commands,      \* service commands clients send after the claim
  TTLs, Budgets, \* lease lengths and hard time limits
  MaxDeadlineRetries,
  RetryDelay, RetryCap,
  MaxLag,        \* how old the timestamp of a command is when it commits
  MaxDeadline,   \* bound on the hard deadline
  MaxFailures,   \* bound on failures of the store
  MaxCrashes     \* bound on crashes of the service

ASSUME TimerAssumption ==
  /\ CommandWorkers \in Nat \ {0} /\ MaxDeadlineRetries \in Nat \ {0}
  /\ TTLs \subseteq Nat \ {0} /\ Budgets \subseteq Nat \ {0}
  /\ {RetryDelay, RetryCap, MaxLag, MaxDeadline, MaxFailures, MaxCrashes} \subseteq Nat

VARIABLES
  now,
  attempt,    \* the committed row: phase and both deadlines
  timers,     \* TimerRegistry: instant of each scheduled key
  inflight,   \* committed commands whose response has not reached the registry
  pass,       \* the maintenance thread's on_deadlines call
  up,         \* the service process runs
  failures, crashes

timerVars == <<now, attempt, timers, inflight, pass, up, failures, crashes>>

\* The last instant of the clock; what is scheduled beyond it is due there.
Horizon == MaxDeadline + RetryCap
Never == Horizon + 1
Later(delay) == IF now + delay < Horizon THEN now + delay ELSE Horizon

Retries == 0 .. MaxDeadlineRetries
Unsubmitted == {"claimed", "running"}
Executing == Unsubmitted \cup {"verifying"}
NoTimers == [k \in Retries |-> Never]
IdlePass == [stage |-> "idle", keys |-> {}, at |-> 0, lease |-> 0]

Deadline == IF attempt.lease < attempt.hard THEN attempt.lease ELSE attempt.hard
Elapsed == now >= Deadline

\* Timestamps, sampled before the write lock, at which no deadline had passed.
Timely == {at \in 0 .. now : now - at <= MaxLag /\ at < Deadline}
Unterminated == attempt.phase \in Executing \cup {"expiry_pending"}

TimerInit ==
  /\ now = 0
  /\ attempt = [phase |-> "none", lease |-> 0, hard |-> 0]
  /\ timers = NoTimers
  /\ inflight = <<>>
  /\ pass = IdlePass
  /\ up = TRUE
  /\ failures = 0 /\ crashes = 0

(***************************************************************************)
(* Commands: the commit, then the response.                                *)
(***************************************************************************)
\* A worker commits the attempt row and holds the response.
Commit(command, row, instant) ==
  /\ up
  /\ Len(inflight) < CommandWorkers
  /\ attempt' = row
  /\ inflight' = Append(inflight, [command |-> command, instant |-> instant])
  /\ UNCHANGED <<now, timers, pass, up, failures, crashes>>

\* The owner knows its attempt once the claim was answered.
Answered == \A i \in 1 .. Len(inflight) : inflight[i].command # "claim"

\* The instant the response of a claim, start or renewal carries.
Schedules(row) == IF row.lease < row.hard THEN row.lease ELSE row.hard
Cancels == Never

Claim(ttl, budget) ==
  LET row == [phase |-> "claimed", lease |-> now + ttl, hard |-> now + budget] IN
  /\ attempt.phase = "none"
  /\ row.hard <= MaxDeadline
  /\ Commit("claim", row, Schedules(row))

Start ==
  /\ Answered /\ attempt.phase = "claimed" /\ Timely # {}
  /\ Commit("start", [attempt EXCEPT !.phase = "running"], Schedules(attempt))

Renew(at, ttl) ==
  LET row == [attempt EXCEPT !.lease = at + ttl] IN
  /\ "renew" \in Commands
  /\ Answered /\ attempt.phase \in Executing
  /\ row.lease <= attempt.hard
  /\ Commit("renew", row, Schedules(row))

Submit ==
  /\ "submit" \in Commands
  /\ Answered /\ attempt.phase = "running" /\ Timely # {}
  /\ Commit("submit", [attempt EXCEPT !.phase = "verifying"], Cancels)

Release ==
  /\ "release" \in Commands
  /\ Answered /\ attempt.phase \in Executing /\ Timely # {}
  /\ Commit("release", [attempt EXCEPT !.phase = "released"], Cancels)

FinishClose ==
  /\ "finish_close" \in Commands
  /\ Answered /\ attempt.phase \in {"running", "verifying"} /\ Timely # {}
  /\ Commit("finish_close", [attempt EXCEPT !.phase = "completed"], Cancels)

\* schedule_deadline_from_response or cancel_deadline_from_response, by whichever
\* worker gets there first: schedule replaces the instant of the key.
Respond(i) ==
  /\ up
  /\ timers' = [timers EXCEPT ![0] = inflight[i].instant]
  /\ inflight' = RemoveAt(inflight, i)
  /\ UNCHANGED <<now, attempt, pass, up, failures, crashes>>

(***************************************************************************)
(* The maintenance thread.                                                 *)
(***************************************************************************)
\* TimerRegistry::due takes the keys out; they are delivered once.
TakeDue ==
  LET due == {k \in Retries : timers[k] <= now} IN
  /\ up
  /\ pass.stage = "idle" /\ due # {}
  /\ timers' = [k \in Retries |-> IF k \in due THEN Never ELSE timers[k]]
  /\ pass' = [pass EXCEPT !.stage = "taken", !.keys = due]
  /\ UNCHANGED <<now, attempt, inflight, up, failures, crashes>>

\* Mutant: the last retry is the end of it.
RetryGivesUp(keys) ==
  [k \in Retries |-> IF k - 1 \in keys THEN Later(RetryDelay) ELSE timers[k]]

\* retry_deadline for each of the keys, in the order of the registry: short
\* retries, then the last key again at the capped interval.
RetryDeadline(keys) ==
  [k \in Retries |->
     IF k = MaxDeadlineRetries /\ k \in keys THEN Later(RetryCap)
     ELSE IF k - 1 \in keys THEN Later(RetryDelay)
     ELSE timers[k]]

OpenStore ==
  /\ up /\ pass.stage = "taken"
  /\ pass' = [pass EXCEPT !.stage = "opened"]
  /\ UNCHANGED <<now, attempt, timers, inflight, up, failures, crashes>>

\* The store cannot be opened: every key of the pass is retried.
OpenFails ==
  /\ up /\ pass.stage = "taken" /\ failures < MaxFailures
  /\ timers' = RetryDeadline(pass.keys)
  /\ pass' = IdlePass
  /\ failures' = failures + 1
  /\ UNCHANGED <<now, attempt, inflight, up, crashes>>

\* reconcile_attempt_deadline samples the clock and reads the current attempt.
ReadAttempt ==
  /\ up /\ pass.stage = "opened"
  /\ pass' = [pass EXCEPT !.stage = "read", !.at = now, !.lease = attempt.lease]
  /\ UNCHANGED <<now, attempt, timers, inflight, up, failures, crashes>>

\* The keys left of the pass after k.
After(k) ==
  IF pass.keys = {k} THEN IdlePass
  ELSE [pass EXCEPT !.stage = "opened", !.keys = @ \ {k}]

\* cancel_deadline_retries; the key of the deadline itself stays.
CancelDeadlineRetries == [k \in Retries |-> IF k = 0 THEN timers[0] ELSE Never]

\* Mutant: the transaction trusts the read before it.
FencesStale ==
  /\ attempt.phase \in Executing
  /\ pass.at >= pass.lease

\* The transaction: the row is still the one that was read and a deadline of it
\* had passed at the sampled instant.
Fences ==
  /\ attempt.phase \in Executing
  /\ attempt.lease = pass.lease
  /\ pass.at >= Deadline

\* Both answers, fenced or not, count as success.
Reconcile(k) ==
  /\ up /\ pass.stage = "read"
  /\ attempt' = IF Fences THEN [attempt EXCEPT !.phase = "expiry_pending"] ELSE attempt
  /\ timers' = CancelDeadlineRetries
  /\ pass' = After(k)
  /\ UNCHANGED <<now, inflight, up, failures, crashes>>

ReconcileFails(k) ==
  /\ up /\ pass.stage = "read" /\ failures < MaxFailures
  /\ timers' = RetryDeadline({k})
  /\ pass' = After(k)
  /\ failures' = failures + 1
  /\ UNCHANGED <<now, attempt, inflight, up, crashes>>

(***************************************************************************)
(* The process and the clock.                                              *)
(***************************************************************************)
Crash ==
  /\ up /\ crashes < MaxCrashes
  /\ up' = FALSE
  /\ timers' = NoTimers /\ inflight' = <<>> /\ pass' = IdlePass
  /\ crashes' = crashes + 1
  /\ UNCHANGED <<now, attempt, failures>>

\* Mutant: a restart does not look at attempts it finds in the store.
RestartEmpty ==
  /\ ~up
  /\ up' = TRUE
  /\ UNCHANGED <<now, attempt, timers, inflight, pass, failures, crashes>>

\* schedule_current_attempt_deadlines, before the socket is served.
Restart ==
  /\ ~up
  /\ up' = TRUE
  /\ timers' = IF Unterminated THEN [NoTimers EXCEPT ![0] = Deadline] ELSE NoTimers
  /\ UNCHANGED <<now, attempt, inflight, pass, failures, crashes>>

Tick ==
  /\ now < Horizon
  /\ now' = now + 1
  /\ UNCHANGED <<attempt, timers, inflight, pass, up, failures, crashes>>

Command ==
  \/ \E ttl \in TTLs, budget \in Budgets : Claim(ttl, budget)
  \/ Start
  \/ \E at \in Timely, ttl \in TTLs : Renew(at, ttl)
  \/ Submit
  \/ Release
  \/ FinishClose

Maintenance ==
  \/ TakeDue
  \/ OpenStore
  \/ ReadAttempt
  \/ \E k \in pass.keys : Reconcile(k)

Failure == OpenFails \/ \E k \in pass.keys : ReconcileFails(k)

AnyResponse == \E i \in 1 .. Len(inflight) : Respond(i)

TimerNext == Command \/ AnyResponse \/ Maintenance \/ Failure \/ Crash \/ Restart \/ Tick

TimerSpec == TimerInit /\ [][TimerNext]_timerVars

\* The clock advances, workers finish their responses, the maintenance thread
\* waits no longer than its interval, and a supervisor restarts the service.
TimerFairSpec ==
  /\ TimerSpec
  /\ WF_timerVars(Tick) /\ WF_timerVars(AnyResponse)
  /\ WF_timerVars(Maintenance) /\ WF_timerVars(Restart)

(***************************************************************************)
(* Properties.                                                             *)
(***************************************************************************)
\* Every variable has its type.
TimerTypeOK ==
  /\ now \in 0 .. Horizon
  /\ attempt \in [phase : Executing \cup {"none", "expiry_pending", "released", "completed"},
                  lease : Nat, hard : 0 .. MaxDeadline]
  /\ timers \in [Retries -> 0 .. Never]
  /\ inflight \in Seq([command : Commands \cup {"claim", "start"}, instant : 0 .. Never])
  /\ Len(inflight) <= CommandWorkers
  /\ pass \in [stage : {"idle", "taken", "opened", "read"}, keys : SUBSET Retries,
               at : Nat, lease : Nat]
  /\ up \in BOOLEAN
  /\ failures \in 0 .. MaxFailures /\ crashes \in 0 .. MaxCrashes

\* An attempt is fenced only once a deadline of the committed row has passed: a
\* renewal that commits while its old timer is being handled wins.
RenewalBeatsOldTimer ==
  [][attempt.phase # "expiry_pending" /\ attempt'.phase = "expiry_pending" =>
       attempt.phase \in Executing /\ Elapsed]_timerVars

\* While the service runs, an attempt that has not submitted always has something
\* that will bring the maintenance thread to it: a timer, a response on its way
\* to the registry, or a pass under way, whatever fails, is retried or restarts.
DeadlineIsCovered ==
  up /\ attempt.phase \in Unsubmitted =>
    \/ \E k \in Retries : timers[k] <= Horizon
    \/ \E i \in 1 .. Len(inflight) : inflight[i].instant <= Horizon
    \/ pass.keys # {}

\* An attempt that has not submitted does not outlive its deadline: it eventually
\* enters expiry_pending, or a command stamped before the deadline renews or
\* ends it.
DeadlineIsEnforced ==
  attempt.phase \in Unsubmitted /\ Elapsed
    ~> ~(attempt.phase \in Unsubmitted /\ Elapsed)

\* The same for every attempt that is not terminal, submitted or not.  It does
\* not hold: README, section 5.
EveryDeadlineIsEnforced ==
  attempt.phase \in Executing /\ Elapsed ~> ~(attempt.phase \in Executing /\ Elapsed)
=============================================================================
