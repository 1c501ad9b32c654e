# TLA+ models and proofs for Boreal Work

Boreal Work coordinates agents, operators and reviewers on tracked work. A Rust
service owns one SQLite store per machine; clients talk to it over a local
socket. This directory models the parts of it whose correctness depends on the
order in which threads, transactions, timers and people act, checks them with
TLC on small instances, and proves the central safety properties with TLAPS for
every size. Source paths below are relative to the repository root; the exact
lines of every definition are in `PROJECT.json` under `map`.

## 1. Inventory

### Parts that are modelled

**Priority dispatch queue** (`crates/service/src/priority_queue.rs`). State: two
lanes, a ticket counter, a count of consecutive control pops, a closed flag, one
mutex and one condition variable. Operations: push (refused when full, with a
reserve for control traffic), pop (blocking), close. Hard: `notify_one` per push
with several workers, the burst limit, close against workers about to sleep.
Correct when nothing admitted is lost or starved, and close drains.

**Concurrent dispatch and the host's operation journal** (`host.rs`,
`recovery.rs` of the service crate). State: one record per operation id, the
queues, what each worker holds. Operations: admit, push or undo, pop, mark, run,
answer, remove, mark unknown after a lost response or a panic, prune, shutdown.
Hard: a retry of an id at every point of the first request's life. Correct when
no id is locked out for ever, first executions of an id do not overlap, and
every accepted request is settled.

**Status evaluator and action authorization** (`crates/domain/src/status_evaluator.rs`,
`actions.rs`). Pure functions from one snapshot of an item's rows and the clock
to a status, a claim decision, a next action, an instant to look again at and an
answer for every action and role. Hard: the two files decide about the same
facts independently, over many combinations, and time alone changes the facts.

**Work ownership, recovery and close** (`crates/store/src/lib.rs`, `recovery.rs`,
`acceptance.rs`, `completion.rs`, `status_facts.rs`, `status_evaluation.rs`).
State: sessions, work items with a lifecycle and a proof generation, attempts
with fence, phase, lease and hard deadline, reservations, resource rows, recovery
obligations, sealed submissions, receipts, reviews, gate exceptions, close intents,
accepted outcomes. Every command is one `BEGIN IMMEDIATE` transaction. Hard: four
tables that must move together on seven paths, timestamps taken before the write
lock, recovery resolved with or without acknowledging a release, intents that
survive a reopen, reviews and exceptions withdrawn before or after the close.

**Deadline timers** (`crates/service/src/timer.rs`, the deadline hooks in
`crates/cli/src/service.rs`, `reconcile_attempt_deadline` in the application and
the store). State: an in-memory registry of instants, rebuilt at start. Hard:
the registry is updated after the commit, by several threads; due timers are
taken out before they are handled; the store can fail and the process can crash.

**Verifier runs and external jobs** (`crates/application/src/evidence.rs`,
`evidence_store.rs`, `crates/store/src/jobs.rs`, `execution.rs`, `evidence run` in
`crates/cli/src/main.rs`). State: an admission journal, an execution row, a job
row advanced by compare-and-set, receipts, and a process outside the store.
Operations: admit, acquire, record the launch, spawn, record the exit, read back,
check the context again, accept the receipt, mark unknown; the recovery of a
starting host. Hard: a client's retry on a second worker, a crash between any two
rows, work that moves on while the verifier runs, a second host that starts beside
the serving one. Correct when a verifier runs at most once and never unrecorded,
and only a proof of the current result counts.

**Dependencies and accepted outcomes** (`crates/store/src/lib.rs`, `completion.rs`,
`acceptance.rs`, `status_facts.rs`). State: edges, the accepted outcome of each
proof generation, review decisions, gate exceptions and dependency waivers with
expiry and revocation. Hard: what a close rested on can be withdrawn later, by
another command than the one that reopens. Correct when prerequisites never form a
cycle and no claim consumes a withdrawn acceptance.

**Backup and restore of the global database** (`crates/store/src/global_restore.rs`,
`global_maintenance.rs`, `global_backup.rs`, `global_manager.rs`). State: the live
file, packages, per restore a journal, a stage and the retained previous file, and
the admission locks. Hard: a kill between any two file operations, retries with the
same or another package, clients that commit or migrate in between. Correct when no
commit is destroyed, no identity comes back, and an interrupted restore can go on.

**Memory publication** (`crates/memory/src/lib.rs`, `publisher.rs`,
`crates/store/src/memory.rs`, `crates/application/src/knowledge.rs`). State: intent
and job rows, the worktree, the index and the history of a Git repository, one
journal and one lock file beside it, which names its creator and is reaped when that
process is dead. Hard: a commit whose answer is lost, two publishers, two reapers of
one lock file, a person who edits the worktree, one journal for all operations.
Correct when one publisher is inside the lock, a commit is what was admitted, nothing
published is lost and the database believes only what was read back.

**Orchestration** (`orchestration_commands.rs` and `orchestration_runtime.rs` of the
CLI, `orchestration.rs` and `orchestration_runtime.rs` of the application and the
store). State: a run with a claim count and a pinned work item, tick rows, process
job rows, a worker lease, harness policies, and child processes outside the store.
Operations: tick (select, claim, finish), dispatch (register, accept, start, spawn,
record, supervise, settle), daemon start with recovery, heartbeat and stop, changes
of the run and of the policy. Hard: a caller that dies between claim and finish, two
callers on one pin, callers whose requests are answered as exact replays of another's,
a daemon that starts while another process is launching, a child that never exits.
Correct when only counted claims are launched, one harness at most is supervised for
each, a living child is supervised and on record, and supervision ends.

### How they interact

A request is admitted to the journal and pushed (`Dispatch`, over the queue of
`QueueState`/`PriorityQueue`); a worker runs a handler, which commits one
transaction of `WorkLifecycle`. That transaction derives facts from the rows and
asks `StatusPolicy` whether the action is permitted. From the response the worker
schedules or cancels a deadline timer (`DeadlineTimers`), whose maintenance
thread performs `WorkLifecycle`'s `ReconcileDeadline`. Readers evaluate the same
`StatusPolicy` at their own clock (`StatusClock`). An attempt proves its result
with `VerifierRun`, whose receipt satisfies the gate that `OutcomeGraph` reads;
the outcome a close records there is what dependents consume. `VerifierRun` and
`MemoryPublish` share the job row of `ExternalJob`. `Orchestration` is a
client of the attempt commands: it claims, accepts, starts and ends attempts for the
processes it launches. `GlobalRestore` stands beside
them: the global database is a second store with its own locks.

### Parts that are not modelled

`PROJECT.json` lists each with its reason. Briefly: the store's operation journal
has behaviour worth modelling and is in the plan; the
notification hub and operation control are not used by the production host;
transport, protocol types, the command line, MCP, the terminal applications,
identity lookup, migration, planning, templates, cycles, deliverables and intake
are I/O, rendering or validation inside one transaction. Of the modelled parts,
the lock files behind the host election, logical project bundles, retention, the
commands of the global manager, memory drafts, import and the search index, worker
pools and the output of harness processes are left out.

## 2. Modules

| Module | Role |
| --- | --- |
| `QueueState` | the state of one priority queue and its pure operations |
| `PriorityQueue` | workers, mutex and condition variable around it |
| `Dispatch` | acceptor, journal, lanes and workers, over `QueueState` |
| `StatusPolicy` | status evaluation and action authorization as operators on a record of facts |
| `StatusClock` | one item's persisted rows read while time passes |
| `StatusPolicyProofs` | what the policy guarantees for any facts |
| `WorktreeLease` | abstract specification: what the store promises about a worktree |
| `WorkLifecycle` | the transactions of ownership, recovery, review and close |
| `WorkLifecycleMC` | symmetry sets for its runs |
| `WorkLifecycleProofs` | theorems about ownership and closing, and the refinement |
| `DeadlineTimers` | command workers, timer registry, maintenance thread, crash and restart |
| `ServiceProofs` | theorems about the parts of the service process: `PriorityQueue`, `Dispatch`, `DeadlineTimers` |
| `ExternalJob` | the durable job row and the adapter calls on it, as operators |
| `VerifierRun` | workers that run a verifier, the work item it proves, crash and host recovery, over `ExternalJob` |
| `VerifierRunProofs` | theorems about `VerifierRun` |
| `OutcomeGraph` | edges, accepted outcomes, exceptions and the claims that consume them, over `StatusPolicy` |
| `OutcomeGraphMC` | symmetry set for its run |
| `GraphClockProofs` | theorems about the two readers of the policy: `OutcomeGraph` and `StatusClock` |
| `GlobalRestore` | admission, restore tries, interruptions and ordinary clients of the global database |
| `GlobalRestoreProofs` | theorems about `GlobalRestore` |
| `MemoryPublish` | publishing processes, Git, the journal, the operator and a human author, over `ExternalJob` |
| `MemoryPublishMC` | symmetry sets for its runs |
| `MemoryPublishProofs` | theorems about `MemoryPublish` |
| `Orchestration` | ticks, dispatched harness processes, the daemon and the operator of one run |
| `OrchestrationProofs` | theorems about `Orchestration` |

Operators whose comment starts with "Mutant" are deliberately wrong variants of
the definition that follows them. They are used by no specification; replacing
the definition by its variant makes TLC report the property `PROJECT.json` pairs
them with, which shows that the property depends on that line of the code.

### Correspondence with the code

`PriorityQueue`. `state` is the content of the mutex. A step is one critical
section: `TryPush` (with its `notify_one`), `PopItem`, `PopNone`, `PopWait` (the
three exits of the pop loop's body), `Close` (with `notify_all`). A worker is
"popping" when it is about to take the mutex and "waiting" inside the condition
variable; spurious wakeups are allowed. `FinishItem` is the rest of the worker's
loop. `delivered` and `bypassed` are history. Its names carry the prefix `Queue`, those
of `StatusClock` and `DeadlineTimers` the prefixes `Clock` and `Timer`, so that one
proof module can extend several specifications.

`Dispatch`. Every action makes at most one call to the journal, because each is
one critical section and others run between them. `Admit` then `Push` or
`PushFails` are `try_submit`; `Pop`, `MarkInFlight`, `HandlerReturns` or
`HandlerPanics`, `Write` or `ResponseLost`, `RemoveRecord` are the worker loop in its
order. The handler is open: it returns, fails or panics. `Pruned` is
nondeterministic in which of the oldest records go, as ages are not kept. With
more than one worker and more than one slot the lanes are split and worker 1
serves control only; otherwise one queue with a reserve is shared.

`StatusPolicy`. A fact record has what the evaluator distinguishes: lifecycle,
attempt phase, whether a deadline has passed, the kind of outstanding recovery,
whether a submission is sealed, a technical and a review gate with exceptions,
hold, dispatch policy, retry window, schedule, prerequisites, external waits, task or
container, the integrity of the envelope, rows that cannot be evaluated, whether the
submission was reviewed and whether the execution is bound to its source. `HardReason`
has every push to `hard_reasons`; `Precedence` is the ordered table of
`evaluate_status_inner`. `StatusPermits` is `status_denial`, `Authorized` is
`deny_reason` with its checks of session, integrity, role, binding, ownership and hold.
Two checks never deny anything the store evaluates and are left out: it reports every
item live and lists every mapped permission. Descriptor digests, revisions and
explanations are abstracted.

`StatusClock`. `Items` are the combinations of rows that can exist together;
`FactsAt` derives the record at an instant; `Tick` is the only action, as readers
write nothing. `Defects` are what rows can fail to say. `NoDeadEnd` says which obstacle
has which action against it, and is careful about the ones that have none: an open
external wait is lifted outside the policy, rows that cannot be evaluated are to be
corrected, and in both cases the policy still lets the item be cancelled; for an
envelope that does not validate it leaves `repair` alone, which no command of the
program offers (only the domain crate names it).

`WorkLifecycle`. One action per command. Variables are columns, indexed by
attempt or by work item. `EndAttempt` is the set of writes every end of an
attempt makes in its transaction. `at` is the timestamp a command carries, up to
`MaxLag` older than the clock. A renewal is checked against that instant too, so
one that waits for the write lock across its deadline is accepted; this is what
the code does. Sessions stand for their actors, technical gates are
satisfied, holds and schedules absent (those combinations are `StatusClock`'s).
A replayed command is a stutter. An item's profile asks for a review gate or does not
(`reviewed`); `FinalizeClose` wants it approved or failed with an exception in force
(`ReviewStands`). `LateReceipt` makes the receipts other than the sealed ones, after
which reviews and the close are refused until `RequestCloseAgain` seals anew.
`RevokeReview` and `RevokeException` are permitted on a closed item too; they leave it
closed and withdraw its accepted outcome (`InvalidateOutcomes`). The expiry of
exceptions and rows that are superseded are `OutcomeGraph`'s.

`WorktreeLease`. Three sets of fences per work item: ever granted, held,
releasing. `WorkLifecycle` maps resource rows to them: every row is a grant,
`active` is held, `release_pending` is releasing.

`DeadlineTimers`. One attempt, because timer keys name one attempt and fence.
A command is `Commit` (the row) and later `Respond` (the registry); `Respond` may
take pending responses in any order, as different workers hold them. A pass of
the maintenance thread is `TakeDue`, `OpenStore` or `OpenFails`, and for each key
`ReadAttempt` then `Reconcile` or `ReconcileFails`.

`ExternalJob`. A row is its stage, the side effect it names and the digest read
back. `Advance` is the compare-and-set of `advance_external_job_row`; each adapter
call is the row it leaves and a predicate for Ok.

`VerifierRun`. One work item with one verification gate. `caller[c].pc` walks the
steps of `evidence_run_result`, one transaction or outside effect each:
`AppendJournal`, `AdmitExecution`, `PrepareArtifacts`, `StartAcquisition`,
`MarkSideEffectStarted`, `StartExecution`, `Launch`, `AwaitExit`, `FinishExecution`,
`ToReadback`, `CheckContext`, `ReconcileJob`, `InsertReceipt`, or `MarkUnknown` and
`SettleJob`. Between them the result is rebound, sealed, closed, the attempt ends
and is claimed again. `StartHost`, `RecoverExecution` and `Elect` are
`prepare_start` in its order: the list is read, every execution on it is marked,
and only then the election is asked for. `host.early` remembers that the list was
read while a predecessor was serving.

`OutcomeGraph`. One action per command, each one transaction. `Facts` feeds
`StatusPolicy`, so claims, closes and reviews are permitted exactly as in the other
modules. `outcome` has one entry per proof generation. A revocation of any
exception or review of an item invalidates its outcome (`Invalidated`); expiry does
not, as the code has no reader for it there. Receipts come during the run and after
the submission (`RecordReceipt`), which then has to be sealed and reviewed again
(`SealAgain`). `Reachable` is the recursive query of
`dependency_would_cycle`.

`GlobalRestore`. A database image is its identity, revision, schema and set of
commits; comparing images stands for comparing digests. `try[o].step` walks
`restore_global_backup_package`: every file that changes is a step, and
`Interrupt` may follow any of them. `ResumeAt` is what a retry concludes from
journal and files. Clients open (which may bootstrap or migrate), commit, back up
and close.

`MemoryPublish`. A note's content is the operation that published it, a manifest
the operation behind each entry. Each write of the worktree, the index, the history
or the journal is an action, in the order of `publish_with_expected_base`;
`EditNote` may come between any two. Nothing assumes that the lock excludes: `lock` is
the file its path leads to and `owner` what each file says of its creator.
`CreateLock` and `SignLock` are `PublicationLock::acquire`; who finds a file opens it
(`OpenLock`), reads it later (`InspectLock`) and, if its creator is dead, removes
whatever the path leads to by then (`ReapLock`). `stolen` remembers that this was
another file. A killed process leaves its file, and one killed before it signed leaves
an empty one, which nobody reaps.

`Orchestration`. A process is a daemon with one worker slot or a CLI call;
`proc[p].step` walks `tick` (`Begin`, `TakePin` or `Select`, `CheckRun`, `Claim`,
`FinishTick`) and `dispatch_claim` (`CheckPolicy`, `Register`, `Accept`, `Start`,
`LaunchCheck`, `Spawn`, `Record`, then the supervision loop and `Settle`, `End`), one
transaction or outside effect each. The operation id of a tick names its claim, its
attempt and its job. `Advance` and `Note` are the two ways callers treat a refused
call: stop, or ignore it. Time is left out: leases lapse and timeouts elapse when
they may. The project revision is left out too; that a prepared call finds it changed
is a `Fault`. What stays of it is the exact replay: callers who stand before the same
call, with the same digest and revision, when one of them commits it are answered Ok
afterwards (`echo`; `Committed`, `ReplayClaim`, `ReplayFinish`, the second case of
`Register`), and none of them asks whether its answer was a replay. Steps of an attempt are
answered Ok to everybody who repeats them, as their digest holds no revision (`Advance`).

## 3. Runs

Properties are stated in words above their definitions.

| Run | Instance | Shows |
| --- | --- | --- |
| `priority_queue` | 2 workers, capacity 3, reserve 1, burst 2, 6 tickets | held reserve, bounded bypass, no lost wakeup, eventual delivery, close drains |
| `dispatch` | 3 workers, split lanes of 1 slot, 2 ids, 3 tickets per lane, 1 retained record | no orphan record, first runs exclusive, complete drain; with only the control worker fair, control requests are settled, and with all of them fair every request |
| `status_clock` | 3 instants, all combinations of rows | claim decision and authorization agree, no dead end where the policy governs, time revives nothing, no unannounced change (exceptions without expiry) |
| `work_lifecycle` | 1 item, 2 sessions, 2 attempts, leases of 1 or 2, budget 2, clock 0..1, lag 1, 2 generations, with and without a review gate | agreeing rows, acknowledged reuse, proved close and withdrawal of its proof, no close from a stale intent, refinement of `WorktreeLease` |
| `deadline_timers` | 1 command worker, 3 store failures, 1 crash, 2 retry keys | every unsubmitted attempt stays covered and is fenced or legitimately renewed; a renewal is never fenced by its old timer |
| `verifier_run` | 2 workers, 1 operation, 2 results, 2 attempts, 1 crash | one launch, never unrecorded; accepted proof is current; unknown is final; executions settle, except for a host whose list was read early |
| `verifier_rebind` | 1 worker, 2 results | violation, finding 1 |
| `outcome_graph` | 3 items up to symmetry, 2 generations, 1 exception, 3 edge edits, 2 claims, 1 lifecycle command, 1 late receipt | no cycle; claims rest on acceptance that stands or on a waiver in force |
| `global_restore` | 2 restores, 2 packages, 1 client, 2 commits, 1 interruption | no commit is destroyed, identities are fresh, a retried restore gets through |
| `memory_publish` | 2 processes, 3 operations and 2 entries up to symmetry, 1 kill or edit | commits are as admitted, published entries are kept and the latest commit can be reconciled until a reaper removes a lock file it had not inspected; reconciled jobs name their own commit even then |
| `memory_exclusion` | the same | violation, finding 2 |
| `orchestration` | 1 daemon, 2 callers of 1 operation id, 2 ids, 1 work item, 1 claim, 1 fault | only counted claims are launched, one harness at most supervised for each, living children supervised and on record, pin and tick agree, supervision ends |

### Bounds and why they are enough

- `MaxTicket` bounds pushes. Six tickets fill the queue of three twice; a burst
  of 2 needs three control items past one normal item. Three tickets per lane of
  one slot give a running, a queued and a refused request.
- `MaxRecords = 1` makes pruning happen as soon as there are two records. The shared
  queue, which the code uses with one worker or one slot, is not run; the theorems
  about `Dispatch` hold for every number of workers and slots.
- Two attempts are a predecessor and a successor, which all pairwise properties
  are about; two generations are one reopen. The clock needs an instant before
  and one at a deadline (an attempt is expired at the instant itself), a lease of
  2 can be had by renewing one of 1, and lag 1 is a timestamp on the other side
  of the deadline. Late receipts and exceptions are not counted there: they are flags.
- More work items, sessions and attempts are covered by the proofs, which have
  no bounds.
- Two retry keys are an ordinary retry and the repeated last one; three failures
  exhaust them. `Horizon` is the instant beyond which everything scheduled is
  due, so that the clock can stop. In `DeadlineTimers` instants at or beyond it
  are identified.
- Two workers on one operation are a request and its retry; a third would find
  the same row. Two results and two attempts are the verified one and the one that
  replaced it. One crash is enough for a predecessor and a successor host, and a
  host may start beside the serving one besides.
- Three items are the smallest cycle that a check of direct edges misses, with
  three edits to build it. One exception, revoked or expired, and one reopen, retry,
  cancel or changed result separate the close from the claim of a dependent. One late
  receipt (`MaxLate`) makes a submission other than what was reviewed.
- In `GlobalRestore` two restores can retain each other's results and two packages
  are a retry with the wrong one. One interruption leaves every intermediate set of
  files; a retry then starts from it.
- In `MemoryPublish` two processes publish three operations, the first of which leaves
  the lock file that two others find: they may be on one entry or on two. An upset is a
  killed process or an edit; the process of a finished publication exits without being
  one. Nothing but the clean state of the first moment distinguishes an operation, an
  entry or a process, hence the symmetry. One branch is not reached before a lock file
  was removed unseen: the answer to an operation found in the history, which takes a
  second winner of one job (section 4). Foreign staged files are not reached either, as
  nobody but the publishers stages anything in the model.
- In `Orchestration` three processes are needed: one caller that commits a claim and two
  that replay it and go on. The callers share one id (`CallerTicks`), the daemon makes
  its own. One fault is a kill, a refused call, a changed policy or a changed run. One
  item is enough: the pin names one item until the tick that pinned it resolves it. A
  second fault or a second daemon start, which takes over the lease, multiplies the
  states beyond what is worth waiting for; the invariants are proved for any number.
- Deadlock is checked in `global_restore`, where an operator can always begin or
  repeat something. Elsewhere it is not: each of these systems may legitimately be idle (no
  client sends anything, the clock has reached its bound, all work is closed,
  shutdown is complete). Progress is stated as liveness instead.

### Fairness

`PriorityQueue`: a worker that can take the mutex eventually does, and finishes
its item; producers, close and spurious wakeups are not fair. `Dispatch`: weak
fairness of the control worker's loop (its handlers return or panic) in the
specification; `EveryRequestIsSettled` asks the same of every worker in its own
hypothesis (`WorkersAreFair`). Admission is never fair. `DeadlineTimers`: the clock,
the pending responses, the maintenance thread (it wakes at least every
maintenance interval) and the restart by a supervisor; failures, crashes and
commands are not fair, and failures are bounded. `VerifierRun`: a worker that
serves a request goes on, a verifier ends (its timeout kills it), a service that is
down is started again and its start goes on; crashes, further hosts and the work
item are not fair. `GlobalRestore`: a running try goes on and a connection is closed
some day; the operator repeats a restore until it succeeds, and since the lock never
queues the retry is strongly fair. This last one is an assumption about people, the
property is of no use to those who give up. `Orchestration`: a
thread that is launching or supervising (`LaunchStep`, `SuperviseStep`, weakly fair
together for each process) goes on until it returns, its timeout included; agents, operators, clocks and the daemon's scheduling are not fair.
`WorkLifecycle`, `StatusClock`,
`OutcomeGraph` and `MemoryPublish` state safety only: nothing obliges a person or an
agent to act.

## 4. Proofs

All with TLAPS. Every safety invariant and action property that a passing run checks
is also a theorem for every value of the constants. No theorem assumes more than the
named `ASSUME`s on constants, except two that say for which constants their property
holds: `NothingChangesEarly` and `DeadlineStaysCovered`, whose hypotheses are exactly
what findings 5 and 9 are about. Three properties of `MemoryPublish` hold as long as no
reaper has removed a lock file it had not inspected, and say so themselves; when that
happens is finding 2.

**Queue.** `QueueTypeOK` is inductive, `ReserveHeld` relative to it. `BoundedBypass`
is not: it needs that the code's counter, which also counts while no normal item
waits, is never behind the number of bypasses (`BypassInv`). For
`NoLostWakeup` (queued items never outnumber awake poppers while somebody sleeps)
and `NobodySleepsOnClosed` the conjunction is inductive: each push adds an item
and wakes a sleeper, each pop removes both an item and a popper.

**Policy.** `ReadyIsIdle` and `CloseIsSettled` unfold the precedence table once;
the other modules use them instead of the table. `FirstMatch` says what the table
evaluates to (the status of the first row whose condition holds) and `ReadyIsLast`,
`ReadyIsUnobstructed` what it takes to reach its end.

**Clock.** Facts change with time in one direction only: deadlines pass, retry windows
and schedules open, exceptions lapse. `ClaimableIffAuthorized` and `NoDeadEnd` hold
for any facts of an item that can exist, `NoDeadEnd` from the invariant that the item
is one of `Items`, obstacle by obstacle. For `ClockNeverRevives`, the row of the table that decides
`expired_review` keeps its condition and no earlier row gains one; a status that
becomes ready lost an obstacle, and the only obstacles that time removes are the two
named. `NoEarlyChange`: when none of the three announced instants falls between two
readings and no exception lapses, the facts are the same except for a terminal item
or one under expiry review, whose status does not look at the difference.

**Ownership.** Inductive invariant `Ownership`: types, `RowsAgree`,
`FencesAreUnique` and `ReuseNeedsAcknowledgement` together. `KindsOfStep` reduces
the actions to five kinds of change of the execution rows (claim, live, end,
resolve, none) and each invariant is shown per kind. Reuse needs `RowsAgree`: a
claim sees only that no earlier resource is live, and that such a row is
`released` and its attempt terminal comes from the agreement of the tables. The
policy stays opaque here: ownership does not rest on it. `SessionsOwnOne` covers
any number of items and sessions; its strengthening binds current attempts to
sessions of the store.

**Refinement.** `StoreImplementsLease`: claim is `Acquire`, end is `Stop`,
acknowledged resolution is `Acknowledge`, everything else stutters, using
`Ownership` for the guard of `Acquire` and for fences naming one row.

**Close.** `ClosedIsProved` needs `Ownership`, what the policy says of a permitted
claim, close and review, and `SubmissionsEndExecution`: a sealed submission
belongs to a completed attempt, and while it is current nobody executes and no
later attempt exists. On a closed item nothing but the two withdrawals and a reopen
changes a verdict or an exception, and each of them takes the accepted outcome along. `StaleIntentNeverCloses` follows from the same invariant.

**Dispatch.** `DispatchInv` follows a request on its way: a ticket that was handed
out waits in its lane, is held by a worker of that lane or is settled
(`Accounted`). While no handler of an id has returned, the id's request is in one
place only, and while it is anywhere its record is active, so that admission
refuses a second one (`FirstRunOK`); `RecordOK` is the converse. Only a worker
whose handler returned removes a record, which is where the exclusion ends
(finding 4). `DrainIsComplete` needs `Accounted` and that closed lanes with no
worker are empty. `LanesStayBounded` rests on the arithmetic of
`ConcurrentDispatch::new`: for every capacity, small ones included, each lane has a
slot of its own and the shares add up to the capacity (`LaneShares`).

**Timers.** `OldTimerNeverFences` needs only that a pass never remembers an instant
later than the clock. `DeadlineIsCovered` is far from inductive: a timer may be left
and be the wrong one. `CoverInv` says that what is on its way to the registry is the
deadline of the committed row (`AnswersAgree`), that the registry's own key then holds
that deadline or was taken out (`RegistryAgrees`), that a deadline taken out has
elapsed and a pass or a retry handles it (`Handled`), and that a pass which read the
row after that read the row as it is (`ReadIsCurrent`), so that its transaction fences
instead of dropping the last timer. `AnswersAgree` is where renewals by several
workers break it: the response of an earlier command carries an instant that the
committed row no longer has. With one worker, or without renewals, it holds for any
leases, budgets, numbers of retries, failures and crashes.

**Graph.** `Acyclic` says that every set of items has one without a prerequisite in
the set. Where the cycle check lets an edge from p to d pass, some set closed under
the edges holds d and not p; a set of items either lies inside it or has a part
outside, to which no edge leads back, and each part has its item (`AddKeepsAcyclic`). `ClaimsRestOnProof`
needs `ProofInv`: an accepted outcome of the current generation stands, and an item
that runs is open and has nothing sealed, so that no claim, retry or changed result
leaves an accepted outcome behind whose ground is gone.

**Verifier runs.** The admission of an operation lets one worker through for good.
`RunInv` therefore ties the job row, the execution row and the launch count to the
program counter of that one worker, and says of an operation that nobody runs what
the last worker, or a crash, left. Every step touches the rows of one operation
only, so the invariant is shown for that operation and carried over for the others.
`AtMostOneLaunch` and `LaunchIsRecorded` are parts of it; `UnknownIsFinal` and
`AcceptedProofIsCurrent` are action properties read off the single action that could
break them.

**Restore.** `RestoreInv`: one try runs at a time and no client is connected
meanwhile (`LockOK`), so what a step read of the live file is still true at the next
(`TryAt`). What an operation retained is the file its intent names or nothing, so
copying it again destroys nothing. An operation whose target was live once finds a
live file other than the one its intent names ever after (`TargetAt`), so it never
activates twice, which gives both `NothingIsLost` and `IdentityIsFresh`.

**Publication.** Everything but `ReconciledNamesItsCommit` is proved of the behaviours
in which no reaper has yet removed a lock file it had not inspected (`~stolen`), and
nothing is assumed of the lock beyond that: whoever goes to remove a file has seen that
its owner is dead, who is inside is alive, and so its own file stays behind the path
(`LockOK`). `PublishInv` then rests on two exclusions. One process wins the job of
an operation, so an operation writes its manifest once and no manifest mentions it
before (`FreshOK`); one process is inside the lock, so what the base and status
checks saw still holds when the index is committed (`WriterOK`). A manifest
therefore never comes back, and a worktree that shows the base asked for is one for
which the admitted plan was computed (`PlansOK`): comparing the base under the lock
is enough. `CommitIsPlanned` is part of the invariant, `PublishedIsKept` is read off
`Commit`. `ReconciledIsPublished` needs no lock: the reference in a job row comes from a
journal that was compared with the history, and the history only grows (`ReadInv`).
`LatestCommitIsReconcilable` needs a second
invariant on top (`LatestInv`): the journal is rewritten before every commit, so it
has no revision or names HEAD; while it names a committed operation HEAD is that
operation's commit, and the only reference its job can have recorded is that
revision. The proof also shows that, as long as the lock excludes, the answer to an
operation found in the history, and the resumption of half-written files, are
unreachable for a process that won its job: recovery of such an operation is the
operator's alone.

**Orchestration.** The run and the tick rows are written by three transactions
(select, finish, operate), which gives `PinHasItsTick` and the count (`ClaimsInv`).
Launching rests on what an exact replay can be (`DispatchInv`). Who has an answer to the
claim has one to a claim that was committed, and only one caller has it first hand
(`ClaimOK`). A replay is answered to callers who stood before the same call, so the ones
it lets past the finish of a tick carry the same answer to the claim as the one who
finished it (`EchoOK`): if that was the caller who made the claim nobody follows, and
otherwise several do and the tick row says `replayed` (`OnceOK`). Each of them
registers, or is answered as having registered, the same job row at revision 1, and the
row leaves that revision once: of the harnesses they start one is recorded as running
and supervised, and the launchers of the others kill theirs (`SupervisedOK`, `AliveOK`).

**Assumptions.** Bounds are naturals and sets of processes or ids that are counted
are finite. `OpAssumption`, `NoneAssumption` and `NameAssumption` say that the
placeholder for "nobody" or "nothing" is no operation, process or entry;
`TicksAssumption` that the operation ids of ticks are finitely many. TLC evaluates
all of them.

The inductive invariants were checked with TLC on the instances of the runs before
they were proved.

**Only model-checked.** Liveness, which needs fairness and `ENABLED` and is out of the
prover's reach: `AdmittedIsDelivered`, `CloseDrains`, `ControlIsSettled`,
`EveryRequestIsSettled`, `DeadlineIsEnforced`, `ExecutionsSettleInOrder`,
`RestoreResumes`, `SupervisionEnds`. The other way round, the types of most modules,
`NobodySleepsOnClosed`, `LanesHeld`, `FencesAreUnique` and `SessionsOwnLittle` are
proved and no run repeats them.

## 5. Findings

Where a document or a comment says more than the code does. The first two have runs.

1. **Closed on another result's proof** (`verifier_rebind`). The gate decision takes
   the newest receipt of the attempt and gate and does not compare its source with
   the result that was bound and submitted.
2. **Two publishers inside the lock** (`memory_exclusion`;
   `crates/memory/src/lib.rs:2746`). A reaper opens the lock file, reads that a dead
   process owns it and removes the path. Of two publishers who both opened the file of a
   dead or departed owner, the slower one removes the file that the faster one has created
   since, and enters beside it. Without the hypothesis `~stolen` TLC also finds a commit
   that is not what was admitted and a published entry that is lost. The advisory lock
   does not help, since it is taken on the file that was opened and not on the path; the
   comment says it does (`lib.rs:2727`).

The others are formulas in the modules that do not hold. Adding the formula to the
cfg named here, or changing the constant, makes TLC print the trace.

3. **A failed gate outlives its attempt** (`IdleIsDispatchable`, `OutcomeGraph.cfg`;
   `crates/store/src/lib.rs:7546`). After a failed receipt and a release the item shows
   `needs_verification` and nothing claims it: the gate row belongs to the item and
   neither release nor reopen resets it. The transition table gives `ready`, `queued`,
   `blocked`, `paused` or `retry_wait` after a release
   (`project/spec/transition-table.md:83`).
4. **Retry admitted beside a queued retry** (`RetryIsRefusedWhileActive`,
   `Dispatch.cfg` with 2 workers and 1 id; `crates/service/src/host.rs:866`). A worker
   removes the journal record by id after answering; a retry admitted between its
   `mark_committed` and that `remove` loses its record, and the next retry is
   admitted while it is queued. The comment on admit says "Active/unknown records are
   rejected" (`recovery.rs:299`). First executions are not affected
   (`FirstRunIsExclusive`).
5. **Exception expiry is not announced** (`NoEarlyChange` with `Waivers` that
   expire; `status_evaluator.rs:592` against `project/spec/WORK_MODEL_SCENARIOS.md:381`).
6. **Advertised actions nobody may take** (`NextActionIsPermitted`,
   `StatusClock.cfg`; `project/STATUS_MODEL.md:93`). A block by recovery or by a
   rejected review advertises resolving a hold.
7. **Ready and not claimable** (`ReadyIsClaimable`, `WorkLifecycle.cfg`;
   `crates/store/src/recovery.rs:801`, `project/STATUS_MODEL.md:123`). Resolving a
   recovery without acknowledging the release leaves a live resource row that the
   status does not see.
8. **Submit drops the deadline** (`EveryDeadlineIsEnforced`, `DeadlineTimers.cfg`;
   `crates/cli/src/service.rs:1113`, `project/STATUS_MODEL.md:258`).
9. **Late response overwrites a renewed deadline** (`DeadlineIsCovered` and
   `DeadlineIsEnforced` with `CommandWorkers = 2`; `crates/cli/src/service.rs:1100`). The old timer fires, finds
   nothing to fence, and no timer is left until a restart.
10. **Recovery list read before the election** (`ExecutionsSettle`,
   `VerifierRun.cfg`; `crates/service/src/host.rs:453`). A host that starts beside
   the serving one misses what is admitted afterwards; if the owner then dies, that
   execution stays admitted or running. It also marks live executions unknown.
11. **Restored, and the retry refused** (`ActivationIsReadBack`, `GlobalRestore.cfg`;
    `finish_activated_restore`). When a client commits between activation and the
    final readback, the retry finds another revision and reports a failure, although
    the restore took place.
12. **An older publication cannot be reconciled** (`CommitIsReconcilable`,
    `MemoryPublish.cfg`; `write_publication_journal`). A process killed between
    journal and database leaves a committed publication; once another one has been
    journalled, readback answers only for the newer.
13. **The retry of a committed claim is counted as rejected** (`RejectedHoldsNoClaim`,
    `AttemptsWithinLimit`, `Orchestration.cfg`; `crates/cli/src/orchestration_commands.rs:433`).
    A retried tick reads the project revision again, and that revision is part of the
    claim's replay identity (`crates/store/src/lib.rs:9071`), so the claim is refused; any
    error of the claim, also one after its commit, rejects the tick and clears the pin.
    The attempt stays claimed, uncounted and undispatched until its lease lapses. The
    store says the pin is there "so an unknown claim outcome can be retried against
    exactly the same subject and operation identity"
    (`crates/store/src/orchestration.rs:199`).
14. **A daemon's stop is always refused** (`StopReleasesLease`, `Orchestration.cfg`;
    `orchestration_worker_stop`). Heartbeat and stop look for the worker row at the
    revision of the project, which is ahead of the row's own. The first heartbeat asks
    the daemon to stop, and its lease then lapses instead of being released.
15. **`orchestrate pause` and `cancel` are always refused**
    (`crates/cli/src/orchestration_commands.rs:204`). They pass on the words "pause" and
    "cancel", which are not states of a run; `OperatorStates` has the three commands that
    work.
16. **A claim launched twice** (`LaunchedOnce`, `Orchestration.cfg`;
    `crates/store/src/work_model_v3.rs:2609`). Three callers share an operation id. One
    commits the claim and is overtaken; the two others read it as a replay and make
    the same calls at the same revisions, of which the store commits one and answers the
    other Ok. Both pass finish, registration, acceptance and start, and both spawn. The
    second to record finds the job row at another revision and kills its child, so no two
    are supervised (`LaunchesAreCounted`), but for a moment two harnesses run in one
    worktree. `finish_tick` discards the answer that says `replayed`
    (`crates/application/src/orchestration.rs:217`).

Smaller observations, visible in the models: `--expected-revision` on `evidence run`
is usually stale by the time it is compared, as admission itself advances the
revision; after a restart the job row of an unknown execution stays running; a
dependency waiver survives the removal of its edge and a reopen of the prerequisite;
revoking an expired exception still invalidates the outcome, and a closed item is
then closed without one; once a receipt came for the submission of a closed item, which
is kept though it is refused, its approval can no longer be withdrawn; `repair`, all that
the policy leaves for an envelope that does not validate, is offered by no command; a
publisher killed between the creation of its lock file and its pid leaves an empty file,
which nobody reaps and which stops publication until somebody deletes it; a publisher
killed between admission and acquisition leaves a job that nobody wins again, and one
killed between the prepared files and the commit blocks later publications of the root;
a tick with another id on a run whose pin was left by a dead caller claims under its own
id and cannot be finished, which strands the claim and keeps the pin; a dispatch whose
start is refused leaves its job row `starting`.

## 6. What is left

Every safety property of the runs is proved. What would come next:

1. `OperationReplay`: the store's journal by id and digest under `Dispatch`; a retried
   command takes effect once although the host may run it twice.
2. The logical project bundles beside `GlobalRestore`, which share its locks and not
   its file.
3. Worker pools in `Orchestration`: several daemons with their own leases on one run.
