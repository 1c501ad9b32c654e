------------------------------ MODULE Dispatch ------------------------------
(***************************************************************************)
(* The concurrent dispatcher of the service host: the accept loop admits   *)
(* a request to the operation journal and pushes it to a queue, workers    *)
(* pop requests, run the application handler, answer the client and update *)
(* the journal (crates/service/src/host.rs and recovery.rs).               *)
(*                                                                         *)
(* Every journal call is one critical section, so an action makes at most  *)
(* one of them.  The queues are those of PriorityQueue with pop seen as    *)
(* one blocking step.  The handler is left open: it returns a response,    *)
(* returns an error or panics.                                             *)
(***************************************************************************)
EXTENDS QueueState, Integers, FiniteSets, FiniteSetsExt

CONSTANTS
  Ops,             \* operation ids; a client may send one any number of times
  ControlOps,      \* the ids whose command has control priority
  WorkerCount,     \* dispatch_workers
  DispatchCapacity,
  MaxRecords,      \* max_unknown_records, also the bound on terminal records
  NoOp

ASSUME DispatchAssumption ==
  /\ ControlOps \subseteq Ops /\ NoOp \notin Ops
  /\ {WorkerCount, DispatchCapacity, MaxRecords} \subseteq Nat \ {0}

VARIABLES
  journal,    \* OperationRecovery::records: phase of each id, or "absent"
  queues,     \* lane -> PriorityQueue
  jobs,       \* lane -> ticket -> operation id
  acceptor,   \* the id admitted and not yet pushed, else NoOp
  workers,    \* worker -> where it is in its loop and the job it holds
  settled,    \* history: <<lane, ticket>> whose connection is finished with
  returned    \* history: ids whose handler has returned

vars == <<journal, queues, jobs, acceptor, workers, settled, returned>>

ActivePhases == {"Queued", "InFlight"}
TerminalPhases == {"Committed", "Failed"}
Phases == ActivePhases \cup TerminalPhases \cup {"Unknown", "absent"}

(***************************************************************************)
(* ConcurrentDispatch::new.  With more than one worker and more than one   *)
(* slot, control requests have a queue and a worker of their own.          *)
(***************************************************************************)
Split == WorkerCount > 1 /\ DispatchCapacity > 1
Lanes == IF Split THEN {"control", "normal"} ELSE {"shared"}
Workers == 1 .. WorkerCount

LaneCapacity(lane) ==
  LET control == Min({Max({DispatchCapacity \div 4, 1}), DispatchCapacity - 1})
  IN  CASE lane = "control" -> control
        [] lane = "normal" -> DispatchCapacity - control
        [] lane = "shared" -> DispatchCapacity

Reserve(lane) == IF lane = "shared" /\ DispatchCapacity > 1 THEN 1 ELSE 0

\* The queue a worker pops from.
WorkerLane(w) ==
  IF ~Split THEN "shared" ELSE IF w = 1 THEN "control" ELSE "normal"

DispatchPriority(op) == IF op \in ControlOps THEN "Control" ELSE "Normal"

\* Mutant: control requests join the normal lane.
LaneOfOneQueue(op) == IF Split THEN "normal" ELSE "shared"

LaneOf(op) ==
  IF ~Split THEN "shared" ELSE IF op \in ControlOps THEN "control" ELSE "normal"

Idle == [stage |-> "idle", ticket |-> 0]

\* prepare_start: the operations whose evidence execution has no receipt are
\* hydrated as in flight, and recover makes them unknown.
Init ==
  /\ \E incomplete \in SUBSET Ops :
       journal = [op \in Ops |-> IF op \in incomplete THEN "Unknown" ELSE "absent"]
  /\ queues = [lane \in Lanes |-> EmptyQueue]
  /\ jobs = [lane \in Lanes |-> <<>>]
  /\ acceptor = NoOp
  /\ workers = [w \in Workers |-> Idle]
  /\ settled = {}
  /\ returned = {}

(***************************************************************************)
(* The journal.                                                            *)
(***************************************************************************)
InPhase(records, phases) == {op \in Ops : records[op] \in phases}

\* prune_transient: records past their retention go, then the oldest above the
\* limits.  Age is left open; "fresh" was written just now and is the newest.
Pruned(records, fresh) ==
  LET transient == InPhase(records, TerminalPhases \cup {"Unknown"}) \ fresh
      Without(gone) == [op \in Ops |-> IF op \in gone THEN "absent" ELSE records[op]]
  IN  {r \in {Without(gone) : gone \in SUBSET transient} :
         /\ Cardinality(InPhase(r, {"Unknown"})) <= MaxRecords
         /\ Cardinality(InPhase(r, TerminalPhases)) <= MaxRecords}

\* mark_in_flight, mark_committed and mark_failed change a record that exists.
Marked(records, op, phase) ==
  IF records[op] = "absent" THEN records ELSE [records EXCEPT ![op] = phase]

Removed(records, op) == [records EXCEPT ![op] = "absent"]

MarkUnknown(op) == journal' \in Pruned(Marked(journal, op, "Unknown"), {op})

(***************************************************************************)
(* The accept loop: try_submit.                                            *)
(***************************************************************************)
Open == \A lane \in Lanes : ~queues[lane].closed

\* Mutant: an operation that runs may be admitted again.
RefusedUnlessRunning(records, op) == records[op] \in {"Queued", "Unknown"}

\* Queued, in flight and unknown operations are refused as duplicates.
Refused(records, op) == records[op] \in ActivePhases \cup {"Unknown"}

\* A terminal record is reset and dispatched again, so that the application
\* replays its durable result.
Admit(op) ==
  /\ Open /\ acceptor = NoOp
  /\ \E records \in Pruned(journal, {}) :
       IF Refused(records, op)
         THEN journal' = records /\ UNCHANGED acceptor
         ELSE journal' = [records EXCEPT ![op] = "Queued"] /\ acceptor' = op
  /\ UNCHANGED <<queues, jobs, workers, settled, returned>>

Room == LET lane == LaneOf(acceptor) IN
  Admissible(queues[lane], DispatchPriority(acceptor), LaneCapacity(lane), Reserve(lane))

Push ==
  LET lane == LaneOf(acceptor) IN
  /\ acceptor # NoOp /\ Room
  /\ queues' = [queues EXCEPT ![lane] = Pushed(@, DispatchPriority(acceptor))]
  /\ jobs' = [jobs EXCEPT ![lane] = Append(@, acceptor)]
  /\ acceptor' = NoOp
  /\ UNCHANGED <<journal, workers, settled, returned>>

\* Mutant: the record of a request that found no room stays.
PushFailsKeepsRecord ==
  /\ acceptor # NoOp /\ ~Room
  /\ acceptor' = NoOp
  /\ UNCHANGED <<journal, queues, jobs, workers, settled, returned>>

\* Busy: the record goes and the client is told to retry.
PushFails ==
  /\ acceptor # NoOp /\ ~Room
  /\ journal' = Removed(journal, acceptor)
  /\ acceptor' = NoOp
  /\ UNCHANGED <<queues, jobs, workers, settled, returned>>

\* shutdown closes every queue; the accept loop has ended.
Shutdown ==
  /\ Open /\ acceptor = NoOp
  /\ queues' = [lane \in Lanes |-> Closed(queues[lane])]
  /\ UNCHANGED <<journal, jobs, acceptor, workers, settled, returned>>

(***************************************************************************)
(* A worker: spawn_worker.                                                 *)
(***************************************************************************)
Holds(w) == jobs[WorkerLane(w)][workers[w].ticket]

At(w, stage) == workers[w].stage = stage
Goes(w, stage) == workers' = [workers EXCEPT ![w].stage = stage]

\* The worker is done with its job and pops again.
Done(w) ==
  /\ workers' = [workers EXCEPT ![w] = Idle]
  /\ settled' = settled \cup {<<WorkerLane(w), workers[w].ticket>>}

Pop(w) ==
  LET lane == WorkerLane(w) IN
  /\ At(w, "idle") /\ Depth(queues[lane]) > 0
  /\ workers' = [workers EXCEPT
       ![w] = [stage |-> "popped", ticket |-> PoppedTicket(queues[lane], MaxControlBurst)]]
  /\ queues' = [queues EXCEPT ![lane] = Popped(@, MaxControlBurst)]
  /\ UNCHANGED <<journal, jobs, acceptor, settled, returned>>

Exit(w) ==
  LET lane == WorkerLane(w) IN
  /\ At(w, "idle") /\ Depth(queues[lane]) = 0 /\ queues[lane].closed
  /\ Goes(w, "exited")
  /\ UNCHANGED <<journal, queues, jobs, acceptor, settled, returned>>

MarkInFlight(w) ==
  /\ At(w, "popped")
  /\ journal' = Marked(journal, Holds(w), "InFlight")
  /\ Goes(w, "running")
  /\ UNCHANGED <<queues, jobs, acceptor, settled, returned>>

\* The handler returned and the outcome is in the journal; the client is not
\* answered yet.
HandlerReturns(w, phase) ==
  /\ At(w, "running")
  /\ journal' = Marked(journal, Holds(w), phase)
  /\ Goes(w, phase)
  /\ returned' = returned \cup {Holds(w)}
  /\ UNCHANGED <<queues, jobs, acceptor, settled>>

\* Mutant: the panic is not caught and ends the thread.
HandlerPanicsUncaught(w) ==
  /\ At(w, "running")
  /\ Goes(w, "exited")
  /\ UNCHANGED <<journal, queues, jobs, acceptor, settled, returned>>

\* The panic is caught, the connection is closed and the outcome is unknown.
HandlerPanics(w) ==
  /\ At(w, "running")
  /\ MarkUnknown(Holds(w))
  /\ Done(w)
  /\ UNCHANGED <<queues, jobs, acceptor, returned>>

\* The response of a committed operation may fail to reach the client, that of
\* an error is not looked at.
Write(w) ==
  /\ \/ At(w, "Committed") /\ Goes(w, "written")
     \/ At(w, "Committed") /\ Goes(w, "lost")
     \/ At(w, "Failed") /\ Goes(w, "written")
  /\ UNCHANGED <<journal, queues, jobs, acceptor, settled, returned>>

RemoveRecord(w) ==
  /\ At(w, "written")
  /\ journal' = Removed(journal, Holds(w))
  /\ Done(w)
  /\ UNCHANGED <<queues, jobs, acceptor, returned>>

ResponseLost(w) ==
  /\ At(w, "lost")
  /\ MarkUnknown(Holds(w))
  /\ Done(w)
  /\ UNCHANGED <<queues, jobs, acceptor, returned>>

Work(w) ==
  \/ Pop(w) \/ Exit(w) \/ MarkInFlight(w)
  \/ \E phase \in TerminalPhases : HandlerReturns(w, phase)
  \/ HandlerPanics(w)
  \/ Write(w) \/ RemoveRecord(w) \/ ResponseLost(w)

Next ==
  \/ \E op \in Ops : Admit(op)
  \/ Push \/ PushFails
  \/ Shutdown
  \/ \E w \in Workers : Work(w)

Spec == Init /\ [][Next]_vars

\* Handlers end, writes time out, threads are scheduled.
WorkersAreFair == \A w \in Workers : WF_vars(Work(w))

\* Only the control worker is sure to make progress: the others may be in
\* handlers that take arbitrarily long.
ControlSpec == Spec /\ WF_vars(Work(1))

(***************************************************************************)
(* Properties.                                                             *)
(***************************************************************************)
Queued(lane) ==
  LET q == queues[lane] IN
  {q.control[i] : i \in 1 .. Len(q.control)} \cup {q.normal[i] : i \in 1 .. Len(q.normal)}

\* Jobs that wait in a queue or whose handler has not returned.
QueuedJobs(op) == {k \in Lanes \X (1 .. MaxTicket) : k[2] \in Queued(k[1]) /\ jobs[k[1]][k[2]] = op}
RunningJobs(op) == {w \in Workers : workers[w].stage \in {"popped", "running"} /\ Holds(w) = op}
ActiveJobs(op) == Cardinality(QueuedJobs(op)) + Cardinality(RunningJobs(op))

HeldBy(w, op) == workers[w].ticket > 0 /\ Holds(w) = op

\* Every variable has its type, and the lanes together hold no more requests
\* than the capacity the busy answer reports.
TypeOK ==
  /\ journal \in [Ops -> Phases]
  /\ queues \in [Lanes -> QueueStates]
  /\ jobs \in [Lanes -> Seq(Ops)]
  /\ acceptor \in Ops \cup {NoOp}
  /\ workers \in [Workers -> [stage : {"idle", "popped", "running", "written", "lost", "exited"}
                                        \cup TerminalPhases,
                              ticket : 0 .. MaxTicket]]
  /\ MapThenSumSet(LAMBDA lane : Depth(queues[lane]), Lanes) <= DispatchCapacity
  /\ settled \subseteq Lanes \X (1 .. MaxTicket)
  /\ returned \subseteq Ops

\* A record that makes admission refuse an id as active, and that no pruning ever
\* removes, belongs to a request that some thread is still going to finish: no
\* interleaving of retries, full queues, lost responses and panics locks an
\* operation id out.
NoOrphanRecord ==
  \A op \in Ops : journal[op] \in ActivePhases =>
    \/ acceptor = op
    \/ QueuedJobs(op) # {}
    \/ \E w \in Workers : HeldBy(w, op)

\* Two requests with one operation id are queued or running together only after
\* a handler for that id has returned: the journal never lets the first
\* executions of an operation overlap.
FirstRunIsExclusive ==
  \A op \in Ops : ActiveJobs(op) > 1 => op \in returned

\* Once the queues are closed and the workers have left, no operation is
\* recorded as active, and every request that was accepted is settled.
DrainIsComplete ==
  (\A w \in Workers : At(w, "exited")) =>
    /\ InPhase(journal, ActivePhases) = {}
    /\ \A lane \in Lanes, t \in 1 .. MaxTicket :
         t <= queues[lane].next_ticket => <<lane, t>> \in settled

\* If every worker is sure to get on, then once the requests stop coming (the
\* tickets run out) every one that was queued has been answered or has had its
\* connection closed, whatever handlers before it did.
EveryRequestIsSettled ==
  WorkersAreFair =>
    <>[](\A lane \in Lanes, t \in 1 .. MaxTicket :
           t <= queues[lane].next_ticket => <<lane, t>> \in settled)

\* Every control request is settled even when no other worker ever gets on.
ControlIsSettled ==
  \A op \in ControlOps, lane \in Lanes, t \in 1 .. MaxTicket :
    t \in DOMAIN jobs[lane] /\ jobs[lane][t] = op ~> <<lane, t>> \in settled

\* An operation id is admitted only while no request with that id is queued or
\* running.  It does not hold: README, section 5.
RetryIsRefusedWhileActive ==
  [][acceptor = NoOp /\ acceptor' # NoOp => ActiveJobs(acceptor') = 0]_vars
=============================================================================
