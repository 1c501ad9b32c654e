--------------------------- MODULE PriorityQueue ---------------------------
(***************************************************************************)
(* The bounded two-lane queue that hands accepted requests to dispatch     *)
(* workers (crates/service/src/priority_queue.rs), at the granularity of   *)
(* its mutex and its condition variable.                                   *)
(*                                                                         *)
(* A worker runs the loop of spawn_worker (host.rs): pop an item, run it,  *)
(* pop again, and leave the loop when pop returns None.  Inside pop it is  *)
(*    "popping"  about to take, or to take again, the mutex,               *)
(*    "waiting"  blocked in Condvar::wait with the mutex released.         *)
(* A blocked worker may also wake for no reason, which std permits.        *)
(***************************************************************************)
EXTENDS QueueState, FiniteSets

CONSTANTS Capacity,          \* slots of the queue
          ControlReserve,    \* slots normal traffic may not use
          Threads            \* dispatch worker threads

\* with_capacity_and_control_reserve refuses every other configuration.
ASSUME QueueConfigAssumption ==
  /\ Capacity \in Nat \ {0}
  /\ ControlReserve \in 0 .. Capacity
  /\ IsFiniteSet(Threads)

VARIABLES state,      \* Mutex<State<T>>
          pc,         \* where each worker is
          item,       \* the ticket a running worker holds, else 0
          delivered,  \* history: tickets pop has returned
          bypassed    \* history: control items popped past the oldest normal one

queueVars == <<state, pc, item, delivered, bypassed>>

ThreadStates == {"popping", "waiting", "running", "exited"}

Sleeping == {w \in Threads : pc[w] = "waiting"}
Popping == {w \in Threads : pc[w] = "popping"}

QueueInit ==
  /\ state = EmptyQueue
  /\ pc = [w \in Threads |-> "popping"]
  /\ item = [w \in Threads |-> 0]
  /\ delivered = {}
  /\ bypassed = 0

\* Mutant: the notification is forgotten.
NotifyNobody == pc' = pc

\* Condvar::notify_one: one blocked worker, if there is one, returns to pop.
NotifyOne ==
  IF Sleeping = {}
  THEN pc' = pc
  ELSE \E w \in Sleeping : pc' = [pc EXCEPT ![w] = "popping"]

\* Condvar::notify_all.
NotifyAll ==
  pc' = [w \in Threads |-> IF pc[w] = "waiting" THEN "popping" ELSE pc[w]]

(***************************************************************************)
(* Actions.  A rejected push changes nothing and is a stuttering step.     *)
(***************************************************************************)
TryPush(priority) ==
  /\ Admissible(state, priority, Capacity, ControlReserve)
  /\ state' = Pushed(state, priority)
  /\ NotifyOne
  /\ UNCHANGED <<item, delivered, bypassed>>

PopItem(w) ==
  /\ pc[w] = "popping"
  /\ Depth(state) > 0
  /\ state' = Popped(state, MaxControlBurst)
  /\ item' = [item EXCEPT ![w] = PoppedTicket(state, MaxControlBurst)]
  /\ pc' = [pc EXCEPT ![w] = "running"]
  /\ delivered' = delivered \cup {PoppedTicket(state, MaxControlBurst)}
  /\ bypassed' = IF ChooseControl(state, MaxControlBurst) /\ state.normal # <<>>
                 THEN bypassed + 1
                 ELSE 0

PopNone(w) ==
  /\ pc[w] = "popping"
  /\ Depth(state) = 0
  /\ state.closed
  /\ pc' = [pc EXCEPT ![w] = "exited"]
  /\ UNCHANGED <<state, item, delivered, bypassed>>

\* Mutant: a worker that finds the queue closed and empty sleeps.
PopWaitIgnoresClosed(w) ==
  /\ pc[w] = "popping"
  /\ Depth(state) = 0
  /\ pc' = [pc EXCEPT ![w] = "waiting"]
  /\ UNCHANGED <<state, item, delivered, bypassed>>

PopWait(w) ==
  /\ pc[w] = "popping"
  /\ Depth(state) = 0
  /\ ~state.closed
  /\ pc' = [pc EXCEPT ![w] = "waiting"]
  /\ UNCHANGED <<state, item, delivered, bypassed>>

SpuriousWakeup(w) ==
  /\ pc[w] = "waiting"
  /\ pc' = [pc EXCEPT ![w] = "popping"]
  /\ UNCHANGED <<state, item, delivered, bypassed>>

\* Mutant: a worker that finished its item leaves the loop.
FinishItemAndExit(w) ==
  /\ pc[w] = "running"
  /\ pc' = [pc EXCEPT ![w] = "exited"]
  /\ item' = [item EXCEPT ![w] = 0]
  /\ UNCHANGED <<state, delivered, bypassed>>

\* The worker has answered the request and calls pop again.
FinishItem(w) ==
  /\ pc[w] = "running"
  /\ pc' = [pc EXCEPT ![w] = "popping"]
  /\ item' = [item EXCEPT ![w] = 0]
  /\ UNCHANGED <<state, delivered, bypassed>>

Close ==
  /\ ~state.closed
  /\ state' = Closed(state)
  /\ NotifyAll
  /\ UNCHANGED <<item, delivered, bypassed>>

PopStep(w) == PopItem(w) \/ PopNone(w) \/ PopWait(w)

QueueNext ==
  \/ \E p \in Priorities : TryPush(p)
  \/ \E w \in Threads : PopStep(w) \/ SpuriousWakeup(w) \/ FinishItem(w)
  \/ Close

QueueSpec == QueueInit /\ [][QueueNext]_queueVars

\* The operating system keeps scheduling every worker thread, and a request
\* ends: handlers run to completion and socket writes have a timeout.
QueueFairness == \A w \in Threads : WF_queueVars(PopStep(w)) /\ WF_queueVars(FinishItem(w))

QueueFairSpec == QueueSpec /\ QueueFairness

-----------------------------------------------------------------------------
QueueTypeOK ==
  /\ state \in QueueStates
  /\ pc \in [Threads -> ThreadStates]
  /\ item \in [Threads -> 0 .. MaxTicket]
  /\ delivered \subseteq 1 .. MaxTicket
  /\ bypassed \in Nat

(***************************************************************************)
(* Admission bound: the total depth never exceeds the capacity, and normal *)
(* items never occupy a reserved slot, so a control request is refused as  *)
(* busy only when control requests themselves fill the reserve.            *)
(***************************************************************************)
ReserveHeld ==
  /\ Depth(state) <= Capacity
  /\ Len(state.normal) <= Capacity - ControlReserve

(***************************************************************************)
(* Bounded bypass: once a normal item is queued, at most MAX_CONTROL_BURST *)
(* control items leave the queue before the oldest normal one does, also   *)
(* when control items were being served before it arrived.                 *)
(***************************************************************************)
BoundedBypass == bypassed <= MaxControlBurst

(***************************************************************************)
(* No lost wakeup: while some worker sleeps, every queued item has an      *)
(* awake worker on its way to the mutex.  notify_one is called once per    *)
(* push, and this is what makes that enough.                               *)
(***************************************************************************)
NoLostWakeup == Sleeping # {} => Depth(state) <= Cardinality(Popping)

\* close wakes everybody: no worker sleeps on a closed queue.
NobodySleepsOnClosed == state.closed => Sleeping = {}

\* Every admitted item is eventually handed to a worker, close or no close.
AdmittedIsDelivered ==
  \A t \in 1 .. MaxTicket : t <= state.next_ticket ~> t \in delivered

\* After close the workers drain the lanes and leave their loop, so that
\* joining them in ConcurrentDispatch::shutdown returns.
CloseDrains ==
  state.closed ~> (Depth(state) = 0 /\ \A w \in Threads : pc[w] = "exited")
=============================================================================
