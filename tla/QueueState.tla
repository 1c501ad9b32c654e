----------------------------- MODULE QueueState -----------------------------
(***************************************************************************)
(* The value guarded by the mutex of the service's PriorityQueue           *)
(* (crates/service/src/priority_queue.rs) and what one critical section    *)
(* does to it.  An item is represented by its admission ticket; payload    *)
(* and enqueue time are left out.                                          *)
(*                                                                         *)
(* Everything here is a pure operator, so that PriorityQueue can drive one *)
(* queue with its threads and Dispatch can hold two of them.               *)
(***************************************************************************)
EXTENDS Naturals, Sequences

CONSTANTS MaxTicket,       \* the largest ticket (u64::MAX in the code)
          MaxControlBurst  \* MAX_CONTROL_BURST, 8 in the code

ASSUME MaxTicketAssumption == MaxTicket \in Nat
ASSUME BurstAssumption == MaxControlBurst \in Nat \ {0}

Priorities == {"Control", "Normal"}

\* The fields of State<T> that a critical section reads or writes.
QueueStates ==
  [next_ticket : 0 .. MaxTicket,
   control : Seq(1 .. MaxTicket),
   normal : Seq(1 .. MaxTicket),
   consecutive_control : Nat,
   closed : BOOLEAN]

EmptyQueue ==
  [next_ticket |-> 0, control |-> <<>>, normal |-> <<>>,
   consecutive_control |-> 0, closed |-> FALSE]

Depth(q) == Len(q.control) + Len(q.normal)

(***************************************************************************)
(* try_push_recoverable: admission.  Control traffic may use every slot,   *)
(* normal traffic only those that are not reserved.                        *)
(***************************************************************************)
\* Mutant: the reserve is forgotten.
FullIgnoresReserve(q, priority, capacity, reserve) == Depth(q) >= capacity

Full(q, priority, capacity, reserve) ==
  Depth(q) >= IF priority = "Control" THEN capacity ELSE capacity - reserve

Admissible(q, priority, capacity, reserve) ==
  /\ ~q.closed
  /\ ~Full(q, priority, capacity, reserve)
  /\ q.next_ticket < MaxTicket          \* checked_add(1), else TicketExhausted

Pushed(q, priority) ==
  LET ticket == q.next_ticket + 1
  IN  IF priority = "Control"
      THEN [q EXCEPT !.next_ticket = ticket, !.control = Append(@, ticket)]
      ELSE [q EXCEPT !.next_ticket = ticket, !.normal = Append(@, ticket)]

(***************************************************************************)
(* pop: which lane the next item comes from, and the queue without it.     *)
(***************************************************************************)
\* Mutant: control items always win.
ChooseControlAlways(q, burst) == q.control # <<>>

ChooseControl(q, burst) ==
  /\ q.control # <<>>
  /\ q.normal = <<>> \/ q.consecutive_control < burst

PoppedTicket(q, burst) ==
  IF ChooseControl(q, burst) THEN Head(q.control) ELSE Head(q.normal)

Popped(q, burst) ==
  IF ChooseControl(q, burst)
  THEN [q EXCEPT !.control = Tail(@), !.consecutive_control = @ + 1]
  ELSE [q EXCEPT !.normal = Tail(@), !.consecutive_control = 0]

Closed(q) == [q EXCEPT !.closed = TRUE]
=============================================================================
