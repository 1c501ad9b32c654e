--------------------------- MODULE ServiceProofs ---------------------------
(***************************************************************************)
(* What holds of the service process for every value of the constants: the *)
(* queue between acceptor and workers (PriorityQueue), the dispatcher over *)
(* such queues (Dispatch) and the timers that enforce deadlines            *)
(* (DeadlineTimers).  The three are separate specifications; they share    *)
(* the module as parts of one process and the lemmas on queue states.      *)
(***************************************************************************)
EXTENDS PriorityQueue, Dispatch, DeadlineTimers, FiniteSetTheorems, SequenceTheorems, TLAPS

(***************************************************************************)
(* The queue, for every capacity, reserve, burst limit and finite set of   *)
(* worker threads.                                                         *)
(***************************************************************************)
\* The lanes have lengths, and the depth is their sum.
LEMMA DepthFacts ==
  ASSUME NEW q \in QueueStates
  PROVE  /\ Len(q.control) \in Nat
         /\ Len(q.normal) \in Nat
         /\ Depth(q) \in Nat
         /\ Depth(q) >= Len(q.normal)
  BY DEF QueueStates, Depth

\* What an admitted push does to the queue value.
LEMMA LanePushed ==
  ASSUME NEW q \in QueueStates, NEW p \in Priorities, q.next_ticket < MaxTicket
  PROVE  /\ Pushed(q, p) \in QueueStates
         /\ Depth(Pushed(q, p)) = Depth(q) + 1
         /\ Pushed(q, p).consecutive_control = q.consecutive_control
         /\ Pushed(q, p).closed = q.closed
         /\ Len(Pushed(q, p).normal) =
              Len(q.normal) + (IF p = "Normal" THEN 1 ELSE 0)
  <1> DEFINE t == q.next_ticket + 1
  <1>1. /\ q = [next_ticket |-> q.next_ticket, control |-> q.control,
               normal |-> q.normal, closed |-> q.closed,
               consecutive_control |-> q.consecutive_control]
        /\ q.control \in Seq(1 .. MaxTicket) /\ q.normal \in Seq(1 .. MaxTicket)
        /\ q.consecutive_control \in Nat /\ q.closed \in BOOLEAN
        /\ t \in 1 .. MaxTicket
    BY MaxTicketAssumption DEF QueueStates
  <1>2. \A s \in Seq(1 .. MaxTicket) : /\ Append(s, t) \in Seq(1 .. MaxTicket)
                                       /\ Len(Append(s, t)) = Len(s) + 1
                                       /\ Len(s) \in Nat
    BY <1>1
  <1> HIDE DEF t
  <1>3. CASE p = "Control"
    <2>1. Pushed(q, p) = [q EXCEPT !.next_ticket = t,
                                   !.control = Append(q.control, t)]
      BY <1>3 DEF Pushed, t
    <2>2. Pushed(q, p) = [next_ticket |-> t, control |-> Append(q.control, t),
                          normal |-> q.normal, closed |-> q.closed,
                          consecutive_control |-> q.consecutive_control]
      BY <1>1, <2>1
    <2>3. Pushed(q, p) \in QueueStates
      BY <1>1, <1>2, <2>2, MaxTicketAssumption DEF QueueStates
    <2>4. /\ Pushed(q, p).consecutive_control = q.consecutive_control
          /\ Pushed(q, p).closed = q.closed
          /\ Pushed(q, p).control = Append(q.control, t)
          /\ Pushed(q, p).normal = q.normal
      BY <2>2
    <2>5. Len(Append(q.control, t)) + Len(q.normal) = (Len(q.control) + Len(q.normal)) + 1
      BY <1>1, <1>2
    <2>6. Depth(Pushed(q, p)) = Depth(q) + 1
      BY <2>4, <2>5, Zenon DEF Depth
    <2>7. Len(q.normal) = Len(q.normal) + 0
      BY <1>1, <1>2
    <2>8. (IF p = "Normal" THEN 1 ELSE 0) = 0
      BY <1>3
    <2> QED
      BY <2>3, <2>4, <2>6, <2>7, <2>8, Zenon
  <1>4. CASE p = "Normal"
    <2>1. Pushed(q, p) = [q EXCEPT !.next_ticket = t,
                                   !.normal = Append(q.normal, t)]
      BY <1>4 DEF Pushed, t
    <2>2. Pushed(q, p) = [next_ticket |-> t, control |-> q.control,
                          normal |-> Append(q.normal, t), closed |-> q.closed,
                          consecutive_control |-> q.consecutive_control]
      BY <1>1, <2>1
    <2>3. Pushed(q, p) \in QueueStates
      BY <1>1, <1>2, <2>2, MaxTicketAssumption DEF QueueStates
    <2>4. /\ Pushed(q, p).consecutive_control = q.consecutive_control
          /\ Pushed(q, p).closed = q.closed
          /\ Pushed(q, p).control = q.control
          /\ Pushed(q, p).normal = Append(q.normal, t)
      BY <2>2
    <2>5. Len(q.control) + Len(Append(q.normal, t)) = (Len(q.control) + Len(q.normal)) + 1
      BY <1>1, <1>2
    <2>6. Depth(Pushed(q, p)) = Depth(q) + 1
      BY <2>4, <2>5, Zenon DEF Depth
    <2>7. Len(Append(q.normal, t)) = Len(q.normal) + 1
      BY <1>1, <1>2
    <2>8. (IF p = "Normal" THEN 1 ELSE 0) = 1
      BY <1>4
    <2> QED
      BY <2>3, <2>4, <2>6, <2>7, <2>8, Zenon
  <1> QED BY <1>3, <1>4 DEF Priorities

\* What pop does to a queue value that is not empty.
LEMMA LanePopped ==
  ASSUME NEW q \in QueueStates, Depth(q) > 0
  PROVE  /\ Popped(q, MaxControlBurst) \in QueueStates
         /\ PoppedTicket(q, MaxControlBurst) \in 1 .. MaxTicket
         /\ Depth(Popped(q, MaxControlBurst)) = Depth(q) - 1
         /\ Popped(q, MaxControlBurst).closed = q.closed
         /\ Len(Popped(q, MaxControlBurst).normal) <= Len(q.normal)
         /\ Popped(q, MaxControlBurst).consecutive_control =
              IF ChooseControl(q, MaxControlBurst)
              THEN q.consecutive_control + 1 ELSE 0
  <1>1. /\ q = [next_ticket |-> q.next_ticket, control |-> q.control,
               normal |-> q.normal, closed |-> q.closed,
               consecutive_control |-> q.consecutive_control]
        /\ q.control \in Seq(1 .. MaxTicket) /\ q.normal \in Seq(1 .. MaxTicket)
        /\ q.consecutive_control \in Nat /\ q.closed \in BOOLEAN
        /\ q.next_ticket \in 0 .. MaxTicket
    BY DEF QueueStates
  <1>2. \A s \in Seq(1 .. MaxTicket) :
          /\ Len(s) \in Nat
          /\ s # <<>> => /\ Tail(s) \in Seq(1 .. MaxTicket)
                         /\ Len(Tail(s)) = Len(s) - 1
                         /\ Head(s) \in 1 .. MaxTicket
    BY HeadTailProperties, LenProperties
  <1>3. CASE ChooseControl(q, MaxControlBurst)
    <2>1. q.control # <<>>
      BY <1>3 DEF ChooseControl
    <2>2. Popped(q, MaxControlBurst) =
            [next_ticket |-> q.next_ticket, control |-> Tail(q.control),
             normal |-> q.normal, closed |-> q.closed,
             consecutive_control |-> q.consecutive_control + 1]
      BY <1>1, <1>3 DEF Popped
    <2>3. PoppedTicket(q, MaxControlBurst) = Head(q.control)
      BY <1>3 DEF PoppedTicket
    <2> QED
      BY <1>1, <1>2, <1>3, <2>1, <2>2, <2>3 DEF QueueStates, Depth
  <1>4. CASE ~ChooseControl(q, MaxControlBurst)
    <2>1. q.normal # <<>>
      BY <1>1, <1>4 DEF ChooseControl, Depth
    <2>2. Popped(q, MaxControlBurst) =
            [next_ticket |-> q.next_ticket, control |-> q.control,
             normal |-> Tail(q.normal), closed |-> q.closed,
             consecutive_control |-> 0]
      BY <1>1, <1>4 DEF Popped
    <2>3. PoppedTicket(q, MaxControlBurst) = Head(q.normal)
      BY <1>4 DEF PoppedTicket
    <2> QED
      BY <1>1, <1>2, <1>4, <2>1, <2>2, <2>3 DEF QueueStates, Depth
  <1> QED BY <1>3, <1>4

\* The queue, the workers and the history variables keep their types.
THEOREM QueueTypes == QueueSpec => []QueueTypeOK
  <1>1. QueueInit => QueueTypeOK
    BY MaxTicketAssumption
       DEF QueueInit, QueueTypeOK, QueueStates, EmptyQueue, ThreadStates
  <1>2. QueueTypeOK /\ [QueueNext]_queueVars => QueueTypeOK'
    <2> SUFFICES ASSUME QueueTypeOK, [QueueNext]_queueVars PROVE QueueTypeOK'
      OBVIOUS
    <2> USE DEF QueueTypeOK, ThreadStates
    <2>1. ASSUME NEW p \in Priorities, TryPush(p) PROVE QueueTypeOK'
      <3>1. state' \in QueueStates
        BY <2>1, LanePushed DEF TryPush, Admissible
      <3> QED
        BY <2>1, <3>1 DEF TryPush, NotifyOne, Sleeping
    <2>2. ASSUME NEW w \in Threads, PopItem(w) PROVE QueueTypeOK'
      <3>1. /\ state' \in QueueStates
            /\ PoppedTicket(state, MaxControlBurst) \in 1 .. MaxTicket
        BY <2>2, LanePopped DEF PopItem
      <3> DEFINE ticket == PoppedTicket(state, MaxControlBurst)
      <3>2. /\ item' = [item EXCEPT ![w] = ticket]
            /\ delivered' = delivered \cup {ticket}
            /\ pc' = [pc EXCEPT ![w] = "running"]
        BY <2>2 DEF PopItem
      <3>4. ticket \in 0 .. MaxTicket /\ ticket \in 1 .. MaxTicket
        BY <3>1, MaxTicketAssumption
      <3>3. bypassed' \in Nat
        BY <2>2 DEF PopItem
      <3> HIDE DEF ticket
      <3> QED
        BY <3>1, <3>2, <3>3, <3>4
    <2>3. ASSUME NEW w \in Threads,
                 PopNone(w) \/ PopWait(w) \/ SpuriousWakeup(w) \/ FinishItem(w)
          PROVE  QueueTypeOK'
      <3>1. pc' \in [Threads -> ThreadStates]
        BY <2>3 DEF PopNone, PopWait, SpuriousWakeup, FinishItem
      <3>2. item' \in [Threads -> 0 .. MaxTicket]
        BY <2>3, MaxTicketAssumption
           DEF PopNone, PopWait, SpuriousWakeup, FinishItem
      <3> QED
        BY <2>3, <3>1, <3>2 DEF PopNone, PopWait, SpuriousWakeup, FinishItem
    <2>4. ASSUME Close PROVE QueueTypeOK'
      BY <2>4 DEF Close, Closed, QueueStates, NotifyAll
    <2>5. CASE UNCHANGED queueVars
      BY <2>5 DEF queueVars
    <2> QED
      BY <2>1, <2>2, <2>3, <2>4, <2>5 DEF QueueNext, PopStep
  <1> QED
    BY <1>1, <1>2, PTL DEF QueueSpec

\* Normal items never take a reserved slot and the depth stays in bounds.
THEOREM ReserveIsHeld == QueueSpec => []ReserveHeld
  <1>1. QueueInit => ReserveHeld
    BY QueueConfigAssumption DEF QueueInit, ReserveHeld, EmptyQueue, Depth
  <1>2. QueueTypeOK /\ ReserveHeld /\ [QueueNext]_queueVars => ReserveHeld'
    <2> SUFFICES ASSUME QueueTypeOK, ReserveHeld, [QueueNext]_queueVars PROVE ReserveHeld'
      OBVIOUS
    <2>0. /\ state \in QueueStates /\ Capacity \in Nat /\ ControlReserve \in Nat
          /\ Len(state.normal) \in Nat /\ Len(state.control) \in Nat
          /\ ControlReserve <= Capacity
      BY QueueConfigAssumption DEF QueueTypeOK, QueueStates
    <2>9. Depth(state) \in Nat
      BY <2>0, DepthFacts
    <2>1. ASSUME NEW p \in Priorities, TryPush(p) PROVE ReserveHeld'
      <3>1. /\ Depth(state') = Depth(state) + 1
            /\ Len(state'.normal) =
                 Len(state.normal) + (IF p = "Normal" THEN 1 ELSE 0)
        BY <2>0, <2>1, LanePushed DEF TryPush, Admissible
      <3>2. Depth(state) < IF p = "Control" THEN Capacity
                           ELSE Capacity - ControlReserve
        BY <2>0, <2>1, <2>9 DEF TryPush, Admissible, Full
      <3>3. Depth(state) \in Nat /\ Len(state.normal) <= Depth(state)
        BY <2>0, DepthFacts
      <3>4. CASE p = "Control"
        BY <2>0, <3>1, <3>2, <3>3, <3>4 DEF ReserveHeld
      <3>5. CASE p = "Normal"
        BY <2>0, <3>1, <3>2, <3>3, <3>5 DEF ReserveHeld
      <3> QED BY <3>4, <3>5 DEF Priorities
    <2>2. ASSUME NEW w \in Threads, PopItem(w) PROVE ReserveHeld'
      <3>1. /\ Depth(state') = Depth(state) - 1
            /\ Len(state'.normal) <= Len(state.normal)
            /\ state' \in QueueStates
        BY <2>0, <2>2, LanePopped DEF PopItem
      <3>2. Len(state'.normal) \in Nat
        BY <3>1 DEF QueueStates
      <3> QED
        BY <2>0, <2>9, <3>1, <3>2 DEF ReserveHeld
    <2>3. ASSUME NEW w \in Threads,
                 PopNone(w) \/ PopWait(w) \/ SpuriousWakeup(w) \/ FinishItem(w)
          PROVE  ReserveHeld'
      BY <2>3 DEF ReserveHeld, PopNone, PopWait, SpuriousWakeup, FinishItem
    <2>4. ASSUME Close PROVE ReserveHeld'
      BY <2>0, <2>4 DEF ReserveHeld, Close, Closed, Depth, QueueStates
    <2>5. CASE UNCHANGED queueVars
      BY <2>5 DEF ReserveHeld, queueVars
    <2> QED
      BY <2>1, <2>2, <2>3, <2>4, <2>5 DEF QueueNext, PopStep
  <1> QED
    BY <1>1, <1>2, QueueTypes, PTL DEF QueueSpec

(***************************************************************************)
(* BoundedBypass is not inductive: it needs that the burst counter of the  *)
(* code, which keeps counting while the normal lane is empty, is never     *)
(* behind the number of bypasses.                                          *)
(***************************************************************************)
BypassInv == BoundedBypass /\ bypassed <= state.consecutive_control

\* No normal item waits for more than MAX_CONTROL_BURST control items.
THEOREM BypassIsBounded == QueueSpec => []BoundedBypass
  <1>1. QueueInit => BypassInv
    BY BurstAssumption DEF QueueInit, BypassInv, BoundedBypass, EmptyQueue
  <1>2. QueueTypeOK /\ BypassInv /\ [QueueNext]_queueVars => BypassInv'
    <2> SUFFICES ASSUME QueueTypeOK, BypassInv, [QueueNext]_queueVars PROVE BypassInv'
      OBVIOUS
    <2>0. /\ state \in QueueStates /\ bypassed \in Nat
          /\ state.consecutive_control \in Nat /\ MaxControlBurst \in Nat
      BY BurstAssumption DEF QueueTypeOK, QueueStates
    <2>1. ASSUME NEW p \in Priorities, TryPush(p) PROVE BypassInv'
      BY <2>0, <2>1, LanePushed
         DEF BypassInv, BoundedBypass, TryPush, Admissible
    <2>2. ASSUME NEW w \in Threads, PopItem(w) PROVE BypassInv'
      <3>1. state'.consecutive_control =
              IF ChooseControl(state, MaxControlBurst)
              THEN state.consecutive_control + 1 ELSE 0
        BY <2>0, <2>2, LanePopped DEF PopItem
      <3> QED
        BY <2>0, <2>2, <3>1
           DEF BypassInv, BoundedBypass, PopItem, ChooseControl
    <2>3. ASSUME NEW w \in Threads,
                 PopNone(w) \/ PopWait(w) \/ SpuriousWakeup(w) \/ FinishItem(w)
          PROVE  BypassInv'
      BY <2>3 DEF BypassInv, BoundedBypass, PopNone, PopWait, SpuriousWakeup,
                  FinishItem
    <2>4. ASSUME Close PROVE BypassInv'
      BY <2>0, <2>4 DEF BypassInv, BoundedBypass, Close, Closed, QueueStates
    <2>5. CASE UNCHANGED queueVars
      BY <2>5 DEF BypassInv, BoundedBypass, queueVars
    <2> QED
      BY <2>1, <2>2, <2>3, <2>4, <2>5 DEF QueueNext, PopStep
  <1>3. BypassInv => BoundedBypass
    BY DEF BypassInv
  <1> QED
    BY <1>1, <1>2, <1>3, QueueTypes, PTL DEF QueueSpec

\* A woken worker joins the workers that are on their way to the mutex.
LEMMA WakeOne ==
  ASSUME QueueTypeOK, NEW w \in Sleeping, pc' = [pc EXCEPT ![w] = "popping"]
  PROVE  /\ Popping' = Popping \cup {w}
         /\ Cardinality(Popping') = Cardinality(Popping) + 1
         /\ Cardinality(Popping) \in Nat
  <1>1. IsFiniteSet(Popping)
    BY QueueConfigAssumption, FS_Subset DEF Popping
  <1>2. Popping' = Popping \cup {w} /\ w \notin Popping
    BY DEF Popping, Sleeping, QueueTypeOK
  <1> QED
    BY <1>1, <1>2, FS_AddElement, FS_CardinalityType

(***************************************************************************)
(* One notification per push is enough: an item that is queued while some  *)
(* worker sleeps always has an awake worker of its own.                    *)
(***************************************************************************)
THEOREM WakeupsAreNotLost == QueueSpec => [](NoLostWakeup /\ NobodySleepsOnClosed)
  <1> DEFINE Inv == NoLostWakeup /\ NobodySleepsOnClosed
  <1>1. QueueInit => Inv
    BY DEF QueueInit, NoLostWakeup, NobodySleepsOnClosed, Sleeping
  <1>2. QueueTypeOK /\ Inv /\ [QueueNext]_queueVars => Inv'
    <2> SUFFICES ASSUME QueueTypeOK, Inv, [QueueNext]_queueVars PROVE Inv'
      OBVIOUS
    <2>0. /\ state \in QueueStates /\ Depth(state) \in Nat
          /\ IsFiniteSet(Popping) /\ Cardinality(Popping) \in Nat
      <3>1. IsFiniteSet(Popping)
        BY QueueConfigAssumption, FS_Subset DEF Popping
      <3> QED
        BY <3>1, FS_CardinalityType DEF QueueTypeOK, QueueStates, Depth
    <2>1. ASSUME NEW p \in Priorities, TryPush(p) PROVE Inv'
      <3>1. Depth(state') = Depth(state) + 1 /\ state'.closed = state.closed
            /\ ~state.closed
        BY <2>0, <2>1, LanePushed DEF TryPush, Admissible
      <3>2. CASE Sleeping = {}
        BY <2>1, <3>1, <3>2
           DEF TryPush, NotifyOne, NoLostWakeup, NobodySleepsOnClosed, Sleeping
      <3>3. CASE Sleeping # {}
        <4>1. PICK w \in Sleeping : pc' = [pc EXCEPT ![w] = "popping"]
          BY <2>1, <3>3 DEF TryPush, NotifyOne
        <4>2. Cardinality(Popping') = Cardinality(Popping) + 1
          BY <4>1, WakeOne
        <4> QED
          BY <2>0, <3>1, <3>3, <4>2 DEF NoLostWakeup, NobodySleepsOnClosed
      <3> QED BY <3>2, <3>3
    <2>2. ASSUME NEW w \in Threads, PopItem(w) PROVE Inv'
      <3>1. Depth(state') = Depth(state) - 1 /\ state'.closed = state.closed
        BY <2>0, <2>2, LanePopped DEF PopItem
      <3>2. Popping' = Popping \ {w} /\ w \in Popping /\ Sleeping' = Sleeping
        BY <2>2 DEF PopItem, Popping, Sleeping, QueueTypeOK
      <3>3. Cardinality(Popping') = Cardinality(Popping) - 1
        BY <2>0, <3>2, FS_RemoveElement
      <3> QED
        BY <2>0, <3>1, <3>2, <3>3 DEF NoLostWakeup, NobodySleepsOnClosed
    <2>3. ASSUME NEW w \in Threads, PopNone(w) PROVE Inv'
      <3>1. Sleeping' = Sleeping /\ Sleeping = {}
        BY <2>3 DEF PopNone, Sleeping, QueueTypeOK, NobodySleepsOnClosed
      <3> QED
        BY <3>1 DEF NoLostWakeup, NobodySleepsOnClosed
    <2>4. ASSUME NEW w \in Threads, PopWait(w) PROVE Inv'
      <3>1. /\ state' = state /\ Depth(state) = 0 /\ ~state.closed
            /\ IsFiniteSet(Popping')
        <4>1. Popping' = Popping \ {w}
          BY <2>4 DEF PopWait, Popping, QueueTypeOK
        <4> QED
          BY <2>0, <2>4, <4>1, FS_RemoveElement DEF PopWait
      <3> QED
        BY <3>1, FS_CardinalityType DEF NoLostWakeup, NobodySleepsOnClosed
    <2>5. ASSUME NEW w \in Threads, SpuriousWakeup(w) PROVE Inv'
      <3>1. w \in Sleeping /\ pc' = [pc EXCEPT ![w] = "popping"] /\ state' = state
        BY <2>5 DEF SpuriousWakeup, Sleeping
      <3>2. Cardinality(Popping') = Cardinality(Popping) + 1
        BY <3>1, WakeOne
      <3>3. Sleeping' \subseteq Sleeping
        BY <3>1 DEF Sleeping, QueueTypeOK
      <3> QED
        BY <2>0, <3>1, <3>2, <3>3 DEF NoLostWakeup, NobodySleepsOnClosed
    <2>6. ASSUME NEW w \in Threads, FinishItem(w) PROVE Inv'
      <3>1. /\ Popping' = Popping \cup {w} /\ w \notin Popping
            /\ Sleeping' = Sleeping /\ state' = state
        BY <2>6 DEF FinishItem, Popping, Sleeping, QueueTypeOK
      <3>2. Cardinality(Popping') = Cardinality(Popping) + 1
        BY <2>0, <3>1, FS_AddElement
      <3> QED
        BY <2>0, <3>1, <3>2 DEF NoLostWakeup, NobodySleepsOnClosed
    <2>7. ASSUME Close PROVE Inv'
      <3>1. Sleeping' = {}
        BY <2>7 DEF Close, NotifyAll, Sleeping, QueueTypeOK
      <3> QED
        BY <3>1 DEF NoLostWakeup, NobodySleepsOnClosed
    <2>8. CASE UNCHANGED queueVars
      BY <2>8 DEF queueVars, NoLostWakeup, NobodySleepsOnClosed, Sleeping, Popping
    <2> QED
      BY <2>1, <2>2, <2>3, <2>4, <2>5, <2>6, <2>7, <2>8 DEF QueueNext, PopStep
  <1> QED
    BY <1>1, <1>2, QueueTypes, PTL DEF QueueSpec

(***************************************************************************)
(* What holds of the concurrent dispatcher for any number of operation ids *)
(* and workers, any capacity, burst limit and record limit: no operation   *)
(* id is locked out by a record nobody will clear, the first executions of *)
(* one id never overlap, and a drained dispatcher has settled everything.  *)
(*                                                                         *)
(* The invariant follows a request on its way.  A ticket that was handed   *)
(* out waits in its lane, is held by a worker of that lane or is settled   *)
(* (Accounted).  As long as no handler of an id has returned, the request  *)
(* of that id is in one place only, and while it is anywhere its record is *)
(* active, so that admission refuses a second one (OneRequest).  Only a    *)
(* worker whose handler returned removes a record, which is why the        *)
(* exclusion ends there.                                                   *)
(***************************************************************************)
Stages == {"idle", "popped", "running", "written", "lost", "exited"} \cup TerminalPhases
WorkerStates == [stage : Stages, ticket : 0 .. MaxTicket]

DispatchTypeOK ==
  /\ journal \in [Ops -> Phases]
  /\ queues \in [Lanes -> QueueStates]
  /\ jobs \in [Lanes -> Seq(Ops)]
  /\ acceptor \in Ops \cup {NoOp}
  /\ workers \in [Workers -> WorkerStates]
  /\ returned \subseteq Ops

\* The tickets that wait in a queue.
Waiting(q) == {q.control[i] : i \in 1 .. Len(q.control)} \cup {q.normal[i] : i \in 1 .. Len(q.normal)}

Distinct(s) == \A i, j \in 1 .. Len(s) : s[i] = s[j] => i = j

\* A ticket waits once, and was handed out.
TicketsOK(q) ==
  /\ Distinct(q.control) /\ Distinct(q.normal)
  /\ \A i \in 1 .. Len(q.control), j \in 1 .. Len(q.normal) : q.control[i] # q.normal[j]
  /\ \A t \in Waiting(q) : t <= q.next_ticket

LanesOK ==
  \A lane \in Lanes :
    /\ TicketsOK(queues[lane])
    /\ Len(jobs[lane]) = queues[lane].next_ticket
    /\ queues[lane].closed => acceptor = NoOp /\ \A l \in Lanes : queues[l].closed

\* Where the worker w is, what it holds and what that implies.
WorkersOK ==
  \A w \in Workers :
    /\ workers[w].stage \in {"idle", "exited"} <=> workers[w].ticket = 0
    /\ workers[w].ticket <= queues[WorkerLane(w)].next_ticket
    /\ At(w, "exited") => queues[WorkerLane(w)].closed /\ Waiting(queues[WorkerLane(w)]) = {}
    /\ workers[w].stage \in {"Committed", "Failed", "written", "lost"} => Holds(w) \in returned

WaitsIn(op, lane, t) == t \in Waiting(queues[lane]) /\ jobs[lane][t] = op
RunsOn(op, w) == workers[w].stage \in {"popped", "running"} /\ Holds(w) = op

\* The request of op is in one place, and its record says so.
OneRequest(op) ==
  /\ \A l, k \in Lanes, t, u \in 1 .. MaxTicket : WaitsIn(op, l, t) /\ WaitsIn(op, k, u) => l = k /\ t = u
  /\ \A w, v \in Workers : RunsOn(op, w) /\ RunsOn(op, v) => w = v
  /\ \A l \in Lanes, t \in 1 .. MaxTicket, w \in Workers : ~(WaitsIn(op, l, t) /\ RunsOn(op, w))
  /\ acceptor = op => /\ \A l \in Lanes, t \in 1 .. MaxTicket : ~WaitsIn(op, l, t)
                      /\ \A w \in Workers : ~RunsOn(op, w)
  /\ \/ acceptor = op
     \/ \E l \in Lanes, t \in 1 .. MaxTicket : WaitsIn(op, l, t)
     \/ \E w \in Workers : RunsOn(op, w)
     => journal[op] \in ActivePhases

FirstRunOK == \A op \in Ops \ returned : OneRequest(op)

\* NoOrphanRecord, said with the places of OneRequest.
RecordOK ==
  \A op \in Ops : journal[op] \in ActivePhases =>
    \/ acceptor = op
    \/ \E l \in Lanes, t \in 1 .. MaxTicket : WaitsIn(op, l, t)
    \/ \E w \in Workers : HeldBy(w, op)

\* No request is forgotten.
Accounted ==
  \A lane \in Lanes, t \in 1 .. MaxTicket :
    t <= queues[lane].next_ticket =>
      \/ t \in Waiting(queues[lane])
      \/ <<lane, t>> \in settled
      \/ \E w \in Workers : WorkerLane(w) = lane /\ workers[w].ticket = t

DispatchInv ==
  /\ DispatchTypeOK
  /\ LanesOK
  /\ WorkersOK
  /\ FirstRunOK
  /\ RecordOK
  /\ Accounted

-----------------------------------------------------------------------------
(* Lanes and workers.                                                      *)

LEMMA ConstantFacts ==
  /\ WorkerCount \in Nat \ {0} /\ DispatchCapacity \in Nat \ {0}
  /\ ControlOps \subseteq Ops /\ NoOp \notin Ops
BY DispatchAssumption

\* Every worker and every request has a lane, and every lane has a worker
\* (ConcurrentDispatch::new).
LEMMA LaneFacts ==
  /\ \A w \in Workers : WorkerLane(w) \in Lanes
  /\ \A op : LaneOf(op) \in Lanes
  /\ \A lane \in Lanes : \E w \in Workers : WorkerLane(w) = lane
<1>1. \A w \in Workers : WorkerLane(w) \in Lanes
  BY DEF WorkerLane, Lanes
<1>2. \A op : LaneOf(op) \in Lanes
  BY DEF LaneOf, Lanes
<1>3. ASSUME NEW lane \in Lanes PROVE \E w \in Workers : WorkerLane(w) = lane
  <2>1. 1 \in Workers /\ (Split => 2 \in Workers)
    BY ConstantFacts DEF Workers, Split
  <2>2. CASE Split
    <3>1. WorkerLane(1) = "control" /\ WorkerLane(2) = "normal"
      BY <2>2 DEF WorkerLane
    <3>2. QED  BY <2>1, <2>2, <3>1 DEF Lanes
  <2>3. CASE ~Split
    <3>1. WorkerLane(1) = "shared"
      BY <2>3 DEF WorkerLane
    <3>2. QED  BY <2>1, <2>3, <3>1 DEF Lanes
  <2>4. QED  BY <2>2, <2>3
<1>4. QED  BY <1>1, <1>2, <1>3

(* One queue.                                                              *)

LEMMA EmptyQueueFacts ==
  /\ EmptyQueue \in QueueStates /\ TicketsOK(EmptyQueue) /\ Waiting(EmptyQueue) = {}
  /\ EmptyQueue.next_ticket = 0 /\ EmptyQueue.closed = FALSE
<1>1. Waiting(EmptyQueue) = {}
  BY DEF EmptyQueue, Waiting
<1>2. EmptyQueue \in QueueStates
  BY MaxTicketAssumption DEF EmptyQueue, QueueStates
<1>3. QED  BY <1>1, <1>2 DEF EmptyQueue, TicketsOK, Distinct

LEMMA AppendDistinct ==
  ASSUME NEW s \in Seq(1 .. MaxTicket), Distinct(s), NEW t \in 1 .. MaxTicket,
         \A i \in 1 .. Len(s) : s[i] # t
  PROVE  /\ Append(s, t) \in Seq(1 .. MaxTicket) /\ Distinct(Append(s, t))
         /\ {Append(s, t)[i] : i \in 1 .. Len(Append(s, t))} = {s[i] : i \in 1 .. Len(s)} \cup {t}
<1>1. /\ Append(s, t) \in Seq(1 .. MaxTicket) /\ Len(s) \in Nat /\ Len(Append(s, t)) = Len(s) + 1
      /\ \A i \in 1 .. Len(s) : Append(s, t)[i] = s[i]
      /\ Append(s, t)[Len(s) + 1] = t
  OBVIOUS
<1>2. Distinct(Append(s, t))
  BY <1>1 DEF Distinct
<1>3. {Append(s, t)[i] : i \in 1 .. Len(Append(s, t))} = {s[i] : i \in 1 .. Len(s)} \cup {t}
  <2>1. ASSUME NEW i \in 1 .. Len(s) + 1 PROVE Append(s, t)[i] \in {s[j] : j \in 1 .. Len(s)} \cup {t}
    <3>1. i \in 1 .. Len(s) \/ i = Len(s) + 1
      BY <1>1
    <3>2. QED  BY <1>1, <3>1
  <2>2. ASSUME NEW i \in 1 .. Len(s) PROVE s[i] \in {Append(s, t)[j] : j \in 1 .. Len(s) + 1}
    <3>1. i \in 1 .. Len(s) + 1 /\ Append(s, t)[i] = s[i]
      BY <1>1
    <3>2. QED  BY <3>1
  <2>3. t \in {Append(s, t)[j] : j \in 1 .. Len(s) + 1}
    <3>1. Len(s) + 1 \in 1 .. Len(s) + 1
      BY <1>1
    <3>2. QED  BY <1>1, <3>1
  <2>4. QED  BY <1>1, <2>1, <2>2, <2>3
<1>4. QED  BY <1>1, <1>2, <1>3

LEMMA TailDistinct ==
  ASSUME NEW s \in Seq(1 .. MaxTicket), Distinct(s), s # <<>>
  PROVE  /\ Tail(s) \in Seq(1 .. MaxTicket) /\ Distinct(Tail(s))
         /\ Head(s) \in {s[i] : i \in 1 .. Len(s)} /\ Head(s) \in 1 .. MaxTicket
         /\ {Tail(s)[i] : i \in 1 .. Len(Tail(s))} = {s[i] : i \in 1 .. Len(s)} \ {Head(s)}
<1>1. /\ Tail(s) \in Seq(1 .. MaxTicket) /\ Len(s) \in Nat \ {0} /\ Len(Tail(s)) = Len(s) - 1
      /\ \A i \in 1 .. Len(s) - 1 : Tail(s)[i] = s[i + 1]
      /\ Head(s) = s[1] /\ 1 \in 1 .. Len(s) /\ s[1] \in 1 .. MaxTicket
  <2>1. Len(s) \in Nat \ {0} /\ s \in [1 .. Len(s) -> 1 .. MaxTicket]
    BY LenProperties, EmptySeq
  <2>2. Tail(s) \in Seq(1 .. MaxTicket) /\ Len(Tail(s)) = Len(s) - 1
        /\ \A i \in 1 .. Len(Tail(s)) : Tail(s)[i] = s[i + 1]
    BY HeadTailProperties
  <2>3. Head(s) = s[1]
    OBVIOUS
  <2>4. 1 \in 1 .. Len(s)
    BY <2>1
  <2>5. s[1] \in 1 .. MaxTicket
    BY <2>1, <2>4
  <2>6. QED  BY <2>1, <2>2, <2>3, <2>4, <2>5
<1>2. Distinct(Tail(s))
  <2> SUFFICES ASSUME NEW i \in 1 .. Len(s) - 1, NEW j \in 1 .. Len(s) - 1, Tail(s)[i] = Tail(s)[j]
               PROVE  i = j
    BY <1>1 DEF Distinct
  <2>1. i + 1 \in 1 .. Len(s) /\ j + 1 \in 1 .. Len(s) /\ s[i + 1] = s[j + 1]
    BY <1>1
  <2>2. i + 1 = j + 1
    BY <2>1 DEF Distinct
  <2>3. QED  BY <1>1, <2>2
<1>3. {Tail(s)[i] : i \in 1 .. Len(Tail(s))} = {s[i] : i \in 1 .. Len(s)} \ {Head(s)}
  <2>1. ASSUME NEW i \in 1 .. Len(s) - 1 PROVE Tail(s)[i] \in {s[j] : j \in 1 .. Len(s)} \ {s[1]}
    <3>1. i + 1 \in 1 .. Len(s) /\ i + 1 # 1
      BY <1>1
    <3>2. QED  BY <1>1, <3>1 DEF Distinct
  <2>2. ASSUME NEW i \in 1 .. Len(s), s[i] # s[1] PROVE s[i] \in {Tail(s)[j] : j \in 1 .. Len(s) - 1}
    <3>1. i - 1 \in 1 .. Len(s) - 1 /\ (i - 1) + 1 = i
      BY <1>1, <2>2
    <3>2. QED  BY <1>1, <3>1
  <2>3. QED  BY <1>1, <2>1, <2>2
<1>4. QED  BY <1>1, <1>2, <1>3

LEMMA QueueFields ==
  ASSUME NEW q \in QueueStates
  PROVE  /\ q = [next_ticket |-> q.next_ticket, control |-> q.control, normal |-> q.normal,
                consecutive_control |-> q.consecutive_control, closed |-> q.closed]
         /\ q.control \in Seq(1 .. MaxTicket) /\ q.normal \in Seq(1 .. MaxTicket)
         /\ q.next_ticket \in 0 .. MaxTicket /\ q.consecutive_control \in Nat /\ q.closed \in BOOLEAN
BY DEF QueueStates

LEMMA WaitingBounded ==
  ASSUME NEW q \in QueueStates
  PROVE  Waiting(q) \subseteq 1 .. MaxTicket
<1>1. q.control \in Seq(1 .. MaxTicket) /\ q.normal \in Seq(1 .. MaxTicket)
  BY DEF QueueStates
<1>2. /\ \A i \in 1 .. Len(q.control) : q.control[i] \in 1 .. MaxTicket
      /\ \A i \in 1 .. Len(q.normal) : q.normal[i] \in 1 .. MaxTicket
  BY <1>1, LenProperties
<1>3. QED  BY <1>2 DEF Waiting

\* An admitted request waits under a ticket of its own.
LEMMA PushedFacts ==
  ASSUME NEW q \in QueueStates, TicketsOK(q), q.next_ticket < MaxTicket, NEW priority \in Priorities
  PROVE  /\ Pushed(q, priority) \in QueueStates
         /\ TicketsOK(Pushed(q, priority))
         /\ Waiting(Pushed(q, priority)) = Waiting(q) \cup {q.next_ticket + 1}
         /\ Pushed(q, priority).next_ticket = q.next_ticket + 1
         /\ Pushed(q, priority).closed = q.closed
<1>0. /\ q = [next_ticket |-> q.next_ticket, control |-> q.control, normal |-> q.normal,
             consecutive_control |-> q.consecutive_control, closed |-> q.closed]
      /\ q.control \in Seq(1 .. MaxTicket) /\ q.normal \in Seq(1 .. MaxTicket)
      /\ q.next_ticket \in 0 .. MaxTicket /\ q.consecutive_control \in Nat /\ q.closed \in BOOLEAN
  BY QueueFields, Zenon
<1> DEFINE t == q.next_ticket + 1
           r == Pushed(q, priority)
<1>1. t \in 1 .. MaxTicket /\ q.next_ticket \in Nat
  BY <1>0, MaxTicketAssumption
<1>2. /\ \A i \in 1 .. Len(q.control) : q.control[i] # t
      /\ \A i \in 1 .. Len(q.normal) : q.normal[i] # t
  <2>1. \A u \in Waiting(q) : u # t
    BY <1>1 DEF TicketsOK
  <2>2. QED  BY <2>1 DEF Waiting
<1> HIDE DEF t
<1>3. CASE priority = "Control"
  <2>1. r = [next_ticket |-> t, control |-> Append(q.control, t), normal |-> q.normal,
             consecutive_control |-> q.consecutive_control, closed |-> q.closed]
    BY <1>3, <1>0 DEF Pushed, t
  <2>2. r.control = Append(q.control, t) /\ r.normal = q.normal /\ r.next_ticket = t /\ r.closed = q.closed
    BY <2>1
  <2>3. /\ Append(q.control, t) \in Seq(1 .. MaxTicket) /\ Distinct(Append(q.control, t))
        /\ {Append(q.control, t)[i] : i \in 1 .. Len(Append(q.control, t))}
             = {q.control[i] : i \in 1 .. Len(q.control)} \cup {t}
    BY <1>1, <1>2, <1>0, AppendDistinct DEF TicketsOK
  <2>4. r \in QueueStates
    BY <1>1, <2>1, <2>3, <1>0 DEF QueueStates
  <2>5. Waiting(r) = Waiting(q) \cup {t}
    BY <2>2, <2>3 DEF Waiting
  <2>6. \A i \in 1 .. Len(r.control), j \in 1 .. Len(r.normal) : r.control[i] # r.normal[j]
    <3>1. ASSUME NEW i \in 1 .. Len(r.control), NEW j \in 1 .. Len(q.normal) PROVE r.control[i] # q.normal[j]
      <4>1. r.control[i] \in {q.control[k] : k \in 1 .. Len(q.control)} \cup {t}
        BY <2>2, <2>3
      <4>2. QED  BY <1>2, <4>1 DEF TicketsOK
    <3>2. QED  BY <2>2, <3>1
  <2>7. \A u \in Waiting(r) : u <= t
    <3>1. ASSUME NEW u \in Waiting(q) PROVE u <= t
      <4>1. u \in 1 .. MaxTicket
        BY WaitingBounded
      <4>2. QED  BY <1>1, <4>1 DEF TicketsOK, t
    <3>2. QED  BY <1>1, <2>5, <3>1
  <2>8. QED  BY <2>2, <2>3, <2>4, <2>5, <2>6, <2>7 DEF TicketsOK, t
<1>4. CASE priority = "Normal"
  <2>1. r = [next_ticket |-> t, control |-> q.control, normal |-> Append(q.normal, t),
             consecutive_control |-> q.consecutive_control, closed |-> q.closed]
    BY <1>4, <1>0 DEF Pushed, t
  <2>2. r.control = q.control /\ r.normal = Append(q.normal, t) /\ r.next_ticket = t /\ r.closed = q.closed
    BY <2>1
  <2>3. /\ Append(q.normal, t) \in Seq(1 .. MaxTicket) /\ Distinct(Append(q.normal, t))
        /\ {Append(q.normal, t)[i] : i \in 1 .. Len(Append(q.normal, t))}
             = {q.normal[i] : i \in 1 .. Len(q.normal)} \cup {t}
    BY <1>1, <1>2, <1>0, AppendDistinct DEF TicketsOK
  <2>4. r \in QueueStates
    BY <1>1, <2>1, <2>3, <1>0 DEF QueueStates
  <2>5. Waiting(r) = Waiting(q) \cup {t}
    <3>1. PICK C, N : /\ C = {q.control[i] : i \in 1 .. Len(q.control)}
                      /\ N = {q.normal[i] : i \in 1 .. Len(q.normal)}
      OBVIOUS
    <3>2. Waiting(r) = C \cup (N \cup {t})
      BY <2>2, <2>3, <3>1 DEF Waiting
    <3>3. Waiting(q) = C \cup N
      BY <3>1 DEF Waiting
    <3>4. QED  BY <3>2, <3>3
  <2>6. \A i \in 1 .. Len(r.control), j \in 1 .. Len(r.normal) : r.control[i] # r.normal[j]
    <3>1. ASSUME NEW i \in 1 .. Len(q.control), NEW j \in 1 .. Len(r.normal) PROVE q.control[i] # r.normal[j]
      <4>1. r.normal[j] \in {q.normal[k] : k \in 1 .. Len(q.normal)} \cup {t}
        BY <2>2, <2>3
      <4>2. QED  BY <1>2, <4>1 DEF TicketsOK
    <3>2. QED  BY <2>2, <3>1
  <2>7. \A u \in Waiting(r) : u <= t
    <3>1. ASSUME NEW u \in Waiting(q) PROVE u <= t
      <4>1. u \in 1 .. MaxTicket
        BY WaitingBounded
      <4>2. QED  BY <1>1, <4>1 DEF TicketsOK, t
    <3>2. QED  BY <1>1, <2>5, <3>1
  <2>8. QED  BY <2>2, <2>3, <2>4, <2>5, <2>6, <2>7 DEF TicketsOK, t
<1>5. QED  BY <1>3, <1>4 DEF Priorities

\* pop takes one ticket out, whichever lane the burst limit makes it choose.
LEMMA PoppedFacts ==
  ASSUME NEW q \in QueueStates, TicketsOK(q), Depth(q) > 0
  PROVE  /\ Popped(q, MaxControlBurst) \in QueueStates
         /\ TicketsOK(Popped(q, MaxControlBurst))
         /\ PoppedTicket(q, MaxControlBurst) \in Waiting(q)
         /\ Waiting(Popped(q, MaxControlBurst)) = Waiting(q) \ {PoppedTicket(q, MaxControlBurst)}
         /\ Popped(q, MaxControlBurst).next_ticket = q.next_ticket
         /\ Popped(q, MaxControlBurst).closed = q.closed
<1>0. /\ q = [next_ticket |-> q.next_ticket, control |-> q.control, normal |-> q.normal,
             consecutive_control |-> q.consecutive_control, closed |-> q.closed]
      /\ q.control \in Seq(1 .. MaxTicket) /\ q.normal \in Seq(1 .. MaxTicket)
      /\ q.next_ticket \in 0 .. MaxTicket /\ q.consecutive_control \in Nat /\ q.closed \in BOOLEAN
  BY QueueFields, Zenon
<1> DEFINE t == PoppedTicket(q, MaxControlBurst)
           r == Popped(q, MaxControlBurst)
           C == {q.control[i] : i \in 1 .. Len(q.control)}
           N == {q.normal[i] : i \in 1 .. Len(q.normal)}
<1>1. Waiting(q) = C \cup N /\ \A u \in C : u \notin N
  BY DEF Waiting, TicketsOK
<1>2. CASE ChooseControl(q, MaxControlBurst)
  <2>1. q.control # <<>> /\ t = Head(q.control)
    BY <1>2 DEF ChooseControl, PoppedTicket
  <2>2. r = [next_ticket |-> q.next_ticket, control |-> Tail(q.control), normal |-> q.normal,
             consecutive_control |-> q.consecutive_control + 1, closed |-> q.closed]
    BY <1>2, <1>0 DEF Popped
  <2>3. r.control = Tail(q.control) /\ r.normal = q.normal /\ r.next_ticket = q.next_ticket /\ r.closed = q.closed
    BY <2>2
  <2>4. /\ Tail(q.control) \in Seq(1 .. MaxTicket) /\ Distinct(Tail(q.control)) /\ t \in C
        /\ {Tail(q.control)[i] : i \in 1 .. Len(Tail(q.control))} = C \ {t}
    BY <2>1, <1>0, TailDistinct DEF TicketsOK
  <2>5. q.consecutive_control + 1 \in Nat
    BY <1>0
  <2>6. r \in QueueStates
    BY <2>2, <2>4, <2>5, <1>0 DEF QueueStates
  <2>7. Waiting(r) = Waiting(q) \ {t} /\ t \in Waiting(q)
    <3>1. Waiting(r) = (C \ {t}) \cup N
      BY <2>3, <2>4 DEF Waiting
    <3>2. QED  BY <1>1, <2>4, <3>1
  <2>8. \A i \in 1 .. Len(r.control), j \in 1 .. Len(r.normal) : r.control[i] # r.normal[j]
    <3>1. ASSUME NEW i \in 1 .. Len(r.control), NEW j \in 1 .. Len(r.normal) PROVE r.control[i] # r.normal[j]
      <4>1. r.control[i] \in C /\ r.normal[j] \in N
        BY <2>3, <2>4
      <4>2. QED  BY <1>1, <4>1
    <3>2. QED  BY <3>1
  <2>9. \A u \in Waiting(r) : u <= r.next_ticket
    BY <2>3, <2>7 DEF TicketsOK
  <2>10. QED  BY <2>3, <2>4, <2>6, <2>7, <2>8, <2>9 DEF TicketsOK
<1>3. CASE ~ChooseControl(q, MaxControlBurst)
  <2>1. q.normal # <<>> /\ t = Head(q.normal)
    BY <1>3, <1>0 DEF ChooseControl, PoppedTicket, Depth
  <2>2. r = [next_ticket |-> q.next_ticket, control |-> q.control, normal |-> Tail(q.normal),
             consecutive_control |-> 0, closed |-> q.closed]
    BY <1>3, <1>0 DEF Popped
  <2>3. r.control = q.control /\ r.normal = Tail(q.normal) /\ r.next_ticket = q.next_ticket /\ r.closed = q.closed
    BY <2>2
  <2>4. /\ Tail(q.normal) \in Seq(1 .. MaxTicket) /\ Distinct(Tail(q.normal)) /\ t \in N
        /\ {Tail(q.normal)[i] : i \in 1 .. Len(Tail(q.normal))} = N \ {t}
    BY <2>1, <1>0, TailDistinct DEF TicketsOK
  <2>5. r \in QueueStates
    BY <2>2, <2>4, <1>0 DEF QueueStates
  <2>6. Waiting(r) = Waiting(q) \ {t} /\ t \in Waiting(q)
    <3>1. Waiting(r) = C \cup (N \ {t})
      BY <2>3, <2>4 DEF Waiting
    <3>2. QED  BY <1>1, <2>4, <3>1
  <2>7. \A i \in 1 .. Len(r.control), j \in 1 .. Len(r.normal) : r.control[i] # r.normal[j]
    <3>1. ASSUME NEW i \in 1 .. Len(r.control), NEW j \in 1 .. Len(r.normal) PROVE r.control[i] # r.normal[j]
      <4>1. r.control[i] \in C /\ r.normal[j] \in N
        BY <2>3, <2>4
      <4>2. QED  BY <1>1, <4>1
    <3>2. QED  BY <3>1
  <2>8. \A u \in Waiting(r) : u <= r.next_ticket
    BY <2>3, <2>6 DEF TicketsOK
  <2>9. QED  BY <2>3, <2>4, <2>5, <2>6, <2>7, <2>8 DEF TicketsOK
<1>4. QED  BY <1>2, <1>3

\* What can be said of the tickets of a queue, and of one without any.
LEMMA WaitingFacts ==
  ASSUME NEW q \in QueueStates
  PROVE  /\ Waiting(q) \subseteq 1 .. MaxTicket
         /\ Depth(q) = 0 => Waiting(q) = {}
         /\ ~(Depth(q) > 0) => Waiting(q) = {}
         /\ Closed(q) \in QueueStates /\ Closed(q).closed = TRUE /\ Closed(q).next_ticket = q.next_ticket
         /\ Waiting(Closed(q)) = Waiting(q) /\ (TicketsOK(q) => TicketsOK(Closed(q)))
<1>0. /\ q = [next_ticket |-> q.next_ticket, control |-> q.control, normal |-> q.normal,
             consecutive_control |-> q.consecutive_control, closed |-> q.closed]
      /\ q.control \in Seq(1 .. MaxTicket) /\ q.normal \in Seq(1 .. MaxTicket)
      /\ q.next_ticket \in 0 .. MaxTicket /\ q.consecutive_control \in Nat /\ q.closed \in BOOLEAN
  BY QueueFields, Zenon
<1>1. Waiting(q) \subseteq 1 .. MaxTicket
  BY WaitingBounded
<1>2. ~(Depth(q) > 0) => Waiting(q) = {}
  BY <1>0 DEF Waiting, Depth
<1>3. Depth(q) = 0 => ~(Depth(q) > 0)
  OBVIOUS
<1>4. /\ Closed(q).closed = TRUE /\ Closed(q).next_ticket = q.next_ticket
      /\ Closed(q).control = q.control /\ Closed(q).normal = q.normal
  BY DEF Closed, QueueStates
<1>5. Closed(q) \in QueueStates
  BY DEF Closed, QueueStates
<1>6. Waiting(Closed(q)) = Waiting(q) /\ (TicketsOK(q) => TicketsOK(Closed(q)))
  BY <1>4 DEF Waiting, TicketsOK
<1>7. QED  BY <1>1, <1>2, <1>3, <1>4, <1>5, <1>6

-----------------------------------------------------------------------------
(* The journal.                                                            *)

LEMMA PrunedFacts ==
  ASSUME NEW records \in [Ops -> Phases], NEW fresh, NEW r \in Pruned(records, fresh)
  PROVE  /\ r \in [Ops -> Phases]
         /\ \A op \in Ops : \/ r[op] = records[op]
                            \/ r[op] = "absent" /\ op \notin fresh
                                 /\ records[op] \in {"Committed", "Failed", "Unknown"}
<1>1. PICK gone \in SUBSET (InPhase(records, TerminalPhases \cup {"Unknown"}) \ fresh) :
        r = [op \in Ops |-> IF op \in gone THEN "absent" ELSE records[op]]
  BY DEF Pruned
<1>2. "absent" \in Phases
  BY DEF Phases
<1>3. QED  BY <1>1, <1>2 DEF InPhase, TerminalPhases

LEMMA MarkedFacts ==
  ASSUME NEW records \in [Ops -> Phases], NEW op \in Ops, NEW phase \in Phases
  PROVE  /\ Marked(records, op, phase) \in [Ops -> Phases]
         /\ Marked(records, op, phase)[op] \in {phase, "absent"}
         /\ records[op] # "absent" => Marked(records, op, phase)[op] = phase
         /\ \A x \in Ops : x # op => Marked(records, op, phase)[x] = records[x]
BY DEF Marked

LEMMA RemovedFacts ==
  ASSUME NEW records \in [Ops -> Phases], NEW op \in Ops
  PROVE  /\ Removed(records, op) \in [Ops -> Phases]
         /\ Removed(records, op)[op] = "absent"
         /\ \A x \in Ops : x # op => Removed(records, op)[x] = records[x]
BY DEF Removed, Phases

-----------------------------------------------------------------------------
(* The initial states.                                                     *)

LEMMA InitInv == Init => DispatchInv
<1> SUFFICES ASSUME Init PROVE DispatchInv
  OBVIOUS
<1>1. DispatchTypeOK
  <2>1. journal \in [Ops -> Phases]
    BY DEF Init, Phases
  <2>2. Idle \in WorkerStates /\ <<>> \in Seq(Ops)
    BY MaxTicketAssumption DEF Idle, WorkerStates, Stages
  <2>3. QED  BY <2>1, <2>2, EmptyQueueFacts DEF Init, DispatchTypeOK
<1>2. LanesOK
  BY EmptyQueueFacts DEF Init, LanesOK
<1>3. WorkersOK
  BY EmptyQueueFacts, LaneFacts DEF Init, WorkersOK, Idle, At
<1>4. FirstRunOK
  BY EmptyQueueFacts, LaneFacts, ConstantFacts DEF Init, FirstRunOK, OneRequest, WaitsIn, RunsOn, Idle
<1>5. RecordOK
  BY DEF Init, RecordOK, ActivePhases
<1>6. Accounted
  BY EmptyQueueFacts DEF Init, Accounted
<1>7. QED  BY <1>1, <1>2, <1>3, <1>4, <1>5, <1>6 DEF DispatchInv

-----------------------------------------------------------------------------
(* A worker that does not pop.                                             *)

\* What the worker w leaves of the journal when it goes on to k: records of
\* other operations are pruned at most, and only if they are not active; the
\* record of its own is active only as long as it holds the job, and stays
\* active until a handler has returned or panicked.
JournalKept(w, k) ==
  /\ journal' \in [Ops -> Phases]
  /\ \A op \in Ops : journal'[op] \in ActivePhases =>
       \/ journal[op] \in ActivePhases /\ (HeldBy(w, op) => k.ticket # 0)
       \/ HeldBy(w, op) /\ k.ticket # 0
  /\ \A op \in Ops \ returned' : journal[op] \in ActivePhases =>
       \/ journal'[op] \in ActivePhases
       \/ HeldBy(w, op) /\ At(w, "running") /\ k.ticket = 0

\* The worker keeps its job or settles it.
WorkerGoes(w, k) ==
  /\ workers' = [workers EXCEPT ![w] = k]
  /\ UNCHANGED <<queues, jobs, acceptor>>
  /\ k.stage \in {"idle", "exited"} <=> k.ticket = 0
  /\ \/ k.ticket = workers[w].ticket /\ settled' = settled
     \/ k.ticket = 0 /\ settled' = settled \cup {<<WorkerLane(w), workers[w].ticket>>}
  /\ k.stage = "exited" => queues[WorkerLane(w)].closed /\ Waiting(queues[WorkerLane(w)]) = {}
  /\ returned \subseteq returned' /\ returned' \subseteq Ops
  /\ k.stage \in {"Committed", "Failed", "written", "lost"} => Holds(w) \in returned'
  /\ k.stage \in {"popped", "running"} => workers[w].stage \in {"popped", "running"}
  /\ JournalKept(w, k)

LEMMA WorkerGoesInv ==
  ASSUME DispatchInv, NEW w \in Workers, NEW k \in WorkerStates, WorkerGoes(w, k)
  PROVE  DispatchInv'
<1> USE DEF DispatchInv
<1>1. /\ workers' = [workers EXCEPT ![w] = k] /\ UNCHANGED <<queues, jobs, acceptor>>
      /\ workers \in [Workers -> WorkerStates]
  BY DEF WorkerGoes, DispatchTypeOK
<1>2. \A v \in Workers : v # w => workers'[v] = workers[v] /\ Holds(v)' = Holds(v)
  BY <1>1 DEF Holds
<1>3. workers'[w] = k /\ (k.ticket = workers[w].ticket => Holds(w)' = Holds(w))
  BY <1>1 DEF Holds
<1>4. \A op, l, t : WaitsIn(op, l, t)' <=> WaitsIn(op, l, t)
  BY <1>1 DEF WaitsIn
<1>5. DispatchTypeOK'
  BY <1>1 DEF WorkerGoes, JournalKept, DispatchTypeOK
<1>6. LanesOK'
  BY <1>1 DEF LanesOK
<1>7. WorkersOK'
  <2> SUFFICES ASSUME NEW v \in Workers
               PROVE  (/\ workers[v].stage \in {"idle", "exited"} <=> workers[v].ticket = 0
                       /\ workers[v].ticket <= queues[WorkerLane(v)].next_ticket
                       /\ At(v, "exited") => queues[WorkerLane(v)].closed /\ Waiting(queues[WorkerLane(v)]) = {}
                       /\ workers[v].stage \in {"Committed", "Failed", "written", "lost"} => Holds(v) \in returned)'
    BY DEF WorkersOK
  <2>1. CASE v # w
    BY <1>1, <1>2, <2>1 DEF WorkersOK, WorkerGoes, At
  <2>2. CASE v = w
    <3>1. k.ticket <= queues[WorkerLane(w)].next_ticket
      <4>1. queues[WorkerLane(w)].next_ticket \in Nat
        BY LaneFacts DEF DispatchTypeOK, QueueStates
      <4>2. QED  BY <4>1 DEF WorkerGoes, WorkersOK
    <3>2. k.stage \in {"Committed", "Failed", "written", "lost"} => k.ticket = workers[w].ticket
      BY DEF WorkerGoes
    <3>3. QED  BY <1>1, <1>3, <2>2, <3>1, <3>2 DEF WorkerGoes, At
  <2>3. QED  BY <2>1, <2>2
<1>8. \A op, v : v \in Workers /\ RunsOn(op, v)' => RunsOn(op, v)
  <2>1. k.stage \in {"popped", "running"} => k.ticket = workers[w].ticket /\ workers[w].stage \in {"popped", "running"}
    BY DEF WorkerGoes
  <2>2. QED  BY <1>2, <1>3, <2>1 DEF RunsOn
<1>9. FirstRunOK'
  <2> SUFFICES ASSUME NEW op \in Ops, op \notin returned' PROVE OneRequest(op)'
    BY DEF FirstRunOK
  <2>1. OneRequest(op) /\ op \notin returned
    BY DEF FirstRunOK, WorkerGoes
  <2>2. ASSUME \/ acceptor' = op
               \/ \E l \in Lanes, t \in 1 .. MaxTicket : WaitsIn(op, l, t)'
               \/ \E v \in Workers : RunsOn(op, v)'
        PROVE  journal'[op] \in ActivePhases
    <3>1. journal[op] \in ActivePhases
      BY <1>1, <1>4, <1>8, <2>1, <2>2 DEF OneRequest
    <3>2. ASSUME HeldBy(w, op), At(w, "running"), k.ticket = 0 PROVE FALSE
      <4>1. RunsOn(op, w)
        BY <3>2 DEF HeldBy, At, RunsOn
      <4>2. ~RunsOn(op, w)'
        BY <1>3, <3>2 DEF RunsOn, WorkerGoes
      <4>3. \A v \in Workers : ~RunsOn(op, v)'
        BY <1>8, <2>1, <4>1, <4>2 DEF OneRequest
      <4>4. acceptor' # op /\ \A l \in Lanes, t \in 1 .. MaxTicket : ~WaitsIn(op, l, t)'
        <5>1. acceptor = op => \A v \in Workers : ~RunsOn(op, v)
          BY <2>1 DEF OneRequest
        <5>2. \A l \in Lanes, t \in 1 .. MaxTicket : ~WaitsIn(op, l, t)
          BY <2>1, <4>1 DEF OneRequest
        <5>3. QED  BY <1>1, <1>4, <4>1, <5>1, <5>2
      <4>5. QED  BY <2>2, <4>3, <4>4
    <3>3. QED  BY <3>1, <3>2 DEF WorkerGoes, JournalKept
  <2>3. QED  BY <1>1, <1>4, <1>8, <2>1, <2>2 DEF OneRequest
<1>10. RecordOK'
  <2> SUFFICES ASSUME NEW op \in Ops, journal'[op] \in ActivePhases
               PROVE  \/ acceptor' = op
                      \/ \E l \in Lanes, t \in 1 .. MaxTicket : WaitsIn(op, l, t)'
                      \/ \E v \in Workers : HeldBy(v, op)'
    BY DEF RecordOK
  <2>1. HeldBy(w, op) /\ k.ticket # 0 => HeldBy(w, op)'
    BY <1>3 DEF WorkerGoes, HeldBy
  <2>2. \A v \in Workers : v # w /\ HeldBy(v, op) => HeldBy(v, op)'
    BY <1>2 DEF HeldBy
  <2>3. \/ journal[op] \in ActivePhases /\ (HeldBy(w, op) => k.ticket # 0)
        \/ HeldBy(w, op) /\ k.ticket # 0
    BY DEF WorkerGoes, JournalKept
  <2>4. QED  BY <1>1, <1>4, <2>1, <2>2, <2>3 DEF RecordOK
<1>11. Accounted'
  <2> SUFFICES ASSUME NEW lane \in Lanes, NEW t \in 1 .. MaxTicket, t <= queues[lane].next_ticket
               PROVE  \/ t \in Waiting(queues[lane])
                      \/ <<lane, t>> \in settled'
                      \/ \E v \in Workers : WorkerLane(v) = lane /\ workers'[v].ticket = t
    BY <1>1 DEF Accounted
  <2>1. CASE t \in Waiting(queues[lane]) \/ <<lane, t>> \in settled
    BY <2>1 DEF WorkerGoes
  <2>2. CASE \E v \in Workers : WorkerLane(v) = lane /\ workers[v].ticket = t
    <3>1. PICK v \in Workers : WorkerLane(v) = lane /\ workers[v].ticket = t
      BY <2>2
    <3>2. CASE v # w
      BY <1>2, <3>1, <3>2
    <3>3. CASE v = w
      BY <1>3, <3>1, <3>3 DEF WorkerGoes
    <3>4. QED  BY <3>2, <3>3
  <2>3. QED  BY <2>1, <2>2 DEF Accounted
<1>12. QED  BY <1>5, <1>6, <1>7, <1>9, <1>10, <1>11

LEMMA JobsHeld ==
  ASSUME DispatchInv, NEW w \in Workers
  PROVE  /\ workers[w] \in WorkerStates /\ WorkerLane(w) \in Lanes
         /\ workers[w].ticket # 0 => Holds(w) \in Ops /\ HeldBy(w, Holds(w))
<1>1. workers[w] \in WorkerStates /\ WorkerLane(w) \in Lanes
  BY LaneFacts DEF DispatchInv, DispatchTypeOK
<1>2. ASSUME workers[w].ticket # 0 PROVE Holds(w) \in Ops /\ HeldBy(w, Holds(w))
  <2>1. jobs[WorkerLane(w)] \in Seq(Ops) /\ Len(jobs[WorkerLane(w)]) = queues[WorkerLane(w)].next_ticket
    BY <1>1 DEF DispatchInv, DispatchTypeOK, LanesOK
  <2>2. workers[w].ticket \in Nat /\ workers[w].ticket <= queues[WorkerLane(w)].next_ticket
    BY <1>1 DEF DispatchInv, WorkersOK, WorkerStates
  <2>3. workers[w].ticket \in 1 .. Len(jobs[WorkerLane(w)])
    BY <1>2, <2>1, <2>2
  <2>4. QED  BY <1>2, <2>1, <2>2, <2>3 DEF Holds, HeldBy
<1>3. QED  BY <1>1, <1>2

\* A step that changes the stage only.
LEMMA GoesFacts ==
  ASSUME DispatchInv, NEW w \in Workers, NEW stage \in Stages, Goes(w, stage)
  PROVE  \E k \in WorkerStates :
           k.stage = stage /\ k.ticket = workers[w].ticket /\ workers' = [workers EXCEPT ![w] = k]
<1>1. [workers[w] EXCEPT !.stage = stage] \in WorkerStates
  BY JobsHeld DEF WorkerStates
<1>2. QED  BY <1>1, JobsHeld DEF Goes, WorkerStates

LEMMA DoneFacts ==
  ASSUME DispatchInv, NEW w \in Workers, Done(w)
  PROVE  \E k \in WorkerStates :
           /\ k.stage = "idle" /\ k.ticket = 0 /\ workers' = [workers EXCEPT ![w] = k]
           /\ settled' = settled \cup {<<WorkerLane(w), workers[w].ticket>>}
<1>1. Idle \in WorkerStates /\ Idle.stage = "idle" /\ Idle.ticket = 0
  BY MaxTicketAssumption DEF Idle, WorkerStates, Stages
<1>2. QED  BY <1>1 DEF Done

LEMMA ExitInv ==
  ASSUME DispatchInv, NEW w \in Workers, Exit(w)
  PROVE  DispatchInv'
<1>1. PICK k \in WorkerStates :
        k.stage = "exited" /\ k.ticket = workers[w].ticket /\ workers' = [workers EXCEPT ![w] = k]
  BY GoesFacts DEF Exit, Stages
<1>2. workers[w].ticket = 0 /\ queues[WorkerLane(w)] \in QueueStates
  BY JobsHeld DEF Exit, At, DispatchInv, WorkersOK, DispatchTypeOK
<1>3. queues[WorkerLane(w)].closed /\ Waiting(queues[WorkerLane(w)]) = {}
  BY <1>2, WaitingFacts DEF Exit
<1>4. JournalKept(w, k)
  BY <1>2 DEF Exit, JournalKept, DispatchInv, DispatchTypeOK, HeldBy
<1>5. WorkerGoes(w, k)
  BY <1>1, <1>2, <1>3, <1>4 DEF Exit, WorkerGoes, DispatchInv, DispatchTypeOK
<1>6. QED  BY <1>5, WorkerGoesInv

LEMMA WriteInv ==
  ASSUME DispatchInv, NEW w \in Workers, Write(w)
  PROVE  DispatchInv'
<1>1. PICK stage \in {"written", "lost"} : Goes(w, stage)
  BY DEF Write
<1>2. PICK k \in WorkerStates :
        k.stage = stage /\ k.ticket = workers[w].ticket /\ workers' = [workers EXCEPT ![w] = k]
  BY <1>1, GoesFacts DEF Stages
<1>3. workers[w].stage \in {"Committed", "Failed"} /\ workers[w].ticket # 0 /\ Holds(w) \in returned
  BY DEF Write, At, DispatchInv, WorkersOK
<1>4. JournalKept(w, k)
  BY <1>2, <1>3 DEF Write, JournalKept, DispatchInv, DispatchTypeOK, HeldBy
<1>5. WorkerGoes(w, k)
  BY <1>2, <1>3, <1>4 DEF Write, WorkerGoes, DispatchInv, DispatchTypeOK
<1>6. QED  BY <1>5, WorkerGoesInv

LEMMA MarkInFlightInv ==
  ASSUME DispatchInv, NEW w \in Workers, MarkInFlight(w)
  PROVE  DispatchInv'
<1>1. PICK k \in WorkerStates :
        k.stage = "running" /\ k.ticket = workers[w].ticket /\ workers' = [workers EXCEPT ![w] = k]
  BY GoesFacts DEF MarkInFlight, Stages
<1>2. workers[w].stage = "popped" /\ workers[w].ticket # 0 /\ Holds(w) \in Ops /\ HeldBy(w, Holds(w))
  BY JobsHeld DEF MarkInFlight, At, DispatchInv, WorkersOK
<1>3. PICK op \in Ops : op = Holds(w)
  BY <1>2
<1>4. journal \in [Ops -> Phases] /\ "InFlight" \in Phases
  BY DEF DispatchInv, DispatchTypeOK, Phases, ActivePhases
<1>5. /\ journal' \in [Ops -> Phases]
      /\ journal[op] # "absent" => journal'[op] = "InFlight"
      /\ \A x \in Ops : x # op => journal'[x] = journal[x]
  BY <1>3, <1>4, MarkedFacts DEF MarkInFlight
<1>6. JournalKept(w, k)
  <2>1. \A x \in Ops : HeldBy(w, x) <=> x = op
    BY <1>2, <1>3 DEF HeldBy
  <2>2. ASSUME NEW x \in Ops \ returned', journal[x] \in ActivePhases PROVE journal'[x] \in ActivePhases
    BY <1>5, <2>2 DEF ActivePhases
  <2>3. QED  BY <1>1, <1>2, <1>5, <2>1, <2>2 DEF JournalKept
<1>7. WorkerGoes(w, k)
  BY <1>1, <1>2, <1>6 DEF MarkInFlight, WorkerGoes, DispatchInv, DispatchTypeOK
<1>8. QED  BY <1>7, WorkerGoesInv

LEMMA HandlerReturnsInv ==
  ASSUME DispatchInv, NEW w \in Workers, NEW phase \in TerminalPhases, HandlerReturns(w, phase)
  PROVE  DispatchInv'
<1>1. PICK k \in WorkerStates :
        k.stage = phase /\ k.ticket = workers[w].ticket /\ workers' = [workers EXCEPT ![w] = k]
  BY GoesFacts DEF HandlerReturns, Stages
<1>2. workers[w].stage = "running" /\ workers[w].ticket # 0 /\ Holds(w) \in Ops /\ HeldBy(w, Holds(w))
  BY JobsHeld DEF HandlerReturns, At, DispatchInv, WorkersOK
<1>3. PICK op \in Ops : op = Holds(w)
  BY <1>2
<1>4. journal \in [Ops -> Phases] /\ phase \in Phases /\ phase \in {"Committed", "Failed"}
  BY DEF DispatchInv, DispatchTypeOK, Phases, TerminalPhases
<1>5. /\ journal' \in [Ops -> Phases]
      /\ journal'[op] \in {phase, "absent"}
      /\ \A x \in Ops : x # op => journal'[x] = journal[x]
  BY <1>3, <1>4, MarkedFacts DEF HandlerReturns
<1>6. JournalKept(w, k)
  <2>1. \A x \in Ops : HeldBy(w, x) <=> x = op
    BY <1>2, <1>3 DEF HeldBy
  <2>2. op \in returned' /\ journal'[op] \notin ActivePhases
    BY <1>3, <1>4, <1>5 DEF HandlerReturns, ActivePhases
  <2>3. QED  BY <1>1, <1>2, <1>5, <2>1, <2>2 DEF JournalKept
<1>7. WorkerGoes(w, k)
  BY <1>1, <1>2, <1>3, <1>4, <1>6 DEF HandlerReturns, WorkerGoes, DispatchInv, DispatchTypeOK
<1>8. QED  BY <1>7, WorkerGoesInv

\* The worker gives up a job and the record of its operation is not active
\* any more.
LEMMA SettleInv ==
  ASSUME DispatchInv, NEW w \in Workers, Done(w), workers[w].ticket # 0,
         UNCHANGED <<queues, jobs, acceptor, returned>>,
         At(w, "running") \/ Holds(w) \in returned,
         journal' \in [Ops -> Phases], journal'[Holds(w)] \notin ActivePhases,
         \A x \in Ops : x # Holds(w) => (journal'[x] \in ActivePhases <=> journal[x] \in ActivePhases)
  PROVE  DispatchInv'
<1>1. PICK k \in WorkerStates :
        /\ k.stage = "idle" /\ k.ticket = 0 /\ workers' = [workers EXCEPT ![w] = k]
        /\ settled' = settled \cup {<<WorkerLane(w), workers[w].ticket>>}
  BY DoneFacts
<1>2. \A x \in Ops : HeldBy(w, x) <=> x = Holds(w)
  BY JobsHeld DEF HeldBy
<1>3. JournalKept(w, k)
  BY <1>1, <1>2 DEF JournalKept
<1>4. WorkerGoes(w, k)
  BY <1>1, <1>3 DEF WorkerGoes, DispatchInv, DispatchTypeOK
<1>5. QED  BY <1>4, WorkerGoesInv

LEMMA MarkUnknownFacts ==
  ASSUME journal \in [Ops -> Phases], NEW op \in Ops, MarkUnknown(op)
  PROVE  /\ journal' \in [Ops -> Phases] /\ journal'[op] \notin ActivePhases
         /\ \A x \in Ops : x # op => (journal'[x] \in ActivePhases <=> journal[x] \in ActivePhases)
<1>1. /\ Marked(journal, op, "Unknown") \in [Ops -> Phases]
      /\ Marked(journal, op, "Unknown")[op] \in {"Unknown", "absent"}
      /\ \A x \in Ops : x # op => Marked(journal, op, "Unknown")[x] = journal[x]
  BY MarkedFacts DEF Phases
<1>2. PICK records \in [Ops -> Phases] : records = Marked(journal, op, "Unknown") /\ journal' \in Pruned(records, {op})
  BY <1>1 DEF MarkUnknown
<1>3. /\ journal' \in [Ops -> Phases]
      /\ \A x \in Ops : \/ journal'[x] = records[x]
                        \/ journal'[x] = "absent" /\ records[x] \in {"Committed", "Failed", "Unknown"}
  BY <1>2, PrunedFacts
<1>4. QED  BY <1>1, <1>2, <1>3 DEF ActivePhases

LEMMA HandlerPanicsInv ==
  ASSUME DispatchInv, NEW w \in Workers, HandlerPanics(w)
  PROVE  DispatchInv'
<1>1. At(w, "running") /\ workers[w].ticket # 0 /\ Holds(w) \in Ops /\ journal \in [Ops -> Phases]
  BY JobsHeld DEF HandlerPanics, At, DispatchInv, WorkersOK, DispatchTypeOK
<1>2. /\ journal' \in [Ops -> Phases] /\ journal'[Holds(w)] \notin ActivePhases
      /\ \A x \in Ops : x # Holds(w) => (journal'[x] \in ActivePhases <=> journal[x] \in ActivePhases)
  BY <1>1, MarkUnknownFacts DEF HandlerPanics
<1>3. QED  BY <1>1, <1>2, SettleInv DEF HandlerPanics

LEMMA ResponseLostInv ==
  ASSUME DispatchInv, NEW w \in Workers, ResponseLost(w)
  PROVE  DispatchInv'
<1>1. /\ workers[w].ticket # 0 /\ Holds(w) \in Ops /\ Holds(w) \in returned
      /\ journal \in [Ops -> Phases]
  BY JobsHeld DEF ResponseLost, At, DispatchInv, WorkersOK, DispatchTypeOK
<1>2. /\ journal' \in [Ops -> Phases] /\ journal'[Holds(w)] \notin ActivePhases
      /\ \A x \in Ops : x # Holds(w) => (journal'[x] \in ActivePhases <=> journal[x] \in ActivePhases)
  BY <1>1, MarkUnknownFacts DEF ResponseLost
<1>3. QED  BY <1>1, <1>2, SettleInv DEF ResponseLost

LEMMA RemoveInv ==
  ASSUME DispatchInv, NEW w \in Workers, RemoveRecord(w)
  PROVE  DispatchInv'
<1>1. /\ workers[w].ticket # 0 /\ Holds(w) \in Ops /\ Holds(w) \in returned
      /\ journal \in [Ops -> Phases]
  BY JobsHeld DEF RemoveRecord, At, DispatchInv, WorkersOK, DispatchTypeOK
<1>2. /\ journal' \in [Ops -> Phases] /\ journal'[Holds(w)] \notin ActivePhases
      /\ \A x \in Ops : x # Holds(w) => (journal'[x] \in ActivePhases <=> journal[x] \in ActivePhases)
  BY <1>1, RemovedFacts DEF RemoveRecord, ActivePhases
<1>3. QED  BY <1>1, <1>2, SettleInv DEF RemoveRecord

-----------------------------------------------------------------------------
(* The accept loop.                                                        *)

\* A step of the acceptor that leaves the queues alone: it prunes records that
\* are not active, and admits op or gives it up.
LEMMA AcceptorInv ==
  ASSUME DispatchInv, UNCHANGED <<queues, jobs, workers, settled, returned>>,
         acceptor' \in Ops \cup {NoOp}, journal' \in [Ops -> Phases],
         \/ acceptor' = NoOp
         \/ acceptor' = acceptor
         \/ \A lane \in Lanes : ~queues[lane].closed,
         \A x \in Ops : x # acceptor /\ x # acceptor' =>
           (journal'[x] \in ActivePhases <=> journal[x] \in ActivePhases),
         \A x \in Ops : x = acceptor /\ x # acceptor' => journal'[x] \notin ActivePhases,
         \A x \in Ops : x # acceptor /\ x = acceptor' =>
           journal[x] \notin ActivePhases /\ journal'[x] \in ActivePhases,
         \A x \in Ops : x = acceptor /\ x = acceptor' => 
           (journal'[x] \in ActivePhases <=> journal[x] \in ActivePhases)
  PROVE  DispatchInv'
<1> USE DEF DispatchInv
<1>1. /\ \A op, l, t : WaitsIn(op, l, t)' <=> WaitsIn(op, l, t)
      /\ \A op, w : RunsOn(op, w)' <=> RunsOn(op, w)
      /\ \A op, w : HeldBy(w, op)' <=> HeldBy(w, op)
  BY DEF WaitsIn, RunsOn, HeldBy, Holds
<1>2. DispatchTypeOK'
  BY DEF DispatchTypeOK
<1>3. LanesOK'
  BY DEF LanesOK
<1>4. WorkersOK'
  BY DEF WorkersOK, At, Holds
<1>5. FirstRunOK'
  <2> SUFFICES ASSUME NEW op \in Ops, op \notin returned PROVE OneRequest(op)'
    BY DEF FirstRunOK
  <2>1. OneRequest(op)
    BY DEF FirstRunOK
  <2>2. CASE op # acceptor /\ op = acceptor'
    <3>1. /\ \A l \in Lanes, t \in 1 .. MaxTicket : ~WaitsIn(op, l, t)
          /\ \A w \in Workers : ~RunsOn(op, w)
      BY <2>1, <2>2 DEF OneRequest
    <3>2. QED  BY <1>1, <2>2, <3>1 DEF OneRequest
  <2>3. CASE op = acceptor /\ op # acceptor'
    <3>1. /\ \A l \in Lanes, t \in 1 .. MaxTicket : ~WaitsIn(op, l, t)
          /\ \A w \in Workers : ~RunsOn(op, w)
      BY <2>1, <2>3 DEF OneRequest
    <3>2. QED  BY <1>1, <2>3, <3>1 DEF OneRequest
  <2>4. CASE op = acceptor <=> op = acceptor'
    <3>1. journal'[op] \in ActivePhases <=> journal[op] \in ActivePhases
      BY <2>4
    <3>2. QED  BY <1>1, <2>1, <2>4, <3>1 DEF OneRequest
  <2>5. QED  BY <2>2, <2>3, <2>4
<1>6. RecordOK'
  BY <1>1 DEF RecordOK
<1>7. Accounted'
  BY DEF Accounted
<1>8. QED  BY <1>2, <1>3, <1>4, <1>5, <1>6, <1>7

LEMMA AdmitInv ==
  ASSUME DispatchInv, NEW op \in Ops, Admit(op)
  PROVE  DispatchInv'
<1>1. /\ acceptor = NoOp /\ NoOp \notin Ops /\ journal \in [Ops -> Phases]
      /\ \A lane \in Lanes : ~queues[lane].closed
      /\ UNCHANGED <<queues, jobs, workers, settled, returned>>
  BY ConstantFacts DEF Admit, Open, DispatchInv, DispatchTypeOK
<1>2. PICK records \in Pruned(journal, {}) :
        IF Refused(records, op)
          THEN journal' = records /\ UNCHANGED acceptor
          ELSE journal' = [records EXCEPT ![op] = "Queued"] /\ acceptor' = op
  BY DEF Admit
<1>3. /\ records \in [Ops -> Phases]
      /\ \A x \in Ops : \/ records[x] = journal[x]
                        \/ records[x] = "absent" /\ journal[x] \in {"Committed", "Failed", "Unknown"}
  BY <1>1, PrunedFacts
<1>4. \A x \in Ops : records[x] \in ActivePhases <=> journal[x] \in ActivePhases
  BY <1>3 DEF ActivePhases
<1>5. CASE Refused(records, op)
  <2>1. journal' = records /\ acceptor' = acceptor
    BY <1>2, <1>5
  <2>2. QED  BY <1>1, <1>3, <1>4, <2>1, AcceptorInv
<1>6. CASE ~Refused(records, op)
  <2>1. journal' = [records EXCEPT ![op] = "Queued"] /\ acceptor' = op
    BY <1>2, <1>6
  <2>2. journal[op] \notin ActivePhases
    BY <1>4, <1>6 DEF Refused
  <2>3. /\ journal' \in [Ops -> Phases] /\ journal'[op] \in ActivePhases
        /\ \A x \in Ops : x # op => journal'[x] = records[x]
    BY <1>3, <2>1 DEF ActivePhases, Phases
  <2>4. \A x \in Ops : x # op => (journal'[x] \in ActivePhases <=> journal[x] \in ActivePhases)
    BY <1>4, <2>3
  <2>5. QED  BY <1>1, <2>1, <2>2, <2>3, <2>4, AcceptorInv
<1>7. QED  BY <1>5, <1>6

LEMMA PushFailsInv ==
  ASSUME DispatchInv, PushFails
  PROVE  DispatchInv'
<1>1. acceptor \in Ops /\ journal \in [Ops -> Phases] /\ NoOp \notin Ops /\ acceptor' = NoOp
  BY ConstantFacts DEF PushFails, DispatchInv, DispatchTypeOK
<1>2. /\ journal' \in [Ops -> Phases] /\ journal'[acceptor] \notin ActivePhases
      /\ \A x \in Ops : x # acceptor => journal'[x] = journal[x]
  BY <1>1, RemovedFacts DEF PushFails, ActivePhases
<1>3. UNCHANGED <<queues, jobs, workers, settled, returned>>
  BY DEF PushFails
<1>4. QED  BY <1>1, <1>2, <1>3, AcceptorInv

LEMMA ShutdownInv ==
  ASSUME DispatchInv, Shutdown
  PROVE  DispatchInv'
<1> USE DEF DispatchInv
<1>1. /\ queues' = [lane \in Lanes |-> Closed(queues[lane])] /\ acceptor = NoOp
      /\ UNCHANGED <<journal, jobs, acceptor, workers, settled, returned>>
  BY DEF Shutdown
<1>2. ASSUME NEW lane \in Lanes
      PROVE  /\ queues'[lane] \in QueueStates /\ queues'[lane].closed = TRUE
             /\ queues'[lane].next_ticket = queues[lane].next_ticket
             /\ Waiting(queues'[lane]) = Waiting(queues[lane]) /\ TicketsOK(queues'[lane])
  <2>1. queues[lane] \in QueueStates /\ TicketsOK(queues[lane]) /\ queues'[lane] = Closed(queues[lane])
    BY <1>1 DEF DispatchTypeOK, LanesOK
  <2>2. QED  BY <2>1, WaitingFacts
<1>3. /\ \A op : \A l \in Lanes : \A t : WaitsIn(op, l, t)' <=> WaitsIn(op, l, t)
      /\ \A op, w : RunsOn(op, w)' <=> RunsOn(op, w)
      /\ \A op, w : HeldBy(w, op)' <=> HeldBy(w, op)
  BY <1>1, <1>2 DEF WaitsIn, RunsOn, HeldBy, Holds
<1>4. DispatchTypeOK'
  BY <1>1, <1>2 DEF DispatchTypeOK
<1>5. LanesOK'
  BY <1>1, <1>2 DEF LanesOK
<1>6. WorkersOK'
  BY <1>1, <1>2, LaneFacts DEF WorkersOK, At, Holds
<1>7. FirstRunOK'
  BY <1>1, <1>3 DEF FirstRunOK, OneRequest
<1>8. RecordOK'
  BY <1>1, <1>3 DEF RecordOK
<1>9. Accounted'
  BY <1>1, <1>2 DEF Accounted
<1>10. QED  BY <1>4, <1>5, <1>6, <1>7, <1>8, <1>9

\* The request of the acceptor is in its lane, under the next ticket.
LEMMA PushFacts ==
  ASSUME DispatchInv, Push, NEW lane, lane = LaneOf(acceptor), NEW t, t = queues[lane].next_ticket + 1
  PROVE  /\ lane \in Lanes /\ t \in 1 .. MaxTicket /\ acceptor \in Ops /\ acceptor' = NoOp
         /\ ~queues[lane].closed
         /\ queues' \in [Lanes -> QueueStates] /\ jobs' \in [Lanes -> Seq(Ops)]
         /\ \A l \in Lanes : l # lane => queues'[l] = queues[l] /\ jobs'[l] = jobs[l]
         /\ TicketsOK(queues'[lane]) /\ queues'[lane].closed = queues[lane].closed
         /\ Waiting(queues'[lane]) = Waiting(queues[lane]) \cup {t}
         /\ queues'[lane].next_ticket = t /\ Len(jobs'[lane]) = t
         /\ jobs'[lane][t] = acceptor
         /\ \A u \in 1 .. MaxTicket : u < t => jobs'[lane][u] = jobs[lane][u]
         /\ t - 1 = queues[lane].next_ticket
         /\ UNCHANGED <<journal, workers, settled, returned>>
<1>1. /\ lane \in Lanes /\ acceptor \in Ops /\ acceptor' = NoOp /\ queues[lane] \in QueueStates
      /\ jobs[lane] \in Seq(Ops) /\ TicketsOK(queues[lane]) /\ Len(jobs[lane]) = queues[lane].next_ticket
      /\ queues \in [Lanes -> QueueStates] /\ jobs \in [Lanes -> Seq(Ops)]
  BY LaneFacts DEF Push, DispatchInv, DispatchTypeOK, LanesOK
<1>2. queues[lane].next_ticket \in Nat /\ queues[lane].next_ticket < MaxTicket /\ ~queues[lane].closed
  BY <1>1, QueueFields DEF Push, Room, Admissible
<1>3. PICK priority \in Priorities : priority = DispatchPriority(acceptor)
  BY DEF DispatchPriority, Priorities
<1>4. PICK q \in QueueStates : /\ q = Pushed(queues[lane], priority) /\ TicketsOK(q)
                               /\ Waiting(q) = Waiting(queues[lane]) \cup {t}
                               /\ q.next_ticket = t /\ q.closed = queues[lane].closed
  BY <1>1, <1>2, PushedFacts
<1>5. queues' = [queues EXCEPT ![lane] = q]
  BY <1>3, <1>4 DEF Push
<1>6. jobs' = [jobs EXCEPT ![lane] = Append(jobs[lane], acceptor)]
  BY DEF Push
<1>7. t \in 1 .. MaxTicket /\ t - 1 = queues[lane].next_ticket
  BY <1>2, MaxTicketAssumption
<1>8. /\ Append(jobs[lane], acceptor) \in Seq(Ops) /\ Len(Append(jobs[lane], acceptor)) = t
      /\ Append(jobs[lane], acceptor)[t] = acceptor
      /\ \A u \in 1 .. MaxTicket : u < t => Append(jobs[lane], acceptor)[u] = jobs[lane][u]
  BY <1>1, <1>2, <1>7
<1>9. queues' \in [Lanes -> QueueStates] /\ jobs' \in [Lanes -> Seq(Ops)] /\ queues'[lane] = q
      /\ jobs'[lane] = Append(jobs[lane], acceptor)
      /\ \A l \in Lanes : l # lane => queues'[l] = queues[l] /\ jobs'[l] = jobs[l]
  BY <1>1, <1>5, <1>6, <1>8
<1>10. UNCHANGED <<journal, workers, settled, returned>>
  BY DEF Push
<1>11. QED  BY <1>1, <1>2, <1>4, <1>7, <1>8, <1>9, <1>10

LEMMA PushInv ==
  ASSUME DispatchInv, Push
  PROVE  DispatchInv'
<1>1. PICK lane, t : lane = LaneOf(acceptor) /\ t = queues[lane].next_ticket + 1
  OBVIOUS
<1>2. /\ lane \in Lanes /\ t \in 1 .. MaxTicket /\ acceptor \in Ops /\ acceptor' = NoOp
      /\ ~queues[lane].closed
      /\ queues' \in [Lanes -> QueueStates] /\ jobs' \in [Lanes -> Seq(Ops)]
      /\ \A l \in Lanes : l # lane => queues'[l] = queues[l] /\ jobs'[l] = jobs[l]
      /\ TicketsOK(queues'[lane]) /\ queues'[lane].closed = queues[lane].closed
      /\ Waiting(queues'[lane]) = Waiting(queues[lane]) \cup {t}
      /\ queues'[lane].next_ticket = t /\ Len(jobs'[lane]) = t
      /\ jobs'[lane][t] = acceptor
      /\ \A u \in 1 .. MaxTicket : u < t => jobs'[lane][u] = jobs[lane][u]
      /\ t - 1 = queues[lane].next_ticket
      /\ UNCHANGED <<journal, workers, settled, returned>>
  BY <1>1, PushFacts
<1> USE DEF DispatchInv
<1>3. DispatchTypeOK'
  BY <1>2 DEF DispatchTypeOK
<1>4. LanesOK'
  BY <1>2 DEF LanesOK
<1>5. ASSUME NEW op, NEW l \in Lanes, NEW u \in 1 .. MaxTicket
      PROVE  WaitsIn(op, l, u)' <=> WaitsIn(op, l, u) \/ (op = acceptor /\ l = lane /\ u = t)
  <2>1. CASE l # lane
    BY <1>2, <2>1 DEF WaitsIn
  <2>2. CASE l = lane
    <3>1. u \in Waiting(queues[lane]) => u < t
      <4>1. u \in Waiting(queues[lane]) => u <= t - 1
        BY <1>2 DEF LanesOK, TicketsOK
      <4>2. QED  BY <1>2, <4>1, MaxTicketAssumption
    <3>2. QED  BY <1>2, <2>2, <3>1 DEF WaitsIn
  <2>3. QED  BY <2>1, <2>2
<1>6. ASSUME NEW w \in Workers, workers[w].ticket # 0 PROVE Holds(w)' = Holds(w)
  <2>1. workers[w].ticket \in 1 .. MaxTicket /\ workers[w].ticket <= queues[WorkerLane(w)].next_ticket
    BY <1>6, JobsHeld, MaxTicketAssumption DEF WorkersOK, WorkerStates
  <2>2. CASE WorkerLane(w) # lane
    BY <1>2, <2>2, LaneFacts DEF Holds
  <2>3. CASE WorkerLane(w) = lane
    BY <1>2, <2>1, <2>3 DEF Holds
  <2>4. QED  BY <2>2, <2>3
<1>7. ASSUME NEW op, NEW w \in Workers
      PROVE  (RunsOn(op, w)' <=> RunsOn(op, w)) /\ (HeldBy(w, op)' <=> HeldBy(w, op))
  <2>1. workers[w].stage \in {"popped", "running"} => workers[w].ticket # 0
    BY DEF WorkersOK
  <2>2. workers'[w] = workers[w]
    BY <1>2
  <2>3. RunsOn(op, w)' <=> RunsOn(op, w)
    BY <1>6, <2>1, <2>2 DEF RunsOn
  <2>4. HeldBy(w, op)' <=> HeldBy(w, op)
    BY <1>6, <2>2 DEF HeldBy
  <2>5. QED  BY <2>3, <2>4
<1>8. WorkersOK'
  <2> SUFFICES ASSUME NEW w \in Workers
               PROVE  (/\ workers[w].stage \in {"idle", "exited"} <=> workers[w].ticket = 0
                       /\ workers[w].ticket <= queues[WorkerLane(w)].next_ticket
                       /\ At(w, "exited") => queues[WorkerLane(w)].closed /\ Waiting(queues[WorkerLane(w)]) = {}
                       /\ workers[w].stage \in {"Committed", "Failed", "written", "lost"} => Holds(w) \in returned)'
    BY DEF WorkersOK
  <2>1. workers[w].ticket <= queues'[WorkerLane(w)].next_ticket
    <3>1. workers[w].ticket \in Nat /\ workers[w].ticket <= queues[WorkerLane(w)].next_ticket
      BY JobsHeld DEF WorkersOK, WorkerStates
    <3>2. QED  BY <1>2, <3>1, LaneFacts
  <2>2. At(w, "exited") => WorkerLane(w) # lane
    BY <1>2 DEF WorkersOK
  <2>3. workers[w].stage \in {"Committed", "Failed", "written", "lost"} => workers[w].ticket # 0
    BY DEF WorkersOK
  <2>4. QED  BY <1>2, <1>6, <2>1, <2>2, <2>3, LaneFacts DEF WorkersOK, At
<1>9. FirstRunOK'
  <2> SUFFICES ASSUME NEW op \in Ops, op \notin returned PROVE OneRequest(op)'
    BY <1>2 DEF FirstRunOK
  <2>1. OneRequest(op)
    BY DEF FirstRunOK
  <2>2. acceptor' # op
    BY <1>2, ConstantFacts
  <2>3. CASE op # acceptor
    <3>1. \A l \in Lanes, u \in 1 .. MaxTicket : WaitsIn(op, l, u)' <=> WaitsIn(op, l, u)
      BY <1>5, <2>3
    <3>2. (\A w \in Workers : RunsOn(op, w)' <=> RunsOn(op, w)) /\ journal' = journal
      BY <1>2, <1>7
    <3>3. QED  BY <2>1, <2>2, <3>1, <3>2 DEF OneRequest
  <2>4. CASE op = acceptor
    <3>1. /\ \A l \in Lanes, u \in 1 .. MaxTicket : WaitsIn(op, l, u)' <=> l = lane /\ u = t
          /\ \A w \in Workers : ~RunsOn(op, w)'
          /\ journal[op] \in ActivePhases
      BY <1>5, <1>7, <2>1, <2>4 DEF OneRequest
    <3>2. QED  BY <1>2, <2>2, <3>1 DEF OneRequest
  <2>5. QED  BY <2>3, <2>4
<1>10. RecordOK'
  BY <1>2, <1>5, <1>7 DEF RecordOK
<1>11. Accounted'
  <2> SUFFICES ASSUME NEW l \in Lanes, NEW u \in 1 .. MaxTicket, u <= queues'[l].next_ticket
               PROVE  \/ u \in Waiting(queues'[l])
                      \/ <<l, u>> \in settled
                      \/ \E w \in Workers : WorkerLane(w) = l /\ workers[w].ticket = u
    BY <1>2 DEF Accounted
  <2>1. CASE l # lane
    BY <1>2, <2>1 DEF Accounted
  <2>2. CASE l = lane
    <3>1. u = t \/ u <= queues[lane].next_ticket
      BY <1>2, <2>2
    <3>2. QED  BY <1>2, <2>2, <3>1 DEF Accounted
  <2>3. QED  BY <2>1, <2>2
<1>12. QED  BY <1>3, <1>4, <1>8, <1>9, <1>10, <1>11

-----------------------------------------------------------------------------
(* pop: a request goes from its lane to a worker of that lane.             *)

LEMMA PopFacts ==
  ASSUME DispatchInv, NEW w \in Workers, Pop(w), NEW lane, lane = WorkerLane(w),
         NEW t, t = PoppedTicket(queues[lane], MaxControlBurst)
  PROVE  /\ lane \in Lanes /\ t \in 1 .. MaxTicket /\ t \in Waiting(queues[lane])
         /\ t <= queues[lane].next_ticket /\ jobs[lane][t] \in Ops
         /\ At(w, "idle") /\ workers[w].ticket = 0
         /\ workers' \in [Workers -> WorkerStates]
         /\ workers'[w].stage = "popped" /\ workers'[w].ticket = t
         /\ \A v \in Workers : v # w => workers'[v] = workers[v]
         /\ queues' \in [Lanes -> QueueStates]
         /\ \A l \in Lanes : /\ l # lane => queues'[l] = queues[l]
                             /\ queues'[l].next_ticket = queues[l].next_ticket
                             /\ queues'[l].closed = queues[l].closed
         /\ TicketsOK(queues'[lane])
         /\ Waiting(queues'[lane]) = Waiting(queues[lane]) \ {t}
         /\ UNCHANGED <<journal, jobs, acceptor, settled, returned>>
<1>1. /\ lane \in Lanes /\ queues[lane] \in QueueStates /\ TicketsOK(queues[lane])
      /\ queues \in [Lanes -> QueueStates] /\ workers \in [Workers -> WorkerStates]
      /\ jobs[lane] \in Seq(Ops) /\ Len(jobs[lane]) = queues[lane].next_ticket
      /\ At(w, "idle") /\ workers[w].ticket = 0 /\ Depth(queues[lane]) > 0
  BY LaneFacts DEF Pop, At, DispatchInv, DispatchTypeOK, LanesOK, WorkersOK
<1>2. PICK q \in QueueStates : /\ q = Popped(queues[lane], MaxControlBurst) /\ TicketsOK(q)
                               /\ t \in Waiting(queues[lane])
                               /\ Waiting(q) = Waiting(queues[lane]) \ {t}
                               /\ q.next_ticket = queues[lane].next_ticket /\ q.closed = queues[lane].closed
  BY <1>1, PoppedFacts
<1>3. t \in 1 .. MaxTicket /\ t <= queues[lane].next_ticket
  BY <1>1, <1>2, WaitingBounded DEF TicketsOK
<1>4. jobs[lane][t] \in Ops
  <2>1. t \in 1 .. Len(jobs[lane])
    BY <1>1, <1>3, QueueFields, MaxTicketAssumption
  <2>2. QED  BY <1>1, <2>1
<1>5. queues' = [queues EXCEPT ![lane] = q]
  BY <1>2 DEF Pop
<1>6. PICK k \in WorkerStates : k.stage = "popped" /\ k.ticket = t /\ workers' = [workers EXCEPT ![w] = k]
  <2>1. [stage |-> "popped", ticket |-> t] \in WorkerStates
    <3>1. t \in 0 .. MaxTicket
      BY <1>3, MaxTicketAssumption
    <3>2. QED  BY <3>1 DEF WorkerStates, Stages
  <2>2. QED  BY <2>1 DEF Pop
<1>7. UNCHANGED <<journal, jobs, acceptor, settled, returned>>
  BY DEF Pop
<1>8. /\ queues' \in [Lanes -> QueueStates] /\ queues'[lane] = q
      /\ \A l \in Lanes : l # lane => queues'[l] = queues[l]
  BY <1>1, <1>5
<1>9. /\ workers' \in [Workers -> WorkerStates] /\ workers'[w] = k
      /\ \A v \in Workers : v # w => workers'[v] = workers[v]
  BY <1>1, <1>6
<1>10. QED  BY <1>1, <1>2, <1>3, <1>4, <1>6, <1>7, <1>8, <1>9

LEMMA PopInv ==
  ASSUME DispatchInv, NEW w \in Workers, Pop(w)
  PROVE  DispatchInv'
<1>1. PICK lane, t : lane = WorkerLane(w) /\ t = PoppedTicket(queues[lane], MaxControlBurst)
  OBVIOUS
<1>2. /\ lane \in Lanes /\ t \in 1 .. MaxTicket /\ t \in Waiting(queues[lane])
      /\ t <= queues[lane].next_ticket /\ jobs[lane][t] \in Ops
      /\ At(w, "idle") /\ workers[w].ticket = 0
      /\ workers' \in [Workers -> WorkerStates]
      /\ workers'[w].stage = "popped" /\ workers'[w].ticket = t
      /\ \A v \in Workers : v # w => workers'[v] = workers[v]
      /\ queues' \in [Lanes -> QueueStates]
      /\ \A l \in Lanes : /\ l # lane => queues'[l] = queues[l]
                          /\ queues'[l].next_ticket = queues[l].next_ticket
                          /\ queues'[l].closed = queues[l].closed
      /\ TicketsOK(queues'[lane])
      /\ Waiting(queues'[lane]) = Waiting(queues[lane]) \ {t}
      /\ UNCHANGED <<journal, jobs, acceptor, settled, returned>>
  BY <1>1, PopFacts
<1>3. PICK mine \in Ops : mine = jobs[lane][t]
  BY <1>2
<1> USE DEF DispatchInv
<1>4. DispatchTypeOK'
  BY <1>2 DEF DispatchTypeOK
<1>5. LanesOK'
  BY <1>2 DEF LanesOK
<1>6. ASSUME NEW op, NEW l \in Lanes, NEW u \in 1 .. MaxTicket
      PROVE  WaitsIn(op, l, u)' <=> WaitsIn(op, l, u) /\ ~(l = lane /\ u = t)
  <2>1. CASE l # lane
    BY <1>2, <2>1 DEF WaitsIn
  <2>2. CASE l = lane
    BY <1>2, <2>2 DEF WaitsIn
  <2>3. QED  BY <2>1, <2>2
<1>7. WaitsIn(mine, lane, t) /\ Holds(w)' = mine
  BY <1>1, <1>2, <1>3 DEF WaitsIn, Holds
<1>8. ASSUME NEW op, NEW v \in Workers
      PROVE  /\ RunsOn(op, v)' <=> (IF v = w THEN op = mine ELSE RunsOn(op, v))
             /\ HeldBy(v, op)' <=> (IF v = w THEN op = mine ELSE HeldBy(v, op))
             /\ ~RunsOn(op, w) /\ ~HeldBy(w, op)
  <2>1. ~RunsOn(op, w) /\ ~HeldBy(w, op)
    BY <1>2 DEF RunsOn, HeldBy, At
  <2>2. CASE v = w
    <3>1. t > 0
      BY <1>2, MaxTicketAssumption
    <3>2. QED  BY <1>2, <1>7, <2>1, <2>2, <3>1 DEF RunsOn, HeldBy
  <2>3. CASE v # w
    <3>1. workers'[v] = workers[v] /\ Holds(v)' = Holds(v)
      BY <1>2, <2>3 DEF Holds
    <3>2. QED  BY <2>1, <2>3, <3>1 DEF RunsOn, HeldBy
  <2>4. QED  BY <2>2, <2>3
<1>9. WorkersOK'
  <2> SUFFICES ASSUME NEW v \in Workers
               PROVE  (/\ workers[v].stage \in {"idle", "exited"} <=> workers[v].ticket = 0
                       /\ workers[v].ticket <= queues[WorkerLane(v)].next_ticket
                       /\ At(v, "exited") => queues[WorkerLane(v)].closed /\ Waiting(queues[WorkerLane(v)]) = {}
                       /\ workers[v].stage \in {"Committed", "Failed", "written", "lost"} => Holds(v) \in returned)'
    BY DEF WorkersOK
  <2>1. CASE v = w
    <3>1. t # 0
      BY <1>2, MaxTicketAssumption
    <3>2. QED  BY <1>1, <1>2, <2>1, <3>1 DEF At
  <2>2. CASE v # w
    <3>1. workers'[v] = workers[v] /\ Holds(v)' = Holds(v) /\ WorkerLane(v) \in Lanes
      BY <1>2, <2>2, LaneFacts DEF Holds
    <3>2. At(v, "exited") => WorkerLane(v) # lane
      BY <1>2 DEF WorkersOK
    <3>3. QED  BY <1>2, <3>1, <3>2 DEF WorkersOK, At
  <2>3. QED  BY <2>1, <2>2
<1>10. FirstRunOK'
  <2> SUFFICES ASSUME NEW op \in Ops, op \notin returned PROVE OneRequest(op)'
    BY <1>2 DEF FirstRunOK
  <2>1. OneRequest(op) /\ acceptor' = acceptor /\ journal' = journal
    BY <1>2 DEF FirstRunOK
  <2>2. CASE op = mine
    <3>1. /\ \A l \in Lanes, u \in 1 .. MaxTicket : ~WaitsIn(op, l, u)'
          /\ acceptor # op /\ journal[op] \in ActivePhases
      BY <1>2, <1>6, <1>7, <2>1, <2>2 DEF OneRequest
    <3>2. \A v \in Workers : RunsOn(op, v)' <=> v = w
      <4>1. \A v \in Workers : ~RunsOn(op, v)
        BY <1>2, <1>7, <2>1, <2>2 DEF OneRequest
      <4>2. QED  BY <1>8, <2>2, <4>1
    <3>3. QED  BY <2>1, <3>1, <3>2 DEF OneRequest
  <2>3. CASE op # mine
    <3>1. \A l \in Lanes, u \in 1 .. MaxTicket : WaitsIn(op, l, u)' <=> WaitsIn(op, l, u)
      <4>1. ~WaitsIn(op, lane, t)
        BY <1>3, <2>3 DEF WaitsIn
      <4>2. QED  BY <1>6, <4>1
    <3>2. \A v \in Workers : RunsOn(op, v)' <=> RunsOn(op, v)
      BY <1>8, <2>3
    <3>3. QED  BY <2>1, <3>1, <3>2 DEF OneRequest
  <2>4. QED  BY <2>2, <2>3
<1>11. RecordOK'
  <2> SUFFICES ASSUME NEW op \in Ops, journal[op] \in ActivePhases
               PROVE  \/ acceptor' = op
                      \/ \E l \in Lanes, u \in 1 .. MaxTicket : WaitsIn(op, l, u)'
                      \/ \E v \in Workers : HeldBy(v, op)'
    BY <1>2 DEF RecordOK
  <2>1. CASE op = mine
    BY <1>8, <2>1
  <2>2. CASE op # mine
    <3>1. ~WaitsIn(op, lane, t)
      BY <1>3, <2>2 DEF WaitsIn
    <3>2. QED  BY <1>2, <1>6, <1>8, <2>2, <3>1 DEF RecordOK
  <2>3. QED  BY <2>1, <2>2
<1>12. Accounted'
  <2> SUFFICES ASSUME NEW l \in Lanes, NEW u \in 1 .. MaxTicket, u <= queues[l].next_ticket
               PROVE  \/ u \in Waiting(queues'[l])
                      \/ <<l, u>> \in settled
                      \/ \E v \in Workers : WorkerLane(v) = l /\ workers'[v].ticket = u
    BY <1>2 DEF Accounted
  <2>1. CASE l = lane /\ u = t
    BY <1>1, <1>2, <2>1
  <2>2. CASE u \in Waiting(queues[l]) /\ ~(l = lane /\ u = t)
    BY <1>2, <2>2
  <2>3. CASE <<l, u>> \in settled
    BY <2>3
  <2>4. ASSUME NEW v \in Workers, WorkerLane(v) = l, workers[v].ticket = u
        PROVE  \E x \in Workers : WorkerLane(x) = l /\ workers'[x].ticket = u
    <3>1. v # w
      BY <1>2, <2>4, MaxTicketAssumption
    <3>2. QED  BY <1>2, <2>4, <3>1
  <2>5. QED  BY <2>1, <2>2, <2>3, <2>4 DEF Accounted
<1>13. QED  BY <1>4, <1>5, <1>9, <1>10, <1>11, <1>12

-----------------------------------------------------------------------------
(* Every step, and every reachable state.                                  *)

LEMMA NextInv == DispatchInv /\ [Next]_vars => DispatchInv'
<1> SUFFICES ASSUME DispatchInv, [Next]_vars PROVE DispatchInv'
  OBVIOUS
<1>1. CASE UNCHANGED vars
  <2> USE <1>1 DEF vars
  <2>1. DispatchTypeOK' /\ LanesOK' /\ Accounted'
    BY DEF DispatchInv, DispatchTypeOK, LanesOK, Accounted
  <2>2. WorkersOK'
    BY DEF DispatchInv, WorkersOK, Holds, At
  <2>3. FirstRunOK'
    BY DEF DispatchInv, FirstRunOK, OneRequest, WaitsIn, RunsOn, Holds
  <2>4. RecordOK'
    BY DEF DispatchInv, RecordOK, WaitsIn, HeldBy, Holds
  <2>5. QED  BY <2>1, <2>2, <2>3, <2>4 DEF DispatchInv
<1>2. ASSUME NEW op \in Ops, Admit(op) PROVE DispatchInv'
  BY <1>2, AdmitInv
<1>3. CASE Push \/ PushFails \/ Shutdown
  BY <1>3, PushInv, PushFailsInv, ShutdownInv
<1>4. ASSUME NEW w \in Workers, Work(w) PROVE DispatchInv'
  BY <1>4, PopInv, ExitInv, MarkInFlightInv, HandlerReturnsInv, HandlerPanicsInv, WriteInv, RemoveInv,
     ResponseLostInv DEF Work
<1>5. QED  BY <1>1, <1>2, <1>3, <1>4 DEF Next

LEMMA DispatchInvHolds == Spec => []DispatchInv
<1>1. QED  BY InitInv, NextInv, PTL DEF Spec

-----------------------------------------------------------------------------
(* The theorems.                                                           *)

\* The jobs that wait, as the properties write them.
LEMMA QueuedJobsMean ==
  ASSUME NEW op
  PROVE  QueuedJobs(op) = {k \in Lanes \X (1 .. MaxTicket) : WaitsIn(op, k[1], k[2])}
BY DEF QueuedJobs, Queued, WaitsIn, Waiting

\* A record that makes admission refuse an id belongs to a request that the
\* acceptor, a queue or a worker still has: try_submit, spawn_worker and the
\* pruning of the journal lock no operation id out.
THEOREM RecordsHaveRequests == Spec => []NoOrphanRecord
<1>1. ASSUME DispatchInv PROVE NoOrphanRecord
  <2> SUFFICES ASSUME NEW op \in Ops, journal[op] \in ActivePhases, acceptor # op,
                      ~\E w \in Workers : HeldBy(w, op)
               PROVE  QueuedJobs(op) # {}
    BY DEF NoOrphanRecord
  <2>1. PICK l \in Lanes, t \in 1 .. MaxTicket : WaitsIn(op, l, t)
    BY <1>1 DEF DispatchInv, RecordOK
  <2>2. <<l, t>> \in QueuedJobs(op)
    BY <2>1, QueuedJobsMean
  <2>3. QED  BY <2>2
<1>2. QED  BY <1>1, DispatchInvHolds, PTL

\* Two requests of one operation id are queued or running together only after
\* a handler of that id has returned (admission refuses queued, in-flight and
\* unknown ids, and a panic leaves the id unknown).
THEOREM FirstRunsDoNotOverlap == Spec => []FirstRunIsExclusive
<1>1. ASSUME DispatchInv PROVE FirstRunIsExclusive
  <2> SUFFICES ASSUME NEW op \in Ops, op \notin returned PROVE ~(ActiveJobs(op) > 1)
    BY DEF FirstRunIsExclusive
  <2>1. OneRequest(op)
    BY <1>1 DEF DispatchInv, FirstRunOK
  <2>2. QueuedJobs(op) = {} \/ \E k : QueuedJobs(op) = {k}
    <3>1. ASSUME NEW j \in QueuedJobs(op), NEW k \in QueuedJobs(op) PROVE j = k
      <4>1. /\ j \in Lanes \X (1 .. MaxTicket) /\ WaitsIn(op, j[1], j[2])
            /\ k \in Lanes \X (1 .. MaxTicket) /\ WaitsIn(op, k[1], k[2])
        BY QueuedJobsMean
      <4>2. j[1] = k[1] /\ j[2] = k[2]
        BY <2>1, <4>1 DEF OneRequest
      <4>3. QED  BY <4>1, <4>2
    <3>2. QED  BY <3>1
  <2>3. RunningJobs(op) = {} \/ \E w : RunningJobs(op) = {w}
    <3>1. ASSUME NEW v \in RunningJobs(op), NEW w \in RunningJobs(op) PROVE v = w
      BY <2>1 DEF OneRequest, RunningJobs, RunsOn
    <3>2. QED  BY <3>1
  <2>4. QueuedJobs(op) = {} \/ RunningJobs(op) = {}
    <3>1. ASSUME NEW k \in QueuedJobs(op), NEW w \in RunningJobs(op) PROVE FALSE
      <4>1. k \in Lanes \X (1 .. MaxTicket) /\ WaitsIn(op, k[1], k[2])
        BY QueuedJobsMean
      <4>2. w \in Workers /\ RunsOn(op, w)
        BY DEF RunningJobs, RunsOn
      <4>3. QED  BY <2>1, <4>1, <4>2 DEF OneRequest
    <3>2. QED  BY <3>1
  <2>5. Cardinality({}) = 0 /\ \A x : Cardinality({x}) = 1
    BY FS_EmptySet, FS_Singleton
  <2>6. /\ Cardinality(QueuedJobs(op)) \in {0, 1} /\ Cardinality(RunningJobs(op)) \in {0, 1}
        /\ Cardinality(QueuedJobs(op)) = 0 \/ Cardinality(RunningJobs(op)) = 0
    BY <2>2, <2>3, <2>4, <2>5
  <2>7. QED  BY <2>6 DEF ActiveJobs
<1>2. QED  BY <1>1, DispatchInvHolds, PTL

\* When the workers have left after shutdown, no operation is recorded as
\* active and every request that got a ticket is settled.
THEOREM DrainSettlesAll == Spec => []DrainIsComplete
<1>1. ASSUME DispatchInv PROVE DrainIsComplete
  <2> SUFFICES ASSUME \A w \in Workers : At(w, "exited")
               PROVE  /\ InPhase(journal, ActivePhases) = {}
                      /\ \A lane \in Lanes, t \in 1 .. MaxTicket :
                           t <= queues[lane].next_ticket => <<lane, t>> \in settled
    BY DEF DrainIsComplete
  <2>1. \A w \in Workers : workers[w].ticket = 0
    BY <1>1 DEF DispatchInv, WorkersOK, At
  <2>2. \A lane \in Lanes : queues[lane].closed /\ Waiting(queues[lane]) = {}
    BY <1>1, LaneFacts DEF DispatchInv, WorkersOK
  <2>3. acceptor = NoOp
    BY <1>1, <2>2, LaneFacts DEF DispatchInv, LanesOK
  <2>4. \A op \in Ops : journal[op] \notin ActivePhases
    BY <1>1, <2>1, <2>2, <2>3, ConstantFacts DEF DispatchInv, RecordOK, WaitsIn, HeldBy
  <2>5. \A lane \in Lanes, t \in 1 .. MaxTicket : t <= queues[lane].next_ticket => <<lane, t>> \in settled
    <3> SUFFICES ASSUME NEW lane \in Lanes, NEW t \in 1 .. MaxTicket, t <= queues[lane].next_ticket
                 PROVE  <<lane, t>> \in settled
      OBVIOUS
    <3>1. t # 0
      BY MaxTicketAssumption
    <3>2. QED  BY <1>1, <2>1, <2>2, <3>1 DEF DispatchInv, Accounted
  <2>6. QED  BY <2>4, <2>5 DEF InPhase
<1>2. QED  BY <1>1, DispatchInvHolds, PTL

\* A queue is within the share of its lane, and its normal requests leave the slot
\* reserved for control requests free.
Within(lane, q) ==
  /\ Depth(q) <= LaneCapacity(lane)
  /\ Len(q.normal) <= LaneCapacity(lane) - Reserve(lane)

\* Whatever is queued, every lane is within its share, and the lanes together hold
\* no more than the capacity the busy answer reports.
LanesHeld ==
  /\ \A lane \in Lanes : Within(lane, queues[lane])
  /\ Split => Depth(queues["control"]) + Depth(queues["normal"]) <= DispatchCapacity
  /\ ~Split => Depth(queues["shared"]) <= DispatchCapacity

\* However small the configured capacity is, ConcurrentDispatch::new gives every
\* lane a slot that normal requests may use and hands out each slot once.
LEMMA LaneShares ==
  /\ \A lane \in Lanes : /\ LaneCapacity(lane) \in Nat /\ Reserve(lane) \in Nat
                         /\ Reserve(lane) < LaneCapacity(lane)
  /\ Split => LaneCapacity("control") + LaneCapacity("normal") = DispatchCapacity
  /\ ~Split => LaneCapacity("shared") = DispatchCapacity
<1>1. DispatchCapacity \in Nat \ {0}
  BY ConstantFacts
<1>2. CASE Split
  <2>1. DispatchCapacity > 1
    BY <1>2 DEF Split
  <2>2. PICK quarter \in Nat : quarter = DispatchCapacity \div 4 /\ quarter < DispatchCapacity
    BY <1>1
  <2>3. Max({quarter, 1}) = IF quarter >= 1 THEN quarter ELSE 1
    BY <2>2 DEF Max
  <2>4. PICK m \in Nat : m = Max({quarter, 1}) /\ m >= 1 /\ m <= DispatchCapacity - 1
    BY <1>1, <2>1, <2>2, <2>3
  <2>5. Min({m, DispatchCapacity - 1}) = m
    BY <1>1, <2>1, <2>4 DEF Min
  <2>6. LaneCapacity("control") = m /\ LaneCapacity("normal") = DispatchCapacity - m
    BY <2>2, <2>4, <2>5 DEF LaneCapacity
  <2>7. Lanes = {"control", "normal"} /\ Reserve("control") = 0 /\ Reserve("normal") = 0
    BY <1>2 DEF Lanes, Reserve
  <2> QED
    BY <1>1, <1>2, <2>1, <2>4, <2>6, <2>7
<1>3. CASE ~Split
  <2>1. Lanes = {"shared"} /\ LaneCapacity("shared") = DispatchCapacity
    BY <1>3 DEF Lanes, LaneCapacity
  <2>2. Reserve("shared") = IF DispatchCapacity > 1 THEN 1 ELSE 0
    BY DEF Reserve
  <2> QED
    BY <1>1, <1>3, <2>1, <2>2
<1> QED
  BY <1>2, <1>3

\* What a push admits and a pop leaves is within the share.
LEMMA PushWithin ==
  ASSUME NEW lane \in Lanes, NEW q \in QueueStates, NEW p \in Priorities, Within(lane, q),
         Admissible(q, p, LaneCapacity(lane), Reserve(lane))
  PROVE  Within(lane, Pushed(q, p))
<1>1. /\ Depth(Pushed(q, p)) = Depth(q) + 1
      /\ Len(Pushed(q, p).normal) = Len(q.normal) + (IF p = "Normal" THEN 1 ELSE 0)
  BY LanePushed DEF Admissible
<1>2. /\ Len(q.normal) \in Nat /\ Depth(q) \in Nat /\ Depth(q) >= Len(q.normal)
      /\ LaneCapacity(lane) \in Nat /\ Reserve(lane) \in Nat
      /\ Len(q.normal) <= LaneCapacity(lane) - Reserve(lane)
  BY DepthFacts, LaneShares DEF Within
<1>3. CASE p = "Control"
  <2>1. Depth(q) < LaneCapacity(lane)
    BY <1>2, <1>3 DEF Admissible, Full
  <2>2. Len(Pushed(q, p).normal) = Len(q.normal)
    BY <1>1, <1>2, <1>3
  <2>3. Depth(q) + 1 <= LaneCapacity(lane)
    BY <1>2, <2>1
  <2> QED
    BY <1>1, <1>2, <2>2, <2>3, Zenon DEF Within
<1>4. CASE p = "Normal"
  <2>1. Depth(q) < LaneCapacity(lane) - Reserve(lane)
    BY <1>2, <1>4 DEF Admissible, Full
  <2>2. Len(Pushed(q, p).normal) = Len(q.normal) + 1
    BY <1>1, <1>4
  <2>3. /\ Depth(q) + 1 <= LaneCapacity(lane)
        /\ Len(q.normal) + 1 <= LaneCapacity(lane) - Reserve(lane)
    BY <1>2, <2>1
  <2> QED
    BY <1>1, <2>2, <2>3, Zenon DEF Within
<1> QED
  BY <1>3, <1>4 DEF Priorities

LEMMA PopWithin ==
  ASSUME NEW lane \in Lanes, NEW q \in QueueStates, Within(lane, q), Depth(q) > 0
  PROVE  Within(lane, Popped(q, MaxControlBurst))
<1>1. /\ Popped(q, MaxControlBurst) \in QueueStates
      /\ Depth(Popped(q, MaxControlBurst)) = Depth(q) - 1
      /\ Len(Popped(q, MaxControlBurst).normal) <= Len(q.normal)
  BY LanePopped
<1>2. /\ Len(q.normal) \in Nat /\ Depth(q) \in Nat
      /\ Len(Popped(q, MaxControlBurst).normal) \in Nat
      /\ LaneCapacity(lane) \in Nat /\ Reserve(lane) \in Nat
  BY <1>1, DepthFacts, LaneShares
<1> QED
  BY <1>1, <1>2 DEF Within

\* Every step keeps every lane within its share.
LEMMA WithinStep ==
  ASSUME DispatchInv, [Next]_vars, \A lane \in Lanes : Within(lane, queues[lane])
  PROVE  \A lane \in Lanes : Within(lane, queues'[lane])
<1>1. queues \in [Lanes -> QueueStates]
  BY DEF DispatchInv, DispatchTypeOK
<1>2. CASE UNCHANGED queues
  BY <1>2
<1>3. CASE Push
  <2>1. PICK lane \in Lanes : lane = LaneOf(acceptor)
    BY LaneFacts
  <2>2. PICK p \in Priorities : p = DispatchPriority(acceptor)
    BY DEF DispatchPriority, Priorities
  <2>3. Admissible(queues[lane], p, LaneCapacity(lane), Reserve(lane))
    BY <1>3, <2>1, <2>2 DEF Push, Room
  <2>4. queues' = [queues EXCEPT ![lane] = Pushed(queues[lane], p)]
    BY <1>3, <2>1, <2>2 DEF Push
  <2>5. Within(lane, Pushed(queues[lane], p))
    BY <1>1, <2>3, PushWithin
  <2> QED
    BY <1>1, <2>4, <2>5
<1>4. ASSUME NEW w \in Workers, Pop(w)
      PROVE  \A lane \in Lanes : Within(lane, queues'[lane])
  <2>1. PICK lane \in Lanes : lane = WorkerLane(w)
    BY LaneFacts
  <2>2. /\ Depth(queues[lane]) > 0
        /\ queues' = [queues EXCEPT ![lane] = Popped(queues[lane], MaxControlBurst)]
    BY <1>4, <2>1 DEF Pop
  <2>3. Within(lane, Popped(queues[lane], MaxControlBurst))
    BY <1>1, <2>2, PopWithin
  <2> QED
    BY <1>1, <2>2, <2>3
<1>5. CASE Shutdown
  <2>1. ASSUME NEW lane \in Lanes PROVE Within(lane, queues'[lane])
    <3>1. queues'[lane] = [queues[lane] EXCEPT !.closed = TRUE]
      BY <1>5, <2>1 DEF Shutdown, Closed
    <3>2. /\ queues'[lane].control = queues[lane].control
          /\ queues'[lane].normal = queues[lane].normal
      BY <1>1, <3>1 DEF QueueStates
    <3> QED
      BY <3>2 DEF Within, Depth
  <2> QED
    BY <2>1
<1>6. ASSUME NEW op \in Ops, Admit(op) PROVE UNCHANGED queues
  BY <1>6 DEF Admit
<1>7. ASSUME NEW w \in Workers, Work(w), ~Pop(w) PROVE UNCHANGED queues
  BY <1>7 DEF Work, Exit, MarkInFlight, HandlerReturns, HandlerPanics, Write, RemoveRecord,
     ResponseLost
<1> QED
  BY <1>2, <1>3, <1>4, <1>5, <1>6, <1>7 DEF Next, PushFails, vars

\* For every capacity and number of workers the lanes stay within their shares:
\* try_submit reports busy before a slot is used twice, and normal requests
\* cannot take the slot that a stop or a renewal needs.
THEOREM LanesStayBounded == Spec => []LanesHeld
<1> DEFINE Inv == DispatchInv /\ \A lane \in Lanes : Within(lane, queues[lane])
<1>1. Init => Inv
  <2> SUFFICES ASSUME Init, NEW lane \in Lanes PROVE Within(lane, queues[lane])
    BY InitInv
  <2>1. queues[lane] = EmptyQueue
    BY DEF Init
  <2>2. Depth(queues[lane]) = 0 /\ Len(queues[lane].normal) = 0
    BY <2>1 DEF EmptyQueue, Depth
  <2> QED
    BY <2>2, LaneShares DEF Within
<1>2. Inv /\ [Next]_vars => Inv'
  BY NextInv, WithinStep
<1>3. Inv => LanesHeld
  <2> SUFFICES ASSUME Inv PROVE LanesHeld
    OBVIOUS
  <2>1. CASE Split
    <3>1. Lanes = {"control", "normal"}
      BY <2>1 DEF Lanes
    <3>2. Depth(queues["control"]) \in Nat /\ Depth(queues["normal"]) \in Nat
      BY <3>1, DepthFacts DEF DispatchInv, DispatchTypeOK
    <3>3. Depth(queues["control"]) + Depth(queues["normal"]) <= DispatchCapacity
      BY <2>1, <3>1, <3>2, LaneShares DEF Within
    <3> QED
      BY <2>1, <3>3 DEF LanesHeld, Within
  <2>2. CASE ~Split
    BY <2>2, LaneShares DEF LanesHeld, Within, Lanes
  <2> QED
    BY <2>1, <2>2
<1> QED
  BY <1>1, <1>2, <1>3, PTL DEF Spec

(***************************************************************************)
(* Deadline timers: types.                                                 *)
(***************************************************************************)
Responses == [command : Commands \cup {"claim", "start"}, instant : 0 .. Never]

AttemptRows ==
  [phase : Executing \cup {"none", "expiry_pending", "released", "completed"},
   lease : Nat, hard : 0 .. MaxDeadline]

Passes == [stage : {"idle", "taken", "opened", "read"}, keys : SUBSET Retries,
           at : Nat, lease : Nat]

\* Clock, registry and bounds are naturals, and a deadline is on the clock.
LEMMA Instants ==
  /\ Horizon \in Nat /\ Never \in Nat /\ Never = Horizon + 1 /\ MaxDeadline <= Horizon
  /\ \A h \in 0 .. MaxDeadline, l \in Nat :
       (IF l < h THEN l ELSE h) \in 0 .. MaxDeadline
  /\ \A n \in 0 .. Horizon, d \in Nat :
       (IF n + d < Horizon THEN n + d ELSE Horizon) \in 0 .. Horizon
  /\ 0 \in Retries /\ MaxDeadlineRetries \in Retries
BY TimerAssumption DEF Horizon, Never, Retries

\* A response can be taken out of any place of the sequence.
LEMMA RemovedResponse ==
  ASSUME NEW S, NEW s \in Seq(S), NEW i \in 1 .. Len(s)
  PROVE  /\ RemoveAt(s, i) \in Seq(S) /\ Len(RemoveAt(s, i)) = Len(s) - 1
         /\ \A j \in 1 .. Len(s) - 1 : \E k \in 1 .. Len(s) : RemoveAt(s, i)[j] = s[k]
<1>1. Len(s) \in Nat
  OBVIOUS
<1>2. PICK a : a = SubSeq(s, 1, i - 1)
  OBVIOUS
<1>3. PICK b : b = SubSeq(s, i + 1, Len(s))
  OBVIOUS
<1>4. /\ a \in Seq(S) /\ Len(a) = i - 1
      /\ \A j \in 1 .. i - 1 : a[j] = s[j]
  BY <1>1, <1>2
<1>5. /\ b \in Seq(S) /\ Len(b) = Len(s) - i
      /\ \A j \in 1 .. Len(s) - i : b[j] = s[i + j]
  BY <1>1, <1>3
<1>6. RemoveAt(s, i) = a \o b
  BY <1>2, <1>3 DEF RemoveAt
<1>7. /\ a \o b \in Seq(S) /\ Len(a \o b) = Len(s) - 1
      /\ \A j \in 1 .. Len(s) - 1 :
           (a \o b)[j] = IF j <= i - 1 THEN a[j] ELSE b[j - (i - 1)]
  <2>1. /\ a \o b \in Seq(S) /\ Len(a \o b) = Len(a) + Len(b)
        /\ \A j \in 1 .. Len(a) + Len(b) :
             (a \o b)[j] = IF j <= Len(a) THEN a[j] ELSE b[j - Len(a)]
    BY <1>4, <1>5, ConcatProperties
  <2> QED
    BY <1>1, <1>4, <1>5, <2>1
<1>8. ASSUME NEW j \in 1 .. Len(s) - 1
      PROVE  \E k \in 1 .. Len(s) : RemoveAt(s, i)[j] = s[k]
  <2>1. CASE j <= i - 1
    BY <1>1, <1>4, <1>6, <1>7, <2>1
  <2>2. CASE ~(j <= i - 1)
    <3>1. j - (i - 1) \in 1 .. Len(s) - i /\ j + 1 \in 1 .. Len(s)
      BY <1>1, <2>2
    <3>2. b[j - (i - 1)] = s[j + 1]
      BY <1>1, <1>5, <3>1
    <3> QED
      BY <1>6, <1>7, <2>2, <3>1, <3>2
  <2> QED
    BY <2>1, <2>2
<1> QED
  BY <1>6, <1>7, <1>8

\* A commit that writes a row keeps the types.
LEMMA CommitTypes ==
  ASSUME TimerTypeOK, NEW c \in Commands \cup {"claim", "start"}, NEW row \in AttemptRows,
         NEW x \in 0 .. Never, Commit(c, row, x)
  PROVE  TimerTypeOK'
<1>1. PICK r : r = [command |-> c, instant |-> x]
  OBVIOUS
<1>2. r \in Responses
  BY <1>1 DEF Responses
<1>3. inflight \in Seq(Responses) /\ Len(inflight) < CommandWorkers
  BY DEF TimerTypeOK, Commit, Responses
<1>4. inflight' = Append(inflight, r) /\ attempt' = row
  BY <1>1 DEF Commit
<1>5. inflight' \in Seq(Responses) /\ Len(inflight') = Len(inflight) + 1
  BY <1>2, <1>3, <1>4, AppendProperties
<1>6. Len(inflight') <= CommandWorkers
  BY <1>3, <1>5, TimerAssumption
<1>7. attempt' \in AttemptRows
  BY <1>4
<1> QED
  BY <1>5, <1>6, <1>7 DEF TimerTypeOK, Commit, Responses, AttemptRows

\* A command runs in a live service and touches neither clock nor maintenance.
LEMMA CommandFrame ==
  ASSUME Command
  PROVE  up /\ up' /\ now' = now /\ pass' = pass
<1>1. ASSUME NEW c, NEW row, NEW x, Commit(c, row, x)
      PROVE  up /\ up' /\ now' = now /\ pass' = pass
  <2>1. up /\ UNCHANGED <<now, timers, pass, up, failures, crashes>>
    BY <1>1 DEF Commit
  <2> QED
    BY <2>1
<1>2. ASSUME NEW ttl \in TTLs, NEW budget \in Budgets, Claim(ttl, budget)
      PROVE  up /\ up' /\ now' = now /\ pass' = pass
  BY <1>1, <1>2, Zenon DEF Claim
<1>3. ASSUME NEW at \in Timely, NEW ttl \in TTLs, Renew(at, ttl)
      PROVE  up /\ up' /\ now' = now /\ pass' = pass
  BY <1>1, <1>3, Zenon DEF Renew
<1>4. ASSUME Start \/ Submit \/ Release \/ FinishClose
      PROVE  up /\ up' /\ now' = now /\ pass' = pass
  BY <1>1, <1>4, Zenon DEF Start, Submit, Release, FinishClose
<1> QED
  BY <1>2, <1>3, <1>4, Zenon DEF Command

\* What a command writes and answers with.
LEMMA CommandTypes ==
  ASSUME TimerTypeOK, Command
  PROVE  TimerTypeOK'
<1>1. /\ attempt \in AttemptRows /\ now \in 0 .. Horizon /\ now \in Nat
      /\ attempt.hard \in 0 .. MaxDeadline /\ attempt.lease \in Nat
  BY Instants DEF TimerTypeOK, AttemptRows
<1>2. Never \in 0 .. Never /\ \A x \in 0 .. MaxDeadline : x \in 0 .. Never
  BY Instants, TimerAssumption
<1>3. ASSUME NEW ttl \in TTLs, NEW budget \in Budgets, Claim(ttl, budget) PROVE TimerTypeOK'
  <2>1. PICK row : row = [phase |-> "claimed", lease |-> now + ttl, hard |-> now + budget]
    OBVIOUS
  <2>2. row.hard <= MaxDeadline /\ Commit("claim", row, Schedules(row))
    BY <1>3, <2>1 DEF Claim
  <2>3. now + ttl \in Nat /\ now + budget \in 0 .. MaxDeadline
    BY <1>1, <2>1, <2>2, TimerAssumption
  <2>4. row \in AttemptRows /\ row.lease = now + ttl /\ row.hard = now + budget
    BY <2>1, <2>3 DEF AttemptRows, Executing, Unsubmitted
  <2>5. Schedules(row) \in 0 .. MaxDeadline
    BY <2>3, <2>4, Instants DEF Schedules
  <2> QED
    BY <1>2, <2>2, <2>4, <2>5, CommitTypes
<1>4. CASE Start
  <2>1. PICK row : row = [attempt EXCEPT !.phase = "running"]
    OBVIOUS
  <2>2. Commit("start", row, Schedules(attempt))
    BY <1>4, <2>1 DEF Start
  <2>3. row \in AttemptRows
    BY <1>1, <2>1 DEF AttemptRows, Executing, Unsubmitted
  <2>4. Schedules(attempt) \in 0 .. MaxDeadline
    BY <1>1, Instants DEF Schedules
  <2> QED
    BY <1>2, <2>2, <2>3, <2>4, CommitTypes
<1>5. ASSUME NEW at \in Timely, NEW ttl \in TTLs, Renew(at, ttl) PROVE TimerTypeOK'
  <2>1. PICK row : row = [attempt EXCEPT !.lease = at + ttl]
    OBVIOUS
  <2>2. Commit("renew", row, Schedules(row)) /\ "renew" \in Commands
    BY <1>5, <2>1 DEF Renew
  <2>3. at + ttl \in Nat
    BY <1>1, TimerAssumption DEF Timely
  <2>4. row \in AttemptRows /\ row.lease = at + ttl /\ row.hard = attempt.hard
    BY <1>1, <2>1, <2>3 DEF AttemptRows
  <2>5. Schedules(row) \in 0 .. MaxDeadline
    BY <1>1, <2>3, <2>4, Instants DEF Schedules
  <2> QED
    BY <1>2, <2>2, <2>4, <2>5, CommitTypes
<1>6. ASSUME NEW c \in Commands, NEW p \in {"verifying", "released", "completed"},
             Commit(c, [attempt EXCEPT !.phase = p], Cancels)
      PROVE  TimerTypeOK'
  <2>1. PICK row : row = [attempt EXCEPT !.phase = p]
    OBVIOUS
  <2>2. row \in AttemptRows
    BY <1>1, <2>1 DEF AttemptRows, Executing
  <2>3. Commit(c, row, Cancels)
    BY <1>6, <2>1
  <2> QED
    BY <1>2, <2>2, <2>3, CommitTypes DEF Cancels
<1> QED
  BY <1>3, <1>4, <1>5, <1>6 DEF Command, Submit, Release, FinishClose

\* A retry is due on the clock.
LEMMA LaterIsOnClock ==
  ASSUME TimerTypeOK
  PROVE  Later(RetryCap) \in 0 .. Horizon /\ Later(RetryDelay) \in 0 .. Horizon
<1>1. now \in 0 .. Horizon
  BY DEF TimerTypeOK
<1>2. RetryCap \in Nat /\ RetryDelay \in Nat
  BY TimerAssumption
<1> QED
  BY <1>1, <1>2, Instants DEF Later

\* What the registry becomes when keys are retried or retries cancelled.
LEMMA RegistryTypes ==
  ASSUME TimerTypeOK, NEW keys
  PROVE  /\ RetryDeadline(keys) \in [Retries -> 0 .. Never]
         /\ CancelDeadlineRetries \in [Retries -> 0 .. Never]
         /\ NoTimers \in [Retries -> 0 .. Never]
<1>1. Later(RetryCap) \in 0 .. Never /\ Later(RetryDelay) \in 0 .. Never
  BY LaterIsOnClock, Instants
<1>2. Never \in 0 .. Never
  BY Instants
<1> QED
  BY <1>1, <1>2 DEF RetryDeadline, CancelDeadlineRetries, NoTimers, TimerTypeOK

\* What a pass becomes.
LEMMA PassTypes ==
  ASSUME TimerTypeOK, NEW k
  PROVE  /\ IdlePass \in Passes /\ After(k) \in Passes
         /\ \A s \in {"taken", "opened"} : [pass EXCEPT !.stage = s] \in Passes
         /\ \A d \in SUBSET Retries :
              [pass EXCEPT !.stage = "taken", !.keys = d] \in Passes
         /\ [pass EXCEPT !.stage = "read", !.at = now, !.lease = attempt.lease] \in Passes
<1>1. pass \in Passes
  BY DEF TimerTypeOK, Passes
<1>2. IdlePass \in Passes
  BY DEF IdlePass, Passes
<1>3. now \in Nat /\ attempt.lease \in Nat
  BY Instants DEF TimerTypeOK
<1>4. pass.keys \ {k} \in SUBSET Retries
  BY <1>1 DEF Passes
<1>5. [pass EXCEPT !.stage = "opened", !.keys = @ \ {k}] \in Passes
  BY <1>1, <1>4 DEF Passes
<1>6. After(k) \in Passes
  BY <1>2, <1>5 DEF After
<1>7. [pass EXCEPT !.stage = "read", !.at = now, !.lease = attempt.lease] \in Passes
  BY <1>1, <1>3 DEF Passes
<1>8. /\ \A s \in {"taken", "opened"} : [pass EXCEPT !.stage = s] \in Passes
      /\ \A d \in SUBSET Retries : [pass EXCEPT !.stage = "taken", !.keys = d] \in Passes
  BY <1>1 DEF Passes
<1> QED
  BY <1>2, <1>6, <1>7, <1>8

\* Every step keeps the types, and a pass never remembers a later instant.
TimerInv == TimerTypeOK /\ pass.at <= now

LEMMA TimerTypesStep ==
  ASSUME TimerTypeOK, [TimerNext]_timerVars
  PROVE  TimerTypeOK'
<1>1. /\ pass \in Passes /\ attempt \in AttemptRows /\ timers \in [Retries -> 0 .. Never]
      /\ inflight \in Seq(Responses) /\ now \in 0 .. Horizon
  BY DEF TimerTypeOK, Passes, AttemptRows, Responses
<1>2. CASE Command
  BY <1>2, CommandTypes
<1>3. CASE AnyResponse
  <2>1. PICK i \in 1 .. Len(inflight) : Respond(i)
    BY <1>3 DEF AnyResponse
  <2>2. /\ RemoveAt(inflight, i) \in Seq(Responses)
        /\ Len(RemoveAt(inflight, i)) = Len(inflight) - 1
    BY <1>1, RemovedResponse
  <2>3. inflight[i] \in Responses
    BY <1>1, ElementOfSeq
  <2>4. inflight[i].instant \in 0 .. Never
    BY <2>3 DEF Responses
  <2>5. Len(inflight) \in Nat /\ Len(inflight) <= CommandWorkers
    BY <1>1 DEF TimerTypeOK
  <2>6. Len(inflight') <= CommandWorkers
    BY <2>1, <2>2, <2>5, TimerAssumption DEF Respond
  <2>7. timers' \in [Retries -> 0 .. Never]
    BY <1>1, <2>1, <2>4, Instants DEF Respond
  <2> QED
    BY <2>1, <2>2, <2>6, <2>7 DEF Respond, TimerTypeOK, Responses
<1>4. CASE Maintenance
  <2>1. CASE TakeDue
    <3>1. PICK d \in SUBSET Retries :
            /\ timers' = [k \in Retries |-> IF k \in d THEN Never ELSE timers[k]]
            /\ pass' = [pass EXCEPT !.stage = "taken", !.keys = d]
      BY <2>1 DEF TakeDue
    <3>2. timers' \in [Retries -> 0 .. Never]
      BY <1>1, <3>1, Instants
    <3>3. pass' \in Passes
      BY <3>1, PassTypes
    <3> QED
      BY <2>1, <3>2, <3>3 DEF TakeDue, TimerTypeOK, Passes
  <2>2. CASE OpenStore
    <3>1. pass' \in Passes
      BY <2>2, PassTypes DEF OpenStore
    <3> QED
      BY <2>2, <3>1 DEF OpenStore, TimerTypeOK, Passes
  <2>3. CASE ReadAttempt
    <3>1. pass' \in Passes
      BY <2>3, PassTypes DEF ReadAttempt
    <3> QED
      BY <2>3, <3>1 DEF ReadAttempt, TimerTypeOK, Passes
  <2>4. ASSUME NEW k \in pass.keys, Reconcile(k) PROVE TimerTypeOK'
    <3>1. pass' \in Passes /\ timers' \in [Retries -> 0 .. Never]
      BY <2>4, PassTypes, RegistryTypes DEF Reconcile
    <3>2. attempt' \in AttemptRows
      BY <1>1, <2>4 DEF Reconcile, AttemptRows
    <3> QED
      BY <2>4, <3>1, <3>2 DEF Reconcile, TimerTypeOK, Passes, AttemptRows
  <2> QED
    BY <1>4, <2>1, <2>2, <2>3, <2>4 DEF Maintenance
<1>5. CASE Failure
  <2>1. CASE OpenFails
    <3>1. pass' \in Passes /\ timers' \in [Retries -> 0 .. Never]
      BY <2>1, PassTypes, RegistryTypes DEF OpenFails
    <3>2. failures' \in 0 .. MaxFailures
      BY <2>1, TimerAssumption DEF OpenFails, TimerTypeOK
    <3> QED
      BY <2>1, <3>1, <3>2 DEF OpenFails, TimerTypeOK, Passes
  <2>2. ASSUME NEW k \in pass.keys, ReconcileFails(k) PROVE TimerTypeOK'
    <3>1. pass' \in Passes /\ timers' \in [Retries -> 0 .. Never]
      BY <2>2, PassTypes, RegistryTypes DEF ReconcileFails
    <3>2. failures' \in 0 .. MaxFailures
      BY <2>2, TimerAssumption DEF ReconcileFails, TimerTypeOK
    <3> QED
      BY <2>2, <3>1, <3>2 DEF ReconcileFails, TimerTypeOK, Passes
  <2> QED
    BY <1>5, <2>1, <2>2 DEF Failure
<1>6. CASE Crash
  <2>1. pass' \in Passes /\ timers' \in [Retries -> 0 .. Never]
    BY <1>6, PassTypes, RegistryTypes DEF Crash
  <2>2. crashes' \in 0 .. MaxCrashes
    BY <1>6, TimerAssumption DEF Crash, TimerTypeOK
  <2>3. inflight' \in Seq(Responses) /\ Len(inflight') <= CommandWorkers
    BY <1>6, TimerAssumption DEF Crash
  <2>4. up' \in BOOLEAN /\ UNCHANGED <<now, attempt, failures>>
    BY <1>6 DEF Crash
  <2> QED
    BY <2>1, <2>2, <2>3, <2>4 DEF TimerTypeOK, Passes, Responses
<1>7. CASE Restart
  <2>1. NoTimers \in [Retries -> 0 .. Never]
    BY RegistryTypes
  <2>2. Deadline \in 0 .. Never
    BY <1>1, Instants DEF Deadline, AttemptRows
  <2>3. timers' \in [Retries -> 0 .. Never]
    BY <1>7, <2>1, <2>2 DEF Restart
  <2> QED
    BY <1>7, <2>3 DEF Restart, TimerTypeOK
<1>8. CASE Tick
  BY <1>8, Instants DEF Tick, TimerTypeOK
<1>9. CASE UNCHANGED timerVars
  BY <1>9 DEF timerVars, TimerTypeOK
<1> QED
  BY <1>2, <1>3, <1>4, <1>5, <1>6, <1>7, <1>8, <1>9 DEF TimerNext

\* A pass never remembers a later instant, so what it fences has elapsed.
LEMMA TimerInvStep ==
  ASSUME TimerInv, [TimerNext]_timerVars
  PROVE  TimerInv'
<1>1. TimerTypeOK /\ TimerTypeOK' /\ pass.at <= now
  BY TimerTypesStep DEF TimerInv
<1>2. now \in Nat /\ now' \in Nat /\ pass.at \in Nat /\ pass \in Passes
  BY <1>1, Instants DEF TimerTypeOK, Passes
<1>3. now <= now'
  <2>1. CASE Tick
    BY <1>2, <2>1 DEF Tick
  <2>2. CASE Command
    BY <1>2, <2>2, CommandFrame
  <2>3. CASE AnyResponse \/ Crash \/ Restart
    BY <1>2, <2>3 DEF AnyResponse, Respond, Crash, Restart
  <2>4. CASE Maintenance
    BY <1>2, <2>4 DEF Maintenance, TakeDue, OpenStore, ReadAttempt, Reconcile
  <2>5. CASE Failure
    <3>1. now' = now
      BY <2>5 DEF Failure, OpenFails, ReconcileFails
    <3> QED
      BY <1>2, <3>1
  <2>6. CASE UNCHANGED timerVars
    BY <1>2, <2>6 DEF timerVars
  <2> QED
    BY <2>1, <2>2, <2>3, <2>4, <2>5, <2>6 DEF TimerNext
<1>4. pass'.at \in {pass.at, 0, now}
  <2>1. ASSUME UNCHANGED pass PROVE pass'.at \in {pass.at, 0, now}
    BY <2>1
  <2>2. IdlePass.at = 0
    BY DEF IdlePass
  <2>3. \A k : After(k).at \in {pass.at, 0}
    BY <1>2, <2>2 DEF After, Passes
  <2>4. CASE Command
    BY <2>1, <2>4, CommandFrame
  <2>5. CASE TakeDue
    BY <1>2, <2>5 DEF TakeDue, Passes
  <2>6. CASE OpenStore
    BY <1>2, <2>6 DEF OpenStore, Passes
  <2>7. CASE ReadAttempt
    BY <1>2, <2>7 DEF ReadAttempt, Passes
  <2>8. CASE \E k \in pass.keys : Reconcile(k) \/ ReconcileFails(k)
    BY <2>3, <2>8 DEF Reconcile, ReconcileFails
  <2>9. CASE OpenFails \/ Crash
    BY <2>2, <2>9 DEF OpenFails, Crash
  <2>10. CASE AnyResponse \/ Restart \/ Tick
    BY <2>1, <2>10 DEF AnyResponse, Respond, Restart, Tick
  <2>11. CASE UNCHANGED timerVars
    BY <2>1, <2>11 DEF timerVars
  <2> QED
    BY <2>4, <2>5, <2>6, <2>7, <2>8, <2>9, <2>10, <2>11 DEF TimerNext, Maintenance, Failure
<1> QED
  BY <1>1, <1>2, <1>3, <1>4 DEF TimerInv

LEMMA TimerInvInit == TimerInit => TimerInv
<1> SUFFICES ASSUME TimerInit PROVE TimerInv
  OBVIOUS
<1>1. pass \in Passes /\ pass.at = 0
  BY DEF TimerInit, IdlePass, Passes
<1>2. timers \in [Retries -> 0 .. Never]
  BY Instants DEF TimerInit, NoTimers
<1>3. attempt \in AttemptRows
  BY TimerAssumption DEF TimerInit, AttemptRows
<1>4. now \in 0 .. Horizon /\ failures \in 0 .. MaxFailures /\ crashes \in 0 .. MaxCrashes
  BY Instants, TimerAssumption DEF TimerInit
<1>5. inflight \in Seq(Responses) /\ Len(inflight) <= CommandWorkers
  BY TimerAssumption DEF TimerInit
<1>6. up \in BOOLEAN /\ now = 0
  BY DEF TimerInit
<1> QED
  BY <1>1, <1>2, <1>3, <1>4, <1>5, <1>6
  DEF TimerInv, TimerTypeOK, Passes, AttemptRows, Responses

\* Every variable of the timers has its type, whatever fails or restarts.
THEOREM TimerTypes == TimerSpec => []TimerTypeOK
<1>1. TimerInv => TimerTypeOK
  BY DEF TimerInv
<1> QED
  BY <1>1, TimerInvInit, TimerInvStep, PTL DEF TimerSpec

\* An attempt is fenced only once a deadline of the committed row has passed: the
\* transaction compares the lease it read and the instant it sampled, and that
\* instant is in the past.
THEOREM OldTimerNeverFences == TimerSpec => RenewalBeatsOldTimer
<1>1. TimerInv /\ [TimerNext]_timerVars =>
        [attempt.phase # "expiry_pending" /\ attempt'.phase = "expiry_pending" =>
           attempt.phase \in Executing /\ Elapsed]_timerVars
  <2> SUFFICES ASSUME TimerInv, TimerNext, attempt.phase # "expiry_pending",
                      attempt'.phase = "expiry_pending"
               PROVE  attempt.phase \in Executing /\ Elapsed
    OBVIOUS
  <2>1. /\ attempt \in AttemptRows /\ now \in Nat /\ pass.at \in Nat /\ pass.at <= now
        /\ Deadline \in Nat
    <3>1. attempt \in AttemptRows /\ now \in Nat /\ pass.at \in Nat /\ pass.at <= now
      BY Instants DEF TimerInv, TimerTypeOK, AttemptRows
    <3> QED
      BY <3>1, Instants, TimerAssumption DEF Deadline, AttemptRows
  <2>2. ASSUME UNCHANGED attempt PROVE FALSE
    BY <2>2
  <2>3. ASSUME Command PROVE FALSE
    <3>1. \A p : [attempt EXCEPT !.phase = p].phase = p
      BY <2>1 DEF AttemptRows
    <3>2. \A l : [attempt EXCEPT !.lease = l].phase = attempt.phase
      BY <2>1 DEF AttemptRows
    <3>3. \A t \in TTLs, b \in Budgets : ~Claim(t, b)
      BY DEF Claim, Commit
    <3>4. ~Start
      BY <3>1 DEF Start, Commit
    <3>5. \A a \in Timely, t \in TTLs : ~Renew(a, t)
      BY <3>2 DEF Renew, Commit
    <3>6. ~Submit /\ ~Release /\ ~FinishClose
      BY <3>1 DEF Submit, Release, FinishClose, Commit
    <3> QED
      BY <2>3, <3>3, <3>4, <3>5, <3>6 DEF Command
  <2>4. PICK k \in pass.keys : Reconcile(k)
    BY <2>2, <2>3 DEF TimerNext, AnyResponse, Respond, Maintenance, TakeDue, OpenStore,
       ReadAttempt, Failure, OpenFails, ReconcileFails, Crash, Restart, Tick
  <2>5. Fences
    BY <2>2, <2>4 DEF Reconcile
  <2> QED
    BY <2>1, <2>5 DEF Fences, Elapsed
<1> QED
  BY <1>1, TimerInvInit, TimerInvStep, PTL DEF TimerSpec, RenewalBeatsOldTimer

(***************************************************************************)
(* Deadline timers: an attempt that has not submitted is always covered.   *)
(***************************************************************************)
\* What is on its way to the registry is the deadline of the committed row.
AnswersAgree == \A i \in 1 .. Len(inflight) : inflight[i].instant = Deadline

\* Once every response arrived, the registry's own key holds that deadline or
\* was taken out.
RegistryAgrees == inflight = <<>> => timers[0] \in {Deadline, Never}

\* The deadline is pending, or it has passed and a pass or a retry handles it.
Handled ==
  \/ inflight # <<>>
  \/ timers[0] = Deadline
  \/ Elapsed /\ (pass.keys # {} \/ \E k \in Retries \ {0} : timers[k] <= Horizon)

\* A pass that read the attempt after its timer was taken read the row as it is,
\* at an instant past its deadline: its transaction will fence.
ReadIsCurrent ==
  pass.stage = "read" /\ inflight = <<>> /\ timers[0] = Never =>
    attempt.lease = pass.lease /\ pass.at >= Deadline

Covered == AnswersAgree /\ RegistryAgrees /\ Handled /\ ReadIsCurrent

CoverInv ==
  /\ TimerTypeOK
  /\ (attempt.phase = "none" \/ ~up) => inflight = <<>>
  /\ (up /\ attempt.phase \in Unsubmitted) => Covered

\* A deadline is on the clock, so no scheduled deadline looks like no timer.
LEMMA DeadlineOnClock ==
  ASSUME TimerTypeOK
  PROVE  /\ Deadline \in Nat /\ Deadline <= Horizon /\ Deadline # Never /\ now \in Nat
         /\ attempt \in AttemptRows /\ pass \in Passes /\ inflight \in Seq(Responses)
         /\ Len(inflight) \in Nat /\ timers \in [Retries -> 0 .. Never]
<1>1. /\ attempt \in AttemptRows /\ pass \in Passes /\ inflight \in Seq(Responses)
      /\ timers \in [Retries -> 0 .. Never] /\ now \in 0 .. Horizon
  BY DEF TimerTypeOK, AttemptRows, Passes, Responses
<1>2. attempt.lease \in Nat /\ attempt.hard \in 0 .. MaxDeadline
  BY <1>1 DEF AttemptRows
<1>3. Deadline \in 0 .. MaxDeadline
  BY <1>2, Instants DEF Deadline
<1>4. Len(inflight) \in Nat
  BY <1>1
<1> QED
  BY <1>1, <1>3, <1>4, Instants, TimerAssumption

\* A commit whose response carries the deadline of the row it wrote, with no
\* response of another deadline under way.
LEMMA CommitCovers ==
  ASSUME TimerTypeOK, NEW c, NEW row \in AttemptRows, Commit(c, row, Schedules(row)),
         \A i \in 1 .. Len(inflight) : inflight[i].instant = Schedules(row)
  PROVE  Covered'
<1>1. PICK r : r = [command |-> c, instant |-> Schedules(row)]
  OBVIOUS
<1>2. inflight' = Append(inflight, r) /\ attempt' = row /\ r.instant = Schedules(row)
  BY <1>1 DEF Commit
<1>3. inflight \in Seq(Responses \cup {r}) /\ r \in Responses \cup {r}
  BY DeadlineOnClock
<1>4. /\ Len(inflight') = Len(inflight) + 1 /\ inflight' # <<>>
      /\ \A i \in 1 .. Len(inflight) : inflight'[i] = inflight[i]
      /\ inflight'[Len(inflight) + 1] = r
  BY <1>2, <1>3, AppendProperties
<1>5. Deadline' = Schedules(row)
  BY <1>2 DEF Deadline, Schedules
<1>6. AnswersAgree'
  <2> SUFFICES ASSUME NEW i \in 1 .. Len(inflight')
               PROVE  inflight'[i].instant = Schedules(row)
    BY <1>5 DEF AnswersAgree
  <2>1. Len(inflight) \in Nat
    BY DeadlineOnClock
  <2>2. i \in 1 .. Len(inflight) \/ i = Len(inflight) + 1
    BY <1>4, <2>1
  <2> QED
    BY <1>2, <1>4, <2>2
<1> QED
  BY <1>4, <1>6 DEF Covered, RegistryAgrees, Handled, ReadIsCurrent

\* A command: with several workers, no renewal may race an earlier response.
LEMMA CommandCovers ==
  ASSUME CommandWorkers = 1 \/ "renew" \notin Commands, CoverInv, Command
  PROVE  CoverInv'
<1>1. TimerTypeOK /\ TimerTypeOK'
  BY CommandTypes DEF CoverInv
<1>2. /\ attempt \in AttemptRows /\ inflight \in Seq(Responses) /\ Len(inflight) \in Nat
      /\ now \in Nat
  BY <1>1, DeadlineOnClock
<1>3. /\ \A p : [attempt EXCEPT !.phase = p].phase = p
      /\ \A p : [attempt EXCEPT !.phase = p].lease = attempt.lease
      /\ \A p : [attempt EXCEPT !.phase = p].hard = attempt.hard
      /\ \A l : [attempt EXCEPT !.lease = l].phase = attempt.phase
  BY <1>2 DEF AttemptRows
<1>4. up /\ up'
  BY CommandFrame
<1>5. ASSUME NEW ttl \in TTLs, NEW budget \in Budgets, Claim(ttl, budget)
      PROVE  attempt'.phase # "none" /\ Covered'
  <2>1. PICK row : row = [phase |-> "claimed", lease |-> now + ttl, hard |-> now + budget]
    OBVIOUS
  <2>2. /\ attempt.phase = "none" /\ row.hard <= MaxDeadline
        /\ Commit("claim", row, Schedules(row))
    BY <1>5, <2>1 DEF Claim
  <2>3. now + ttl \in Nat /\ now + budget \in 0 .. MaxDeadline
    BY <1>2, <2>1, <2>2, TimerAssumption
  <2>4. row \in AttemptRows /\ row.phase = "claimed"
    BY <2>1, <2>3 DEF AttemptRows, Executing, Unsubmitted
  <2>5. inflight = <<>>
    BY <2>2 DEF CoverInv
  <2>6. Covered'
    BY <1>1, <2>2, <2>4, <2>5, CommitCovers
  <2> QED
    BY <2>2, <2>4, <2>6 DEF Commit
<1>6. ASSUME Start PROVE attempt'.phase # "none" /\ Covered'
  <2>1. PICK row : row = [attempt EXCEPT !.phase = "running"]
    OBVIOUS
  <2>2. row.lease = attempt.lease /\ row.hard = attempt.hard /\ row.phase = "running"
    BY <1>3, <2>1
  <2>3. Schedules(row) = Deadline /\ Schedules(attempt) = Deadline
    BY <2>2 DEF Schedules, Deadline
  <2>4. attempt.phase = "claimed" /\ Commit("start", row, Schedules(row))
    BY <1>6, <2>1, <2>3 DEF Start
  <2>5. AnswersAgree
    BY <1>4, <2>4 DEF CoverInv, Covered, Unsubmitted
  <2>6. row \in AttemptRows
    BY <1>2, <2>1 DEF AttemptRows, Executing, Unsubmitted
  <2>7. Covered'
    BY <1>1, <2>3, <2>4, <2>5, <2>6, CommitCovers DEF AnswersAgree
  <2> QED
    BY <2>2, <2>4, <2>7 DEF Commit
<1>7. ASSUME NEW at \in Timely, NEW ttl \in TTLs, Renew(at, ttl)
      PROVE  attempt'.phase # "none" /\ Covered'
  <2>1. PICK row : row = [attempt EXCEPT !.lease = at + ttl]
    OBVIOUS
  <2>2. /\ Commit("renew", row, Schedules(row)) /\ "renew" \in Commands
        /\ attempt.phase \in Executing
    BY <1>7, <2>1 DEF Renew
  <2>3. Len(inflight) = 0
    BY <1>2, <2>2 DEF Commit
  <2>4. at + ttl \in Nat
    BY <1>2, TimerAssumption DEF Timely
  <2>5. row \in AttemptRows /\ row.phase = attempt.phase
    BY <1>2, <2>1, <2>4 DEF AttemptRows
  <2>6. Covered'
    BY <1>1, <2>2, <2>3, <2>5, CommitCovers
  <2> QED
    BY <2>2, <2>5, <2>6 DEF Commit, Executing, Unsubmitted
<1>8. ASSUME Submit \/ Release \/ FinishClose
      PROVE  attempt'.phase \in {"verifying", "released", "completed"}
  BY <1>3, <1>8 DEF Submit, Release, FinishClose, Commit
<1>9. \/ attempt'.phase # "none" /\ Covered'
      \/ attempt'.phase \in {"verifying", "released", "completed"}
  BY <1>5, <1>6, <1>7, <1>8 DEF Command
<1> QED
  BY <1>1, <1>4, <1>9 DEF CoverInv, Unsubmitted

\* A response puts the deadline of the row into the registry.
LEMMA ResponseCovers ==
  ASSUME CoverInv, AnyResponse
  PROVE  CoverInv'
<1>1. TimerTypeOK /\ TimerTypeOK'
  BY TimerTypesStep DEF CoverInv, TimerNext
<1>2. PICK i \in 1 .. Len(inflight) : Respond(i)
  BY DEF AnyResponse
<1>3. /\ UNCHANGED <<now, attempt, pass, up>> /\ inflight' = RemoveAt(inflight, i)
      /\ timers' = [timers EXCEPT ![0] = inflight[i].instant] /\ up
  BY <1>2 DEF Respond
<1>4. inflight # <<>> /\ attempt.phase # "none"
  BY <1>2 DEF CoverInv
<1>5. ASSUME attempt.phase \in Unsubmitted PROVE Covered'
  <2>1. AnswersAgree
    BY <1>3, <1>5 DEF CoverInv, Covered
  <2>2. Deadline' = Deadline
    BY <1>3 DEF Deadline
  <2>3. timers'[0] = Deadline
    BY <1>1, <1>3, <2>1, DeadlineOnClock, Instants DEF AnswersAgree
  <2>4. AnswersAgree'
    <3>1. inflight \in Seq(Responses)
      BY <1>1, DeadlineOnClock
    <3>2. /\ Len(inflight') = Len(inflight) - 1
          /\ \A j \in 1 .. Len(inflight) - 1 :
               \E k \in 1 .. Len(inflight) : inflight'[j] = inflight[k]
      BY <1>3, <3>1, RemovedResponse
    <3> QED
      BY <2>1, <2>2, <3>2 DEF AnswersAgree
  <2>5. Deadline # Never
    BY <1>1, DeadlineOnClock
  <2> QED
    BY <2>2, <2>3, <2>4, <2>5 DEF Covered, RegistryAgrees, Handled, ReadIsCurrent
<1> QED
  BY <1>1, <1>3, <1>4, <1>5 DEF CoverInv

\* What a retry leaves: the deadline's own key as it was, and some retry pending
\* when a key was retried or a retry was pending already.
LEMMA RetryPends ==
  ASSUME TimerTypeOK, NEW keys \in SUBSET Retries,
         keys # {} \/ \E k \in Retries \ {0} : timers[k] <= Horizon
  PROVE  /\ RetryDeadline(keys)[0] = timers[0]
         /\ \E k \in Retries \ {0} : RetryDeadline(keys)[k] <= Horizon
<1>1. MaxDeadlineRetries \in Nat \ {0}
  BY TimerAssumption
<1>2. Later(RetryCap) <= Horizon /\ Later(RetryDelay) <= Horizon
  BY LaterIsOnClock, Instants
<1>3. \A k \in Retries : RetryDeadline(keys)[k] =
        IF k = MaxDeadlineRetries /\ k \in keys THEN Later(RetryCap)
        ELSE IF k - 1 \in keys THEN Later(RetryDelay) ELSE timers[k]
  BY DEF RetryDeadline
<1>4. RetryDeadline(keys)[0] = timers[0]
  <2>1. 0 \in Retries /\ 0 - 1 \notin keys /\ 0 # MaxDeadlineRetries
    BY <1>1 DEF Retries
  <2> QED
    BY <1>3, <2>1
<1>5. ASSUME NEW k \in keys
      PROVE  \E m \in Retries \ {0} : RetryDeadline(keys)[m] <= Horizon
  <2>1. CASE k = MaxDeadlineRetries
    BY <1>1, <1>2, <1>3, <2>1 DEF Retries
  <2>2. CASE k # MaxDeadlineRetries
    <3>1. k + 1 \in Retries \ {0} /\ (k + 1) - 1 = k
      BY <1>1, <2>2 DEF Retries
    <3>2. RetryDeadline(keys)[k + 1] <= Horizon
      BY <1>2, <1>3, <3>1
    <3> QED
      BY <3>1, <3>2
  <2> QED
    BY <2>1, <2>2
<1>6. ASSUME NEW k \in Retries \ {0}, timers[k] <= Horizon
      PROVE  \E m \in Retries \ {0} : RetryDeadline(keys)[m] <= Horizon
  BY <1>2, <1>3, <1>6
<1> QED
  BY <1>4, <1>5, <1>6

\* A step that leaves row, clock and responses alone.
Aside == UNCHANGED <<now, attempt, inflight, up>>

LEMMA AsideFacts ==
  ASSUME Aside
  PROVE  /\ Deadline' = Deadline /\ Elapsed' = Elapsed /\ AnswersAgree' = AnswersAgree
         /\ inflight' = inflight /\ attempt' = attempt /\ up' = up
BY DEF Aside, Deadline, Elapsed, AnswersAgree

\* The maintenance thread takes the due keys.
LEMMA TakeDueCovers ==
  ASSUME CoverInv, TakeDue
  PROVE  CoverInv'
<1>1. TimerTypeOK /\ TimerTypeOK'
  BY TimerTypesStep DEF CoverInv, TimerNext, Maintenance
<1>2. Aside /\ up
  BY DEF TakeDue, Aside
<1>3. PICK due \in SUBSET Retries :
        /\ due # {} /\ \A k \in Retries : k \in due <=> timers[k] <= now
        /\ timers' = [k \in Retries |-> IF k \in due THEN Never ELSE timers[k]]
        /\ pass' = [pass EXCEPT !.stage = "taken", !.keys = due]
  BY DEF TakeDue
<1>4. pass'.keys = due /\ pass'.stage = "taken"
  BY <1>1, <1>3, DeadlineOnClock DEF Passes
<1>5. timers'[0] = IF timers[0] <= now THEN Never ELSE timers[0]
  BY <1>3, Instants
<1>6. ASSUME Covered PROVE Covered'
  <2>1. RegistryAgrees'
    BY <1>2, <1>5, <1>6, AsideFacts DEF Covered, RegistryAgrees
  <2>2. Handled'
    <3>1. CASE inflight # <<>> \/ Elapsed
      BY <1>2, <1>3, <1>4, <3>1, AsideFacts DEF Handled
    <3>2. CASE timers[0] = Deadline /\ ~Elapsed
      BY <1>2, <1>5, <3>2, AsideFacts DEF Handled, Elapsed
    <3> QED
      BY <1>6, <3>1, <3>2 DEF Covered, Handled
  <2> QED
    BY <1>2, <1>4, <1>6, <2>1, <2>2, AsideFacts DEF Covered, ReadIsCurrent
<1> QED
  BY <1>1, <1>2, <1>6, AsideFacts DEF CoverInv

\* The pass opens the store or reads the row.
LEMMA PassCovers ==
  ASSUME CoverInv, OpenStore \/ ReadAttempt
  PROVE  CoverInv'
<1>1. TimerTypeOK /\ TimerTypeOK'
  BY TimerTypesStep DEF CoverInv, TimerNext, Maintenance
<1>2. Aside /\ up /\ timers' = timers
  BY DEF OpenStore, ReadAttempt, Aside
<1>3. pass'.keys = pass.keys
  BY <1>1, DeadlineOnClock DEF OpenStore, ReadAttempt, Passes
<1>4. ASSUME Covered PROVE Covered'
  <2>1. RegistryAgrees' /\ Handled'
    BY <1>2, <1>3, <1>4, AsideFacts DEF Covered, RegistryAgrees, Handled
  <2>2. ReadIsCurrent'
    <3>1. CASE OpenStore
      <4>1. pass'.stage = "opened"
        BY <1>1, <3>1, DeadlineOnClock DEF OpenStore, Passes
      <4> QED
        BY <4>1 DEF ReadIsCurrent
    <3>2. CASE ReadAttempt
      <4>1. pass'.at = now /\ pass'.lease = attempt.lease
        BY <1>1, <3>2, DeadlineOnClock DEF ReadAttempt, Passes
      <4>2. inflight = <<>> /\ timers[0] = Never => now >= Deadline
        BY <1>1, <1>4, DeadlineOnClock DEF Covered, Handled, Elapsed
      <4> QED
        BY <1>2, <4>1, <4>2, AsideFacts DEF ReadIsCurrent
    <3> QED
      BY <3>1, <3>2
  <2> QED
    BY <1>2, <1>4, <2>1, <2>2, AsideFacts DEF Covered
<1> QED
  BY <1>1, <1>2, <1>4, AsideFacts DEF CoverInv

\* After a key is done, the pass is no longer at a read.
LEMMA AfterRead ==
  ASSUME TimerTypeOK, NEW k
  PROVE  After(k).stage # "read"
<1>1. pass \in Passes
  BY DeadlineOnClock
<1> QED
  BY <1>1 DEF After, IdlePass, Passes

\* A transaction that does not fence an uncovered attempt does not exist.
LEMMA ReconcileCovers ==
  ASSUME CoverInv, NEW k \in pass.keys, Reconcile(k)
  PROVE  CoverInv'
<1>1. TimerTypeOK /\ TimerTypeOK'
  BY TimerTypesStep DEF CoverInv, TimerNext, Maintenance
<1>2. /\ up /\ up' = up /\ inflight' = inflight /\ now' = now /\ pass.stage = "read"
      /\ pass' = After(k) /\ timers' = CancelDeadlineRetries
  BY DEF Reconcile
<1>3. timers'[0] = timers[0]
  BY <1>2, Instants DEF CancelDeadlineRetries
<1>4. CASE Fences
  <2>1. attempt'.phase = "expiry_pending"
    BY <1>1, <1>4, DeadlineOnClock DEF Reconcile, AttemptRows
  <2> QED
    BY <1>1, <1>2, <2>1 DEF CoverInv, Unsubmitted
<1>5. CASE ~Fences
  <2>1. Aside
    BY <1>2, <1>5 DEF Reconcile, Aside
  <2>2. ASSUME Covered, attempt.phase \in Unsubmitted PROVE Covered'
    <3>1. inflight # <<>> \/ timers[0] = Deadline
      BY <1>2, <1>5, <2>2
      DEF Covered, RegistryAgrees, ReadIsCurrent, Fences, Executing
    <3>2. Handled'
      BY <1>3, <2>1, <3>1, AsideFacts DEF Handled
    <3>3. RegistryAgrees'
      BY <1>3, <2>1, <2>2, AsideFacts DEF Covered, RegistryAgrees
    <3>4. ReadIsCurrent'
      BY <1>1, <1>2, AfterRead DEF ReadIsCurrent
    <3> QED
      BY <2>1, <2>2, <3>2, <3>3, <3>4, AsideFacts DEF Covered
  <2> QED
    BY <1>1, <1>2, <2>1, <2>2, AsideFacts DEF CoverInv
<1> QED
  BY <1>4, <1>5

\* A failure leaves a retry behind.
LEMMA FailureCovers ==
  ASSUME CoverInv, Failure
  PROVE  CoverInv'
<1>1. TimerTypeOK /\ TimerTypeOK'
  BY TimerTypesStep DEF CoverInv, TimerNext
<1>2. pass.keys \in SUBSET Retries
  BY <1>1, DeadlineOnClock DEF Passes
<1>3. PICK keys \in SUBSET Retries :
        /\ keys # {} \/ keys = pass.keys
        /\ timers' = RetryDeadline(keys) /\ pass'.stage # "read" /\ Aside /\ up
  <2>1. CASE OpenFails
    BY <1>2, <2>1 DEF OpenFails, Aside, IdlePass
  <2>2. ASSUME NEW k \in pass.keys, ReconcileFails(k)
        PROVE  /\ {k} \in SUBSET Retries /\ {k} # {} /\ timers' = RetryDeadline({k})
               /\ pass'.stage # "read" /\ Aside /\ up
    BY <1>1, <1>2, <2>2, AfterRead DEF ReconcileFails, Aside
  <2> QED
    BY <2>1, <2>2 DEF Failure
<1>4. ASSUME Covered PROVE Covered'
  <2>1. timers'[0] = timers[0]
    <3>1. MaxDeadlineRetries \in Nat \ {0}
      BY TimerAssumption
    <3>2. 0 \in Retries /\ 0 - 1 \notin keys /\ 0 # MaxDeadlineRetries
      BY <3>1 DEF Retries
    <3> QED
      BY <1>3, <3>2 DEF RetryDeadline
  <2>2. Handled'
    <3>1. CASE inflight # <<>> \/ timers[0] = Deadline
      BY <1>3, <2>1, <3>1, AsideFacts DEF Handled
    <3>2. CASE Elapsed /\ (pass.keys # {} \/ \E k \in Retries \ {0} : timers[k] <= Horizon)
      <4>1. \E k \in Retries \ {0} : timers'[k] <= Horizon
        BY <1>1, <1>3, <3>2, RetryPends
      <4> QED
        BY <1>3, <3>2, <4>1, AsideFacts DEF Handled
    <3> QED
      BY <1>4, <3>1, <3>2 DEF Covered, Handled
  <2>3. RegistryAgrees' /\ ReadIsCurrent'
    BY <1>3, <1>4, <2>1, AsideFacts DEF Covered, RegistryAgrees, ReadIsCurrent
  <2> QED
    BY <1>3, <1>4, <2>2, <2>3, AsideFacts DEF Covered
<1> QED
  BY <1>1, <1>3, <1>4, AsideFacts DEF CoverInv

\* The process and the clock.
LEMMA ProcessCovers ==
  ASSUME CoverInv, Crash \/ Restart \/ Tick \/ UNCHANGED timerVars
  PROVE  CoverInv'
<1>1. TimerTypeOK /\ TimerTypeOK'
  BY TimerTypesStep DEF CoverInv, TimerNext
<1>2. CASE Crash
  BY <1>1, <1>2 DEF Crash, CoverInv
<1>3. CASE Restart
  <2>1. /\ ~up /\ inflight = <<>> /\ inflight' = <<>> /\ attempt' = attempt
        /\ Deadline' = Deadline
    BY <1>3 DEF Restart, CoverInv, Deadline
  <2>2. ASSUME attempt.phase \in Unsubmitted PROVE Covered'
    <3>1. timers' = [NoTimers EXCEPT ![0] = Deadline]
      BY <1>3, <2>2 DEF Restart, Unterminated, Executing
    <3>2. timers'[0] = Deadline
      BY <3>1, Instants DEF NoTimers
    <3>3. Deadline # Never
      BY <1>1, DeadlineOnClock
    <3> QED
      BY <2>1, <3>2, <3>3 DEF Covered, AnswersAgree, RegistryAgrees, Handled, ReadIsCurrent
  <2> QED
    BY <1>1, <2>1, <2>2 DEF CoverInv
<1>4. CASE Tick
  <2>1. now' = now + 1 /\ UNCHANGED <<attempt, timers, inflight, pass, up>>
    BY <1>4 DEF Tick
  <2>2. Deadline' = Deadline /\ Deadline \in Nat /\ now \in Nat
    BY <1>1, <2>1, DeadlineOnClock DEF Deadline
  <2>3. Elapsed => Elapsed'
    BY <2>1, <2>2 DEF Elapsed
  <2>4. Covered => Covered'
    <3>1. AnswersAgree => AnswersAgree'
      BY <2>1, <2>2 DEF AnswersAgree
    <3>2. Handled => Handled'
      BY <2>1, <2>2, <2>3 DEF Handled
    <3>3. RegistryAgrees /\ ReadIsCurrent => RegistryAgrees' /\ ReadIsCurrent'
      BY <2>1, <2>2 DEF RegistryAgrees, ReadIsCurrent
    <3> QED
      BY <3>1, <3>2, <3>3 DEF Covered
  <2> QED
    BY <1>1, <2>1, <2>4 DEF CoverInv
<1>5. CASE UNCHANGED timerVars
  BY <1>5 DEF timerVars, CoverInv, TimerTypeOK, Covered, AnswersAgree, RegistryAgrees, Handled,
     ReadIsCurrent, Deadline, Elapsed
<1> QED
  BY <1>2, <1>3, <1>4, <1>5

\* While the service runs, an attempt that has not submitted is covered by a
\* timer, a response on its way or a pass, through failures, retries, crashes and
\* restarts: with one command worker, or with any number of them when no renewal
\* can pass the response of an earlier command.
THEOREM DeadlineStaysCovered ==
  ASSUME CommandWorkers = 1 \/ "renew" \notin Commands
  PROVE  TimerSpec => []DeadlineIsCovered
<1>1. TimerInit => CoverInv
  <2>1. TimerInit => TimerTypeOK
    BY TimerInvInit DEF TimerInv
  <2>2. TimerInit => inflight = <<>> /\ attempt.phase = "none"
    BY DEF TimerInit
  <2> QED
    BY <2>1, <2>2 DEF CoverInv, Unsubmitted
<1>2. CoverInv /\ [TimerNext]_timerVars => CoverInv'
  <2> SUFFICES ASSUME CoverInv, [TimerNext]_timerVars PROVE CoverInv'
    OBVIOUS
  <2>1. CASE Command
    BY <2>1, CommandCovers
  <2>2. CASE AnyResponse
    BY <2>2, ResponseCovers
  <2>3. CASE Maintenance
    BY <2>3, TakeDueCovers, PassCovers, ReconcileCovers DEF Maintenance
  <2>4. CASE Failure
    BY <2>4, FailureCovers
  <2>5. CASE Crash \/ Restart \/ Tick \/ UNCHANGED timerVars
    BY <2>5, ProcessCovers
  <2> QED
    BY <2>1, <2>2, <2>3, <2>4, <2>5 DEF TimerNext
<1>3. CoverInv => DeadlineIsCovered
  <2> SUFFICES ASSUME CoverInv, up, attempt.phase \in Unsubmitted
               PROVE  \/ \E k \in Retries : timers[k] <= Horizon
                      \/ \E i \in 1 .. Len(inflight) : inflight[i].instant <= Horizon
                      \/ pass.keys # {}
    BY DEF DeadlineIsCovered
  <2>1. Covered /\ TimerTypeOK
    BY DEF CoverInv
  <2>2. Deadline <= Horizon
    BY <2>1, DeadlineOnClock
  <2>3. CASE inflight # <<>>
    <3>1. 1 \in 1 .. Len(inflight)
      BY <2>1, <2>3, DeadlineOnClock
    <3> QED
      BY <2>1, <2>2, <3>1 DEF Covered, AnswersAgree
  <2>4. CASE inflight = <<>>
    BY <2>1, <2>2, <2>4, Instants DEF Covered, Handled
  <2> QED
    BY <2>3, <2>4
<1> QED
  BY <1>1, <1>2, <1>3, PTL DEF TimerSpec
=============================================================================
