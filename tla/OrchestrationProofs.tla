------------------------ MODULE OrchestrationProofs ------------------------
(***************************************************************************)
(* Proofs about orchestration, for any number of work items, ticks,        *)
(* daemons and callers and for any limit of claims and of faults.          *)
(*                                                                         *)
(* The run and the tick rows are written by three transactions only        *)
(* (select, finish, operate), which gives the pin and the count            *)
(* (ClaimsInv).  One caller at most is told that it made the claim of a    *)
(* tick (ClaimOK); when that caller finishes the tick nobody's finish can  *)
(* be a replay of its own, and it is the only one that ever dispatches the *)
(* tick (EchoOK, OnceAt).  A tick finished by callers that replayed the    *)
(* claim may have several dispatchers; of them at most one records its     *)
(* child, because the job row becomes running once (SupervisedOK), and     *)
(* each of the others knows what became of its own child (AliveOK).        *)
(***************************************************************************)
EXTENDS Orchestration, FiniteSetTheorems, TLAPS

TickSteps == {"pin", "check", "claim", "finish"}
Unlaunching == {"accept", "accept_failed", "accepted", "start", "launch_check", "unlaunched",
                "spawn", "spawn_failed"}
Launching == {"policy", "register"} \cup Unlaunching
DispatchSteps == Launching \cup {"record", "unrecorded", "supervise", "settle", "end"}
AllSteps == {"idle", "off", "gone", "recover"} \cup TickSteps \cup DispatchSteps

JobStates == {None, "starting", "running", "readback_required", "succeeded", "failed",
              "cancelled", "uncertain"}
Answers == {"claimed", "replayed", "rejected"}
Results == {None, "succeeded", "failed", "cancelled", "readback_required"} \cup Answers

Contexts == [step : AllSteps, tick : Ticks \cup {None}, rev : Nat, work : Works \cup {None},
             policy : Nat, echo : BOOLEAN, result : Results]

Runs == [state : {"queued", "running", "completed", "failed"}, pending : Works \cup {None},
         by : Ticks \cup {None}, count : Nat, rev : Nat]

TickRows == [state : {None, "selected", "claimed", "rejected"}, work : Works \cup {None},
             replayed : BOOLEAN]

Attempts == [phase : {None, "claimed", "accepted", "running"}, work : Works \cup {None},
             current : BOOLEAN]

-----------------------------------------------------------------------------
(* The run and its ticks.                                                  *)

\* A process that serves a tick knows it, and knows how its claim ended.
Served == {k \in Contexts : /\ k.step \in TickSteps \cup DispatchSteps => k.tick \in Ticks
                            /\ k.step = "finish" => k.result \in Answers}

ClaimsTypeOK ==
  /\ run \in Runs
  /\ tick \in [Ticks -> TickRows]
  /\ attempt \in [Ticks -> Attempts]
  /\ proc \in [Procs -> Served]
  /\ policy \in Nat

\* A selected tick names a work item.
SelectedOK == \A t \in Ticks : tick[t].state = "selected" => tick[t].work \in Works

ClaimedTicks == {t \in Ticks : tick[t].state = "claimed"}

CountOK == run.count = Cardinality(ClaimedTicks) /\ run.count <= MaxClaims

ClaimsInv == ClaimsTypeOK /\ SelectedOK /\ PinHasItsTick /\ CountOK

-----------------------------------------------------------------------------
(* Who made the claim of a tick, and whose call may be a replay.           *)

\* Process p was told that it made the claim of its tick, and goes to finish it.
Claimant(p) == proc[p].step = "finish" /\ proc[p].result = "claimed"

ClaimOK ==
  \A p \in Procs : Claimant(p) =>
    /\ attempt[proc[p].tick].phase # None
    /\ \A q \in Procs : Claimant(q) /\ proc[q].tick = proc[p].tick => q = p

\* The tick with this row was finished by a caller that had replayed its claim.
Replayed(row) == row.state = "claimed" /\ row.replayed

\* Only such a tick lets a finish, or a later call, of context k be a replay.
MayEcho(k, row) ==
  (k.step = "finish" /\ k.result # "rejected") \/ k.step \in DispatchSteps => Replayed(row)

EchoOK == \A p \in Procs : proc[p].echo => MayEcho(proc[p], tick[proc[p].tick])

-----------------------------------------------------------------------------
(* The dispatch of a claimed tick.                                         *)

JobRows == {j \in [state : JobStates, rev : Nat] : /\ j.rev = 0 => j.state = None
                                                   /\ j.rev = 1 => j.state = "starting"}
ChildRows == [Procs -> {None, "alive", "over"}]

WorldTypeOK ==
  /\ job \in [Ticks -> JobRows]
  /\ child \in [Ticks -> ChildRows]
  /\ orphans \in SUBSET (Ticks \X Procs)

Dispatches(p) == proc[p].step \in DispatchSteps

DispatcherOK == \A p \in Procs : Dispatches(p) => tick[proc[p].tick].state = "claimed"

\* Nothing was registered or launched for a tick that is not claimed.
RowsOK ==
  \A t \in Ticks : tick[t].state # "claimed" => job[t] = NoJob /\ \A q \in Procs : child[t][q] = None

\* The child of a job that was recorded has one supervisor.
Supervises(p) == proc[p].step \in {"supervise", "settle"}
Recorded == {"running", "readback_required", "uncertain"}

SupervisedOK ==
  \A p \in Procs : Supervises(p) =>
    /\ job[proc[p].tick].state \in Recorded
    /\ \A q \in Procs : Supervises(q) /\ proc[q].tick = proc[p].tick => q = p

\* A child that is alive belongs to a process that was killed, or is at hand.
AtHand == {"record", "supervise"}
AliveOK ==
  \A t \in Ticks, p \in Procs : child[t][p] = "alive" =>
    <<t, p>> \in orphans \/ (proc[p].tick = t /\ proc[p].step \in AtHand)

DispatchesTick(p, t) == Dispatches(p) /\ proc[p].tick = t

\* What the step of the one dispatcher p says about the state s of the job and
\* the children c of its tick.
DispatchAt(p, step, s, c) ==
  /\ step \in {"policy", "register"} => s = None
  /\ step \in Unlaunching \cup {"record"} => s \in {"starting", "uncertain"}
  /\ step \in Launching => \A q \in Procs : c[q] = None
  /\ step \in AtHand => \A q \in Procs \ {p} : c[q] = None
  /\ step \in {"unrecorded", "settle", "end"} => \A q \in Procs : c[q] # "alive"

\* One child at most was started, and while it is alive no job row ends it.
LaunchedRow(s, c) ==
  /\ \A p, q \in Procs : c[p] # None /\ c[q] # None => p = q
  /\ \A q \in Procs : c[q] = "alive" => s \in {"starting"} \cup Recorded

OnceAt(t) ==
  /\ \A p, q \in Procs : DispatchesTick(p, t) /\ DispatchesTick(q, t) => p = q
  /\ \A p \in Procs : DispatchesTick(p, t) => DispatchAt(p, proc[p].step, job[t].state, child[t])
  /\ LaunchedRow(job[t].state, child[t])

OnceOK == \A t \in Ticks : tick[t].state = "claimed" /\ ~tick[t].replayed => OnceAt(t)

DispatchInv ==
  /\ WorldTypeOK /\ ClaimOK /\ EchoOK
  /\ DispatcherOK /\ RowsOK /\ SupervisedOK /\ AliveOK /\ OnceOK

OrchInv == ClaimsInv /\ DispatchInv

-----------------------------------------------------------------------------
(* How the record of a process changes.                                    *)

ServedNext == proc' \in [Procs -> Served]
AttemptsKept == \A t \in Ticks : attempt[t].phase # None => attempt'[t].phase # None

\* Process p goes to context k; the others stay, and may come to replay a call.
Moves(p, k) ==
  /\ k \in Served /\ proc' \in [Procs -> Served] /\ proc'[p] = k
  /\ \A q \in Procs \ {p} :
       /\ proc'[q].step = proc[q].step /\ proc'[q].tick = proc[q].tick
       /\ proc'[q].result = proc[q].result
       /\ proc'[q].echo => proc[q].echo \/ MayEcho(proc[q], tick'[proc[q].tick])
  /\ k.echo => MayEcho(k, tick'[k.tick])
  /\ k.step = "finish" /\ k.result = "claimed" =>
       attempt[k.tick].phase = None /\ attempt'[k.tick].phase # None

\* Process p alone moves.
LEMMA AloneMoves ==
  ASSUME ClaimsTypeOK, NEW p \in Procs, NEW k \in Served, proc' = [proc EXCEPT ![p] = k],
         k.echo => MayEcho(k, tick'[k.tick]),
         k.step = "finish" => k.result # "claimed"
  PROVE  Moves(p, k)
<1>1. proc' \in [Procs -> Served] /\ proc'[p] = k /\ \A q \in Procs \ {p} : proc'[q] = proc[q]
  BY DEF ClaimsTypeOK
<1>2. QED  BY <1>1 DEF Moves

\* Process p moves and the processes of S see their call answered by a replay.
LEMMA CommittedMoves ==
  ASSUME ClaimsTypeOK, NEW p \in Procs, NEW k \in Served, NEW S,
         proc' = [q \in Procs |-> IF q = p THEN k
                                 ELSE IF q \in S THEN [proc[q] EXCEPT !.echo = TRUE] ELSE proc[q]],
         \A q \in Procs \ {p} : q \in S => MayEcho(proc[q], tick'[proc[q].tick]),
         k.echo => MayEcho(k, tick'[k.tick]),
         k.step = "finish" /\ k.result = "claimed" =>
           attempt[k.tick].phase = None /\ attempt'[k.tick].phase # None
  PROVE  Moves(p, k)
<1>1. ASSUME NEW q \in Procs \ {p}
      PROVE  /\ proc'[q] \in Served
             /\ proc'[q].step = proc[q].step /\ proc'[q].tick = proc[q].tick
             /\ proc'[q].result = proc[q].result
             /\ proc'[q].echo => proc[q].echo \/ q \in S
  <2>1. proc[q] \in Served /\ proc[q] \in Contexts
    BY DEF ClaimsTypeOK, Served
  <2>2. CASE q \in S
    <3>1. PICK y : y = [proc[q] EXCEPT !.echo = TRUE]
      OBVIOUS
    <3>2. /\ y \in Contexts /\ y.step = proc[q].step /\ y.tick = proc[q].tick
          /\ y.result = proc[q].result
      BY <2>1, <3>1 DEF Contexts
    <3>3. y \in Served
      BY <2>1, <3>2 DEF Served
    <3>4. proc'[q] = y
      BY <2>2, <3>1
    <3>5. QED  BY <2>2, <3>2, <3>3, <3>4
  <2>3. CASE q \notin S
    BY <2>1, <2>3
  <2>4. QED  BY <2>2, <2>3
<1>2. proc'[p] = k
  OBVIOUS
<1>3. proc' \in [Procs -> Served]
  BY <1>1, <1>2
<1>4. QED  BY <1>1, <1>2, <1>3 DEF Moves

\* No such move lets a replay pass for the claim, or a finish for a replay.
LEMMA MovesKeepsReplays ==
  ASSUME OrchInv, AttemptsKept, NEW p \in Procs, NEW k, Moves(p, k),
         \A t \in Ticks : Replayed(tick[t]) => Replayed(tick'[t])
  PROVE  ClaimOK' /\ EchoOK' /\ ServedNext
<1>1. \A q \in Procs \ {p} :
         /\ proc[q].step \in {"finish"} \cup DispatchSteps => proc[q].tick \in Ticks
         /\ proc'[q].step = proc[q].step /\ proc'[q].tick = proc[q].tick
         /\ proc'[q].result = proc[q].result
         /\ proc'[q].echo => proc[q].echo \/ MayEcho(proc[q], tick'[proc[q].tick])
  BY DEF Moves, OrchInv, ClaimsInv, ClaimsTypeOK, Served, TickSteps
<1>2. ClaimOK'
  <2>1. \A q \in Procs \ {p} : Claimant(q)' => Claimant(q) /\ proc[q].tick \in Ticks
    BY <1>1 DEF Claimant
  <2>2. \A q \in Procs : Claimant(q) => attempt[proc[q].tick].phase # None
    BY DEF OrchInv, DispatchInv, ClaimOK
  <2>3. \A q \in Procs \ {p} :
           Claimant(q)' => attempt[proc'[q].tick].phase # None /\ attempt'[proc'[q].tick].phase # None
    BY <1>1, <2>1, <2>2 DEF AttemptsKept
  <2>4. Claimant(p)' => attempt[proc'[p].tick].phase = None /\ attempt'[proc'[p].tick].phase # None
    BY DEF Moves, Claimant
  <2>5. \A q, r \in Procs : Claimant(q)' /\ Claimant(r)' /\ proc'[q].tick = proc'[r].tick => q = r
    <3> SUFFICES ASSUME NEW q \in Procs, NEW r \in Procs, Claimant(q)', Claimant(r)',
                        proc'[q].tick = proc'[r].tick
                 PROVE  q = r
      OBVIOUS
    <3>1. CASE q = p \/ r = p
      BY <2>3, <2>4, <3>1
    <3>2. CASE q # p /\ r # p
      BY <1>1, <2>1, <3>2 DEF OrchInv, DispatchInv, ClaimOK
    <3>3. QED  BY <3>1, <3>2
  <2>6. QED  BY <2>3, <2>4, <2>5 DEF ClaimOK
<1>3. EchoOK'
  <2> SUFFICES ASSUME NEW q \in Procs, proc'[q].echo
               PROVE  MayEcho(proc'[q], tick'[proc'[q].tick])
    BY DEF EchoOK
  <2>1. CASE q = p
    BY <2>1 DEF Moves
  <2>2. CASE q # p
    <3>1. proc[q].echo => MayEcho(proc[q], tick[proc[q].tick])
      BY DEF OrchInv, DispatchInv, EchoOK
    <3>2. MayEcho(proc[q], tick'[proc[q].tick])
      BY <1>1, <2>2, <3>1 DEF MayEcho
    <3>3. QED  BY <1>1, <2>2, <3>2 DEF MayEcho
  <2>3. QED  BY <2>1, <2>2
<1>4. QED  BY <1>2, <1>3 DEF Moves, ServedNext

LEMMA NonServing == Idle \in Served /\ Off \in Served /\ Gone \in Served
BY DEF Idle, Off, Gone, Served, Contexts, AllSteps, TickSteps, DispatchSteps, Launching, Unlaunching,
       Results

\* The context of a process that is at one of the steps of a tick.
LEMMA ServedTick ==
  ASSUME ClaimsTypeOK, NEW p \in Procs, proc[p].step \in TickSteps \cup DispatchSteps
  PROVE  proc[p] \in Contexts /\ proc[p] \in Served /\ proc[p].tick \in Ticks
BY DEF ClaimsTypeOK, Served

\* A process that serves nothing any more.
LEMMA ParkedMoves ==
  ASSUME ClaimsTypeOK, NEW p \in Procs, NEW k \in {Idle, Gone}, proc' = [proc EXCEPT ![p] = k]
  PROVE  Moves(p, k) /\ k.step \notin DispatchSteps
<1>1. k \in Served /\ k.step \in {"idle", "gone"} /\ ~k.echo
  <2>1. Idle.step = "idle" /\ Idle.echo = FALSE
    BY DEF Idle
  <2>2. Gone.step = "gone" /\ Gone.echo = FALSE
    BY DEF Gone, Idle
  <2>3. QED  BY <2>1, <2>2, NonServing
<1>2. k.step \notin DispatchSteps /\ k.step # "finish"
  BY <1>1 DEF DispatchSteps, Launching, Unlaunching
<1>3. QED  BY <1>1, <1>2, AloneMoves

\* A dispatcher goes on with its tick.
LEMMA GoMoves ==
  ASSUME OrchInv, NEW p \in Procs, Dispatches(p), NEW s \in DispatchSteps, Go(p, s), UNCHANGED tick
  PROVE  \E k : /\ Moves(p, k) /\ k.step = s /\ k.tick = proc[p].tick /\ proc' = [proc EXCEPT ![p] = k]
<1>1. ClaimsTypeOK /\ proc[p] \in Served /\ proc[p] \in Contexts /\ proc[p].tick \in Ticks
  BY ServedTick DEF OrchInv, ClaimsInv, Dispatches
<1>2. PICK k : k = [proc[p] EXCEPT !.step = s]
  OBVIOUS
<1>3. k \in Contexts /\ k.step = s /\ k.tick = proc[p].tick /\ k.echo = proc[p].echo
  BY <1>1, <1>2 DEF Contexts, AllSteps
<1>4. k.step # "finish"
  BY <1>3 DEF DispatchSteps, Launching, Unlaunching
<1>5. k \in Served
  BY <1>1, <1>3, <1>4 DEF Served
<1>6. proc' = [proc EXCEPT ![p] = k]
  BY <1>2 DEF Go
<1>7. k.echo => MayEcho(k, tick'[k.tick])
  <2>1. proc[p].echo => MayEcho(proc[p], tick[proc[p].tick])
    BY DEF OrchInv, DispatchInv, EchoOK
  <2>2. QED  BY <1>3, <2>1 DEF MayEcho, Dispatches
<1>8. Moves(p, k)
  BY <1>1, <1>4, <1>5, <1>6, <1>7, AloneMoves
<1>9. QED  BY <1>3, <1>6, <1>8

-----------------------------------------------------------------------------
(* The steps of a dispatch.                                                *)

\* The job of p's tick becomes the row j: p leaves alone what another process
\* supervises, but that it may become uncertain.
Lawful(p, old, j) ==
  \/ j = old
  \/ old.state \in {None, "starting"}
  \/ j.state \in {"readback_required", "uncertain"}
  \/ proc[p].step = "settle"

\* Process p, which dispatches tick t, goes to context k and leaves the job j
\* and the children c.
Dispatched(p, t, k, j, c) ==
  /\ Moves(p, k)
  /\ k.step \in DispatchSteps => k.tick = t
  /\ k.step \in {"supervise", "settle"} =>
       /\ j.state \in Recorded
       /\ job[t].state = "starting" \/ proc[p].step = "supervise"
  /\ j \in JobRows /\ Lawful(p, job[t], j)
  /\ c \in ChildRows /\ \A q \in Procs \ {p} : c[q] = child[t][q]
  /\ c[p] = "alive" => <<t, p>> \in orphans \/ (k.tick = t /\ k.step \in AtHand)
  /\ ~tick[t].replayed =>
       /\ k.step \in DispatchSteps => DispatchAt(p, k.step, j.state, c)
       /\ LaunchedRow(j.state, c)
  /\ job' = [job EXCEPT ![t] = j]
  /\ child' = [child EXCEPT ![t] = c]
  /\ UNCHANGED <<run, tick, orphans>>

\* What a dispatcher knows of its tick.
LEMMA DispatcherKnows ==
  ASSUME OrchInv, NEW p \in Procs, NEW t, t = proc[p].tick, Dispatches(p)
  PROVE  /\ t \in Ticks /\ tick[t].state = "claimed"
         /\ job = [job EXCEPT ![t] = job[t]] /\ job[t] \in JobRows
         /\ child = [child EXCEPT ![t] = child[t]] /\ child[t] \in ChildRows
         /\ ~tick[t].replayed => /\ DispatchAt(p, proc[p].step, job[t].state, child[t])
                                 /\ LaunchedRow(job[t].state, child[t])
                                 /\ \A q \in Procs : DispatchesTick(q, t) => q = p
         /\ child[t][p] = "alive" => <<t, p>> \in orphans \/ proc[p].step \in AtHand
<1>1. t \in Ticks /\ tick[t].state = "claimed"
  BY ServedTick DEF OrchInv, ClaimsInv, Dispatches, DispatchInv, DispatcherOK
<1>2. /\ job = [job EXCEPT ![t] = job[t]] /\ job[t] \in JobRows
      /\ child = [child EXCEPT ![t] = child[t]] /\ child[t] \in ChildRows
  BY <1>1 DEF OrchInv, DispatchInv, WorldTypeOK
<1>3. ~tick[t].replayed => OnceAt(t)
  BY <1>1 DEF OrchInv, DispatchInv, OnceOK
<1>4. DispatchesTick(p, t)
  BY DEF DispatchesTick
<1>5. child[t][p] = "alive" => <<t, p>> \in orphans \/ proc[p].step \in AtHand
  BY <1>1 DEF OrchInv, DispatchInv, AliveOK
<1>6. QED  BY <1>1, <1>2, <1>3, <1>4, <1>5 DEF OnceAt

LEMMA DispatchedIsOK ==
  ASSUME OrchInv, AttemptsKept, NEW p \in Procs, NEW t, t = proc[p].tick, Dispatches(p),
         NEW k, NEW j, NEW c, Dispatched(p, t, k, j, c)
  PROVE  DispatchInv' /\ ServedNext
<1>1. /\ t \in Ticks /\ tick[t].state = "claimed"
      /\ ~tick[t].replayed => \A q \in Procs : DispatchesTick(q, t) => q = p
  BY DispatcherKnows
<1>2. /\ proc'[p] = k
      /\ \A q \in Procs \ {p} : proc'[q].step = proc[q].step /\ proc'[q].tick = proc[q].tick
  BY DEF Dispatched, Moves
<1>3. tick' = tick /\ orphans' = orphans
  BY DEF Dispatched
<1>4. ClaimOK' /\ EchoOK' /\ ServedNext
  BY <1>3, MovesKeepsReplays DEF Dispatched
<1>5. /\ job'[t] = j /\ child'[t] = c
      /\ \A u \in Ticks \ {t} : job'[u] = job[u] /\ child'[u] = child[u]
  BY <1>1 DEF Dispatched, OrchInv, DispatchInv, WorldTypeOK
<1>6. WorldTypeOK'
  BY <1>1, <1>3 DEF Dispatched, OrchInv, DispatchInv, WorldTypeOK
<1>7. DispatcherOK'
  <2>1. \A q \in Procs \ {p} : Dispatches(q)' => tick[proc'[q].tick].state = "claimed"
    BY <1>2 DEF OrchInv, DispatchInv, DispatcherOK, Dispatches
  <2>2. Dispatches(p)' => tick[proc'[p].tick].state = "claimed"
    BY <1>1, <1>2 DEF Dispatched, Dispatches
  <2>3. QED  BY <1>3, <2>1, <2>2 DEF DispatcherOK
<1>8. RowsOK'
  BY <1>1, <1>3, <1>5 DEF OrchInv, DispatchInv, RowsOK
<1>9. SupervisedOK'
  <2>1. \A q \in Procs \ {p} : Supervises(q)' => Supervises(q) /\ proc[q].tick \in Ticks
    BY <1>2, ServedTick DEF Supervises, OrchInv, ClaimsInv, DispatchSteps
  <2>2. \A q \in Procs : Supervises(q) =>
           /\ job[proc[q].tick].state \in Recorded
           /\ \A r \in Procs : Supervises(r) /\ proc[r].tick = proc[q].tick => r = q
    BY DEF OrchInv, DispatchInv, SupervisedOK
  <2>3. ASSUME Supervises(p)'
        PROVE  /\ k.tick = t /\ job'[t].state \in Recorded
               /\ \A q \in Procs \ {p} : Supervises(q) => proc[q].tick # t
    <3>1. /\ k.tick = t /\ j.state \in Recorded
          /\ job[t].state = "starting" \/ proc[p].step = "supervise"
      BY <1>2, <2>3 DEF Dispatched, Supervises, DispatchSteps
    <3>2. "starting" \notin Recorded
      BY DEF Recorded
    <3>3. \A q \in Procs \ {p} : Supervises(q) => proc[q].tick # t
      BY <2>2, <3>1, <3>2 DEF Supervises
    <3>4. QED  BY <1>5, <3>1, <3>3
  <2>4. ASSUME NEW q \in Procs \ {p}, Supervises(q)'  PROVE job'[proc'[q].tick].state \in Recorded
    <3>1. Supervises(q) /\ job[proc[q].tick].state \in Recorded /\ proc[q].tick \in Ticks
      BY <2>1, <2>2, <2>4
    <3>2. CASE proc[q].tick # t
      BY <1>2, <1>5, <3>1, <3>2
    <3>3. CASE proc[q].tick = t
      <4>1. proc[p].step # "settle"
        BY <2>2, <3>1, <3>3 DEF Supervises
      <4>2. job[t].state \notin {None, "starting"}
        BY <3>1, <3>3, NoneAssumption DEF Recorded
      <4>3. j = job[t] \/ j.state \in {"readback_required", "uncertain"}
        BY <4>1, <4>2 DEF Dispatched, Lawful
      <4>4. QED  BY <1>2, <1>5, <3>1, <3>3, <4>3 DEF Recorded
    <3>4. QED  BY <3>2, <3>3
  <2>5. ASSUME NEW q \in Procs, NEW r \in Procs, Supervises(q)', Supervises(r)',
               proc'[r].tick = proc'[q].tick
        PROVE  r = q
    <3>1. CASE q = p
      BY <1>2, <2>1, <2>3, <2>5, <3>1
    <3>2. CASE r = p
      BY <1>2, <2>1, <2>3, <2>5, <3>2
    <3>3. CASE q # p /\ r # p
      BY <1>2, <2>1, <2>2, <2>5, <3>3
    <3>4. QED  BY <3>1, <3>2, <3>3
  <2>6. Supervises(p)' => job'[proc'[p].tick].state \in Recorded
    BY <1>2, <2>3
  <2>7. QED  BY <2>4, <2>5, <2>6 DEF SupervisedOK
<1>10. AliveOK'
  <2> SUFFICES ASSUME NEW u \in Ticks, NEW q \in Procs, child'[u][q] = "alive"
               PROVE  <<u, q>> \in orphans \/ (proc'[q].tick = u /\ proc'[q].step \in AtHand)
    BY <1>3 DEF AliveOK
  <2>1. child[u][q] = "alive" =>
          <<u, q>> \in orphans \/ (proc[q].tick = u /\ proc[q].step \in AtHand)
    BY DEF OrchInv, DispatchInv, AliveOK
  <2>2. CASE q # p
    <3>1. child[u][q] = "alive"
      BY <1>5, <2>2 DEF Dispatched
    <3>2. QED  BY <1>2, <2>1, <2>2, <3>1
  <2>3. CASE q = p /\ u = t
    BY <1>2, <1>5, <2>3 DEF Dispatched
  <2>4. CASE q = p /\ u # t
    BY <1>5, <2>1, <2>4
  <2>5. QED  BY <2>2, <2>3, <2>4
<1>11. OnceOK'
  <2> SUFFICES ASSUME NEW u \in Ticks, tick[u].state = "claimed", ~tick[u].replayed
               PROVE  OnceAt(u)'
    BY <1>3 DEF OnceOK
  <2>1. OnceAt(u)
    BY DEF OrchInv, DispatchInv, OnceOK
  <2>2. CASE u = t
    <3>1. \A q \in Procs : DispatchesTick(q, u)' => q = p
      BY <1>1, <1>2, <2>2 DEF DispatchesTick, Dispatches
    <3>2. /\ k.step \in DispatchSteps => DispatchAt(p, k.step, j.state, c)
          /\ LaunchedRow(j.state, c)
      BY <2>2 DEF Dispatched
    <3>3. \A q \in Procs :
            DispatchesTick(q, u)' => DispatchAt(q, proc'[q].step, job'[u].state, child'[u])
      BY <1>2, <1>5, <2>2, <3>1, <3>2 DEF DispatchesTick, Dispatches
    <3>4. LaunchedRow(job'[u].state, child'[u])
      BY <1>5, <2>2, <3>2
    <3>5. QED  BY <3>1, <3>3, <3>4 DEF OnceAt
  <2>3. CASE u # t
    <3>1. \A q \in Procs :
            DispatchesTick(q, u)' => DispatchesTick(q, u) /\ proc'[q].step = proc[q].step
      BY <1>2, <2>3 DEF DispatchesTick, Dispatches, Dispatched
    <3>2. \A q, r \in Procs : DispatchesTick(q, u)' /\ DispatchesTick(r, u)' => q = r
      BY <2>1, <3>1 DEF OnceAt
    <3>3. \A q \in Procs :
            DispatchesTick(q, u)' => DispatchAt(q, proc'[q].step, job'[u].state, child'[u])
      BY <1>5, <2>1, <2>3, <3>1 DEF OnceAt
    <3>4. LaunchedRow(job'[u].state, child'[u])
      BY <1>5, <2>1, <2>3 DEF OnceAt
    <3>5. QED  BY <3>2, <3>3, <3>4 DEF OnceAt
  <2>4. QED  BY <2>2, <2>3
<1>12. QED
  BY <1>4, <1>6, <1>7, <1>8, <1>9, <1>10, <1>11 DEF DispatchInv

\* The rows that a step of the dispatcher p leaves which starts no child and
\* begins no supervision.
Rows(p, t, j, c) ==
  /\ j \in JobRows /\ Lawful(p, job[t], j)
  /\ c \in ChildRows /\ \A q \in Procs \ {p} : c[q] = child[t][q]
  /\ c[p] = "alive" => <<t, p>> \in orphans
  /\ ~tick[t].replayed => LaunchedRow(j.state, c)
  /\ job' = [job EXCEPT ![t] = j]
  /\ child' = [child EXCEPT ![t] = c]
  /\ UNCHANGED <<run, tick, orphans>>

LEMMA ReturnIsOK ==
  ASSUME OrchInv, AttemptsKept, NEW p \in Procs, NEW t, t = proc[p].tick, Dispatches(p),
         NEW j, NEW c, Rows(p, t, j, c), Return(p)
  PROVE  DispatchInv' /\ ServedNext
<1>1. Moves(p, Idle) /\ Idle.step \notin DispatchSteps
  BY ParkedMoves DEF Return, OrchInv, ClaimsInv
<1>2. Dispatched(p, t, Idle, j, c)
  BY <1>1 DEF Dispatched, Rows, DispatchSteps
<1>3. QED  BY <1>2, DispatchedIsOK

LEMMA GoIsOK ==
  ASSUME OrchInv, AttemptsKept, NEW p \in Procs, NEW t, t = proc[p].tick, Dispatches(p),
         NEW j, NEW c, Rows(p, t, j, c),
         NEW s \in DispatchSteps \ {"supervise", "settle"}, Go(p, s),
         ~tick[t].replayed => DispatchAt(p, s, j.state, c)
  PROVE  DispatchInv' /\ ServedNext
<1>1. PICK k : Moves(p, k) /\ k.step = s /\ k.tick = t
  BY GoMoves DEF Rows
<1>2. Dispatched(p, t, k, j, c)
  BY <1>1 DEF Dispatched, Rows
<1>3. QED  BY <1>2, DispatchedIsOK

LEMMA TransitionRow ==
  ASSUME OrchInv, NEW t \in Ticks, NEW e \in Nat, NEW x \in JobStates, Transition(t, e, x)
  PROVE  \E j \in JobRows : /\ job' = [job EXCEPT ![t] = j] /\ j.state = x
                            /\ x \in MayBecome(job[t].state) /\ job[t].rev = e
                            /\ e = 1 => job[t].state = "starting"
<1>1. job[t] \in JobRows /\ job[t].rev = e /\ x \in MayBecome(job[t].state)
  BY DEF OrchInv, DispatchInv, WorldTypeOK, Transition, Permits
<1>2. e # 0
  BY <1>1, NoneAssumption DEF JobRows, MayBecome
<1>3. PICK j : j = [state |-> x, rev |-> e + 1]
  OBVIOUS
<1>4. j \in JobRows
  BY <1>2, <1>3 DEF JobRows
<1>5. job' = [job EXCEPT ![t] = j]
  BY <1>3 DEF Transition
<1>6. QED  BY <1>1, <1>3, <1>4, <1>5 DEF JobRows

\* The failure of a launch is noted under the revision of the registration.
LEMMA NoteRow ==
  ASSUME OrchInv, NEW t \in Ticks, NEW x \in JobStates, Note(t, 1, x)
  PROVE  \E j \in JobRows : /\ job' = [job EXCEPT ![t] = j]
                            /\ j = job[t] \/ job[t].state = "starting"
<1>1. job = [job EXCEPT ![t] = job[t]] /\ job[t] \in JobRows
  BY DEF OrchInv, DispatchInv, WorldTypeOK
<1>2. QED  BY <1>1, TransitionRow DEF Note

\* A dispatcher before its launch goes on, or gives up.
LEMMA LaunchingIsOK ==
  ASSUME OrchInv, AttemptsKept, NEW p \in Procs, NEW t, t = proc[p].tick,
         proc[p].step \in Launching,
         UNCHANGED <<run, tick, orphans, child>>,
         NEW j \in JobRows, job' = [job EXCEPT ![t] = j], j = job[t] \/ job[t].state = "starting",
         \/ Return(p)
         \/ \E s \in Unlaunching \cup {"register", "end"} :
              /\ Go(p, s)
              /\ ~tick[t].replayed /\ s \in Unlaunching => j.state \in {"starting", "uncertain"}
              /\ ~tick[t].replayed /\ s = "register" => j.state = None
  PROVE  DispatchInv' /\ ServedNext
<1>1. Dispatches(p)
  BY DEF Dispatches, DispatchSteps
<1>2. /\ ~tick[t].replayed => \A q \in Procs : child[t][q] = None
      /\ child[t] \in ChildRows /\ child = [child EXCEPT ![t] = child[t]]
      /\ child[t][p] = "alive" => <<t, p>> \in orphans
  <2>1. proc[p].step \notin AtHand
    BY DEF AtHand, Launching, Unlaunching
  <2>2. QED  BY <1>1, <2>1, DispatcherKnows DEF DispatchAt
<1>3. Rows(p, t, j, child[t])
  BY <1>2, NoneAssumption DEF Rows, Lawful, LaunchedRow
<1>4. CASE Return(p)
  BY <1>1, <1>3, <1>4, ReturnIsOK
<1>5. ASSUME NEW s \in Unlaunching \cup {"register", "end"}, Go(p, s),
             ~tick[t].replayed /\ s \in Unlaunching => j.state \in {"starting", "uncertain"},
             ~tick[t].replayed /\ s = "register" => j.state = None
      PROVE  DispatchInv' /\ ServedNext
  <2>1. s \in DispatchSteps \ {"supervise", "settle"}
    BY DEF DispatchSteps, Launching, Unlaunching
  <2>2. s \notin AtHand /\ s # "policy" /\ (s = "register" => s \notin Unlaunching)
    BY DEF AtHand, Unlaunching
  <2>3. ~tick[t].replayed => DispatchAt(p, s, j.state, child[t])
    BY <1>2, <1>5, <2>2, NoneAssumption DEF DispatchAt, AtHand
  <2>4. QED  BY <1>1, <1>3, <1>5, <2>1, <2>3, GoIsOK
<1>6. QED  BY <1>4, <1>5

\* The steps of a dispatch up to the launch check, and after a failed spawn.
LEMMA LaunchStepsAreOK ==
  ASSUME OrchInv, AttemptsKept, NEW p \in Procs,
         \/ CheckPolicy(p) \/ ReleaseClaim(p) \/ Accept(p) \/ AcceptFailed(p)
         \/ Accepted(p) \/ Start(p) \/ Unlaunched(p) \/ SpawnFails(p) \/ SpawnFailed(p)
  PROVE  DispatchInv' /\ ServedNext
<1>1. PICK t : t = proc[p].tick
  OBVIOUS
<1>2. proc[p].step \in Launching
  BY DEF CheckPolicy, ReleaseClaim, Accept, AcceptFailed, Accepted, Start, Unlaunched,
         SpawnFails, SpawnFailed, At, Launching, Unlaunching
<1>3. UNCHANGED <<run, tick, orphans, child>>
  BY DEF CheckPolicy, ReleaseClaim, Accept, AcceptFailed, Accepted, Start, Unlaunched,
         SpawnFails, SpawnFailed, claims, world
<1>4. /\ t \in Ticks /\ job[t] \in JobRows /\ job = [job EXCEPT ![t] = job[t]]
      /\ ~tick[t].replayed /\ proc[p].step \in {"policy", "register"} => job[t].state = None
      /\ ~tick[t].replayed /\ proc[p].step \in Unlaunching => job[t].state \in {"starting", "uncertain"}
  <2>1. Dispatches(p)
    BY <1>2 DEF Dispatches, DispatchSteps
  <2>2. QED  BY <1>1, <2>1, DispatcherKnows DEF DispatchAt
<1>5. CASE CheckPolicy(p)
  <2>1. UNCHANGED job /\ Go(p, "register") /\ (~tick[t].replayed => job[t].state = None)
    BY <1>4, <1>5 DEF CheckPolicy, At
  <2>2. "register" \notin Unlaunching
    BY DEF Unlaunching
  <2>3. QED  BY <1>1, <1>2, <1>3, <1>4, <2>1, <2>2, LaunchingIsOK
<1>6. CASE ReleaseClaim(p)
  <2>1. UNCHANGED job /\ Return(p)
    BY <1>6 DEF ReleaseClaim
  <2>2. QED  BY <1>1, <1>2, <1>3, <1>4, <2>1, LaunchingIsOK
<1>7. CASE Accept(p) \/ Accepted(p) \/ Start(p) \/ SpawnFails(p)
  <2>1. /\ UNCHANGED job /\ (~tick[t].replayed => job[t].state \in {"starting", "uncertain"})
        /\ Return(p) \/ \E s \in Unlaunching : Go(p, s)
    BY <1>4, <1>7 DEF Accept, Accepted, Start, SpawnFails, Advance, At, Unlaunching
  <2>2. "register" \notin Unlaunching
    BY DEF Unlaunching
  <2>3. QED  BY <1>1, <1>2, <1>3, <1>4, <2>1, <2>2, LaunchingIsOK
<1>8. CASE AcceptFailed(p) \/ Unlaunched(p)
  <2>1. PICK j \in JobRows : job' = [job EXCEPT ![t] = j] /\ (j = job[t] \/ job[t].state = "starting")
    BY <1>1, <1>4, <1>8, NoteRow DEF AcceptFailed, Unlaunched, JobStates
  <2>2. Return(p)
    BY <1>8 DEF AcceptFailed, Unlaunched
  <2>3. QED  BY <1>1, <1>2, <1>3, <2>1, <2>2, LaunchingIsOK
<1>9. CASE SpawnFailed(p)
  <2>1. PICK j \in JobRows : job' = [job EXCEPT ![t] = j] /\ (j = job[t] \/ job[t].state = "starting")
    BY <1>1, <1>4, <1>9, NoteRow DEF SpawnFailed, JobStates
  <2>2. Return(p) \/ Go(p, "end")
    BY <1>9 DEF SpawnFailed
  <2>3. "end" \notin Unlaunching /\ "end" # "register"
    BY DEF Unlaunching
  <2>4. QED  BY <1>1, <1>2, <1>3, <2>1, <2>2, <2>3, LaunchingIsOK
<1>10. QED  BY <1>5, <1>6, <1>7, <1>8, <1>9

\* The registration: the other dispatchers of a replayed tick may replay it.
LEMMA RegisterIsOK ==
  ASSUME OrchInv, AttemptsKept, NEW p \in Procs, Register(p)
  PROVE  DispatchInv' /\ ServedNext
<1>1. PICK t : t = proc[p].tick
  OBVIOUS
<1>2. proc[p].step = "register" /\ Dispatches(p) /\ UNCHANGED <<run, tick, orphans, child>>
  BY DEF Register, At, claims, world, Dispatches, DispatchSteps, Launching
<1>3. /\ t \in Ticks /\ job[t] \in JobRows /\ job = [job EXCEPT ![t] = job[t]]
      /\ child[t] \in ChildRows /\ child = [child EXCEPT ![t] = child[t]]
      /\ tick[t].state = "claimed"
      /\ ~tick[t].replayed => /\ \A q \in Procs : child[t][q] = None
                              /\ \A q \in Procs : DispatchesTick(q, t) => q = p
      /\ child[t][p] = "alive" => <<t, p>> \in orphans
  BY <1>1, <1>2, DispatcherKnows DEF DispatchAt, Launching, AtHand
<1>4. /\ ClaimsTypeOK /\ proc[p] \in Contexts /\ proc[p] \in Served
      /\ proc[p].echo => Replayed(tick[t])
  <2>1. ClaimsTypeOK /\ proc[p] \in Contexts /\ proc[p] \in Served
    BY <1>2, ServedTick DEF OrchInv, ClaimsInv, Dispatches
  <2>2. proc[p].echo => Replayed(tick[t])
    BY <1>1, <1>2 DEF OrchInv, DispatchInv, EchoOK, MayEcho, Dispatches
  <2>3. QED  BY <2>1, <2>2
<1>5. "accept" \in DispatchSteps \ {"supervise", "settle", "record"} /\ "accept" # "finish"
  BY DEF DispatchSteps, Launching, Unlaunching
\* Any context that leads p to the acceptance is as good.
<1>6. ASSUME NEW k \in Contexts, k.step = "accept", k.tick = t, k.echo => Replayed(tick[t])
      PROVE  k \in Served /\ (k.echo => MayEcho(k, tick'[k.tick]))
  BY <1>2, <1>3, <1>5, <1>6 DEF Served, MayEcho
<1>7. CASE job[t] = NoJob /\ job' = [job EXCEPT ![t] = [state |-> "starting", rev |-> 1]]
           /\ proc' = [q \in Procs |-> IF q = p THEN [proc[p] EXCEPT !.step = "accept"]
                         ELSE IF Shares(p, q) THEN [proc[q] EXCEPT !.echo = TRUE] ELSE proc[q]]
  <2>1. PICK k : k = [proc[p] EXCEPT !.step = "accept"]
    OBVIOUS
  <2>2. PICK S : S = {q \in Procs : Shares(p, q)}
    OBVIOUS
  <2>3. k \in Contexts /\ k.step = "accept" /\ k.tick = t /\ k.echo = proc[p].echo
    BY <1>1, <1>4, <2>1 DEF Contexts, AllSteps, DispatchSteps, Launching, Unlaunching
  <2>4. k \in Served /\ (k.echo => MayEcho(k, tick'[k.tick])) /\ k.step # "finish"
    BY <1>4, <1>5, <1>6, <2>3
  <2>5. \A q \in Procs \ {p} : q \in S => MayEcho(proc[q], tick'[proc[q].tick])
    <3> SUFFICES ASSUME NEW q \in Procs \ {p}, q \in S
                 PROVE  MayEcho(proc[q], tick'[proc[q].tick])
      OBVIOUS
    <3>1. proc[q].step = proc[p].step /\ proc[q].tick = t
      BY <1>1, <2>2 DEF Shares
    <3>2. DispatchesTick(q, t)
      BY <1>2, <3>1 DEF DispatchesTick, Dispatches
    <3>3. tick[t] \in TickRows
      BY <1>3, <1>4 DEF ClaimsTypeOK
    <3>4. Replayed(tick[t])
      BY <1>3, <3>2, <3>3 DEF Replayed, TickRows
    <3>5. QED  BY <1>2, <3>1, <3>4 DEF MayEcho
  <2>6. proc' = [q \in Procs |-> IF q = p THEN k
                   ELSE IF q \in S THEN [proc[q] EXCEPT !.echo = TRUE] ELSE proc[q]]
    BY <1>7, <2>1, <2>2
  <2>7. Moves(p, k)
    BY <1>4, <2>4, <2>5, <2>6, CommittedMoves
  <2>8. PICK j : j = [state |-> "starting", rev |-> 1]
    OBVIOUS
  <2>9. j \in JobRows /\ j.state = "starting" /\ job' = [job EXCEPT ![t] = j]
    BY <1>7, <2>8 DEF JobRows, JobStates
  <2>10. job[t].state = None
    BY <1>7 DEF NoJob
  <2>11. ~tick[t].replayed =>
           DispatchAt(p, "accept", j.state, child[t]) /\ LaunchedRow(j.state, child[t])
    BY <1>3, <2>9, NoneAssumption DEF DispatchAt, LaunchedRow, AtHand
  <2>12. Dispatched(p, t, k, j, child[t])
    BY <1>2, <1>3, <1>5, <2>3, <2>7, <2>9, <2>10, <2>11 DEF Dispatched, Lawful
  <2>13. QED  BY <1>1, <1>2, <2>12, DispatchedIsOK
<1>8. CASE /\ proc[p].echo /\ UNCHANGED job
           /\ proc' = [proc EXCEPT ![p].step = "accept", ![p].echo = FALSE]
  <2>1. PICK k : k = [proc[p] EXCEPT !.step = "accept", !.echo = FALSE]
    OBVIOUS
  <2>2. k \in Contexts /\ k.step = "accept" /\ k.tick = t /\ ~k.echo
    BY <1>1, <1>4, <2>1 DEF Contexts, AllSteps, DispatchSteps, Launching, Unlaunching
  <2>3. k \in Served /\ k.step # "finish"
    BY <1>5, <1>6, <2>2
  <2>4. proc' = [proc EXCEPT ![p] = k]
    BY <1>8, <2>1
  <2>5. Moves(p, k)
    BY <1>4, <2>2, <2>3, <2>4, AloneMoves
  <2>6. tick[t].replayed
    BY <1>4, <1>8 DEF Replayed
  <2>7. Dispatched(p, t, k, job[t], child[t])
    BY <1>2, <1>3, <1>5, <1>8, <2>2, <2>5, <2>6 DEF Dispatched, Lawful
  <2>8. QED  BY <1>1, <1>2, <2>7, DispatchedIsOK
<1>9. CASE Return(p) /\ UNCHANGED job
  <2>1. proc[p].step \in Launching
    BY <1>2 DEF Launching
  <2>2. QED  BY <1>1, <1>2, <1>3, <1>9, <2>1, LaunchingIsOK
<1>10. QED  BY <1>1, <1>7, <1>8, <1>9 DEF Register, Committed

LEMMA LaunchCheckIsOK ==
  ASSUME OrchInv, AttemptsKept, NEW p \in Procs, LaunchCheck(p)
  PROVE  DispatchInv' /\ ServedNext
<1>1. PICK t : t = proc[p].tick
  OBVIOUS
<1>2. /\ proc[p].step \in Launching /\ proc[p].step \in Unlaunching /\ Dispatches(p)
      /\ proc[p].step \notin AtHand
  BY DEF LaunchCheck, At, Launching, Unlaunching, Dispatches, DispatchSteps, AtHand
<1>3. UNCHANGED <<run, tick, orphans, child, job>>
  BY DEF LaunchCheck, claims, world
<1>4. /\ t \in Ticks /\ job[t] \in JobRows /\ job = [job EXCEPT ![t] = job[t]]
      /\ child[t] \in ChildRows /\ child = [child EXCEPT ![t] = child[t]]
      /\ ~tick[t].replayed => /\ job[t].state \in {"starting", "uncertain"}
                              /\ \A q \in Procs : child[t][q] = None
      /\ child[t][p] = "alive" => <<t, p>> \in orphans
  BY <1>1, <1>2, DispatcherKnows DEF DispatchAt
<1>5. CASE Go(p, "unlaunched")
  <2>1. "unlaunched" \in Unlaunching /\ "unlaunched" # "register"
    BY DEF Unlaunching
  <2>2. QED  BY <1>1, <1>2, <1>3, <1>4, <1>5, <2>1, LaunchingIsOK
<1>6. CASE proc' = [proc EXCEPT ![p].step = "spawn", ![p].policy = 0]
  <2>1. ClaimsTypeOK /\ proc[p] \in Contexts /\ proc[p].tick \in Ticks
    BY <1>2, ServedTick DEF OrchInv, ClaimsInv, Dispatches
  <2>2. PICK k : k = [proc[p] EXCEPT !.step = "spawn", !.policy = 0]
    OBVIOUS
  <2>3. k \in Contexts /\ k.step = "spawn" /\ k.tick = t /\ k.echo = proc[p].echo
    BY <1>1, <2>1, <2>2 DEF Contexts, AllSteps, DispatchSteps, Launching, Unlaunching
  <2>4. k \in Served
    BY <1>4, <2>3 DEF Served
  <2>5. k.echo => MayEcho(k, tick'[k.tick])
    BY <1>1, <1>2, <1>3, <2>3 DEF OrchInv, DispatchInv, EchoOK, MayEcho, Dispatches
  <2>6. proc' = [proc EXCEPT ![p] = k]
    BY <1>6, <2>2
  <2>7. Moves(p, k)
    BY <2>1, <2>3, <2>4, <2>5, <2>6, AloneMoves
  <2>8. ~tick[t].replayed =>
          DispatchAt(p, "spawn", job[t].state, child[t]) /\ LaunchedRow(job[t].state, child[t])
    BY <1>4, NoneAssumption DEF DispatchAt, LaunchedRow, AtHand
  <2>9. Dispatched(p, t, k, job[t], child[t])
    BY <1>3, <1>4, <2>3, <2>7, <2>8 DEF Dispatched, Lawful
  <2>10. QED  BY <1>1, <1>2, <2>9, DispatchedIsOK
<1>7. QED  BY <1>5, <1>6 DEF LaunchCheck

\* The launch: the child is alive under its dispatcher.
LEMMA SpawnIsOK ==
  ASSUME OrchInv, AttemptsKept, NEW p \in Procs, Spawn(p)
  PROVE  DispatchInv' /\ ServedNext
<1>1. PICK t : t = proc[p].tick
  OBVIOUS
<1>2. proc[p].step \in Launching /\ proc[p].step \in Unlaunching /\ Dispatches(p)
  BY DEF Spawn, At, Launching, Unlaunching, Dispatches, DispatchSteps
<1>3. /\ t \in Ticks /\ job[t] \in JobRows /\ job = [job EXCEPT ![t] = job[t]]
      /\ child[t] \in ChildRows
      /\ ~tick[t].replayed => /\ job[t].state \in {"starting", "uncertain"}
                              /\ \A q \in Procs : child[t][q] = None
  <2>1. /\ t \in Ticks /\ job[t] \in JobRows /\ job = [job EXCEPT ![t] = job[t]]
        /\ child[t] \in ChildRows
        /\ ~tick[t].replayed => DispatchAt(p, proc[p].step, job[t].state, child[t])
    BY <1>1, <1>2, DispatcherKnows
  <2>2. QED  BY <1>2, <2>1 DEF DispatchAt
<1>4. PICK c : c = [child[t] EXCEPT ![p] = "alive"]
  OBVIOUS
<1>5. c \in ChildRows /\ c[p] = "alive" /\ \A q \in Procs \ {p} : c[q] = child[t][q]
  BY <1>3, <1>4 DEF ChildRows
<1>6. child' = [child EXCEPT ![t] = c] /\ UNCHANGED <<run, tick, orphans, job>> /\ Go(p, "record")
  BY <1>1, <1>4 DEF Spawn, claims
<1>7. PICK k : Moves(p, k) /\ k.step = "record" /\ k.tick = t
  BY <1>1, <1>2, <1>6, GoMoves DEF DispatchSteps
<1>8. "record" \in AtHand /\ "record" \notin {"supervise", "settle"}
  BY DEF AtHand
<1>9. ~tick[t].replayed => DispatchAt(p, "record", job[t].state, c) /\ LaunchedRow(job[t].state, c)
  <2> SUFFICES ASSUME ~tick[t].replayed
               PROVE  DispatchAt(p, "record", job[t].state, c) /\ LaunchedRow(job[t].state, c)
    OBVIOUS
  <2>1. job[t].state \in {"starting", "uncertain"} /\ \A q \in Procs \ {p} : c[q] = None
    BY <1>3, <1>5
  <2>2. DispatchAt(p, "record", job[t].state, c)
    BY <2>1 DEF DispatchAt, Launching, Unlaunching
  <2>3. LaunchedRow(job[t].state, c)
    BY <2>1 DEF LaunchedRow, Recorded
  <2>4. QED  BY <2>2, <2>3
<1>10. Dispatched(p, t, k, job[t], c)
  BY <1>3, <1>5, <1>6, <1>7, <1>8, <1>9 DEF Dispatched, Lawful
<1>11. QED  BY <1>1, <1>2, <1>10, DispatchedIsOK

\* The child is recorded, and supervised from then on, or killed.
LEMMA RecordIsOK ==
  ASSUME OrchInv, AttemptsKept, NEW p \in Procs, Record(p)
  PROVE  DispatchInv' /\ ServedNext
<1>1. PICK t : t = proc[p].tick
  OBVIOUS
<1>2. proc[p].step = "record" /\ Dispatches(p) /\ UNCHANGED <<run, tick, orphans>>
  BY DEF Record, At, Dispatches, DispatchSteps, claims
<1>3. /\ t \in Ticks /\ job[t] \in JobRows /\ job = [job EXCEPT ![t] = job[t]]
      /\ child[t] \in ChildRows /\ child = [child EXCEPT ![t] = child[t]]
      /\ ~tick[t].replayed => \A q \in Procs \ {p} : child[t][q] = None
  <2>1. /\ t \in Ticks /\ job[t] \in JobRows /\ job = [job EXCEPT ![t] = job[t]]
        /\ child[t] \in ChildRows /\ child = [child EXCEPT ![t] = child[t]]
        /\ ~tick[t].replayed => DispatchAt(p, proc[p].step, job[t].state, child[t])
    BY <1>1, <1>2, DispatcherKnows
  <2>2. QED  BY <1>2, <2>1 DEF DispatchAt, AtHand
<1>4. CASE Transition(t, 1, "running") /\ Go(p, "supervise") /\ UNCHANGED child
  <2>1. PICK j \in JobRows : /\ job' = [job EXCEPT ![t] = j] /\ j.state = "running"
                             /\ job[t].state = "starting"
    BY <1>3, <1>4, TransitionRow DEF JobStates
  <2>2. PICK k : Moves(p, k) /\ k.step = "supervise" /\ k.tick = t
    BY <1>1, <1>2, <1>4, GoMoves DEF DispatchSteps
  <2>3. "supervise" \in AtHand /\ "running" \in Recorded
    BY DEF AtHand, Recorded
  <2>4. ~tick[t].replayed =>
          DispatchAt(p, "supervise", j.state, child[t]) /\ LaunchedRow(j.state, child[t])
    BY <1>3, <2>1, <2>3 DEF DispatchAt, LaunchedRow, Launching, Unlaunching
  <2>5. Dispatched(p, t, k, j, child[t])
    BY <1>2, <1>3, <1>4, <2>1, <2>2, <2>3, <2>4 DEF Dispatched, Lawful
  <2>6. QED  BY <1>1, <1>2, <2>5, DispatchedIsOK
<1>5. CASE Kill(p) /\ UNCHANGED job /\ (Go(p, "unrecorded") \/ Return(p))
  <2>1. PICK c : c = [child[t] EXCEPT ![p] = "over"]
    OBVIOUS
  <2>2. c \in ChildRows /\ c[p] = "over" /\ \A q \in Procs \ {p} : c[q] = child[t][q]
    BY <1>3, <2>1 DEF ChildRows
  <2>3. child' = [child EXCEPT ![t] = c]
    BY <1>1, <1>5, <2>1 DEF Kill
  <2>4. ~tick[t].replayed => /\ LaunchedRow(job[t].state, c)
                             /\ \A q \in Procs : c[q] # "alive"
    BY <1>3, <2>2, NoneAssumption DEF LaunchedRow
  <2>5. Rows(p, t, job[t], c)
    BY <1>2, <1>3, <1>5, <2>2, <2>3, <2>4 DEF Rows, Lawful
  <2>6. "unrecorded" \in DispatchSteps \ {"supervise", "settle"}
    BY DEF DispatchSteps
  <2>7. ~tick[t].replayed => DispatchAt(p, "unrecorded", job[t].state, c)
    BY <2>4 DEF DispatchAt, Launching, Unlaunching, AtHand
  <2>8. QED  BY <1>1, <1>2, <1>5, <2>5, <2>6, <2>7, GoIsOK, ReturnIsOK
<1>6. QED  BY <1>1, <1>4, <1>5 DEF Record

\* Leaving the supervision kills the child.
LEMMA LeaveIsOK ==
  ASSUME OrchInv, AttemptsKept, NEW p \in Procs, At(p, "supervise"), NEW r \in Results, Leave(p, r)
  PROVE  DispatchInv' /\ ServedNext
<1>1. PICK t : t = proc[p].tick
  OBVIOUS
<1>2. /\ proc[p].step = "supervise" /\ Dispatches(p) /\ Supervises(p)
      /\ UNCHANGED <<run, tick, orphans, job>>
  BY DEF At, Dispatches, DispatchSteps, Supervises, Leave, claims
<1>3. /\ t \in Ticks /\ job[t] \in JobRows /\ job = [job EXCEPT ![t] = job[t]]
      /\ child[t] \in ChildRows
      /\ ~tick[t].replayed => \A q \in Procs \ {p} : child[t][q] = None
      /\ job[t].state \in Recorded
  <2>1. /\ t \in Ticks /\ job[t] \in JobRows /\ job = [job EXCEPT ![t] = job[t]]
        /\ child[t] \in ChildRows
        /\ ~tick[t].replayed => DispatchAt(p, proc[p].step, job[t].state, child[t])
    BY <1>1, <1>2, DispatcherKnows
  <2>2. job[t].state \in Recorded
    BY <1>1, <1>2 DEF OrchInv, DispatchInv, SupervisedOK
  <2>3. QED  BY <1>2, <2>1, <2>2 DEF DispatchAt, AtHand
<1>4. ClaimsTypeOK /\ proc[p] \in Contexts
  BY <1>2, ServedTick DEF OrchInv, ClaimsInv, Dispatches
<1>5. PICK k : k = [proc[p] EXCEPT !.step = "settle", !.result = r]
  OBVIOUS
<1>6. k \in Contexts /\ k.step = "settle" /\ k.tick = t /\ k.echo = proc[p].echo
  BY <1>1, <1>4, <1>5 DEF Contexts, AllSteps, DispatchSteps
<1>7. k \in Served /\ (k.echo => MayEcho(k, tick'[k.tick]))
  <2>1. proc[p].echo => MayEcho(proc[p], tick[proc[p].tick])
    BY DEF OrchInv, DispatchInv, EchoOK
  <2>2. QED  BY <1>1, <1>2, <1>3, <1>6, <2>1 DEF Served, MayEcho, Dispatches
<1>8. Moves(p, k)
  <2>1. proc' = [proc EXCEPT ![p] = k]
    BY <1>5 DEF Leave
  <2>2. QED  BY <1>4, <1>6, <1>7, <2>1, AloneMoves
<1>9. PICK c : c = [child[t] EXCEPT ![p] = "over"]
  OBVIOUS
<1>10. c \in ChildRows /\ c[p] = "over" /\ \A q \in Procs \ {p} : c[q] = child[t][q]
  BY <1>3, <1>9 DEF ChildRows
<1>11. child' = [child EXCEPT ![t] = c]
  BY <1>1, <1>9 DEF Leave, Kill
<1>12. ~tick[t].replayed => /\ DispatchAt(p, "settle", job[t].state, c)
                            /\ LaunchedRow(job[t].state, c)
  BY <1>3, <1>10, NoneAssumption DEF DispatchAt, LaunchedRow, Launching, Unlaunching, AtHand
<1>13. Dispatched(p, t, k, job[t], c)
  BY <1>2, <1>3, <1>6, <1>8, <1>10, <1>11, <1>12 DEF Dispatched, Lawful
<1>14. QED  BY <1>1, <1>2, <1>13, DispatchedIsOK

\* The steps that follow, when the child is over.
LEMMA AfterwardsIsOK ==
  ASSUME OrchInv, AttemptsKept, NEW p \in Procs, Unrecorded(p) \/ Settle(p) \/ End(p)
  PROVE  DispatchInv' /\ ServedNext
<1>1. PICK t : t = proc[p].tick
  OBVIOUS
<1>2. /\ proc[p].step \in {"unrecorded", "settle", "end"} /\ Dispatches(p)
      /\ UNCHANGED <<run, tick, orphans, child>>
  BY DEF Unrecorded, Settle, End, At, Dispatches, DispatchSteps, claims, world
<1>3. /\ t \in Ticks /\ job[t] \in JobRows /\ job = [job EXCEPT ![t] = job[t]]
      /\ child[t] \in ChildRows /\ child = [child EXCEPT ![t] = child[t]]
      /\ ~tick[t].replayed => /\ \A q \in Procs : child[t][q] # "alive"
                              /\ LaunchedRow(job[t].state, child[t])
      /\ child[t][p] = "alive" => <<t, p>> \in orphans
  <2>1. proc[p].step \notin AtHand
    BY <1>2 DEF AtHand
  <2>2. QED  BY <1>1, <1>2, <2>1, DispatcherKnows DEF DispatchAt
<1>4. Return(p) \/ Go(p, "end")
  BY DEF Unrecorded, Settle, End
<1>5. PICK j \in JobRows : job' = [job EXCEPT ![t] = j] /\ Lawful(p, job[t], j)
  <2>1. job[t].rev \in Nat
    BY <1>3 DEF JobRows
  <2>2. CASE UNCHANGED job
    BY <1>3, <2>2 DEF Lawful
  <2>3. CASE Unrecorded(p) /\ ~UNCHANGED job
    <3>1. Transition(t, job[t].rev, "readback_required")
      BY <1>1, <2>3 DEF Unrecorded, Note
    <3>2. "readback_required" \in JobStates
      BY DEF JobStates
    <3>3. QED  BY <1>3, <2>1, <3>1, <3>2, TransitionRow DEF Lawful
  <2>4. CASE Settle(p) /\ ~UNCHANGED job
    <3>1. Transition(t, job[t].rev, proc[p].result) /\ proc[p].step = "settle"
      BY <1>1, <2>4 DEF Settle, At
    <3>2. proc[p].result \in JobStates
      BY <3>1 DEF Transition, Permits, MayBecome, JobStates
    <3>3. QED  BY <1>3, <2>1, <3>1, <3>2, TransitionRow DEF Lawful
  <2>5. QED  BY <2>2, <2>3, <2>4 DEF End
<1>6. Rows(p, t, j, child[t])
  BY <1>2, <1>3, <1>5 DEF Rows, LaunchedRow
<1>7. "end" \in DispatchSteps \ {"supervise", "settle"}
  BY DEF DispatchSteps
<1>8. ~tick[t].replayed => DispatchAt(p, "end", j.state, child[t])
  BY <1>3 DEF DispatchAt, Launching, Unlaunching, AtHand
<1>9. QED  BY <1>1, <1>2, <1>4, <1>6, <1>7, <1>8, GoIsOK, ReturnIsOK

LEMMA DispatchStepIsOK ==
  ASSUME OrchInv, AttemptsKept, NEW p \in Procs, LaunchStep(p) \/ SuperviseStep(p)
  PROVE  DispatchInv' /\ ServedNext
<1>1. CASE SeeStop(p) \/ SeeExit(p) \/ Timeout(p) \/ SeeLoss(p) \/ LoseContact(p)
  <2>1. PICK r \in Results : Leave(p, r) /\ At(p, "supervise")
    BY <1>1 DEF SeeStop, SeeExit, Timeout, SeeLoss, LoseContact, Results
  <2>2. QED  BY <2>1, LeaveIsOK
<1>2. CASE Settle(p) \/ End(p) \/ Unrecorded(p)
  BY <1>2, AfterwardsIsOK
<1>3. CASE LaunchStep(p)
  BY <1>2, <1>3, LaunchStepsAreOK, RegisterIsOK, LaunchCheckIsOK, SpawnIsOK, RecordIsOK DEF LaunchStep
<1>4. QED  BY <1>1, <1>2, <1>3 DEF SuperviseStep

-----------------------------------------------------------------------------
(* The other steps.                                                        *)

\* A tick that is not claimed has nothing that could have been launched twice.
LEMMA UnclaimedRows ==
  ASSUME OrchInv, NEW t \in Ticks, tick[t].state # "claimed"
  PROVE  /\ job[t] = NoJob /\ \A q \in Procs : child[t][q] = None
         /\ \A q \in Procs : ~DispatchesTick(q, t)
BY DEF OrchInv, DispatchInv, RowsOK, DispatcherOK, DispatchesTick

\* A process that dispatches nothing after its step moves, no tick becomes
\* claimed, and the child it leaves, if any, is on record.
LEMMA QuietIsOK ==
  ASSUME OrchInv, AttemptsKept, NEW p \in Procs, NEW k, Moves(p, k), k.step \notin DispatchSteps,
         UNCHANGED <<job, child>>,
         \A t \in Ticks : tick'[t].state = "claimed" <=> tick[t].state = "claimed",
         \A t \in Ticks : tick[t].state = "claimed" => tick'[t] = tick[t],
         orphans \subseteq orphans', orphans' \in SUBSET (Ticks \X Procs),
         \A t \in Ticks : child[t][p] = "alive" => <<t, p>> \in orphans'
  PROVE  DispatchInv' /\ ServedNext
<1> USE DEF OrchInv, DispatchInv
<1>1. /\ proc'[p] = k
      /\ \A q \in Procs \ {p} : proc'[q].step = proc[q].step /\ proc'[q].tick = proc[q].tick
  BY DEF Moves
<1>2. ClaimOK' /\ EchoOK' /\ ServedNext
  BY MovesKeepsReplays DEF Replayed
<1>3. \A q \in Procs : Dispatches(q)' => /\ Dispatches(q) /\ q # p
                                         /\ proc[q].tick \in Ticks
                                         /\ proc'[q].step = proc[q].step
                                         /\ proc'[q].tick = proc[q].tick
  BY <1>1, ServedTick DEF Dispatches, ClaimsInv
<1>4. WorldTypeOK'
  BY DEF WorldTypeOK
<1>5. DispatcherOK'
  BY <1>3 DEF DispatcherOK
<1>6. RowsOK'
  BY DEF RowsOK
<1>7. SupervisedOK'
  <2>1. \A q \in Procs : Supervises(q)' => Supervises(q) /\ proc'[q].tick = proc[q].tick
    BY <1>3 DEF Supervises, Dispatches, DispatchSteps
  <2>2. QED  BY <2>1 DEF SupervisedOK
<1>8. AliveOK'
  BY <1>1 DEF AliveOK
<1>9. OnceOK'
  <2> SUFFICES ASSUME NEW t \in Ticks, tick'[t].state = "claimed", ~tick'[t].replayed
               PROVE  OnceAt(t)'
    BY DEF OnceOK
  <2>1. OnceAt(t)
    BY DEF OnceOK
  <2>2. \A q \in Procs : DispatchesTick(q, t)' => DispatchesTick(q, t) /\ proc'[q].step = proc[q].step
    BY <1>3 DEF DispatchesTick
  <2>3. \A q, r \in Procs : DispatchesTick(q, t)' /\ DispatchesTick(r, t)' => q = r
    BY <2>1, <2>2 DEF OnceAt
  <2>4. \A q \in Procs :
          DispatchesTick(q, t)' => DispatchAt(q, proc'[q].step, job'[t].state, child'[t])
    BY <2>1, <2>2 DEF OnceAt
  <2>5. LaunchedRow(job'[t].state, child'[t])
    BY <2>1 DEF OnceAt
  <2>6. QED  BY <2>3, <2>4, <2>5 DEF OnceAt
<1>10. QED  BY <1>2, <1>4, <1>5, <1>6, <1>7, <1>8, <1>9

\* A tick that is finished as claimed gets its first dispatcher, or one whose
\* finish was a replay a further one.
LEMMA JoinIsOK ==
  ASSUME OrchInv, AttemptsKept, NEW p \in Procs, NEW t \in Ticks, NEW k, Moves(p, k),
         ~Dispatches(p), k.step = "policy", k.tick = t, UNCHANGED <<job, world>>,
         tick'[t].state = "claimed", \A u \in Ticks \ {t} : tick'[u] = tick[u],
         \/ tick[t].state # "claimed"
         \/ Replayed(tick[t]) /\ tick'[t] = tick[t]
  PROVE  DispatchInv' /\ ServedNext
<1> USE DEF OrchInv, DispatchInv
<1>1. /\ proc'[p] = k
      /\ \A q \in Procs \ {p} : proc'[q].step = proc[q].step /\ proc'[q].tick = proc[q].tick
  BY DEF Moves
<1>2. ClaimOK' /\ EchoOK' /\ ServedNext
  BY MovesKeepsReplays DEF Replayed
<1>3. \A q \in Procs \ {p} : Dispatches(q)' => /\ Dispatches(q)
                                               /\ proc[q].tick \in Ticks
                                               /\ tick[proc[q].tick].state = "claimed"
  BY <1>1, ServedTick DEF Dispatches, ClaimsInv, DispatcherOK
<1>4. UNCHANGED <<job, child, orphans>>
  BY DEF world
<1>5. WorldTypeOK'
  BY <1>4 DEF WorldTypeOK
<1>6. DispatcherOK'
  <2>1. \A q \in Procs \ {p} : Dispatches(q)' => tick'[proc'[q].tick].state = "claimed"
    BY <1>1, <1>3
  <2>2. QED  BY <1>1, <2>1 DEF DispatcherOK
<1>7. RowsOK'
  BY <1>4 DEF RowsOK
<1>8. k.step \notin {"supervise", "settle"} /\ k.step \notin AtHand
  BY DEF AtHand
<1>9. SupervisedOK'
  <2>1. \A q \in Procs : Supervises(q)' => Supervises(q) /\ proc'[q].tick = proc[q].tick
    BY <1>1, <1>8 DEF Supervises
  <2>2. QED  BY <1>4, <2>1 DEF SupervisedOK
<1>10. AliveOK'
  <2> SUFFICES ASSUME NEW u \in Ticks, NEW q \in Procs, child[u][q] = "alive"
               PROVE  <<u, q>> \in orphans \/ (proc'[q].tick = u /\ proc'[q].step \in AtHand)
    BY <1>4 DEF AliveOK
  <2>1. <<u, q>> \in orphans \/ (proc[q].tick = u /\ proc[q].step \in AtHand)
    BY DEF AliveOK
  <2>2. proc[p].step \notin AtHand
    BY DEF Dispatches, DispatchSteps, AtHand
  <2>3. QED  BY <1>1, <2>1, <2>2
<1>11. OnceOK'
  <2> SUFFICES ASSUME NEW u \in Ticks, tick'[u].state = "claimed", ~tick'[u].replayed
               PROVE  OnceAt(u)'
    BY DEF OnceOK
  <2>1. CASE u # t
    <3>1. OnceAt(u)
      BY <2>1 DEF OnceOK
    <3>2. \A q \in Procs :
             DispatchesTick(q, u)' => DispatchesTick(q, u) /\ proc'[q].step = proc[q].step
      BY <1>1, <2>1 DEF DispatchesTick, Dispatches
    <3>3. \A q, r \in Procs : DispatchesTick(q, u)' /\ DispatchesTick(r, u)' => q = r
      BY <3>1, <3>2 DEF OnceAt
    <3>4. \A q \in Procs :
            DispatchesTick(q, u)' => DispatchAt(q, proc'[q].step, job'[u].state, child'[u])
      BY <1>4, <3>1, <3>2 DEF OnceAt
    <3>5. LaunchedRow(job'[u].state, child'[u])
      BY <1>4, <3>1 DEF OnceAt
    <3>6. QED  BY <3>3, <3>4, <3>5 DEF OnceAt
  <2>2. CASE u = t
    <3>1. tick[t].state # "claimed"
      BY <2>2 DEF Replayed
    <3>2. /\ job[t] = NoJob /\ \A q \in Procs : child[t][q] = None
          /\ \A q \in Procs : ~DispatchesTick(q, t)
      BY <3>1, UnclaimedRows
    <3>3. \A q \in Procs : DispatchesTick(q, t)' => q = p
      BY <1>1, <3>2 DEF DispatchesTick, Dispatches
    <3>4. DispatchAt(p, "policy", job[t].state, child[t]) /\ LaunchedRow(job[t].state, child[t])
      BY <3>2, NoneAssumption DEF DispatchAt, LaunchedRow, Unlaunching, AtHand, NoJob
    <3>5. QED  BY <1>1, <1>4, <2>2, <3>3, <3>4 DEF OnceAt
  <2>3. QED  BY <2>1, <2>2
<1>12. QED  BY <1>2, <1>5, <1>6, <1>7, <1>9, <1>10, <1>11

\* Nothing of a dispatch changes but, perhaps, jobs that become uncertain and
\* children that end.
LEMMA RowsOnlyIsOK ==
  ASSUME OrchInv, AttemptsKept, UNCHANGED <<proc, tick, orphans>>, WorldTypeOK',
         \A t \in Ticks : job'[t] = job[t] \/ (Active(t) /\ job'[t].state = "uncertain"),
         \A t \in Ticks, q \in Procs :
           child'[t][q] = child[t][q] \/ (child[t][q] = "alive" /\ child'[t][q] = "over")
  PROVE  DispatchInv' /\ ServedNext
<1> USE DEF OrchInv, DispatchInv
<1>1. ServedNext /\ \A q \in Procs : proc[q].step \in {"finish"} \cup DispatchSteps => proc[q].tick \in Ticks
  BY DEF ClaimsInv, ClaimsTypeOK, ServedNext, Served, TickSteps
<1>2. ClaimOK' /\ EchoOK' /\ DispatcherOK'
  BY <1>1 DEF ClaimOK, EchoOK, DispatcherOK, Claimant, Dispatches, AttemptsKept
<1>3. RowsOK'
  BY NoneAssumption DEF RowsOK, Active, NoJob
<1>4. SupervisedOK'
  <2>1. \A q \in Procs : Supervises(q) => proc[q].tick \in Ticks
    BY <1>1 DEF Supervises, DispatchSteps
  <2>2. \A q \in Procs : Supervises(q)' <=> Supervises(q)
    BY DEF Supervises
  <2>3. QED  BY <2>1, <2>2 DEF SupervisedOK, Recorded
<1>5. AliveOK'
  BY DEF AliveOK
<1>6. OnceOK'
  <2> SUFFICES ASSUME NEW t \in Ticks, tick[t].state = "claimed", ~tick[t].replayed
               PROVE  OnceAt(t)'
    BY DEF OnceOK
  <2>1. OnceAt(t)
    BY DEF OnceOK
  <2>2. \A q \in Procs : DispatchesTick(q, t)' <=> DispatchesTick(q, t)
    BY DEF DispatchesTick, Dispatches
  <2>3. \A q \in Procs : child[t][q] = None => child'[t][q] = None
    BY NoneAssumption
  <2>4. \A q \in Procs : child'[t][q] = None => child[t][q] = None
    BY NoneAssumption
  <2>5. \A q \in Procs : child'[t][q] = "alive" => child[t][q] = "alive"
    OBVIOUS
  <2>6. job'[t].state = job[t].state \/ (job[t].state \in {"starting", "running", "readback_required"}
                                         /\ job'[t].state = "uncertain")
    BY DEF Active
  <2>7. ASSUME NEW q \in Procs, DispatchesTick(q, t)
        PROVE  DispatchAt(q, proc[q].step, job'[t].state, child'[t])
    <3>1. DispatchAt(q, proc[q].step, job[t].state, child[t])
      BY <2>1, <2>7 DEF OnceAt
    <3>2. proc[q].step \in {"policy", "register"} => job'[t].state = None
      BY <2>6, <3>1, NoneAssumption DEF DispatchAt
    <3>3. proc[q].step \in Unlaunching \cup {"record"} => job'[t].state \in {"starting", "uncertain"}
      BY <2>6, <3>1 DEF DispatchAt
    <3>4. QED  BY <2>3, <2>5, <3>1, <3>2, <3>3 DEF DispatchAt
  <2>8. LaunchedRow(job'[t].state, child'[t])
    <3>1. LaunchedRow(job[t].state, child[t])
      BY <2>1 DEF OnceAt
    <3>2. \A p, q \in Procs : child'[t][p] # None /\ child'[t][q] # None => p = q
      BY <2>3, <3>1 DEF LaunchedRow
    <3>3. \A q \in Procs : child'[t][q] = "alive" => job'[t].state \in {"starting"} \cup Recorded
      BY <2>5, <2>6, <3>1 DEF LaunchedRow, Recorded
    <3>4. QED  BY <3>2, <3>3 DEF LaunchedRow
  <2>9. QED  BY <2>1, <2>2, <2>7, <2>8 DEF OnceAt
<1>7. WorldTypeOK'
  OBVIOUS
<1>8. QED  BY <1>1, <1>2, <1>3, <1>4, <1>5, <1>6, <1>7

\* A killed process leaves its child to nobody, and that is on record.
LEMMA CrashIsOK ==
  ASSUME OrchInv, AttemptsKept, NEW p \in Procs, Crash(p)
  PROVE  DispatchInv' /\ ServedNext
<1>1. PICK k : k \in {Idle, Gone} /\ proc' = [proc EXCEPT ![p] = k]
  BY DEF Crash
<1>2. Moves(p, k) /\ k.step \notin DispatchSteps
  BY <1>1, ParkedMoves DEF OrchInv, ClaimsInv
<1>3. UNCHANGED <<run, tick, job, child>>
  BY DEF Crash, claims
<1>4. /\ orphans' = orphans \cup {<<t, p>> : t \in {proc[p].tick} \cap Children(p)}
      /\ orphans \in SUBSET (Ticks \X Procs)
  BY DEF Crash, OrchInv, DispatchInv, WorldTypeOK
<1>5. orphans \subseteq orphans' /\ orphans' \in SUBSET (Ticks \X Procs)
  BY <1>4 DEF Children
<1>6. \A t \in Ticks : child[t][p] = "alive" => <<t, p>> \in orphans'
  BY <1>4 DEF Children, OrchInv, DispatchInv, AliveOK
<1>7. QED  BY <1>2, <1>3, <1>5, <1>6, QuietIsOK

LEMMA RecoverIsOK ==
  ASSUME OrchInv, AttemptsKept, NEW d \in Daemons, Recover(d)
  PROVE  DispatchInv' /\ ServedNext
<1>1. PICK t \in Ticks : Active(t) /\ Transition(t, job[t].rev, "uncertain")
  BY DEF Recover, RecoverAs
<1>2. job \in [Ticks -> JobRows] /\ job[t].rev \in Nat
  BY DEF OrchInv, DispatchInv, WorldTypeOK, JobRows
<1>3. PICK j \in JobRows : job' = [job EXCEPT ![t] = j] /\ j.state = "uncertain"
  BY <1>1, <1>2, TransitionRow DEF JobStates
<1>4. UNCHANGED <<proc, tick, orphans, child>>
  BY DEF Recover, claims, world
<1>5. WorldTypeOK'
  BY <1>3, <1>4 DEF OrchInv, DispatchInv, WorldTypeOK
<1>6. \A u \in Ticks : job'[u] = job[u] \/ (Active(u) /\ job'[u].state = "uncertain")
  BY <1>1, <1>2, <1>3
<1>7. QED  BY <1>4, <1>5, <1>6, RowsOnlyIsOK

LEMMA ChildExitsIsOK ==
  ASSUME OrchInv, AttemptsKept, NEW t \in Ticks, NEW p \in Procs, ChildExits(t, p)
  PROVE  DispatchInv' /\ ServedNext
<1>1. UNCHANGED <<proc, tick, orphans, job>>
  BY DEF ChildExits, claims
<1>2. child \in [Ticks -> ChildRows] /\ child[t][p] = "alive"
  BY DEF ChildExits, OrchInv, DispatchInv, WorldTypeOK
<1>3. PICK c : c = [child[t] EXCEPT ![p] = "over"]
  OBVIOUS
<1>4. c \in ChildRows /\ c[p] = "over" /\ \A q \in Procs \ {p} : c[q] = child[t][q]
  BY <1>2, <1>3 DEF ChildRows
<1>5. child' = [child EXCEPT ![t] = c]
  BY <1>3 DEF ChildExits
<1>6. WorldTypeOK'
  BY <1>1, <1>2, <1>4, <1>5 DEF OrchInv, DispatchInv, WorldTypeOK
<1>7. \A u \in Ticks, q \in Procs :
        child'[u][q] = child[u][q] \/ (child[u][q] = "alive" /\ child'[u][q] = "over")
  BY <1>2, <1>4, <1>5
<1>8. QED  BY <1>1, <1>6, <1>7, RowsOnlyIsOK

LEMMA UnconcernedIsOK ==
  ASSUME OrchInv, AttemptsKept, UNCHANGED <<proc, tick, job, world>>
  PROVE  DispatchInv' /\ ServedNext
<1>1. WorldTypeOK'
  BY DEF OrchInv, DispatchInv, WorldTypeOK, world
<1>2. QED  BY <1>1, RowsOnlyIsOK DEF world

\* A process that dispatches nothing, before and after, has no child at hand.
LEMMA IdleMoveIsOK ==
  ASSUME OrchInv, AttemptsKept, NEW p \in Procs, NEW k, Moves(p, k), k.step \notin DispatchSteps,
         ~Dispatches(p), UNCHANGED <<job, world>>,
         \A t \in Ticks : tick'[t].state = "claimed" <=> tick[t].state = "claimed",
         \A t \in Ticks : tick[t].state = "claimed" => tick'[t] = tick[t]
  PROVE  DispatchInv' /\ ServedNext
<1>1. proc[p].step \notin AtHand
  BY DEF Dispatches, DispatchSteps, AtHand
<1>2. \A t \in Ticks : child[t][p] = "alive" => <<t, p>> \in orphans'
  BY <1>1 DEF OrchInv, DispatchInv, AliveOK, world
<1>3. orphans' = orphans /\ orphans' \in SUBSET (Ticks \X Procs) /\ UNCHANGED child
  BY DEF OrchInv, DispatchInv, WorldTypeOK, world
<1>4. QED  BY <1>2, <1>3, QuietIsOK

\* A daemon outside its worker dispatches nothing.
LEMMA DaemonStepIsOK ==
  ASSUME OrchInv, AttemptsKept, NEW d \in Daemons, DaemonStep(d)
  PROVE  DispatchInv' /\ ServedNext
<1>1. d \in Procs
  BY DEF Procs
<1>2. CASE Recover(d)
  BY <1>2, RecoverIsOK
<1>3. CASE Heartbeat(d)
  BY <1>3, UnconcernedIsOK DEF Heartbeat, claims
<1>4. CASE Acquire(d) \/ RecoverFails(d) \/ Recovered(d) \/ StopDaemon(d)
  <2>1. UNCHANGED <<tick, job, world>>
    BY <1>4 DEF Acquire, RecoverFails, Recovered, StopDaemon, claims
  <2>2. proc[d].step \in {"off", "recover", "idle"} /\ ~Dispatches(d)
    BY <1>4 DEF Acquire, RecoverFails, Recovered, StopDaemon, At, Dispatches, DispatchSteps,
                Launching, Unlaunching
  <2>3. ClaimsTypeOK
    BY DEF OrchInv, ClaimsInv
  <2>4. PICK k : /\ proc' = [proc EXCEPT ![d] = k]
                 /\ k = Gone \/ \E s \in {"recover", "idle"} : k = [proc[d] EXCEPT !.step = s]
    BY <1>4 DEF Acquire, RecoverFails, Recovered, StopDaemon, Go
  <2>5. Moves(d, k) /\ k.step \notin DispatchSteps
    <3>1. CASE k = Gone
      BY <1>1, <2>3, <2>4, <3>1, ParkedMoves
    <3>2. ASSUME NEW s \in {"recover", "idle"}, k = [proc[d] EXCEPT !.step = s]
          PROVE  Moves(d, k) /\ k.step \notin DispatchSteps
      <4>1. proc[d] \in Contexts
        BY <1>1, <2>3 DEF ClaimsTypeOK, Served
      <4>2. k \in Contexts /\ k.step = s
        BY <3>2, <4>1 DEF Contexts, AllSteps
      <4>3. s \notin TickSteps \cup DispatchSteps /\ s # "finish"
        BY DEF TickSteps, DispatchSteps, Launching, Unlaunching
      <4>4. k \in Served
        BY <4>2, <4>3 DEF Served, TickSteps
      <4>5. MayEcho(k, tick'[k.tick])
        BY <4>2, <4>3 DEF MayEcho
      <4>6. QED  BY <1>1, <2>3, <2>4, <4>2, <4>3, <4>4, <4>5, AloneMoves
    <3>3. QED  BY <2>4, <3>1, <3>2
  <2>6. QED  BY <1>1, <2>1, <2>2, <2>5, IdleMoveIsOK
<1>5. QED  BY <1>2, <1>3, <1>4 DEF DaemonStep

-----------------------------------------------------------------------------
(* The steps of a tick.                                                    *)

\* The context of p changes in some fields and its step is one of a tick.
LEMMA ContextMoves ==
  ASSUME ClaimsTypeOK, NEW p \in Procs, NEW k \in Contexts,
         proc' = [proc EXCEPT ![p] = k],
         k.step \in TickSteps, k.tick \in Ticks,
         k.step = "finish" => k.result \in {"replayed", "rejected"} /\ ~k.echo
  PROVE  Moves(p, k) /\ k.step \notin DispatchSteps
<1>1. k.step \notin DispatchSteps
  BY DEF TickSteps, DispatchSteps, Launching, Unlaunching
<1>2. k \in Served
  BY DEF Served, Answers
<1>3. k.echo => MayEcho(k, tick'[k.tick])
  BY <1>1 DEF MayEcho
<1>4. QED  BY <1>1, <1>2, <1>3, AloneMoves

\* What a process at a step of a tick is.
LEMMA TickContext ==
  ASSUME OrchInv, NEW p \in Procs, proc[p].step \in TickSteps
  PROVE  /\ ClaimsTypeOK /\ proc[p] \in Contexts /\ proc[p] \in Served
         /\ proc[p].tick \in Ticks /\ ~Dispatches(p)
BY ServedTick DEF OrchInv, ClaimsInv, TickSteps, Dispatches, DispatchSteps, Launching, Unlaunching

\* p goes to finish its tick.
LEMMA AnsweredContext ==
  ASSUME OrchInv, NEW p \in Procs, At(p, "claim"), NEW r \in Answers, NEW k, k = Answered(p, r)
  PROVE  /\ k \in Contexts /\ k \in Served /\ k.step = "finish" /\ k.tick = proc[p].tick
         /\ k.result = r /\ ~k.echo /\ k.step \in TickSteps /\ k.step \notin DispatchSteps
<1>1. proc[p] \in Contexts /\ proc[p].tick \in Ticks
  BY TickContext DEF At, TickSteps
<1>2. k \in Contexts /\ k.step = "finish" /\ k.tick = proc[p].tick /\ k.result = r /\ ~k.echo
  BY <1>1 DEF Answered, Contexts, AllSteps, TickSteps, Results
<1>3. k.step \in TickSteps /\ k.step \notin DispatchSteps
  BY <1>2 DEF TickSteps, DispatchSteps, Launching, Unlaunching
<1>4. QED  BY <1>1, <1>2, <1>3 DEF Served

\* The claim is made once: whoever is about to make the same one replays it.
LEMMA ClaimIsOK ==
  ASSUME OrchInv, AttemptsKept, NEW p \in Procs, Claim(p)
  PROVE  DispatchInv' /\ ServedNext
<1>1. PICK t : t = proc[p].tick
  OBVIOUS
<1>2. /\ ClaimsTypeOK /\ proc[p] \in Served /\ t \in Ticks /\ ~Dispatches(p)
      /\ UNCHANGED <<tick, job, world>> /\ attempt[t] = NoAttempt
      /\ proc[p].step = "claim"
  BY <1>1, TickContext DEF Claim, At, TickSteps
<1>3. attempt[t].phase = None /\ attempt'[t].phase # None
  <2>1. attempt[t].phase = None
    BY <1>2 DEF NoAttempt
  <2>2. attempt' = [attempt EXCEPT ![t] =
                      [phase |-> "claimed", work |-> proc[p].work, current |-> TRUE]]
    BY <1>1 DEF Claim
  <2>3. QED  BY <1>2, <2>1, <2>2, NoneAssumption DEF ClaimsTypeOK
<1>4. PICK r \in {"claimed", "rejected"} :
        proc' = [q \in Procs |-> IF q = p THEN Answered(p, r)
                   ELSE IF Shares(p, q) THEN [proc[q] EXCEPT !.echo = TRUE] ELSE proc[q]]
  BY DEF Claim, Committed
<1>5. PICK k : k = Answered(p, r)
  OBVIOUS
<1>6. PICK S : S = {q \in Procs : Shares(p, q)}
  OBVIOUS
<1>7. /\ k \in Served /\ k.tick = t /\ ~k.echo /\ k.step \notin DispatchSteps
  BY <1>1, <1>5, AnsweredContext DEF Claim, Answers
<1>8. \A q \in Procs \ {p} : q \in S => MayEcho(proc[q], tick'[proc[q].tick])
  <2>1. "claim" \notin DispatchSteps
    BY DEF DispatchSteps, Launching, Unlaunching
  <2>2. QED  BY <1>2, <1>6, <2>1 DEF Shares, MayEcho
<1>9. proc' = [q \in Procs |-> IF q = p THEN k
                 ELSE IF q \in S THEN [proc[q] EXCEPT !.echo = TRUE] ELSE proc[q]]
  BY <1>4, <1>5, <1>6
<1>10. Moves(p, k)
  BY <1>2, <1>3, <1>7, <1>8, <1>9, CommittedMoves
<1>11. QED  BY <1>2, <1>7, <1>10, IdleMoveIsOK

\* The context with which a process begins to dispatch.
LEMMA DispatchingContext ==
  ASSUME OrchInv, NEW p \in Procs, At(p, "finish"), NEW k, k = Dispatching(p)
  PROVE  k \in Served /\ k.step = "policy" /\ k.tick = proc[p].tick /\ ~k.echo
<1>1. proc[p] \in Contexts /\ proc[p].tick \in Ticks
  BY TickContext DEF At, TickSteps
<1>2. k = [step |-> "policy", tick |-> proc[p].tick, rev |-> 0, work |-> None,
           policy |-> proc[p].policy, echo |-> FALSE, result |-> None]
  BY DEF Dispatching, Idle
<1>3. k \in Contexts /\ k.step = "policy" /\ k.tick = proc[p].tick
  BY <1>1, <1>2 DEF Contexts, AllSteps, DispatchSteps, Launching, Results
<1>4. QED  BY <1>1, <1>2, <1>3 DEF Served

\* The finish: if p made the claim, nobody's finish becomes a replay of it.
LEMMA FinishIsOK ==
  ASSUME OrchInv, AttemptsKept, NEW p \in Procs, FinishTick(p)
  PROVE  DispatchInv' /\ ServedNext
<1>1. PICK t, r : t = proc[p].tick /\ r = proc[p].result
  OBVIOUS
<1>2. /\ ClaimsTypeOK /\ proc[p] \in Served /\ t \in Ticks /\ ~Dispatches(p)
      /\ UNCHANGED <<job, world>> /\ tick[t].state = "selected" /\ r \in Answers
  <2>1. proc[p].step = "finish" /\ "finish" \in TickSteps
    BY DEF FinishTick, At, TickSteps
  <2>2. QED  BY <1>1, <2>1, TickContext DEF FinishTick, MayFinish, Served
<1>3. /\ tick'[t].state = (IF r = "rejected" THEN "rejected" ELSE "claimed")
      /\ tick'[t].replayed = (r = "replayed")
      /\ \A u \in Ticks \ {t} : tick'[u] = tick[u]
  <2>1. tick \in [Ticks -> TickRows]
    BY <1>2 DEF ClaimsTypeOK
  <2>2. PICK row : row = [tick[t] EXCEPT !.state = (IF r = "rejected" THEN "rejected" ELSE "claimed"),
                                         !.replayed = (r = "replayed")]
    OBVIOUS
  <2>3. tick' = [tick EXCEPT ![t] = row]
    BY <1>1, <1>2, <2>1, <2>2 DEF FinishTick
  <2>4. /\ row.state = (IF r = "rejected" THEN "rejected" ELSE "claimed")
        /\ row.replayed = (r = "replayed")
    BY <1>2, <2>1, <2>2 DEF TickRows
  <2>5. QED  BY <1>2, <2>1, <2>3, <2>4
<1>4. PICK S : S = {q \in Procs : SameFinish(p, q)}
  OBVIOUS
<1>5. PICK k : k = IF r = "rejected" THEN Idle ELSE Dispatching(p)
  OBVIOUS
<1>6. proc' = [q \in Procs |-> IF q = p THEN k
                 ELSE IF q \in S THEN [proc[q] EXCEPT !.echo = TRUE] ELSE proc[q]]
  BY <1>1, <1>4, <1>5 DEF FinishTick, Committed
<1>7. \A q \in Procs \ {p} : q \in S => MayEcho(proc[q], tick'[proc[q].tick])
  <2> SUFFICES ASSUME NEW q \in Procs \ {p}, q \in S
               PROVE  MayEcho(proc[q], tick'[proc[q].tick])
    OBVIOUS
  <2>1. proc[q].step = "finish" /\ proc[q].tick = t /\ proc[q].result = r
    BY <1>1, <1>4 DEF SameFinish, Shares, FinishTick, At
  <2>2. "finish" \notin DispatchSteps
    BY DEF DispatchSteps, Launching, Unlaunching
  <2>3. r # "claimed"
    BY <1>1, <2>1 DEF OrchInv, DispatchInv, ClaimOK, Claimant, FinishTick, At
  <2>4. r # "rejected" => Replayed(tick'[t])
    BY <1>2, <1>3, <2>3 DEF Replayed, Answers
  <2>5. QED  BY <2>1, <2>2, <2>4 DEF MayEcho
<1>8. CASE r = "rejected"
  <2>1. k \in Served /\ ~k.echo /\ k.step = "idle"
    BY <1>5, <1>8, NonServing DEF Idle
  <2>2. Moves(p, k) /\ k.step \notin DispatchSteps
    <3>1. k.step # "finish" /\ k.step \notin DispatchSteps
      BY <2>1 DEF DispatchSteps, Launching, Unlaunching
    <3>2. QED  BY <1>2, <1>6, <1>7, <2>1, <3>1, CommittedMoves
  <2>3. /\ \A u \in Ticks : tick'[u].state = "claimed" <=> tick[u].state = "claimed"
        /\ \A u \in Ticks : tick[u].state = "claimed" => tick'[u] = tick[u]
    BY <1>2, <1>3, <1>8
  <2>4. QED  BY <1>2, <2>2, <2>3, IdleMoveIsOK
<1>9. CASE r # "rejected"
  <2>1. k \in Served /\ k.step = "policy" /\ k.tick = t /\ ~k.echo
    BY <1>1, <1>5, <1>9, DispatchingContext DEF FinishTick
  <2>2. Moves(p, k)
    BY <1>2, <1>6, <1>7, <2>1, CommittedMoves
  <2>3. tick'[t].state = "claimed" /\ tick[t].state # "claimed"
    BY <1>2, <1>3, <1>9
  <2>4. QED  BY <1>2, <1>3, <2>1, <2>2, <2>3, JoinIsOK
<1>10. QED  BY <1>8, <1>9

LEMMA ReplayFinishIsOK ==
  ASSUME OrchInv, AttemptsKept, NEW p \in Procs, ReplayFinish(p)
  PROVE  DispatchInv' /\ ServedNext
<1>1. PICK t, r : t = proc[p].tick /\ r = proc[p].result
  OBVIOUS
<1>2. /\ ClaimsTypeOK /\ proc[p] \in Served /\ t \in Ticks /\ ~Dispatches(p)
      /\ UNCHANGED <<tick, job, world>> /\ proc[p].step = "finish"
  <2>1. proc[p].step = "finish" /\ "finish" \in TickSteps
    BY DEF ReplayFinish, At, TickSteps
  <2>2. QED  BY <1>1, <2>1, TickContext DEF ReplayFinish
<1>3. PICK k : k = IF r = "rejected" THEN Idle ELSE Dispatching(p)
  OBVIOUS
<1>4. proc' = [proc EXCEPT ![p] = k]
  BY <1>1, <1>3 DEF ReplayFinish
<1>5. CASE r = "rejected"
  <2>1. Moves(p, k) /\ k.step \notin DispatchSteps
    BY <1>2, <1>3, <1>4, <1>5, ParkedMoves
  <2>2. QED  BY <1>2, <2>1, IdleMoveIsOK
<1>6. CASE r # "rejected"
  <2>1. k \in Served /\ k.step = "policy" /\ k.tick = t /\ ~k.echo
    BY <1>1, <1>3, <1>6, DispatchingContext DEF ReplayFinish
  <2>2. Moves(p, k)
    BY <1>2, <1>4, <2>1, AloneMoves
  <2>3. Replayed(tick[t])
    BY <1>1, <1>2, <1>6 DEF ReplayFinish, OrchInv, DispatchInv, EchoOK, MayEcho
  <2>4. QED  BY <1>2, <2>1, <2>2, <2>3, JoinIsOK DEF Replayed
<1>7. QED  BY <1>5, <1>6

\* The other steps of a tick.
LEMMA TickStepIsOK ==
  ASSUME OrchInv, AttemptsKept, NEW p \in Procs, TickStep(p)
  PROVE  DispatchInv' /\ ServedNext
<1> USE DEF At
<1>1. ASSUME NEW t \in Ticks, Begin(p, t)  PROVE DispatchInv' /\ ServedNext
  <2>1. ClaimsTypeOK /\ ~Dispatches(p) /\ UNCHANGED <<tick, job, world>>
    BY <1>1 DEF Begin, Dispatches, DispatchSteps, Launching, Unlaunching, OrchInv, ClaimsInv
  <2>2. PICK k : k = [Idle EXCEPT !.step = "pin", !.tick = t, !.rev = run.rev, !.policy = policy]
    OBVIOUS
  <2>3. k = [step |-> "pin", tick |-> t, rev |-> run.rev, work |-> None, policy |-> policy,
             echo |-> FALSE, result |-> None]
    BY <2>2 DEF Idle
  <2>4. k \in Contexts /\ k.step = "pin" /\ k.tick = t
    BY <2>1, <2>3 DEF Contexts, ClaimsTypeOK, Runs, AllSteps, TickSteps, Results
  <2>5. proc' = [proc EXCEPT ![p] = k]
    BY <1>1, <2>2 DEF Begin
  <2>6. Moves(p, k) /\ k.step \notin DispatchSteps
    BY <2>1, <2>4, <2>5, ContextMoves DEF TickSteps
  <2>7. QED  BY <2>1, <2>6, IdleMoveIsOK
<1>2. CASE TakePin(p)
  <2>1. /\ ClaimsTypeOK /\ proc[p] \in Contexts /\ proc[p].tick \in Ticks /\ ~Dispatches(p)
        /\ UNCHANGED <<tick, job, world>>
    BY <1>2, TickContext DEF TakePin, TickSteps
  <2>2. PICK k : k = [proc[p] EXCEPT !.work = run.pending, !.step = "check"]
    OBVIOUS
  <2>3. k \in Contexts /\ k.step = "check" /\ k.tick = proc[p].tick
    BY <2>1, <2>2 DEF Contexts, ClaimsTypeOK, Runs, AllSteps, TickSteps
  <2>4. proc' = [proc EXCEPT ![p] = k]
    BY <1>2, <2>2 DEF TakePin
  <2>5. Moves(p, k) /\ k.step \notin DispatchSteps
    BY <2>1, <2>3, <2>4, ContextMoves DEF TickSteps
  <2>6. QED  BY <2>1, <2>5, IdleMoveIsOK
<1>3. ASSUME proc[p].step \in TickSteps, Return(p), UNCHANGED <<tick, job, world>>
      PROVE  DispatchInv' /\ ServedNext
  <2>1. ClaimsTypeOK /\ ~Dispatches(p)
    BY <1>3, TickContext
  <2>2. Moves(p, Idle) /\ Idle.step \notin DispatchSteps
    BY <1>3, <2>1, ParkedMoves DEF Return
  <2>3. QED  BY <1>3, <2>1, <2>2, IdleMoveIsOK
<1>4. CASE SelectNothing(p)
  BY <1>3, <1>4 DEF SelectNothing, TickSteps
<1>5. ASSUME NEW w \in Works, Select(p, w)  PROVE DispatchInv' /\ ServedNext
  <2>1. PICK t : t = proc[p].tick
    OBVIOUS
  <2>2. /\ ClaimsTypeOK /\ proc[p] \in Contexts /\ t \in Ticks /\ ~Dispatches(p)
        /\ UNCHANGED <<job, world>> /\ tick[t] = NoTick
    BY <1>5, <2>1, TickContext DEF Select, Selectable, TickSteps
  <2>3. PICK k : k = [proc[p] EXCEPT !.work = w, !.rev = run.rev + 1, !.step = "check"]
    OBVIOUS
  <2>4. run.rev + 1 \in Nat
    BY <2>2 DEF ClaimsTypeOK, Runs
  <2>5. k \in Contexts /\ k.step = "check" /\ k.tick = t
    BY <2>1, <2>2, <2>3, <2>4 DEF Contexts, AllSteps, TickSteps
  <2>6. proc' = [proc EXCEPT ![p] = k]
    BY <1>5, <2>3 DEF Select
  <2>7. Moves(p, k) /\ k.step \notin DispatchSteps
    BY <2>2, <2>5, <2>6, ContextMoves DEF TickSteps
  <2>8. PICK row : row = [NoTick EXCEPT !.state = "selected", !.work = w]
    OBVIOUS
  <2>9. tick' = [tick EXCEPT ![t] = row] /\ row.state = "selected"
    BY <1>5, <2>1, <2>8 DEF Select, NoTick
  <2>10. tick[t].state # "claimed"
    BY <2>2, NoneAssumption DEF NoTick
  <2>11. /\ \A u \in Ticks : tick'[u].state = "claimed" <=> tick[u].state = "claimed"
         /\ \A u \in Ticks : tick[u].state = "claimed" => tick'[u] = tick[u]
    BY <2>2, <2>9, <2>10 DEF ClaimsTypeOK
  <2>12. QED  BY <2>2, <2>7, <2>11, IdleMoveIsOK
<1>6. CASE CheckRun(p)
  <2>1. /\ ClaimsTypeOK /\ proc[p] \in Contexts /\ proc[p].tick \in Ticks /\ ~Dispatches(p)
        /\ UNCHANGED <<tick, job, world>> /\ proc[p].step \in TickSteps
    BY <1>6, TickContext DEF CheckRun, TickSteps
  <2>2. CASE Return(p)
    BY <1>3, <2>1, <2>2
  <2>3. CASE Go(p, "claim")
    <3>1. PICK k : k = [proc[p] EXCEPT !.step = "claim"]
      OBVIOUS
    <3>2. k \in Contexts /\ k.step = "claim" /\ k.tick = proc[p].tick
      BY <2>1, <3>1 DEF Contexts, AllSteps, TickSteps
    <3>3. proc' = [proc EXCEPT ![p] = k]
      BY <2>3, <3>1 DEF Go
    <3>4. Moves(p, k) /\ k.step \notin DispatchSteps
      BY <2>1, <3>2, <3>3, ContextMoves DEF TickSteps
    <3>5. QED  BY <2>1, <3>4, IdleMoveIsOK
  <2>4. QED  BY <1>6, <2>2, <2>3 DEF CheckRun
<1>7. ASSUME NEW r \in {"replayed", "rejected"}, At(p, "claim"), Claimed(p, r),
             UNCHANGED <<tick, job, world>>
      PROVE  DispatchInv' /\ ServedNext
  <2>1. ClaimsTypeOK /\ proc[p].tick \in Ticks /\ ~Dispatches(p)
    BY <1>7, TickContext DEF TickSteps
  <2>2. PICK k : k = Answered(p, r)
    OBVIOUS
  <2>3. /\ k \in Contexts /\ k.step = "finish" /\ k.tick = proc[p].tick /\ k.result = r /\ ~k.echo
        /\ k.step \in TickSteps
    BY <1>7, <2>2, AnsweredContext DEF Answers
  <2>4. proc' = [proc EXCEPT ![p] = k]
    BY <1>7, <2>2 DEF Claimed
  <2>5. Moves(p, k) /\ k.step \notin DispatchSteps
    BY <2>1, <2>3, <2>4, ContextMoves
  <2>6. QED  BY <1>7, <2>1, <2>5, IdleMoveIsOK
<1>8. CASE ReplayClaim(p)
  BY <1>7, <1>8 DEF ReplayClaim
<1>9. CASE RefuseClaim(p)
  BY <1>7, <1>9 DEF RefuseClaim
<1>10. CASE FinishRefused(p)
  BY <1>3, <1>10 DEF FinishRefused, TickSteps
<1>11. QED
  BY <1>1, <1>2, <1>4, <1>5, <1>6, <1>8, <1>9, <1>10, ClaimIsOK, FinishIsOK, ReplayFinishIsOK
  DEF TickStep

-----------------------------------------------------------------------------
(* The attempts.                                                           *)

LEMMA AttemptsNext ==
  ASSUME OrchInv, [Next]_vars
  PROVE  attempt' \in [Ticks -> Attempts] /\ AttemptsKept
<1>1. attempt \in [Ticks -> Attempts]
  BY DEF OrchInv, ClaimsInv, ClaimsTypeOK
<1>2. ASSUME NEW t \in Ticks, EndAttempt(t)
      PROVE  attempt' \in [Ticks -> Attempts] /\ AttemptsKept
  <2>1. PICK a : a = [attempt[t] EXCEPT !.current = FALSE]
    OBVIOUS
  <2>2. a \in Attempts /\ a.phase = attempt[t].phase
    BY <1>1, <2>1 DEF Attempts
  <2>3. attempt' = [attempt EXCEPT ![t] = a]
    BY <1>2, <2>1 DEF EndAttempt
  <2>4. QED  BY <1>1, <2>2, <2>3 DEF AttemptsKept
<1>3. ASSUME NEW t \in Ticks, NEW x \in {"accepted", "running"},
             attempt' = [attempt EXCEPT ![t].phase = x]
      PROVE  attempt' \in [Ticks -> Attempts] /\ AttemptsKept
  <2>1. PICK a : a = [attempt[t] EXCEPT !.phase = x]
    OBVIOUS
  <2>2. a \in Attempts /\ a.phase # None
    BY <1>1, <2>1, NoneAssumption DEF Attempts
  <2>3. attempt' = [attempt EXCEPT ![t] = a]
    BY <1>3, <2>1
  <2>4. QED  BY <1>1, <2>2, <2>3 DEF AttemptsKept
<1>4. ASSUME NEW p \in Procs, Claim(p)
      PROVE  attempt' \in [Ticks -> Attempts] /\ AttemptsKept
  <2>1. proc[p] \in Contexts /\ proc[p].tick \in Ticks
    BY <1>4, TickContext DEF Claim, At, TickSteps
  <2>2. PICK a : a = [phase |-> "claimed", work |-> proc[p].work, current |-> TRUE]
    OBVIOUS
  <2>3. a \in Attempts /\ a.phase # None
    BY <2>1, <2>2, NoneAssumption DEF Attempts, Contexts
  <2>4. attempt' = [attempt EXCEPT ![proc[p].tick] = a]
    BY <1>4, <2>2 DEF Claim
  <2>5. QED  BY <1>1, <2>1, <2>3, <2>4 DEF AttemptsKept
<1>5. CASE UNCHANGED attempt
  BY <1>1, <1>5 DEF AttemptsKept
<1>6. ASSUME NEW p \in Procs, TickStep(p)  PROVE UNCHANGED attempt \/ Claim(p)
  BY <1>6 DEF TickStep, Begin, TakePin, SelectNothing, Select, CheckRun, ReplayClaim, RefuseClaim,
              FinishTick, ReplayFinish, FinishRefused
<1>7. ASSUME NEW p \in Procs, LaunchStep(p) \/ SuperviseStep(p)
      PROVE  \/ UNCHANGED attempt
             \/ \E t \in Ticks : EndAttempt(t)
             \/ \E t \in Ticks : \E x \in {"accepted", "running"} :
                  attempt' = [attempt EXCEPT ![t].phase = x]
  <2>1. proc[p].step \in DispatchSteps => proc[p].tick \in Ticks
    BY ServedTick DEF OrchInv, ClaimsInv
  <2>2. CASE ReleaseClaim(p) \/ End(p)
    <3>1. proc[p].step \in DispatchSteps
      BY <2>2 DEF ReleaseClaim, End, At, DispatchSteps, Launching
    <3>2. QED  BY <2>1, <2>2, <3>1 DEF ReleaseClaim, End
  <2>3. CASE Accept(p) \/ Start(p)
    <3>1. proc[p].step \in DispatchSteps
      BY <2>3 DEF Accept, Start, At, DispatchSteps, Launching, Unlaunching
    <3>2. QED  BY <2>1, <2>3, <3>1 DEF Accept, Start, Advance
  <2>4. CASE LaunchStep(p) /\ ~ReleaseClaim(p) /\ ~Accept(p) /\ ~Start(p)
    BY <2>4 DEF LaunchStep, CheckPolicy, Register, AcceptFailed, Accepted, LaunchCheck, Unlaunched,
                Spawn, SpawnFails, SpawnFailed, Record, Unrecorded
  <2>5. CASE SuperviseStep(p) /\ ~End(p)
    BY <2>5 DEF SuperviseStep, SeeStop, SeeExit, Timeout, SeeLoss, LoseContact, Leave, Settle
  <2>6. QED  BY <1>7, <2>2, <2>3, <2>4, <2>5
<1>8. ASSUME NEW d \in Daemons, DaemonStep(d)  PROVE UNCHANGED attempt
  BY <1>8 DEF DaemonStep, Acquire, Recover, RecoverFails, Recovered, Heartbeat, StopDaemon
<1>9. ASSUME NEW t \in Ticks,
             AgentFinishes(t) \/ AttemptLapses(t) \/ \E p \in Procs : ChildExits(t, p)
      PROVE  UNCHANGED attempt \/ EndAttempt(t)
  BY <1>9 DEF AgentFinishes, AttemptLapses, ChildExits
<1>10. QED
  BY <1>2, <1>3, <1>4, <1>5, <1>6, <1>7, <1>8, <1>9
  DEF Next, Crash, ConfigureHarness, Operate, vars

LEMMA DispatchInvNext ==
  ASSUME OrchInv, [Next]_vars
  PROVE  DispatchInv' /\ ServedNext
<1>1. AttemptsKept
  BY AttemptsNext
<1>2. ASSUME NEW p \in Procs, TickStep(p) \/ LaunchStep(p) \/ SuperviseStep(p) \/ Crash(p)
      PROVE  DispatchInv' /\ ServedNext
  BY <1>1, <1>2, TickStepIsOK, DispatchStepIsOK, CrashIsOK
<1>3. ASSUME NEW d \in Daemons, DaemonStep(d)  PROVE DispatchInv' /\ ServedNext
  BY <1>1, <1>3, DaemonStepIsOK
<1>4. CASE ConfigureHarness \/ (\E state \in OperatorStates : Operate(state)) \/ UNCHANGED vars
  BY <1>1, <1>4, UnconcernedIsOK DEF ConfigureHarness, Operate, claims, vars, world
<1>5. ASSUME NEW t \in Ticks,
             AgentFinishes(t) \/ AttemptLapses(t) \/ \E p \in Procs : ChildExits(t, p)
      PROVE  DispatchInv' /\ ServedNext
  BY <1>1, <1>5, ChildExitsIsOK, UnconcernedIsOK DEF AgentFinishes, AttemptLapses, claims
<1>6. QED  BY <1>2, <1>3, <1>4, <1>5 DEF Next

-----------------------------------------------------------------------------
(* The run and its ticks.                                                  *)

\* Only these transactions write the run and the ticks.
LEMMA ClaimsWriters ==
  ASSUME [Next]_vars
  PROVE  \/ UNCHANGED claims
         \/ \E p \in Procs, w \in Works : Select(p, w)
         \/ \E p \in Procs : FinishTick(p)
         \/ \E x \in OperatorStates : Operate(x)
<1>1. ASSUME NEW p \in Procs, TickStep(p)
      PROVE  UNCHANGED claims \/ (\E w \in Works : Select(p, w)) \/ FinishTick(p)
  BY <1>1 DEF TickStep, Begin, TakePin, SelectNothing, CheckRun, Claim, ReplayClaim, RefuseClaim,
              ReplayFinish, FinishRefused, claims
<1>2. ASSUME NEW p \in Procs, LaunchStep(p)  PROVE UNCHANGED claims
  BY <1>2 DEF LaunchStep, CheckPolicy, ReleaseClaim, Register, Accept, AcceptFailed, Accepted, Start,
              LaunchCheck, Unlaunched, Spawn, SpawnFails, SpawnFailed, Record, Unrecorded
<1>3. ASSUME NEW p \in Procs, SuperviseStep(p)  PROVE UNCHANGED claims
  BY <1>3 DEF SuperviseStep, SeeStop, SeeExit, Timeout, SeeLoss, LoseContact, Leave, Settle, End
<1>4. ASSUME NEW d \in Daemons, DaemonStep(d)  PROVE UNCHANGED claims
  BY <1>4 DEF DaemonStep, Acquire, Recover, RecoverFails, Recovered, Heartbeat, StopDaemon
<1>5. QED
  BY <1>1, <1>2, <1>3, <1>4
  DEF Next, Crash, ConfigureHarness, ChildExits, AgentFinishes, AttemptLapses, vars, claims

LEMMA PolicyIsNat ==
  ASSUME ClaimsTypeOK, [Next]_vars
  PROVE  policy' \in Nat
<1>1. ASSUME NEW p \in Procs, TickStep(p) \/ LaunchStep(p)  PROVE UNCHANGED policy
  BY <1>1 DEF TickStep, Begin, TakePin, SelectNothing, Select, CheckRun, Claim, ReplayClaim,
              RefuseClaim, FinishTick, ReplayFinish, FinishRefused, LaunchStep, CheckPolicy, ReleaseClaim, Register,
              Accept, AcceptFailed, Accepted, Start, LaunchCheck, Unlaunched, Spawn, SpawnFails,
              SpawnFailed, Record, Unrecorded
<1>2. ASSUME NEW p \in Procs, SuperviseStep(p) \/ Crash(p)  PROVE UNCHANGED policy
  BY <1>2 DEF SuperviseStep, SeeStop, SeeExit, Timeout, SeeLoss, LoseContact, Leave, Settle, End, Crash
<1>3. ASSUME NEW d \in Daemons, DaemonStep(d)  PROVE UNCHANGED policy
  BY <1>3 DEF DaemonStep, Acquire, Recover, RecoverFails, Recovered, Heartbeat, StopDaemon
<1>4. ConfigureHarness => policy' = policy + 1
  BY DEF ConfigureHarness
<1>5. UNCHANGED policy \/ policy' = policy + 1
  <2>1. ASSUME NEW t \in Ticks,
               AgentFinishes(t) \/ AttemptLapses(t) \/ \E p \in Procs : ChildExits(t, p)
        PROVE  UNCHANGED policy
    BY <2>1 DEF ChildExits, AgentFinishes, AttemptLapses
  <2>2. CASE (\E x \in OperatorStates : Operate(x)) \/ UNCHANGED vars
    BY <2>2 DEF Operate, vars
  <2>3. QED  BY <1>1, <1>2, <1>3, <1>4, <2>1, <2>2 DEF Next
<1>6. QED  BY <1>5 DEF ClaimsTypeOK

LEMMA SelectKeepsClaims ==
  ASSUME OrchInv, NEW p \in Procs, NEW w \in Works, Select(p, w), ServedNext, policy' \in Nat,
         attempt' \in [Ticks -> Attempts]
  PROVE  ClaimsInv'
<1>1. PICK t : t = proc[p].tick
  OBVIOUS
<1>2. t \in Ticks /\ tick[t] = NoTick /\ run.pending = None
  BY <1>1, ServedTick DEF OrchInv, ClaimsInv, Select, Selectable, At, TickSteps
<1>3. /\ run' = [run EXCEPT !.pending = w, !.by = t, !.rev = @ + 1]
      /\ tick' = [tick EXCEPT ![t] = [state |-> "selected", work |-> w, replayed |-> FALSE]]
  <2>1. PICK row : row = [NoTick EXCEPT !.state = "selected", !.work = w]
    OBVIOUS
  <2>2. row = [state |-> "selected", work |-> w, replayed |-> FALSE]
    BY <2>1 DEF NoTick
  <2>3. QED  BY <1>1, <2>1, <2>2 DEF Select
<1>4. ClaimsInv /\ run \in Runs /\ tick \in [Ticks -> TickRows]
  BY DEF OrchInv, ClaimsInv, ClaimsTypeOK
<1>5. run' \in Runs /\ run'.pending = w /\ run'.by = t /\ run'.count = run.count
  <2>1. run.rev + 1 \in Nat
    BY <1>4 DEF Runs
  <2>2. run' = [run EXCEPT !.pending = w, !.by = t, !.rev = run.rev + 1]
    BY <1>3, <1>4 DEF Runs
  <2>3. QED  BY <1>2, <1>4, <2>1, <2>2 DEF Runs
<1>6. /\ tick' \in [Ticks -> TickRows]
      /\ tick'[t].state = "selected" /\ tick'[t].work = w
      /\ \A u \in Ticks \ {t} : tick'[u] = tick[u]
  BY <1>2, <1>3, <1>4 DEF TickRows
<1>7. run.by = None
  BY <1>2, <1>4, NoneAssumption DEF ClaimsInv, PinHasItsTick, SelectedOK
<1>8. PinHasItsTick'
  <2>1. {u \in Ticks : tick[u].state = "selected"} = {}
    BY <1>4, <1>7 DEF ClaimsInv, PinHasItsTick
  <2>2. {u \in Ticks : tick'[u].state = "selected"} = {t}
    BY <1>2, <1>6, <2>1
  <2>3. {run'.by} \ {None} = {t}
    BY <1>2, <1>5, NoneAssumption
  <2>4. QED  BY <1>2, <1>5, <1>6, <2>2, <2>3, NoneAssumption DEF PinHasItsTick
<1>9. SelectedOK'
  BY <1>4, <1>6 DEF ClaimsInv, SelectedOK
<1>10. CountOK'
  <2>1. ClaimedTicks' = ClaimedTicks
    BY <1>2, <1>6, NoneAssumption DEF ClaimedTicks, NoTick
  <2>2. QED  BY <1>4, <1>5, <2>1 DEF ClaimsInv, CountOK
<1>11. QED
  BY <1>4, <1>5, <1>6, <1>8, <1>9, <1>10 DEF ClaimsInv, ClaimsTypeOK, ServedNext

LEMMA FinishKeepsClaims ==
  ASSUME OrchInv, NEW p \in Procs, FinishTick(p), ServedNext, policy' \in Nat,
         attempt' \in [Ticks -> Attempts]
  PROVE  ClaimsInv'
<1>1. PICK t, r, x : /\ t = proc[p].tick /\ r = proc[p].result
                     /\ x = IF r = "rejected" THEN "rejected" ELSE "claimed"
  OBVIOUS
<1>2. /\ t \in Ticks /\ tick[t].state = "selected"
      /\ r # "rejected" => run.count < MaxClaims
  BY <1>1, TickContext DEF FinishTick, MayFinish, At, TickSteps
<1>3. ClaimsInv /\ run \in Runs /\ tick \in [Ticks -> TickRows]
  BY DEF OrchInv, ClaimsInv, ClaimsTypeOK
<1>4. run' = [state |-> IF r # "rejected" /\ run.state = "queued" THEN "running" ELSE run.state,
              pending |-> None, by |-> None,
              count |-> run.count + Counted(r), rev |-> run.rev + 1]
  BY <1>1 DEF FinishTick
<1>5. run.count + Counted(r) \in Nat /\ run.rev + 1 \in Nat
  BY <1>3 DEF Runs, Counted
<1>6. run' \in Runs /\ run'.pending = None /\ run'.by = None /\ run'.count = run.count + Counted(r)
  BY <1>3, <1>4, <1>5 DEF Runs
<1>7. /\ tick' \in [Ticks -> TickRows]
      /\ tick'[t].state = x
      /\ \A u \in Ticks \ {t} : tick'[u] = tick[u]
  <2>1. PICK row : row = [tick[t] EXCEPT !.state = x, !.replayed = (r = "replayed")]
    OBVIOUS
  <2>2. tick' = [tick EXCEPT ![t] = row]
    BY <1>1, <1>2, <1>3, <2>1 DEF FinishTick
  <2>3. x \in {"claimed", "rejected"} /\ (r = "replayed") \in BOOLEAN
    BY <1>1
  <2>4. row \in TickRows /\ row.state = x
    BY <1>2, <1>3, <2>1, <2>3 DEF TickRows
  <2>5. QED  BY <1>2, <1>3, <2>2, <2>4
<1>8. \A u \in Ticks : tick[u].state = "selected" => u = t
  BY <1>2, <1>3 DEF ClaimsInv, PinHasItsTick
<1>9. PinHasItsTick'
  <2>1. {u \in Ticks : tick'[u].state = "selected"} = {}
    BY <1>1, <1>2, <1>7, <1>8
  <2>2. QED  BY <1>6, <2>1 DEF PinHasItsTick
<1>10. SelectedOK'
  BY <1>1, <1>2, <1>3, <1>7 DEF ClaimsInv, SelectedOK
<1>11. CountOK'
  <2>1. IsFiniteSet(ClaimedTicks) /\ t \notin ClaimedTicks
    BY <1>2, TicksAssumption, FS_Subset DEF ClaimedTicks
  <2>2. Cardinality(ClaimedTicks) \in Nat
    BY <2>1, FS_CardinalityType
  <2>3. CASE r # "rejected"
    <3>1. ClaimedTicks' = ClaimedTicks \cup {t}
      BY <1>1, <1>2, <1>7, <2>3 DEF ClaimedTicks
    <3>2. Cardinality(ClaimedTicks \cup {t}) = Cardinality(ClaimedTicks) + 1
      BY <2>1, FS_AddElement
    <3>3. QED
      BY <1>2, <1>3, <1>6, <2>2, <2>3, <3>1, <3>2, BoundAssumption DEF ClaimsInv, CountOK, Counted
  <2>4. CASE r = "rejected"
    <3>1. ClaimedTicks' = ClaimedTicks
      BY <1>1, <1>2, <1>7, <2>1, <2>4 DEF ClaimedTicks
    <3>2. QED  BY <1>3, <1>6, <2>4, <3>1 DEF ClaimsInv, CountOK, Counted, Runs
  <2>5. QED  BY <2>3, <2>4
<1>12. QED
  BY <1>3, <1>6, <1>7, <1>9, <1>10, <1>11 DEF ClaimsInv, ClaimsTypeOK, ServedNext

LEMMA ClaimsInvNext ==
  ASSUME OrchInv, [Next]_vars
  PROVE  ClaimsInv'
<1>1. ServedNext /\ policy' \in Nat /\ attempt' \in [Ticks -> Attempts] /\ ClaimsInv
  BY DispatchInvNext, PolicyIsNat, AttemptsNext DEF OrchInv, ClaimsInv
<1>2. CASE UNCHANGED claims
  <2>1. run' = run /\ tick' = tick
    BY <1>2 DEF claims
  <2>2. QED
    BY <1>1, <2>1 DEF ClaimsInv, ClaimsTypeOK, ServedNext, SelectedOK, PinHasItsTick, CountOK,
                      ClaimedTicks
<1>3. ASSUME NEW x \in OperatorStates, Operate(x)  PROVE ClaimsInv'
  <2>1. run \in Runs /\ tick' = tick /\ run' = [run EXCEPT !.state = x, !.rev = @ + 1]
    BY <1>1, <1>3 DEF Operate, ClaimsInv, ClaimsTypeOK
  <2>2. run' \in Runs /\ run'.pending = run.pending /\ run'.by = run.by /\ run'.count = run.count
    <3>1. run.rev + 1 \in Nat
      BY <2>1 DEF Runs
    <3>2. run' = [run EXCEPT !.state = x, !.rev = run.rev + 1]
      BY <2>1 DEF Runs
    <3>3. QED  BY <2>1, <3>1, <3>2 DEF Runs, OperatorStates
  <2>3. QED
    BY <1>1, <2>1, <2>2 DEF ClaimsInv, ClaimsTypeOK, ServedNext, SelectedOK, PinHasItsTick, CountOK,
                            ClaimedTicks
<1>4. QED  BY <1>1, <1>2, <1>3, ClaimsWriters, SelectKeepsClaims, FinishKeepsClaims

LEMMA OrchInvInit ==
  ASSUME Init
  PROVE  OrchInv
<1>1. ClaimsTypeOK
  <2>1. proc \in [Procs -> Served]
    BY NonServing DEF Init
  <2>2. NoTick \in TickRows /\ NoAttempt \in Attempts
    BY DEF NoTick, TickRows, NoAttempt, Attempts
  <2>3. QED  BY <2>1, <2>2 DEF Init, ClaimsTypeOK, Runs
<1>2. SelectedOK /\ PinHasItsTick
  BY NoneAssumption DEF Init, SelectedOK, PinHasItsTick, NoTick
<1>3. CountOK
  <2>1. ClaimedTicks = {}
    BY NoneAssumption DEF Init, ClaimedTicks, NoTick
  <2>2. QED  BY <2>1, FS_EmptySet, BoundAssumption DEF Init, CountOK
<1>4. WorldTypeOK
  <2>1. NoJob \in JobRows
    BY DEF NoJob, JobRows, JobStates
  <2>2. QED  BY <2>1 DEF Init, WorldTypeOK, ChildRows
<1>5. \A p \in Procs : ~Dispatches(p) /\ ~Supervises(p) /\ ~Claimant(p) /\ ~proc[p].echo
  <2>1. \A p \in Procs : proc[p].step \in {"off", "idle"} /\ proc[p].echo = FALSE
    BY DEF Init, Off, Idle
  <2>2. QED
    BY <2>1 DEF Dispatches, Supervises, Claimant, DispatchSteps, Launching, Unlaunching
<1>6. DispatcherOK /\ SupervisedOK /\ ClaimOK /\ EchoOK
  BY <1>5 DEF DispatcherOK, SupervisedOK, ClaimOK, EchoOK
<1>7. RowsOK /\ AliveOK
  BY NoneAssumption DEF Init, RowsOK, AliveOK
<1>8. OnceOK
  BY NoneAssumption DEF Init, OnceOK, NoTick
<1>9. QED
  BY <1>1, <1>2, <1>3, <1>4, <1>6, <1>7, <1>8 DEF OrchInv, ClaimsInv, DispatchInv

LEMMA OrchInvHolds == Spec => []OrchInv
<1>1. Init => OrchInv
  BY OrchInvInit
<1>2. OrchInv /\ [Next]_vars => OrchInv'
  BY DispatchInvNext, ClaimsInvNext DEF OrchInv
<1>3. QED  BY <1>1, <1>2, PTL DEF Spec

-----------------------------------------------------------------------------
(* The theorems.                                                           *)

\* The pin of the run and its one unfinished tick always name each other,
\* whoever takes over a pin, is refused or dies in between
\* (orchestration_tick_select, orchestration_tick_finish).
THEOREM PinAndTickAgree == Spec => []PinHasItsTick
<1>1. OrchInv => PinHasItsTick
  BY DEF OrchInv, ClaimsInv
<1>2. QED  BY <1>1, OrchInvHolds, PTL

\* Harnesses are only started for ticks whose claim was counted, the count is
\* the number of claimed ticks and never exceeds max_claims, and for one tick
\* at most one harness is under supervision, whatever requests are answered as
\* replays; at most one was started at all when the tick was finished by the
\* caller that made its claim (orchestration_tick_finish, register_process,
\* transition_process).
THEOREM EveryLaunchIsCounted == Spec => []LaunchesAreCounted
<1>1. OrchInv => LaunchesAreCounted
  <2> SUFFICES ASSUME OrchInv  PROVE LaunchesAreCounted
    OBVIOUS
  <2>1. ASSUME NEW t \in Ticks, Launched(t) # {}  PROVE tick[t].state = "claimed"
    BY <2>1 DEF Launched, OrchInv, DispatchInv, RowsOK
  <2>2. ASSUME NEW t \in Ticks, ~tick[t].replayed, NEW p \in Launched(t), NEW q \in Launched(t)
        PROVE  p = q
    <3>1. LaunchedRow(job[t].state, child[t])
      BY <2>1, <2>2 DEF OrchInv, DispatchInv, OnceOK, OnceAt
    <3>2. QED  BY <2>2, <3>1 DEF Launched, LaunchedRow
  <2>3. ASSUME NEW t \in Ticks, NEW p \in Supervisors(t), NEW q \in Supervisors(t)  PROVE p = q
    BY <2>3 DEF Supervisors, Supervises, OrchInv, DispatchInv, SupervisedOK
  <2>4. CountOK
    BY DEF OrchInv, ClaimsInv
  <2>5. QED  BY <2>1, <2>2, <2>3, <2>4 DEF LaunchesAreCounted, CountOK, ClaimedTicks
<1>2. QED  BY <1>1, OrchInvHolds, PTL

\* A harness process that is alive is at hand of its launcher or is known to
\* have lost it, and neither under supervision nor, when its claim was
\* dispatched once, after a kill does its job row say that it is over: no error
\* path of dispatch_claim and no recovery by another daemon lets one go.
THEOREM AliveHasAnAccount == Spec => []AliveIsAccountedFor
<1>1. OrchInv => AliveIsAccountedFor
  <2> SUFFICES ASSUME OrchInv, NEW t \in Ticks, NEW p \in Procs, child[t][p] = "alive"
               PROVE  /\ \/ <<t, p>> \in orphans
                         \/ proc[p].tick = t /\ proc[p].step \in {"record", "supervise"}
                      /\ p \in Supervisors(t) \/ ~tick[t].replayed =>
                           job[t].state \in {"starting", "running", "readback_required", "uncertain"}
    BY DEF AliveIsAccountedFor
  <2>1. <<t, p>> \in orphans \/ (proc[p].tick = t /\ proc[p].step \in {"record", "supervise"})
    BY DEF OrchInv, DispatchInv, AliveOK, AtHand
  <2>2. p \in Supervisors(t) => job[t].state \in Recorded
    BY DEF OrchInv, DispatchInv, SupervisedOK, Supervisors, Supervises
  <2>3. tick[t].state = "claimed"
    BY NoneAssumption DEF OrchInv, DispatchInv, RowsOK
  <2>4. ~tick[t].replayed => job[t].state \in {"starting"} \cup Recorded
    BY <2>3 DEF OrchInv, DispatchInv, OnceOK, OnceAt, LaunchedRow
  <2>5. QED  BY <2>1, <2>2, <2>4 DEF Recorded
<1>2. QED  BY <1>1, OrchInvHolds, PTL
=============================================================================
