---------------------------- MODULE StatusClock ----------------------------
(***************************************************************************)
(* One work item read by the status evaluator while time passes and        *)
(* nothing is written.  The evaluator is pure (StatusPolicy); this module  *)
(* gives it the persisted instants of an item, derives the facts at the    *)
(* clock, and models next_status_change_at, the instant a reader is told   *)
(* to come back at.                                                        *)
(***************************************************************************)
EXTENDS StatusPolicy, FiniteSetsExt

CONSTANTS
  MaxTime,    \* the last instant of the clock
  Waivers     \* expiry instants of gate exceptions; 0 stands for no exception

ASSUME ClockAssumption == MaxTime \in Nat \ {0} /\ Waivers \subseteq Nat

VARIABLES
  item,       \* the persisted item; instants in place of the facts they decide
  now         \* as_of

clockVars == <<item, now>>

\* Attempt, obligation and submission rows that can exist together: a current
\* attempt only on an open item, an obligation or a submission only without one.
\* Sealing a submission leaves a release obligation, resolved before the close.
Executions ==
  [lifecycle : {"open"}, phase : LivePhases, recovery : {"none"},
   submitted : {FALSE}, lease : 1 .. MaxTime + 1]
  \cup [lifecycle : {"open", "cancelled"}, phase : {"none"},
        recovery : {"none", "expired", "other"}, submitted : {FALSE}, lease : {0}]
  \cup [lifecycle : {"open", "cancelled"}, phase : {"none"},
        recovery : {"none", "other"}, submitted : {TRUE}, lease : {0}]
  \cup {[lifecycle |-> "closed", phase |-> "none", recovery |-> "none",
         submitted |-> TRUE, lease |-> 0],
        [lifecycle |-> "draft", phase |-> "none", recovery |-> "none",
         submitted |-> FALSE, lease |-> 0]}

\* An exception names a failed gate.
Gates == {g \in [state : GateStates, waiver : Waivers] :
            g.state # "failed" => g.waiver = 0}

Dispatch == [hold : BOOLEAN, policy : Policies, retryAt : 0 .. MaxTime,
             startAt : 0 .. MaxTime, waits : SUBSET {"prerequisite", "external"},
             kind : {"task", "container"}]

\* What the rows fail to say.  The store reports an item quarantined or valid,
\* never degraded; one fault stops an item as well as several do; an attempt whose
\* claim recorded no source snapshot is not bound.
Defects == [integrity : {"valid", "quarantined"}, fault : {"none"} \cup Faults,
            bound : {TRUE}]
           \cup {[integrity |-> "valid", fault |-> "none", bound |-> FALSE]}

\* A container never has an attempt or a submission.  A gate of a kind the item
\* does not require counts as satisfied.  A review fails on a submission, a
\* technical gate on the evidence of a run, and an item with a failed technical
\* gate is not claimed again.
Items == {i \in [execution : Executions, technical : Gates, review : Gates,
                 dispatch : Dispatch, defect : Defects] :
            /\ i.dispatch.kind = "container" =>
                 /\ i.execution.phase = "none" /\ ~i.execution.submitted
                 /\ i.execution.recovery = "none"
            /\ i.execution.lifecycle = "draft" => i.technical.state # "failed"
            /\ i.review.state = "failed" => i.execution.submitted
            /\ i.technical.state = "failed" =>
                 i.execution.phase \notin {"claimed", "accepted"}}

\* Mutant: only the instant of the deadline itself counts.
ElapsedAtEquality(e, t) == e.phase # "none" /\ t = e.lease

\* expiry_reason: the earlier of the lease and the hard deadline has passed.
Elapsed(e, t) == e.phase # "none" /\ t >= e.lease

\* The facts of the item at instant t.
FactsAt(i, t) ==
  [lifecycle |-> i.execution.lifecycle,
   phase     |-> i.execution.phase,
   elapsed   |-> Elapsed(i.execution, t),
   recovery  |-> i.execution.recovery,
   submitted |-> i.execution.submitted,
   technical |-> i.technical.state,
   review    |-> i.review.state,
   excepted  |-> {k \in GateKinds : i[k].waiver > t},
   hold      |-> i.dispatch.hold,
   policy    |-> i.dispatch.policy,
   retry     |-> i.dispatch.retryAt > t,
   scheduled |-> i.dispatch.startAt > t,
   waiting   |-> "prerequisite" \in i.dispatch.waits,
   external  |-> "external" \in i.dispatch.waits,
   kind      |-> i.dispatch.kind,
   reviewed  |-> i.execution.submitted /\ i.review.state # "open",
   integrity |-> i.defect.integrity,
   faults    |-> {i.defect.fault} \ {"none"},
   bound     |-> i.defect.bound]

Never == MaxTime + 2

\* Mutant: the retry window is left out of the announced instants.
NextStatusChangeNoRetry(i, t) ==
  IF Terminal(EvaluateStatus(FactsAt(i, t))) \/ ExpiryPending(FactsAt(i, t)) THEN Never
  ELSE Min({Never} \cup {at \in {i.execution.lease, i.dispatch.startAt} : at > t})

\* next_status_change_at: no instant once review is required, otherwise the
\* earliest future deadline, retry window or start.
NextStatusChange(i, t) ==
  IF Terminal(EvaluateStatus(FactsAt(i, t))) \/ ExpiryPending(FactsAt(i, t)) THEN Never
  ELSE Min({Never} \cup {at \in {i.execution.lease, i.dispatch.retryAt,
                                 i.dispatch.startAt} : at > t})

ClockInit == item \in Items /\ now = 0

\* Time passes; nothing is written.
Tick == now < MaxTime /\ now' = now + 1 /\ UNCHANGED item

ClockSpec == ClockInit /\ [][Tick]_clockVars

StatusAt(t) == EvaluateStatus(FactsAt(item, t))

Permitted(action, role, owner) ==
  Authorized(FactsAt(item, now), action, role, TRUE, owner)

Someone(action) == \E role \in Roles, owner \in BOOLEAN : Permitted(action, role, owner)

(***************************************************************************)
(* Properties.                                                             *)
(***************************************************************************)
\* The facts stay inside the vocabulary and the precedence always selects a
\* status of it.
ClockTypeOK ==
  /\ item \in Items
  /\ now \in 0 .. MaxTime
  /\ StatusAt(now) \in {"draft", "queued", "scheduled", "ready", "claimed",
                      "in_progress", "needs_verification", "awaiting_review",
                      "complete", "closed", "blocked", "paused", "retry_wait",
                      "expired_review", "cancelled"}

\* The status evaluator's claimable_for_actor and the action evaluator's answer
\* to a claim, written independently, agree for every role and every snapshot.
ClaimableIffAuthorized ==
  \A role \in Roles :
    Eligible(FactsAt(item, now), role) <=> Permitted("claim", role, FALSE)

\* No item that can still be claimed is stuck in what the policy governs, however
\* many obstacles it has at once.  Facts that do not validate leave the operator
\* the repair, and nothing else.  Otherwise a hold can be resolved, an expiry or
\* a recovery recovered, a live attempt released by its owner and a rejected
\* review decided again or excepted, hold or not.  Without a hold, a draft is
\* published, a pause or a retry window lifted, an open prerequisite waived and
\* an undecided or completed proof retried, and a future start is announced to
\* the reader.  An open external wait and rows that cannot be evaluated are no
\* action's to remove: there, as everywhere, the item can be cancelled.
NoDeadEnd ==
  LET f == FactsAt(item, now)
      s == StatusAt(now)
  IN
  ~Terminal(s) =>
    \/ f.integrity # "valid" /\ Someone("repair")
    \/ /\ f.integrity = "valid"
       /\ f.hold => Someone("resolve_hold")
       /\ ExpiryPending(f) \/ f.recovery # "none" => Someone("recover")
       /\ f.phase # "none" => Someone("release")
       /\ s = "blocked" /\ Rejected(f) => Someone("review") /\ Someone("force_gate")
       /\ s = "scheduled" => NextStatusChange(item, now) # Never
       /\ ~f.hold =>
            /\ Someone("cancel")
            /\ s = "draft" => Someone("publish")
            /\ s \in {"paused", "retry_wait"} => Someone("resume_policy")
            /\ s = "queued" /\ f.waiting => Someone("waive_dependency")
            /\ s \in {"needs_verification", "awaiting_review", "complete"}
                 /\ f.phase = "none" => Someone("retry")

\* Time alone never takes an item out of expired_review, and offers it for a
\* claim only when a retry window or a scheduled start opens.
ClockNeverRevives ==
  [][/\ StatusAt(now) = "expired_review" => StatusAt(now') = "expired_review"
     /\ StatusAt(now') = "ready" =>
          StatusAt(now) \in {"ready", "retry_wait", "scheduled"}]_clockVars

\* A reader that comes back at next_status_change_at misses nothing: the status
\* does not change before that instant.
NoEarlyChange ==
  [][StatusAt(now') # StatusAt(now) => NextStatusChange(item, now) <= now']_clockVars

\* The next action a decision advertises can be carried out by somebody.  It
\* does not hold: README, section 5.
NextActionIsPermitted ==
  LET action == NextAction(FactsAt(item, now)) IN
  action # "none" => Someone(action)
=============================================================================
