---------------------------- MODULE StatusPolicy ----------------------------
(***************************************************************************)
(* The pure decision of the domain crate: which status a work item shows   *)
(* (domain/src/status_evaluator.rs) and which actions an actor may take on *)
(* it (domain/src/actions.rs).  The read projection and every write        *)
(* transaction evaluate it on the facts of one snapshot.                   *)
(*                                                                         *)
(* A fact record f has the fields                                          *)
(*   lifecycle   the persisted lifecycle of the work item                  *)
(*   phase       the phase of its current attempt, "none" without one      *)
(*   elapsed     the lease or the hard budget of that attempt has elapsed  *)
(*   recovery    the unresolved recovery obligation: "none", "expired" or  *)
(*               "other" (an expired one is preferred when there are two)  *)
(*   submitted   a sealed submission exists in the current proof generation*)
(*   technical, review                                                     *)
(*               the raw state of the required gates of the two kinds      *)
(*   excepted    the kinds whose failure an unexpired operator exception   *)
(*               covers                                                    *)
(*   hold        an explicit hard hold on the item                         *)
(*   policy      the dispatch policy                                       *)
(*   retry, scheduled                                                      *)
(*               a future retry window, a future start                     *)
(*   waiting, external                                                     *)
(*               an open prerequisite, an open external wait               *)
(*   kind        "task" or "container"                                     *)
(*   reviewed    the current submission has a review event                 *)
(*   integrity   the level of the envelope; "quarantined" also stands for  *)
(*               an envelope that fails validate(), which the level alone  *)
(*               makes fail                                                *)
(*   faults      rows that cannot be evaluated: an invalid (business)      *)
(*               schedule, an invalid external wait, a required gate that  *)
(*               is missing, duplicated or disagrees with its declaration  *)
(*   bound       the execution names its source snapshot and configuration *)
(***************************************************************************)
EXTENDS Integers, Sequences

Lifecycles == {"draft", "open", "closed", "cancelled"}
LivePhases == {"claimed", "accepted", "running", "verifying", "expiry_pending"}
TerminalPhases == {"completed", "failed", "released", "expired", "cancelled"}
Policies == {"automatic", "operator_only", "paused"}
Faults == {"schedule", "external_wait", "gate"}
Roles == {"agent", "operator", "reviewer", "publisher"}

\* expiry_pending: a durable obligation, the clock, or the persisted phase.
ExpiryPending(f) ==
  \/ f.recovery = "expired"
  \/ f.phase # "none" /\ f.elapsed
  \/ f.phase = "expiry_pending"

GateKinds == {"technical", "review"}
GateStates == {"open", "failed", "satisfied"}

\* exception_satisfies: only a failed gate can be excepted.
Excepted(f, k) == f[k] = "failed" /\ k \in f.excepted

\* gaps: required gates that are neither satisfied nor excepted.
Gaps(f) == {k \in GateKinds : f[k] # "satisfied" /\ ~Excepted(f, k)}

Rejected(f) == f.review = "failed"

\* hard_reasons is not empty, so select_hard_reason returns one: a hold, facts
\* that do not validate, a recovery that is not an expiry, a rejected review, a
\* row that cannot be evaluated, an attempt on something that is no task.
HardReason(f) ==
  \/ f.hold
  \/ f.integrity = "quarantined"
  \/ f.recovery = "other"
  \/ Rejected(f) /\ "review" \in Gaps(f)
  \/ f.faults # {}
  \/ f.phase # "none" /\ f.kind # "task"

\* proof_decision
ProofDecision(f) ==
  IF Gaps(f) = {} THEN "complete"
  ELSE IF Gaps(f) = {"review"} THEN "awaiting_review"
  ELSE "needs_verification"

\* The status of an item with a current attempt.
AttemptStatus(f) ==
  [claimed |-> "claimed", accepted |-> "in_progress", running |-> "in_progress",
   verifying |-> ProofDecision(f), expiry_pending |-> "expired_review",
   none |-> "none"][f.phase]

\* The fixed precedence of evaluate_status_inner, first match first.
Precedence(f) ==
  << [when |-> f.lifecycle = "closed",    status |-> "closed"],
     [when |-> f.lifecycle = "cancelled", status |-> "cancelled"],
     [when |-> ExpiryPending(f),          status |-> "expired_review"],
     [when |-> HardReason(f),             status |-> "blocked"],
     [when |-> f.lifecycle = "draft",     status |-> "draft"],
     [when |-> f.phase # "none",          status |-> AttemptStatus(f)],
     [when |-> f.submitted \/ f.technical = "failed",
                                          status |-> ProofDecision(f)],
     [when |-> f.policy = "paused",       status |-> "paused"],
     [when |-> f.retry,                   status |-> "retry_wait"],
     [when |-> f.scheduled,               status |-> "scheduled"],
     [when |-> f.waiting \/ f.external,   status |-> "queued"],
     [when |-> f.kind # "task",           status |-> "queued"],
     [when |-> TRUE,                      status |-> "ready"] >>

EvaluateStatus(f) ==
  LET rules == Precedence(f)
      first == CHOOSE i \in DOMAIN rules :
                 /\ rules[i].when
                 /\ \A j \in 1 .. i - 1 : ~rules[j].when
  IN rules[first].status

\* Mutant: an operator may run ordinary agent work.
EligibleOperatorToo(f, role) ==
  /\ EvaluateStatus(f) = "ready"
  /\ \/ role = "operator"
     \/ f.policy = "automatic" /\ role = "agent"

\* eligibility: claimable_for_actor
Eligible(f, role) ==
  /\ EvaluateStatus(f) = "ready"
  /\ IF f.policy = "operator_only" THEN role = "operator" ELSE role = "agent"

(***************************************************************************)
(* Actions.                                                                *)
(***************************************************************************)
OwnerActions == {"accept", "start", "attach", "submit", "request_review",
                 "finish_close", "close", "stop", "release"}

Actions == OwnerActions \cup
  {"publish", "claim", "review", "recover", "resolve_hold", "force_gate",
   "waive_dependency", "cancel", "reopen", "retry", "pause_policy",
   "resume_policy", "revoke_review", "revoke_exception", "repair"}

\* required_roles
RequiredRoles(f, action) ==
  IF action = "publish" THEN {"publisher", "operator"}
  ELSE IF action = "claim"
       THEN IF f.policy = "operator_only" THEN {"operator"} ELSE {"agent"}
  ELSE IF action \in {"review", "revoke_review"} THEN {"reviewer", "operator"}
  ELSE IF action \in OwnerActions \cup {"recover"} THEN {"agent", "operator"}
  ELSE {"operator"}

\* Mutant: a hold also denies the action that resolves it.
HoldExemptNotResolve == {"stop", "release", "recover", "review", "revoke_review",
                         "revoke_exception", "force_gate", "waive_dependency",
                         "repair"}

\* hold_denial: what stays available while an explicit hold is active.
HoldExempt == {"stop", "release", "recover", "resolve_hold", "review",
               "revoke_review", "revoke_exception", "force_gate",
               "waive_dependency", "repair"}

\* is_recovery_action: what stays available in a degraded envelope.
RecoveryActions == HoldExempt

\* The integrity denials.  A quarantined envelope exempts recover from the first
\* of them, but its facts do not validate, which leaves repair alone.
IntegrityPermits(f, action) ==
  /\ f.integrity = "quarantined" => action = "repair"
  /\ f.integrity = "degraded" => action \in RecoveryActions

\* What needs an execution, or for a receipt a submission, bound to its source.
BindingPermits(f, action) ==
  /\ action \in {"start", "submit"} => f.phase # "none" /\ f.bound
  /\ action = "attach" => (f.phase # "none" /\ f.bound) \/ f.submitted

Terminal(s) == s \in {"closed", "cancelled"}

RetryPermitted(f) ==
  /\ EvaluateStatus(f) \notin {"closed", "cancelled", "draft"}
  /\ f.phase = "none"
  /\ f.recovery = "none"

FinishPermitted(f) ==
  LET s == EvaluateStatus(f) IN
  \/ s \in {"in_progress", "needs_verification", "awaiting_review", "complete"}
  \/ /\ s = "blocked"
     /\ ~Rejected(f)
     /\ f.phase \in {"running", "verifying"} \/ f.submitted

\* status_denial returns None
StatusPermits(f, action) ==
  LET s == EvaluateStatus(f) IN
  \/ action = "publish" /\ s = "draft"
  \/ action = "claim" /\ s = "ready" /\ f.policy # "paused"
  \/ action = "accept" /\ f.phase = "claimed"
  \/ action = "start" /\ f.phase = "accepted"
  \/ action = "submit" /\ f.phase = "running"
  \/ /\ action = "attach"
     /\ \/ f.submitted /\ s \in {"needs_verification", "awaiting_review", "blocked"}
        \/ /\ f.phase \in {"running", "verifying"}
           /\ s \in {"in_progress", "needs_verification"}
  \/ action = "request_review" /\ s = "awaiting_review" /\ f.submitted
  \/ action = "review" /\ s \in {"awaiting_review", "blocked"} /\ f.submitted
  \/ action = "finish_close" /\ FinishPermitted(f)
  \/ action = "close" /\ s = "complete" /\ f.submitted
  \/ action = "stop" /\ (f.phase # "none" \/ f.recovery # "none")
  \/ action = "release" /\ f.phase # "none"
  \/ action = "recover" /\ (s = "expired_review" \/ f.recovery # "none")
  \/ action = "resolve_hold" /\ f.hold
  \/ action = "force_gate" /\ s \in {"blocked", "needs_verification"}
  \/ action = "waive_dependency" /\ s \in {"queued", "blocked"}
  \/ action \in {"cancel", "pause_policy"} /\ ~Terminal(s)
  \/ action = "resume_policy" /\ s \in {"paused", "retry_wait"}
  \/ action = "reopen" /\ Terminal(s)
  \/ action = "retry" /\ RetryPermitted(f)
  \/ action = "revoke_review" /\ f.submitted /\ f.reviewed
  \/ action = "revoke_exception"
  \/ action = "repair" /\ f.integrity # "valid"

\* deny_reason returns None.  session: the caller is bound to a valid session of
\* the project, which every action here needs.  owner: that session and its
\* actor own the execution or, without one, the current submission; with neither
\* nobody does.  Two checks never deny what the store evaluates: it reports every
\* item live and lists every mapped permission as allowed.
Authorized(f, action, role, session, owner) ==
  /\ session
  /\ IntegrityPermits(f, action)
  /\ role \in RequiredRoles(f, action)
  /\ BindingPermits(f, action)
  /\ action \in OwnerActions => owner /\ (f.phase # "none" \/ f.submitted)
  /\ action \in {"review", "revoke_review"} => ~owner
  /\ f.hold => action \in HoldExempt
  /\ StatusPermits(f, action)

\* The action that carries out the next_action a status decision advertises.
NextAction(f) ==
  [draft |-> "publish", claimed |-> "accept", complete |-> "finish_close",
   awaiting_review |-> "request_review", needs_verification |-> "attach",
   expired_review |-> "recover", blocked |-> "resolve_hold", ready |-> "claim",
   in_progress |-> "none", paused |-> "resume_policy", retry_wait |-> "none",
   scheduled |-> "none", queued |-> "none", closed |-> "none",
   cancelled |-> "none"][EvaluateStatus(f)]
=============================================================================
