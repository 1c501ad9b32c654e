--------------------------- MODULE WorkLifecycle ---------------------------
(***************************************************************************)
(* The ownership core of the store crate: sessions, fenced attempts, the   *)
(* reservation projection, the durable resource release protocol, recovery *)
(* obligations, sealed submissions, close intents and the work lifecycle.  *)
(*                                                                         *)
(* Every action is one BEGIN IMMEDIATE transaction, so actions are atomic, *)
(* but the timestamp most of them carry was sampled before the write lock  *)
(* was obtained and may be up to MaxLag behind the clock.                  *)
(*                                                                         *)
(* An action is taken only when every check of its handler passes; checks  *)
(* of single rows are written before the one over the whole snapshot.      *)
(*                                                                         *)
(* Abstracted: project revisions and the operation journal (a replay is a  *)
(* stutter), actors (an attempt is owned by a session), heartbeats and     *)
(* checkpoints (timestamps only), technical gates (satisfied), holds,      *)
(* schedules and dispatch policy (StatusClock explores them), the expiry   *)
(* of exceptions and the dependents of an outcome (OutcomeGraph has them). *)
(***************************************************************************)
EXTENDS StatusPolicy

CONSTANTS
  Works, Sessions, AttemptIds,
  NoWork, NoSession,
  TTLs,           \* lease lengths a claim or a renewal may ask for
  Budgets,        \* hard time limits a claim may ask for
  Dispositions,   \* resource states an operator may resolve a recovery with
  MaxTime,        \* last instant of the clock
  MaxLag,         \* how old a timestamp can be when its transaction starts
  MaxGeneration   \* bound on proof generations

ASSUME BindingAssumption == NoWork \notin Works /\ NoSession \notin Sessions
ASSUME TimeAssumption ==
  /\ TTLs \subseteq Nat \ {0} /\ Budgets \subseteq Nat \ {0}
  /\ MaxTime \in Nat /\ MaxLag \in Nat /\ MaxGeneration \in Nat

VARIABLES
  now,
  session,      \* state of each session
  lifecycle,    \* work_item.lifecycle
  generation,   \* current proof revision of each work item
  reviewed,     \* the pinned profile of the item requires a review gate
  accepted,     \* the item has an accepted outcome nobody invalidated
  exception,    \* its failed review gate has an unrevoked exception of the
                \* current generation
  changed,      \* the receipt rows of its current submission are no longer the
                \* ones that were sealed
  attempt,      \* immutable binding of each attempt row
  phase,        \* attempt.state, "none" while the row does not exist
  current,      \* attempt.current
  lease,        \* attempt.lease_deadline
  reservation,  \* reservation.state, the compatibility projection
  resource,     \* boreal_resource_reservation.state
  obligation,   \* the recovery obligation of the attempt
  sealed,       \* generation in which the attempt sealed a submission, 0: none
  verdict,      \* latest review event of that submission; a result that was
                \* returned and an approval that was revoked fail the gate as
                \* "rejected" does
  intent        \* state of the latest close intent of the attempt

execVars == <<attempt, phase, current, lease, reservation, resource, obligation>>
proofVars == <<sealed, verdict, intent>>
decisionVars == <<accepted, exception, changed>>
workVars == <<lifecycle, generation, reviewed, decisionVars>>
vars == <<now, session, workVars, execVars, proofVars>>

ResourceStates == {"none", "active", "release_pending", "released"}
ObligationStates == {"none", "expired", "other", "resolved"}

AttemptsOf(w) == {a \in AttemptIds : attempt[a].work = w}

Elapsed(a, at) == at >= lease[a] \/ at >= attempt[a].hard

Unresolved(a) == obligation[a] \in {"expired", "other"}

\* Mutant: the live-key index forgets resources whose release is pending.
LiveResourceActiveOnly(a) == resource[a] = "active"

\* The rows of the partial unique index boreal_resource_live_key.
LiveResource(a) == resource[a] \in {"active", "release_pending"}

\* Mutant: a submission of any earlier generation counts.
IsSubmissionEver(w, a) == a \in AttemptsOf(w) /\ sealed[a] # 0

\* current_submission: the submission sealed in the current generation.
IsSubmission(w, a) ==
  a \in AttemptsOf(w) /\ sealed[a] # 0 /\ sealed[a] = generation[w]

\* The snapshot the status and action evaluators are given for w.
Facts(w, at) ==
  LET live == {a \in AttemptsOf(w) : current[a]}
      open == {a \in AttemptsOf(w) : Unresolved(a)}
      sub  == {a \in AttemptsOf(w) : IsSubmission(w, a)}
  IN [lifecycle |-> lifecycle[w],
      phase     |-> IF live = {} THEN "none" ELSE phase[CHOOSE a \in live : TRUE],
      elapsed   |-> \E a \in live : Elapsed(a, at),
      recovery  |-> IF \E a \in open : obligation[a] = "expired" THEN "expired"
                    ELSE IF open # {} THEN "other" ELSE "none",
      submitted |-> sub # {},
      technical |-> "satisfied",
      review    |-> IF ~reviewed[w] \/ \E a \in sub : verdict[a] = "approved"
                      THEN "satisfied"
                    ELSE IF \E a \in sub : verdict[a] = "rejected" THEN "failed"
                    ELSE "open",
      excepted  |-> IF exception[w] THEN {"review"} ELSE {},
      hold |-> FALSE, policy |-> "automatic", retry |-> FALSE, scheduled |-> FALSE,
      waiting |-> FALSE, external |-> FALSE, kind |-> "task",
      reviewed  |-> \E a \in sub : verdict[a] # "none",
      integrity |-> "valid", faults |-> {}, bound |-> TRUE]

Status(w, at) == EvaluateStatus(Facts(w, at))

\* authorize_work_action_in_transaction
Permit(w, at, action, role, owner) ==
  Authorized(Facts(w, at), action, role, TRUE, owner)

\* Timestamps a transaction that starts now may carry.
Sampled == {at \in 0 .. now : now - at <= MaxLag}

Init ==
  /\ now = 0
  /\ session = [s \in Sessions |-> "absent"]
  /\ lifecycle = [w \in Works |-> "draft"]
  /\ generation = [w \in Works |-> 1]
  /\ reviewed \in [Works -> BOOLEAN]
  /\ accepted = [w \in Works |-> FALSE]
  /\ exception = [w \in Works |-> FALSE]
  /\ changed = [w \in Works |-> FALSE]
  /\ attempt = [a \in AttemptIds |->
                  [work |-> NoWork, session |-> NoSession, fence |-> 0, hard |-> 0]]
  /\ phase = [a \in AttemptIds |-> "none"]
  /\ current = [a \in AttemptIds |-> FALSE]
  /\ lease = [a \in AttemptIds |-> 0]
  /\ reservation = [a \in AttemptIds |-> "none"]
  /\ resource = [a \in AttemptIds |-> "none"]
  /\ obligation = [a \in AttemptIds |-> "none"]
  /\ sealed = [a \in AttemptIds |-> 0]
  /\ verdict = [a \in AttemptIds |-> "none"]
  /\ intent = [a \in AttemptIds |-> "none"]

(***************************************************************************)
(* Sessions.                                                               *)
(***************************************************************************)
RegisterSession(s) ==
  /\ session[s] = "absent"
  /\ session' = [session EXCEPT ![s] = "active"]
  /\ UNCHANGED <<now, workVars, execVars, proofVars>>

EndSession(s) ==
  /\ session[s] = "active"
  /\ ~\E a \in AttemptIds : attempt[a].session = s /\ current[a]
  /\ session' = [session EXCEPT ![s] = "ended"]
  /\ UNCHANGED <<now, workVars, execVars, proofVars>>

(***************************************************************************)
(* Claim.                                                                  *)
(***************************************************************************)
\* COALESCE(MAX(fence), 0) + 1
NextFence(w, f) ==
  /\ \A a \in AttemptsOf(w) : attempt[a].fence < f
  /\ f = 1 \/ \E a \in AttemptsOf(w) : f = attempt[a].fence + 1

Fences == {1} \cup {attempt[a].fence + 1 : a \in AttemptIds}

Claim(w, s, a, at, ttl, budget) ==
  /\ phase[a] = "none"
  /\ session[s] = "active"
  /\ ~\E b \in AttemptsOf(w) : Unresolved(b)
  /\ ~\E b \in AttemptIds : current[b] /\ (attempt[b].work = w \/ attempt[b].session = s)
  /\ ~\E b \in AttemptsOf(w) : LiveResource(b)
  /\ Permit(w, at, "claim", "agent", FALSE)
  /\ \E f \in Fences :
       /\ NextFence(w, f)
       /\ attempt' = [attempt EXCEPT ![a] =
                        [work |-> w, session |-> s, fence |-> f, hard |-> at + budget]]
  /\ phase' = [phase EXCEPT ![a] = "claimed"]
  /\ current' = [current EXCEPT ![a] = TRUE]
  /\ lease' = [lease EXCEPT ![a] = at + ttl]
  /\ reservation' = [reservation EXCEPT ![a] = "active"]
  /\ resource' = [resource EXCEPT ![a] = "active"]
  /\ UNCHANGED <<now, session, workVars, obligation, proofVars>>

(***************************************************************************)
(* Mutations of the current attempt by its owner.                          *)
(***************************************************************************)
\* The owner's session is active and the attempt row is the current one.
Owned(a) ==
  /\ phase[a] \in LivePhases
  /\ session[attempt[a].session] = "active"
  /\ current[a]

\* ... no expiry recovery is pending and neither deadline has passed.
Executing(a, at) == Owned(a) /\ phase[a] # "expiry_pending" /\ ~Elapsed(a, at)

Advance(a, at, action, from, to) ==
  /\ Executing(a, at)
  /\ phase[a] = from
  /\ Permit(attempt[a].work, at, action, "agent", TRUE)
  /\ phase' = [phase EXCEPT ![a] = to]
  /\ UNCHANGED <<now, session, workVars, attempt, current, lease, reservation,
                 resource, obligation, proofVars>>

Accept(a, at) == Advance(a, at, "accept", "claimed", "accepted")
Start(a, at)  == Advance(a, at, "start", "accepted", "running")
Submit(a, at) == Advance(a, at, "submit", "running", "verifying")

\* No action is authorized for a renewal; the row checks are the policy.
RenewLease(a, at, ttl) ==
  /\ Executing(a, at)
  /\ at + ttl <= attempt[a].hard
  /\ lease' = [lease EXCEPT ![a] = at + ttl]
  /\ UNCHANGED <<now, session, workVars, attempt, phase, current, reservation,
                 resource, obligation, proofVars>>

\* Mutant: ending the attempt frees the resource at once.
EndAttemptFrees(a, to, reserved, reason) ==
  /\ phase' = [phase EXCEPT ![a] = to]
  /\ current' = [current EXCEPT ![a] = FALSE]
  /\ reservation' = [reservation EXCEPT ![a] = reserved]
  /\ resource' = [resource EXCEPT ![a] = "released"]
  /\ obligation' = [obligation EXCEPT ![a] = reason]
  /\ UNCHANGED <<attempt, lease>>

\* Mutant: no recovery obligation is recorded.
EndAttemptForgets(a, to, reserved, reason) ==
  /\ phase' = [phase EXCEPT ![a] = to]
  /\ current' = [current EXCEPT ![a] = FALSE]
  /\ reservation' = [reservation EXCEPT ![a] = reserved]
  /\ resource' = [resource EXCEPT ![a] = "release_pending"]
  /\ UNCHANGED <<attempt, lease, obligation>>

\* The rows every end of an attempt writes in one transaction: the terminal
\* state, the reservation, the release request and the recovery obligation.
EndAttempt(a, to, reserved, reason) ==
  /\ phase' = [phase EXCEPT ![a] = to]
  /\ current' = [current EXCEPT ![a] = FALSE]
  /\ reservation' = [reservation EXCEPT ![a] = reserved]
  /\ resource' = [resource EXCEPT ![a] = "release_pending"]
  /\ obligation' = [obligation EXCEPT ![a] = reason]
  /\ UNCHANGED <<attempt, lease>>

Release(a, at) ==
  /\ Executing(a, at)
  /\ Permit(attempt[a].work, at, "release", "agent", TRUE)
  /\ EndAttempt(a, "released", "released", "other")
  /\ UNCHANGED <<now, session, workVars, proofVars>>

Fail(a, at) ==
  /\ Executing(a, at)
  /\ phase[a] \in {"running", "verifying"}
  /\ Permit(attempt[a].work, at, "stop", "agent", TRUE)
  /\ EndAttempt(a, "failed", "released", "other")
  /\ UNCHANGED <<now, session, workVars, proofVars>>

\* Cancel with a confirmed stop; passed deadlines do not matter.
Cancel(a, at) ==
  /\ Owned(a)
  /\ Permit(attempt[a].work, at, "stop", "agent", TRUE)
  /\ EndAttempt(a, "cancelled", "released", "other")
  /\ UNCHANGED <<now, session, workVars, proofVars>>

\* Expire with a confirmed stop, by the owner or, through a recover
\* descriptor bound to the current attempt, by an operator.
Expire(a, at, role) ==
  /\ current[a] /\ phase[a] \in LivePhases
  /\ role = "agent" => Owned(a)
  /\ phase[a] = "expiry_pending" \/ Elapsed(a, at)
  /\ Permit(attempt[a].work, at, "recover", role, FALSE)
  /\ EndAttempt(a, "expired", "expired", "expired")
  /\ UNCHANGED <<now, session, workVars, proofVars>>

\* The service's deadline write: fence the attempt, claim nothing about a stop.
ReconcileDeadline(a, at) ==
  /\ current[a]
  /\ phase[a] \in {"claimed", "accepted", "running", "verifying"}
  /\ Elapsed(a, at)
  /\ phase' = [phase EXCEPT ![a] = "expiry_pending"]
  /\ UNCHANGED <<now, session, workVars, attempt, current, lease, reservation,
                 resource, obligation, proofVars>>

\* An operator resolves the obligation of an ended attempt; the disposition
\* "released" is also the acknowledgement the pending release waits for.
ResolveRecovery(a, disposition) ==
  /\ Unresolved(a)
  /\ obligation' = [obligation EXCEPT ![a] = "resolved"]
  /\ IF disposition = "released"
       THEN /\ resource[a] = "release_pending"
            /\ resource' = [resource EXCEPT ![a] = "released"]
       ELSE UNCHANGED resource
  /\ UNCHANGED <<now, session, workVars, attempt, phase, current, lease,
                 reservation, proofVars>>

(***************************************************************************)
(* Submission, review and close.                                           *)
(***************************************************************************)
\* validate_close_subject, with the active session every authorization asks for.
CloseSubject(a) ==
  /\ phase[a] # "none"
  /\ session[attempt[a].session] = "active"
  /\ lifecycle[attempt[a].work] = "open"

\* The first close intent seals the submission and ends execution.
SealAndRequestClose(a, at) ==
  /\ CloseSubject(a)
  /\ current[a] /\ phase[a] \in {"running", "verifying"}
  /\ ~Elapsed(a, at)
  /\ Permit(attempt[a].work, at, "finish_close", "agent", TRUE)
  /\ sealed' = [sealed EXCEPT ![a] = generation[attempt[a].work]]
  /\ intent' = [intent EXCEPT ![a] = "open"]
  /\ EndAttempt(a, "completed", "released", "other")
  /\ UNCHANGED <<now, session, workVars, verdict>>

\* A later intent of the same attempt.  Sealing what is sealed reads it back;
\* changed receipts are sealed as a new submission, which nobody has reviewed.
RequestCloseAgain(a, at) ==
  LET w == attempt[a].work IN
  /\ CloseSubject(a)
  /\ phase[a] = "completed" /\ IsSubmission(w, a)
  /\ Permit(w, at, "finish_close", "agent", TRUE)
  /\ intent' = [intent EXCEPT ![a] = "open"]
  /\ changed' = [changed EXCEPT ![w] = FALSE]
  /\ verdict' = IF changed[w] THEN [verdict EXCEPT ![a] = "none"] ELSE verdict
  /\ UNCHANGED <<now, session, lifecycle, generation, reviewed, accepted, exception,
                 execVars, sealed>>

\* A receipt of the attempt that sealed: whatever it says, and whatever the item's
\* lifecycle (a refused one is retained too), it was not among the sealed.
LateReceipt(a) ==
  /\ IsSubmission(attempt[a].work, a)
  /\ changed' = [changed EXCEPT ![attempt[a].work] = TRUE]
  /\ UNCHANGED <<now, session, lifecycle, generation, reviewed, accepted, exception,
                 execVars, proofVars>>

\* The review gate of w lets the submission of a close: it is not required, the
\* review approved, or it failed with an exception in force.
ReviewStands(w, a) ==
  \/ ~reviewed[w]
  \/ verdict[a] = "approved"
  \/ verdict[a] = "rejected" /\ exception[w]

\* Only the complete, authorized case changes state: with something missing the
\* operation is recorded as rejected and the intent stays open.
FinalizeClose(a, at) ==
  LET w == attempt[a].work IN
  /\ CloseSubject(a)
  /\ intent[a] = "open"
  /\ phase[a] = "completed" /\ IsSubmission(w, a)
  /\ ~changed[w] /\ ReviewStands(w, a)
  /\ Permit(w, at, "close", "agent", TRUE)
  /\ intent' = [intent EXCEPT ![a] = "finalized"]
  /\ lifecycle' = [lifecycle EXCEPT ![w] = "closed"]
  /\ accepted' = [accepted EXCEPT ![w] = TRUE]
  /\ UNCHANGED <<now, session, generation, reviewed, exception, changed, execVars,
                 sealed, verdict>>

RejectClose(a) ==
  /\ CloseSubject(a)
  /\ intent[a] = "open"
  /\ intent' = [intent EXCEPT ![a] = "rejected"]
  /\ UNCHANGED <<now, session, workVars, execVars, sealed, verdict>>

\* commit_review_decision: the pinned review gate of the exact current submission,
\* whose receipts are still the sealed ones.
ReviewSubject(a) ==
  /\ phase[a] # "none"
  /\ IsSubmission(attempt[a].work, a)
  /\ reviewed[attempt[a].work]
  /\ ~changed[attempt[a].work]

Review(a, outcome) ==
  /\ ReviewSubject(a)
  /\ Permit(attempt[a].work, now, "review", "reviewer", FALSE)
  /\ verdict' = [verdict EXCEPT ![a] = outcome]
  /\ UNCHANGED <<now, session, workVars, execVars, sealed, intent>>

\* Mutant: the approval is withdrawn and what was closed on it still stands.
RevokeReviewOnly(a) ==
  /\ ReviewSubject(a)
  /\ verdict[a] = "approved"
  /\ Permit(attempt[a].work, now, "revoke_review", "reviewer", FALSE)
  /\ verdict' = [verdict EXCEPT ![a] = "rejected"]
  /\ UNCHANGED <<now, session, workVars, execVars, sealed, intent>>

\* invalidate_completion_outcomes, for the outcome of the item itself.
InvalidateOutcomes(w) == accepted' = [accepted EXCEPT ![w] = FALSE]

\* An approval can be withdrawn whatever the status, also once the item is closed.
RevokeReview(a) ==
  /\ ReviewSubject(a)
  /\ verdict[a] = "approved"
  /\ Permit(attempt[a].work, now, "revoke_review", "reviewer", FALSE)
  /\ verdict' = [verdict EXCEPT ![a] = "rejected"]
  /\ InvalidateOutcomes(attempt[a].work)
  /\ UNCHANGED <<now, session, lifecycle, generation, reviewed, exception, changed,
                 execVars, sealed, intent>>

\* commit_policy_exception: only the failed review of a sealed submission.
GateException(w) ==
  /\ Facts(w, now).submitted /\ Facts(w, now).review = "failed"
  /\ Permit(w, now, "force_gate", "operator", FALSE)
  /\ exception' = [exception EXCEPT ![w] = TRUE]
  /\ UNCHANGED <<now, session, lifecycle, generation, reviewed, accepted, changed,
                 execVars, proofVars>>

\* The last row decides.  (Revoking a row that no longer does, an earlier one or one
\* of an earlier generation, only invalidates; OutcomeGraph keeps every row.)
RevokeException(w) ==
  /\ exception[w]
  /\ Permit(w, now, "revoke_exception", "operator", FALSE)
  /\ exception' = [exception EXCEPT ![w] = FALSE]
  /\ InvalidateOutcomes(w)
  /\ UNCHANGED <<now, session, lifecycle, generation, reviewed, changed, execVars,
                 proofVars>>

(***************************************************************************)
(* The lifecycle commands of apply_completion_command; they sample the     *)
(* clock after the lock.                                                   *)
(***************************************************************************)
NoLiveAttempt(w) == ~\E a \in AttemptsOf(w) : current[a]

Publish(w) ==
  /\ NoLiveAttempt(w)
  /\ Permit(w, now, "publish", "operator", FALSE)
  /\ lifecycle' = [lifecycle EXCEPT ![w] = "open"]
  /\ UNCHANGED <<now, session, generation, reviewed, decisionVars, execVars, proofVars>>

CancelWork(w) ==
  /\ NoLiveAttempt(w)
  /\ Permit(w, now, "cancel", "operator", FALSE)
  /\ lifecycle' = [lifecycle EXCEPT ![w] = "cancelled"]
  /\ UNCHANGED <<now, session, generation, reviewed, decisionVars, execVars, proofVars>>

\* Reopen and retry start a proof generation.  Nothing of the old one is touched,
\* but its submission and its exceptions are not the current ones any more.
NewGeneration(w, action) ==
  /\ NoLiveAttempt(w)
  /\ ~\E a \in AttemptsOf(w) : Unresolved(a)
  /\ generation[w] < MaxGeneration
  /\ Permit(w, now, action, "operator", FALSE)
  /\ lifecycle' = [lifecycle EXCEPT ![w] = "open"]
  /\ generation' = [generation EXCEPT ![w] = @ + 1]
  /\ InvalidateOutcomes(w)
  /\ exception' = [exception EXCEPT ![w] = FALSE]
  /\ changed' = [changed EXCEPT ![w] = FALSE]
  /\ UNCHANGED <<now, session, reviewed, execVars, proofVars>>

Reopen(w) == NewGeneration(w, "reopen")
Retry(w) == NewGeneration(w, "retry")

Tick ==
  /\ now < MaxTime
  /\ now' = now + 1
  /\ UNCHANGED <<session, workVars, execVars, proofVars>>

SessionStep == \E s \in Sessions : RegisterSession(s) \/ EndSession(s)

ClaimStep ==
  \E w \in Works, s \in Sessions, a \in AttemptIds, at \in Sampled,
     ttl \in TTLs, budget \in Budgets : Claim(w, s, a, at, ttl, budget)

OwnerStep ==
  \E a \in AttemptIds, at \in Sampled :
    \/ Accept(a, at)
    \/ Start(a, at)
    \/ Submit(a, at)
    \/ \E ttl \in TTLs : RenewLease(a, at, ttl)
    \/ Release(a, at)
    \/ Fail(a, at)
    \/ Cancel(a, at)
    \/ SealAndRequestClose(a, at)
    \/ RequestCloseAgain(a, at)
    \/ LateReceipt(a)
    \/ FinalizeClose(a, at)
    \/ RejectClose(a)

ServiceStep ==
  \E a \in AttemptIds, at \in Sampled :
    \/ ReconcileDeadline(a, at)
    \/ \E role \in {"agent", "operator"} : Expire(a, at, role)

OperatorStep ==
  \/ \E a \in AttemptIds : \/ \E d \in Dispositions : ResolveRecovery(a, d)
                           \/ \E o \in {"approved", "rejected"} : Review(a, o)
                           \/ RevokeReview(a)
  \/ \E w \in Works : \/ GateException(w) \/ RevokeException(w)
                      \/ Publish(w) \/ CancelWork(w) \/ Reopen(w) \/ Retry(w)

Next == SessionStep \/ ClaimStep \/ OwnerStep \/ ServiceStep \/ OperatorStep \/ Tick

Spec == Init /\ [][Next]_vars

(***************************************************************************)
(* Properties.                                                             *)
(***************************************************************************)
\* Every row stays inside its column's vocabulary.
TypeOK ==
  /\ now \in Nat
  /\ session \in [Sessions -> {"absent", "active", "ended"}]
  /\ lifecycle \in [Works -> Lifecycles]
  /\ generation \in [Works -> Nat]
  /\ reviewed \in [Works -> BOOLEAN]
  /\ accepted \in [Works -> BOOLEAN]
  /\ exception \in [Works -> BOOLEAN]
  /\ changed \in [Works -> BOOLEAN]
  /\ attempt \in [AttemptIds -> [work : Works \cup {NoWork},
                                 session : Sessions \cup {NoSession},
                                 fence : Nat, hard : Nat]]
  /\ phase \in [AttemptIds -> {"none"} \cup LivePhases \cup TerminalPhases]
  /\ current \in [AttemptIds -> BOOLEAN]
  /\ lease \in [AttemptIds -> Nat]
  /\ reservation \in [AttemptIds -> {"none", "active", "expired", "released"}]
  /\ resource \in [AttemptIds -> ResourceStates]
  /\ obligation \in [AttemptIds -> ObligationStates]
  /\ sealed \in [AttemptIds -> Nat]
  /\ verdict \in [AttemptIds -> {"none", "approved", "rejected"}]
  /\ intent \in [AttemptIds -> {"none", "open", "finalized", "rejected"}]

\* The four records of one execution move together whatever ends it: a live
\* phase, the current flag, an active reservation and an active resource, or
\* none of them; and an ended attempt always left an obligation behind.
RowsAgree ==
  \A a \in AttemptIds :
    /\ phase[a] \in LivePhases <=> current[a]
    /\ reservation[a] = "active" <=> current[a]
    /\ resource[a] = "active" <=> current[a]
    /\ phase[a] \in TerminalPhases <=> obligation[a] # "none"
    /\ phase[a] = "none" <=> resource[a] = "none"
    /\ phase[a] = "none" <=> attempt[a].work = NoWork
    /\ resource[a] = "released" => obligation[a] = "resolved"

\* The worktree of a work item passes to a successor only after every earlier
\* attempt has ended and the release of its resource was acknowledged, even
\* when an operator resolves a recovery without acknowledging the release.
ReuseNeedsAcknowledgement ==
  \A a, b \in AttemptIds :
    /\ phase[a] # "none" /\ phase[b] # "none"
    /\ attempt[a].work = attempt[b].work
    /\ attempt[a].fence < attempt[b].fence
    => phase[a] \in TerminalPhases /\ resource[a] = "released"

\* Two attempts of one work item never share a fence.
FencesAreUnique ==
  \A a, b \in AttemptIds :
    /\ a # b /\ phase[a] # "none" /\ phase[b] # "none"
    /\ attempt[a].work = attempt[b].work
    => attempt[a].fence # attempt[b].fence

\* A session has at most one current attempt and none once it has ended.
SessionsOwnLittle ==
  \A a, b \in AttemptIds :
    current[a] =>
      /\ session[attempt[a].session] = "active"
      /\ current[b] /\ attempt[b].session = attempt[a].session => a = b

\* A closed work item has a submission of its current generation with a finalized
\* intent, nobody executes it and its worktree is settled.  While its outcome is
\* accepted it is closed and the review that close rested on still stands: an
\* approval, or an exception to a failed review, that is withdrawn takes the
\* outcome with it, also when the item closed before.
ClosedIsProved ==
  \A w \in Works :
    /\ lifecycle[w] = "closed" =>
         /\ \E a \in AttemptsOf(w) :
              /\ sealed[a] = generation[w] /\ intent[a] = "finalized"
              /\ accepted[w] => ReviewStands(w, a)
         /\ \A a \in AttemptsOf(w) : ~current[a] /\ obligation[a] = "resolved"
    /\ accepted[w] => lifecycle[w] = "closed"

\* An intent of an earlier generation never closes the work: the step that closes
\* it rests on a submission sealed since the last reopen or retry.
StaleIntentNeverCloses ==
  [][\A w \in Works : lifecycle[w] # "closed" /\ lifecycle'[w] = "closed" =>
       \E a \in AttemptsOf(w) :
         /\ intent[a] = "open" /\ intent'[a] = "finalized"
         /\ sealed[a] = generation[w]
         /\ \A b \in AttemptsOf(w) : attempt[b].fence <= attempt[a].fence]_vars

\* The worktree promise, implemented by the resource rows.
FencesIn(w, state) ==
  {attempt[a].fence : a \in {b \in AttemptsOf(w) : resource[b] \in state}}

Lease == INSTANCE WorktreeLease WITH
  granted   <- [w \in Works |-> FencesIn(w, ResourceStates)],
  held      <- [w \in Works |-> FencesIn(w, {"active"})],
  releasing <- [w \in Works |-> FencesIn(w, {"release_pending"})]

\* Every behaviour of the store is one of the worktree lease.
ImplementsWorktreeLease == Lease!LeaseSpec

\* A work item shown as ready can be claimed: no earlier attempt still occupies
\* its worktree.  It does not hold: README, section 5.
ReadyIsClaimable ==
  \A w \in Works : Status(w, now) = "ready" =>
    ~\E a \in AttemptsOf(w) : LiveResource(a)
=============================================================================
