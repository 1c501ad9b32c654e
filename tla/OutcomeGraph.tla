---------------------------- MODULE OutcomeGraph ----------------------------
(***************************************************************************)
(* Work items that depend on each other's accepted outcomes: the edges of  *)
(* the dependency table, the claim that consumes the outcomes of the       *)
(* prerequisites, the accepted outcome a close records and the commands    *)
(* that withdraw it again (store/src/completion.rs, status_facts.rs,       *)
(* acceptance.rs and the dependency commands of store/src/lib.rs).         *)
(*                                                                         *)
(* Every action is one BEGIN IMMEDIATE transaction.  Commands carry the    *)
(* project revision they were prepared at and are refused at any other, so *)
(* that a stale request is a stutter.                                      *)
(*                                                                         *)
(* Abstracted: accept and start of a claimed attempt, and the recovery an  *)
(* ended attempt leaves, which is resolved in the step that ends it        *)
(* (WorkLifecycle interleaves both); how a receipt comes about             *)
(* (VerifierRun); sessions and principals, taken as the ones an action     *)
(* asks for.  Every item requires one technical and one review gate        *)
(* (WorkLifecycle also has items without a review gate).  Entity           *)
(* revisions, to which waivers and exceptions are bound besides the proof  *)
(* generation, are constant: no command advances one.                      *)
(***************************************************************************)
EXTENDS StatusPolicy

CONSTANTS
  Works,
  MaxGeneration,   \* bound on the proof generations of one item
  MaxExceptions,   \* bound on the rows of boreal_policy_exception
  MaxEdits,        \* bound on edge edits
  MaxClaims,       \* bound on claims
  MaxCommands,     \* bound on cancel, reopen, retry and changed results
  MaxLate          \* bound on receipts that come after the submission

ASSUME BoundAssumption ==
  /\ MaxGeneration \in Nat \ {0} /\ MaxExceptions \in Nat
  /\ MaxEdits \in Nat /\ MaxClaims \in Nat /\ MaxCommands \in Nat
  /\ MaxLate \in Nat

VARIABLES
  lifecycle,    \* work_item.lifecycle
  generation,   \* boreal_entity_revision.proof_revision
  edges,        \* dependency: <<prerequisite, dependent>>
  gate,         \* gate.state of the technical gate, one row per work item
  attempt,      \* the latest attempt of each item, with its submission
  outcome,      \* boreal_accepted_outcome and its invalidation, per generation
  exceptions,   \* boreal_policy_exception in row order, with revocations
  edits, claims, commands, late

proofVars == <<lifecycle, generation, gate, attempt, outcome>>
bounds == <<edits, claims, commands, late>>
vars == <<proofVars, edges, exceptions, bounds>>

Generations == 1 .. MaxGeneration

NoAttempt == [phase |-> "none", sealed |-> 0, receipt |-> "open",
              verdict |-> "none", intent |-> "none", changed |-> FALSE]

\* changed: the receipts of the attempt are no longer the ones that were sealed.
Attempts == [phase : {"none", "running", "completed", "released"},
             sealed : {0} \cup Generations, receipt : GateStates,
             verdict : {"none", "approved", "rejected", "revoked"},
             intent : {"none", "open", "finalized"}, changed : BOOLEAN]

\* A gate exception, with the kind of its gate, or the waiver of an edge.
Exceptions == [kind : GateKinds \cup {"dependency"}, work : Works, target : Works,
               generation : Generations,
               state : {"active", "expired", "revoked"}]

Init ==
  /\ lifecycle = [w \in Works |-> "open"]
  /\ generation = [w \in Works |-> 1]
  /\ edges = {}
  /\ gate = [w \in Works |-> "open"]
  /\ attempt = [w \in Works |-> NoAttempt]
  /\ outcome = [w \in Works |-> [g \in Generations |-> "none"]]
  /\ exceptions = << >>
  /\ edits = 0 /\ claims = 0 /\ commands = 0 /\ late = 0

(***************************************************************************)
(* The facts of one snapshot.                                              *)
(***************************************************************************)
Running(w) == attempt[w].phase = "running"

\* current_submission
Submitted(w) == attempt[w].sealed = generation[w]

HasAcceptedOutcome(p) ==
  lifecycle[p] = "closed" /\ outcome[p][generation[p]] = "accepted"

\* The rows of one kind and target in the current generation of w.
RowsFor(kind, w, target) ==
  {i \in DOMAIN exceptions :
     /\ exceptions[i].kind = kind /\ exceptions[i].work = w
     /\ exceptions[i].target = target
     /\ exceptions[i].generation = generation[w]}

\* active_dependency_waiver: any row in force.
Waived(p, w) ==
  \E i \in RowsFor("dependency", w, p) : exceptions[i].state = "active"

\* current_gate_exception: the last row decides, also when it is revoked.
GateExcepted(w, k) ==
  LET rows == RowsFor(k, w, w) IN
  \E i \in rows : exceptions[i].state = "active" /\ \A j \in rows : j <= i

Waiting(w) ==
  \E p \in Works : <<p, w>> \in edges /\ ~HasAcceptedOutcome(p) /\ ~Waived(p, w)

\* With an execution or a current submission the gate is read from the receipts
\* of that attempt, otherwise from the row kept per work item.
Technical(w) == IF Running(w) \/ Submitted(w) THEN attempt[w].receipt ELSE gate[w]

ReviewState(w) ==
  IF ~Submitted(w) \/ attempt[w].verdict = "none" THEN "open"
  ELSE IF attempt[w].verdict = "approved" THEN "satisfied" ELSE "failed"

Facts(w) ==
  [lifecycle |-> lifecycle[w],
   phase     |-> IF Running(w) THEN "running" ELSE "none",
   elapsed   |-> FALSE, recovery |-> "none",
   submitted |-> Submitted(w),
   technical |-> Technical(w), review |-> ReviewState(w),
   excepted  |-> {k \in GateKinds : GateExcepted(w, k)},
   hold      |-> FALSE, policy |-> "automatic", retry |-> FALSE,
   scheduled |-> FALSE, waiting |-> Waiting(w), external |-> FALSE,
   kind      |-> "task",
   reviewed  |-> Submitted(w) /\ attempt[w].verdict # "none",
   integrity |-> "valid", faults |-> {}, bound |-> TRUE]

Status(w) == EvaluateStatus(Facts(w))

\* authorize_work_action_in_transaction
Permit(w, action, role, owner) == Authorized(Facts(w), action, role, TRUE, owner)

(***************************************************************************)
(* Edges.                                                                  *)
(***************************************************************************)
\* What w reaches: the least set with w that is closed under the edges.
Reachable(w) ==
  {x \in Works :
     \A S \in SUBSET Works :
       /\ w \in S
       /\ \A e \in edges : e[1] \in S => e[2] \in S
       => x \in S}

\* Mutant: only the reverse of the new edge is looked for.
DependencyWouldCycleDirect(p, d) == <<d, p>> \in edges

\* dependency_would_cycle, and the trigger dependency_no_cycle.
DependencyWouldCycle(p, d) == p \in Reachable(d)

\* No lifecycle is asked for: a running or closed item may get a prerequisite.
AddDependency(p, d) ==
  /\ p # d /\ <<p, d>> \notin edges
  /\ ~DependencyWouldCycle(p, d)
  /\ edits < MaxEdits
  /\ edges' = edges \cup {<<p, d>>}
  /\ edits' = edits + 1
  /\ UNCHANGED <<proofVars, exceptions, claims, commands, late>>

\* Waivers of the edge stay.
RemoveDependency(p, d) ==
  /\ <<p, d>> \in edges
  /\ edits < MaxEdits
  /\ edges' = edges \ {<<p, d>>}
  /\ edits' = edits + 1
  /\ UNCHANGED <<proofVars, exceptions, claims, commands, late>>

(***************************************************************************)
(* Execution, submission and close.                                        *)
(***************************************************************************)
Claim(w) ==
  /\ claims < MaxClaims
  /\ Permit(w, "claim", "agent", FALSE)
  /\ attempt' = [attempt EXCEPT ![w] = [NoAttempt EXCEPT !.phase = "running"]]
  /\ claims' = claims + 1
  /\ UNCHANGED <<lifecycle, generation, gate, outcome, edges, exceptions, edits, commands, late>>

\* insert_receipt also sets the row kept per work item.  A submitted item that is
\* open still takes receipts; they are not among the sealed ones.  (A refused
\* receipt is kept too, and on a closed item only denies its revocations.)
RecordReceipt(w, result) ==
  /\ Running(w) \/ (Submitted(w) /\ lifecycle[w] = "open")
  /\ attempt' = [attempt EXCEPT ![w] = [@ EXCEPT !.receipt = result,
                                                 !.changed = Submitted(w)]]
  /\ gate' = [gate EXCEPT ![w] = result]
  /\ Submitted(w) => late < MaxLate
  /\ late' = IF Submitted(w) THEN late + 1 ELSE late
  /\ UNCHANGED <<lifecycle, generation, outcome, edges, exceptions, edits, claims, commands>>

\* bind_final_result: a changed result starts a proof generation.
BindResult(w) ==
  /\ Running(w) /\ generation[w] < MaxGeneration /\ commands < MaxCommands
  /\ generation' = [generation EXCEPT ![w] = @ + 1]
  /\ commands' = commands + 1
  /\ UNCHANGED <<lifecycle, gate, attempt, outcome, edges, exceptions, edits, claims, late>>

\* The attempt ends without a submission.
Release(w) ==
  /\ Running(w)
  /\ Permit(w, "release", "agent", TRUE)
  /\ attempt' = [attempt EXCEPT ![w].phase = "released"]
  /\ UNCHANGED <<lifecycle, generation, gate, outcome, edges, exceptions, bounds>>

SealAndRequestClose(w) ==
  /\ Running(w)
  /\ Permit(w, "finish_close", "agent", TRUE)
  /\ attempt' = [attempt EXCEPT ![w] = [@ EXCEPT !.phase = "completed",
                                                 !.sealed = generation[w],
                                                 !.intent = "open"]]
  /\ UNCHANGED <<lifecycle, generation, gate, outcome, edges, exceptions, bounds>>

\* Sealing again what is sealed reads it back; changed receipts are sealed as a
\* new submission, which nobody has reviewed.
SealAgain(w) ==
  /\ Submitted(w) /\ attempt[w].changed
  /\ Permit(w, "finish_close", "agent", TRUE)
  /\ attempt' = [attempt EXCEPT ![w] = [@ EXCEPT !.changed = FALSE,
                                                 !.verdict = "none",
                                                 !.intent = "open"]]
  /\ UNCHANGED <<lifecycle, generation, gate, outcome, edges, exceptions, bounds>>

\* Gaps leave the intent open; the close and the outcome are one transaction.
FinalizeClose(w) ==
  /\ attempt[w].intent = "open" /\ Submitted(w) /\ ~attempt[w].changed
  /\ Gaps(Facts(w)) = {}
  /\ Permit(w, "close", "agent", TRUE)
  /\ attempt' = [attempt EXCEPT ![w].intent = "finalized"]
  /\ lifecycle' = [lifecycle EXCEPT ![w] = "closed"]
  /\ outcome' = [outcome EXCEPT ![w][generation[w]] = "accepted"]
  /\ UNCHANGED <<generation, gate, edges, exceptions, bounds>>

(***************************************************************************)
(* Decisions about a submission.                                           *)
(***************************************************************************)
Review(w, verdict) ==
  /\ Submitted(w) /\ ~attempt[w].changed
  /\ Permit(w, "review", "reviewer", FALSE)
  /\ attempt' = [attempt EXCEPT ![w].verdict = verdict]
  /\ UNCHANGED <<lifecycle, generation, gate, outcome, edges, exceptions, bounds>>

\* invalidate_completion_outcomes: every outcome of the item, of any generation.
Invalidated(w) ==
  [g \in Generations |->
     IF outcome[w][g] = "accepted" THEN "invalidated" ELSE outcome[w][g]]

\* The action gate asks for a submission with a review, whatever the status.
RevokeReview(w) ==
  /\ Submitted(w) /\ attempt[w].verdict = "approved" /\ ~attempt[w].changed
  /\ Permit(w, "revoke_review", "reviewer", FALSE)
  /\ attempt' = [attempt EXCEPT ![w].verdict = "revoked"]
  /\ outcome' = [outcome EXCEPT ![w] = Invalidated(w)]
  /\ UNCHANGED <<lifecycle, generation, gate, edges, exceptions, bounds>>

Granted(kind, w, target) ==
  Append(exceptions, [kind |-> kind, work |-> w, target |-> target,
                      generation |-> generation[w], state |-> "active"])

\* Only a failed gate of a sealed submission can be excepted.
GateException(w, k) ==
  /\ Len(exceptions) < MaxExceptions
  /\ Submitted(w) /\ Facts(w)[k] = "failed"
  /\ Permit(w, "force_gate", "operator", FALSE)
  /\ exceptions' = Granted(k, w, w)
  /\ UNCHANGED <<proofVars, edges, bounds>>

WaiveDependency(p, w) ==
  /\ Len(exceptions) < MaxExceptions
  /\ <<p, w>> \in edges
  /\ Permit(w, "waive_dependency", "operator", FALSE)
  /\ exceptions' = Granted("dependency", w, p)
  /\ UNCHANGED <<proofVars, edges, bounds>>

\* Mutant: the exception is revoked and what was closed on it still stands.
RevokeExceptionOnly(i) ==
  /\ exceptions[i].state # "revoked"
  /\ Permit(exceptions[i].work, "revoke_exception", "operator", FALSE)
  /\ exceptions' = [exceptions EXCEPT ![i].state = "revoked"]
  /\ UNCHANGED <<proofVars, edges, bounds>>

\* An expired exception, or one of an earlier generation, can be revoked too.
RevokeException(i) ==
  /\ exceptions[i].state # "revoked"
  /\ Permit(exceptions[i].work, "revoke_exception", "operator", FALSE)
  /\ exceptions' = [exceptions EXCEPT ![i].state = "revoked"]
  /\ outcome' = [outcome EXCEPT ![exceptions[i].work] = Invalidated(exceptions[i].work)]
  /\ UNCHANGED <<lifecycle, generation, gate, attempt, edges, bounds>>

\* The clock passes expires_at_ms; an exception without one never takes this step.
ExceptionExpires(i) ==
  /\ exceptions[i].state = "active"
  /\ exceptions' = [exceptions EXCEPT ![i].state = "expired"]
  /\ UNCHANGED <<proofVars, edges, bounds>>

(***************************************************************************)
(* Lifecycle commands.                                                     *)
(***************************************************************************)
CancelWork(w) ==
  /\ ~Running(w) /\ commands < MaxCommands
  /\ Permit(w, "cancel", "operator", FALSE)
  /\ lifecycle' = [lifecycle EXCEPT ![w] = "cancelled"]
  /\ commands' = commands + 1
  /\ UNCHANGED <<generation, gate, attempt, outcome, edges, exceptions, edits, claims, late>>

\* reopen and retry; gate rows, receipts, reviews and edges stay as they are.
NewGeneration(w, action) ==
  /\ ~Running(w) /\ commands < MaxCommands /\ generation[w] < MaxGeneration
  /\ Permit(w, action, "operator", FALSE)
  /\ outcome' = [outcome EXCEPT ![w] = Invalidated(w)]
  /\ lifecycle' = [lifecycle EXCEPT ![w] = "open"]
  /\ generation' = [generation EXCEPT ![w] = @ + 1]
  /\ commands' = commands + 1
  /\ UNCHANGED <<gate, attempt, edges, exceptions, edits, claims, late>>

EdgeStep ==
  \E p, d \in Works : AddDependency(p, d) \/ RemoveDependency(p, d)

OwnerStep ==
  \E w \in Works :
    \/ Claim(w)
    \/ \E r \in {"satisfied", "failed"} : RecordReceipt(w, r)
    \/ BindResult(w)
    \/ Release(w)
    \/ SealAndRequestClose(w)
    \/ SealAgain(w)
    \/ FinalizeClose(w)

DecisionStep ==
  \/ \E w \in Works :
       \/ \E v \in {"approved", "rejected"} : Review(w, v)
       \/ RevokeReview(w)
       \/ \E k \in GateKinds : GateException(w, k)
       \/ \E p \in Works : WaiveDependency(p, w)
  \/ \E i \in DOMAIN exceptions : RevokeException(i) \/ ExceptionExpires(i)

LifecycleStep ==
  \E w \in Works : \/ CancelWork(w)
                   \/ NewGeneration(w, "reopen")
                   \/ NewGeneration(w, "retry")

Next == EdgeStep \/ OwnerStep \/ DecisionStep \/ LifecycleStep

Spec == Init /\ [][Next]_vars

(***************************************************************************)
(* Properties.                                                             *)
(***************************************************************************)
\* Every row stays inside its vocabulary.
TypeOK ==
  /\ lifecycle \in [Works -> Lifecycles]
  /\ generation \in [Works -> Generations]
  /\ edges \subseteq Works \X Works
  /\ gate \in [Works -> GateStates]
  /\ attempt \in [Works -> Attempts]
  /\ outcome \in [Works -> [Generations -> {"none", "accepted", "invalidated"}]]
  /\ exceptions \in Seq(Exceptions)
  /\ edits \in 0 .. MaxEdits /\ claims \in 0 .. MaxClaims
  /\ commands \in 0 .. MaxCommands /\ late \in 0 .. MaxLate

\* However edges are added and removed, no set of work items waits on itself:
\* some item of it has no prerequisite inside.
Acyclic ==
  \A S \in (SUBSET Works) \ {{}} :
    \E w \in S : \A p \in S : <<p, w>> \notin edges

\* What the close of p rested on has not been withdrawn since: each gate of its
\* current submission is satisfied, or it failed and an exception of it stands
\* that nobody revoked (one that expired after the close still counts).
Stands(p) ==
  /\ lifecycle[p] = "closed" /\ Submitted(p)
  /\ \A k \in GateKinds :
       \/ Facts(p)[k] = "satisfied"
       \/ /\ Facts(p)[k] = "failed"
          /\ \E i \in RowsFor(k, p, p) : exceptions[i].state # "revoked"

\* A claim never consumes withdrawn acceptance: whatever was revoked, reopened,
\* retried or has expired, each prerequisite of a claimed item still stands or
\* an operator's waiver of that edge is in force.
ClaimsRestOnStandingProof ==
  [][\A w \in Works : Running(w)' /\ ~Running(w) =>
       \A p \in Works : <<p, w>> \in edges =>
         \/ Stands(p)
         \/ \E i \in DOMAIN exceptions :
              /\ exceptions[i].kind = "dependency" /\ exceptions[i].state = "active"
              /\ exceptions[i].work = w /\ exceptions[i].target = p]_vars

\* An open item nobody executes and nothing was submitted for can be dispatched
\* again: it shows as ready or waits for its prerequisites.  It does not hold:
\* README, section 5.
IdleIsDispatchable ==
  \A w \in Works :
    lifecycle[w] = "open" /\ ~Running(w) /\ ~Submitted(w)
    => Status(w) \in {"ready", "queued"}
=============================================================================
