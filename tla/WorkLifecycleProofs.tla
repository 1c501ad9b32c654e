------------------------ MODULE WorkLifecycleProofs ------------------------
(***************************************************************************)
(* Proofs about the ownership core, for any number of work items, sessions *)
(* and attempts, any lease lengths and any age of timestamps.  Ownership   *)
(* does not rest on what the status policy permits (Permit stays opaque    *)
(* until the last part).                                                   *)
(*                                                                         *)
(* Every step is of one of five kinds as far as the execution rows are     *)
(* concerned (KindsOfStep); the invariants are shown kind by kind.         *)
(*                                                                         *)
(* The last part joins ownership with what a permission implies: a closed  *)
(* work item is proved and settled, because a submission ends execution    *)
(* and nothing can be claimed while one is current.                        *)
(***************************************************************************)
EXTENDS WorkLifecycle, StatusPolicyProofs, TLAPS

\* A claim creates row a: the fence is above all fences of w and no attempt of
\* w is current or occupies the worktree.
ClaimRow(a, w, s, f, hard, l) ==
  /\ phase[a] = "none"
  /\ \A b \in AttemptsOf(w) : ~LiveResource(b) /\ attempt[b].fence < f
  /\ f = 1 \/ \E b \in AttemptsOf(w) : f = attempt[b].fence + 1
  /\ attempt' = [attempt EXCEPT ![a] =
                   [work |-> w, session |-> s, fence |-> f, hard |-> hard]]
  /\ phase' = [phase EXCEPT ![a] = "claimed"]
  /\ current' = [current EXCEPT ![a] = TRUE]
  /\ lease' = [lease EXCEPT ![a] = l]
  /\ reservation' = [reservation EXCEPT ![a] = "active"]
  /\ resource' = [resource EXCEPT ![a] = "active"]
  /\ UNCHANGED obligation

ClaimKind(a) ==
  \E w \in Works, s \in Sessions, f \in Nat \ {0}, hard \in Nat, l \in Nat :
    ClaimRow(a, w, s, f, hard, l)

\* The owner or the deadline write moves a current attempt to a live phase or
\* gives it another lease.
LiveKind(a) ==
  /\ current[a] /\ phase[a] \in LivePhases
  /\ \E p \in LivePhases : phase' = [phase EXCEPT ![a] = p]
  /\ \E l \in Nat : lease' = [lease EXCEPT ![a] = l]
  /\ UNCHANGED <<attempt, current, reservation, resource, obligation>>

\* A current attempt ends.
EndKind(a) ==
  /\ current[a] /\ phase[a] \in LivePhases
  /\ \E to \in TerminalPhases, r \in {"released", "expired"}, o \in {"other", "expired"} :
       EndAttempt(a, to, r, o)

\* An obligation is resolved; the resource may only go from pending to released.
ResolveKind(a) ==
  /\ Unresolved(a)
  /\ obligation' = [obligation EXCEPT ![a] = "resolved"]
  /\ \/ UNCHANGED resource
     \/ /\ resource[a] = "release_pending"
        /\ resource' = [resource EXCEPT ![a] = "released"]
  /\ UNCHANGED <<attempt, phase, current, lease, reservation>>

\* The type of the execution rows alone.
ExecTypeOK ==
  /\ attempt \in [AttemptIds -> [work : Works \cup {NoWork},
                                 session : Sessions \cup {NoSession},
                                 fence : Nat, hard : Nat]]
  /\ phase \in [AttemptIds -> {"none"} \cup LivePhases \cup TerminalPhases]
  /\ current \in [AttemptIds -> BOOLEAN]
  /\ lease \in [AttemptIds -> Nat]
  /\ reservation \in [AttemptIds -> {"none", "active", "expired", "released"}]
  /\ resource \in [AttemptIds -> ResourceStates]
  /\ obligation \in [AttemptIds -> ObligationStates]

\* The type of the decisions about a work item.
DecisionTypeOK ==
  /\ reviewed \in [Works -> BOOLEAN]
  /\ accepted \in [Works -> BOOLEAN]
  /\ exception \in [Works -> BOOLEAN]
  /\ changed \in [Works -> BOOLEAN]

\* Time stamps are instants of the clock and a fence of Fences is positive.
LEMMA StampsAndFences ==
  ASSUME TypeOK
  PROVE  /\ Sampled \subseteq Nat
         /\ Fences \subseteq Nat \ {0}
<1>1. Sampled \subseteq Nat
  BY DEF TypeOK, Sampled
<1>2. \A a \in AttemptIds : attempt[a].fence \in Nat
  BY DEF TypeOK
<1>3. Fences \subseteq Nat \ {0}
  BY <1>2 DEF Fences
<1> QED
  BY <1>1, <1>3

\* Each action is of one of the kinds, or leaves the execution rows alone.
LEMMA KindsOfStep ==
  ASSUME TypeOK, [Next]_vars
  PROVE  \/ UNCHANGED execVars
         \/ \E a \in AttemptIds :
              ClaimKind(a) \/ LiveKind(a) \/ EndKind(a) \/ ResolveKind(a)
<1> USE StampsAndFences, TimeAssumption
<1>1. CASE SessionStep
  BY <1>1 DEF SessionStep, RegisterSession, EndSession, execVars
<1>2. CASE ClaimStep
  <2>1. PICK w \in Works, s \in Sessions, a \in AttemptIds, at \in Sampled,
             ttl \in TTLs, budget \in Budgets : Claim(w, s, a, at, ttl, budget)
    BY <1>2 DEF ClaimStep
  <2>2. PICK f \in Fences :
          /\ NextFence(w, f)
          /\ attempt' = [attempt EXCEPT ![a] =
               [work |-> w, session |-> s, fence |-> f, hard |-> at + budget]]
    BY <2>1 DEF Claim
  <2>3. at + budget \in Nat /\ at + ttl \in Nat /\ f \in Nat \ {0}
    OBVIOUS
  <2>4. ClaimKind(a)
    <3>1. \A b \in AttemptsOf(w) : ~LiveResource(b) /\ attempt[b].fence < f
      BY <2>1, <2>2 DEF Claim, NextFence
    <3>2. f = 1 \/ \E b \in AttemptsOf(w) : f = attempt[b].fence + 1
      BY <2>2 DEF NextFence
    <3>3. /\ phase[a] = "none"
          /\ phase' = [phase EXCEPT ![a] = "claimed"]
          /\ current' = [current EXCEPT ![a] = TRUE]
          /\ lease' = [lease EXCEPT ![a] = at + ttl]
          /\ reservation' = [reservation EXCEPT ![a] = "active"]
          /\ resource' = [resource EXCEPT ![a] = "active"]
          /\ UNCHANGED obligation
      BY <2>1 DEF Claim
    <3>4. ClaimRow(a, w, s, f, at + budget, at + ttl)
      BY <2>2, <3>1, <3>2, <3>3 DEF ClaimRow
    <3> QED
      BY <2>3, <3>4 DEF ClaimKind
  <2> QED
    BY <2>4
<1>3. CASE OwnerStep
  <2>1. PICK a \in AttemptIds, at \in Sampled :
          \/ Accept(a, at) \/ Start(a, at) \/ Submit(a, at)
          \/ \E ttl \in TTLs : RenewLease(a, at, ttl)
          \/ Release(a, at) \/ Fail(a, at) \/ Cancel(a, at)
          \/ SealAndRequestClose(a, at) \/ RequestCloseAgain(a, at)
          \/ LateReceipt(a) \/ FinalizeClose(a, at) \/ RejectClose(a)
    BY <1>3 DEF OwnerStep
  <2>2. ASSUME NEW action, NEW from, NEW to \in LivePhases,
               Advance(a, at, action, from, to)
        PROVE  LiveKind(a)
    <3>1. phase' = [phase EXCEPT ![a] = to] /\ Owned(a) /\ UNCHANGED lease
      BY <2>2 DEF Advance, Executing
    <3>2. lease[a] \in Nat /\ lease' = [lease EXCEPT ![a] = lease[a]]
      BY <3>1 DEF TypeOK
    <3>3. UNCHANGED <<attempt, current, reservation, resource, obligation>>
      BY <2>2 DEF Advance
    <3> QED
      BY <3>1, <3>2, <3>3 DEF LiveKind, Owned
  <2>3. CASE Accept(a, at) \/ Start(a, at) \/ Submit(a, at)
    BY <2>2, <2>3 DEF Accept, Start, Submit, LivePhases
  <2>4. ASSUME NEW ttl \in TTLs, RenewLease(a, at, ttl) PROVE LiveKind(a)
    <3>1. at + ttl \in Nat
      OBVIOUS
    <3>2. phase' = [phase EXCEPT ![a] = phase[a]]
      BY <2>4 DEF RenewLease, TypeOK
    <3> QED
      BY <2>4, <3>1, <3>2 DEF RenewLease, Executing, Owned, LiveKind
  <2>5. CASE Release(a, at)
    BY <2>5 DEF Release, Executing, Owned, EndKind, TerminalPhases
  <2>6. CASE Fail(a, at)
    BY <2>6 DEF Fail, Executing, Owned, EndKind, TerminalPhases
  <2>7. CASE Cancel(a, at)
    BY <2>7 DEF Cancel, Owned, EndKind, TerminalPhases
  <2>8. CASE SealAndRequestClose(a, at)
    BY <2>8 DEF SealAndRequestClose, EndKind, TerminalPhases, LivePhases
  <2>9. CASE \/ RequestCloseAgain(a, at) \/ LateReceipt(a)
             \/ FinalizeClose(a, at) \/ RejectClose(a)
    BY <2>9 DEF RequestCloseAgain, LateReceipt, FinalizeClose, RejectClose, execVars
  <2> QED
    BY <2>1, <2>3, <2>4, <2>5, <2>6, <2>7, <2>8, <2>9
<1>4. CASE ServiceStep
  <2>1. PICK a \in AttemptIds, at \in Sampled :
          \/ ReconcileDeadline(a, at)
          \/ \E role \in {"agent", "operator"} : Expire(a, at, role)
    BY <1>4 DEF ServiceStep
  <2>2. CASE ReconcileDeadline(a, at)
    <3>1. lease[a] \in Nat /\ lease' = [lease EXCEPT ![a] = lease[a]]
      BY <2>2 DEF TypeOK, ReconcileDeadline
    <3> QED
      BY <2>2, <3>1 DEF ReconcileDeadline, LiveKind, LivePhases
  <2>3. ASSUME NEW role, Expire(a, at, role) PROVE EndKind(a)
    BY <2>3 DEF Expire, EndKind, TerminalPhases
  <2> QED
    BY <2>1, <2>2, <2>3
<1>5. CASE OperatorStep
  <2>1. ASSUME NEW a \in AttemptIds, NEW d, ResolveRecovery(a, d)
        PROVE  ResolveKind(a)
    BY <2>1 DEF ResolveRecovery, ResolveKind
  <2>2. ASSUME NEW a \in AttemptIds, NEW o, Review(a, o) \/ RevokeReview(a)
        PROVE  UNCHANGED execVars
    BY <2>2 DEF Review, RevokeReview
  <2>3. ASSUME NEW w \in Works, \/ GateException(w) \/ RevokeException(w)
                               \/ Publish(w) \/ CancelWork(w) \/ Reopen(w) \/ Retry(w)
        PROVE  UNCHANGED execVars
    BY <2>3 DEF GateException, RevokeException, Publish, CancelWork, Reopen, Retry,
                NewGeneration
  <2> QED
    BY <1>5, <2>1, <2>2, <2>3 DEF OperatorStep
<1>6. CASE Tick
  BY <1>6 DEF Tick
<1>7. CASE UNCHANGED vars
  BY <1>7 DEF vars
<1> QED
  BY <1>1, <1>2, <1>3, <1>4, <1>5, <1>6, <1>7 DEF Next

(***************************************************************************)
(* Type correctness.                                                       *)
(***************************************************************************)
\* The execution rows keep their types, kind by kind.
LEMMA ExecTypes ==
  ASSUME TypeOK, [Next]_vars
  PROVE  ExecTypeOK'
<1>1. ExecTypeOK
  BY DEF TypeOK, ExecTypeOK
<1>2. CASE UNCHANGED execVars
  BY <1>1, <1>2 DEF ExecTypeOK, execVars
<1>3. ASSUME NEW a \in AttemptIds, ClaimKind(a) PROVE ExecTypeOK'
  <2>1. PICK w \in Works, s \in Sessions, f \in Nat \ {0}, hard \in Nat, l \in Nat :
          ClaimRow(a, w, s, f, hard, l)
    BY <1>3 DEF ClaimKind
  <2> QED
    BY <1>1, <2>1 DEF ClaimRow, ExecTypeOK, LivePhases, ResourceStates
<1>4. ASSUME NEW a \in AttemptIds, LiveKind(a) PROVE ExecTypeOK'
  BY <1>1, <1>4 DEF ExecTypeOK, LiveKind
<1>5. ASSUME NEW a \in AttemptIds, EndKind(a) PROVE ExecTypeOK'
  BY <1>1, <1>5 DEF ExecTypeOK, EndKind, EndAttempt, ResourceStates, ObligationStates
<1>6. ASSUME NEW a \in AttemptIds, ResolveKind(a) PROVE ExecTypeOK'
  BY <1>1, <1>6 DEF ExecTypeOK, ResolveKind, ResourceStates, ObligationStates
<1> QED
  BY <1>2, <1>3, <1>4, <1>5, <1>6, KindsOfStep

\* Every action keeps every row inside its column's vocabulary.
LEMMA TypeStep ==
  ASSUME TypeOK, RowsAgree, [Next]_vars
  PROVE  TypeOK'
<1> DEFINE Rest ==
      /\ now \in Nat
      /\ session \in [Sessions -> {"absent", "active", "ended"}]
      /\ lifecycle \in [Works -> Lifecycles]
      /\ generation \in [Works -> Nat]
      /\ DecisionTypeOK
      /\ sealed \in [AttemptIds -> Nat]
      /\ verdict \in [AttemptIds -> {"none", "approved", "rejected"}]
      /\ intent \in [AttemptIds -> {"none", "open", "finalized", "rejected"}]
<1>1. Rest
  BY DEF TypeOK, DecisionTypeOK
<1>0. SUFFICES Rest'
  BY ExecTypes DEF TypeOK, ExecTypeOK, DecisionTypeOK
<1>2. ASSUME UNCHANGED <<now, session, workVars>>, UNCHANGED proofVars PROVE Rest'
  BY <1>1, <1>2 DEF DecisionTypeOK, workVars, decisionVars, proofVars
<1>3. CASE SessionStep
  <2>1. UNCHANGED <<now, workVars, proofVars>>
    BY <1>3 DEF SessionStep, RegisterSession, EndSession
  <2>2. session' \in [Sessions -> {"absent", "active", "ended"}]
    BY <1>1, <1>3 DEF SessionStep, RegisterSession, EndSession
  <2> QED
    BY <1>1, <2>1, <2>2 DEF DecisionTypeOK, workVars, decisionVars, proofVars
<1>4. CASE ClaimStep
  BY <1>2, <1>4 DEF ClaimStep, Claim
<1>5. CASE OwnerStep
  <2>1. PICK a \in AttemptIds, at \in Sampled :
          \/ Accept(a, at) \/ Start(a, at) \/ Submit(a, at)
          \/ \E ttl \in TTLs : RenewLease(a, at, ttl)
          \/ Release(a, at) \/ Fail(a, at) \/ Cancel(a, at)
          \/ SealAndRequestClose(a, at) \/ RequestCloseAgain(a, at)
          \/ LateReceipt(a) \/ FinalizeClose(a, at) \/ RejectClose(a)
    BY <1>5 DEF OwnerStep
  <2>2. CASE Accept(a, at) \/ Start(a, at) \/ Submit(a, at)
    BY <1>2, <2>2 DEF Accept, Start, Submit, Advance
  <2>3. CASE \E ttl \in TTLs : RenewLease(a, at, ttl)
    BY <1>2, <2>3 DEF RenewLease
  <2>4. CASE Release(a, at) \/ Fail(a, at) \/ Cancel(a, at)
    BY <1>2, <2>4 DEF Release, Fail, Cancel
  <2>5. CASE SealAndRequestClose(a, at)
    <3>1. attempt[a].work \in Works
      BY <2>5 DEF SealAndRequestClose, CloseSubject, TypeOK, RowsAgree
    <3> QED
      BY <1>1, <2>5, <3>1
         DEF SealAndRequestClose, DecisionTypeOK, workVars, decisionVars
  <2>6. CASE RejectClose(a)
    BY <1>1, <2>6 DEF RejectClose, DecisionTypeOK, workVars, decisionVars
  <2>7. CASE RequestCloseAgain(a, at)
    BY <1>1, <2>7 DEF RequestCloseAgain, DecisionTypeOK
  <2>8. CASE LateReceipt(a)
    BY <1>1, <2>8 DEF LateReceipt, DecisionTypeOK, proofVars
  <2>9. CASE FinalizeClose(a, at)
    BY <1>1, <2>9 DEF FinalizeClose, DecisionTypeOK, Lifecycles
  <2> QED
    BY <2>1, <2>2, <2>3, <2>4, <2>5, <2>6, <2>7, <2>8, <2>9
<1>6. CASE ServiceStep
  BY <1>2, <1>6 DEF ServiceStep, ReconcileDeadline, Expire
<1>7. CASE OperatorStep
  <2>1. ASSUME NEW a \in AttemptIds, NEW d, ResolveRecovery(a, d) PROVE Rest'
    BY <1>2, <2>1 DEF ResolveRecovery
  <2>2. ASSUME NEW a \in AttemptIds, NEW o \in {"approved", "rejected"}, Review(a, o)
        PROVE  Rest'
    BY <1>1, <2>2 DEF Review, DecisionTypeOK, workVars, decisionVars
  <2>3. ASSUME NEW a \in AttemptIds, RevokeReview(a) PROVE Rest'
    BY <1>1, <2>3 DEF RevokeReview, InvalidateOutcomes, DecisionTypeOK
  <2>4. ASSUME NEW w \in Works, GateException(w) PROVE Rest'
    BY <1>1, <2>4 DEF GateException, DecisionTypeOK, proofVars
  <2>5. ASSUME NEW w \in Works, RevokeException(w) PROVE Rest'
    BY <1>1, <2>5 DEF RevokeException, InvalidateOutcomes, DecisionTypeOK, proofVars
  <2>6. ASSUME NEW w \in Works, Publish(w) \/ CancelWork(w) PROVE Rest'
    BY <1>1, <2>6 DEF Publish, CancelWork, Lifecycles, DecisionTypeOK, decisionVars,
                      proofVars
  <2>7. ASSUME NEW w \in Works, Reopen(w) \/ Retry(w) PROVE Rest'
    <3>1. generation[w] + 1 \in Nat
      BY <1>1
    <3>2. /\ generation' = [generation EXCEPT ![w] = generation[w] + 1]
          /\ lifecycle' = [lifecycle EXCEPT ![w] = "open"]
          /\ UNCHANGED <<now, session, sealed, verdict, intent>>
      BY <2>7 DEF Reopen, Retry, NewGeneration, proofVars
    <3>3. DecisionTypeOK'
      BY <1>1, <2>7 DEF Reopen, Retry, NewGeneration, InvalidateOutcomes, DecisionTypeOK
    <3> QED
      BY <1>1, <3>1, <3>2, <3>3 DEF Lifecycles
  <2> QED
    BY <1>7, <2>1, <2>2, <2>3, <2>4, <2>5, <2>6, <2>7 DEF OperatorStep
<1>8. CASE Tick
  BY <1>1, <1>8 DEF Tick, DecisionTypeOK, workVars, decisionVars, proofVars
<1>9. CASE UNCHANGED vars
  BY <1>2, <1>9 DEF vars
<1> QED
  BY <1>3, <1>4, <1>5, <1>6, <1>7, <1>8, <1>9 DEF Next

\* The rows the store starts with have their types.
LEMMA TypeInit ==
  ASSUME Init
  PROVE  TypeOK
BY DEF Init, TypeOK, Lifecycles, ResourceStates, ObligationStates

(***************************************************************************)
(* The rows of one execution.                                              *)
(***************************************************************************)
\* Phase, current flag, reservation, resource and obligation move together.
LEMMA RowsStep ==
  ASSUME TypeOK, RowsAgree, [Next]_vars
  PROVE  RowsAgree'
<1> DEFINE Row(a) ==
      /\ phase[a] \in LivePhases <=> current[a]
      /\ reservation[a] = "active" <=> current[a]
      /\ resource[a] = "active" <=> current[a]
      /\ phase[a] \in TerminalPhases <=> obligation[a] # "none"
      /\ phase[a] = "none" <=> resource[a] = "none"
      /\ phase[a] = "none" <=> attempt[a].work = NoWork
      /\ resource[a] = "released" => obligation[a] = "resolved"
<1>1. ExecTypeOK /\ \A a \in AttemptIds : Row(a)
  BY DEF TypeOK, ExecTypeOK, RowsAgree
<1>2. SUFFICES ASSUME NEW b \in AttemptIds PROVE Row(b)'
  BY DEF RowsAgree
<1>3. CASE UNCHANGED execVars
  BY <1>1, <1>3 DEF execVars
<1>4. ASSUME NEW a \in AttemptIds, ClaimKind(a) PROVE Row(b)'
  <2>1. PICK w \in Works, s \in Sessions, f \in Nat \ {0}, hard \in Nat, l \in Nat :
          ClaimRow(a, w, s, f, hard, l)
    BY <1>4 DEF ClaimKind
  <2>2. CASE b # a
    BY <1>1, <2>1, <2>2 DEF ClaimRow, ExecTypeOK
  <2>3. CASE b = a
    <3>1. obligation'[a] = "none" /\ attempt'[a].work # NoWork
      BY <1>1, <2>1, BindingAssumption DEF ClaimRow, ExecTypeOK, TerminalPhases
    <3>2. /\ phase'[a] = "claimed" /\ current'[a] = TRUE
          /\ reservation'[a] = "active" /\ resource'[a] = "active"
      BY <1>1, <2>1 DEF ClaimRow, ExecTypeOK
    <3> QED
      BY <2>3, <3>1, <3>2 DEF LivePhases, TerminalPhases
  <2> QED
    BY <2>2, <2>3
<1>5. ASSUME NEW a \in AttemptIds, LiveKind(a) PROVE Row(b)'
  BY <1>1, <1>5 DEF LiveKind, ExecTypeOK, LivePhases, TerminalPhases
<1>6. ASSUME NEW a \in AttemptIds, EndKind(a) PROVE Row(b)'
  <2>1. PICK to \in TerminalPhases, r \in {"released", "expired"},
             o \in {"other", "expired"} : EndAttempt(a, to, r, o)
    BY <1>6 DEF EndKind
  <2> QED
    BY <1>1, <1>6, <2>1 DEF EndKind, EndAttempt, ExecTypeOK, LivePhases, TerminalPhases
<1>7. ASSUME NEW a \in AttemptIds, ResolveKind(a) PROVE Row(b)'
  BY <1>1, <1>7 DEF ResolveKind, Unresolved, ExecTypeOK
<1> QED
  BY <1>3, <1>4, <1>5, <1>6, <1>7, KindsOfStep

(***************************************************************************)
(* Fences and reuse of the worktree.                                       *)
(***************************************************************************)
\* The fence of a claim is above every fence of its work item.
LEMMA FencesStep ==
  ASSUME TypeOK, RowsAgree, FencesAreUnique, [Next]_vars
  PROVE  FencesAreUnique'
<1>1. ExecTypeOK
  BY DEF TypeOK, ExecTypeOK
<1>2. CASE UNCHANGED execVars
  BY <1>2 DEF execVars, FencesAreUnique
<1>3. ASSUME NEW a \in AttemptIds, ClaimKind(a) PROVE FencesAreUnique'
  <2>1. PICK w \in Works, s \in Sessions, f \in Nat \ {0}, hard \in Nat, l \in Nat :
          ClaimRow(a, w, s, f, hard, l)
    BY <1>3 DEF ClaimKind
  <2>2. \A b \in AttemptIds : b # a => attempt'[b] = attempt[b] /\ phase'[b] = phase[b]
    BY <1>1, <2>1 DEF ClaimRow, ExecTypeOK
  <2>3. attempt'[a].work = w /\ attempt'[a].fence = f
    BY <1>1, <2>1 DEF ClaimRow, ExecTypeOK
  <2>4. \A b \in AttemptIds : b # a /\ attempt'[b].work = w => attempt'[b].fence # f
    <3>1. \A b \in AttemptIds : attempt[b].fence \in Nat
      BY <1>1 DEF ExecTypeOK
    <3> QED
      BY <2>1, <2>2, <3>1 DEF AttemptsOf, ClaimRow
  <2> QED
    BY <2>2, <2>3, <2>4 DEF FencesAreUnique
<1>4. ASSUME NEW a \in AttemptIds, LiveKind(a) \/ EndKind(a) \/ ResolveKind(a)
      PROVE  FencesAreUnique'
  <2>1. UNCHANGED attempt
    BY <1>4 DEF LiveKind, EndKind, EndAttempt, ResolveKind
  <2>2. \A b \in AttemptIds : phase'[b] # "none" => phase[b] # "none"
    BY <1>1, <1>4 DEF LiveKind, EndKind, EndAttempt, ResolveKind, ExecTypeOK, LivePhases
  <2> QED
    BY <2>1, <2>2 DEF FencesAreUnique
<1> QED
  BY <1>2, <1>3, <1>4, KindsOfStep

\* A claim finds no live resource, so every earlier attempt's was released; and
\* a released row never changes again.
LEMMA ReuseStep ==
  ASSUME TypeOK, RowsAgree, ReuseNeedsAcknowledgement, [Next]_vars
  PROVE  ReuseNeedsAcknowledgement'
<1>1. ExecTypeOK
  BY DEF TypeOK, ExecTypeOK
<1> DEFINE Settled(a) == phase[a] \in TerminalPhases /\ resource[a] = "released"
<1>2. CASE UNCHANGED execVars
  BY <1>2 DEF execVars, ReuseNeedsAcknowledgement
<1>3. ASSUME NEW a \in AttemptIds, ClaimKind(a) PROVE ReuseNeedsAcknowledgement'
  <2>1. PICK w \in Works, s \in Sessions, f \in Nat \ {0}, hard \in Nat, l \in Nat :
          ClaimRow(a, w, s, f, hard, l)
    BY <1>3 DEF ClaimKind
  <2>2. \A b \in AttemptIds : b # a => /\ attempt'[b] = attempt[b]
                                       /\ phase'[b] = phase[b]
                                       /\ resource'[b] = resource[b]
    BY <1>1, <2>1 DEF ClaimRow, ExecTypeOK
  <2>3. attempt'[a].work = w /\ attempt'[a].fence = f
    BY <1>1, <2>1 DEF ClaimRow, ExecTypeOK
  <2>4. \A b \in AttemptIds : attempt[b].work = w => Settled(b) \/ phase[b] = "none"
    <3>1. \A b \in AttemptIds : attempt[b].work = w => resource[b] \in {"none", "released"}
      BY <1>1, <2>1 DEF ClaimRow, AttemptsOf, LiveResource, ExecTypeOK, ResourceStates
    <3> QED
      BY <3>1 DEF RowsAgree
  <2>5. SUFFICES ASSUME NEW b \in AttemptIds, NEW c \in AttemptIds,
                        phase'[b] # "none", phase'[c] # "none",
                        attempt'[b].work = attempt'[c].work,
                        attempt'[b].fence < attempt'[c].fence
                 PROVE  Settled(b)'
    BY DEF ReuseNeedsAcknowledgement
  <2>6. CASE b # a /\ c # a
    BY <2>2, <2>5, <2>6 DEF ReuseNeedsAcknowledgement
  <2>7. CASE b # a /\ c = a
    BY <2>2, <2>3, <2>4, <2>5, <2>7
  <2>8. CASE b = a
    <3>1. c # a
      BY <2>3, <2>5, <2>8
    <3>2. attempt[c].work = w /\ attempt[c].fence < f /\ f < attempt[c].fence
      BY <2>1, <2>2, <2>3, <2>5, <2>8, <3>1 DEF AttemptsOf, ClaimRow
    <3> QED
      BY <1>1, <3>2 DEF ExecTypeOK
  <2> QED
    BY <2>6, <2>7, <2>8
<1>4. ASSUME NEW a \in AttemptIds, LiveKind(a) \/ EndKind(a) \/ ResolveKind(a)
      PROVE  ReuseNeedsAcknowledgement'
  <2>1. UNCHANGED attempt
    BY <1>4 DEF LiveKind, EndKind, EndAttempt, ResolveKind
  <2>2. \A b \in AttemptIds : phase'[b] # "none" => phase[b] # "none"
    BY <1>1, <1>4 DEF LiveKind, EndKind, EndAttempt, ResolveKind, ExecTypeOK, LivePhases
  <2>3. \A b \in AttemptIds : Settled(b) => Settled(b)'
    <3>1. CASE LiveKind(a)
      BY <1>1, <3>1 DEF LiveKind, ExecTypeOK, LivePhases, TerminalPhases
    <3>2. CASE EndKind(a)
      BY <1>1, <3>2 DEF EndKind, EndAttempt, ExecTypeOK, LivePhases, TerminalPhases
    <3>3. CASE ResolveKind(a)
      BY <1>1, <3>3 DEF ResolveKind, ExecTypeOK
    <3> QED
      BY <1>4, <3>1, <3>2, <3>3
  <2> QED
    BY <2>1, <2>2, <2>3 DEF ReuseNeedsAcknowledgement
<1> QED
  BY <1>2, <1>3, <1>4, KindsOfStep

\* The inductive invariant of the ownership core.
Ownership == TypeOK /\ RowsAgree /\ FencesAreUnique /\ ReuseNeedsAcknowledgement

\* The ownership invariant holds in every state of the store.
THEOREM OwnershipInvariant == Spec => []Ownership
<1>1. Init => Ownership
  <2>1. ASSUME Init PROVE TypeOK
    BY <2>1, TypeInit
  <2>2. ASSUME Init PROVE RowsAgree
    BY <2>2 DEF Init, RowsAgree, LivePhases, TerminalPhases
  <2>3. ASSUME Init PROVE FencesAreUnique /\ ReuseNeedsAcknowledgement
    BY <2>3 DEF Init, FencesAreUnique, ReuseNeedsAcknowledgement
  <2> QED
    BY <2>1, <2>2, <2>3 DEF Ownership
<1>2. Ownership /\ [Next]_vars => Ownership'
  BY TypeStep, RowsStep, FencesStep, ReuseStep DEF Ownership
<1> QED
  BY <1>1, <1>2, PTL DEF Spec

\* Every row stays inside its column's vocabulary, whatever the mutations of
\* sessions, attempts, submissions, intents and lifecycles.
THEOREM TypeCorrect == Spec => []TypeOK
BY OwnershipInvariant, PTL DEF Ownership

\* The phase, the current flag, the reservation, the resource and the obligation
\* of an attempt never disagree.
THEOREM RowsNeverDisagree == Spec => []RowsAgree
BY OwnershipInvariant, PTL DEF Ownership

\* A fence names one attempt of a work item for ever.
THEOREM FencesNameAttempts == Spec => []FencesAreUnique
BY OwnershipInvariant, PTL DEF Ownership

\* No successor gets a worktree before every predecessor's release is
\* acknowledged.
THEOREM ReuseIsAcknowledged == Spec => []ReuseNeedsAcknowledgement
BY OwnershipInvariant, PTL DEF Ownership

(***************************************************************************)
(* Sessions and the attempts they own.                                     *)
(***************************************************************************)
\* Outside of claims and session commands no attempt becomes current and nothing
\* moves between sessions.
LEMMA OwnersOnlyStop ==
  ASSUME TypeOK, OwnerStep \/ ServiceStep \/ OperatorStep \/ Tick \/ UNCHANGED vars
  PROVE  /\ UNCHANGED <<session, attempt>>
         /\ \A b \in AttemptIds : current'[b] => current[b]
<1> DEFINE Stops == /\ UNCHANGED <<session, attempt>>
                    /\ \A b \in AttemptIds : current'[b] => current[b]
<1>1. ASSUME NEW a, NEW to, NEW r, NEW o, EndAttempt(a, to, r, o), UNCHANGED session
      PROVE  Stops
  BY <1>1 DEF EndAttempt, TypeOK
<1>2. CASE OwnerStep
  <2>1. PICK a \in AttemptIds, at \in Sampled :
          \/ Accept(a, at) \/ Start(a, at) \/ Submit(a, at)
          \/ \E ttl \in TTLs : RenewLease(a, at, ttl)
          \/ Release(a, at) \/ Fail(a, at) \/ Cancel(a, at)
          \/ SealAndRequestClose(a, at) \/ RequestCloseAgain(a, at)
          \/ LateReceipt(a) \/ FinalizeClose(a, at) \/ RejectClose(a)
    BY <1>2 DEF OwnerStep
  <2>2. CASE Release(a, at) \/ Fail(a, at) \/ Cancel(a, at) \/ SealAndRequestClose(a, at)
    BY <1>1, <2>2 DEF Release, Fail, Cancel, SealAndRequestClose
  <2>3. CASE \/ Accept(a, at) \/ Start(a, at) \/ Submit(a, at)
             \/ \E ttl \in TTLs : RenewLease(a, at, ttl)
    BY <2>3 DEF Accept, Start, Submit, Advance, RenewLease
  <2>4. CASE \/ RequestCloseAgain(a, at) \/ LateReceipt(a)
             \/ FinalizeClose(a, at) \/ RejectClose(a)
    BY <2>4 DEF RequestCloseAgain, LateReceipt, FinalizeClose, RejectClose, execVars
  <2> QED
    BY <2>1, <2>2, <2>3, <2>4
<1>3. CASE ServiceStep
  <2>1. PICK a \in AttemptIds, at \in Sampled :
          ReconcileDeadline(a, at) \/ \E role \in {"agent", "operator"} : Expire(a, at, role)
    BY <1>3 DEF ServiceStep
  <2>2. CASE ReconcileDeadline(a, at)
    BY <2>2 DEF ReconcileDeadline
  <2>3. CASE \E role \in {"agent", "operator"} : Expire(a, at, role)
    BY <1>1, <2>3 DEF Expire
  <2> QED
    BY <2>1, <2>2, <2>3
<1>4. CASE OperatorStep
  BY <1>4 DEF OperatorStep, ResolveRecovery, Review, RevokeReview, GateException,
              RevokeException, Publish, CancelWork, Reopen, Retry, NewGeneration, execVars
<1>5. CASE Tick \/ UNCHANGED vars
  BY <1>5 DEF Tick, vars, execVars
<1> QED
  BY <1>2, <1>3, <1>4, <1>5

\* The strengthening: a current attempt is bound to a session of the store.
SessionInv ==
  /\ SessionsOwnLittle
  /\ \A a \in AttemptIds : current[a] => attempt[a].session \in Sessions

\* A claim asks for an active session without a current attempt, and a session
\* ends only without one.
LEMMA SessionsHold ==
  ASSUME TypeOK, SessionInv, [Next]_vars
  PROVE  SessionInv'
<1>1. CASE SessionStep
  <2>1. PICK s \in Sessions : RegisterSession(s) \/ EndSession(s)
    BY <1>1 DEF SessionStep
  <2>2. UNCHANGED <<attempt, current>>
    BY <2>1 DEF RegisterSession, EndSession, execVars
  <2>3. \A a \in AttemptIds : current[a] => session'[attempt[a].session] = "active"
    BY <2>1 DEF RegisterSession, EndSession, SessionInv, SessionsOwnLittle, TypeOK
  <2> QED
    BY <2>2, <2>3 DEF SessionInv, SessionsOwnLittle
<1>2. CASE ClaimStep
  <2>1. PICK w \in Works, s \in Sessions, a \in AttemptIds, at \in Sampled,
             ttl \in TTLs, budget \in Budgets : Claim(w, s, a, at, ttl, budget)
    BY <1>2 DEF ClaimStep
  <2>2. PICK f \in Fences :
          attempt' = [attempt EXCEPT ![a] =
                        [work |-> w, session |-> s, fence |-> f, hard |-> at + budget]]
    BY <2>1 DEF Claim
  <2>3. /\ session[s] = "active" /\ session' = session
        /\ current' = [current EXCEPT ![a] = TRUE]
        /\ \A b \in AttemptIds : current[b] => attempt[b].session # s
    BY <2>1 DEF Claim
  <2>4. attempt'[a].session = s
    BY <2>2 DEF TypeOK
  <2>5. \A b \in AttemptIds : b # a => attempt'[b] = attempt[b] /\ current'[b] = current[b]
    BY <2>2, <2>3 DEF TypeOK
  <2> QED
    BY <2>3, <2>4, <2>5 DEF SessionInv, SessionsOwnLittle
<1>3. CASE OwnerStep \/ ServiceStep \/ OperatorStep \/ Tick \/ UNCHANGED vars
  BY <1>3, OwnersOnlyStop DEF SessionInv, SessionsOwnLittle
<1> QED
  BY <1>1, <1>2, <1>3 DEF Next

\* However many work items and sessions compete, a session never has two current
\* attempts and never ends with one.
THEOREM SessionsOwnOne == Spec => []SessionsOwnLittle
<1>1. Init => SessionInv
  BY DEF Init, SessionInv, SessionsOwnLittle
<1>2. SessionInv => SessionsOwnLittle
  BY DEF SessionInv
<1> QED
  BY <1>1, <1>2, SessionsHold, TypeCorrect, PTL DEF Spec

(***************************************************************************)
(* The store implements the worktree lease.                                *)
(***************************************************************************)
\* A fence is in FencesIn(w, S) when some attempt row of w with that fence has a
\* resource in a state of S.
LEMMA FencesInMeans ==
  ASSUME NEW w, NEW S
  PROVE  /\ FencesIn(w, S) = {attempt[a].fence : a \in
              {b \in AttemptIds : attempt[b].work = w /\ resource[b] \in S}}
         /\ FencesIn(w, S)' = {attempt'[a].fence : a \in
              {b \in AttemptIds : attempt'[b].work = w /\ resource'[b] \in S}}
BY DEF FencesIn, AttemptsOf

\* Rows that keep their binding and their membership in S give the same fences.
LEMMA SameFences ==
  ASSUME NEW w, NEW S,
         \A b \in AttemptIds :
           /\ (attempt'[b].work = w /\ resource'[b] \in S)
                <=> (attempt[b].work = w /\ resource[b] \in S)
           /\ attempt'[b].work = w /\ resource'[b] \in S =>
                attempt'[b].fence = attempt[b].fence
  PROVE  FencesIn(w, S)' = FencesIn(w, S)
<1>1. ASSUME NEW x \in FencesIn(w, S)' PROVE x \in FencesIn(w, S)
  BY FencesInMeans
<1>2. ASSUME NEW x \in FencesIn(w, S) PROVE x \in FencesIn(w, S)'
  BY FencesInMeans
<1> QED
  BY <1>1, <1>2

\* A step that leaves the bindings and resources alone is a stutter of the lease.
LEMMA StutterStep ==
  ASSUME UNCHANGED <<attempt, resource>>
  PROVE  UNCHANGED Lease!leaseVars
<1>1. ASSUME NEW w, NEW S PROVE FencesIn(w, S)' = FencesIn(w, S)
  BY SameFences
<1> QED
  BY <1>1 DEF Lease!leaseVars

\* A claim acquires the worktree with the next fence.
LEMMA ClaimAcquires ==
  ASSUME Ownership, NEW a \in AttemptIds, ClaimKind(a)
  PROVE  Lease!LeaseNext
<1>1. PICK w \in Works, s \in Sessions, f \in Nat \ {0}, hard \in Nat, l \in Nat :
        ClaimRow(a, w, s, f, hard, l)
  BY DEF ClaimKind
<1>2. ExecTypeOK /\ RowsAgree
  BY DEF Ownership, TypeOK, ExecTypeOK
<1>3. attempt[a].work = NoWork /\ NoWork \notin Works
  BY <1>1, <1>2, BindingAssumption DEF ClaimRow, RowsAgree
<1>4. /\ attempt'[a].work = w /\ attempt'[a].fence = f /\ resource'[a] = "active"
      /\ \A b \in AttemptIds : b # a => /\ attempt'[b] = attempt[b]
                                        /\ resource'[b] = resource[b]
  BY <1>1, <1>2 DEF ClaimRow, ExecTypeOK
<1>5. \A b \in AttemptIds : attempt[b].work = w =>
        /\ resource[b] \notin {"active", "release_pending"}
        /\ attempt[b].fence < f /\ resource[b] \in ResourceStates
  BY <1>1, <1>2 DEF ClaimRow, AttemptsOf, LiveResource, ExecTypeOK
<1>6. ASSUME NEW v \in Works, v # w, NEW S PROVE FencesIn(v, S)' = FencesIn(v, S)
  BY <1>3, <1>4, <1>6, SameFences
<1>7. /\ FencesIn(w, {"active"}) = {} /\ FencesIn(w, {"release_pending"}) = {}
      /\ FencesIn(w, {"release_pending"})' = {}
  BY <1>4, <1>5, FencesInMeans
<1>8. FencesIn(w, {"active"})' = {f}
  BY <1>4, <1>5, FencesInMeans
<1>9. FencesIn(w, ResourceStates)' = FencesIn(w, ResourceStates) \cup {f}
  BY <1>3, <1>4, FencesInMeans DEF ResourceStates
<1>10. /\ \A g \in FencesIn(w, ResourceStates) : g < f
       /\ f \in {1} \cup {g + 1 : g \in FencesIn(w, ResourceStates)}
  <2>1. \A g \in FencesIn(w, ResourceStates) : g < f
    BY <1>5, FencesInMeans
  <2>2. ASSUME NEW b \in AttemptsOf(w), f = attempt[b].fence + 1
        PROVE  f \in {g + 1 : g \in FencesIn(w, ResourceStates)}
    <3>1. attempt[b].fence \in FencesIn(w, ResourceStates)
      BY <1>5, FencesInMeans DEF AttemptsOf
    <3> QED
      BY <2>2, <3>1
  <2> QED
    BY <1>1, <2>1, <2>2 DEF ClaimRow
<1>11. Lease!Acquire(w)
  <2>1. [v \in Works |-> FencesIn(v, ResourceStates)'] =
          [[v \in Works |-> FencesIn(v, ResourceStates)]
             EXCEPT ![w] = FencesIn(w, ResourceStates) \cup {f}]
    BY <1>6, <1>9
  <2>2. [v \in Works |-> FencesIn(v, {"active"})'] =
          [[v \in Works |-> FencesIn(v, {"active"})] EXCEPT ![w] = {f}]
    BY <1>6, <1>8
  <2>3. [v \in Works |-> FencesIn(v, {"release_pending"})'] =
          [v \in Works |-> FencesIn(v, {"release_pending"})]
    BY <1>6, <1>7
  <2> QED
    BY <1>7, <1>10, <2>1, <2>2, <2>3 DEF Lease!Acquire
<1> QED
  BY <1>11 DEF Lease!LeaseNext

\* The end of an attempt moves its fence from held to releasing.
LEMMA EndStops ==
  ASSUME Ownership, NEW a \in AttemptIds, EndKind(a)
  PROVE  Lease!LeaseNext
<1>0. PICK w, f : w = attempt[a].work /\ f = attempt[a].fence
  OBVIOUS
<1>1. ExecTypeOK /\ RowsAgree /\ FencesAreUnique
  BY DEF Ownership, TypeOK, ExecTypeOK
<1>2. w \in Works /\ resource[a] = "active"
  BY <1>0, <1>1 DEF EndKind, RowsAgree, ExecTypeOK, LivePhases
<1>3. /\ UNCHANGED attempt
      /\ resource'[a] = "release_pending"
      /\ \A b \in AttemptIds : b # a => resource'[b] = resource[b]
  BY <1>1 DEF EndKind, EndAttempt, ExecTypeOK
<1>4. \A b \in AttemptIds : b # a /\ attempt[b].work = w => attempt[b].fence # f
  <2>1. \A b \in AttemptIds : attempt[b].work = w => phase[b] # "none"
    BY <1>1, <1>2, BindingAssumption DEF RowsAgree
  <2> QED
    BY <1>0, <1>1, <2>1 DEF FencesAreUnique
<1>5. ASSUME NEW v \in Works, v # w, NEW S PROVE FencesIn(v, S)' = FencesIn(v, S)
  BY <1>0, <1>3, <1>5, SameFences
<1>6. FencesIn(w, ResourceStates)' = FencesIn(w, ResourceStates)
  BY <1>0, <1>2, <1>3, SameFences DEF ResourceStates
<1>7. f \in FencesIn(w, {"active"}) /\ FencesIn(w, {"active"})' = FencesIn(w, {"active"}) \ {f}
  BY <1>0, <1>2, <1>3, <1>4, FencesInMeans
<1>8. FencesIn(w, {"release_pending"})' = FencesIn(w, {"release_pending"}) \cup {f}
  BY <1>0, <1>2, <1>3, FencesInMeans
<1>9. Lease!Stop(w)
  <2>1. [v \in Works |-> FencesIn(v, {"active"})'] =
          [[v \in Works |-> FencesIn(v, {"active"})]
             EXCEPT ![w] = FencesIn(w, {"active"}) \ {f}]
    BY <1>5, <1>7
  <2>2. [v \in Works |-> FencesIn(v, {"release_pending"})'] =
          [[v \in Works |-> FencesIn(v, {"release_pending"})]
             EXCEPT ![w] = FencesIn(w, {"release_pending"}) \cup {f}]
    BY <1>5, <1>8
  <2>3. [v \in Works |-> FencesIn(v, ResourceStates)'] =
          [v \in Works |-> FencesIn(v, ResourceStates)]
    BY <1>5, <1>6
  <2> QED
    BY <1>2, <1>7, <2>1, <2>2, <2>3 DEF Lease!Stop
<1> QED
  BY <1>2, <1>9 DEF Lease!LeaseNext

\* An acknowledged release takes the fence out of releasing.
LEMMA ResolveAcknowledges ==
  ASSUME Ownership, NEW a \in AttemptIds, ResolveKind(a), ~UNCHANGED resource
  PROVE  Lease!LeaseNext
<1>0. PICK w, f : w = attempt[a].work /\ f = attempt[a].fence
  OBVIOUS
<1>1. ExecTypeOK /\ RowsAgree /\ FencesAreUnique
  BY DEF Ownership, TypeOK, ExecTypeOK
<1>2. w \in Works /\ resource[a] = "release_pending"
  BY <1>0, <1>1 DEF ResolveKind, RowsAgree, ExecTypeOK
<1>3. /\ UNCHANGED attempt
      /\ resource'[a] = "released"
      /\ \A b \in AttemptIds : b # a => resource'[b] = resource[b]
  BY <1>1 DEF ResolveKind, ExecTypeOK
<1>4. \A b \in AttemptIds : b # a /\ attempt[b].work = w => attempt[b].fence # f
  <2>1. \A b \in AttemptIds : attempt[b].work = w => phase[b] # "none"
    BY <1>1, <1>2, BindingAssumption DEF RowsAgree
  <2> QED
    BY <1>0, <1>1, <2>1 DEF FencesAreUnique
<1>5. ASSUME NEW v \in Works, v # w, NEW S PROVE FencesIn(v, S)' = FencesIn(v, S)
  BY <1>0, <1>3, <1>5, SameFences
<1>6. /\ FencesIn(w, ResourceStates)' = FencesIn(w, ResourceStates)
      /\ FencesIn(w, {"active"})' = FencesIn(w, {"active"})
  BY <1>0, <1>2, <1>3, SameFences DEF ResourceStates
<1>7. /\ f \in FencesIn(w, {"release_pending"})
      /\ FencesIn(w, {"release_pending"})' = FencesIn(w, {"release_pending"}) \ {f}
  BY <1>0, <1>2, <1>3, <1>4, FencesInMeans
<1>8. Lease!Acknowledge(w)
  <2>1. [v \in Works |-> FencesIn(v, {"release_pending"})'] =
          [[v \in Works |-> FencesIn(v, {"release_pending"})]
             EXCEPT ![w] = FencesIn(w, {"release_pending"}) \ {f}]
    BY <1>5, <1>7
  <2>2. /\ [v \in Works |-> FencesIn(v, ResourceStates)'] =
             [v \in Works |-> FencesIn(v, ResourceStates)]
        /\ [v \in Works |-> FencesIn(v, {"active"})'] =
             [v \in Works |-> FencesIn(v, {"active"})]
    BY <1>5, <1>6
  <2> QED
    BY <1>2, <1>7, <2>1, <2>2 DEF Lease!Acknowledge
<1> QED
  BY <1>2, <1>8 DEF Lease!LeaseNext

\* Every behaviour of the store, whatever the number of work items, sessions and
\* attempts, is a behaviour of the worktree lease under the refinement mapping.
THEOREM StoreImplementsLease == Spec => ImplementsWorktreeLease
<1>1. Init => Lease!LeaseInit
  <2>1. ASSUME Init, NEW w \in Works, NEW S PROVE FencesIn(w, S) = {}
    <3>1. \A b \in AttemptIds : attempt[b].work # w
      BY <2>1, BindingAssumption DEF Init
    <3> QED
      BY <3>1, FencesInMeans
  <2> QED
    BY <2>1 DEF Lease!LeaseInit
<1>2. Ownership /\ [Next]_vars => [Lease!LeaseNext]_(Lease!leaseVars)
  <2>1. SUFFICES ASSUME Ownership, [Next]_vars
                 PROVE  Lease!LeaseNext \/ UNCHANGED Lease!leaseVars
    OBVIOUS
  <2>2. CASE UNCHANGED execVars
    BY <2>2, StutterStep DEF execVars
  <2>3. ASSUME NEW a \in AttemptIds, LiveKind(a) PROVE UNCHANGED Lease!leaseVars
    BY <2>3, StutterStep DEF LiveKind
  <2>4. ASSUME NEW a \in AttemptIds, ResolveKind(a), UNCHANGED resource
        PROVE  UNCHANGED Lease!leaseVars
    BY <2>4, StutterStep DEF ResolveKind
  <2>5. TypeOK
    BY <2>1 DEF Ownership
  <2> QED
    BY <2>1, <2>2, <2>3, <2>4, <2>5, KindsOfStep, ClaimAcquires, EndStops,
       ResolveAcknowledges
<1> QED
  BY <1>1, <1>2, OwnershipInvariant, PTL DEF Spec, ImplementsWorktreeLease, Lease!LeaseSpec

-----------------------------------------------------------------------------
(* A closed work item is proved and settled.                               *)

\* A submission was sealed by a completed attempt, in the current generation or
\* an earlier one; while it is current nobody executes its work item and no
\* later attempt exists.
SubmissionsEndExecution ==
  \A a \in AttemptIds : sealed[a] # 0 =>
    /\ phase[a] = "completed"
    /\ sealed[a] <= generation[attempt[a].work]
    /\ sealed[a] = generation[attempt[a].work] =>
         \A b \in AttemptsOf(attempt[a].work) :
           ~current[b] /\ attempt[b].fence <= attempt[a].fence

CloseInv == Ownership /\ SubmissionsEndExecution /\ ClosedIsProved

\* A step of execution or recovery on an existing row.
RowStep ==
  /\ UNCHANGED <<attempt, lifecycle, generation, reviewed, accepted, exception, sealed,
                 verdict, intent>>
  /\ \/ UNCHANGED execVars
     \/ \E a \in AttemptIds : LiveKind(a) \/ EndKind(a) \/ ResolveKind(a)

\* What the facts of a snapshot say about the rows.
LEMMA FactsMean ==
  ASSUME Ownership, NEW w \in Works, NEW at
  PROVE  /\ Facts(w, at).lifecycle = lifecycle[w]
         /\ Facts(w, at).lifecycle \in Lifecycles
         /\ Facts(w, at).phase \in FactPhases
         /\ ~Facts(w, at).submitted => \A a \in AttemptIds : ~IsSubmission(w, a)
         /\ Facts(w, at).recovery \notin {"expired", "other"} =>
              \A a \in AttemptsOf(w) : ~Unresolved(a)
<1>1. TypeOK /\ RowsAgree
  BY DEF Ownership
<1> DEFINE live == {a \in AttemptsOf(w) : current[a]}
           open == {a \in AttemptsOf(w) : Unresolved(a)}
           sub == {a \in AttemptsOf(w) : IsSubmission(w, a)}
<1>2. Facts(w, at).lifecycle = lifecycle[w] /\ lifecycle[w] \in Lifecycles
  BY <1>1 DEF Facts, TypeOK
<1>3. Facts(w, at).phase \in FactPhases
  <2>1. Facts(w, at).phase = IF live = {} THEN "none"
                             ELSE phase[CHOOSE a \in live : TRUE]
    BY DEF Facts
  <2>2. \A a \in live : phase[a] \in LivePhases
    BY <1>1 DEF RowsAgree, AttemptsOf
  <2>3. live # {} => (CHOOSE a \in live : TRUE) \in live
    OBVIOUS
  <2> HIDE DEF live
  <2> QED
    BY <2>1, <2>2, <2>3 DEF FactPhases
<1>4. Facts(w, at).submitted = (sub # {})
  BY DEF Facts
<1>5. ~Facts(w, at).submitted => \A a \in AttemptIds : ~IsSubmission(w, a)
  BY <1>4 DEF IsSubmission
<1>6. Facts(w, at).recovery = IF \E a \in open : obligation[a] = "expired" THEN "expired"
                              ELSE IF open # {} THEN "other" ELSE "none"
  BY DEF Facts
<1>7. Facts(w, at).recovery \notin {"expired", "other"} =>
        \A a \in AttemptsOf(w) : ~Unresolved(a)
  BY <1>6
<1> QED
  BY <1>2, <1>3, <1>5, <1>7

\* Every step is a claim, one of the steps of submission, review and close, a
\* lifecycle command, or works on an existing row.
LEMMA KindsOfCloseStep ==
  ASSUME Ownership, [Next]_vars
  PROVE  \/ ClaimStep
         \/ \E a \in AttemptIds, at \in Sampled :
              SealAndRequestClose(a, at) \/ FinalizeClose(a, at)
         \/ \E a \in AttemptIds :
              \/ \E at \in Sampled : RequestCloseAgain(a, at)
              \/ RejectClose(a)
              \/ \E o \in {"approved", "rejected"} : Review(a, o)
         \/ \E a \in AttemptIds : RevokeReview(a)
         \/ \E w \in Works : GateException(w) \/ RevokeException(w)
         \/ \E w \in Works : Publish(w) \/ CancelWork(w) \/ Reopen(w) \/ Retry(w)
         \/ RowStep
<1>1. TypeOK /\ RowsAgree /\ ExecTypeOK
  BY DEF Ownership, TypeOK, ExecTypeOK
<1>2. ASSUME UNCHANGED <<attempt, workVars, proofVars>> PROVE RowStep
  <2>1. ASSUME NEW a \in AttemptIds, ClaimKind(a) PROVE FALSE
    <3>1. PICK w \in Works, s \in Sessions, f \in Nat \ {0}, hard \in Nat, l \in Nat :
            ClaimRow(a, w, s, f, hard, l)
      BY <2>1 DEF ClaimKind
    <3>2. attempt[a].work = NoWork /\ attempt'[a].work = w
      BY <1>1, <3>1 DEF ClaimRow, RowsAgree, ExecTypeOK
    <3> QED
      BY <1>2, <3>2, BindingAssumption
  <2>2. \/ UNCHANGED execVars
        \/ \E a \in AttemptIds : LiveKind(a) \/ EndKind(a) \/ ResolveKind(a)
    BY <1>1, <2>1, KindsOfStep
  <2> QED
    BY <1>2, <2>2 DEF RowStep, workVars, decisionVars, proofVars
<1>3. CASE SessionStep
  BY <1>2, <1>3 DEF SessionStep, RegisterSession, EndSession, execVars
<1>4. CASE OwnerStep
  <2>1. PICK a \in AttemptIds, at \in Sampled :
          \/ Accept(a, at) \/ Start(a, at) \/ Submit(a, at)
          \/ \E ttl \in TTLs : RenewLease(a, at, ttl)
          \/ Release(a, at) \/ Fail(a, at) \/ Cancel(a, at)
          \/ SealAndRequestClose(a, at) \/ RequestCloseAgain(a, at)
          \/ LateReceipt(a) \/ FinalizeClose(a, at) \/ RejectClose(a)
    BY <1>4 DEF OwnerStep
  <2>2. CASE Accept(a, at) \/ Start(a, at) \/ Submit(a, at)
    BY <1>2, <2>2 DEF Accept, Start, Submit, Advance
  <2>3. CASE \E ttl \in TTLs : RenewLease(a, at, ttl)
    BY <1>2, <2>3 DEF RenewLease
  <2>4. CASE Release(a, at) \/ Fail(a, at) \/ Cancel(a, at)
    BY <1>2, <2>4 DEF Release, Fail, Cancel, EndAttempt
  <2>5. CASE LateReceipt(a)
    BY <2>5 DEF LateReceipt, RowStep, execVars, proofVars
  <2> QED
    BY <2>1, <2>2, <2>3, <2>4, <2>5
<1>5. CASE ServiceStep
  BY <1>2, <1>5 DEF ServiceStep, ReconcileDeadline, Expire, EndAttempt
<1>6. CASE OperatorStep
  <2>1. ASSUME NEW a \in AttemptIds, NEW d, ResolveRecovery(a, d) PROVE RowStep
    BY <1>2, <2>1 DEF ResolveRecovery
  <2> QED
    BY <1>6, <2>1 DEF OperatorStep
<1>7. CASE Tick
  BY <1>2, <1>7 DEF Tick, execVars
<1>8. CASE UNCHANGED vars
  BY <1>2, <1>8 DEF vars, execVars
<1> QED
  BY <1>3, <1>4, <1>5, <1>6, <1>7, <1>8 DEF Next

\* Steps on existing rows: a sealed attempt is terminal, so neither it nor, by
\* the invariant, any attempt of its work item can start executing again.
LEMMA RowStepKeeps ==
  ASSUME CloseInv, RowStep
  PROVE  SubmissionsEndExecution' /\ ClosedIsProved'
<1>1. ExecTypeOK /\ RowsAgree /\ SubmissionsEndExecution /\ ClosedIsProved
  BY DEF CloseInv, Ownership, TypeOK, ExecTypeOK
<1>2. UNCHANGED <<attempt, lifecycle, generation, reviewed, accepted, exception, sealed,
                  verdict, intent>>
  BY DEF RowStep
<1>3. /\ \A b \in AttemptIds : current'[b] => current[b]
      /\ \A b \in AttemptIds : phase[b] = "completed" => phase'[b] = "completed"
      /\ \A b \in AttemptIds : ~current[b] /\ obligation[b] = "resolved" =>
                                 obligation'[b] = "resolved"
  <2>1. CASE UNCHANGED execVars
    BY <2>1 DEF execVars
  <2>2. ASSUME NEW a \in AttemptIds, LiveKind(a) \/ EndKind(a) \/ ResolveKind(a)
        PROVE  /\ \A b \in AttemptIds : current'[b] => current[b]
               /\ \A b \in AttemptIds : phase[b] = "completed" => phase'[b] = "completed"
               /\ \A b \in AttemptIds : ~current[b] /\ obligation[b] = "resolved" =>
                                          obligation'[b] = "resolved"
    <3>1. CASE LiveKind(a)
      BY <1>1, <3>1 DEF LiveKind, ExecTypeOK, LivePhases
    <3>2. CASE EndKind(a)
      BY <1>1, <3>2 DEF EndKind, EndAttempt, ExecTypeOK, LivePhases
    <3>3. CASE ResolveKind(a)
      BY <1>1, <3>3 DEF ResolveKind, ExecTypeOK
    <3> QED
      BY <2>2, <3>1, <3>2, <3>3
  <2> QED
    BY <2>1, <2>2 DEF RowStep
<1>4. SubmissionsEndExecution'
  BY <1>1, <1>2, <1>3 DEF SubmissionsEndExecution, AttemptsOf
<1>5. ClosedIsProved'
  BY <1>1, <1>2, <1>3 DEF ClosedIsProved, ReviewStands, AttemptsOf
<1> QED
  BY <1>4, <1>5

\* A claim is permitted only on an open item with no current submission.
LEMMA ClaimKeeps ==
  ASSUME CloseInv, ClaimStep
  PROVE  SubmissionsEndExecution' /\ ClosedIsProved'
<1>1. ExecTypeOK /\ RowsAgree /\ SubmissionsEndExecution /\ ClosedIsProved /\ Ownership
  BY DEF CloseInv, Ownership, TypeOK, ExecTypeOK
<1>2. PICK w \in Works, s \in Sessions, a \in AttemptIds, at \in Sampled,
           ttl \in TTLs, budget \in Budgets : Claim(w, s, a, at, ttl, budget)
  BY DEF ClaimStep
<1>3. lifecycle[w] = "open" /\ \A b \in AttemptIds : ~IsSubmission(w, b)
  <2>1. EvaluateStatus(Facts(w, at)) = "ready"
    BY <1>2, ClaimMeansReady DEF Claim, Permit
  <2> QED
    BY <1>1, <2>1, FactsMean, ReadyIsIdle
<1>4. PICK f \in Fences :
        attempt' = [attempt EXCEPT ![a] =
          [work |-> w, session |-> s, fence |-> f, hard |-> at + budget]]
  BY <1>2 DEF Claim
<1>5. /\ phase[a] = "none"
      /\ phase' = [phase EXCEPT ![a] = "claimed"]
      /\ current' = [current EXCEPT ![a] = TRUE]
      /\ UNCHANGED <<lifecycle, generation, reviewed, accepted, exception, obligation,
                     sealed, verdict, intent>>
  BY <1>2 DEF Claim, workVars, decisionVars, proofVars
<1>6. /\ attempt'[a].work = w
      /\ \A b \in AttemptIds : b # a => /\ attempt'[b] = attempt[b]
                                        /\ phase'[b] = phase[b]
                                        /\ current'[b] = current[b]
  BY <1>1, <1>4, <1>5 DEF ExecTypeOK
<1>7. sealed[a] = 0
  BY <1>1, <1>5 DEF SubmissionsEndExecution
<1>8. SubmissionsEndExecution'
  <2>1. SUFFICES ASSUME NEW c \in AttemptIds, sealed[c] # 0
        PROVE  /\ phase'[c] = "completed"
               /\ sealed[c] <= generation[attempt'[c].work]
               /\ sealed[c] = generation[attempt'[c].work] =>
                    \A b \in AttemptIds : attempt'[b].work = attempt'[c].work =>
                      ~current'[b] /\ attempt'[b].fence <= attempt'[c].fence
    BY <1>5 DEF SubmissionsEndExecution, AttemptsOf
  <2>2. c # a /\ attempt'[c] = attempt[c] /\ phase'[c] = phase[c]
    BY <1>6, <1>7, <2>1
  <2>3. sealed[c] = generation[attempt[c].work] => attempt[c].work # w
    BY <1>3, <2>1 DEF IsSubmission, AttemptsOf
  <2>4. ASSUME sealed[c] = generation[attempt[c].work], NEW b \in AttemptIds,
               attempt'[b].work = attempt[c].work
        PROVE  ~current'[b] /\ attempt'[b].fence <= attempt[c].fence
    <3>1. b # a
      BY <1>6, <2>3, <2>4
    <3> QED
      BY <1>1, <1>6, <2>1, <2>4, <3>1 DEF SubmissionsEndExecution, AttemptsOf
  <2> QED
    BY <1>1, <2>1, <2>2, <2>4 DEF SubmissionsEndExecution
<1>9. ClosedIsProved'
  <2>1. SUFFICES ASSUME NEW v \in Works, lifecycle[v] = "closed"
        PROVE  /\ \E b \in AttemptIds :
                    /\ attempt'[b].work = v
                    /\ sealed[b] = generation[v] /\ intent[b] = "finalized"
                    /\ accepted[v] => ReviewStands(v, b)
               /\ \A b \in AttemptIds : attempt'[b].work = v =>
                    ~current'[b] /\ obligation[b] = "resolved"
    BY <1>1, <1>5 DEF ClosedIsProved, ReviewStands, AttemptsOf
  <2>2. v # w
    BY <1>3, <2>1
  <2>3. PICK b \in AttemptIds : /\ attempt[b].work = v
                                /\ sealed[b] = generation[v] /\ intent[b] = "finalized"
                                /\ accepted[v] => ReviewStands(v, b)
    BY <1>1, <2>1 DEF ClosedIsProved, AttemptsOf
  <2>4. b # a
    BY <1>1, <1>5, <2>3, BindingAssumption DEF RowsAgree
  <2>5. \A c \in AttemptIds : attempt'[c].work = v =>
          ~current'[c] /\ obligation[c] = "resolved"
    BY <1>1, <1>6, <2>1, <2>2 DEF ClosedIsProved, AttemptsOf
  <2> QED
    BY <1>6, <2>3, <2>4, <2>5
<1> QED
  BY <1>8, <1>9

\* Sealing ends the only execution of the item, which holds the largest fence.
LEMMA SealKeeps ==
  ASSUME CloseInv, NEW a \in AttemptIds, NEW at \in Sampled, SealAndRequestClose(a, at)
  PROVE  SubmissionsEndExecution' /\ ClosedIsProved'
<1>1. /\ ExecTypeOK /\ RowsAgree /\ SubmissionsEndExecution /\ ClosedIsProved
      /\ FencesAreUnique /\ ReuseNeedsAcknowledgement
      /\ generation \in [Works -> Nat] /\ sealed \in [AttemptIds -> Nat]
      /\ intent \in [AttemptIds -> {"none", "open", "finalized", "rejected"}]
  BY DEF CloseInv, Ownership, TypeOK, ExecTypeOK
<1>2. PICK w : w = attempt[a].work
  OBVIOUS
<1>3. current[a] /\ phase[a] # "none" /\ lifecycle[w] = "open" /\ w \in Works
  BY <1>1, <1>2 DEF SealAndRequestClose, CloseSubject, RowsAgree, ExecTypeOK
<1>4. /\ UNCHANGED <<attempt, lifecycle, generation, reviewed, accepted, exception, verdict>>
      /\ sealed' = [sealed EXCEPT ![a] = generation[w]]
      /\ intent' = [intent EXCEPT ![a] = "open"]
      /\ phase' = [phase EXCEPT ![a] = "completed"]
      /\ current' = [current EXCEPT ![a] = FALSE]
      /\ obligation' = [obligation EXCEPT ![a] = "other"]
  BY <1>2 DEF SealAndRequestClose, EndAttempt, workVars, decisionVars
<1>5. /\ sealed'[a] = generation[w] /\ phase'[a] = "completed" /\ current'[a] = FALSE
      /\ \A b \in AttemptIds : b # a =>
           /\ sealed'[b] = sealed[b] /\ intent'[b] = intent[b] /\ phase'[b] = phase[b]
           /\ current'[b] = current[b] /\ obligation'[b] = obligation[b]
  BY <1>1, <1>4 DEF ExecTypeOK
<1>6. \A b \in AttemptIds : b # a /\ attempt[b].work = w =>
        ~current[b] /\ attempt[b].fence <= attempt[a].fence
  <2>1. SUFFICES ASSUME NEW b \in AttemptIds, b # a, attempt[b].work = w
                 PROVE  ~current[b] /\ attempt[b].fence <= attempt[a].fence
    OBVIOUS
  <2>2. phase[b] # "none"
    BY <1>1, <1>3, <2>1, BindingAssumption DEF RowsAgree
  <2>3. attempt[a].fence \in Nat /\ attempt[b].fence \in Nat
    BY <1>1 DEF ExecTypeOK
  <2>4. attempt[b].fence # attempt[a].fence
    BY <1>1, <1>2, <1>3, <2>1, <2>2 DEF FencesAreUnique
  <2>5. ~(attempt[a].fence < attempt[b].fence)
    <3>1. phase[a] \notin TerminalPhases
      BY <1>1, <1>3 DEF RowsAgree, LivePhases, TerminalPhases
    <3> QED
      BY <1>1, <1>2, <1>3, <2>1, <2>2, <3>1 DEF ReuseNeedsAcknowledgement
  <2>6. attempt[b].fence < attempt[a].fence
    BY <2>3, <2>4, <2>5
  <2>7. phase[b] \in TerminalPhases
    BY <1>1, <1>2, <1>3, <2>1, <2>2, <2>6 DEF ReuseNeedsAcknowledgement
  <2> QED
    BY <1>1, <2>3, <2>6, <2>7 DEF RowsAgree, LivePhases, TerminalPhases
<1>7. SubmissionsEndExecution'
  <2>1. SUFFICES ASSUME NEW c \in AttemptIds, sealed'[c] # 0
        PROVE  /\ phase'[c] = "completed"
               /\ sealed'[c] <= generation[attempt[c].work]
               /\ sealed'[c] = generation[attempt[c].work] =>
                    \A b \in AttemptIds : attempt[b].work = attempt[c].work =>
                      ~current'[b] /\ attempt[b].fence <= attempt[c].fence
    BY <1>4 DEF SubmissionsEndExecution, AttemptsOf
  <2>2. CASE c = a
    <3>1. attempt[a].fence <= attempt[a].fence /\ generation[w] <= generation[w]
      BY <1>1, <1>3 DEF ExecTypeOK
    <3> QED
      BY <1>2, <1>5, <1>6, <2>2, <3>1
  <2>3. CASE c # a
    <3>1. sealed[c] # 0
      BY <1>5, <2>1, <2>3
    <3>2. \A b \in AttemptIds : current'[b] => current[b]
      BY <1>5
    <3> QED
      BY <1>1, <1>5, <2>3, <3>1, <3>2 DEF SubmissionsEndExecution, AttemptsOf
  <2> QED
    BY <2>2, <2>3
<1>8. ClosedIsProved'
  <2>1. SUFFICES ASSUME NEW v \in Works, lifecycle[v] = "closed"
        PROVE  /\ \E b \in AttemptIds :
                    /\ attempt[b].work = v
                    /\ sealed'[b] = generation[v] /\ intent'[b] = "finalized"
                    /\ accepted[v] => ReviewStands(v, b)
               /\ \A b \in AttemptIds : attempt[b].work = v =>
                    ~current'[b] /\ obligation'[b] = "resolved"
    BY <1>1, <1>4 DEF ClosedIsProved, ReviewStands, AttemptsOf
  <2>2. \A b \in AttemptIds : attempt[b].work = v => b # a
    BY <1>2, <1>3, <2>1
  <2> QED
    BY <1>1, <1>5, <2>1, <2>2 DEF ClosedIsProved, AttemptsOf
<1> QED
  BY <1>7, <1>8

\* The close itself: the permission excludes an outstanding recovery, the
\* submission excludes execution, so every attempt of the item is settled.
LEMMA FinalizeKeeps ==
  ASSUME CloseInv, NEW a \in AttemptIds, NEW at \in Sampled, FinalizeClose(a, at)
  PROVE  SubmissionsEndExecution' /\ ClosedIsProved'
<1>1. /\ ExecTypeOK /\ RowsAgree /\ SubmissionsEndExecution /\ ClosedIsProved /\ Ownership
      /\ lifecycle \in [Works -> Lifecycles] /\ accepted \in [Works -> BOOLEAN]
      /\ intent \in [AttemptIds -> {"none", "open", "finalized", "rejected"}]
  BY DEF CloseInv, Ownership, TypeOK, ExecTypeOK
<1>2. PICK w : w = attempt[a].work
  OBVIOUS
<1>3. /\ phase[a] # "none" /\ lifecycle[w] = "open" /\ w \in Works
      /\ sealed[a] # 0 /\ sealed[a] = generation[w] /\ ReviewStands(w, a)
  BY <1>1, <1>2 DEF FinalizeClose, CloseSubject, IsSubmission, RowsAgree, ExecTypeOK
<1>4. /\ UNCHANGED <<attempt, phase, current, obligation, generation, reviewed, exception,
                     sealed, verdict>>
      /\ intent' = [intent EXCEPT ![a] = "finalized"]
      /\ lifecycle' = [lifecycle EXCEPT ![w] = "closed"]
      /\ accepted' = [accepted EXCEPT ![w] = TRUE]
  BY <1>2 DEF FinalizeClose, execVars
<1>5. SubmissionsEndExecution'
  BY <1>1, <1>4 DEF SubmissionsEndExecution, AttemptsOf
<1>6. \A b \in AttemptIds : attempt[b].work = w =>
        ~current[b] /\ obligation[b] = "resolved"
  <2>1. \A b \in AttemptIds : attempt[b].work = w => ~current[b]
    BY <1>1, <1>2, <1>3 DEF SubmissionsEndExecution, AttemptsOf
  <2>2. \A b \in AttemptsOf(w) : ~Unresolved(b)
    BY <1>1, <1>2, <1>3, FactsMean, CloseIsSettled DEF FinalizeClose, Permit
  <2>3. \A b \in AttemptIds : attempt[b].work = w => obligation[b] # "none"
    <3>1. \A b \in AttemptIds : attempt[b].work = w => phase[b] # "none"
      BY <1>1, <1>3, BindingAssumption DEF RowsAgree
    <3> QED
      BY <1>1, <2>1, <3>1 DEF RowsAgree, ExecTypeOK
  <2> QED
    BY <1>1, <2>1, <2>2, <2>3 DEF AttemptsOf, Unresolved, ExecTypeOK, ObligationStates
<1>7. \A v \in Works : accepted'[v] => lifecycle'[v] = "closed"
  BY <1>1, <1>4 DEF ClosedIsProved
<1>8. \A v \in Works, b \in AttemptIds : ReviewStands(v, b)' = ReviewStands(v, b)
  BY <1>4 DEF ReviewStands
<1>9. ClosedIsProved'
  <2>1. SUFFICES ASSUME NEW v \in Works, lifecycle'[v] = "closed"
        PROVE  /\ \E b \in AttemptIds :
                    /\ attempt[b].work = v
                    /\ sealed[b] = generation[v] /\ intent'[b] = "finalized"
                    /\ accepted'[v] => ReviewStands(v, b)
               /\ \A b \in AttemptIds : attempt[b].work = v =>
                    ~current[b] /\ obligation[b] = "resolved"
    BY <1>4, <1>7, <1>8 DEF ClosedIsProved, AttemptsOf
  <2>2. intent'[a] = "finalized" /\ \A b \in AttemptIds : intent[b] = "finalized" =>
                                       intent'[b] = "finalized"
    BY <1>1, <1>4
  <2>3. CASE v = w
    BY <1>2, <1>3, <1>6, <2>2, <2>3
  <2>4. CASE v # w
    <3>1. lifecycle[v] = "closed" /\ accepted'[v] = accepted[v]
      BY <1>1, <1>3, <1>4, <2>1, <2>4
    <3> QED
      BY <1>1, <2>2, <3>1 DEF ClosedIsProved, AttemptsOf
  <2> QED
    BY <2>3, <2>4
<1> QED
  BY <1>5, <1>9

\* Reviews and later intents concern items that are not closed.
LEMMA ReviewKeeps ==
  ASSUME CloseInv, NEW a \in AttemptIds,
         \/ \E at \in Sampled : RequestCloseAgain(a, at)
         \/ RejectClose(a)
         \/ \E o \in {"approved", "rejected"} : Review(a, o)
  PROVE  SubmissionsEndExecution' /\ ClosedIsProved'
<1>1. /\ ExecTypeOK /\ RowsAgree /\ SubmissionsEndExecution /\ ClosedIsProved /\ Ownership
      /\ intent \in [AttemptIds -> {"none", "open", "finalized", "rejected"}]
      /\ verdict \in [AttemptIds -> {"none", "approved", "rejected"}]
  BY DEF CloseInv, Ownership, TypeOK, ExecTypeOK
<1>2. UNCHANGED <<attempt, phase, current, obligation, lifecycle, generation, reviewed,
                  accepted, exception, sealed>>
  BY DEF RequestCloseAgain, RejectClose, Review, execVars, workVars, decisionVars
<1>3. \A b \in AttemptIds : b # a => intent'[b] = intent[b] /\ verdict'[b] = verdict[b]
  BY <1>1 DEF RequestCloseAgain, RejectClose, Review
<1>4. lifecycle[attempt[a].work] # "closed"
  <2>1. CASE (\E at \in Sampled : RequestCloseAgain(a, at)) \/ RejectClose(a)
    BY <2>1 DEF RequestCloseAgain, RejectClose, CloseSubject
  <2>2. ASSUME NEW o, Review(a, o) PROVE lifecycle[attempt[a].work] # "closed"
    <3>1. attempt[a].work \in Works
      BY <1>1, <2>2 DEF Review, ReviewSubject, RowsAgree, ExecTypeOK
    <3>2. Authorized(Facts(attempt[a].work, now), "review", "reviewer", TRUE, FALSE)
      BY <2>2 DEF Review, Permit
    <3> QED
      BY <1>1, <3>1, <3>2, FactsMean, ClosedIsLeftAlone
  <2> QED
    BY <2>1, <2>2
<1>5. SubmissionsEndExecution'
  BY <1>1, <1>2 DEF SubmissionsEndExecution, AttemptsOf
<1>6. ClosedIsProved'
  BY <1>1, <1>2, <1>3, <1>4 DEF ClosedIsProved, ReviewStands, AttemptsOf
<1> QED
  BY <1>5, <1>6

\* A decision that is withdrawn takes the outcome with it, and an exception that is
\* granted only helps; the rows of executions and intents are not touched.
LEMMA DecisionKeeps ==
  ASSUME CloseInv,
         \/ \E a \in AttemptIds : RevokeReview(a)
         \/ \E w \in Works : GateException(w) \/ RevokeException(w)
  PROVE  SubmissionsEndExecution' /\ ClosedIsProved'
<1>1. /\ RowsAgree /\ SubmissionsEndExecution /\ ClosedIsProved
      /\ accepted \in [Works -> BOOLEAN] /\ exception \in [Works -> BOOLEAN]
      /\ verdict \in [AttemptIds -> {"none", "approved", "rejected"}]
      /\ \A a \in AttemptIds : attempt[a].work \in Works \cup {NoWork}
  BY DEF CloseInv, Ownership, TypeOK
<1>2. UNCHANGED <<attempt, phase, current, obligation, lifecycle, generation, reviewed,
                  sealed, intent>>
  BY DEF RevokeReview, GateException, RevokeException, execVars, proofVars
<1>3. SubmissionsEndExecution'
  BY <1>1, <1>2 DEF SubmissionsEndExecution, AttemptsOf
<1>4. \A w \in Works : accepted'[w] => accepted[w]
  BY <1>1 DEF RevokeReview, GateException, RevokeException, InvalidateOutcomes
<1>5. \A w \in Works : \A b \in AttemptsOf(w) :
        accepted'[w] /\ ReviewStands(w, b) => ReviewStands(w, b)'
  <2>1. ASSUME NEW a \in AttemptIds, RevokeReview(a), NEW w \in Works,
               NEW b \in AttemptsOf(w), accepted'[w], ReviewStands(w, b)
        PROVE  ReviewStands(w, b)'
    <3>1. /\ accepted' = [accepted EXCEPT ![attempt[a].work] = FALSE]
          /\ verdict' = [verdict EXCEPT ![a] = "rejected"]
          /\ UNCHANGED <<reviewed, exception>>
      BY <2>1 DEF RevokeReview, InvalidateOutcomes
    <3>2. attempt[a].work # w
      BY <1>1, <2>1, <3>1
    <3>3. verdict'[b] = verdict[b]
      BY <1>1, <2>1, <3>1, <3>2 DEF AttemptsOf
    <3> QED
      BY <2>1, <3>1, <3>3 DEF ReviewStands
  <2>2. ASSUME NEW v \in Works, GateException(v), NEW w \in Works,
               NEW b \in AttemptsOf(w), ReviewStands(w, b)
        PROVE  ReviewStands(w, b)'
    BY <1>1, <2>2 DEF GateException, ReviewStands, proofVars
  <2>3. ASSUME NEW v \in Works, RevokeException(v), NEW w \in Works,
               NEW b \in AttemptsOf(w), accepted'[w], ReviewStands(w, b)
        PROVE  ReviewStands(w, b)'
    <3>1. /\ accepted' = [accepted EXCEPT ![v] = FALSE]
          /\ exception' = [exception EXCEPT ![v] = FALSE]
          /\ UNCHANGED <<reviewed, verdict>>
      BY <2>3 DEF RevokeException, InvalidateOutcomes, proofVars
    <3>2. v # w /\ exception'[w] = exception[w]
      BY <1>1, <2>3, <3>1
    <3> QED
      BY <2>3, <3>1, <3>2 DEF ReviewStands
  <2> QED
    BY <2>1, <2>2, <2>3
<1>6. ClosedIsProved'
  <2>1. \A w \in Works : lifecycle[w] = "closed" =>
          \A b \in AttemptIds : attempt[b].work = w =>
            ~current[b] /\ obligation[b] = "resolved"
    BY <1>1 DEF ClosedIsProved, AttemptsOf
  <2>2. ASSUME NEW w \in Works, lifecycle[w] = "closed"
        PROVE  \E b \in AttemptsOf(w) :
                 /\ sealed[b] = generation[w] /\ intent[b] = "finalized"
                 /\ accepted'[w] => ReviewStands(w, b)'
    <3>1. PICK b \in AttemptsOf(w) :
            /\ sealed[b] = generation[w] /\ intent[b] = "finalized"
            /\ accepted[w] => ReviewStands(w, b)
      BY <1>1, <2>2 DEF ClosedIsProved
    <3> QED
      BY <1>4, <1>5, <3>1
  <2>3. \A w \in Works : accepted'[w] => lifecycle[w] = "closed"
    BY <1>1, <1>4 DEF ClosedIsProved
  <2> QED
    BY <1>2, <2>1, <2>2, <2>3 DEF ClosedIsProved, AttemptsOf
<1> QED
  BY <1>3, <1>6

\* Lifecycle commands leave the rows alone, and never leave an item closed that
\* they touch; a new generation is above every sealed one.
LEMMA LifecycleKeeps ==
  ASSUME CloseInv, NEW w \in Works, Publish(w) \/ CancelWork(w) \/ Reopen(w) \/ Retry(w)
  PROVE  SubmissionsEndExecution' /\ ClosedIsProved'
<1>1. /\ ExecTypeOK /\ RowsAgree /\ SubmissionsEndExecution /\ ClosedIsProved
      /\ lifecycle \in [Works -> Lifecycles] /\ generation \in [Works -> Nat]
      /\ sealed \in [AttemptIds -> Nat] /\ DecisionTypeOK
  BY DEF CloseInv, Ownership, TypeOK, ExecTypeOK, DecisionTypeOK
<1>2. UNCHANGED <<attempt, phase, current, obligation, reviewed, sealed, verdict, intent>>
  BY DEF Publish, CancelWork, Reopen, Retry, NewGeneration, execVars, proofVars
<1>3. /\ lifecycle'[w] # "closed"
      /\ \A v \in Works : v # w => /\ lifecycle'[v] = lifecycle[v]
                                   /\ generation'[v] = generation[v]
      /\ generation'[w] = generation[w] \/ generation'[w] = generation[w] + 1
  BY <1>1 DEF Publish, CancelWork, Reopen, Retry, NewGeneration
<1>4. SubmissionsEndExecution'
  <2>1. SUFFICES ASSUME NEW c \in AttemptIds, sealed[c] # 0
        PROVE  /\ phase[c] = "completed"
               /\ sealed[c] <= generation'[attempt[c].work]
               /\ sealed[c] = generation'[attempt[c].work] =>
                    \A b \in AttemptsOf(attempt[c].work) :
                      ~current[b] /\ attempt[b].fence <= attempt[c].fence
    BY <1>2 DEF SubmissionsEndExecution, AttemptsOf
  <2>2. phase[c] = "completed" /\ attempt[c].work \in Works
    BY <1>1, <2>1 DEF SubmissionsEndExecution, RowsAgree, ExecTypeOK
  <2>3. CASE attempt[c].work # w
    BY <1>1, <1>3, <2>1, <2>2, <2>3 DEF SubmissionsEndExecution
  <2>4. CASE attempt[c].work = w
    <3>1. sealed[c] <= generation[w] /\ sealed[c] \in Nat /\ generation[w] \in Nat
      BY <1>1, <2>1, <2>4 DEF SubmissionsEndExecution
    <3>2. /\ sealed[c] <= generation'[w]
          /\ sealed[c] = generation'[w] => sealed[c] = generation[w]
      BY <1>3, <3>1
    <3> QED
      BY <1>1, <2>1, <2>2, <2>4, <3>2 DEF SubmissionsEndExecution
  <2> QED
    BY <2>3, <2>4
<1>5. Publish(w) \/ CancelWork(w) => lifecycle[w] # "closed"
  BY FactsMean, ClosedIsLeftAlone DEF Publish, CancelWork, Permit, CloseInv
<1>6. ClosedIsProved'
  <2>1. ~accepted'[w]
    <3>1. CASE Publish(w) \/ CancelWork(w)
      <4>1. lifecycle[w] # "closed" /\ UNCHANGED accepted
        BY <1>5, <3>1 DEF Publish, CancelWork, decisionVars
      <4> QED
        BY <1>1, <4>1 DEF ClosedIsProved
    <3>2. CASE Reopen(w) \/ Retry(w)
      BY <1>1, <3>2 DEF Reopen, Retry, NewGeneration, InvalidateOutcomes, DecisionTypeOK
    <3> QED
      BY <3>1, <3>2
  <2>2. \A v \in Works : v # w => accepted'[v] = accepted[v] /\ exception'[v] = exception[v]
    BY <1>1 DEF Publish, CancelWork, Reopen, Retry, NewGeneration, InvalidateOutcomes,
                decisionVars, DecisionTypeOK
  <2>3. \A v \in Works : lifecycle'[v] = "closed" =>
          v # w /\ lifecycle[v] = "closed" /\ generation'[v] = generation[v]
    BY <1>3
  <2> QED
    BY <1>1, <1>2, <1>3, <2>1, <2>2, <2>3 DEF ClosedIsProved, ReviewStands, AttemptsOf
<1> QED
  BY <1>4, <1>6

\* The invariant behind the close, in every state of the store.
THEOREM CloseInvariant == Spec => []CloseInv
<1>1. Init => SubmissionsEndExecution /\ ClosedIsProved
  BY DEF Init, SubmissionsEndExecution, ClosedIsProved
<1>2. CloseInv /\ [Next]_vars => SubmissionsEndExecution' /\ ClosedIsProved'
  <2>1. SUFFICES ASSUME CloseInv, [Next]_vars
                 PROVE  SubmissionsEndExecution' /\ ClosedIsProved'
    OBVIOUS
  <2>2. Ownership
    BY <2>1 DEF CloseInv
  <2> QED
    BY <2>1, <2>2, KindsOfCloseStep, ClaimKeeps, SealKeeps, FinalizeKeeps,
       ReviewKeeps, DecisionKeeps, LifecycleKeeps, RowStepKeeps
<1> QED
  BY <1>1, <1>2, OwnershipInvariant, PTL DEF Spec, CloseInv

\* A closed work item always has a submission of its current proof generation with a
\* finalized intent, nobody executes it and every obligation of its attempts is
\* resolved; and its outcome counts only while it is closed and the review gate, if
\* it has one, is approved or excepted, whatever is revoked after the close.
THEOREM ClosedWorkIsProved == Spec => []ClosedIsProved
BY CloseInvariant, PTL DEF CloseInv

\* The step that closes a work item finalizes the open intent of a submission of
\* the current generation, held by the attempt with the largest fence: an intent
\* left over from before a reopen or a retry closes nothing.
THEOREM ClosesFromCurrentIntent == Spec => StaleIntentNeverCloses
<1> DEFINE Closes(w) == lifecycle[w] # "closed" /\ lifecycle'[w] = "closed"
           Basis(w) == \E a \in AttemptsOf(w) :
                         /\ intent[a] = "open" /\ intent'[a] = "finalized"
                         /\ sealed[a] = generation[w]
                         /\ \A b \in AttemptsOf(w) : attempt[b].fence <= attempt[a].fence
<1>1. CloseInv /\ [Next]_vars => \A w \in Works : Closes(w) => Basis(w)
  <2>1. SUFFICES ASSUME CloseInv, [Next]_vars, NEW w \in Works, Closes(w)
                 PROVE  Basis(w)
    OBVIOUS
  <2>2. /\ Ownership /\ SubmissionsEndExecution
        /\ lifecycle \in [Works -> Lifecycles]
        /\ intent \in [AttemptIds -> {"none", "open", "finalized", "rejected"}]
    BY <2>1 DEF CloseInv, Ownership, TypeOK
  <2>3. ASSUME NEW a \in AttemptIds, NEW at \in Sampled, FinalizeClose(a, at)
        PROVE  Basis(w)
    <3>1. /\ lifecycle' = [lifecycle EXCEPT ![attempt[a].work] = "closed"]
          /\ intent' = [intent EXCEPT ![a] = "finalized"]
          /\ intent[a] = "open"
          /\ sealed[a] # 0 /\ sealed[a] = generation[attempt[a].work]
      BY <2>3 DEF FinalizeClose, IsSubmission
    <3>2. attempt[a].work = w
      BY <2>1, <2>2, <3>1
    <3>3. \A b \in AttemptsOf(w) : attempt[b].fence <= attempt[a].fence
      BY <2>2, <3>1, <3>2 DEF SubmissionsEndExecution
    <3> QED
      BY <2>2, <3>1, <3>2, <3>3 DEF AttemptsOf
  <2>4. CASE ClaimStep \/ RowStep
    <3>1. CASE ClaimStep
      <4>1. PICK v \in Works, s \in Sessions, a \in AttemptIds, at \in Sampled,
                 ttl \in TTLs, budget \in Budgets : Claim(v, s, a, at, ttl, budget)
        BY <3>1 DEF ClaimStep
      <4>2. UNCHANGED lifecycle
        BY <4>1 DEF Claim, workVars
      <4> QED
        BY <2>1, <4>2
    <3>2. CASE RowStep
      BY <2>1, <3>2 DEF RowStep
    <3> QED
      BY <2>4, <3>1, <3>2
  <2>5. ASSUME NEW a \in AttemptIds, NEW at \in Sampled, SealAndRequestClose(a, at)
        PROVE  FALSE
    BY <2>1, <2>5 DEF SealAndRequestClose, workVars
  <2>6. ASSUME NEW a \in AttemptIds,
               \/ \E at \in Sampled : RequestCloseAgain(a, at)
               \/ RejectClose(a)
               \/ \E o \in {"approved", "rejected"} : Review(a, o)
        PROVE  FALSE
    BY <2>1, <2>6 DEF RequestCloseAgain, RejectClose, Review, workVars
  <2>7. ASSUME \/ \E a \in AttemptIds : RevokeReview(a)
               \/ \E v \in Works : GateException(v) \/ RevokeException(v)
        PROVE  FALSE
    BY <2>1, <2>7 DEF RevokeReview, GateException, RevokeException
  <2>8. ASSUME NEW v \in Works, Publish(v) \/ CancelWork(v) \/ Reopen(v) \/ Retry(v)
        PROVE  FALSE
    BY <2>1, <2>2, <2>8 DEF Publish, CancelWork, Reopen, Retry, NewGeneration
  <2> QED
    BY <2>1, <2>2, <2>3, <2>4, <2>5, <2>6, <2>7, <2>8, KindsOfCloseStep
<1> QED
  BY <1>1, CloseInvariant, PTL DEF Spec, StaleIntentNeverCloses
=============================================================================
