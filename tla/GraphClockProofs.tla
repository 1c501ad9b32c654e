-------------------------- MODULE GraphClockProofs --------------------------
(***************************************************************************)
(* Theorems about the two modules that put the status evaluator to use:    *)
(* OutcomeGraph, where claims consume the accepted outcomes of other       *)
(* items, and StatusClock, where one item is read while time passes.       *)
(***************************************************************************)
EXTENDS OutcomeGraph, StatusClock, StatusPolicyProofs, SequenceTheorems, TLAPS

(***************************************************************************)
(* Edges.                                                                  *)
(***************************************************************************)
\* Whatever does not reach p stays acyclic with an edge from p into it.  A set
\* closed under the edges that holds d and not p splits every set of items: the
\* part outside has an item without prerequisite there, and no edge leads back
\* out of the closed part.
LEMMA AddKeepsAcyclic ==
  ASSUME NEW p \in Works, NEW d \in Works, Acyclic,
         ~DependencyWouldCycle(p, d), edges' = edges \cup {<<p, d>>}
  PROVE  Acyclic'
<1>1. PICK C \in SUBSET Works :
        /\ d \in C /\ p \notin C
        /\ \A e \in edges : e[1] \in C => e[2] \in C
  BY DEF DependencyWouldCycle, Reachable
<1>2. SUFFICES ASSUME NEW S \in (SUBSET Works) \ {{}}
               PROVE  \E w \in S : \A q \in S : <<q, w>> \notin edges'
  BY DEF Acyclic
<1>3. CASE S \ C = {}
  <2>1. PICK w \in S : \A q \in S : <<q, w>> \notin edges
    BY DEF Acyclic
  <2>2. p \notin S
    BY <1>1, <1>3
  <2>3. \A q \in S : <<q, w>> # <<p, d>>
    BY <2>2
  <2> QED
    BY <2>1, <2>3
<1>4. CASE S \ C # {}
  <2>1. S \ C \in (SUBSET Works) \ {{}}
    BY <1>4
  <2>2. PICK w \in S \ C : \A q \in S \ C : <<q, w>> \notin edges
    BY <2>1 DEF Acyclic
  <2>3. \A q \in S : <<q, w>> \notin edges
    <3>1. ASSUME NEW q \in C, <<q, w>> \in edges PROVE FALSE
      BY <1>1, <2>2, <3>1
    <3> QED
      BY <2>2, <3>1
  <2>4. \A q \in S : <<q, w>> # <<p, d>>
    BY <1>1, <2>2
  <2> QED
    BY <2>2, <2>3, <2>4
<1> QED
  BY <1>3, <1>4

\* No step closes a cycle: dependency_would_cycle is asked in the transaction
\* that adds the edge, and everything else leaves edges alone or removes one.
THEOREM NoCycleOfPrerequisites == Spec => []Acyclic
<1>1. Init => Acyclic
  <2> SUFFICES ASSUME Init, NEW S \in (SUBSET Works) \ {{}}
               PROVE  \E w \in S : \A p \in S : <<p, w>> \notin edges
    BY DEF Acyclic
  <2>1. PICK w : w \in S
    OBVIOUS
  <2> QED
    BY <2>1 DEF Init
<1>2. Acyclic /\ [Next]_vars => Acyclic'
  <2> SUFFICES ASSUME Acyclic, [Next]_vars PROVE Acyclic'
    OBVIOUS
  <2>1. ASSUME UNCHANGED edges PROVE Acyclic'
    BY <2>1 DEF Acyclic
  <2>2. CASE EdgeStep
    <3>1. PICK p \in Works, d \in Works : AddDependency(p, d) \/ RemoveDependency(p, d)
      BY <2>2 DEF EdgeStep
    <3>2. CASE AddDependency(p, d)
      BY <3>2, AddKeepsAcyclic DEF AddDependency
    <3>3. CASE RemoveDependency(p, d)
      BY <3>3 DEF RemoveDependency, Acyclic
    <3> QED
      BY <3>1, <3>2, <3>3
  <2>3. CASE OwnerStep
    BY <2>1, <2>3 DEF OwnerStep, Claim, RecordReceipt, BindResult, Release,
                      SealAndRequestClose, SealAgain, FinalizeClose
  <2>4. CASE DecisionStep
    BY <2>1, <2>4 DEF DecisionStep, Review, RevokeReview, GateException,
                      WaiveDependency, RevokeException, ExceptionExpires
  <2>5. CASE LifecycleStep
    BY <2>1, <2>5 DEF LifecycleStep, CancelWork, NewGeneration
  <2>6. CASE UNCHANGED vars
    BY <2>1, <2>6 DEF vars
  <2> QED
    BY <2>2, <2>3, <2>4, <2>5, <2>6 DEF Next
<1> QED
  BY <1>1, <1>2, PTL DEF Spec

(***************************************************************************)
(* Types.                                                                  *)
(***************************************************************************)
\* What the attempt of one item may become.
LEMMA AttemptFields ==
  ASSUME NEW a \in Attempts
  PROVE  /\ NoAttempt \in Attempts
         /\ [NoAttempt EXCEPT !.phase = "running"] \in Attempts
         /\ \A r \in GateStates, b \in BOOLEAN :
              [a EXCEPT !.receipt = r, !.changed = b] \in Attempts
         /\ \A v \in {"approved", "rejected", "revoked"} :
              [a EXCEPT !.verdict = v] \in Attempts
         /\ [a EXCEPT !.phase = "released"] \in Attempts
         /\ [a EXCEPT !.intent = "finalized"] \in Attempts
         /\ \A g \in Generations :
              [a EXCEPT !.phase = "completed", !.sealed = g, !.intent = "open"] \in Attempts
         /\ [a EXCEPT !.changed = FALSE, !.verdict = "none", !.intent = "open"] \in Attempts
<1>1. NoAttempt \in Attempts /\ [NoAttempt EXCEPT !.phase = "running"] \in Attempts
  BY DEF NoAttempt, Attempts, GateStates
<1>2. \A r \in GateStates, b \in BOOLEAN :
        [a EXCEPT !.receipt = r, !.changed = b] \in Attempts
  BY DEF Attempts
<1>3. \A v \in {"approved", "rejected", "revoked"} : [a EXCEPT !.verdict = v] \in Attempts
  BY DEF Attempts
<1>4. /\ [a EXCEPT !.phase = "released"] \in Attempts
      /\ [a EXCEPT !.intent = "finalized"] \in Attempts
  BY DEF Attempts
<1>5. \A g \in Generations :
        [a EXCEPT !.phase = "completed", !.sealed = g, !.intent = "open"] \in Attempts
  BY DEF Attempts
<1>6. [a EXCEPT !.changed = FALSE, !.verdict = "none", !.intent = "open"] \in Attempts
  BY DEF Attempts
<1> QED
  BY <1>1, <1>2, <1>3, <1>4, <1>5, <1>6

\* Invalidating the outcomes of an item gives outcomes again.
LEMMA InvalidatedFacts ==
  ASSUME TypeOK, NEW w \in Works
  PROVE  /\ Invalidated(w) \in [Generations -> {"none", "accepted", "invalidated"}]
         /\ \A g \in Generations : Invalidated(w)[g] # "accepted"
<1>1. outcome[w] \in [Generations -> {"none", "accepted", "invalidated"}]
  BY DEF TypeOK
<1> QED
  BY <1>1 DEF Invalidated

\* A changed exception row, and a granted one, are rows.
LEMMA ExceptionFields ==
  ASSUME NEW e \in Exceptions, NEW s \in {"active", "expired", "revoked"}
  PROVE  /\ [e EXCEPT !.state = s] \in Exceptions
         /\ [e EXCEPT !.state = s].state = s
         /\ [e EXCEPT !.state = s].kind = e.kind
         /\ [e EXCEPT !.state = s].work = e.work
         /\ [e EXCEPT !.state = s].target = e.target
         /\ [e EXCEPT !.state = s].generation = e.generation
<1>1. [e EXCEPT !.state = s] \in Exceptions
  BY DEF Exceptions
<1> QED
  BY <1>1 DEF Exceptions

\* What a change of the state of row i leaves: every other row, and the rest of i.
LEMMA ChangedException ==
  ASSUME TypeOK, NEW i \in DOMAIN exceptions, NEW s \in {"active", "expired", "revoked"},
         exceptions' = [exceptions EXCEPT ![i].state = s]
  PROVE  /\ exceptions' \in Seq(Exceptions)
         /\ DOMAIN exceptions' = DOMAIN exceptions
         /\ \A j \in DOMAIN exceptions :
              /\ exceptions'[j].kind = exceptions[j].kind
              /\ exceptions'[j].work = exceptions[j].work
              /\ exceptions'[j].target = exceptions[j].target
              /\ exceptions'[j].generation = exceptions[j].generation
              /\ exceptions'[j].state = IF j = i THEN s ELSE exceptions[j].state
<1>1. exceptions \in Seq(Exceptions) /\ i \in 1 .. Len(exceptions)
  BY DEF TypeOK
<1>2. exceptions[i] \in Exceptions
  BY <1>1, ElementOfSeq
<1>3. PICK e : e = [exceptions[i] EXCEPT !.state = s]
  OBVIOUS
<1>4. /\ e \in Exceptions /\ e.state = s /\ e.kind = exceptions[i].kind
      /\ e.work = exceptions[i].work /\ e.target = exceptions[i].target
      /\ e.generation = exceptions[i].generation
  BY <1>2, <1>3, ExceptionFields
<1>5. exceptions' = [exceptions EXCEPT ![i] = e]
  BY <1>3
<1>6. /\ exceptions' \in Seq(Exceptions) /\ Len(exceptions') = Len(exceptions)
      /\ \A j \in 1 .. Len(exceptions) : exceptions'[j] = IF j = i THEN e ELSE exceptions[j]
  BY <1>1, <1>4, <1>5, ExceptSeq
<1>7. DOMAIN exceptions' = DOMAIN exceptions /\ DOMAIN exceptions = 1 .. Len(exceptions)
  BY <1>1, <1>6
<1> QED
  BY <1>4, <1>6, <1>7

\* A granted exception is a row behind the others.
LEMMA GrantedException ==
  ASSUME TypeOK, NEW w \in Works, NEW t \in Works,
         NEW kind \in GateKinds \cup {"dependency"}, exceptions' = Granted(kind, w, t)
  PROVE  /\ exceptions' \in Seq(Exceptions)
         /\ \A j \in DOMAIN exceptions : j \in DOMAIN exceptions' /\ exceptions'[j] = exceptions[j]
<1>1. PICK e : e = [kind |-> kind, work |-> w, target |-> t, generation |-> generation[w],
                    state |-> "active"]
  OBVIOUS
<1>2. generation[w] \in Generations
  BY DEF TypeOK
<1>3. e \in Exceptions
  BY <1>1, <1>2 DEF Exceptions
<1>4. exceptions \in Seq(Exceptions)
  BY DEF TypeOK
<1>5. exceptions' = Append(exceptions, e)
  BY <1>1 DEF Granted
<1>6. /\ Append(exceptions, e) \in Seq(Exceptions)
      /\ Len(Append(exceptions, e)) = Len(exceptions) + 1
      /\ \A j \in 1 .. Len(exceptions) : Append(exceptions, e)[j] = exceptions[j]
  BY <1>3, <1>4, AppendProperties
<1>7. /\ DOMAIN exceptions = 1 .. Len(exceptions) /\ Len(exceptions) \in Nat
      /\ DOMAIN exceptions' = 1 .. Len(exceptions) + 1
  BY <1>4, <1>5, <1>6
<1> QED
  BY <1>5, <1>6, <1>7

\* Every step keeps the types.
LEMMA TypeStep ==
  ASSUME TypeOK, [Next]_vars
  PROVE  TypeOK'
<1> USE BoundAssumption
<1>1. \A w \in Works : attempt[w] \in Attempts /\ generation[w] \in Generations
  BY DEF TypeOK
<1>2. CASE EdgeStep
  BY <1>2 DEF EdgeStep, AddDependency, RemoveDependency, proofVars, TypeOK
<1>3. CASE OwnerStep
  <2>1. PICK w \in Works : \/ Claim(w)
                           \/ \E r \in {"satisfied", "failed"} : RecordReceipt(w, r)
                           \/ BindResult(w) \/ Release(w) \/ SealAndRequestClose(w)
                           \/ SealAgain(w) \/ FinalizeClose(w)
    BY <1>3 DEF OwnerStep
  <2>2. attempt[w] \in Attempts
    BY <1>1
  <2>3. CASE Claim(w)
    <3>1. [NoAttempt EXCEPT !.phase = "running"] \in Attempts
      BY <2>2, AttemptFields
    <3> QED
      BY <2>3, <3>1 DEF Claim, TypeOK
  <2>4. ASSUME NEW r \in {"satisfied", "failed"}, RecordReceipt(w, r) PROVE TypeOK'
    <3>1. r \in GateStates
      BY DEF GateStates
    <3>2. PICK a : a = [attempt[w] EXCEPT !.receipt = r, !.changed = Submitted(w)]
      OBVIOUS
    <3>3. a \in Attempts
      BY <2>2, <3>1, <3>2, AttemptFields DEF Submitted
    <3>4. attempt' = [attempt EXCEPT ![w] = a]
      BY <2>4, <3>2 DEF RecordReceipt
    <3>5. late' \in 0 .. MaxLate
      BY <2>4 DEF RecordReceipt, TypeOK
    <3> QED
      BY <2>4, <3>1, <3>3, <3>4, <3>5 DEF RecordReceipt, TypeOK
  <2>5. CASE BindResult(w)
    BY <2>5, <1>1 DEF BindResult, TypeOK, Generations
  <2>6. CASE Release(w)
    <3>1. [attempt[w] EXCEPT !.phase = "released"] \in Attempts
      BY <2>2, AttemptFields
    <3> QED
      BY <2>6, <3>1 DEF Release, TypeOK, bounds
  <2>7. CASE SealAndRequestClose(w)
    <3>1. [attempt[w] EXCEPT !.phase = "completed", !.sealed = generation[w],
                             !.intent = "open"] \in Attempts
      BY <1>1, <2>2, AttemptFields
    <3> QED
      BY <2>7, <3>1 DEF SealAndRequestClose, TypeOK, bounds
  <2>8. CASE FinalizeClose(w)
    <3>1. [attempt[w] EXCEPT !.intent = "finalized"] \in Attempts
      BY <2>2, AttemptFields
    <3>2. [outcome[w] EXCEPT ![generation[w]] = "accepted"]
            \in [Generations -> {"none", "accepted", "invalidated"}]
      BY <1>1 DEF TypeOK
    <3> QED
      BY <2>8, <3>1, <3>2 DEF FinalizeClose, TypeOK, bounds, Lifecycles
  <2>9. CASE SealAgain(w)
    <3>1. [attempt[w] EXCEPT !.changed = FALSE, !.verdict = "none", !.intent = "open"]
            \in Attempts
      BY <2>2, AttemptFields
    <3> QED
      BY <2>9, <3>1 DEF SealAgain, TypeOK, bounds
  <2> QED
    BY <2>1, <2>3, <2>4, <2>5, <2>6, <2>7, <2>8, <2>9
<1>4. CASE DecisionStep
  <2>1. ASSUME NEW w \in Works, NEW v \in {"approved", "rejected"}, Review(w, v)
        PROVE  TypeOK'
    <3>1. [attempt[w] EXCEPT !.verdict = v] \in Attempts
      BY <1>1, AttemptFields
    <3> QED
      BY <2>1, <3>1 DEF Review, TypeOK, bounds
  <2>2. ASSUME NEW w \in Works, RevokeReview(w) PROVE TypeOK'
    <3>1. [attempt[w] EXCEPT !.verdict = "revoked"] \in Attempts
      BY <1>1, AttemptFields
    <3>2. Invalidated(w) \in [Generations -> {"none", "accepted", "invalidated"}]
      BY InvalidatedFacts
    <3> QED
      BY <2>2, <3>1, <3>2 DEF RevokeReview, TypeOK, bounds
  <2>3. ASSUME NEW w \in Works, NEW k \in GateKinds, GateException(w, k) PROVE TypeOK'
    <3>1. exceptions' \in Seq(Exceptions)
      BY <2>3, GrantedException DEF GateException
    <3> QED
      BY <2>3, <3>1 DEF GateException, TypeOK, proofVars, bounds
  <2>4. ASSUME NEW w \in Works, NEW p \in Works, WaiveDependency(p, w)
        PROVE  TypeOK'
    <3>1. exceptions' \in Seq(Exceptions)
      BY <2>4, GrantedException DEF WaiveDependency
    <3> QED
      BY <2>4, <3>1 DEF WaiveDependency, TypeOK, proofVars, bounds
  <2>5. ASSUME NEW i \in DOMAIN exceptions, RevokeException(i) PROVE TypeOK'
    <3>1. exceptions' \in Seq(Exceptions)
      BY <2>5, ChangedException DEF RevokeException
    <3>2. exceptions[i].work \in Works
      <4>1. exceptions \in Seq(Exceptions) /\ i \in 1 .. Len(exceptions)
        BY DEF TypeOK
      <4>2. exceptions[i] \in Exceptions
        BY <4>1, ElementOfSeq
      <4> QED
        BY <4>2 DEF Exceptions
    <3>3. PICK w \in Works : w = exceptions[i].work
      BY <3>2
    <3>4. Invalidated(w) \in [Generations -> {"none", "accepted", "invalidated"}]
      BY InvalidatedFacts
    <3>5. outcome' = [outcome EXCEPT ![w] = Invalidated(w)]
      BY <2>5, <3>3 DEF RevokeException
    <3>6. outcome' \in [Works -> [Generations -> {"none", "accepted", "invalidated"}]]
      BY <3>4, <3>5 DEF TypeOK
    <3>7. UNCHANGED <<lifecycle, generation, gate, attempt, edges, bounds>>
      BY <2>5 DEF RevokeException
    <3> QED
      BY <3>1, <3>6, <3>7 DEF TypeOK, bounds
  <2>6. ASSUME NEW i \in DOMAIN exceptions, ExceptionExpires(i) PROVE TypeOK'
    <3>1. exceptions' \in Seq(Exceptions)
      BY <2>6, ChangedException DEF ExceptionExpires
    <3> QED
      BY <2>6, <3>1 DEF ExceptionExpires, TypeOK, proofVars, bounds
  <2> QED
    BY <1>4, <2>1, <2>2, <2>3, <2>4, <2>5, <2>6 DEF DecisionStep
<1>5. CASE LifecycleStep
  <2>1. ASSUME NEW w \in Works, CancelWork(w) PROVE TypeOK'
    BY <2>1 DEF CancelWork, TypeOK, Lifecycles
  <2>2. ASSUME NEW w \in Works, NEW action, NewGeneration(w, action) PROVE TypeOK'
    <3>1. Invalidated(w) \in [Generations -> {"none", "accepted", "invalidated"}]
      BY InvalidatedFacts
    <3>2. generation[w] + 1 \in Generations
      BY <1>1, <2>2 DEF NewGeneration, Generations
    <3> QED
      BY <2>2, <3>1, <3>2 DEF NewGeneration, TypeOK, Lifecycles
  <2> QED
    BY <1>5, <2>1, <2>2 DEF LifecycleStep
<1>6. CASE UNCHANGED vars
  BY <1>6 DEF vars, proofVars, bounds, TypeOK
<1> QED
  BY <1>2, <1>3, <1>4, <1>5, <1>6 DEF Next

\* Every row of the store stays inside its vocabulary.
THEOREM GraphTypes == Spec => []TypeOK
<1>1. Init => TypeOK
  <2>1. NoAttempt \in Attempts
    BY DEF NoAttempt, Attempts, GateStates
  <2> QED
    BY <2>1, BoundAssumption DEF Init, TypeOK, Generations, Lifecycles, GateStates
<1> QED
  BY <1>1, TypeStep, PTL DEF Spec

(***************************************************************************)
(* Acceptance.                                                             *)
(***************************************************************************)
\* An exception of the gate of kind k of w that nobody revoked, in the current
\* generation of w.
UnrevokedGate(w, k) ==
  \E i \in RowsFor(k, w, w) : exceptions[i].state # "revoked"

\* Stands, said of the rows: the receipt and the verdict of the submission.
RowsStand(w) ==
  /\ lifecycle[w] = "closed" /\ Submitted(w)
  /\ \/ attempt[w].receipt = "satisfied"
     \/ attempt[w].receipt = "failed" /\ UnrevokedGate(w, "technical")
  /\ \/ attempt[w].verdict = "approved"
     \/ attempt[w].verdict \in {"rejected", "revoked"} /\ UnrevokedGate(w, "review")

\* What makes the property inductive, per item.  A running attempt belongs to an
\* open item and has sealed nothing, so that no receipt, result or close of it
\* reaches an item with an accepted outcome; and an accepted outcome of the
\* current generation stands.
ProofStands(w) ==
  /\ Running(w) => lifecycle[w] = "open" /\ attempt[w].sealed = 0
  /\ HasAcceptedOutcome(w) => RowsStand(w)

ProofInv == TypeOK /\ \A w \in Works : ProofStands(w)

\* An item whose rows a step leaves alone keeps what it had.
LEMMA UntouchedItem ==
  ASSUME NEW w \in Works, ProofStands(w),
         lifecycle'[w] = lifecycle[w], generation'[w] = generation[w],
         attempt'[w] = attempt[w], outcome'[w] = outcome[w],
         \A k \in GateKinds : UnrevokedGate(w, k) => UnrevokedGate(w, k)'
  PROVE  ProofStands(w)'
<1>1. Running(w)' = Running(w) /\ Submitted(w)' = Submitted(w)
  BY DEF Running, Submitted
<1>2. HasAcceptedOutcome(w)' = HasAcceptedOutcome(w)
  BY DEF HasAcceptedOutcome
<1>3. /\ UnrevokedGate(w, "technical") => UnrevokedGate(w, "technical")'
      /\ UnrevokedGate(w, "review") => UnrevokedGate(w, "review")'
  BY DEF GateKinds
<1>4. RowsStand(w) => RowsStand(w)'
  BY <1>1, <1>3 DEF RowsStand
<1> QED
  BY <1>1, <1>2, <1>4 DEF ProofStands

\* Exceptions that stay as they are keep the gates of an item with its generation.
LEMMA SameExceptions ==
  ASSUME NEW w \in Works, UNCHANGED exceptions, generation'[w] = generation[w]
  PROVE  \A k \in GateKinds : UnrevokedGate(w, k) => UnrevokedGate(w, k)'
BY DEF UnrevokedGate, RowsFor

\* The facts of an item in the graph, for the lemmas about the policy.
LEMMA GraphFacts ==
  ASSUME TypeOK, NEW w \in Works
  PROVE  /\ Facts(w).lifecycle = lifecycle[w] /\ Facts(w).lifecycle \in Lifecycles
         /\ Facts(w).phase \in FactPhases
         /\ Facts(w).phase = (IF Running(w) THEN "running" ELSE "none")
         /\ Facts(w).waiting = Waiting(w)
         /\ Facts(w).technical = Technical(w) /\ Facts(w)["technical"] = Technical(w)
         /\ Facts(w).review = ReviewState(w) /\ Facts(w)["review"] = ReviewState(w)
         /\ Facts(w).excepted = {k \in GateKinds : GateExcepted(w, k)}
<1>1. lifecycle[w] \in Lifecycles
  BY DEF TypeOK
<1> QED
  BY <1>1 DEF Facts, FactPhases, LivePhases

\* What the rows say is what the facts say.
LEMMA RowsMeanStands ==
  ASSUME TypeOK, NEW w \in Works, RowsStand(w)
  PROVE  Stands(w)
<1>1. Submitted(w) /\ lifecycle[w] = "closed"
  BY DEF RowsStand
<1>2. Technical(w) = attempt[w].receipt
  BY <1>1 DEF Technical
<1>3. /\ attempt[w].verdict = "approved" => ReviewState(w) = "satisfied"
      /\ attempt[w].verdict \in {"rejected", "revoked"} => ReviewState(w) = "failed"
  BY <1>1 DEF ReviewState
<1>4. \/ Facts(w)["technical"] = "satisfied"
      \/ Facts(w)["technical"] = "failed" /\ UnrevokedGate(w, "technical")
  BY <1>2, GraphFacts DEF RowsStand
<1>5. \/ Facts(w)["review"] = "satisfied"
      \/ Facts(w)["review"] = "failed" /\ UnrevokedGate(w, "review")
  BY <1>3, GraphFacts DEF RowsStand
<1> QED
  BY <1>1, <1>4, <1>5 DEF Stands, GateKinds, UnrevokedGate

\* A step on one item that leaves the exceptions alone.
LEMMA OneItem ==
  ASSUME ProofInv, NEW w \in Works, UNCHANGED exceptions, ProofStands(w)',
         \A v \in Works \ {w} :
           /\ lifecycle'[v] = lifecycle[v] /\ generation'[v] = generation[v]
           /\ attempt'[v] = attempt[v] /\ outcome'[v] = outcome[v]
  PROVE  \A v \in Works : ProofStands(v)'
<1> SUFFICES ASSUME NEW v \in Works, v # w PROVE ProofStands(v)'
  OBVIOUS
<1>1. ProofStands(v)
  BY DEF ProofInv
<1>2. \A k \in GateKinds : UnrevokedGate(v, k) => UnrevokedGate(v, k)'
  BY SameExceptions
<1> QED
  BY <1>1, <1>2, UntouchedItem

\* A step of the owner.  Only the close accepts, and it accepts what stands.
LEMMA OwnerKeepsProof ==
  ASSUME ProofInv, NEW w \in Works,
         \/ Claim(w) \/ (\E r \in {"satisfied", "failed"} : RecordReceipt(w, r))
         \/ BindResult(w) \/ Release(w) \/ SealAndRequestClose(w) \/ SealAgain(w)
         \/ FinalizeClose(w)
  PROVE  \A v \in Works : ProofStands(v)'
<1>1. TypeOK /\ ProofStands(w)
  BY DEF ProofInv
<1>2. attempt[w] \in Attempts /\ generation[w] \in Generations
  BY <1>1 DEF TypeOK
<1>3. Running(w) => lifecycle[w] = "open" /\ attempt[w].sealed = 0
  BY <1>1 DEF ProofStands
<1>4. CASE Claim(w)
  <2>1. lifecycle[w] = "open"
    <3>1. EvaluateStatus(Facts(w)) = "ready"
      BY <1>4, ClaimMeansReady DEF Claim, Permit
    <3> QED
      BY <1>1, <3>1, ReadyIsIdle, GraphFacts
  <2>2. /\ lifecycle' = lifecycle /\ generation' = generation /\ outcome' = outcome
        /\ UNCHANGED exceptions
        /\ attempt' = [attempt EXCEPT ![w] = [NoAttempt EXCEPT !.phase = "running"]]
    BY <1>4 DEF Claim
  <2>3. attempt'[w].sealed = 0 /\ \A v \in Works \ {w} : attempt'[v] = attempt[v]
    BY <1>1, <2>2 DEF TypeOK, NoAttempt
  <2>4. ProofStands(w)'
    BY <2>1, <2>2, <2>3 DEF ProofStands, HasAcceptedOutcome
  <2> QED
    BY <2>2, <2>3, <2>4, OneItem
<1>5. ASSUME NEW r \in {"satisfied", "failed"}, RecordReceipt(w, r)
      PROVE  \A v \in Works : ProofStands(v)'
  <2>1. /\ lifecycle' = lifecycle /\ generation' = generation /\ outcome' = outcome
        /\ UNCHANGED exceptions /\ (Running(w) \/ lifecycle[w] = "open")
        /\ attempt' = [attempt EXCEPT ![w] = [@ EXCEPT !.receipt = r,
                                                       !.changed = Submitted(w)]]
    BY <1>5 DEF RecordReceipt
  <2>2. /\ attempt'[w].sealed = attempt[w].sealed /\ attempt'[w].phase = attempt[w].phase
        /\ \A v \in Works \ {w} : attempt'[v] = attempt[v]
    <3>1. PICK a : a = [attempt[w] EXCEPT !.receipt = r, !.changed = Submitted(w)]
      OBVIOUS
    <3>2. a.sealed = attempt[w].sealed /\ a.phase = attempt[w].phase
      BY <1>2, <3>1 DEF Attempts
    <3>3. attempt' = [attempt EXCEPT ![w] = a]
      BY <2>1, <3>1
    <3> QED
      BY <1>1, <3>2, <3>3 DEF TypeOK
  <2>3. lifecycle[w] = "open"
    BY <1>3, <2>1
  <2>4. ProofStands(w)'
    BY <1>3, <2>1, <2>2, <2>3 DEF ProofStands, HasAcceptedOutcome, Running
  <2> QED
    BY <2>1, <2>2, <2>4, OneItem
<1>6. CASE BindResult(w)
  <2>1. /\ lifecycle' = lifecycle /\ attempt' = attempt /\ outcome' = outcome
        /\ UNCHANGED exceptions /\ Running(w)
        /\ generation' = [generation EXCEPT ![w] = @ + 1]
    BY <1>6 DEF BindResult
  <2>2. \A v \in Works \ {w} : generation'[v] = generation[v]
    BY <1>1, <2>1 DEF TypeOK
  <2>3. ProofStands(w)'
    BY <1>3, <2>1 DEF ProofStands, HasAcceptedOutcome, Running
  <2> QED
    BY <2>1, <2>2, <2>3, OneItem
<1>7. CASE Release(w) \/ SealAndRequestClose(w)
  <2>1. /\ lifecycle' = lifecycle /\ generation' = generation /\ outcome' = outcome
        /\ UNCHANGED exceptions /\ Running(w)
        /\ \/ attempt' = [attempt EXCEPT ![w].phase = "released"]
           \/ attempt' = [attempt EXCEPT ![w] = [@ EXCEPT !.phase = "completed",
                            !.sealed = generation[w], !.intent = "open"]]
    BY <1>7 DEF Release, SealAndRequestClose
  <2>2. /\ attempt'[w].phase # "running"
        /\ \A v \in Works \ {w} : attempt'[v] = attempt[v]
    <3>1. CASE attempt' = [attempt EXCEPT ![w].phase = "released"]
      BY <1>1, <1>2, <3>1 DEF TypeOK, Attempts
    <3>2. CASE attempt' = [attempt EXCEPT ![w] = [@ EXCEPT !.phase = "completed",
                             !.sealed = generation[w], !.intent = "open"]]
      <4>1. PICK a : a = [attempt[w] EXCEPT !.phase = "completed",
                            !.sealed = generation[w], !.intent = "open"]
        OBVIOUS
      <4>2. a.phase = "completed"
        BY <1>2, <4>1 DEF Attempts
      <4>3. attempt' = [attempt EXCEPT ![w] = a]
        BY <3>2, <4>1
      <4> QED
        BY <1>1, <4>2, <4>3 DEF TypeOK
    <3> QED
      BY <2>1, <3>1, <3>2
  <2>3. ProofStands(w)'
    BY <1>3, <2>1, <2>2 DEF ProofStands, HasAcceptedOutcome, Running
  <2> QED
    BY <2>1, <2>2, <2>3, OneItem
<1>8. CASE FinalizeClose(w)
  <2>1. /\ lifecycle' = [lifecycle EXCEPT ![w] = "closed"] /\ generation' = generation
        /\ UNCHANGED exceptions /\ Submitted(w) /\ Gaps(Facts(w)) = {}
        /\ attempt' = [attempt EXCEPT ![w].intent = "finalized"]
        /\ outcome' = [outcome EXCEPT ![w][generation[w]] = "accepted"]
    BY <1>8 DEF FinalizeClose
  <2>2. /\ lifecycle'[w] = "closed"
        /\ attempt'[w].phase = attempt[w].phase /\ attempt'[w].sealed = attempt[w].sealed
        /\ attempt'[w].verdict = attempt[w].verdict
        /\ attempt'[w].receipt = attempt[w].receipt
        /\ \A v \in Works \ {w} : /\ lifecycle'[v] = lifecycle[v]
                                 /\ attempt'[v] = attempt[v] /\ outcome'[v] = outcome[v]
    BY <1>1, <1>2, <2>1 DEF TypeOK, Attempts
  <2>3. ~Running(w)
    BY <1>2, <1>3, <2>1 DEF Submitted, Generations
  <2>4. Technical(w) = attempt[w].receipt
    BY <2>1 DEF Technical
  <2>5. \A k \in GateKinds : GateExcepted(w, k) => UnrevokedGate(w, k)
    BY DEF GateExcepted, UnrevokedGate
  <2>6. \A k \in GateKinds : UnrevokedGate(w, k) => UnrevokedGate(w, k)'
    BY <2>1, SameExceptions
  <2>7. \A k \in GateKinds :
          Facts(w)[k] = "satisfied" \/ (Facts(w)[k] = "failed" /\ GateExcepted(w, k))
    BY <1>1, <2>1, GraphFacts DEF Gaps, Excepted
  <2>8. \/ attempt[w].receipt = "satisfied"
        \/ attempt[w].receipt = "failed" /\ UnrevokedGate(w, "technical")'
    <3>1. "technical" \in GateKinds
      BY DEF GateKinds
    <3> QED
      BY <1>1, <2>4, <2>5, <2>6, <2>7, <3>1, GraphFacts
  <2>9. \/ attempt[w].verdict = "approved"
        \/ attempt[w].verdict \in {"rejected", "revoked"} /\ UnrevokedGate(w, "review")'
    <3>1. "review" \in GateKinds
      BY DEF GateKinds
    <3>2. \/ ReviewState(w) = "satisfied"
          \/ ReviewState(w) = "failed" /\ UnrevokedGate(w, "review")'
      BY <1>1, <2>5, <2>6, <2>7, <3>1, GraphFacts
    <3>3. attempt[w].verdict \in {"none", "approved", "rejected", "revoked"}
      BY <1>2 DEF Attempts
    <3> QED
      BY <3>2, <3>3 DEF ReviewState
  <2>10. RowsStand(w)'
    BY <2>1, <2>2, <2>8, <2>9 DEF RowsStand, Submitted
  <2>11. ProofStands(w)'
    BY <2>2, <2>3, <2>10 DEF ProofStands, Running
  <2> QED
    BY <2>1, <2>2, <2>11, OneItem
<1>9. CASE SealAgain(w)
  <2>1. /\ lifecycle' = lifecycle /\ generation' = generation /\ outcome' = outcome
        /\ UNCHANGED exceptions /\ Permit(w, "finish_close", "agent", TRUE)
        /\ attempt' = [attempt EXCEPT ![w] = [@ EXCEPT !.changed = FALSE,
                            !.verdict = "none", !.intent = "open"]]
    BY <1>9 DEF SealAgain
  <2>2. lifecycle[w] # "closed"
    <3>1. Facts(w).lifecycle # "closed"
      BY <2>1, ClosedIsLeftAlone DEF Permit
    <3> QED
      BY <1>1, <3>1, GraphFacts
  <2>3. /\ attempt'[w].sealed = attempt[w].sealed /\ attempt'[w].phase = attempt[w].phase
        /\ \A v \in Works \ {w} : attempt'[v] = attempt[v]
    <3>1. PICK a : a = [attempt[w] EXCEPT !.changed = FALSE, !.verdict = "none",
                                          !.intent = "open"]
      OBVIOUS
    <3>2. a.sealed = attempt[w].sealed /\ a.phase = attempt[w].phase
      BY <1>2, <3>1 DEF Attempts
    <3>3. attempt' = [attempt EXCEPT ![w] = a]
      BY <2>1, <3>1
    <3> QED
      BY <1>1, <3>2, <3>3 DEF TypeOK
  <2>4. ProofStands(w)'
    BY <1>3, <2>1, <2>2, <2>3 DEF ProofStands, HasAcceptedOutcome, Running
  <2> QED
    BY <2>1, <2>3, <2>4, OneItem
<1> QED
  BY <1>4, <1>5, <1>6, <1>7, <1>8, <1>9

\* A decision about a submission.  A review is refused once the item is closed,
\* and whatever a decision withdraws takes the outcome with it.
LEMMA DecisionKeepsProof ==
  ASSUME ProofInv, DecisionStep
  PROVE  \A v \in Works : ProofStands(v)'
<1>1. TypeOK /\ \A v \in Works : ProofStands(v)
  BY DEF ProofInv
<1>2. ASSUME NEW w \in Works, NEW d \in {"approved", "rejected"}, Review(w, d)
      PROVE  \A v \in Works : ProofStands(v)'
  <2>1. /\ lifecycle' = lifecycle /\ generation' = generation /\ outcome' = outcome
        /\ UNCHANGED exceptions /\ Permit(w, "review", "reviewer", FALSE)
        /\ attempt' = [attempt EXCEPT ![w].verdict = d]
    BY <1>2 DEF Review
  <2>2. lifecycle[w] # "closed"
    <3>1. Facts(w).lifecycle # "closed"
      BY <2>1, ClosedIsLeftAlone DEF Permit
    <3> QED
      BY <1>1, <3>1, GraphFacts
  <2>3. attempt[w] \in Attempts
    BY <1>1 DEF TypeOK
  <2>4. /\ attempt'[w].phase = attempt[w].phase /\ attempt'[w].sealed = attempt[w].sealed
        /\ \A v \in Works \ {w} : attempt'[v] = attempt[v]
    BY <1>1, <2>1, <2>3 DEF TypeOK, Attempts
  <2>5. ProofStands(w)'
    BY <1>1, <2>1, <2>2, <2>4 DEF ProofStands, HasAcceptedOutcome, Running
  <2> QED
    BY <2>1, <2>4, <2>5, OneItem
<1>3. ASSUME NEW w \in Works, RevokeReview(w) PROVE \A v \in Works : ProofStands(v)'
  <2>1. /\ lifecycle' = lifecycle /\ generation' = generation
        /\ UNCHANGED exceptions
        /\ attempt' = [attempt EXCEPT ![w].verdict = "revoked"]
        /\ outcome' = [outcome EXCEPT ![w] = Invalidated(w)]
    BY <1>3 DEF RevokeReview
  <2>2. attempt[w] \in Attempts /\ generation[w] \in Generations
    BY <1>1 DEF TypeOK
  <2>3. /\ attempt'[w].phase = attempt[w].phase /\ attempt'[w].sealed = attempt[w].sealed
        /\ outcome'[w] = Invalidated(w)
        /\ \A v \in Works \ {w} : attempt'[v] = attempt[v] /\ outcome'[v] = outcome[v]
    BY <1>1, <2>1, <2>2 DEF TypeOK, Attempts
  <2>4. outcome'[w][generation[w]] # "accepted"
    BY <1>1, <2>2, <2>3, InvalidatedFacts
  <2>5. ProofStands(w)'
    BY <1>1, <2>1, <2>3, <2>4 DEF ProofStands, HasAcceptedOutcome, Running
  <2> QED
    BY <2>1, <2>3, <2>5, OneItem
<1>4. ASSUME UNCHANGED proofVars,
             \A j \in DOMAIN exceptions :
               j \in DOMAIN exceptions' /\ exceptions'[j] = exceptions[j]
      PROVE  \A v \in Works : ProofStands(v)'
  <2> SUFFICES ASSUME NEW v \in Works PROVE ProofStands(v)'
    OBVIOUS
  <2>1. \A k \in GateKinds : UnrevokedGate(v, k) => UnrevokedGate(v, k)'
    BY <1>4 DEF UnrevokedGate, RowsFor, proofVars
  <2> QED
    BY <1>1, <1>4, <2>1, UntouchedItem DEF proofVars
<1>5. ASSUME NEW w \in Works, NEW k \in GateKinds, GateException(w, k)
      PROVE  \A v \in Works : ProofStands(v)'
  <2>1. exceptions' = Granted(k, w, w) /\ UNCHANGED proofVars
    BY <1>5 DEF GateException
  <2>2. \A j \in DOMAIN exceptions :
          j \in DOMAIN exceptions' /\ exceptions'[j] = exceptions[j]
    BY <1>1, <2>1, GrantedException
  <2> QED
    BY <1>4, <2>1, <2>2
<1>6. ASSUME NEW w \in Works, NEW p \in Works, WaiveDependency(p, w)
      PROVE  \A v \in Works : ProofStands(v)'
  <2>1. exceptions' = Granted("dependency", w, p) /\ UNCHANGED proofVars
    BY <1>6 DEF WaiveDependency
  <2>2. \A j \in DOMAIN exceptions :
          j \in DOMAIN exceptions' /\ exceptions'[j] = exceptions[j]
    BY <1>1, <2>1, GrantedException
  <2> QED
    BY <1>4, <2>1, <2>2
<1>7. ASSUME NEW i \in DOMAIN exceptions, RevokeException(i)
      PROVE  \A v \in Works : ProofStands(v)'
  <2>1. PICK w : w = exceptions[i].work
    OBVIOUS
  <2>2. /\ lifecycle' = lifecycle /\ generation' = generation /\ attempt' = attempt
        /\ exceptions' = [exceptions EXCEPT ![i].state = "revoked"]
        /\ outcome' = [outcome EXCEPT ![w] = Invalidated(w)]
    BY <1>7, <2>1 DEF RevokeException
  <2>3. /\ DOMAIN exceptions' = DOMAIN exceptions
        /\ \A j \in DOMAIN exceptions :
              /\ exceptions'[j].kind = exceptions[j].kind
              /\ exceptions'[j].work = exceptions[j].work
              /\ exceptions'[j].target = exceptions[j].target
              /\ exceptions'[j].generation = exceptions[j].generation
              /\ exceptions'[j].state = IF j = i THEN "revoked" ELSE exceptions[j].state
    BY <1>1, <2>2, ChangedException
  <2> SUFFICES ASSUME NEW v \in Works PROVE ProofStands(v)'
    OBVIOUS
  <2>4. CASE v = w
    <3>1. generation[v] \in Generations /\ outcome'[v] = Invalidated(v)
      BY <1>1, <2>2, <2>4 DEF TypeOK
    <3>2. outcome'[v][generation[v]] # "accepted"
      BY <1>1, <3>1, InvalidatedFacts
    <3> QED
      BY <1>1, <2>2, <3>2 DEF ProofStands, HasAcceptedOutcome, Running
  <2>5. CASE v # w
    <3>1. outcome'[v] = outcome[v]
      BY <1>1, <2>2, <2>5 DEF TypeOK
    <3>2. \A k \in GateKinds : UnrevokedGate(v, k) => UnrevokedGate(v, k)'
      BY <2>1, <2>2, <2>3, <2>5 DEF UnrevokedGate, RowsFor
    <3> QED
      BY <1>1, <2>2, <3>1, <3>2, UntouchedItem
  <2> QED
    BY <2>4, <2>5
<1>8. ASSUME NEW i \in DOMAIN exceptions, ExceptionExpires(i)
      PROVE  \A v \in Works : ProofStands(v)'
  <2>1. /\ UNCHANGED proofVars
        /\ exceptions' = [exceptions EXCEPT ![i].state = "expired"]
    BY <1>8 DEF ExceptionExpires
  <2>2. /\ DOMAIN exceptions' = DOMAIN exceptions
        /\ \A j \in DOMAIN exceptions :
              /\ exceptions'[j].kind = exceptions[j].kind
              /\ exceptions'[j].work = exceptions[j].work
              /\ exceptions'[j].target = exceptions[j].target
              /\ exceptions'[j].generation = exceptions[j].generation
              /\ exceptions'[j].state = IF j = i THEN "expired" ELSE exceptions[j].state
    BY <1>1, <2>1, ChangedException
  <2> SUFFICES ASSUME NEW v \in Works PROVE ProofStands(v)'
    OBVIOUS
  <2>3. \A k \in GateKinds : UnrevokedGate(v, k) => UnrevokedGate(v, k)'
    BY <2>1, <2>2 DEF UnrevokedGate, RowsFor, proofVars
  <2> QED
    BY <1>1, <2>1, <2>3, UntouchedItem DEF proofVars
<1> QED
  BY <1>2, <1>3, <1>5, <1>6, <1>7, <1>8 DEF DecisionStep

\* Cancel, reopen and retry leave no closed item behind.
LEMMA LifecycleKeepsProof ==
  ASSUME ProofInv, LifecycleStep
  PROVE  \A v \in Works : ProofStands(v)'
<1>1. TypeOK /\ \A v \in Works : ProofStands(v)
  BY DEF ProofInv
<1>2. PICK w \in Works : \/ CancelWork(w) \/ NewGeneration(w, "reopen")
                         \/ NewGeneration(w, "retry")
  BY DEF LifecycleStep
<1>3. /\ ~Running(w) /\ attempt' = attempt /\ UNCHANGED exceptions
      /\ lifecycle'[w] \in {"open", "cancelled"}
      /\ \A v \in Works \ {w} : /\ lifecycle'[v] = lifecycle[v]
                               /\ generation'[v] = generation[v]
                               /\ outcome'[v] = outcome[v]
  <2>1. CASE CancelWork(w)
    BY <1>1, <2>1 DEF CancelWork, TypeOK
  <2>2. ASSUME NEW action, NewGeneration(w, action) PROVE <1>3!:
    BY <1>1, <2>2 DEF NewGeneration, TypeOK
  <2> QED
    BY <1>2, <2>1, <2>2
<1>4. ProofStands(w)'
  BY <1>3 DEF ProofStands, HasAcceptedOutcome, Running
<1> QED
  BY <1>3, <1>4, OneItem

LEMMA ProofStep ==
  ASSUME ProofInv, [Next]_vars
  PROVE  ProofInv'
<1>1. TypeOK /\ \A v \in Works : ProofStands(v)
  BY DEF ProofInv
<1>2. TypeOK'
  BY <1>1, TypeStep
<1>3. ASSUME UNCHANGED <<proofVars, exceptions>> PROVE \A v \in Works : ProofStands(v)'
  <2> SUFFICES ASSUME NEW v \in Works PROVE ProofStands(v)'
    OBVIOUS
  <2>1. \A k \in GateKinds : UnrevokedGate(v, k) => UnrevokedGate(v, k)'
    BY <1>3, SameExceptions DEF proofVars
  <2> QED
    BY <1>1, <1>3, <2>1, UntouchedItem DEF proofVars
<1>4. \A v \in Works : ProofStands(v)'
  <2>1. CASE EdgeStep
    BY <1>3, <2>1 DEF EdgeStep, AddDependency, RemoveDependency
  <2>2. CASE OwnerStep
    BY <2>2, OwnerKeepsProof DEF OwnerStep
  <2>3. CASE DecisionStep
    BY <2>3, DecisionKeepsProof
  <2>4. CASE LifecycleStep
    BY <2>4, LifecycleKeepsProof
  <2>5. CASE UNCHANGED vars
    BY <1>3, <2>5 DEF vars
  <2> QED
    BY <2>1, <2>2, <2>3, <2>4, <2>5 DEF Next
<1> QED
  BY <1>2, <1>4 DEF ProofInv

\* Only a claim starts an execution, and only of an item the policy shows as
\* ready, which waits for nothing.
LEMMA ClaimSeesProof ==
  ASSUME ProofInv, [Next]_vars, NEW w \in Works, Running(w)', ~Running(w),
         NEW p \in Works, <<p, w>> \in edges
  PROVE  \/ Stands(p)
         \/ \E i \in DOMAIN exceptions :
              /\ exceptions[i].kind = "dependency" /\ exceptions[i].state = "active"
              /\ exceptions[i].work = w /\ exceptions[i].target = p
<1>1. TypeOK /\ \A v \in Works : ProofStands(v)
  BY DEF ProofInv
<1>2. \A v \in Works : attempt[v] \in Attempts
  BY <1>1 DEF TypeOK
<1>3. Claim(w)
  <2>1. ASSUME UNCHANGED attempt PROVE FALSE
    BY <2>1 DEF Running
  <2>2. ASSUME NEW v \in Works, NEW a, attempt' = [attempt EXCEPT ![v] = a],
               a.phase # "running" \/ a.phase = attempt[v].phase
        PROVE  FALSE
    BY <1>1, <2>2 DEF Running, TypeOK
  <2>3. CASE EdgeStep
    BY <2>1, <2>3 DEF EdgeStep, AddDependency, RemoveDependency, proofVars
  <2>4. CASE OwnerStep
    <3>1. PICK v \in Works : \/ Claim(v)
                             \/ \E r \in {"satisfied", "failed"} : RecordReceipt(v, r)
                             \/ BindResult(v) \/ Release(v) \/ SealAndRequestClose(v)
                             \/ SealAgain(v) \/ FinalizeClose(v)
      BY <2>4 DEF OwnerStep
    <3>2. CASE Claim(v)
      <4>1. v = w
        BY <1>1, <3>2 DEF Claim, Running, TypeOK
      <4> QED
        BY <3>2, <4>1
    <3>3. ASSUME NEW r \in {"satisfied", "failed"}, RecordReceipt(v, r) PROVE FALSE
      <4>1. PICK a : a = [attempt[v] EXCEPT !.receipt = r, !.changed = Submitted(v)]
        OBVIOUS
      <4>2. a.phase = attempt[v].phase
        BY <1>2, <4>1 DEF Attempts
      <4>3. attempt' = [attempt EXCEPT ![v] = a]
        BY <3>3, <4>1 DEF RecordReceipt
      <4> QED
        BY <2>2, <4>2, <4>3
    <3>4. CASE BindResult(v)
      BY <2>1, <3>4 DEF BindResult
    <3>5. CASE Release(v)
      <4>1. [attempt[v] EXCEPT !.phase = "released"].phase = "released"
        BY <1>2 DEF Attempts
      <4> QED
        BY <2>2, <3>5, <4>1 DEF Release
    <3>6. CASE SealAndRequestClose(v)
      <4>1. PICK a : a = [attempt[v] EXCEPT !.phase = "completed",
                            !.sealed = generation[v], !.intent = "open"]
        OBVIOUS
      <4>2. a.phase = "completed"
        BY <1>2, <4>1 DEF Attempts
      <4>3. attempt' = [attempt EXCEPT ![v] = a]
        BY <3>6, <4>1 DEF SealAndRequestClose
      <4> QED
        BY <2>2, <4>2, <4>3
    <3>7. CASE FinalizeClose(v)
      <4>1. [attempt[v] EXCEPT !.intent = "finalized"].phase = attempt[v].phase
        BY <1>2 DEF Attempts
      <4> QED
        BY <2>2, <3>7, <4>1 DEF FinalizeClose
    <3>8. CASE SealAgain(v)
      <4>1. PICK a : a = [attempt[v] EXCEPT !.changed = FALSE, !.verdict = "none",
                                            !.intent = "open"]
        OBVIOUS
      <4>2. a.phase = attempt[v].phase
        BY <1>2, <4>1 DEF Attempts
      <4>3. attempt' = [attempt EXCEPT ![v] = a]
        BY <3>8, <4>1 DEF SealAgain
      <4> QED
        BY <2>2, <4>2, <4>3
    <3> QED
      BY <3>1, <3>2, <3>3, <3>4, <3>5, <3>6, <3>7, <3>8
  <2>5. CASE DecisionStep
    <3>1. ASSUME NEW v \in Works, NEW d, attempt' = [attempt EXCEPT ![v].verdict = d]
          PROVE  FALSE
      <4>1. [attempt[v] EXCEPT !.verdict = d].phase = attempt[v].phase
        BY <1>2 DEF Attempts
      <4> QED
        BY <2>2, <3>1, <4>1
    <3> QED
      BY <2>1, <2>5, <3>1 DEF DecisionStep, Review, RevokeReview, GateException,
                              WaiveDependency, RevokeException, ExceptionExpires, proofVars
  <2>6. CASE LifecycleStep
    BY <2>1, <2>6 DEF LifecycleStep, CancelWork, NewGeneration
  <2>7. CASE UNCHANGED vars
    BY <2>1, <2>7 DEF vars, proofVars
  <2> QED
    BY <2>3, <2>4, <2>5, <2>6, <2>7 DEF Next
<1>4. EvaluateStatus(Facts(w)) = "ready"
  BY <1>3, ClaimMeansReady DEF Claim, Permit
<1>5. ~Waiting(w)
  BY <1>1, <1>4, ReadyIsUnobstructed, GraphFacts
<1>6. HasAcceptedOutcome(p) \/ Waived(p, w)
  BY <1>5 DEF Waiting
<1> QED
  BY <1>1, <1>6, RowsMeanStands DEF ProofStands, Waived, RowsFor

\* A claim never consumes withdrawn acceptance, for any number of items, edges,
\* generations and exceptions: what the close of a prerequisite rested on has
\* not been revoked, or the edge is waived.
THEOREM ClaimsRestOnProof == Spec => ClaimsRestOnStandingProof
<1>1. Init => ProofInv
  <2>1. Init => TypeOK
    <3>1. NoAttempt \in Attempts
      BY DEF NoAttempt, Attempts, GateStates
    <3> QED
      BY <3>1, BoundAssumption DEF Init, TypeOK, Generations, Lifecycles, GateStates
  <2> QED
    BY <2>1 DEF Init, ProofInv, ProofStands, HasAcceptedOutcome, Running, NoAttempt
<1>2. ProofInv /\ [Next]_vars =>
        [\A w \in Works : Running(w)' /\ ~Running(w) =>
           \A p \in Works : <<p, w>> \in edges =>
             \/ Stands(p)
             \/ \E i \in DOMAIN exceptions :
                  /\ exceptions[i].kind = "dependency" /\ exceptions[i].state = "active"
                  /\ exceptions[i].work = w /\ exceptions[i].target = p]_vars
  BY ClaimSeesProof
<1> QED
  BY <1>1, <1>2, ProofStep, PTL DEF Spec, ClaimsRestOnStandingProof

(***************************************************************************)
(* One item while time passes.                                             *)
(***************************************************************************)
\* The rows of an execution: what they have in common and what a draft has not.
LEMMA ExecutionRows ==
  ASSUME NEW e \in Executions
  PROVE  /\ e.lifecycle \in Lifecycles /\ e.phase \in FactPhases /\ e.lease \in Nat
         /\ e.recovery \in {"none", "expired", "other"}
         /\ e.lifecycle = "draft" =>
              e.phase = "none" /\ e.recovery = "none" /\ ~e.submitted
<1>1. CASE e \in [lifecycle : {"open"}, phase : LivePhases, recovery : {"none"},
                  submitted : {FALSE}, lease : 1 .. MaxTime + 1]
  <2>1. e.lifecycle = "open" /\ e.phase \in LivePhases /\ e.recovery = "none"
    BY <1>1
  <2>2. e.lease \in 1 .. MaxTime + 1
    BY <1>1
  <2> QED
    BY <2>1, <2>2, ClockAssumption DEF Lifecycles, FactPhases
<1>2. CASE e \in [lifecycle : {"open", "cancelled"}, phase : {"none"},
                  recovery : {"none", "expired", "other"}, submitted : {FALSE}, lease : {0}]
  <2>1. /\ e.lifecycle \in {"open", "cancelled"} /\ e.phase = "none" /\ e.lease = 0
        /\ e.recovery \in {"none", "expired", "other"}
    BY <1>2
  <2> QED
    BY <2>1 DEF Lifecycles, FactPhases
<1>3. CASE e \in [lifecycle : {"open", "cancelled"}, phase : {"none"},
                  recovery : {"none", "other"}, submitted : {TRUE}, lease : {0}]
  <2>1. /\ e.lifecycle \in {"open", "cancelled"} /\ e.phase = "none" /\ e.lease = 0
        /\ e.recovery \in {"none", "other"}
    BY <1>3
  <2> QED
    BY <2>1 DEF Lifecycles, FactPhases
<1>4. CASE e = [lifecycle |-> "closed", phase |-> "none", recovery |-> "none",
                submitted |-> TRUE, lease |-> 0]
  BY <1>4 DEF Lifecycles, FactPhases
<1>5. CASE e = [lifecycle |-> "draft", phase |-> "none", recovery |-> "none",
                submitted |-> FALSE, lease |-> 0]
  BY <1>5 DEF Lifecycles, FactPhases
<1> QED
  BY <1>1, <1>2, <1>3, <1>4, <1>5 DEF Executions

\* The facts of an item at an instant, for the lemmas about the policy.
LEMMA ClockFacts ==
  ASSUME NEW i \in Items, NEW t \in Nat
  PROVE  /\ FactsAt(i, t).lifecycle = i.execution.lifecycle
         /\ FactsAt(i, t).lifecycle \in Lifecycles
         /\ FactsAt(i, t).phase = i.execution.phase /\ FactsAt(i, t).phase \in FactPhases
         /\ FactsAt(i, t).recovery = i.execution.recovery
         /\ FactsAt(i, t).submitted = i.execution.submitted
         /\ FactsAt(i, t).technical = i.technical.state
         /\ FactsAt(i, t).review = i.review.state
         /\ FactsAt(i, t).elapsed = Elapsed(i.execution, t)
         /\ FactsAt(i, t).excepted = {k \in GateKinds : i[k].waiver > t}
         /\ FactsAt(i, t).hold = i.dispatch.hold
         /\ FactsAt(i, t).policy = i.dispatch.policy
         /\ FactsAt(i, t).retry = (i.dispatch.retryAt > t)
         /\ FactsAt(i, t).scheduled = (i.dispatch.startAt > t)
         /\ FactsAt(i, t).waiting = ("prerequisite" \in i.dispatch.waits)
         /\ FactsAt(i, t).external = ("external" \in i.dispatch.waits)
         /\ FactsAt(i, t).kind = i.dispatch.kind
         /\ FactsAt(i, t).integrity = i.defect.integrity
         /\ FactsAt(i, t).faults = {i.defect.fault} \ {"none"}
         /\ FactsAt(i, t).bound = i.defect.bound
<1>1. i.execution \in Executions
  BY DEF Items
<1>2. /\ i.execution.lifecycle \in Lifecycles
      /\ i.execution.phase \in FactPhases
  BY <1>1, ExecutionRows
<1> QED
  BY <1>2 DEF FactsAt

\* What the rows of an item have in common.
LEMMA ItemFacts ==
  ASSUME NEW i \in Items
  PROVE  /\ i.execution.lease \in Nat
         /\ i.dispatch.retryAt \in 0 .. MaxTime /\ i.dispatch.startAt \in 0 .. MaxTime
         /\ i.technical.waiver \in Waivers /\ i.review.waiver \in Waivers
         /\ i.technical.waiver \in Nat /\ i.review.waiver \in Nat
         /\ i.execution.lifecycle = "draft" =>
              /\ i.execution.phase = "none" /\ i.execution.recovery = "none"
              /\ i.review.state # "failed"
         /\ i.review.state = "failed" => i.execution.submitted
         /\ i.defect.integrity \in {"valid", "quarantined"}
<1> USE ClockAssumption
<1>1. /\ i.execution \in Executions /\ i.technical \in Gates /\ i.review \in Gates
      /\ i.dispatch \in Dispatch /\ i.defect \in Defects
      /\ i.review.state = "failed" => i.execution.submitted
  BY DEF Items
<1>2. i.execution.lease \in Nat
  BY <1>1, ExecutionRows
<1>3. i.dispatch.retryAt \in 0 .. MaxTime /\ i.dispatch.startAt \in 0 .. MaxTime
  BY <1>1 DEF Dispatch
<1>4. i.technical.waiver \in Waivers /\ i.review.waiver \in Waivers
  BY <1>1 DEF Gates
<1>5. i.execution.lifecycle = "draft" =>
        /\ i.execution.phase = "none" /\ i.execution.recovery = "none"
        /\ ~i.execution.submitted
  BY <1>1, ExecutionRows
<1>6. i.defect.integrity \in {"valid", "quarantined"}
  <2>1. CASE i.defect \in [integrity : {"valid", "quarantined"}, fault : {"none"} \cup Faults,
                           bound : {TRUE}]
    BY <2>1
  <2>2. CASE i.defect = [integrity |-> "valid", fault |-> "none", bound |-> FALSE]
    BY <2>2
  <2> QED
    BY <1>1, <2>1, <2>2 DEF Defects
<1> QED
  BY <1>1, <1>2, <1>3, <1>4, <1>5, <1>6

\* The item is never written and the clock stays on its scale.
ClockInv == item \in Items /\ now \in 0 .. MaxTime

LEMMA ClockIsInductive ==
  /\ ClockInit => ClockInv
  /\ ClockInv /\ [Tick]_clockVars => ClockInv'
BY ClockAssumption DEF ClockInit, ClockInv, Tick, clockVars

\* The two evaluators agree on who may claim, for every combination of facts the
\* store reports (in a degraded envelope they would not).
LEMMA ClaimEvaluatorsAgree ==
  ASSUME NEW f, f.phase \in FactPhases, f.integrity \in {"valid", "quarantined"}, NEW role
  PROVE  Eligible(f, role) <=> Authorized(f, "claim", role, TRUE, FALSE)
<1>1. ASSUME EvaluateStatus(f) = "ready"
      PROVE  f.policy # "paused" /\ ~f.hold /\ f.integrity = "valid"
  BY <1>1, ReadyIsUnobstructed
<1>2. RequiredRoles(f, "claim") = IF f.policy = "operator_only" THEN {"operator"} ELSE {"agent"}
  BY DEF RequiredRoles
<1>3. "claim" \notin OwnerActions
  BY DEF OwnerActions
<1>4. StatusPermits(f, "claim") <=> EvaluateStatus(f) = "ready" /\ f.policy # "paused"
  BY DEF StatusPermits
<1> QED
  BY <1>1, <1>2, <1>3, <1>4 DEF Eligible, Authorized, IntegrityPermits, BindingPermits

\* claimable_for_actor and the answer to a claim agree at every instant.
THEOREM ClaimableAgrees == ClockSpec => []ClaimableIffAuthorized
<1>1. ClockInv => ClaimableIffAuthorized
  <2> SUFFICES ASSUME ClockInv, NEW role \in Roles
               PROVE  Eligible(FactsAt(item, now), role) <=> Permitted("claim", role, FALSE)
    BY DEF ClaimableIffAuthorized
  <2>1. item \in Items /\ now \in Nat
    BY ClockAssumption DEF ClockInv
  <2> QED
    BY <2>1, ClockFacts, ItemFacts, ClaimEvaluatorsAgree DEF Permitted
<1> QED
  BY <1>1, ClockIsInductive, PTL DEF ClockSpec

\* A future start is announced, or something before it.
LEMMA StartIsAnnounced ==
  ASSUME NEW i \in Items, NEW t \in Nat, i.dispatch.startAt > t,
         ~Terminal(EvaluateStatus(FactsAt(i, t))), ~ExpiryPending(FactsAt(i, t))
  PROVE  NextStatusChange(i, t) <= i.dispatch.startAt
<1>1. PICK a \in Nat, b \in Nat, c \in Nat, n \in Nat :
        /\ a = i.execution.lease /\ b = i.dispatch.retryAt
        /\ c = i.dispatch.startAt /\ n = Never
  <2>1. /\ Never \in Nat /\ i.execution.lease \in Nat
        /\ i.dispatch.retryAt \in Nat /\ i.dispatch.startAt \in Nat
    BY ItemFacts, ClockAssumption DEF Never
  <2> QED
    BY <2>1
<1> DEFINE S == {n} \cup {x \in {a, b, c} : x > t}
<1>2. NextStatusChange(i, t) = Min(S)
  BY <1>1 DEF NextStatusChange
<1>3. c \in S
  BY <1>1
<1>4. PICK k \in S : \A y \in S : k <= y
  <2>1. PICK p \in {n, a} : p \in S /\ p <= n /\ (a \in S => p <= a)
    OBVIOUS
  <2>2. PICK q \in {p, b} : q \in S /\ q <= p /\ (b \in S => q <= b)
    BY <2>1
  <2>3. PICK m \in {q, c} : m \in S /\ m <= q /\ (c \in S => m <= c)
    BY <2>1, <2>2
  <2>4. \A y \in S : y \in {n, a, b, c}
    OBVIOUS
  <2>5. /\ m \in Nat /\ m <= n /\ (a \in S => m <= a) /\ (b \in S => m <= b)
        /\ (c \in S => m <= c)
    BY <2>1, <2>2, <2>3
  <2> HIDE DEF S
  <2>6. \A y \in S : m <= y
    BY <2>4, <2>5
  <2> QED
    BY <2>3, <2>6
<1>5. \A y \in S : Min(S) <= y
  <2> HIDE DEF S
  <2> QED
    BY <1>4 DEF Min
<1> QED
  BY <1>1, <1>2, <1>3, <1>5

\* An item was never recovered, or its obligation is of one of the two kinds.
LEMMA RecoveryFacts ==
  ASSUME NEW i \in Items, NEW t \in Nat
  PROVE  FactsAt(i, t).recovery \in {"none", "expired", "other"}
<1>1. i.execution \in Executions
  BY DEF Items
<1> QED
  BY <1>1, ExecutionRows, ClockFacts

\* Whatever the policy governs and keeps an item from being claimed, somebody may
\* remove it now, and what it does not govern can be cancelled.
THEOREM NobodyIsStuck == ClockSpec => []NoDeadEnd
<1>1. ClockInv => NoDeadEnd
  <2>1. SUFFICES ASSUME ClockInv, NEW f, f = FactsAt(item, now), NEW s,
                        s = EvaluateStatus(f), ~Terminal(s)
        PROVE  \/ f.integrity # "valid" /\ Someone("repair")
               \/ /\ f.integrity = "valid"
                  /\ f.hold => Someone("resolve_hold")
                  /\ ExpiryPending(f) \/ f.recovery # "none" => Someone("recover")
                  /\ f.phase # "none" => Someone("release")
                  /\ s = "blocked" /\ Rejected(f) =>
                       Someone("review") /\ Someone("force_gate")
                  /\ s = "scheduled" => NextStatusChange(item, now) # Never
                  /\ ~f.hold =>
                       /\ Someone("cancel")
                       /\ s = "draft" => Someone("publish")
                       /\ s \in {"paused", "retry_wait"} => Someone("resume_policy")
                       /\ s = "queued" /\ f.waiting => Someone("waive_dependency")
                       /\ s \in {"needs_verification", "awaiting_review", "complete"}
                            /\ f.phase = "none" => Someone("retry")
    BY <2>1 DEF NoDeadEnd, StatusAt
  <2>2. item \in Items /\ now \in Nat
    BY <2>1, ClockAssumption DEF ClockInv
  <2>3. /\ f.phase \in FactPhases /\ f.lifecycle \in Lifecycles
        /\ f.integrity \in {"valid", "quarantined"}
        /\ f.review = "failed" => f.submitted
    BY <2>1, <2>2, ClockFacts, ItemFacts
  <2>4. f.lifecycle \notin {"closed", "cancelled"}
    BY <2>1, LifecycleFirst DEF Terminal
  <2>5. ASSUME NEW action, NEW role \in Roles, NEW owner \in BOOLEAN,
               Authorized(f, action, role, TRUE, owner)
        PROVE  Someone(action)
    BY <2>1, <2>5 DEF Someone, Permitted
  <2>6. "operator" \in Roles /\ "agent" \in Roles
    BY DEF Roles
  <2>7. ASSUME f.integrity # "valid" PROVE Someone("repair")
    <3>1. Authorized(f, "repair", "operator", TRUE, FALSE)
      BY <2>3, <2>7 DEF Authorized, IntegrityPermits, BindingPermits, RequiredRoles,
                        OwnerActions, HoldExempt, StatusPermits
    <3> QED
      BY <2>5, <2>6, <3>1
  <2> SUFFICES ASSUME f.integrity = "valid"
               PROVE  /\ f.hold => Someone("resolve_hold")
                      /\ ExpiryPending(f) \/ f.recovery # "none" => Someone("recover")
                      /\ f.phase # "none" => Someone("release")
                      /\ s = "blocked" /\ Rejected(f) =>
                           Someone("review") /\ Someone("force_gate")
                      /\ s = "scheduled" => NextStatusChange(item, now) # Never
                      /\ ~f.hold =>
                           /\ Someone("cancel")
                           /\ s = "draft" => Someone("publish")
                           /\ s \in {"paused", "retry_wait"} => Someone("resume_policy")
                           /\ s = "queued" /\ f.waiting => Someone("waive_dependency")
                           /\ s \in {"needs_verification", "awaiting_review", "complete"}
                                /\ f.phase = "none" => Someone("retry")
    BY <2>7
  <2>8. ASSUME NEW action, NEW role \in Roles, NEW owner \in BOOLEAN,
               role \in RequiredRoles(f, action),
               action \notin {"start", "submit", "attach"},
               action \in OwnerActions => owner /\ f.phase # "none",
               action \in {"review", "revoke_review"} => ~owner,
               f.hold => action \in HoldExempt, StatusPermits(f, action)
        PROVE  Someone(action)
    <3>1. Authorized(f, action, role, TRUE, owner)
      BY <2>8 DEF Authorized, IntegrityPermits, BindingPermits
    <3> QED
      BY <2>5, <3>1
  <2>9. ASSUME f.hold PROVE Someone("resolve_hold")
    <3>1. "operator" \in RequiredRoles(f, "resolve_hold") /\ StatusPermits(f, "resolve_hold")
      BY <2>9 DEF RequiredRoles, OwnerActions, StatusPermits
    <3> QED
      BY <2>6, <2>8, <3>1 DEF OwnerActions, HoldExempt
  <2>10. ASSUME ExpiryPending(f) \/ f.recovery # "none" PROVE Someone("recover")
    <3>1. s = "expired_review" \/ f.recovery # "none"
      BY <2>1, <2>4, <2>10, ExpiryThenHard
    <3>2. "agent" \in RequiredRoles(f, "recover") /\ StatusPermits(f, "recover")
      BY <2>1, <3>1 DEF RequiredRoles, OwnerActions, StatusPermits
    <3> QED
      BY <2>6, <2>8, <3>2 DEF OwnerActions, HoldExempt
  <2>11. ASSUME f.phase # "none" PROVE Someone("release")
    <3>1. "agent" \in RequiredRoles(f, "release") /\ StatusPermits(f, "release")
      BY <2>11 DEF RequiredRoles, OwnerActions, StatusPermits
    <3> QED
      BY <2>6, <2>8, <2>11, <3>1 DEF HoldExempt
  <2>12. ASSUME s = "blocked", Rejected(f) PROVE Someone("review") /\ Someone("force_gate")
    <3>1. /\ "operator" \in RequiredRoles(f, "review") /\ StatusPermits(f, "review")
      BY <2>1, <2>3, <2>12 DEF RequiredRoles, StatusPermits, Rejected
    <3>2. /\ "operator" \in RequiredRoles(f, "force_gate") /\ StatusPermits(f, "force_gate")
      BY <2>1, <2>12 DEF RequiredRoles, OwnerActions, StatusPermits
    <3>3. Someone("review")
      BY <2>6, <2>8, <3>1 DEF OwnerActions, HoldExempt
    <3>4. Someone("force_gate")
      BY <2>6, <2>8, <3>2 DEF OwnerActions, HoldExempt
    <3> QED
      BY <3>3, <3>4
  <2>13. ASSUME s = "scheduled" PROVE NextStatusChange(item, now) # Never
    <3>1. f.scheduled /\ ~ExpiryPending(f)
      <4>1. ~ExpiryPending(f)
        BY <2>1, <2>4, <2>13, ExpiryThenHard
      <4>2. ProofDecision(f) # "scheduled" /\ AttemptStatus(f) # "scheduled"
        BY <2>3 DEF ProofDecision, AttemptStatus, FactPhases, LivePhases
      <4>3. PICK k \in 1 .. 13 : /\ Precedence(f)[k].when
                                 /\ "scheduled" = Precedence(f)[k].status
        BY <2>1, <2>13, FirstMatch
      <4>4. k = 10
        BY <4>2, <4>3 DEF Precedence
      <4>5. Precedence(f)[10].when = f.scheduled
        BY DEF Precedence
      <4> QED
        BY <4>1, <4>3, <4>4, <4>5
    <3>2. item.dispatch.startAt \in 0 .. MaxTime /\ item.dispatch.startAt > now
      BY <2>1, <2>2, <3>1, ClockFacts, ItemFacts
    <3>3. NextStatusChange(item, now) <= item.dispatch.startAt
      BY <2>1, <2>2, <3>1, <3>2, StartIsAnnounced
    <3>4. PICK m : m = NextStatusChange(item, now)
      OBVIOUS
    <3> QED
      BY <3>2, <3>3, <3>4, ClockAssumption DEF Never
  <2>14. ASSUME ~f.hold PROVE Someone("cancel")
    <3>1. "operator" \in RequiredRoles(f, "cancel") /\ StatusPermits(f, "cancel")
      BY <2>1 DEF RequiredRoles, OwnerActions, StatusPermits
    <3> QED
      BY <2>6, <2>8, <2>14, <3>1 DEF OwnerActions
  <2>15. ASSUME ~f.hold, s = "draft" PROVE Someone("publish")
    <3>1. "operator" \in RequiredRoles(f, "publish") /\ StatusPermits(f, "publish")
      BY <2>1, <2>15 DEF RequiredRoles, StatusPermits
    <3> QED
      BY <2>6, <2>8, <2>15, <3>1 DEF OwnerActions
  <2>16. ASSUME ~f.hold, s \in {"paused", "retry_wait"} PROVE Someone("resume_policy")
    <3>1. /\ "operator" \in RequiredRoles(f, "resume_policy")
          /\ StatusPermits(f, "resume_policy")
      BY <2>1, <2>16 DEF RequiredRoles, OwnerActions, StatusPermits
    <3> QED
      BY <2>6, <2>8, <2>16, <3>1 DEF OwnerActions
  <2>17. ASSUME ~f.hold, s = "queued" PROVE Someone("waive_dependency")
    <3>1. /\ "operator" \in RequiredRoles(f, "waive_dependency")
          /\ StatusPermits(f, "waive_dependency")
      BY <2>1, <2>17 DEF RequiredRoles, OwnerActions, StatusPermits
    <3> QED
      BY <2>6, <2>8, <2>17, <3>1 DEF OwnerActions
  <2>18. ASSUME ~f.hold, s \in {"needs_verification", "awaiting_review", "complete"},
                f.phase = "none"
         PROVE  Someone("retry")
    <3>1. ~ExpiryPending(f) /\ ~HardReason(f)
      BY <2>1, <2>4, <2>18, ExpiryThenHard
    <3>2. f.recovery = "none"
      BY <2>1, <2>2, <3>1, ClockFacts, RecoveryFacts DEF ExpiryPending, HardReason
    <3>3. "operator" \in RequiredRoles(f, "retry") /\ StatusPermits(f, "retry")
      BY <2>1, <2>18, <3>2 DEF RequiredRoles, OwnerActions, StatusPermits, RetryPermitted
    <3> QED
      BY <2>6, <2>8, <2>18, <3>3 DEF OwnerActions
  <2> QED
    BY <2>9, <2>10, <2>11, <2>12, <2>13, <2>14, <2>15, <2>16, <2>17, <2>18
<1> QED
  BY <1>1, ClockIsInductive, PTL DEF ClockSpec

\* What one tick does to the facts of an item: only instants pass.
LEMMA TickFacts ==
  ASSUME NEW i \in Items, NEW t \in Nat, NEW f, NEW g,
         f = FactsAt(i, t), g = FactsAt(i, t + 1)
  PROVE  /\ g.lifecycle = f.lifecycle /\ g.phase = f.phase /\ g.recovery = f.recovery
         /\ g.submitted = f.submitted /\ g.technical = f.technical /\ g.review = f.review
         /\ g.hold = f.hold /\ g.policy = f.policy /\ g.waiting = f.waiting
         /\ g.kind = f.kind /\ g.external = f.external
         /\ g.integrity = f.integrity /\ g.faults = f.faults
         /\ ExpiryPending(f) => ExpiryPending(g)
         /\ HardReason(f) => HardReason(g)
<1>1. t + 1 \in Nat
  OBVIOUS
<1>2. /\ g.lifecycle = f.lifecycle /\ g.phase = f.phase /\ g.recovery = f.recovery
      /\ g.submitted = f.submitted /\ g.technical = f.technical /\ g.review = f.review
      /\ g.hold = f.hold /\ g.policy = f.policy /\ g.waiting = f.waiting
      /\ g.kind = f.kind /\ g.external = f.external
      /\ g.integrity = f.integrity /\ g.faults = f.faults
  <2>1. /\ g.lifecycle = f.lifecycle /\ g.phase = f.phase /\ g.recovery = f.recovery
        /\ g.submitted = f.submitted /\ g.technical = f.technical /\ g.review = f.review
    BY <1>1, ClockFacts
  <2>2. /\ g.hold = f.hold /\ g.policy = f.policy /\ g.waiting = f.waiting
        /\ g.kind = f.kind /\ g.external = f.external
    BY <1>1, ClockFacts
  <2>3. g.integrity = f.integrity /\ g.faults = f.faults
    BY <1>1, ClockFacts
  <2> QED
    BY <2>1, <2>2, <2>3
<1>3. f.elapsed => g.elapsed
  <2>1. f.elapsed = Elapsed(i.execution, t) /\ g.elapsed = Elapsed(i.execution, t + 1)
    BY <1>1, ClockFacts
  <2>2. i.execution.lease \in Nat
    BY ItemFacts
  <2>3. Elapsed(i.execution, t) => Elapsed(i.execution, t + 1)
    BY <2>2 DEF Elapsed
  <2> QED
    BY <2>1, <2>3
<1>4. "review" \in Gaps(f) => "review" \in Gaps(g)
  <2>1. g.excepted \subseteq f.excepted
    <3>1. /\ f.excepted = {k \in GateKinds : i[k].waiver > t}
          /\ g.excepted = {k \in GateKinds : i[k].waiver > t + 1}
      BY <1>1, ClockFacts
    <3>2. \A k \in GateKinds : i[k].waiver \in Nat
      BY ItemFacts DEF GateKinds
    <3> QED
      BY <3>1, <3>2
  <2>2. f["review"] = f.review /\ g["review"] = g.review
    OBVIOUS
  <2> QED
    BY <1>2, <2>1, <2>2 DEF Gaps, Excepted
<1>5. ExpiryPending(f) => ExpiryPending(g)
  BY <1>2, <1>3 DEF ExpiryPending
<1>6. HardReason(f) => HardReason(g)
  BY <1>2, <1>4 DEF HardReason, Rejected
<1> QED
  BY <1>2, <1>5, <1>6

\* Only an item whose expiry is pending is shown as expired_review.
LEMMA ExpiredReviewMeansPending ==
  ASSUME NEW f, f.phase \in FactPhases, EvaluateStatus(f) = "expired_review"
  PROVE  ExpiryPending(f) /\ f.lifecycle \notin {"closed", "cancelled"}
<1>1. f.lifecycle \notin {"closed", "cancelled"}
  BY LifecycleFirst
<1>2. ASSUME ~ExpiryPending(f) PROVE FALSE
  <2>1. ProofDecision(f) # "expired_review" /\ AttemptStatus(f) # "expired_review"
    BY <1>2 DEF ProofDecision, AttemptStatus, FactPhases, LivePhases, ExpiryPending
  <2>2. PICK k \in 1 .. 13 : /\ Precedence(f)[k].when
                             /\ EvaluateStatus(f) = Precedence(f)[k].status
    BY FirstMatch
  <2>3. /\ Precedence(f)[1].status # "expired_review"
        /\ Precedence(f)[2].status # "expired_review"
        /\ ~Precedence(f)[3].when /\ Precedence(f)[4].status # "expired_review"
        /\ Precedence(f)[5].status # "expired_review"
        /\ Precedence(f)[6].status # "expired_review"
        /\ Precedence(f)[7].status # "expired_review"
        /\ Precedence(f)[8].status # "expired_review"
        /\ Precedence(f)[9].status # "expired_review"
        /\ Precedence(f)[10].status # "expired_review"
        /\ Precedence(f)[11].status # "expired_review"
        /\ Precedence(f)[12].status # "expired_review"
        /\ Precedence(f)[13].status # "expired_review"
    BY <1>2, <2>1 DEF Precedence
  <2> QED
    BY <2>2, <2>3
<1> QED
  BY <1>1, <1>2

\* One tick: expiry review stays, and ready comes only from a window that opens.
LEMMA TickNeverRevives ==
  ASSUME NEW i \in Items, NEW t \in Nat, NEW f, NEW g,
         f = FactsAt(i, t), g = FactsAt(i, t + 1)
  PROVE  /\ EvaluateStatus(f) = "expired_review" => EvaluateStatus(g) = "expired_review"
         /\ EvaluateStatus(g) = "ready" =>
              EvaluateStatus(f) \in {"ready", "retry_wait", "scheduled"}
<1>1. f.phase \in FactPhases /\ g.phase \in FactPhases
  BY ClockFacts
<1>2. /\ g.lifecycle = f.lifecycle /\ g.phase = f.phase /\ g.submitted = f.submitted
      /\ g.technical = f.technical /\ g.policy = f.policy /\ g.waiting = f.waiting
      /\ g.kind = f.kind /\ g.external = f.external
      /\ g.integrity = f.integrity /\ g.faults = f.faults
      /\ ExpiryPending(f) => ExpiryPending(g)
      /\ HardReason(f) => HardReason(g)
  BY TickFacts
<1>3. ASSUME EvaluateStatus(f) = "expired_review" PROVE EvaluateStatus(g) = "expired_review"
  BY <1>1, <1>2, <1>3, ExpiredReviewMeansPending, ExpiryThenHard
<1>4. ASSUME EvaluateStatus(g) = "ready"
      PROVE  EvaluateStatus(f) \in {"ready", "retry_wait", "scheduled"}
  <2>1. \A j \in 1 .. 12 : ~Precedence(g)[j].when
    BY <1>1, <1>4, ReadyIsLast
  <2>2. /\ ~Precedence(g)[1].when /\ ~Precedence(g)[2].when /\ ~Precedence(g)[3].when
        /\ ~Precedence(g)[4].when /\ ~Precedence(g)[5].when /\ ~Precedence(g)[6].when
        /\ ~Precedence(g)[7].when /\ ~Precedence(g)[8].when /\ ~Precedence(g)[11].when
        /\ ~Precedence(g)[12].when
    BY <2>1
  <2>3. /\ ~Precedence(f)[1].when /\ ~Precedence(f)[2].when /\ ~Precedence(f)[3].when
        /\ ~Precedence(f)[4].when /\ ~Precedence(f)[5].when /\ ~Precedence(f)[6].when
        /\ ~Precedence(f)[7].when /\ ~Precedence(f)[8].when /\ ~Precedence(f)[11].when
        /\ ~Precedence(f)[12].when
    BY <1>2, <2>2 DEF Precedence
  <2>4. PICK k \in 1 .. 13 : /\ Precedence(f)[k].when
                             /\ EvaluateStatus(f) = Precedence(f)[k].status
    BY FirstMatch
  <2>5. k \in {9, 10, 13}
    BY <2>3, <2>4
  <2>6. /\ Precedence(f)[9].status = "retry_wait" /\ Precedence(f)[10].status = "scheduled"
        /\ Precedence(f)[13].status = "ready"
    BY DEF Precedence
  <2> QED
    BY <2>4, <2>5, <2>6
<1> QED
  BY <1>3, <1>4

\* Time alone never takes an item out of expiry review, and offers it for a claim
\* only when a retry window or a scheduled start opens.
THEOREM ClockRevivesNothing == ClockSpec => ClockNeverRevives
<1>1. ClockInv /\ [Tick]_clockVars =>
        [/\ StatusAt(now) = "expired_review" => StatusAt(now') = "expired_review"
         /\ StatusAt(now') = "ready" =>
              StatusAt(now) \in {"ready", "retry_wait", "scheduled"}]_clockVars
  <2> SUFFICES ASSUME ClockInv, Tick
               PROVE  /\ StatusAt(now) = "expired_review" => StatusAt(now') = "expired_review"
                      /\ StatusAt(now') = "ready" =>
                           StatusAt(now) \in {"ready", "retry_wait", "scheduled"}
    OBVIOUS
  <2>1. item \in Items /\ now \in Nat /\ now' = now + 1
    BY ClockAssumption DEF ClockInv, Tick
  <2>2. PICK f : f = FactsAt(item, now)
    OBVIOUS
  <2>3. PICK g : g = FactsAt(item, now + 1)
    OBVIOUS
  <2>4. /\ EvaluateStatus(f) = "expired_review" => EvaluateStatus(g) = "expired_review"
        /\ EvaluateStatus(g) = "ready" =>
             EvaluateStatus(f) \in {"ready", "retry_wait", "scheduled"}
    BY <2>1, <2>2, <2>3, TickNeverRevives
  <2> QED
    BY <2>1, <2>2, <2>3, <2>4 DEF StatusAt
<1> QED
  BY <1>1, ClockIsInductive, PTL DEF ClockSpec, ClockNeverRevives

\* The earliest instant of a set the reader is told to come back at.
LEMMA AnnouncedIsEarliest ==
  ASSUME NEW i \in Items, NEW t \in 0 .. MaxTime,
         ~Terminal(EvaluateStatus(FactsAt(i, t))), ~ExpiryPending(FactsAt(i, t)),
         NEW at \in {i.execution.lease, i.dispatch.retryAt, i.dispatch.startAt}, at = t + 1
  PROVE  NextStatusChange(i, t) <= at
<1> DEFINE S == {Never} \cup {x \in {i.execution.lease, i.dispatch.retryAt,
                                     i.dispatch.startAt} : x > t}
<1>1. /\ i.execution.lease \in Nat /\ i.dispatch.retryAt \in Nat /\ i.dispatch.startAt \in Nat
      /\ Never \in Nat /\ t \in Nat /\ Never > t
  BY ItemFacts, ClockAssumption DEF Never
<1>2. NextStatusChange(i, t) = Min(S)
  BY DEF NextStatusChange
<1>3. at \in S /\ \A x \in S : x \in Nat /\ at <= x
  BY <1>1
<1>4. Min(S) = at
  <2> HIDE DEF S
  <2>1. at \in S /\ \A y \in S : at <= y
    BY <1>3
  <2>2. Min(S) = CHOOSE x \in S : \A y \in S : x <= y
    BY DEF Min
  <2>3. Min(S) \in S /\ \A y \in S : Min(S) <= y
    BY <2>1, <2>2
  <2>4. PICK m : m = Min(S)
    OBVIOUS
  <2>5. m \in Nat /\ at \in Nat /\ at <= m /\ m <= at
    BY <1>3, <2>1, <2>3, <2>4
  <2> QED
    BY <2>4, <2>5
<1> QED
  BY <1>1, <1>2, <1>4

\* Facts with the same reasons show the same status.
LEMMA SameStatus ==
  ASSUME NEW f, NEW g,
         g.lifecycle = f.lifecycle, g.phase = f.phase, g.submitted = f.submitted,
         g.technical = f.technical, g.policy = f.policy, g.waiting = f.waiting,
         g.external = f.external, g.kind = f.kind, g.retry = f.retry, g.scheduled = f.scheduled,
         ExpiryPending(g) = ExpiryPending(f), HardReason(g) = HardReason(f),
         Gaps(g) = Gaps(f)
  PROVE  EvaluateStatus(g) = EvaluateStatus(f)
<1>1. ProofDecision(g) = ProofDecision(f)
  BY DEF ProofDecision
<1>2. AttemptStatus(g) = AttemptStatus(f)
  BY <1>1 DEF AttemptStatus
<1>3. Precedence(g) = Precedence(f)
  BY <1>1, <1>2 DEF Precedence
<1> QED
  BY <1>3 DEF EvaluateStatus

\* A terminal status is the lifecycle's.
LEMMA TerminalIsLifecycle ==
  ASSUME NEW f, f.phase \in FactPhases, Terminal(EvaluateStatus(f))
  PROVE  f.lifecycle \in {"closed", "cancelled"}
<1> SUFFICES ASSUME f.lifecycle \notin {"closed", "cancelled"} PROVE FALSE
  OBVIOUS
<1>1. ~Terminal(ProofDecision(f)) /\ ~Terminal(AttemptStatus(f))
  BY DEF ProofDecision, AttemptStatus, FactPhases, LivePhases, Terminal
<1>2. PICK k \in 1 .. 13 : /\ Precedence(f)[k].when
                           /\ EvaluateStatus(f) = Precedence(f)[k].status
  BY FirstMatch
<1>3. /\ ~Precedence(f)[1].when /\ ~Precedence(f)[2].when
      /\ ~Terminal(Precedence(f)[3].status) /\ ~Terminal(Precedence(f)[4].status)
      /\ ~Terminal(Precedence(f)[5].status) /\ ~Terminal(Precedence(f)[6].status)
      /\ ~Terminal(Precedence(f)[7].status) /\ ~Terminal(Precedence(f)[8].status)
      /\ ~Terminal(Precedence(f)[9].status) /\ ~Terminal(Precedence(f)[10].status)
      /\ ~Terminal(Precedence(f)[11].status) /\ ~Terminal(Precedence(f)[12].status)
      /\ ~Terminal(Precedence(f)[13].status)
  BY <1>1 DEF Precedence, Terminal
<1> QED
  BY <1>2, <1>3

\* Without an exception that expires on the clock, the status changes in one tick
\* only at the instant that was announced.
LEMMA TickIsAnnounced ==
  ASSUME NEW i \in Items, NEW t \in 0 .. MaxTime, NEW f, NEW g, t < MaxTime,
         f = FactsAt(i, t), g = FactsAt(i, t + 1),
         \A w \in Waivers : w = 0 \/ w > MaxTime,
         EvaluateStatus(g) # EvaluateStatus(f)
  PROVE  NextStatusChange(i, t) <= t + 1
<1> USE ClockAssumption
<1>1. t \in Nat /\ t + 1 \in Nat
  OBVIOUS
<1>2. f.phase \in FactPhases /\ g.phase \in FactPhases
  BY <1>1, ClockFacts
<1>3. /\ g.lifecycle = f.lifecycle /\ g.phase = f.phase /\ g.recovery = f.recovery
      /\ g.submitted = f.submitted /\ g.technical = f.technical /\ g.review = f.review
      /\ g.hold = f.hold /\ g.policy = f.policy /\ g.waiting = f.waiting
      /\ g.kind = f.kind /\ g.external = f.external
      /\ g.integrity = f.integrity /\ g.faults = f.faults
      /\ ExpiryPending(f) => ExpiryPending(g)
  BY <1>1, TickFacts
<1>4. f.lifecycle \notin {"closed", "cancelled"}
  BY <1>3, LifecycleFirst
<1>5. ~Terminal(EvaluateStatus(f))
  BY <1>2, <1>4, TerminalIsLifecycle
<1>6. ~ExpiryPending(f)
  BY <1>3, <1>4, ExpiryThenHard
<1>7. SUFFICES ASSUME t + 1 \notin {i.execution.lease, i.dispatch.retryAt, i.dispatch.startAt}
               PROVE  FALSE
  BY <1>5, <1>6, AnnouncedIsEarliest
<1>8. /\ i.execution.lease \in Nat /\ i.dispatch.retryAt \in Nat /\ i.dispatch.startAt \in Nat
  BY ItemFacts
<1>9. g.excepted = f.excepted
  <2>1. /\ f.excepted = {k \in GateKinds : i[k].waiver > t}
        /\ g.excepted = {k \in GateKinds : i[k].waiver > t + 1}
    BY <1>1, ClockFacts
  <2>2. \A k \in GateKinds : i[k].waiver \in Waivers
    BY ItemFacts DEF GateKinds
  <2>3. ASSUME NEW w \in Waivers PROVE w > t <=> w > t + 1
    BY <2>3
  <2>4. \A k \in GateKinds : i[k].waiver > t <=> i[k].waiver > t + 1
    BY <2>2, <2>3, Zenon
  <2> QED
    BY <2>1, <2>4, Zenon
<1>10. Gaps(g) = Gaps(f)
  BY <1>3, <1>9 DEF Gaps, Excepted, GateKinds
<1>11. g.elapsed = f.elapsed
  <2>1. f.elapsed = Elapsed(i.execution, t) /\ g.elapsed = Elapsed(i.execution, t + 1)
    BY <1>1, ClockFacts
  <2>2. Elapsed(i.execution, t) = Elapsed(i.execution, t + 1)
    BY <1>1, <1>7, <1>8 DEF Elapsed
  <2> QED
    BY <2>1, <2>2
<1>12. g.retry = f.retry /\ g.scheduled = f.scheduled
  <2>1. /\ f.retry = (i.dispatch.retryAt > t) /\ g.retry = (i.dispatch.retryAt > t + 1)
        /\ f.scheduled = (i.dispatch.startAt > t)
        /\ g.scheduled = (i.dispatch.startAt > t + 1)
    BY <1>1, ClockFacts
  <2>2. /\ (i.dispatch.retryAt > t) = (i.dispatch.retryAt > t + 1)
        /\ (i.dispatch.startAt > t) = (i.dispatch.startAt > t + 1)
    BY <1>1, <1>7, <1>8
  <2> QED
    BY <2>1, <2>2
<1>13. ExpiryPending(g) = ExpiryPending(f)
  BY <1>3, <1>11 DEF ExpiryPending
<1>14. HardReason(g) = HardReason(f)
  BY <1>3, <1>10 DEF HardReason, Rejected
<1> QED
  BY <1>3, <1>10, <1>12, <1>13, <1>14, SameStatus

\* A reader that comes back at next_status_change_at misses nothing, as long as
\* no gate exception expires on the clock: exception expiry is the one instant
\* the code does not announce (README, section 5).
THEOREM NothingChangesEarly ==
  ASSUME \A w \in Waivers : w = 0 \/ w > MaxTime
  PROVE  ClockSpec => NoEarlyChange
<1>1. ClockInv /\ [Tick]_clockVars =>
        [StatusAt(now') # StatusAt(now) => NextStatusChange(item, now) <= now']_clockVars
  <2> SUFFICES ASSUME ClockInv, Tick, StatusAt(now') # StatusAt(now)
               PROVE  NextStatusChange(item, now) <= now'
    OBVIOUS
  <2>1. /\ item \in Items /\ now \in 0 .. MaxTime /\ now < MaxTime /\ now' = now + 1
    BY DEF ClockInv, Tick
  <2>2. PICK f : f = FactsAt(item, now)
    OBVIOUS
  <2>3. PICK g : g = FactsAt(item, now + 1)
    OBVIOUS
  <2>4. EvaluateStatus(g) # EvaluateStatus(f)
    BY <2>1, <2>2, <2>3 DEF StatusAt
  <2> QED
    BY <2>1, <2>2, <2>3, <2>4, TickIsAnnounced
<1> QED
  BY <1>1, ClockIsInductive, PTL DEF ClockSpec, NoEarlyChange
=============================================================================
