------------------------- MODULE StatusPolicyProofs -------------------------
(***************************************************************************)
(* What a permission of the action evaluator implies about the snapshot it *)
(* was evaluated on, for every combination of facts.                       *)
(***************************************************************************)
EXTENDS StatusPolicy, TLAPS

\* The rule that applies is the one the evaluator selects.
LEMMA Selected ==
  ASSUME NEW f, NEW k \in 1 .. 13, Precedence(f)[k].when,
         \A j \in 1 .. k - 1 : ~Precedence(f)[j].when
  PROVE  EvaluateStatus(f) = Precedence(f)[k].status
<1> DEFINE rules == Precedence(f)
           P(i) == rules[i].when /\ \A j \in 1 .. i - 1 : ~rules[j].when
           first == CHOOSE i \in DOMAIN rules : P(i)
<1>1. DOMAIN rules = 1 .. 13
  BY DEF Precedence
<1>2. first \in DOMAIN rules /\ P(first)
  <2>1. \E i \in DOMAIN rules : P(i)
    BY <1>1
  <2> QED
    BY <2>1
<1>3. first = k
  <2> HIDE DEF rules, first
  <2>1. first \in 1 .. 13 /\ P(first) /\ P(k)
    BY <1>1, <1>2 DEF rules
  <2> QED
    BY <2>1
<1>4. EvaluateStatus(f) = rules[first].status
  BY DEF EvaluateStatus
<1> QED
  BY <1>3, <1>4

\* Some rule of the table applies, none before it does, and it gives the status.
LEMMA FirstMatch ==
  ASSUME NEW f
  PROVE  \E k \in 1 .. 13 :
           /\ Precedence(f)[k].when
           /\ \A j \in 1 .. k - 1 : ~Precedence(f)[j].when
           /\ EvaluateStatus(f) = Precedence(f)[k].status
<1> DEFINE rules == Precedence(f)
           P(i) == rules[i].when /\ \A j \in 1 .. i - 1 : ~rules[j].when
<1>1. rules[13].when
  BY DEF Precedence
<1>2. \E k \in 1 .. 13 : P(k)
  <2> HIDE DEF rules
  <2>1. CASE \A j \in 1 .. 12 : ~rules[j].when
    BY <1>1, <2>1
  <2>2. CASE \E j \in 1 .. 12 : rules[j].when
    <3> DEFINE Q(n) == \A j \in 1 .. n : ~rules[j].when
    <3>1. \A n \in 0 .. 11 : Q(n) => Q(n + 1) \/ P(n + 1)
      OBVIOUS
    <3>2. Q(0)
      OBVIOUS
    <3>3. ~Q(12)
      BY <2>2
    <3> HIDE DEF Q, P
    <3> QED
      BY <3>1, <3>2, <3>3
  <2> QED
    BY <2>1, <2>2
<1> QED
  BY <1>2, Selected

\* A closed or cancelled item shows its lifecycle whatever else is recorded.
LEMMA LifecycleFirst ==
  ASSUME NEW f
  PROVE  /\ f.lifecycle = "closed" => EvaluateStatus(f) = "closed"
         /\ f.lifecycle = "cancelled" => EvaluateStatus(f) = "cancelled"
<1>1. ASSUME f.lifecycle = "closed" PROVE EvaluateStatus(f) = "closed"
  <2>1. Precedence(f)[1].when /\ Precedence(f)[1].status = "closed"
    BY <1>1 DEF Precedence
  <2> QED
    BY <2>1, Selected
<1>2. ASSUME f.lifecycle = "cancelled" PROVE EvaluateStatus(f) = "cancelled"
  <2>1. /\ Precedence(f)[2].when /\ Precedence(f)[2].status = "cancelled"
        /\ ~Precedence(f)[1].when
    BY <1>2 DEF Precedence
  <2> QED
    BY <2>1, Selected
<1> QED
  BY <1>1, <1>2

\* Otherwise expiry review, then a hard reason, then a draft.
LEMMA ExpiryThenHard ==
  ASSUME NEW f, f.lifecycle \notin {"closed", "cancelled"}
  PROVE  /\ ExpiryPending(f) => EvaluateStatus(f) = "expired_review"
         /\ ~ExpiryPending(f) /\ HardReason(f) => EvaluateStatus(f) = "blocked"
<1>1. ~Precedence(f)[1].when /\ ~Precedence(f)[2].when
  BY DEF Precedence
<1>2. ASSUME ExpiryPending(f) PROVE EvaluateStatus(f) = "expired_review"
  <2>1. Precedence(f)[3].when /\ Precedence(f)[3].status = "expired_review"
    BY <1>2 DEF Precedence
  <2> QED
    BY <1>1, <2>1, Selected
<1>3. ASSUME ~ExpiryPending(f), HardReason(f) PROVE EvaluateStatus(f) = "blocked"
  <2>1. /\ Precedence(f)[4].when /\ Precedence(f)[4].status = "blocked"
        /\ ~Precedence(f)[3].when
    BY <1>3 DEF Precedence
  <2> QED
    BY <1>1, <2>1, Selected
<1> QED
  BY <1>2, <1>3

\* The phases the facts of a snapshot carry: a live attempt's, or none.
FactPhases == LivePhases \cup {"none"}

\* A current attempt or a submission shows a status of its own, never ready.
LEMMA AttemptThenProof ==
  ASSUME NEW f, f.lifecycle = "open", f.phase \in FactPhases,
         ~ExpiryPending(f), ~HardReason(f)
  PROVE  /\ f.phase # "none" => EvaluateStatus(f) = AttemptStatus(f)
         /\ f.phase = "none" /\ f.submitted => EvaluateStatus(f) = ProofDecision(f)
<1>1. \A j \in 1 .. 5 : ~Precedence(f)[j].when
  <2>1. /\ ~Precedence(f)[1].when /\ ~Precedence(f)[2].when /\ ~Precedence(f)[3].when
        /\ ~Precedence(f)[4].when /\ ~Precedence(f)[5].when
    BY DEF Precedence
  <2> QED
    BY <2>1
<1>2. ASSUME f.phase # "none" PROVE EvaluateStatus(f) = AttemptStatus(f)
  <2>1. Precedence(f)[6].when /\ Precedence(f)[6].status = AttemptStatus(f)
    BY <1>2 DEF Precedence
  <2> QED
    BY <1>1, <2>1, Selected
<1>3. ASSUME f.phase = "none", f.submitted PROVE EvaluateStatus(f) = ProofDecision(f)
  <2>1. /\ Precedence(f)[7].when /\ Precedence(f)[7].status = ProofDecision(f)
        /\ ~Precedence(f)[6].when
    BY <1>3 DEF Precedence
  <2> QED
    BY <1>1, <2>1, Selected
<1> QED
  BY <1>2, <1>3

\* A draft with no obstacle shows as a draft.
LEMMA DraftStatus ==
  ASSUME NEW f, f.lifecycle = "draft", ~ExpiryPending(f), ~HardReason(f)
  PROVE  EvaluateStatus(f) = "draft"
<1>1. /\ ~Precedence(f)[1].when /\ ~Precedence(f)[2].when /\ ~Precedence(f)[3].when
      /\ ~Precedence(f)[4].when
      /\ Precedence(f)[5].when /\ Precedence(f)[5].status = "draft"
  BY DEF Precedence
<1> QED
  BY <1>1, Selected

\* An item shown as ready is open, nobody executes it, nothing is submitted and
\* no recovery is outstanding.
THEOREM ReadyIsIdle ==
  ASSUME NEW f, f.lifecycle \in Lifecycles, f.phase \in FactPhases,
         EvaluateStatus(f) = "ready"
  PROVE  /\ f.lifecycle = "open" /\ f.phase = "none" /\ ~f.submitted
         /\ ~ExpiryPending(f) /\ ~HardReason(f)
<1>1. f.lifecycle \notin {"closed", "cancelled"}
  BY LifecycleFirst
<1>2. ~ExpiryPending(f) /\ ~HardReason(f)
  BY <1>1, ExpiryThenHard
<1>3. f.lifecycle = "open"
  BY <1>1, <1>2, DraftStatus DEF Lifecycles
<1>4. ProofDecision(f) # "ready"
  BY DEF ProofDecision
<1>5. f.phase = "none"
  <2>1. SUFFICES ASSUME f.phase # "none" PROVE AttemptStatus(f) # "ready"
    BY <1>2, <1>3, AttemptThenProof
  <2> QED
    BY <1>4, <2>1 DEF AttemptStatus, FactPhases, LivePhases
<1>6. ~f.submitted
  BY <1>2, <1>3, <1>4, <1>5, AttemptThenProof
<1> QED
  BY <1>2, <1>3, <1>5, <1>6

\* Every rule before the last has failed for an item shown as ready.
LEMMA ReadyIsLast ==
  ASSUME NEW f, f.phase \in FactPhases, EvaluateStatus(f) = "ready"
  PROVE  \A j \in 1 .. 12 : ~Precedence(f)[j].when
<1>1. ProofDecision(f) # "ready" /\ AttemptStatus(f) # "ready"
  BY DEF ProofDecision, AttemptStatus, FactPhases, LivePhases
<1>2. PICK k \in 1 .. 13 : /\ Precedence(f)[k].when
                           /\ \A j \in 1 .. k - 1 : ~Precedence(f)[j].when
                           /\ "ready" = Precedence(f)[k].status
  BY FirstMatch
<1>3. /\ Precedence(f)[1].status # "ready" /\ Precedence(f)[2].status # "ready"
      /\ Precedence(f)[3].status # "ready" /\ Precedence(f)[4].status # "ready"
      /\ Precedence(f)[5].status # "ready" /\ Precedence(f)[6].status # "ready"
      /\ Precedence(f)[7].status # "ready" /\ Precedence(f)[8].status # "ready"
      /\ Precedence(f)[9].status # "ready" /\ Precedence(f)[10].status # "ready"
      /\ Precedence(f)[11].status # "ready" /\ Precedence(f)[12].status # "ready"
  BY <1>1 DEF Precedence
<1>4. k = 13
  BY <1>2, <1>3
<1> QED
  BY <1>2, <1>4

\* So nothing pauses, delays or blocks it.
LEMMA ReadyIsUnobstructed ==
  ASSUME NEW f, f.phase \in FactPhases, EvaluateStatus(f) = "ready"
  PROVE  /\ f.policy # "paused" /\ ~f.retry /\ ~f.scheduled /\ ~f.waiting /\ ~f.external
         /\ f.kind = "task" /\ f.technical # "failed" /\ ~f.hold
         /\ f.integrity # "quarantined" /\ f.faults = {}
<1>1. /\ ~Precedence(f)[4].when /\ ~Precedence(f)[7].when /\ ~Precedence(f)[8].when
      /\ ~Precedence(f)[9].when /\ ~Precedence(f)[10].when /\ ~Precedence(f)[11].when
      /\ ~Precedence(f)[12].when
  BY ReadyIsLast
<1> QED
  BY <1>1 DEF Precedence, HardReason

\* Whoever may claim, the item is ready.
LEMMA ClaimMeansReady ==
  ASSUME NEW f, NEW role, NEW session, NEW owner,
         Authorized(f, "claim", role, session, owner)
  PROVE  EvaluateStatus(f) = "ready"
BY DEF Authorized, StatusPermits

\* Whoever may close, no recovery is outstanding and the item is not terminal.
THEOREM CloseIsSettled ==
  ASSUME NEW f, NEW role, NEW session, NEW owner,
         Authorized(f, "close", role, session, owner)
  PROVE  /\ f.lifecycle \notin {"closed", "cancelled"}
         /\ f.recovery \notin {"expired", "other"}
<1>1. EvaluateStatus(f) = "complete"
  BY DEF Authorized, StatusPermits
<1>2. f.lifecycle \notin {"closed", "cancelled"}
  BY <1>1, LifecycleFirst
<1>3. ~ExpiryPending(f) /\ ~HardReason(f)
  BY <1>1, <1>2, ExpiryThenHard
<1> QED
  BY <1>2, <1>3 DEF ExpiryPending, HardReason

\* A review, a new seal, a publication or a cancellation is never permitted once
\* the item is closed.
LEMMA ClosedIsLeftAlone ==
  ASSUME NEW f, NEW role, NEW session, NEW owner,
         \/ Authorized(f, "review", role, session, owner)
         \/ Authorized(f, "finish_close", role, session, owner)
         \/ Authorized(f, "publish", role, session, owner)
         \/ Authorized(f, "cancel", role, session, owner)
  PROVE  f.lifecycle # "closed"
<1>1. EvaluateStatus(f) # "closed"
  BY DEF Authorized, StatusPermits, FinishPermitted, Terminal
<1> QED
  BY <1>1, LifecycleFirst
=============================================================================
