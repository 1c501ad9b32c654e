---------------------------- MODULE ExternalJob ----------------------------
(***************************************************************************)
(* The durable job row that stands between an operation of the store and   *)
(* an effect outside it (a verifier process, a published commit): its      *)
(* stages, the compare-and-set that advances it, and the adapter calls     *)
(* built on that compare-and-set.  A row is a record: its stage, the       *)
(* identity of the side effect and the digest of the result read back.     *)
(*                                                                         *)
(* Each adapter call is a pair: a predicate that tells whether the call    *)
(* returns Ok, and the row it leaves.  A refused call leaves the row.      *)
(***************************************************************************)
None == "none"

\* What each stage may become; "none" is the row that does not exist.
Transitions ==
  [none                 |-> {"registered"},
   registered           |-> {"admitted", "rejected", "failed"},
   admitted             |-> {"running", "rejected", "failed"},
   running              |-> {"side_effect_started", "failed", "cancel_requested"},
   side_effect_started  |-> {"side_effect_finished", "readback_required", "failed"},
   side_effect_finished |-> {"committed", "readback_required", "failed"},
   readback_required    |-> {"reconciled"},
   cancel_requested     |-> {"reconciled", "failed"},
   reconciled           |-> {},
   committed            |-> {},
   rejected             |-> {},
   failed               |-> {}]

Stages == DOMAIN Transitions

NoJob == [stage |-> None, ref |-> None, digest |-> None]

Jobs(Refs, Digests) ==
  [stage : Stages, ref : Refs \cup {None}, digest : Digests \cup {None}]

\* An identity already recorded cannot be replaced, only repeated.
Keeps(old, new) == old = None \/ new = None \/ old = new

Coalesce(new, old) == IF new = None THEN old ELSE new

CanAdvance(job, next, ref, digest) ==
  /\ next \in Transitions[job.stage]
  /\ Keeps(job.ref, ref) /\ Keeps(job.digest, digest)
  /\ next = "readback_required" => Coalesce(ref, job.ref) # None
  /\ next \in {"committed", "reconciled"} => Coalesce(digest, job.digest) # None

Advanced(job, next, ref, digest) ==
  [stage |-> next, ref |-> Coalesce(ref, job.ref), digest |-> Coalesce(digest, job.digest)]

Advance(job, next, ref, digest) ==
  IF CanAdvance(job, next, ref, digest) THEN Advanced(job, next, ref, digest) ELSE job

\* Registration returns an existing row as it is, and a new one is admitted
\* in the same transaction.
RegisterAndAdmit(job) ==
  IF job.stage \in {None, "registered"}
    THEN Advanced(Advanced(job, "registered", None, None), "admitted", None, None)
    ELSE job

\* Only the caller whose compare-and-set moved admitted to running has won.
WinsAcquisition(job) == CanAdvance(job, "running", None, None)

MarkStarted(job, ref) ==
  IF job.stage = "running" THEN Advance(job, "side_effect_started", ref, None) ELSE job

MarkStartedOk(job, ref) == job.stage = "side_effect_started" => job.ref = ref

MarkReadbackOk(job, ref) ==
  \/ job.stage = "readback_required" /\ job.ref = ref
  \/ CanAdvance(job, "readback_required", ref, None)

MarkReadback(job, ref) == Advance(job, "readback_required", ref, None)

\* A result is attributed only to the effect the row names, and only once.
ReconcileOk(job, ref, digest) ==
  /\ job.ref = ref
  /\ \/ job.stage = "reconciled" /\ job.digest = digest
     \/ job.stage = "readback_required"

Reconcile(job, digest) == Advance(job, "reconciled", None, digest)

Resolved(job) == job.stage \in {"reconciled", "committed"}
=============================================================================
