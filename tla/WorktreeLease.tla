--------------------------- MODULE WorktreeLease ---------------------------
(***************************************************************************)
(* What the store promises about the execution worktree of a work item:    *)
(* one holder at a time, each with a larger fence than all before it, and  *)
(* a new holder only after the last one stopped and its release was        *)
(* acknowledged.  Nothing else of attempts, sessions, recovery or close is *)
(* visible here.                                                           *)
(***************************************************************************)
EXTENDS Integers

CONSTANT Works

VARIABLES
  granted,      \* fences ever granted for each work item
  held,         \* fences whose holder executes
  releasing     \* fences whose holder stopped, release not acknowledged

leaseVars == <<granted, held, releasing>>

LeaseInit ==
  /\ granted = [w \in Works |-> {}]
  /\ held = [w \in Works |-> {}]
  /\ releasing = [w \in Works |-> {}]

Acquire(w) ==
  /\ held[w] = {} /\ releasing[w] = {}
  /\ \E f \in {1} \cup {g + 1 : g \in granted[w]} :
       /\ \A g \in granted[w] : g < f
       /\ granted' = [granted EXCEPT ![w] = @ \cup {f}]
       /\ held' = [held EXCEPT ![w] = {f}]
  /\ UNCHANGED releasing

Stop(w) ==
  /\ \E f \in held[w] :
       /\ held' = [held EXCEPT ![w] = @ \ {f}]
       /\ releasing' = [releasing EXCEPT ![w] = @ \cup {f}]
  /\ UNCHANGED granted

Acknowledge(w) ==
  /\ \E f \in releasing[w] : releasing' = [releasing EXCEPT ![w] = @ \ {f}]
  /\ UNCHANGED <<granted, held>>

LeaseNext == \E w \in Works : Acquire(w) \/ Stop(w) \/ Acknowledge(w)

LeaseSpec == LeaseInit /\ [][LeaseNext]_leaseVars
=============================================================================
