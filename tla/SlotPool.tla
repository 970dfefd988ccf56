------------------------------ MODULE SlotPool ------------------------------
(***************************************************************************)
(* What the slot manager promises to the rest of the worker: a task that   *)
(* holds a slot holds it until it gives it back, a slot is handed out only *)
(* below the concurrency limit in force at that moment, and never twice to *)
(* the same task.  The limit may be changed at any time, below the number  *)
(* of slots in use too: nobody loses a slot then, and nobody gets a new    *)
(* one until enough of them have come back.                                *)
(*                                                                         *)
(* L0Worker implements this specification (theorem Refinement of           *)
(* L0Worker_proofs, property SlotPoolSpec of the TLC runs).                *)
(***************************************************************************)
EXTENDS Naturals, FiniteSets

CONSTANT Task

VARIABLES held,  \* the keys of SlotManager.slots
          limit  \* SlotManager._maxConcurrency

vars == <<held, limit>>

Init == held = {} /\ limit \in Nat \ {0}

\* acquire(t) answering "acquired".
Acquire(t) ==
  /\ t \notin held
  /\ Cardinality(held) < limit
  /\ held' = held \cup {t}
  /\ UNCHANGED limit

\* release(t) of a slot that was held.
Release(t) ==
  /\ t \in held
  /\ held' = held \ {t}
  /\ UNCHANGED limit

\* The maxConcurrency setter; a value below 1 is refused.
Resize ==
  /\ limit' \in Nat \ {0}
  /\ UNCHANGED held

Next ==
  \/ \E t \in Task : Acquire(t) \/ Release(t)
  \/ Resize

Spec == Init /\ [][Next]_vars
=============================================================================
