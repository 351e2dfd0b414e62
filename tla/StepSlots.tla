------------------------------ MODULE StepSlots ------------------------------
(***************************************************************************)
(* What a run promises about its steps, as check_before_dispatch() states  *)
(* it: a request is let through only while the steps completed and the     *)
(* slots held leave room, and "MUST eventually pair this with exactly one  *)
(* of record_step() or release_reservation()".  A request gives back its   *)
(* own slot and no other.                                                  *)
(***************************************************************************)
EXTENDS Integers, FiniteSets

CONSTANTS
    Requests,
    MaxSteps

VARIABLES
    held,   \* the requests that hold a slot
    steps   \* completed steps

Init == held = {} /\ steps = 0

Take(r) == /\ r \notin held
           /\ steps + Cardinality(held) < MaxSteps
           /\ held' = held \cup {r}
           /\ UNCHANGED steps

Use(r) == /\ r \in held
          /\ held' = held \ {r}
          /\ steps' = steps + 1

GiveBack(r) == /\ r \in held
               /\ held' = held \ {r}
               /\ UNCHANGED steps

Next == \E r \in Requests : Take(r) \/ Use(r) \/ GiveBack(r)

Spec == Init /\ [][Next]_<<held, steps>>
=============================================================================
