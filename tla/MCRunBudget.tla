----------------------------- MODULE MCRunBudget -----------------------------
(* A small instance of RunBudget for TLC: room for two of three runs.      *)
EXTENDS RunBudget

(* Two units of cost or steps for a run nobody configured.                 *)
MCDefaultLimits == [cost |-> 2, steps |-> 2, tokens |-> -1, duration |-> -1]

(* One step and one token; no step limit but one unit of cost and a tick.  *)
MCStartLimits == {[cost |-> -1, steps |-> 1, tokens |-> 1, duration |-> -1],
                  [cost |-> 1, steps |-> -1, tokens |-> -1, duration |-> 1]}

MCStepSizes == {[cost |-> 1, tokens |-> 1], [cost |-> 2, tokens |-> 1]}

MCSymmetry == Permutations(Runs) \cup Permutations(Callers)
=============================================================================
