--------------------------- MODULE MCBudgetTracker ---------------------------
(* A small instance of BudgetTracker for TLC.                              *)
EXTENDS BudgetTracker

(* One plan whose daily limit binds first, one whose monthly limit does.   *)
MCPlanLimits == ("free" :> [daily |-> 2, monthly |-> 3]) @@ ("pro" :> [daily |-> 3, monthly |-> 4])
MCPlans == DOMAIN MCPlanLimits

MCSymmetry == Permutations(Users) \cup Permutations(Callers)
=============================================================================
