----------------------------- MODULE MCDispatch -----------------------------
(* A small instance of Dispatch for TLC.                                   *)
EXTENDS Dispatch

CONSTANTS m1, m2, m3

(* The chosen model is the dearest; the chains overlap, as the built ones do. *)
MCModels == {m1, m2, m3}
MCCost == (m1 :> 2) @@ (m2 :> 1) @@ (m3 :> 1)
MCDecisions ==
    {[chosen |-> m1, chain |-> <<m2, m3>>,
      typed |-> [rate_limit |-> <<m2>>, timeout |-> <<m3, m2>>, content_filter |-> <<>>]],
     [chosen |-> NoModel, chain |-> <<>>, typed |-> [chain \in Chains |-> <<>>]]}

Option(run, capped, cascade) == [run |-> run, capped |-> capped, cascade |-> cascade]

(* With a run or without, by the chains or as a cascade.                   *)
MCOptions == {Option(TRUE, TRUE, FALSE), Option(FALSE, FALSE, FALSE), Option(TRUE, FALSE, TRUE)}
MCRunOptions == {Option(TRUE, FALSE, FALSE)}
MCCascades == {Option(TRUE, FALSE, TRUE)}

MCSymmetry == Permutations(Requests)
=============================================================================
