-------------------------- MODULE MCAdaptiveWeights --------------------------
(* A small instance of AdaptiveWeights for TLC: one key is signalled, and  *)
(* an old file may know it, or another one that leaves no room for it.     *)
EXTENDS AdaptiveWeights, TLC

CONSTANTS key, gone, c1, c2

MCBase == key :> 8
Known(k) == k :> [avg |-> 8, n |-> 1]
MCOldFiles == {[format |-> 0, image |-> [global |-> Known(gone), customers |-> NoWeights]],
               [format |-> 1, image |-> [global |-> Known(key), customers |-> NoWeights]]}

MCSymmetry == Permutations(Threads) \cup Permutations(Customers)
=============================================================================
