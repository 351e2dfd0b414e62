--------------------------- MODULE MCRedisStores ----------------------------
(* An instance of RedisStores: two requests of a run for one step, and one *)
(* of another run, in a store with room for one.                           *)
EXTENDS RedisStores, TLC

CONSTANTS a, b, c, run1, run2

MCRunOf == a :> run1 @@ b :> run1 @@ c :> run2
MCSymmetry == Permutations({a, b})
MCEstimate == a :> 2 @@ b :> 2 @@ c :> 1
=============================================================================
