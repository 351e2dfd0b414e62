----------------------------- MODULE MCServing ------------------------------
(* A small server: three requests of one tenant, one of another, a daily   *)
(* tracker with room for one of them, a native and a buffered provider.    *)
(* Tokens are bound to tenants, or none is required and a request is       *)
(* charged to the user it names.                                           *)
EXTENDS Serving

CONSTANTS r1, r2, r3, r4, t1, t2, a, nat, buf, none, nobody, norun, badrun, absent

Presents(bound, tenant, user, run) == [bound |-> bound, tenant |-> tenant, user |-> user, run |-> run]
(* The second tenant names the first one's run, and itself the first.      *)
WithTokens == [r \in Requests |-> IF r = r4 THEN Presents(t2, t1, t1, a) ELSE Presents(t1, nobody, t2, a)]
WithoutTokens ==
    r1 :> Presents(nobody, nobody, t1, a) @@ r2 :> Presents(nobody, nobody, t2, badrun)
    @@ r3 :> Presents(nobody, nobody, t2, badrun) @@ r4 :> Presents(nobody, t1, t1, norun)
MCCallers == {WithTokens, WithoutTokens}
MCCost == nat :> 1 @@ buf :> 2
(* One token in and one out cost half the smallest amount, or all of it.   *)
MCPrice == nat :> [in |-> 1, out |-> 0] @@ buf :> [in |-> 0, out |-> 2]
MCReports == {[in |-> 0, out |-> 0], [in |-> 1, out |-> 1], NoReport}
Way(m, rate, chain, early) ==
    [chosen |-> m, rateLimit |-> rate, timeout |-> <<>>, content |-> <<>>,
     chain |-> chain, early |-> early]
MCDecisions ==
    {Way(nat, <<buf>>, <<>>, FALSE), Way(buf, <<>>, <<nat>>, FALSE),
     Way(nat, <<>>, <<>>, TRUE), Way(none, <<>>, <<>>, TRUE)}
MCKinds ==
    r1 :> {"proxy", "twice"} @@ r2 :> {"answer", "stream"} @@ r3 :> {"answer", "stream"}
    @@ r4 :> {"stream"}
Alike == Permutations({r2, r3})
=============================================================================
