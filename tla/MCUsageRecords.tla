---------------------------- MODULE MCUsageRecords ----------------------------
(* A small instance of UsageRecords for TLC: two requests of one tenant    *)
(* and one of another, of which two share a correlation id; and callers    *)
(* bound to a tenant or to none, who ask for narrow and wide windows.      *)
EXTENDS UsageRecords, TLC

CONSTANTS r1, r2, r3, t1, t2, m1, m2, i1, i2

MCRequests == {r1, r2, r3}
MCCorrelation == r1 :> i1 @@ r2 :> i1 @@ r3 :> i2

MCRow ==
    r1 :> [tenant |-> t1, run |-> 1, model |-> m1, task |-> "code", cost |-> 3, savings |-> 1,
           reported |-> TRUE, fallback |-> FALSE, latency |-> 5, at |-> 1] @@
    r2 :> [tenant |-> t2, run |-> 2, model |-> m2, task |-> "chat", cost |-> 1, savings |-> 4,
           reported |-> FALSE, fallback |-> TRUE, latency |-> Unmeasured, at |-> 4] @@
    r3 :> [tenant |-> t1, run |-> 1, model |-> m2, task |-> "code", cost |-> 2, savings |-> 0,
           reported |-> TRUE, fallback |-> FALSE, latency |-> 2, at |-> 3]

MCQuestions ==
    [binding : {NoBinding, SharedBinding, t1}, wanted : {Everyone, t2}, run : {AnyRun, 1},
     now : {5}, span : {Always, 2},
     limit : {0, 9}, offset : {0, 1}, width : {0, 9}]
=============================================================================
