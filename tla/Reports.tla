------------------------------- MODULE Reports -------------------------------
(***************************************************************************)
(* What the usage store answers (SqliteUsageStore in                       *)
(* router/attribution.py) and the server passes on (/v1/usage, /v1/stats   *)
(* and /metrics in router/server.py): pages of rows, and what they add up  *)
(* to as a whole and by model, task, tenant and time.                      *)
(*                                                                         *)
(* A row is a record [tenant, run, model, task, cost, savings, reported,   *)
(* fallback, latency, at]: reported if the provider gave the usage the     *)
(* cost is computed from, at the time of the wall clock.  The table is the *)
(* sequence of its rows, and what a clause selects of it is a function     *)
(* from the places of the rows selected.  Shares and rates are left as the *)
(* two numbers they are the quotient of; orders for the eye are left out.  *)
(***************************************************************************)
EXTENDS Integers, FiniteSets, FiniteSetsExt, SequencesExt

CONSTANTS
    Everyone,    \* the scope of a caller who may read of every tenant
    AnyRun,      \* a listing of no run in particular
    NoBinding, SharedBinding,  \* no token is required; the one shared token
    Unmeasured,  \* the latency of a call that was not timed
    Always,      \* the window without a beginning
    PageMax,     \* ATTRIBUTION_USAGE_PAGE_MAX
    Narrowest, Widest  \* the widths buckets are clamped to

IsRow(row) ==
    /\ DOMAIN row = {"tenant", "run", "model", "task", "cost", "savings", "reported", "fallback",
                     "latency", "at"}
    /\ row.cost \in Nat
    /\ row.at \in Nat
    /\ row.latency \in Int \cup {Unmeasured}

(* A question is a record [binding, wanted, run, now, span, limit, offset, *)
(* width]: the binding of the caller's token, the tenant and the run that  *)
(* are asked for, the clock when the window of that span is opened, the    *)
(* page, and the width of buckets.                                         *)

IsQuestion(q) ==
    /\ DOMAIN q = {"binding", "wanted", "run", "now", "span", "limit", "offset", "width"}
    /\ {q.now, q.limit, q.offset, q.width} \subseteq Int
    /\ q.span \in Int \cup {Always}

(* The tenant a caller's token is bound to is all it may read of; the one  *)
(* shared token is the operator's.                                         *)
ReadTenantScope(q) == IF q.binding \in {NoBinding, SharedBinding} THEN Everyone ELSE q.binding
(* Only a listing takes a wish.                                            *)
UsageScope(q) == IF ReadTenantScope(q) # Everyone THEN ReadTenantScope(q) ELSE q.wanted
Since(q) == IF q.span = Always THEN 0 ELSE q.now - q.span

Selected(rows, Test(_)) == [i \in {j \in DOMAIN rows : Test(rows[j])} |-> rows[i]]
Size(rows) == Cardinality(DOMAIN rows)

Of(tenant, run, rows) ==
    Selected(rows, LAMBDA row : tenant \in {Everyone, row.tenant} /\ run \in {AnyRun, row.run})
Window(q, rows) ==
    Selected(Of(ReadTenantScope(q), AnyRun, rows), LAMBDA row : row.at >= Since(q))

SumOf(rows, field) == MapThenSumSet(LAMBDA i : rows[i][field], DOMAIN rows)
CostOf(rows) == SumOf(rows, "cost")
SavingsOf(rows) == SumOf(rows, "savings")
Values(rows, field) == {rows[i][field] : i \in DOMAIN rows}

Timed(rows) == Selected(rows, LAMBDA row : row.latency # Unmeasured)
(* AVG(latency_ms), which skips what was not measured.                     *)
Average(rows) == [sum |-> SumOf(Timed(rows), "latency"), of |-> Size(Timed(rows))]

(* query(): a page of the rows, the newest first, which are the last ones. *)
Newer(i, rows) == Cardinality({j \in DOMAIN rows : j > i})
Limit(q) == Max({1, Min({q.limit, PageMax})})
Page(q, rows) ==
    LET scope == Of(UsageScope(q), q.run, rows)
        offset == Max({0, q.offset})
    IN  [i \in {j \in DOMAIN scope : Newer(j, scope) \in offset .. offset + Limit(q) - 1} |->
            scope[i]]
(* count()                                                                 *)
Count(q, rows) == Size(Of(UsageScope(q), q.run, rows))

UpTo(t, times) == Selected(times, LAMBDA row : row.latency <= t)
(* _percentile(): the row at a fixed part of the way through the measured  *)
(* ones in order.                                                          *)
Percentile(rows, part, whole) ==
    LET times == Timed(rows)
        offset == Min({(Size(times) * part) \div whole, Size(times) - 1})
    IN  IF Size(times) = 0 THEN Unmeasured
        ELSE Min({t \in Values(times, "latency") : Size(UpTo(t, times)) > offset})

Summary(q, all) ==
    LET rows == Window(q, all) IN
    [requests |-> Size(rows), runs |-> Cardinality(Values(rows, "run")),
     models |-> Cardinality(Values(rows, "model")),
     cost |-> CostOf(rows), baseline |-> CostOf(rows) + SavingsOf(rows),
     actual |-> CostOf(Selected(rows, LAMBDA row : row.reported)),
     fallbacks |-> Size(Selected(rows, LAMBDA row : row.fallback)),
     latency |-> Average(rows),
     p50 |-> Percentile(rows, 50, 100), p95 |-> Percentile(rows, 95, 100)]

(* GROUP BY: a line for each value of the key.                             *)
Grouped(rows, Key(_), Line(_)) ==
    [k \in {Key(rows[i]) : i \in DOMAIN rows} |->
        Line(Selected(rows, LAMBDA row : Key(row) = k))]

ByModel(q, rows) ==
    Grouped(Window(q, rows), LAMBDA row : row.model,
        LAMBDA part : [requests |-> Size(part), cost |-> CostOf(part),
                       savings |-> SavingsOf(part), latency |-> Average(part)])
ByTaskType(q, rows) ==
    Grouped(Window(q, rows), LAMBDA row : row.task,
        LAMBDA part : [requests |-> Size(part), cost |-> CostOf(part), latency |-> Average(part)])
ByTenant(q, rows) ==
    Grouped(Window(q, rows), LAMBDA row : row.tenant,
        LAMBDA part : [requests |-> Size(part), cost |-> CostOf(part),
                       savings |-> SavingsOf(part), latency |-> Average(part),
                       runs |-> Cardinality(Values(part, "run")),
                       models |-> Cardinality(Values(part, "model"))])

Width(q) == Max({Narrowest, Min({q.width, Widest})})
(* Buckets begin at multiples of their width, whatever the window.         *)
Timeseries(q, rows) ==
    Grouped(Window(q, rows), LAMBDA row : (row.at \div Width(q)) * Width(q),
        LAMBDA part : [requests |-> Size(part), cost |-> CostOf(part),
                       savings |-> SavingsOf(part), latency |-> Average(part)])

(* The pages under /v1/stats.                                              *)
Stats(q, rows) ==
    [summary |-> Summary(q, rows), timeseries |-> Timeseries(q, rows), models |-> ByModel(q, rows),
     tasks |-> ByTaskType(q, rows), tenants |-> ByTenant(q, rows)]
-----------------------------------------------------------------------------
(* What answers over the same rows promise together.                       *)

(* Costs and counts of the lines of a report sum to the headline.          *)
SumsTo(report, summary) ==
    /\ MapThenSumSet(LAMBDA k : report[k].cost, DOMAIN report) = summary.cost
    /\ MapThenSumSet(LAMBDA k : report[k].requests, DOMAIN report) = summary.requests

(* Walking through the pages shows every row in scope once, and after all  *)
(* that are newer.                                                         *)
Walk(q, n, rows) == Page([q EXCEPT !.offset = (n - 1) * Limit(q)], rows)
PagesCover(q, rows) ==
    LET scope == Of(UsageScope(q), q.run, rows)
        Pages == 1 .. Size(rows) + 1
    IN  \A i \in DOMAIN scope : \E n \in Pages :
            /\ i \in DOMAIN Walk(q, n, rows) /\ Walk(q, n, rows)[i] = rows[i]
            /\ \A k \in Pages \ {n} : i \notin DOMAIN Walk(q, k, rows)
            /\ \A k \in Pages : \A j \in DOMAIN Walk(q, k, rows) : k < n => j > i

(* A percentile was measured, and as large a part of what was measured is  *)
(* no slower.                                                              *)
IsPercentile(t, rows, part, whole) ==
    LET times == Timed(rows) IN
    IF Size(times) = 0 THEN t = Unmeasured
    ELSE /\ t \in Values(times, "latency")
         /\ whole * Size(UpTo(t, times)) >= part * Size(times)

Coherent(q, rows) ==
    LET stats == Stats(q, rows)
        summary == stats.summary
        scope == ReadTenantScope(q)
    IN  /\ SumsTo(stats.models, summary) /\ SumsTo(stats.tasks, summary)
        /\ SumsTo(stats.tenants, summary) /\ SumsTo(stats.timeseries, summary)
        /\ summary.actual <= summary.cost
        /\ IsPercentile(summary.p50, Window(q, rows), 50, 100)
        /\ IsPercentile(summary.p95, Window(q, rows), 95, 100)
        /\ scope # Everyone =>
            DOMAIN stats.tenants \cup Values(Page(q, rows), "tenant") \subseteq {scope}
        /\ \A start \in DOMAIN stats.timeseries : start + Width(q) > Since(q)
        /\ PagesCover(q, rows)
        /\ Size(Page(q, rows)) <= Count(q, rows)
=============================================================================
