------------------------------ MODULE Serving -------------------------------
(***************************************************************************)
(* How a call is served around its dispatch: the HTTP endpoint             *)
(* (chat_completions in router/server.py) with its tenants' daily caps,    *)
(* the generator of a streamed answer (_stream_completion), and the        *)
(* engine's own proxy mode (_proxy_execute in router/routing_engine.py).   *)
(* Each settles with the run's slots, the plan's budget, the tenant's      *)
(* daily ledger (DailyBudgetTracker) and the breaker by itself, and finds  *)
(* out by itself which run, which plan and which tenant a request is for.  *)
(*                                                                         *)
(* A step is what happens between two awaits or yields.  A streamed answer *)
(* is a generator: it begins when the server first asks it for a chunk,    *)
(* and may be closed whenever it waits.  An answer in one piece goes       *)
(* through Flux._dispatch_with_fallback, which is the subject of Dispatch: *)
(* here it is one step that succeeds or fails.                             *)
(***************************************************************************)
EXTENDS Integers, SequencesExt, FiniteSetsExt, Lists

CONSTANTS
    Requests,
    Callers,       \* what the requests of a deployment may present: functions [Requests ->
                   \* [bound, tenant, user, run]], the tenant their token is bound to, the
                   \* tenant and user they name themselves, and the run they name
    NoTenant,      \* no token is required; no tenant is named
    NoRun, BadRun, \* no run is named, or one that is not a run's name
    RunRequired,   \* RUN_ID_REQUIRED
    Models,
    NoModel,
    Native,        \* the models whose provider streams natively
    Cost,          \* [Models -> the estimate]
    Price,         \* [Models -> [in, out]]
    Grain,         \* the smallest amount that is charged, in the unit of prices: six decimals
    Reports,       \* the usage a provider may report: [in, out]
    Absent,        \* a count that is missing, or not a number
    Decisions,     \* what routing may decide: [chosen, rateLimit, timeout, content,
                   \* chain, early], early if it returns before the proxy
    Kinds,         \* [Requests -> its kinds]: "answer" and "stream" of the server, "proxy" of
                   \* Flux.route(mode="proxy"), "twice" of Flux.complete(mode="proxy")
    MaxSteps,      \* of a run
    PlanLimit,
    TenantCap,     \* TENANT_DAILY_CAP_USD
    MaxCustomers,  \* BUDGET_TRACKER_MAX_USERS
    MaxLapses      \* bound: reservations swept under their call at a time

NoReport == [in |-> Absent, out |-> Absent]

ASSUME ServingAssumption ==
    /\ IsFiniteSet(Requests)
    /\ Native \subseteq Models
    /\ Cost \in [Models -> Nat]
    /\ \A c \in Callers : \A r, q \in Requests :
          c[r].bound = NoTenant => c[q].bound = NoTenant
    /\ \A d \in Decisions : d.chosen = NoModel => d.early
    /\ {MaxSteps, MaxCustomers} \subseteq Nat \ {0}

(* A price may be zero, a local model's is; a report may be anything.      *)
ASSUME AccountsAssumption ==
    /\ Price \in [Models -> [in : Nat, out : Nat]]
    /\ Grain \in Nat \ {0}
    /\ Reports \subseteq [in : Int \cup {Absent}, out : Int \cup {Absent}]
    /\ \A d \in Decisions :
          /\ d.chosen \in Models \cup {NoModel}
          /\ {d.rateLimit, d.timeout, d.content, d.chain} \subseteq Seq(Models)

VARIABLES
    caller,   \* what the requests of this deployment present
    req,      \* each request: where it is and what it knows
    pending,  \* [runs -> slots checked out]
    steps,    \* [runs -> steps completed]
    spent,    \* [users -> the plan's ledger]
    daily,    \* the daily ledgers in the order of their use: [who, total]
    \* History:
    held,     \* the requests whose slot was not given back
    unearned, \* [runs -> slots given back by requests that held none]
    trifles,  \* [users -> bills whose usage came to less than half the smallest amount]
    library,  \* [users -> what calls outside the server were charged]
    evicted   \* the tenants whose daily ledger was dropped once

ledgers == <<spent, trifles, daily, library, evicted>>
vars == <<caller, req, pending, steps, held, unearned, ledgers>>

At(r, phase) == req[r].phase = phase
Goes(r, record) == req' = [req EXCEPT ![r] = record] /\ UNCHANGED caller
Ends(r, how) == [req[r] EXCEPT !.phase = "ended", !.how = how, !.reserved = 0, !.swept = FALSE,
                               !.decision = NoModel, !.queue = <<>>, !.seen = {},
                               !.report = NoReport]
Model(r) == Head(req[r].queue)
-----------------------------------------------------------------------------
(* Whose request it is.                                                    *)

(* The tenant of the daily cap: a matter of the token alone.               *)
BoundTenant(r) == caller[r].bound
Bound(r) == BoundTenant(r) # NoTenant
(* The tenant a run and a usage record belong to.                          *)
TenantOf(r) == IF Bound(r) THEN BoundTenant(r) ELSE caller[r].tenant
(* A run is its tenant's: a name means nothing to another.  A request that *)
(* names none has one to itself.                                           *)
RunOf(r) == <<TenantOf(r), IF caller[r].run = NoRun THEN r ELSE caller[r].run>>
(* The user whose plan is charged.                                         *)
UserOfClaims(r) == caller[r].user
UserOf(r) == IF Bound(r) THEN BoundTenant(r) ELSE caller[r].user
Users == {UserOf(r) : r \in Requests}
Runs == {RunOf(r) : r \in Requests}
Named(r) == caller[r].run # BadRun /\ (RunRequired => caller[r].run # NoRun)
-----------------------------------------------------------------------------
(* What a call costs.                                                      *)

(* A count that is zero is not believed.                                   *)
TrustsAll(count) == count # Absent
Trusted(count) == count # Absent /\ count > 0
Reported(report) == Trusted(report.in) /\ Trusted(report.out)
(* What was used, in units of price; it is charged in the smallest amounts *)
(* that are, a half to the even one.                                       *)
Used(m, report) == report.in * Price[m].in + report.out * Price[m].out
Rounded(x) ==
    LET whole == x \div Grain
        rest == x % Grain
    IN IF 2 * rest > Grain \/ (2 * rest = Grain /\ whole % 2 = 1) THEN whole + 1 ELSE whole
ActualCost(m, report) == Rounded(Used(m, report))
Bill(m, report) ==
    IF Reported(report) THEN ActualCost(m, report) ELSE Cost[m]
(* Counts that come to half the smallest amount or less.                   *)
Negligible(m, report) ==
    {report.in, report.out} \subseteq Nat \ {0} /\ 2 * Used(m, report) <= Grain
-----------------------------------------------------------------------------
(* The trackers.                                                           *)

(* release_reservation() and record_step() of the run: the count of slots  *)
(* never goes below zero.                                                  *)
TakesSlot(r) ==
    /\ pending' = [pending EXCEPT ![RunOf(r)] = @ + 1]
    /\ held' = held \cup {r}
    /\ UNCHANGED <<steps, unearned>>
KeepsSlot == UNCHANGED <<pending, steps, held, unearned>>
SlotComesBack(r) ==
    /\ pending' = [pending EXCEPT ![RunOf(r)] = IF @ > 0 THEN @ - 1 ELSE 0]
    /\ held' = held \ {r}
    /\ unearned' = IF r \in held THEN unearned ELSE [unearned EXCEPT ![RunOf(r)] = @ + 1]
ReleasesSlot(r) == SlotComesBack(r) /\ UNCHANGED steps
RecordsStep(r) == SlotComesBack(r) /\ steps' = [steps EXCEPT ![RunOf(r)] = @ + 1]

(* The plan: what is reserved counts for all requests of the user.         *)
Reserved(u) == MapThenSumSet(LAMBDA r : IF UserOf(r) = u THEN req[r].reserved ELSE 0, Requests)
Fits(u, amount) == spent[u] + Reserved(u) + amount <= PlanLimit

(* DailyBudgetTracker: reading uses a ledger, writing makes one.           *)
Ledgers(t) == {e \in ToSet(daily) : e.who = t}
LedgerOf(t) == Only(daily, Ledgers(t))
Total(t) == IF LedgerOf(t) = <<>> THEN 0 ELSE LedgerOf(t)[1].total
OthersOf(t) == Without(daily, Ledgers(t))
Victim(t) == IF LedgerOf(t) = <<>> /\ Len(daily) >= MaxCustomers THEN {Head(daily).who} ELSE {}
ReadsDaily(t) == OthersOf(t) \o LedgerOf(t)
AddsDaily(t, amount) ==
    Append(Without(OthersOf(t), UNION {Ledgers(v) : v \in Victim(t)}),
           [who |-> t, total |-> Total(t) + amount])

ChargesPlan(r, amount, trifle) ==
    /\ spent' = [spent EXCEPT ![UserOf(r)] = @ + amount]
    /\ trifles' = IF trifle THEN [trifles EXCEPT ![UserOf(r)] = @ + 1] ELSE trifles
ChargesTenant(r, amount) ==
    LET t == BoundTenant(r) IN
    /\ IF Bound(r) THEN daily' = AddsDaily(t, amount) /\ evicted' = evicted \cup Victim(t)
       ELSE UNCHANGED <<daily, evicted>>
    /\ UNCHANGED library
ChargesNoTenant(r, amount) ==
    /\ library' = [library EXCEPT ![UserOf(r)] = @ + amount]
    /\ UNCHANGED <<daily, evicted>>
-----------------------------------------------------------------------------
Init ==
    /\ caller \in Callers
    /\ req = [r \in Requests |-> [phase |-> "new", kind |-> "none", decision |-> NoModel,
                                  queue |-> <<>>, seen |-> {}, reserved |-> 0, swept |-> FALSE,
                                  report |-> NoReport, how |-> "none", told |-> 0, billed |-> 0]]
    /\ pending = [run \in Runs |-> 0]
    /\ steps = [run \in Runs |-> 0]
    /\ spent = [u \in Users |-> 0]
    /\ daily = <<>>
    /\ held = {}
    /\ unearned = [run \in Runs |-> 0]
    /\ trifles = [u \in Users |-> 0]
    /\ library = [u \in Users |-> 0]
    /\ evicted = {}

(* check_before_dispatch(): slots that are checked out count.              *)
HasRoomForgetsSlots(run) == steps[run] < MaxSteps
HasRoom(run) == steps[run] + pending[run] < MaxSteps

Served(kind) == kind \in {"answer", "stream"}

CapReached(r) == Bound(r) /\ Total(BoundTenant(r)) >= TenantCap
Looks(r, kind) ==
    daily' = IF Served(kind) /\ Bound(r) THEN ReadsDaily(BoundTenant(r)) ELSE daily

(* The server refuses a request whose run has no proper name, before it    *)
(* looks at the tenant's cap, and one it cannot make sense of after that.  *)
Misnamed(r, kind) ==
    /\ At(r, "new") /\ Served(kind) /\ ~Named(r)
    /\ Goes(r, [Ends(r, "invalid") EXCEPT !.kind = kind])
    /\ KeepsSlot
    /\ UNCHANGED ledgers

TurnedAway(r, kind) ==
    /\ At(r, "new") /\ Served(kind) /\ Named(r) /\ CapReached(r)
    /\ Goes(r, [Ends(r, "capped") EXCEPT !.kind = kind])
    /\ Looks(r, kind)
    /\ KeepsSlot
    /\ UNCHANGED <<spent, trifles, library, evicted>>

(* A request that is let in: routing asks the run for a slot.              *)
LetIn(r, kind) ==
    /\ At(r, "new")
    /\ Served(kind) => Named(r) /\ ~CapReached(r)
    /\ Looks(r, kind)
    /\ UNCHANGED <<spent, trifles, library, evicted>>

Invalid(r, kind) ==
    /\ LetIn(r, kind) /\ Served(kind)
    /\ Goes(r, [Ends(r, "invalid") EXCEPT !.kind = kind])
    /\ KeepsSlot

Refused(r, kind) ==
    /\ LetIn(r, kind)
    /\ ~HasRoom(RunOf(r))
    /\ Goes(r, [Ends(r, "refused") EXCEPT !.kind = kind])
    /\ KeepsSlot

(* The phase a decision leads to.  In proxy mode the ways of routing that  *)
(* return early (no model, a daily cap) do not come to the proxy.          *)
Led(kind, d) ==
    CASE kind = "stream" -> "ready"
      [] kind = "answer" -> "dispatching"
      [] kind = "twice" /\ d.early -> "dispatching"
      [] OTHER -> "choosing"

Routed(r, kind, d) ==
    LET next == [req[r] EXCEPT !.kind = kind, !.decision = d, !.phase = Led(kind, d),
                               !.queue = <<d.chosen>>, !.seen = {d.chosen}]
    IN
    /\ LetIn(r, kind)
    /\ HasRoom(RunOf(r))
    /\ IF d.chosen = NoModel /\ kind # "proxy"
       THEN Goes(r, [Ends(r, "no model") EXCEPT !.kind = kind]) /\ KeepsSlot
       ELSE IF kind = "proxy" /\ d.early
       THEN Goes(r, [Ends(r, "early") EXCEPT !.kind = kind]) /\ TakesSlot(r)
       ELSE Goes(r, next) /\ TakesSlot(r)

(* Routing raises once the run has given it a slot: the exploration rate   *)
(* the caller asks for is not one, and only then looked at.  The server    *)
(* never asks for one.                                                     *)
RoutingRaises(r, kind) ==
    /\ LetIn(r, kind) /\ ~Served(kind)
    /\ HasRoom(RunOf(r))
    /\ Goes(r, [Ends(r, "misrouted") EXCEPT !.kind = kind])
    /\ TakesSlot(r)
-----------------------------------------------------------------------------
(* The generator of a streamed answer.                                     *)

(* The client is gone before the server asks for the first chunk: no line  *)
(* of the generator runs, its finally neither.                             *)
NeverStarts(r) ==
    /\ At(r, "ready")
    /\ Goes(r, Ends(r, "never started"))
    /\ KeepsSlot
    /\ UNCHANGED ledgers

StartKeepsSlot(r) ==
    /\ At(r, "ready")
    /\ IF Fits(UserOf(r), Cost[Model(r)])
       THEN Goes(r, [req[r] EXCEPT !.phase = IF Model(r) \in Native THEN "opening" ELSE "asking",
                                   !.reserved = Cost[Model(r)]])
       ELSE Goes(r, Ends(r, "over budget"))
    /\ KeepsSlot
    /\ UNCHANGED ledgers
Start(r) ==
    /\ At(r, "ready")
    /\ IF Fits(UserOf(r), Cost[Model(r)])
       THEN /\ Goes(r, [req[r] EXCEPT !.phase = IF Model(r) \in Native THEN "opening" ELSE "asking",
                                      !.reserved = Cost[Model(r)]])
            /\ KeepsSlot
       ELSE Goes(r, Ends(r, "over budget")) /\ ReleasesSlot(r)
    /\ UNCHANGED ledgers

(* The client took the opening chunk: the provider is asked.               *)
Opened(r) ==
    /\ At(r, "opening")
    /\ Goes(r, [req[r] EXCEPT !.phase = "asking"])
    /\ KeepsSlot
    /\ UNCHANGED ledgers

(* The usage among the chunks of a native stream is kept for the bill.     *)
Captures(r, report) ==
    /\ At(r, "asking") /\ Model(r) \in Native
    /\ Goes(r, [req[r] EXCEPT !.report = report])
    /\ KeepsSlot
    /\ UNCHANGED ledgers

(* _record_usage(): the plan, the run, the tenant.  If the reservation was *)
(* swept meanwhile the first of them raises, and so does the one in the    *)
(* finally: nothing is recorded.                                           *)
RecordUsage(r, amount, trifle, ended) ==
    IF req[r].swept
    THEN Goes(r, Ends(r, "swept")) /\ KeepsSlot /\ UNCHANGED ledgers
    ELSE /\ Goes(r, [ended EXCEPT !.billed = @ + 1])
         /\ RecordsStep(r)
         /\ ChargesPlan(r, amount, trifle)
         /\ ChargesTenant(r, amount)

StreamEnds(r, report) ==
    /\ At(r, "asking")
    /\ Model(r) \in Native => report = req[r].report
    /\ RecordUsage(r, Bill(Model(r), report), Negligible(Model(r), report),
                   [Ends(r, "answered") EXCEPT !.told = @ + 1])

(* The provider failed, or the lookup of its key, which comes first: the   *)
(* breaker hears of both.                                                  *)
StreamFails(r) ==
    /\ At(r, "opening") \/ At(r, "asking")
    /\ Goes(r, [Ends(r, "failed") EXCEPT !.told = @ + 1])
    /\ ReleasesSlot(r)
    /\ UNCHANGED ledgers

(* The client went away, the task was cancelled, or something else was     *)
(* raised: the finally charges the estimate, whatever was reported.        *)
Leaves(r) ==
    /\ At(r, "opening") \/ At(r, "asking")
    /\ RecordUsage(r, Cost[Model(r)], FALSE, Ends(r, "left"))
-----------------------------------------------------------------------------
(* The proxy mode of the engine.  The budget is asked for every model; an  *)
(* error of the provider brings more models.                               *)

(* What follows an end of the proxy: complete() dispatches all the same.   *)
ProxyDone(r, how) ==
    IF req[r].kind = "twice" THEN [req[r] EXCEPT !.phase = "dispatching", !.reserved = 0, !.how = how]
    ELSE Ends(r, how)

ProxyCalls(r) ==
    /\ At(r, "choosing") /\ req[r].queue # <<>>
    /\ Goes(r, IF Fits(UserOf(r), Cost[Model(r)])
               THEN [req[r] EXCEPT !.phase = "calling", !.reserved = Cost[Model(r)],
                                   !.swept = FALSE]
               ELSE [req[r] EXCEPT !.queue = Tail(@)])
    /\ KeepsSlot
    /\ UNCHANGED ledgers

ProxyGivesUp(r) ==
    /\ At(r, "choosing") /\ req[r].queue = <<>>
    /\ Goes(r, ProxyDone(r, "failed"))
    /\ ReleasesSlot(r)
    /\ UNCHANGED ledgers

(* A reservation that is gone raises after the breaker has heard: the loop *)
(* ends as if the call had failed.                                         *)
ProxyAnswers(r, report) ==
    LET paid == Bill(Model(r), report) IN
    /\ At(r, "calling")
    /\ IF req[r].swept
       THEN /\ Goes(r, [ProxyDone(r, "failed") EXCEPT !.told = @ + 1])
            /\ ReleasesSlot(r)
            /\ UNCHANGED ledgers
       ELSE /\ Goes(r, [ProxyDone(r, "answered") EXCEPT !.told = @ + 1, !.billed = @ + 1])
            /\ RecordsStep(r)
            /\ ChargesPlan(r, paid, Negligible(Model(r), report))
            /\ ChargesNoTenant(r, paid)

ProxyFails(r, error) ==
    LET d == req[r].decision
        typed == Without(d[error], req[r].seen)
        more == typed \o Without(d.chain, req[r].seen \cup ToSet(typed))
    IN
    /\ At(r, "calling")
    /\ Goes(r, [req[r] EXCEPT !.phase = "choosing", !.reserved = 0, !.told = @ + 1,
                              !.queue = Tail(@) \o more, !.seen = @ \cup ToSet(more)])
    /\ KeepsSlot
    /\ UNCHANGED ledgers

(* A cancellation passes the line that gives the slot back; any other      *)
(* exception ends the loop.                                                *)
ProxyCancelled(r) ==
    /\ At(r, "calling")
    /\ Goes(r, Ends(r, "cancelled"))
    /\ KeepsSlot
    /\ UNCHANGED ledgers
ProxyBreaks(r) ==
    /\ At(r, "calling")
    /\ Goes(r, ProxyDone(r, "failed"))
    /\ ReleasesSlot(r)
    /\ UNCHANGED ledgers
-----------------------------------------------------------------------------
(* Flux._dispatch_with_fallback, as a whole: the server charges the tenant *)
(* once it has returned.                                                   *)
Answering(d) ==
    {d.chosen} \cup UNION {ToSet(models) : models \in {d.rateLimit, d.timeout, d.content, d.chain}}

Dispatched(r, m, report) ==
    LET paid == Bill(m, report) IN
    /\ At(r, "dispatching") /\ m \in Answering(req[r].decision)
    /\ Goes(r, [Ends(r, "answered") EXCEPT !.billed = @ + 1, !.told = @ + 1])
    /\ RecordsStep(r)
    /\ ChargesPlan(r, paid, Negligible(m, report))
    /\ IF Served(req[r].kind) THEN ChargesTenant(r, paid)
       ELSE ChargesNoTenant(r, paid)

NotDispatched(r) ==
    /\ At(r, "dispatching")
    /\ Goes(r, Ends(r, "failed"))
    /\ ReleasesSlot(r)
    /\ UNCHANGED ledgers

(* Another request's reserve_spend() finds the reservation too old.        *)
Lapses(r) ==
    /\ req[r].reserved > 0
    /\ Cardinality({q \in Requests : req[q].swept}) < MaxLapses
    /\ Goes(r, [req[r] EXCEPT !.reserved = 0, !.swept = TRUE])
    /\ KeepsSlot
    /\ UNCHANGED ledgers

Admit(r) ==
    \E kind \in Kinds[r] :
        \/ Misnamed(r, kind) \/ TurnedAway(r, kind) \/ Invalid(r, kind) \/ Refused(r, kind)
        \/ RoutingRaises(r, kind)
        \/ \E d \in Decisions : Routed(r, kind, d)
Stream(r) ==
    \/ NeverStarts(r) \/ Start(r) \/ Opened(r) \/ StreamFails(r) \/ Leaves(r)
    \/ \E report \in Reports : StreamEnds(r, report) \/ Captures(r, report)
Proxy(r) ==
    \/ ProxyCalls(r) \/ ProxyGivesUp(r) \/ ProxyCancelled(r) \/ ProxyBreaks(r)
    \/ \E report \in Reports : ProxyAnswers(r, report)
    \/ \E error \in {"rateLimit", "timeout", "content"} : ProxyFails(r, error)
Dispatching(r) ==
    \/ NotDispatched(r)
    \/ \E m \in Models, report \in Reports : Dispatched(r, m, report)

Next == \E r \in Requests : Admit(r) \/ Stream(r) \/ Proxy(r) \/ Dispatching(r) \/ Lapses(r)

Spec == Init /\ [][Next]_vars
-----------------------------------------------------------------------------
(* Types, and what a request that has ended no longer holds.               *)
TypeOK ==
    /\ DOMAIN req = Requests
    /\ \A r \in Requests :
        /\ req[r].phase \in {"new", "ready", "opening", "asking", "choosing",
                            "calling", "dispatching", "ended"}
        /\ req[r].reserved \in Nat
        /\ At(r, "ended") => req[r].reserved = 0
    /\ {pending[run] : run \in Runs} \cup {steps[run] : run \in Runs} \subseteq Nat
    /\ Len(daily) <= MaxCustomers
    /\ held \subseteq Requests

(* However a call ends, the slot of the run that routing took for it is    *)
(* given back, once: by the step it records or by a release.  (Five ways   *)
(* out are known to keep it: routing that raises after it took the slot,   *)
(* proxy routing that returns before the proxy, a cancelled proxy call, a  *)
(* stream nobody asked a chunk of, and one whose reservation was swept.)   *)
SlotsReturned ==
    \A r \in held : At(r, "ended") =>
        req[r].how \in {"never started", "swept", "cancelled", "early", "misrouted"}

(* The slots bound the steps: what the run has recorded and what calls in  *)
(* flight may still record exceeds the limit by no more than the steps     *)
(* recorded without a slot of one's own, which only complete() in proxy    *)
(* mode does.                                                              *)
StepsBounded ==
    \A run \in Runs :
        /\ steps[run] + Cardinality({r \in held : RunOf(r) = run}) <= MaxSteps + unearned[run]
        /\ unearned[run] > 0 => \E r \in Requests : RunOf(r) = run /\ req[r].kind = "twice"

(* Where tokens are bound to tenants the two ledgers of a tenant agree,    *)
(* whatever names its requests use: the daily one, which the cap is        *)
(* checked against, holds what the plan was charged for the tenant's calls *)
(* to the server, streamed or not, as long as it was never dropped.        *)
(* Elsewhere no cap is kept.                                               *)
LedgersAgree ==
    /\ \A r \in Requests : LET t == BoundTenant(r) IN
        Bound(r) /\ t \notin evicted => Total(t) = spent[t] - library[t]
    /\ daily # <<>> => \A r \in Requests : Bound(r)

(* What each user was charged covers the calls that were billed to it:     *)
(* none of them is billed as $0 because the provider reports no tokens,    *)
(* but only where the tokens it does report round to less than the         *)
(* smallest amount.                                                        *)
PaidFor ==
    \A u \in Users :
        MapThenSumSet(LAMBDA r : IF UserOf(r) = u THEN req[r].billed ELSE 0, Requests)
            <= spent[u] + trifles[u]

(* A call is billed once if it is answered or its client leaves while the  *)
(* provider is at work; complete() in proxy mode may bill twice.  In every *)
(* other way a call ends nothing is billed, though the provider may have   *)
(* been paid for it: a stream whose reservation was swept, which its       *)
(* client has had in full, and a proxy call that is cancelled at work or   *)
(* whose reservation was swept.  The breaker hears of every answer.        *)
SettledOnce ==
    \A r \in Requests : At(r, "ended") =>
        LET e == req[r] IN
        /\ e.kind # "twice" => e.billed = IF e.how \in {"answered", "left"} THEN 1 ELSE 0
        /\ e.kind = "twice" => e.billed <= 2
        /\ e.how = "answered" => e.told >= 1

(* A call is billed as often as it is settled, and paid for as often as it *)
(* is billed.                                                              *)
BilledOnce == PaidFor /\ SettledOnce
=============================================================================
