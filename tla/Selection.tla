----------------------------- MODULE Selection ------------------------------
(***************************************************************************)
(* How a model is picked for a request: the pure helpers of                *)
(* router/routing_engine.py and the chains of router/fallback_chain.py.    *)
(* Models come as sequences, for ties go to the first of the catalogue.    *)
(*                                                                         *)
(* Prices are for one token; qualities in hundredths; scores in the        *)
(* hundredths of a hundredth, rounded down.                                *)
(***************************************************************************)
EXTENDS Classifier

CONSTANTS
    MaxChain,        \* max_chain
    Margin,          \* LONG_DOCUMENT_CONTEXT_SAFETY_MARGIN
    PrefixMin        \* CACHE_PREFIX_MIN_TOKENS

IdsOf(models) == {models[i].id : i \in DOMAIN models}
TierOf(models, tier) == Where(models, LAMBDA m : m.tier = tier)

(* max() and a stable, descending sort: the place of the greatest key, and *)
(* the places from the greatest key to the least.                          *)
TopOf(keys) ==
    LET top == Max({keys[i] : i \in DOMAIN keys})
    IN  Min({i \in DOMAIN keys : keys[i] = top})
Descending(keys) ==
    LET Ahead(i, j) == keys[i] > keys[j] \/ (keys[i] = keys[j] /\ i < j)
    IN  [n \in DOMAIN keys |-> CHOOSE i \in DOMAIN keys :
                                Cardinality({j \in DOMAIN keys : Ahead(j, i)}) = n - 1]

Each(models, Op(_)) == SubSeq([i \in DOMAIN models |-> Op(models[i])], 1, Len(models))
Best(models, Key(_)) == models[TopOf(Each(models, Key))]
Sorted(models, Key(_)) ==
    LET order == Descending(Each(models, Key))
    IN  Each(order, LAMBDA i : models[i])
FirstOf(models, n) == SubSeq(models, 1, Min({n, Len(models)}))
-----------------------------------------------------------------------------
Price(m) == m.in + m.out

EstimateCost(a, m) == a.input * m.in + Min({a.billing, m.maxOut}) * m.out

(* With a warm prefix the model reads it at its own price.                 *)
CacheAwareCost(a, m, prefix) ==
    IF m.cacheRead < 0 \/ prefix < m.cacheMin THEN EstimateCost(a, m)
    ELSE prefix * m.cacheRead + Max({a.input - prefix, 0}) * m.in
            + Min({a.billing, m.maxOut}) * m.out

(* The quality for the step, if the model has one, else for the task, else *)
(* in general.                                                             *)
ResolveQuality(a, m) ==
    IF a.step \in DOMAIN m.steps \ {"unknown"} THEN m.steps[a.step]
    ELSE IF a.task \in DOMAIN m.ratings THEN m.ratings[a.task]
    ELSE IF "general" \in DOMAIN m.ratings THEN m.ratings.general ELSE 50

QualityFloor(a) ==
    CASE a.score < At15 -> 40
      [] a.score >= At15 /\ a.score < At30 -> 60
      [] a.score >= At30 /\ a.score < At60 -> 75
      [] OTHER -> 85

TierForScore(a) ==
    Tiers[1 + Cardinality({bound \in {At15, At30, At60} : a.score >= bound})]

(* The least tier: the strongest of what the step, the domain and the      *)
(* complexity demand.                                                      *)
ComposedMinTier(a) ==
    Max({IF a.step \in {"plan", "tool_select", "final_answer"} THEN 3
         ELSE IF a.step = "reflect" THEN 2 ELSE 1,
         IF a.task \in {"legal", "medical"} THEN 4 ELSE 1,
         IF a.score >= At85 THEN 4 ELSE 1})

CapabilitySatisfied(cap, m, a) ==
    IF cap = "long_document" THEN m.window >= a.context + Margin ELSE cap \in m.capabilities

IsAllowedForPlan(m, plan) ==
    m.tier \in CASE plan = "free_plan" -> {"free", "cheap"}
                 [] plan \in {"pro_plan", "business_plan"} -> ToSet(Tiers)
                 [] OTHER -> {"free"}

(* What no filter gives up: who cannot do the work is no cheaper choice.   *)
Qualified(m, request, a) ==
    /\ request.tools => m.tools
    /\ request.structured => m.structured
    /\ Rank[m.tier] >= ComposedMinTier(a)
    /\ \A cap \in request.capabilities : CapabilitySatisfied(cap, m, a)
    /\ m.window >= a.context
    /\ a.sensitivity \in m.levels
    /\ IsAllowedForPlan(m, request.plan)

PassesHardConstraints(m, request, a, nearLimit) ==
    /\ Qualified(m, request, a)
    /\ 100 * a.input <= 90 * m.window
    /\ request.streaming => m.streaming
    /\ m.id \notin nearLimit
-----------------------------------------------------------------------------
(* The highest quality, the cheaper of equals.                             *)
PickBest(models, a) == Best(models, LAMBDA m : 10000 * ResolveQuality(a, m) - Price(m))

(* The shortcuts: the highest tier there is; the lowest one that is good   *)
(* enough; the highest quality in whatever tier.                           *)
AlwaysPremium(models, a) ==
    LET top == Max({Rank[models[i].tier] : i \in DOMAIN models})
    IN  PickBest(TierOf(models, Tiers[top]), a)

CascadeInitial(models, a) ==
    LET good == Where(models, LAMBDA m : ResolveQuality(a, m) >= QualityFloor(a))
        low == Min({Rank[good[i].tier] : i \in DOMAIN good})
    IN  PickBest(IF good = <<>> THEN models ELSE TierOf(good, Tiers[low]), a)

QualityMax(models, a) ==
    Best(models, LAMBDA m : 100000 * ResolveQuality(a, m) + 10000 * Rank[m.tier] - Price(m))

(* The budget's walk down the tiers: the best model of each is tried, and  *)
(* the cheapest of all when none fits.                                     *)
TierWalkdownTrusting(chosen, models, a, room) ==
    LET lower == {t \in 1 .. Rank[chosen.tier] - 1 : TierOf(models, Tiers[t]) # <<>>}
        Leader(t) == Best(TierOf(models, Tiers[t]), LAMBDA m : m.adjusted)
    IN  IF lower = {}
        THEN [model |-> Best(models, LAMBDA m : -EstimateCost(a, m)), exhausted |-> TRUE]
        ELSE [model |-> Leader(Max(lower)), exhausted |-> FALSE]
TierWalkdown(chosen, models, a, room) ==
    LET lower == {t \in 1 .. Rank[chosen.tier] - 1 : TierOf(models, Tiers[t]) # <<>>}
        Leader(t) == Best(TierOf(models, Tiers[t]), LAMBDA m : m.adjusted)
        fits == {t \in lower : EstimateCost(a, Leader(t)) <= room}
    IN  IF fits = {}
        THEN [model |-> Best(models, LAMBDA m : -EstimateCost(a, m)), exhausted |-> TRUE]
        ELSE [model |-> Leader(Max(fits)), exhausted |-> FALSE]

(* Where a value lies between the least and the greatest, from 0 to 100.   *)
Normalized(value, values) ==
    IF Max(values) = Min(values) THEN 50
    ELSE (100 * (value - Min(values))) \div (Max(values) - Min(values))

Weights(request) ==
    LET mode == IF request.routing \in {"quality-first", "cost-optimized"}
                THEN request.routing ELSE request.priority
    IN  CASE mode = "quality-first" -> [quality |-> 70, cost |-> 20, latency |-> 10]
          [] mode = "cost-optimized" -> [quality |-> 30, cost |-> 60, latency |-> 10]
          [] mode = "low" -> [quality |-> 70, cost |-> 25, latency |-> 5]
          [] mode = "normal" -> [quality |-> 50, cost |-> 30, latency |-> 20]
          [] mode = "high" -> [quality |-> 45, cost |-> 20, latency |-> 35]
          [] mode = "critical" -> [quality |-> 55, cost |-> 10, latency |-> 35]

(* A window that the input alone fills costs a model a part of its score.  *)
ContextPenalty(a, m) ==
    LET ratio == (100 * a.input) \div Max({m.window, 1})
    IN  CASE ratio >= 50 -> (ratio - 50) * 40
          [] ratio > 30 /\ ratio < 50 -> (ratio - 30) * 15
          [] OTHER -> 0

Score(m, models, request, a) ==
    LET w == Weights(request)
        prices == {Price(models[i]) : i \in DOMAIN models}
        latencies == {models[i].latency : i \in DOMAIN models}
    IN  m.adjusted * w.quality
            + (100 - Normalized(Price(m), prices)) * w.cost
            + (100 - Normalized(m.latency, latencies)) * w.latency
            - ContextPenalty(a, m)
-----------------------------------------------------------------------------
(* The chains a call walks when the chosen model fails.                    *)

Ranking(m) == 1000 * m.score + m.adjusted
Others(models, ids) == Where(models, LAMBDA m : m.id \notin ids)
Up(m) == Tiers[Min({Rank[m.tier] + 1, Len(Tiers)})]

(* The best of the same tier, the cheapest one tier up, the most capable   *)
(* of the rest.                                                            *)
BuildFallbackChain(chosen, models) ==
    LET same == FirstOf(Sorted(TierOf(Others(models, {chosen.id}), chosen.tier), Ranking), 1)
        rest1 == Others(models, {chosen.id} \cup IdsOf(same))
        up == IF chosen.tier = "premium" THEN <<>>
              ELSE FirstOf(Sorted(TierOf(rest1, Up(chosen)), LAMBDA m : -Price(m)), 1)
        rest2 == Others(rest1, IdsOf(up))
        safe == FirstOf(Sorted(rest2, LAMBDA m : 1000 * Rank[m.tier] + m.adjusted), 1)
    IN  FirstOf(same \o up \o safe, MaxChain)

(* One chain for each kind of failure: the same tier for a rate limit, the *)
(* tiers above for a refusal, the fastest for a timeout.                   *)
BuildTypedFallbackChains(chosen, models) ==
    LET others == Others(models, {chosen.id})
        Tier(t) == IF t > Rank[chosen.tier]
                   THEN Sorted(TierOf(others, Tiers[t]), LAMBDA m : m.adjusted) ELSE <<>>
    IN  [rateLimit |-> FirstOf(Sorted(TierOf(others, chosen.tier), Ranking), MaxChain),
         safety |-> FirstOf(Tier(2) \o Tier(3) \o Tier(4), MaxChain),
         timeout |-> FirstOf(Sorted(others, LAMBDA m : -m.latency), MaxChain)]
=============================================================================
