------------------------------ MODULE Routing -------------------------------
(***************************************************************************)
(* The routing engine (router/routing_engine.py): for each request it      *)
(* picks a model and the chains to fall back on, from the request, from    *)
(* what it remembers of earlier ones and from what the budget, the         *)
(* breaker and the learned weights say at that moment.                     *)
(*                                                                         *)
(* It remembers, each for a time of its own: the load it put on each model *)
(* (router/model_registry.py), the model each conversation used last, the  *)
(* provider that has a conversation's prompt warm (router/prompt_cache.py) *)
(* and how often each user was given a free model.                         *)
(***************************************************************************)
EXTENDS Selection

CONSTANTS
    Catalog,         \* the models, in the order of the registry
    Requests,        \* [names -> the requests that may come]
    Surroundings,    \* [names -> what the other components may say then], see Decide
    None,            \* no model, no provider, no decision
    MaxCost,         \* MAX_COST_PER_REQUEST
    AbuseLimit,      \* FREE_TIER_ABUSE_THRESHOLD_RPM
    DepthThreshold,  \* CONVERSATION_DEPTH_THRESHOLD
    MaxTalks,        \* entries of the conversation store
    MaxWarm,         \* CACHE_TRACKER_MAX_ENTRIES
    Housekeeping,    \* every so many decisions, 500
    Minute,          \* ticks of the window of a load
    WarmFor,         \* ticks a prompt stays warm
    TalkFor,         \* CONVERSATION_EXPIRY_SECONDS, in ticks
    MaxTime,         \* bound: ticks of the clock
    MaxDecisions     \* bound: decisions

ASSUME RoutingAssumption ==
    /\ Catalog # <<>>
    /\ {MaxTalks, MaxWarm, Housekeeping, Minute} \subseteq Nat \ {0}
    /\ {MaxChain, AbuseLimit, TalkFor} \subseteq Nat

(* What the registry holds: a table of models by their ids, with the       *)
(* fields and types of ModelOption.                                        *)
ModelFields ==
    {"id", "provider", "tier", "in", "out", "cacheRead", "cacheMin", "ratings", "steps",
     "latency", "window", "maxOut", "rpm", "adjusted", "score"}
ASSUME CatalogAssumption ==
    /\ Catalog \in Seq(ToSet(Catalog))
    /\ \A m, n \in ToSet(Catalog) : m.id = n.id => m = n
    /\ \A m \in ToSet(Catalog) :
        /\ ModelFields \subseteq DOMAIN m
        /\ m.tier \in ToSet(Tiers) /\ m.provider # None
        /\ {m.in, m.out, m.latency, m.window, m.maxOut, m.adjusted, m.score} \subseteq Int
        /\ \A task \in DOMAIN m.ratings : m.ratings[task] \in Int
        /\ \A step \in DOMAIN m.steps : m.steps[step] \in Int

(* What a request holds, with the fields and types of RoutingRequest.      *)
RequestFields ==
    {"user", "tenant", "talk", "run", "system", "prompt", "facts", "hits", "history", "step", "tools",
     "structured", "capabilities", "plan", "priority", "routing", "level", "maxTokens", "asked",
     "cap", "model", "streaming", "explores", "overrideCeiling"}
ASSUME RequestsAssumption ==
    \A name \in DOMAIN Requests :
        LET request == Requests[name] IN
        /\ RequestFields \subseteq DOMAIN request
        /\ request.priority \in {"low", "normal", "high", "critical"}
        /\ {request.prompt, request.maxTokens, request.asked} \subseteq Nat
        /\ SystemTokens(request) \in Nat
        /\ request.history \in Seq(ToSet(request.history))
        /\ \A m \in ToSet(request.history) : "size" \in DOMAIN m /\ m.size \in Nat

VARIABLES
    now,
    served,    \* [models -> the times they were chosen at]
    load,      \* [models -> current_load_rpm]
    talks,     \* the conversation store, least recently used first
    warm,      \* the prompt cache, least recently used first
    freeUse,   \* [users -> the times they were given a free model at]
    count,     \* _route_count
    last,      \* the last decision, or None
    \* History:
    spoken,    \* [conversations -> the model of the last turn and its time]
    given,     \* [users -> every time they were given a free model at]
    cached     \* [conversations and lone runs -> the last success that made a prompt warm]

vars == <<now, served, load, talks, warm, freeUse, count, last, spoken, given, cached>>

Users == {Requests[name].user : name \in DOMAIN Requests}

(* Each request and what is made of it, as it comes and as it is when its  *)
(* history was compressed.                                                 *)
Short == [name \in DOMAIN Requests |-> Compress(Requests[name])]
Analysis == [name \in DOMAIN Requests |-> Analyze(Requests[name])]
ShortAnalysis == [name \in DOMAIN Requests |-> Analyze(Short[name])]

(* The state a request names is that of its scope: of its tenant, all of   *)
(* whose users share it, or of its user when it names no tenant.           *)
ScopedKeyByUser(request, raw) == <<request.user, raw>>
ScopedKey(request, raw) ==
    <<IF request.tenant # None THEN request.tenant ELSE request.user, raw>>
TalkKey(request) == ScopedKey(request, request.talk)

(* Whose a conversation, and a lone run, truly is, and what it is called   *)
(* there.  A tenant and a lone user of the same name are the same owner.   *)
Owner(request) == IF request.tenant = None THEN request.user ELSE request.tenant
TrueKey(request) == <<Owner(request), request.talk>>
TrueCacheKey(request) ==
    <<Owner(request), IF request.talk # None THEN request.talk ELSE request.run>>

(* A history that says this of a key last.                                 *)
With(f, x, v) == [y \in DOMAIN f \cup {x} |-> IF y = x THEN v ELSE f[y]]

(* Of a store kept in the order of its use: the entry of a key, the others *)
(* and, with a new entry, the store without the oldest if it was full.     *)
EntryOf(store, key) == Where(store, LAMBDA e : e.key = key)
OthersOf(store, key) == Where(store, LAMBDA e : e.key # key)
Put(store, entry, limit) ==
    LET others == OthersOf(store, entry.key)
    IN  Append(IF Len(others) = Len(store) /\ Len(store) >= limit THEN Tail(others) ELSE others,
               entry)
-----------------------------------------------------------------------------
(* What the engine remembers, at the time of a request.                    *)

Alive(entry) == now - entry.at <= TalkFor
ConversationOf(request) ==
    IF request.talk = None THEN <<>>
    ELSE Where(EntryOf(talks, TalkKey(request)), Alive)

(* The key of the prompt cache, and the provider that has the prompt warm. *)
CacheKey(request) ==
    ScopedKey(request, IF request.talk # None THEN request.talk ELSE request.run)
Caches(request) ==
    /\ request.talk # None \/ request.run # "no run"
    /\ SystemTokens(request) >= PrefixMin
WarmEntry(request) ==
    Where(EntryOf(warm, CacheKey(request)),
              LAMBDA e : now <= e.until /\ e.prefix = request.system)
WarmProvider(request) ==
    IF ~Caches(request) \/ WarmEntry(request) = <<>> THEN None
    ELSE WarmEntry(request)[1].provider

(* The counter of a model is written when it is chosen, and only then: its *)
(* window may have emptied since.                                          *)
Named(id) == Where(Catalog, LAMBDA m : m.id = id)[1]
NearLimit == {Catalog[i].id : i \in {j \in DOMAIN Catalog : 100 * load[Catalog[j].id]
                                                              >= 85 * Catalog[j].rpm}}
FreeRpm(user) == Cardinality({i \in DOMAIN freeUse[user] : now - freeUse[user][i] < Minute})
-----------------------------------------------------------------------------
(* The candidates of a request: those that pass and whose provider is not  *)
(* broken, cheap enough ones first; else those of the relaxed filter.      *)
RelaxedFilterFloorless(request, a) ==
    Where(Catalog, LAMBDA m : Qualified(m, request, [a EXCEPT !.step = "unknown"]))
RelaxedFilter(request, a) == Where(Catalog, LAMBDA m : Qualified(m, request, a))

Candidates(request, a, around) ==
    LET strict == Where(Catalog, LAMBDA m :
            /\ PassesHardConstraints(m, request, a, NearLimit)
            /\ m.provider \notin around.broken)
        capped == Where(strict, LAMBDA m :
            request.cap < 0 \/ EstimateCost(a, m) <= request.cap)
        some == IF capped # <<>> THEN capped ELSE strict
    IN  IF some # <<>> THEN some ELSE RelaxedFilter(request, a)

(* The history is compressed when it nearly fills the largest window.      *)
IsTight(a, candidates) ==
    100 * a.context > 80 * Max({candidates[i].window : i \in DOMAIN candidates})

(* The way a request takes through the steps, the first that applies.      *)
Dearest == Best(Catalog, Price)
Way(request, a, b, candidates, around) ==
    LET free == TierOf(candidates, "free")
    IN  IF EstimateCost(a, Dearest) > MaxCost /\ ~request.overrideCeiling
        THEN "cost_ceiling_blocked"
        ELSE IF candidates = <<>> THEN "no_candidates"
        ELSE IF around.capped /\ free = <<>> THEN "daily_budget_exhausted"
        ELSE IF around.capped THEN "daily_budget_cap_free_tier"
        ELSE IF request.model \in IdsOf(candidates) THEN "explicit_model_override"
        ELSE IF request.routing \in {"always-premium", "cascade", "quality_max"}
        THEN request.routing
        ELSE IF b.task = "conversation" /\ b.input < 50 /\ free # <<>> THEN "trivial_request"
        ELSE "tier_selection"

Blocked == {"cost_ceiling_blocked", "no_candidates", "daily_budget_exhausted"}

(* A choice: the model, the candidates it was chosen of, whether it is     *)
(* beyond the budget, and the status of the prompt cache.                  *)
Choice(model, candidates, exhausted, status) ==
    [model |-> model, candidates |-> candidates, exhausted |-> exhausted, status |-> status]

(* The decision: the model, the chains of the candidates, and what is said *)
(* of them.                                                                *)
Ids(models) == Each(models, LAMBDA m : m.id)
Chained(rule, c, typed) ==
    [rule |-> rule, chosen |-> c.model.id, exhausted |-> c.exhausted, status |-> c.status,
     chain |-> Ids(BuildFallbackChain(c.model, c.candidates)),
     rateLimit |-> Ids(typed.rateLimit), safety |-> Ids(typed.safety),
     timeout |-> Ids(typed.timeout)]
Decision(rule, c) == Chained(rule, c, BuildTypedFallbackChains(c.model, c.candidates))

(* The model walked down to, if the chosen one is beyond the budget.       *)
Afforded(chosen, candidates, a, room) ==
    IF EstimateCost(a, chosen) <= room THEN [model |-> chosen, exhausted |-> FALSE]
    ELSE TierWalkdown(chosen, candidates, a, room)

(* The ways that look at no score.  Only an explicit model is held to the  *)
(* budget here.                                                            *)
ShortcutModel(request, a, way, candidates) ==
    CASE way \in {"daily_budget_cap_free_tier", "trivial_request"} ->
            PickBest(TierOf(candidates, "free"), a)
      [] way = "always-premium" -> AlwaysPremium(candidates, a)
      [] way = "cascade" -> CascadeInitial(candidates, a)
      [] way = "quality_max" -> QualityMax(candidates, a)
      [] way = "explicit_model_override" ->
            Where(candidates, LAMBDA m : m.id = request.model)[1]

Held(afforded, candidates, status) ==
    Choice(afforded.model, candidates, afforded.exhausted, status)
Shortcut(request, a, way, candidates, around) ==
    LET chosen == ShortcutModel(request, a, way, candidates)
    IN  IF way = "explicit_model_override"
        THEN Held(Afforded(chosen, candidates, a, around.room), candidates, "cold")
        ELSE Choice(chosen, candidates, FALSE, "cold")
-----------------------------------------------------------------------------
(* The scored way.                                                         *)

(* Who hammers the free tier is kept off it; if nothing is left, the whole *)
(* catalogue is taken.                                                     *)
Tamed(request, candidates) ==
    LET paid == Where(candidates, LAMBDA m : m.tier # "free")
    IN  IF FreeRpm(request.user) <= AbuseLimit THEN candidates
        ELSE IF paid # <<>> THEN paid ELSE Catalog

(* The learned qualities, and the models good enough by them.              *)
Adjusted(candidates, a, around) ==
    LET Learned(m) == ResolveQuality(a, m) - IF m.id \in around.bad THEN 50 ELSE 0
        adjusted == Each(candidates, LAMBDA m : [m EXCEPT !.adjusted = Learned(m)])
        good == Where(adjusted, LAMBDA m : m.adjusted >= 35)
    IN  IF good # <<>> THEN good ELSE adjusted

(* Those the scores are compared of.                                       *)
Contenders(request, a, candidates) ==
    LET able == Where(candidates, LAMBDA m : ResolveQuality(a, m) >= QualityFloor(a))
        some == IF able # <<>> THEN able ELSE candidates
        paid == Where(some, LAMBDA m : m.tier # "free")
    IN  IF request.priority = "critical" /\ paid # <<>> THEN paid ELSE some

(* The model of the last turn is favoured, and those whose provider has    *)
(* the prompt warm.                                                        *)
Favour(request, m) ==
    LET turn == ConversationOf(request)
        sticky == IF turn # <<>> /\ turn[1].model = m.id
                  THEN IF turn[1].turns >= DepthThreshold THEN 2000 ELSE 1500 ELSE 0
    IN  sticky + IF m.provider = WarmProvider(request) THEN 800 ELSE 0

(* The warm provider is left only for savings of more than 15 in 100.      *)
Pinned(request, a, contenders) ==
    LET prefix == SystemTokens(request)
        incumbents == Where(contenders, LAMBDA m : m.provider = WarmProvider(request))
        others == Where(contenders, LAMBDA m : m.provider # WarmProvider(request))
        Leader(models) == Best(models, LAMBDA m : m.score)
        kept == CacheAwareCost(a, Leader(incumbents), prefix)
        switched == EstimateCost(a, Leader(others))
    IN  IF incumbents = <<>> THEN [models |-> contenders, status |-> "cold"]
        ELSE IF others = <<>> \/ kept = 0 \/ 100 * (kept - switched) <= 15 * kept
        THEN [models |-> incumbents, status |-> "warm"]
        ELSE [models |-> contenders, status |-> "would_lose_cache"]

(* What is said of the prompt cache, once the model is final.              *)
CacheStatusEarly(request, status, chosen) == status
CacheStatus(request, status, chosen) ==
    IF WarmProvider(request) # None /\ chosen.provider # WarmProvider(request)
    THEN "would_lose_cache" ELSE status

WithScores(request, a, candidates, contenders) ==
    LET ids == IdsOf(contenders)
    IN  Each(candidates, LAMBDA m :
            IF m.id \in ids
            THEN [m EXCEPT !.score = Score(m, contenders, request, a) + Favour(request, m)]
            ELSE m)

(* A winner whose score is low makes room for the best premium model.      *)
Confident(winner, premium) ==
    IF winner.score < 6000 /\ premium # <<>>
    THEN [model |-> Best(premium, LAMBDA m : m.adjusted), sure |-> FALSE]
    ELSE [model |-> winner, sure |-> TRUE]

(* Now and then a model one tier below the one of the complexity is tried. *)
OneTierBelow(candidates, tier) ==
    IF Rank[tier] = 1 THEN <<>> ELSE TierOf(candidates, Tiers[Rank[tier] - 1])
Explored(request, a, elected, viable, explore) ==
    IF /\ request.explores /\ explore > 0 /\ elected.sure /\ viable # <<>>
       /\ request.priority \in {"low", "normal"}
       /\ a.score < At70
       /\ a.sensitivity \notin {"confidential", "restricted"}
    THEN viable[Min({explore, Len(viable)})] ELSE elected.model

Elected(request, a, candidates, winner, explore) ==
    Explored(request, a,
        Confident(winner, Others(TierOf(candidates, "premium"), {winner.id})),
        Where(OneTierBelow(candidates, TierForScore(a)), LAMBDA m : m.adjusted >= 35),
        explore)

Settled(request, afforded, candidates, status) ==
    Held(afforded, candidates, CacheStatus(request, status, afforded.model))
Raced(request, a, candidates, race, room, explore) ==
    LET winner == Best(race.models, LAMBDA m : m.score)
    IN  Settled(request,
            Afforded(Elected(request, a, candidates, winner, explore), candidates, a, room),
            candidates, race.status)
Compared(request, a, candidates, ids, room, explore) ==
    LET contenders == Where(candidates, LAMBDA m : m.id \in ids)
    IN  Raced(request, a, candidates, Pinned(request, a, contenders), room, explore)
Weighed(request, a, candidates, contenders, room, explore) ==
    Compared(request, a, WithScores(request, a, candidates, contenders), IdsOf(contenders),
             room, explore)
Scored(request, a, pool, around, explore) ==
    LET candidates == Adjusted(Tamed(request, pool), a, around)
    IN  Weighed(request, a, candidates, Contenders(request, a, candidates), around.room, explore)
-----------------------------------------------------------------------------
Init ==
    /\ now = 0
    /\ served = [id \in IdsOf(Catalog) |-> <<>>]
    /\ load = [id \in IdsOf(Catalog) |-> 0]
    /\ talks = <<>>
    /\ warm = <<>>
    /\ freeUse = [user \in Users |-> <<>>]
    /\ count = 0
    /\ last = None
    /\ spoken = <<>>
    /\ given = [user \in Users |-> <<>>]
    /\ cached = <<>>

(* A lookup in a store: what is no longer good is dropped, what is good is *)
(* used now.                                                               *)
Looked(store, key, good) ==
    IF EntryOf(store, key) = <<>> THEN store ELSE OthersOf(store, key) \o good

Recent(times, span) == Where(times, LAMBDA t : now - t < span)

(* Every so often the users are dropped whose last free use is a minute    *)
(* ago.                                                                    *)
DrainedAlways(times) == times # <<>>
Drained(times) == times # <<>> /\ now - Last(times) >= Minute
Cleaned(use) ==
    [user \in Users |->
        IF (count + 1) % Housekeeping = 0 /\ Drained(use[user]) THEN <<>> ELSE use[user]]

(* What a decision leaves behind: the load of the model, the free use of   *)
(* the user, the model of the conversation.                                *)
PostRoute(request, id, talksNow) ==
    LET window == Append(Recent(served[id], Minute), now)
        isFree == Named(id).tier = "free"
        used == IF isFree THEN [freeUse EXCEPT ![request.user] = Append(@, now)] ELSE freeUse
        turns == IF ConversationOf(request) = <<>> THEN 0 ELSE ConversationOf(request)[1].turns
        told == IF request.talk = None THEN talksNow
                ELSE Put(talksNow, [key |-> TalkKey(request), model |-> id,
                                    turns |-> turns + 1, at |-> now], MaxTalks)
    IN  /\ served' = [served EXCEPT ![id] = window]
        /\ load' = [load EXCEPT ![id] = Len(window)]
        /\ freeUse' = Cleaned(used)
        /\ given' = IF isFree THEN [given EXCEPT ![request.user] = Append(Recent(@, Minute), now)]
                    ELSE given
        /\ talks' = IF (count + 1) % Housekeeping = 0 THEN Where(told, Alive) ELSE told
        /\ spoken' = IF request.talk = None THEN spoken
                     ELSE With(spoken, TrueKey(request), [model |-> id, at |-> now])

(* The engine decides on a request.  Around it: the broken providers, the  *)
(* models the learned weights mark down, what the plan's budget has left,  *)
(* whether the daily cap is met, and whether the run is under pressure and *)
(* its requests are made cheap ones.                                       *)
RouteAlong(way, request, a, b, pool, around, explore) ==
    IF way \in Blocked THEN [rule |-> way, chosen |-> None, chain |-> <<>>]
    ELSE Decision(way,
            IF way = "tier_selection" THEN Scored(request, b, pool, around, explore)
            ELSE Shortcut(request, IF way = "daily_budget_cap_free_tier" THEN a ELSE b,
                          way, pool, around))
RouteWith(name, request, pool, tight, around, explore) ==
    LET a == Analysis[name]
        b == IF tight THEN ShortAnalysis[name] ELSE a
        turn == ConversationOf(request)
        way == Way(request, a, b, pool, around)
    IN  [name |-> name, around |-> around, tight |-> tight,
         lastModel |-> IF turn = <<>> THEN None ELSE turn[1].model,
         decision |-> RouteAlong(way, request, a, b, pool, around, explore)]
RouteCore(name, request, around, explore) ==
    LET pool == Candidates(request, Analysis[name], around)
    IN  RouteWith(name, request, pool, pool # <<>> /\ IsTight(Analysis[name], pool),
                  around, explore)

Decide(name, around, explore) ==
    /\ count < MaxDecisions
    /\ LET request == [Requests[name] EXCEPT
                            !.routing = IF around.pressed THEN "cost-optimized" ELSE @]
           talksNow == IF request.talk = None THEN talks
                       ELSE Looked(talks, TalkKey(request), ConversationOf(request))
       IN \E d \in {RouteCore(name, request, around, explore)} :
          /\ last' = d
          /\ warm' = IF d.decision.rule = "tier_selection" /\ Caches(request)
                     THEN Looked(warm, CacheKey(request), WarmEntry(request)) ELSE warm
          /\ IF d.decision.rule \in Blocked
             THEN talks' = talksNow /\ UNCHANGED <<served, load, freeUse, count, spoken, given>>
             ELSE count' = count + 1 /\ PostRoute(request, d.decision.chosen, talksNow)
    /\ UNCHANGED <<now, cached>>

(* The call is made, of the chosen model or one of the chain: the provider *)
(* that answered has the prompt warm.                                      *)
WarmedBy(request, m) == [key |-> CacheKey(request), provider |-> m.provider,
                         prefix |-> request.system, until |-> now + WarmFor]
Warmed(entry) == Put(warm, entry, MaxWarm)

RecordPromptCacheSuccess(id) ==
    LET request == Requests[last.name]
        entry == WarmedBy(request, Named(id))
    IN  /\ Caches(request)
        /\ warm' = Warmed(entry)
        /\ cached' = With(cached, TrueCacheKey(request), entry)
        /\ UNCHANGED <<now, served, load, talks, freeUse, count, last, spoken, given>>

Tick ==
    /\ now < MaxTime
    /\ count < MaxDecisions
    /\ now' = now + 1
    /\ UNCHANGED <<served, load, talks, warm, freeUse, count, last, spoken, given, cached>>

Next ==
    \/ \E name \in DOMAIN Requests : \E around \in Surroundings[name] :
        \E explore \in IF Requests[name].explores THEN {0, 1, 2} ELSE {0} :
            Decide(name, around, explore)
    \/ /\ count < MaxDecisions
       /\ last # None
       /\ last.decision.chosen # None
       /\ \E id \in {last.decision.chosen} \cup ToSet(last.decision.chain) :
                RecordPromptCacheSuccess(id)
    \/ Tick

Spec == Init /\ [][Next]_vars
-----------------------------------------------------------------------------
Offered(d) ==
    {Named(id) : id \in {d.chosen} \cup ToSet(d.chain) \cup ToSet(d.rateLimit)
                          \cup ToSet(d.safety) \cup ToSet(d.timeout)}
IsMade == last # None /\ last.decision.chosen # None

(* No way through the engine, no relaxed filter, no walk down the tiers    *)
(* and no chain leads below the tier that the step, the domain and the     *)
(* complexity of the request demand: "a floor can never be silently        *)
(* bypassed downstream" (_composed_min_tier).                              *)
FloorsHold ==
    IsMade => \A m \in Offered(last.decision) : Rank[m.tier] >= ComposedMinTier(Analysis[last.name])

(* On the ways that ask the budget, a model that is not said to exhaust it *)
(* fits in it, and one that is said to is the cheapest on offer.           *)
BudgetTruth ==
    IsMade /\ last.decision.rule \in {"explicit_model_override", "tier_selection"} =>
        LET a == IF last.tight THEN ShortAnalysis[last.name] ELSE Analysis[last.name]
            cost == EstimateCost(a, Named(last.decision.chosen))
        IN  IF last.decision.exhausted
            THEN \A m \in Offered(last.decision) : cost <= EstimateCost(a, m)
            ELSE cost <= last.around.room

(* A decision said to be warm goes to the provider whose success warmed    *)
(* this very prompt of this very conversation, or of this run when it is   *)
(* in none, not too long ago.                                              *)
CacheStatusHonest ==
    [][count' # count /\ last'.decision.status = "warm" =>
        LET request == Requests[last'.name]
            key == TrueCacheKey(request)
        IN  /\ key \in DOMAIN cached
            /\ cached[key].provider = Named(last'.decision.chosen).provider
            /\ cached[key].prefix = request.system
            /\ now <= cached[key].until]_vars

(* The model a turn is biased to is the one its own scope's conversation   *)
(* used last, whichever users of the tenant took part in it, if it was     *)
(* used lately, and never another tenant's or lone user's conversation of  *)
(* that name; a conversation is forgotten in time only when there are too  *)
(* many (ConversationStore).                                               *)
ConversationKept ==
    [][count' # count /\ Requests[last'.name].talk # None =>
        LET key == TrueKey(Requests[last'.name])
            recent == {k \in DOMAIN spoken : now - spoken[k].at <= TalkFor}
        IN  IF key \in recent
            THEN \/ last'.lastModel = spoken[key].model
                 \/ last'.lastModel = None /\ Cardinality(DOMAIN spoken) > MaxTalks
            ELSE last'.lastModel = None]_vars

(* A user who took more free models within the minute than allowed is not  *)
(* given another one by the scores while a paid one would do.              *)
AbuseSeen ==
    [][/\ count' # count
       /\ last'.decision.rule = "tier_selection"
       /\ Len(Recent(given[Requests[last'.name].user], Minute)) > AbuseLimit
       /\ Named(last'.decision.chosen).tier = "free"
       => LET pool == Candidates(Requests[last'.name], Analysis[last'.name], last'.around)
          IN  TierOf(pool, "free") = pool]_vars
=============================================================================
