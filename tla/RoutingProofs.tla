--------------------------- MODULE RoutingProofs ----------------------------
(***************************************************************************)
(* Proofs about the routing engine, for any catalogue, requests, budgets   *)
(* and moods of its surroundings.                                          *)
(***************************************************************************)
EXTENDS Routing, DataLemmas

-----------------------------------------------------------------------------
(* Lists of models.                                                        *)

Listed(s) == s \in Seq(ToSet(s))

(* Any sequence lists its elements.                                        *)
LEMMA SequenceListed ==
    ASSUME NEW S, NEW s \in Seq(S)
    PROVE  /\ Listed(s)
           /\ ToSet(s) \subseteq S
           /\ s = <<>> <=> ToSet(s) = {}
           /\ DOMAIN s = 1..Len(s)
           /\ \A i \in DOMAIN s : s[i] \in ToSet(s)
BY DEF Listed, ToSet

(* What passes a test, in a list, is a list.                               *)
LEMMA OnlyListed ==
    ASSUME NEW s, Listed(s), NEW wanted
    PROVE  /\ Listed(Only(s, wanted))
           /\ ToSet(Only(s, wanted)) = ToSet(s) \cap wanted
           /\ Only(s, wanted) = <<>> <=> ToSet(s) \cap wanted = {}
<1>1. PICK gone : gone = ToSet(s) \ wanted
    OBVIOUS
<1>2. s \in Seq(ToSet(s))
    BY DEF Listed
<1>3. /\ Without(s, gone) \in Seq(ToSet(s))
      /\ ToSet(Without(s, gone)) = ToSet(s) \ gone
    BY <1>2, WithoutList
<1>4. Only(s, wanted) = Without(s, gone)
    BY <1>1 DEF Only
<1>5. PICK t : t = Only(s, wanted)
    OBVIOUS
<1>6. t \in Seq(ToSet(s)) /\ ToSet(t) = ToSet(s) \cap wanted
    BY <1>1, <1>3, <1>4, <1>5
<1>7. Listed(t) /\ (t = <<>> <=> ToSet(t) = {})
    BY <1>6, SequenceListed
<1> QED BY <1>5, <1>6, <1>7

(* The values of a sequence are a finite set.                              *)
LEMMA ValuesFinite ==
    ASSUME NEW n \in Nat, NEW keys
    PROVE  IsFiniteSet({keys[i] : i \in 1..n})
<1>1. IsFiniteSet(1..n)
    BY FS_Interval
<1>2. PICK T, f : T = {keys[i] : i \in 1..n} /\ f = [i \in 1..n |-> keys[i]]
    OBVIOUS
<1>3. f \in Surjection(1..n, T)
    BY <1>2 DEF Surjection
<1>4. IsFiniteSet(T)
    BY <1>1, <1>3, FS_Surjection
<1> QED BY <1>2, <1>4

-----------------------------------------------------------------------------
(* The greatest of a list, and a list in the order of its keys.            *)

(* The place of the greatest key is a place of the list, and no key is     *)
(* greater.                                                                *)
LEMMA TopOfList ==
    ASSUME NEW n \in Nat \ {0}, NEW keys \in [1..n -> Int]
    PROVE  TopOf(keys) \in 1..n /\ \A i \in 1..n : keys[i] <= keys[TopOf(keys)]
<1>1. PICK T : T = {keys[i] : i \in 1..n}
    OBVIOUS
<1>2. T \subseteq Int /\ IsFiniteSet(T) /\ T # {}
    <2>1. 1 \in 1..n
        OBVIOUS
    <2> QED BY <1>1, <2>1, ValuesFinite
<1>3. PICK top : top = Max(T)
    OBVIOUS
<1>4. top \in T /\ \A x \in T : x <= top
    BY <1>2, <1>3, IntBounds
<1>5. PICK I : I = {i \in 1..n : keys[i] = top}
    OBVIOUS
<1>6. I \subseteq Int /\ IsFiniteSet(I) /\ I # {}
    <2>1. IsFiniteSet(1..n)
        BY FS_Interval
    <2> QED BY <1>1, <1>4, <1>5, <2>1, FS_Subset
<1>7. Min(I) \in I
    BY <1>6, IntBounds
<1>8. TopOf(keys) = Min(I)
    BY <1>1, <1>3, <1>5 DEF TopOf
<1> QED BY <1>1, <1>4, <1>5, <1>7, <1>8

(* The places of a list of keys, from the greatest key to the least, are   *)
(* places of that list: each place has its own number of places ahead.     *)
LEMMA DescendingList ==
    ASSUME NEW n \in Nat, NEW keys \in [1..n -> Int]
    PROVE  Descending(keys) \in [1..n -> 1..n]
<1> DEFINE Ahead(i, j) == keys[i] > keys[j] \/ (keys[i] = keys[j] /\ i < j)
           Leaders(i) == {j \in DOMAIN keys : Ahead(j, i)}
<1>1. IsFiniteSet(1..n) /\ Cardinality(1..n) = n
    BY FS_Interval
<1>2. \A i \in 1..n : IsFiniteSet(Leaders(i)) /\ Cardinality(Leaders(i)) \in 0..n - 1
    <2> TAKE i \in 1..n
    <2>1. PICK L : L = Leaders(i)
        OBVIOUS
    <2>2. PICK R : R = (1..n) \ {i}
        OBVIOUS
    <2>6. L \in SUBSET R
        BY <2>1, <2>2
    <2>3. IsFiniteSet(R) /\ Cardinality(R) = n - 1
        BY <1>1, <2>2, FS_RemoveElement
    <2>4. IsFiniteSet(L) /\ Cardinality(L) <= n - 1
        BY <2>3, <2>6, FS_Subset
    <2>5. Cardinality(L) \in Nat
        BY <2>4, FS_CardinalityType
    <2> QED BY <2>1, <2>4, <2>5
<1>3. \A i, j \in 1..n : i # j => Cardinality(Leaders(i)) # Cardinality(Leaders(j))
    <2>1. ASSUME NEW i \in 1..n, NEW j \in 1..n, Ahead(i, j)
          PROVE  Cardinality(Leaders(i)) # Cardinality(Leaders(j))
        <3>1. PICK L, M : L = Leaders(i) /\ M = Leaders(j)
            OBVIOUS
        <3>2. \A k \in 1..n : keys[k] \in Int
            OBVIOUS
        <3>3. \A k \in L : k \in M
            BY <2>1, <3>1, <3>2
        <3>4. i \in M /\ i \notin L
            BY <2>1, <3>1, <3>2
        <3>5. L \in SUBSET M /\ L # M /\ IsFiniteSet(M)
            BY <1>2, <3>1, <3>3, <3>4
        <3> QED BY <3>1, <3>5, FS_Subset
    <2>2. \A i, j \in 1..n : i # j => Ahead(i, j) \/ Ahead(j, i)
        OBVIOUS
    <2> HIDE DEF Ahead, Leaders
    <2> QED BY <2>1, <2>2
<1>4. PICK place : place = [i \in 1..n |-> Cardinality(Leaders(i))]
    OBVIOUS
<1>5. place \in Injection(1..n, 0..n - 1)
    <2> HIDE DEF Leaders
    <2>1. place \in [1..n -> 0..n - 1]
        BY <1>2, <1>4
    <2>2. \A i, j \in 1..n : place[i] = place[j] => i = j
        BY <1>3, <1>4
    <2> QED BY <2>1, <2>2 DEF Injection, IsInjective
<1>6. place \in Surjection(1..n, 0..n - 1)
    <2>1. IsFiniteSet(0..n - 1) /\ Cardinality(0..n - 1) = n
        BY FS_Interval
    <2> QED BY <1>1, <1>5, <2>1, FS_Injection
<1>7. \A k \in 1..n : \E i \in 1..n : place[i] = k - 1
    BY <1>6 DEF Surjection
<1>8. \A k \in 1..n : \E i \in 1..n : Cardinality(Leaders(i)) = k - 1
    BY <1>4, <1>7
<1>9. Descending(keys) = [k \in DOMAIN keys |->
                             CHOOSE i \in DOMAIN keys : Cardinality(Leaders(i)) = k - 1]
    BY DEF Descending
<1>10. DOMAIN keys = 1..n
    OBVIOUS
<1> HIDE DEF Leaders
<1>11. \A k \in DOMAIN keys :
          (CHOOSE i \in DOMAIN keys : Cardinality(Leaders(i)) = k - 1) \in DOMAIN keys
    BY <1>8, <1>10
<1> QED BY <1>9, <1>10, <1>11

(* What is made of each element, as a sequence.                            *)
LEMMA EachList ==
    ASSUME NEW s, Listed(s), NEW S, NEW f \in [DOMAIN s -> S]
    PROVE  /\ SubSeq(f, 1, Len(s)) \in Seq(S)
           /\ SubSeq(f, 1, Len(s)) = f
           /\ DOMAIN s = 1..Len(s)
           /\ Len(s) \in Nat
           /\ ToSet(SubSeq(f, 1, Len(s))) = {f[i] : i \in DOMAIN s}
<1>1. PICK n \in Nat : n = Len(s) /\ DOMAIN s = 1..n
    BY DEF Listed
<1>2. f \in Seq(S) /\ Len(f) = n
    BY <1>1
<1>3. SubSeq(f, 1, n) = f
    BY <1>1, <1>2
<1> QED BY <1>1, <1>2, <1>3 DEF ToSet

(* The model with the greatest key is one of the models.                   *)
LEMMA BestOf ==
    ASSUME NEW models, Listed(models), models # <<>>,
           NEW keys \in [DOMAIN models -> Int]
    PROVE  LET top == TopOf(SubSeq(keys, 1, Len(models)))
           IN  /\ models[top] \in ToSet(models)
               /\ top \in DOMAIN models
               /\ \A i \in DOMAIN models : keys[i] <= keys[top]
<1>1. PICK n \in Nat : n = Len(models) /\ DOMAIN models = 1..n
    BY DEF Listed
<1>2. n # 0
    BY <1>1, SequenceListed DEF Listed
<1>3. SubSeq(keys, 1, Len(models)) = keys
    BY EachList
<1>4. keys \in [1..n -> Int] /\ n \in Nat \ {0}
    BY <1>1, <1>2
<1>5. TopOf(keys) \in 1..n /\ \A i \in 1..n : keys[i] <= keys[TopOf(keys)]
    BY <1>4, TopOfList
<1> QED BY <1>1, <1>3, <1>5 DEF ToSet

(* A part of a list, in any order.                                         *)
Within(s, models) == Listed(s) /\ ToSet(s) \subseteq ToSet(models)

(* What lists part of a list is within it: some of it,                     *)
LEMMA WithinOnly ==
    ASSUME NEW models, NEW s, Within(s, models), NEW wanted
    PROVE  Within(Only(s, wanted), models)
BY OnlyListed DEF Within

(* nothing,                                                                *)
LEMMA WithinEmpty ==
    ASSUME NEW models
    PROVE  Within(<<>>, models)
BY DEF Within, Listed, ToSet

(* two parts one after the other,                                          *)
LEMMA WithinConcat ==
    ASSUME NEW models, NEW s, NEW t, Within(s, models), Within(t, models)
    PROVE  Within(s \o t, models)
<1>1. PICK S : S = ToSet(models)
    OBVIOUS
<1>2. s \in Seq(S) /\ t \in Seq(S)
    BY <1>1 DEF Within, Listed
<1>3. s \o t \in Seq(S)
    BY <1>2
<1>4. PICK u : u = s \o t
    OBVIOUS
<1>5. Listed(u) /\ ToSet(u) \subseteq S
    BY <1>3, <1>4, SequenceListed
<1> QED BY <1>1, <1>4, <1>5 DEF Within

(* the first few of a part.                                                *)
LEMMA WithinFirst ==
    ASSUME NEW models, NEW s, Within(s, models), NEW n \in Nat
    PROVE  Within(FirstOf(s, n), models)
<1>1. PICK S, l : S = ToSet(models) /\ l = Len(s)
    OBVIOUS
<1>2. s \in Seq(S) /\ l \in Nat
    BY <1>1 DEF Within, Listed
<1>3. PICK m : m = Min({n, l})
    OBVIOUS
<1>4. m \in Nat /\ m <= l
    <2>1. n \in Int /\ l \in Int
        BY <1>2
    <2>2. m = IF n <= l THEN n ELSE l
        BY <1>3, <2>1, PairBounds
    <2> QED BY <1>2, <2>2
<1>5. PICK t : t = SubSeq(s, 1, m)
    OBVIOUS
<1>6. t \in Seq(S)
    BY <1>1, <1>2, <1>4, <1>5
<1>7. Listed(t) /\ ToSet(t) \subseteq S
    BY <1>6, SequenceListed
<1>8. FirstOf(s, n) = t
    BY <1>1, <1>3, <1>5 DEF FirstOf
<1> QED BY <1>1, <1>7, <1>8 DEF Within

(* Sorting leaves the elements of a list.                                  *)
LEMMA WithinSorted ==
    ASSUME NEW models, NEW s, Within(s, models), NEW keys \in [DOMAIN s -> Int],
           NEW order, order = Descending(SubSeq(keys, 1, Len(s)))
    PROVE  Within(SubSeq([i \in DOMAIN order |-> s[order[i]]], 1, Len(order)), models)
<1>1. PICK n \in Nat : n = Len(s) /\ DOMAIN s = 1..n
    BY DEF Within, Listed
<1>2. SubSeq(keys, 1, Len(s)) = keys
    BY EachList DEF Within
<1>3. keys \in [1..n -> Int]
    BY <1>1
<1>4. order \in [1..n -> 1..n]
    BY <1>2, <1>3, DescendingList
<1>5. PICK S, t : S = ToSet(models) /\ t = [i \in DOMAIN order |-> s[order[i]]]
    OBVIOUS
<1>6. t \in [1..n -> S]
    BY <1>1, <1>4, <1>5 DEF Within, ToSet
<1>7. t \in Seq(S) /\ Len(order) = n /\ Len(t) = n
    BY <1>4, <1>6
<1>8. SubSeq(t, 1, n) = t
    BY <1>7
<1>9. Listed(t) /\ ToSet(t) \subseteq S
    BY <1>7, SequenceListed
<1> QED BY <1>5, <1>7, <1>8, <1>9 DEF Within

-----------------------------------------------------------------------------
(* Models: those of the catalogue, with the qualities and scores the       *)
(* engine writes into its copies of them.                                  *)

Alike(m, k) ==
    /\ ModelFields \subseteq DOMAIN m
    /\ m.id = k.id /\ m.provider = k.provider /\ m.tier = k.tier
    /\ m.in = k.in /\ m.out = k.out /\ m.maxOut = k.maxOut
    /\ m.latency = k.latency /\ m.window = k.window
    /\ m.ratings = k.ratings /\ m.steps = k.steps
    /\ m.adjusted \in Int /\ m.score \in Int
Sound(m) == \E k \in ToSet(Catalog) : Alike(m, k)
Pool(models) == Listed(models) /\ \A m \in ToSet(models) : Sound(m)

(* The tiers and their ranks name one another.                             *)
LEMMA TiersRanked ==
    \A t \in ToSet(Tiers) : Rank[t] \in 1..4 /\ Tiers[Rank[t]] = t
BY DEF ToSet, Tiers, Rank

(* What a model of the catalogue, scored or not, holds.                    *)
LEMMA SoundFields ==
    ASSUME NEW m, Sound(m)
    PROVE  /\ m.tier \in ToSet(Tiers) /\ Rank[m.tier] \in 1..4
           /\ Tiers[Rank[m.tier]] = m.tier
           /\ m.in \in Int /\ m.out \in Int /\ m.maxOut \in Int
           /\ m.latency \in Int /\ m.window \in Int
           /\ m.adjusted \in Int /\ m.score \in Int
           /\ Price(m) \in Int
<1>1. PICK k \in ToSet(Catalog) : Alike(m, k)
    BY DEF Sound
<1>2. /\ k.tier \in ToSet(Tiers)
      /\ {k.in, k.out, k.latency, k.window, k.maxOut, k.adjusted, k.score} \subseteq Int
    BY CatalogAssumption
<1>3. /\ m.tier = k.tier /\ m.in = k.in /\ m.out = k.out /\ m.maxOut = k.maxOut
      /\ m.latency = k.latency /\ m.window = k.window
      /\ m.adjusted \in Int /\ m.score \in Int
    BY <1>1 DEF Alike
<1>4. m.tier \in ToSet(Tiers) /\ m.in \in Int /\ m.out \in Int /\ m.maxOut \in Int
      /\ m.latency \in Int /\ m.window \in Int
    BY <1>2, <1>3
<1>5. Price(m) \in Int
    BY <1>4 DEF Price
<1> QED BY <1>3, <1>4, <1>5, TiersRanked

(* The quality a task gets of a model is a number, rated or not.           *)
LEMMA QualityInt ==
    ASSUME NEW m, Sound(m), NEW a
    PROVE  ResolveQuality(a, m) \in Int
<1>1. PICK k \in ToSet(Catalog) : Alike(m, k)
    BY DEF Sound
<1>2. /\ \A task \in DOMAIN k.ratings : k.ratings[task] \in Int
      /\ \A step \in DOMAIN k.steps : k.steps[step] \in Int
    BY CatalogAssumption
<1>3. m.ratings = k.ratings /\ m.steps = k.steps
    BY <1>1 DEF Alike
<1>4. PICK ratings, steps : ratings = k.ratings /\ steps = k.steps
    OBVIOUS
<1>5. ResolveQuality(a, m) = IF a.step \in DOMAIN steps \ {"unknown"} THEN steps[a.step]
                             ELSE IF a.task \in DOMAIN ratings THEN ratings[a.task]
                             ELSE IF "general" \in DOMAIN ratings THEN ratings["general"] ELSE 50
    BY <1>3, <1>4 DEF ResolveQuality
<1> QED BY <1>2, <1>4, <1>5

(* The catalogue is a pool.                                                *)
LEMMA CatalogPool ==
    Pool(Catalog)
<1>1. ASSUME NEW m \in ToSet(Catalog) PROVE Alike(m, m)
    BY CatalogAssumption DEF Alike
<1> QED BY <1>1, CatalogAssumption DEF Pool, Listed, Sound

(* An id names the model of the catalogue it is of.                        *)
LEMMA NamedIs ==
    ASSUME NEW m, Sound(m)
    PROVE  Named(m.id) \in ToSet(Catalog) /\ Alike(m, Named(m.id))
<1>1. PICK k \in ToSet(Catalog) : Alike(m, k)
    BY DEF Sound
<1>2. PICK those : those = Only(Catalog, {e \in ToSet(Catalog) : e.id = m.id})
    OBVIOUS
<1>3. /\ Listed(those)
      /\ ToSet(those) = ToSet(Catalog) \cap {e \in ToSet(Catalog) : e.id = m.id}
    BY <1>2, CatalogPool, OnlyListed DEF Pool
<1>4. k.id = m.id
    BY <1>1 DEF Alike
<1>5. ToSet(those) = {k}
    BY <1>1, <1>3, <1>4, CatalogAssumption
<1>6. those[1] \in ToSet(those)
    BY <1>3, <1>5, SequenceListed DEF Listed
<1>7. Named(m.id) = those[1]
    BY <1>2 DEF Named, Where
<1> QED BY <1>1, <1>5, <1>6, <1>7

(* Costs are numbers, and those of the model named.                        *)
LEMMA CostInt ==
    ASSUME NEW m, Sound(m), NEW a, a.input \in Int, a.billing \in Int
    PROVE  /\ EstimateCost(a, m) \in Int
           /\ EstimateCost(a, m) = EstimateCost(a, Named(m.id))
<1>1. m.in \in Int /\ m.out \in Int /\ m.maxOut \in Int
    BY SoundFields
<1>2. PICK x : x = Min({a.billing, m.maxOut})
    OBVIOUS
<1>3. x \in Int
    BY <1>1, <1>2, PairBounds
<1>4. \A u, v \in Int : u * v \in Int
    OBVIOUS
<1>5. PICK p, q : p = a.input * m.in /\ q = x * m.out
    OBVIOUS
<1>6. p \in Int /\ q \in Int
    BY <1>1, <1>3, <1>4, <1>5
<1>7. EstimateCost(a, m) = p + q
    BY <1>2, <1>5 DEF EstimateCost
<1>8. m.in = Named(m.id).in /\ m.out = Named(m.id).out /\ m.maxOut = Named(m.id).maxOut
    BY NamedIs DEF Alike
<1>9. EstimateCost(a, m) = EstimateCost(a, Named(m.id))
    BY <1>8 DEF EstimateCost
<1> QED BY <1>6, <1>7, <1>9

-----------------------------------------------------------------------------
(* Choosing: each way of picking a model picks one of those it is given.   *)

(* Some models of a pool are a pool: those asked for.                      *)
LEMMA PoolOnly ==
    ASSUME NEW models, Pool(models), NEW wanted
    PROVE  /\ Pool(Only(models, wanted))
           /\ ToSet(Only(models, wanted)) = ToSet(models) \cap wanted
           /\ Only(models, wanted) = <<>> <=> ToSet(models) \cap wanted = {}
BY OnlyListed DEF Pool

(* A pool lists sound models, and lists each of its set.                   *)
LEMMA PoolFields ==
    ASSUME NEW models, Pool(models)
    PROVE  /\ models = <<>> <=> ToSet(models) = {}
           /\ DOMAIN models = 1..Len(models) /\ Len(models) \in Nat
           /\ \A i \in DOMAIN models : models[i] \in ToSet(models) /\ Sound(models[i])
           /\ \A m \in ToSet(models) : \E i \in DOMAIN models : m = models[i]
<1>1. models \in Seq(ToSet(models))
    BY DEF Pool, Listed
<1>2. Len(models) \in Nat /\ DOMAIN models = 1..Len(models)
    BY <1>1
<1>3. \A i \in DOMAIN models : models[i] \in ToSet(models)
    BY DEF ToSet
<1> QED BY <1>1, <1>2, <1>3, SequenceListed DEF Pool, ToSet

(* Each way to pick from a pool picks one of it: the best rated,           *)
LEMMA PickBestOf ==
    ASSUME NEW models, Pool(models), models # <<>>, NEW a
    PROVE  PickBest(models, a) \in ToSet(models)
<1>1. \A i \in DOMAIN models : ResolveQuality(a, models[i]) \in Int /\ Price(models[i]) \in Int
    BY PoolFields, QualityInt, SoundFields
<1>2. PICK keys :
        keys = [i \in DOMAIN models |-> 10000 * ResolveQuality(a, models[i]) - Price(models[i])]
    OBVIOUS
<1>3. keys \in [DOMAIN models -> Int]
    BY <1>1, <1>2
<1>4. PickBest(models, a) = models[TopOf(SubSeq(keys, 1, Len(models)))]
    BY <1>2 DEF PickBest, Best, Each
<1> QED BY <1>3, <1>4, BestOf DEF Pool

(* The cheapest of the models.                                             *)
LEMMA CheapestOf ==
    ASSUME NEW models, Pool(models), models # <<>>,
           NEW a, a.input \in Int, a.billing \in Int
    PROVE  LET least == Best(models, LAMBDA m : -EstimateCost(a, m))
           IN  /\ least \in ToSet(models)
               /\ \A m \in ToSet(models) : EstimateCost(a, least) <= EstimateCost(a, m)
<1>1. \A i \in DOMAIN models : EstimateCost(a, models[i]) \in Int
    BY PoolFields, CostInt
<1>2. PICK keys : keys = [i \in DOMAIN models |-> -EstimateCost(a, models[i])]
    OBVIOUS
<1>3. keys \in [DOMAIN models -> Int]
    BY <1>1, <1>2
<1>4. PICK top : top = TopOf(SubSeq(keys, 1, Len(models)))
    OBVIOUS
<1>5. top \in DOMAIN models /\ \A i \in DOMAIN models : keys[i] <= keys[top]
    BY <1>3, <1>4, BestOf DEF Pool
<1>6. PICK least : least = Best(models, LAMBDA m : -EstimateCost(a, m))
    OBVIOUS
<1>7. least = models[top]
    BY <1>2, <1>4, <1>6 DEF Best, Each
<1>8. \A i \in DOMAIN models : EstimateCost(a, least) <= EstimateCost(a, models[i])
    BY <1>1, <1>2, <1>5, <1>7
<1>9. least \in ToSet(models) /\ \A m \in ToSet(models) : EstimateCost(a, least) <= EstimateCost(a, m)
    BY <1>5, <1>7, <1>8, PoolFields
<1> QED BY <1>6, <1>9

(* The leader of those already scored or adjusted.                         *)
LEMMA AdjustedBestOf ==
    ASSUME NEW models, Pool(models), models # <<>>
    PROVE  Best(models, LAMBDA m : m.adjusted) \in ToSet(models)
<1>1. PICK keys : keys = [i \in DOMAIN models |-> models[i].adjusted]
    OBVIOUS
<1>2. keys \in [DOMAIN models -> Int]
    BY <1>1, PoolFields, SoundFields
<1>3. Best(models, LAMBDA m : m.adjusted) = models[TopOf(SubSeq(keys, 1, Len(models)))]
    BY <1>1 DEF Best, Each
<1> QED BY <1>2, <1>3, BestOf DEF Pool

(* the one of the best score,                                              *)
LEMMA ScoredBestOf ==
    ASSUME NEW models, Pool(models), models # <<>>
    PROVE  Best(models, LAMBDA m : m.score) \in ToSet(models)
<1>1. PICK keys : keys = [i \in DOMAIN models |-> models[i].score]
    OBVIOUS
<1>2. keys \in [DOMAIN models -> Int]
    BY <1>1, PoolFields, SoundFields
<1>3. Best(models, LAMBDA m : m.score) = models[TopOf(SubSeq(keys, 1, Len(models)))]
    BY <1>1 DEF Best, Each
<1> QED BY <1>2, <1>3, BestOf DEF Pool

(* the one of the highest quality,                                         *)
LEMMA QualityMaxOf ==
    ASSUME NEW models, Pool(models), models # <<>>, NEW a
    PROVE  QualityMax(models, a) \in ToSet(models)
<1>1. \A i \in DOMAIN models : ResolveQuality(a, models[i]) \in Int /\ Price(models[i]) \in Int
                               /\ Rank[models[i].tier] \in 1..4
    <2> TAKE i \in DOMAIN models
    <2>1. Sound(models[i])
        BY PoolFields
    <2> QED BY <2>1, QualityInt, SoundFields
<1> DEFINE keys == [i \in DOMAIN models |-> 100000 * ResolveQuality(a, models[i])
                                            + 10000 * Rank[models[i].tier] - Price(models[i])]
<1>3. keys \in [DOMAIN models -> Int]
    BY <1>1
<1>4. QualityMax(models, a) = models[TopOf(SubSeq(keys, 1, Len(models)))]
    BY DEF QualityMax, Best, Each
<1> HIDE DEF keys
<1> QED BY <1>3, <1>4, BestOf DEF Pool

(* Those of one tier.                                                      *)
LEMMA TierOfPool ==
    ASSUME NEW models, Pool(models), NEW tier
    PROVE  /\ Pool(TierOf(models, tier))
           /\ ToSet(TierOf(models, tier)) = {m \in ToSet(models) : m.tier = tier}
           /\ TierOf(models, tier) = <<>> <=> \A m \in ToSet(models) : m.tier # tier
<1>1. PICK W : W = {m \in ToSet(models) : m.tier = tier}
    OBVIOUS
<1>2. TierOf(models, tier) = Only(models, W)
    BY <1>1 DEF TierOf, Where
<1>3. ToSet(models) \cap W = W
    BY <1>1
<1>4. Pool(Only(models, W)) /\ ToSet(Only(models, W)) = W /\ (Only(models, W) = <<>> <=> W = {})
    BY <1>3, PoolOnly
<1> QED BY <1>1, <1>2, <1>4

(* There are models of the greatest and of the least tier of a pool.       *)
LEMMA ExtremeTiers ==
    ASSUME NEW models, Pool(models), models # <<>>
    PROVE  LET ranks == {Rank[models[i].tier] : i \in DOMAIN models}
           IN  /\ TierOf(models, Tiers[Max(ranks)]) # <<>>
               /\ TierOf(models, Tiers[Min(ranks)]) # <<>>
<1>1. PICK n \in Nat : n = Len(models) /\ DOMAIN models = 1..n
    BY PoolFields
<1>2. PICK ranked : ranked = [i \in 1..n |-> Rank[models[i].tier]]
    OBVIOUS
<1>3. PICK ranks : ranks = {Rank[models[i].tier] : i \in DOMAIN models}
    OBVIOUS
<1>4. ranks = {ranked[i] : i \in 1..n}
    BY <1>1, <1>2, <1>3
<1>5. IsFiniteSet(ranks)
    BY <1>4, ValuesFinite
<1>10. \A i \in DOMAIN models : Rank[models[i].tier] \in 1..4
    <2> TAKE i \in DOMAIN models
    <2>1. Sound(models[i])
        BY PoolFields
    <2> QED BY <2>1, SoundFields
<1>11. \E i \in DOMAIN models : TRUE
    BY PoolFields
<1>6. ranks \subseteq Int /\ ranks # {}
    BY <1>3, <1>10, <1>11
<1>7. \A r \in ranks : \E m \in ToSet(models) : m.tier = Tiers[r]
    BY <1>3, PoolFields, SoundFields
<1>8. \A r \in ranks : TierOf(models, Tiers[r]) # <<>>
    BY <1>7, TierOfPool
<1>9. Max(ranks) \in ranks /\ Min(ranks) \in ranks
    BY <1>5, <1>6, IntBounds
<1> QED BY <1>3, <1>8, <1>9

(* a premium one,                                                          *)
LEMMA AlwaysPremiumOf ==
    ASSUME NEW models, Pool(models), models # <<>>, NEW a
    PROVE  AlwaysPremium(models, a) \in ToSet(models)
<1>1. PICK those : those = TierOf(models, Tiers[Max({Rank[models[i].tier] : i \in DOMAIN models})])
    OBVIOUS
<1>2. those # <<>> /\ Pool(those) /\ ToSet(those) \subseteq ToSet(models)
    BY <1>1, ExtremeTiers, TierOfPool
<1>3. AlwaysPremium(models, a) = PickBest(those, a)
    BY <1>1 DEF AlwaysPremium
<1> QED BY <1>2, <1>3, PickBestOf

(* the lowest one that is good enough.                                     *)
LEMMA CascadeInitialOf ==
    ASSUME NEW models, Pool(models), models # <<>>, NEW a
    PROVE  CascadeInitial(models, a) \in ToSet(models)
<1>1. PICK good :
        good = Only(models, {m \in ToSet(models) : ResolveQuality(a, m) >= QualityFloor(a)})
    OBVIOUS
<1>2. Pool(good) /\ ToSet(good) \subseteq ToSet(models)
    BY <1>1, PoolOnly
<1>3. PICK those : those = TierOf(good, Tiers[Min({Rank[good[i].tier] : i \in DOMAIN good})])
    OBVIOUS
<1>4. CascadeInitial(models, a) = PickBest(IF good = <<>> THEN models ELSE those, a)
    BY <1>1, <1>3 DEF CascadeInitial, Where
<1>5. CASE good = <<>>
    BY <1>4, <1>5, PickBestOf
<1>6. CASE good # <<>>
    <2>1. those # <<>> /\ Pool(those) /\ ToSet(those) \subseteq ToSet(good)
        BY <1>2, <1>3, <1>6, ExtremeTiers, TierOfPool
    <2>2. PickBest(those, a) \in ToSet(those)
        BY <2>1, PickBestOf
    <2> QED BY <1>2, <1>4, <1>6, <2>1, <2>2
<1> QED BY <1>5, <1>6

(* A model and what is said of the budget are true of the pool: a model    *)
(* that is said to exhaust it is the cheapest there is, any other fits.    *)
Affordable(afforded, models, a, room) ==
    /\ afforded.model \in ToSet(models)
    /\ afforded.exhausted =>
         \A m \in ToSet(models) : EstimateCost(a, afforded.model) <= EstimateCost(a, m)
    /\ ~afforded.exhausted => EstimateCost(a, afforded.model) <= room

(* The walk down the tiers ends at a model that fits, or says that the     *)
(* cheapest of all does not (_budget_tier_walkdown).                       *)
LEMMA TierWalkdownOf ==
    ASSUME NEW models, Pool(models), models # <<>>, NEW chosen \in ToSet(models),
           NEW a, a.input \in Int, a.billing \in Int, NEW room
    PROVE  Affordable(TierWalkdown(chosen, models, a, room), models, a, room)
<1> DEFINE Leader(t) == Best(TierOf(models, Tiers[t]), LAMBDA m : m.adjusted)
           lower == {t \in 1 .. Rank[chosen.tier] - 1 : TierOf(models, Tiers[t]) # <<>>}
           fits == {t \in lower : EstimateCost(a, Leader(t)) <= room}
           least == Best(models, LAMBDA m : -EstimateCost(a, m))
<1>1. \A t \in lower : Leader(t) \in ToSet(models)
    <2> TAKE t \in lower
    <2>1. PICK those : those = TierOf(models, Tiers[t])
        OBVIOUS
    <2>2. those # <<>> /\ Pool(those) /\ ToSet(those) \subseteq ToSet(models)
        BY <2>1, TierOfPool
    <2>3. Best(those, LAMBDA m : m.adjusted) \in ToSet(those)
        BY <2>2, AdjustedBestOf
    <2> QED BY <2>1, <2>2, <2>3
<1>2. TierWalkdown(chosen, models, a, room) =
        IF fits = {} THEN [model |-> least, exhausted |-> TRUE]
        ELSE [model |-> Leader(Max(fits)), exhausted |-> FALSE]
    BY DEF TierWalkdown
<1>3. /\ least \in ToSet(models)
      /\ \A m \in ToSet(models) : EstimateCost(a, least) <= EstimateCost(a, m)
    BY CheapestOf
<1>4. Rank[chosen.tier] \in 1..4
    BY SoundFields DEF Pool
<1> HIDE DEF Leader, least
<1>5. /\ fits \subseteq lower /\ fits \subseteq 1 .. Rank[chosen.tier] - 1
      /\ \A t \in fits : EstimateCost(a, Leader(t)) <= room
    OBVIOUS
<1> HIDE DEF lower, fits
<1>6. fits # {} => Max(fits) \in fits
    <2>1. PICK n \in Int : n = Rank[chosen.tier] - 1
        BY <1>4
    <2>2. IsFiniteSet(1..n)
        BY FS_Interval
    <2>3. IsFiniteSet(fits) /\ fits \subseteq Int
        BY <1>5, <2>1, <2>2, FS_Subset
    <2> QED BY <2>3, IntBounds
<1>7. CASE fits = {}
    BY <1>2, <1>3, <1>7 DEF Affordable
<1>8. CASE fits # {}
    <2>1. Max(fits) \in fits /\ Max(fits) \in lower
        BY <1>5, <1>6, <1>8
    <2>2. Leader(Max(fits)) \in ToSet(models) /\ EstimateCost(a, Leader(Max(fits))) <= room
        BY <1>1, <1>5, <2>1
    <2> QED BY <1>2, <1>8, <2>2 DEF Affordable
<1> QED BY <1>7, <1>8

(* So does the budget check before it, which keeps a model that fits.      *)
LEMMA AffordedOf ==
    ASSUME NEW models, Pool(models), models # <<>>, NEW chosen \in ToSet(models),
           NEW a, a.input \in Int, a.billing \in Int, NEW room
    PROVE  Affordable(Afforded(chosen, models, a, room), models, a, room)
<1>1. CASE EstimateCost(a, chosen) <= room
    BY <1>1 DEF Afforded, Affordable
<1>2. CASE ~(EstimateCost(a, chosen) <= room)
    BY <1>2, TierWalkdownOf DEF Afforded
<1> QED BY <1>1, <1>2

-----------------------------------------------------------------------------
(* The chains lead only to models of the list they are made of.            *)

(* A list within a pool is a pool.                                         *)
LEMMA WithinPool ==
    ASSUME NEW models, Pool(models), NEW s, Within(s, models)
    PROVE  Pool(s)
BY DEF Pool, Within

(* A tier of a list, and all but some, are within what the list is within. *)
LEMMA WithinTier ==
    ASSUME NEW models, Pool(models), NEW s, Within(s, models), NEW tier, NEW ids
    PROVE  Within(TierOf(s, tier), models) /\ Within(Others(s, ids), models)
<1>1. TierOf(s, tier) = Only(s, {m \in ToSet(s) : m.tier = tier})
    BY DEF TierOf, Where
<1>2. Others(s, ids) = Only(s, {m \in ToSet(s) : m.id \notin ids})
    BY DEF Others, Where
<1> QED BY <1>1, <1>2, WithinOnly

(* The ways the engine sorts.                                              *)
LEMMA SortsWithin ==
    ASSUME NEW models, Pool(models), NEW s, Within(s, models)
    PROVE  /\ Within(Sorted(s, Ranking), models)
           /\ Within(Sorted(s, LAMBDA m : -Price(m)), models)
           /\ Within(Sorted(s, LAMBDA m : 1000 * Rank[m.tier] + m.adjusted), models)
           /\ Within(Sorted(s, LAMBDA m : m.adjusted), models)
           /\ Within(Sorted(s, LAMBDA m : -m.latency), models)
<1> DEFINE Arranged(keys) ==
        LET order == Descending(SubSeq(keys, 1, Len(s)))
        IN  SubSeq([i \in DOMAIN order |-> s[order[i]]], 1, Len(order))
           ranking == [i \in DOMAIN s |-> 1000 * s[i].score + s[i].adjusted]
           price == [i \in DOMAIN s |-> -Price(s[i])]
           tier == [i \in DOMAIN s |-> 1000 * Rank[s[i].tier] + s[i].adjusted]
           quality == [i \in DOMAIN s |-> s[i].adjusted]
           latency == [i \in DOMAIN s |-> -s[i].latency]
<1>1. ASSUME NEW i \in DOMAIN s
      PROVE  /\ s[i].score \in Int /\ s[i].adjusted \in Int /\ s[i].latency \in Int
             /\ Price(s[i]) \in Int /\ Rank[s[i].tier] \in Int
    <2>1. Sound(s[i])
        BY WithinPool, PoolFields
    <2> QED BY <2>1, SoundFields
<1>2. /\ ranking \in [DOMAIN s -> Int] /\ price \in [DOMAIN s -> Int]
      /\ tier \in [DOMAIN s -> Int] /\ quality \in [DOMAIN s -> Int]
      /\ latency \in [DOMAIN s -> Int]
    BY <1>1
<1>3. /\ Sorted(s, Ranking) = Arranged(ranking)
      /\ Sorted(s, LAMBDA m : -Price(m)) = Arranged(price)
      /\ Sorted(s, LAMBDA m : 1000 * Rank[m.tier] + m.adjusted) = Arranged(tier)
      /\ Sorted(s, LAMBDA m : m.adjusted) = Arranged(quality)
      /\ Sorted(s, LAMBDA m : -m.latency) = Arranged(latency)
    BY DEF Sorted, Each, Ranking
<1>4. ASSUME NEW keys \in [DOMAIN s -> Int] PROVE Within(Arranged(keys), models)
    BY WithinSorted
<1> HIDE DEF Arranged, ranking, price, tier, quality, latency
<1> QED BY <1>2, <1>3, <1>4

(* The generic chain is made of the candidates (build_fallback_chain).     *)
LEMMA FallbackWithin ==
    ASSUME NEW models, Pool(models), NEW chosen
    PROVE  Within(BuildFallbackChain(chosen, models), models)
<1>1. Within(models, models)
    BY DEF Within, Pool
<1>2. PICK tiermates : tiermates = TierOf(Others(models, {chosen.id}), chosen.tier)
    OBVIOUS
<1>3. PICK sorted1 : sorted1 = Sorted(tiermates, Ranking)
    OBVIOUS
<1>4. PICK same : same = FirstOf(sorted1, 1)
    OBVIOUS
<1>5. Within(tiermates, models) /\ Within(sorted1, models) /\ Within(same, models)
    BY <1>1, <1>2, <1>3, <1>4, WithinTier, SortsWithin, WithinFirst
<1>6. PICK rest1 : rest1 = Others(models, {chosen.id} \cup IdsOf(same))
    OBVIOUS
<1>7. PICK above : above = TierOf(rest1, Up(chosen))
    OBVIOUS
<1>8. PICK sorted2 : sorted2 = Sorted(above, LAMBDA m : -Price(m))
    OBVIOUS
<1>9. PICK up : up = IF chosen.tier = "premium" THEN <<>> ELSE FirstOf(sorted2, 1)
    OBVIOUS
<1>10. Within(rest1, models) /\ Within(above, models) /\ Within(sorted2, models) /\ Within(up, models)
    BY <1>1, <1>6, <1>7, <1>8, <1>9, WithinTier, SortsWithin, WithinFirst, WithinEmpty
<1>11. PICK rest2 : rest2 = Others(rest1, IdsOf(up))
    OBVIOUS
<1>12. PICK sorted3 : sorted3 = Sorted(rest2, LAMBDA m : 1000 * Rank[m.tier] + m.adjusted)
    OBVIOUS
<1>13. PICK safe : safe = FirstOf(sorted3, 1)
    OBVIOUS
<1>14. Within(rest2, models) /\ Within(sorted3, models) /\ Within(safe, models)
    BY <1>10, <1>11, <1>12, <1>13, WithinTier, SortsWithin, WithinFirst
<1>15. Within(same \o up \o safe, models)
    BY <1>5, <1>10, <1>14, WithinConcat
<1>16. BuildFallbackChain(chosen, models) = FirstOf(same \o up \o safe, MaxChain)
    BY <1>2, <1>3, <1>4, <1>6, <1>7, <1>8, <1>9, <1>11, <1>12, <1>13 DEF BuildFallbackChain
<1> QED BY <1>15, <1>16, WithinFirst, RoutingAssumption

(* So are the chains for rate limits, refusals and timeouts                *)
(* (build_typed_fallback_chains).                                          *)
LEMMA TypedWithin ==
    ASSUME NEW models, Pool(models), NEW chosen
    PROVE  LET typed == BuildTypedFallbackChains(chosen, models)
           IN  /\ Within(typed.rateLimit, models)
               /\ Within(typed.safety, models)
               /\ Within(typed.timeout, models)
<1>1. Within(models, models)
    BY DEF Within, Pool
<1>2. PICK others : others = Others(models, {chosen.id})
    OBVIOUS
<1>3. Within(others, models)
    BY <1>1, <1>2, WithinTier
<1> DEFINE Tier(t) == IF t > Rank[chosen.tier]
                      THEN Sorted(TierOf(others, Tiers[t]), LAMBDA m : m.adjusted) ELSE <<>>
<1>4. ASSUME NEW t PROVE Within(Tier(t), models)
    <2>1. PICK those : those = TierOf(others, Tiers[t])
        OBVIOUS
    <2>2. Within(those, models)
        BY <1>3, <2>1, WithinTier
    <2>3. PICK sorted : sorted = Sorted(those, LAMBDA m : m.adjusted)
        OBVIOUS
    <2>4. Within(sorted, models)
        BY <2>2, <2>3, SortsWithin
    <2> QED BY <2>1, <2>3, <2>4, WithinEmpty
<1>5. PICK peers : peers = TierOf(others, chosen.tier)
    OBVIOUS
<1>6. PICK limited, quick : /\ limited = Sorted(peers, Ranking)
                            /\ quick = Sorted(others, LAMBDA m : -m.latency)
    OBVIOUS
<1>7. Within(peers, models) /\ Within(limited, models) /\ Within(quick, models)
    BY <1>3, <1>5, <1>6, WithinTier, SortsWithin
<1>8. PICK safer : safer = Tier(2) \o Tier(3) \o Tier(4)
    OBVIOUS
<1>9. Within(safer, models)
    <2> HIDE DEF Tier
    <2> QED BY <1>4, <1>8, WithinConcat
<1>10. BuildTypedFallbackChains(chosen, models) =
        [rateLimit |-> FirstOf(limited, MaxChain), safety |-> FirstOf(safer, MaxChain),
         timeout |-> FirstOf(quick, MaxChain)]
    BY <1>2, <1>5, <1>6, <1>8 DEF BuildTypedFallbackChains
<1> HIDE DEF Tier
<1>11. /\ Within(FirstOf(limited, MaxChain), models) /\ Within(FirstOf(safer, MaxChain), models)
       /\ Within(FirstOf(quick, MaxChain), models)
    BY <1>7, <1>9, WithinFirst, RoutingAssumption
<1> QED BY <1>10, <1>11

(* The ids of a chain are those of candidates.                             *)
LEMMA IdsWithin ==
    ASSUME NEW models, Pool(models), NEW s, Within(s, models)
    PROVE  ToSet(Ids(s)) \subseteq IdsOf(models)
<1>1. PICK ids : ids = [i \in DOMAIN s |-> s[i].id]
    OBVIOUS
<1>2. PICK S : S = IdsOf(models)
    OBVIOUS
<1>3. \A m \in ToSet(models) : m.id \in S
    BY <1>2, PoolFields DEF IdsOf
<1>4. \A i \in DOMAIN s : s[i].id \in S
    BY <1>3 DEF Within, ToSet
<1>5. ids \in [DOMAIN s -> S]
    BY <1>1, <1>4
<1>6. Ids(s) = SubSeq(ids, 1, Len(s))
    BY <1>1 DEF Ids, Each
<1>7. ToSet(Ids(s)) = {ids[i] : i \in DOMAIN s}
    BY <1>5, <1>6, EachList DEF Within
<1> QED BY <1>2, <1>5, <1>7

-----------------------------------------------------------------------------
(* The score is a number.                                                  *)

(* What scores are made of is numbers: a cost brought to the scale of its  *)
(* list,                                                                   *)
LEMMA NormalizedInt ==
    ASSUME NEW T, T \subseteq Int, IsFiniteSet(T), T # {}, NEW x \in Int
    PROVE  Normalized(x, T) \in Int
<1>1. Max(T) \in Int /\ Min(T) \in Int /\ Min(T) <= Max(T)
    BY IntBounds
<1>2. PICK p, q : p = 100 * (x - Min(T)) /\ q = Max(T) - Min(T)
    OBVIOUS
<1>3. p \in Int /\ q \in Nat /\ (Max(T) # Min(T) => q \in Nat \ {0})
    BY <1>1, <1>2
<1>4. \A u \in Int, v \in Nat \ {0} : u \div v \in Int
    OBVIOUS
<1>5. Normalized(x, T) = IF Max(T) = Min(T) THEN 50 ELSE p \div q
    BY <1>2 DEF Normalized
<1> QED BY <1>3, <1>4, <1>5

(* the weights of a priority,                                              *)
LEMMA WeightsInt ==
    ASSUME NEW request, request.priority \in {"low", "normal", "high", "critical"}
    PROVE  LET w == Weights(request)
           IN  w.quality \in Int /\ w.cost \in Int /\ w.latency \in Int
<1>1. PICK mode : mode = IF request.routing \in {"quality-first", "cost-optimized"}
                         THEN request.routing ELSE request.priority
    OBVIOUS
<1>2. mode \in {"quality-first", "cost-optimized", "low", "normal", "high", "critical"}
    BY <1>1
<1>3. PICK w : w = Weights(request)
    OBVIOUS
<1>4. /\ mode = "quality-first" => w = [quality |-> 70, cost |-> 20, latency |-> 10]
      /\ mode = "cost-optimized" => w = [quality |-> 30, cost |-> 60, latency |-> 10]
      /\ mode = "low" => w = [quality |-> 70, cost |-> 25, latency |-> 5]
      /\ mode = "normal" => w = [quality |-> 50, cost |-> 30, latency |-> 20]
      /\ mode = "high" => w = [quality |-> 45, cost |-> 20, latency |-> 35]
      /\ mode = "critical" => w = [quality |-> 55, cost |-> 10, latency |-> 35]
    BY <1>1, <1>3 DEF Weights
<1> QED BY <1>2, <1>3, <1>4

(* the penalty of a tight context,                                         *)
LEMMA PenaltyInt ==
    ASSUME NEW m, Sound(m), NEW a, a.input \in Int
    PROVE  ContextPenalty(a, m) \in Int
<1>1. PICK window \in Int : window = m.window
    BY SoundFields
<1>2. PICK top : top = Max({window, 1})
    OBVIOUS
<1>3. top \in Nat \ {0}
    <2>1. top = IF window >= 1 THEN window ELSE 1
        BY <1>2, PairBounds
    <2> QED BY <2>1
<1>4. PICK ratio : ratio = (100 * a.input) \div top
    OBVIOUS
<1>5. ratio \in Int
    <2>1. \A u \in Int, v \in Nat \ {0} : u \div v \in Int
        OBVIOUS
    <2> QED BY <1>3, <1>4, <2>1
<1>6. ContextPenalty(a, m) = CASE ratio >= 50 -> (ratio - 50) * 40
                               [] ratio > 30 /\ ratio < 50 -> (ratio - 30) * 15
                               [] OTHER -> 0
    BY <1>1, <1>2, <1>4 DEF ContextPenalty
<1> QED BY <1>5, <1>6

(* and so the score.                                                       *)
LEMMA ScoreInt ==
    ASSUME NEW models, Pool(models), models # <<>>, NEW m, Sound(m),
           NEW request, request.priority \in {"low", "normal", "high", "critical"},
           NEW a, a.input \in Int
    PROVE  Score(m, models, request, a) \in Int
<1>1. PICK n \in Nat : DOMAIN models = 1..n
    BY PoolFields
<1>2. PICK price, latency : /\ price = [i \in 1..n |-> Price(models[i])]
                            /\ latency = [i \in 1..n |-> models[i].latency]
    OBVIOUS
<1>3. PICK prices, latencies : /\ prices = {Price(models[i]) : i \in DOMAIN models}
                               /\ latencies = {models[i].latency : i \in DOMAIN models}
    OBVIOUS
<1>4. prices = {price[i] : i \in 1..n} /\ latencies = {latency[i] : i \in 1..n}
    BY <1>1, <1>2, <1>3
<1>5. IsFiniteSet(prices) /\ IsFiniteSet(latencies)
    BY <1>4, ValuesFinite
<1>6. ASSUME NEW i \in DOMAIN models PROVE Price(models[i]) \in Int /\ models[i].latency \in Int
    <2>1. Sound(models[i])
        BY PoolFields
    <2> QED BY <2>1, SoundFields
<1>7. \E i \in DOMAIN models : TRUE
    BY PoolFields
<1>8. prices \subseteq Int /\ prices # {} /\ latencies \subseteq Int /\ latencies # {}
    BY <1>3, <1>6, <1>7
<1>9. m.adjusted \in Int /\ Price(m) \in Int /\ m.latency \in Int
    BY SoundFields
<1>10. PICK w : w = Weights(request)
    OBVIOUS
<1>11. w.quality \in Int /\ w.cost \in Int /\ w.latency \in Int
    BY <1>10, WeightsInt
<1>12. PICK x, y, z, p : /\ x = m.adjusted * w.quality
                         /\ y = (100 - Normalized(Price(m), prices)) * w.cost
                         /\ z = (100 - Normalized(m.latency, latencies)) * w.latency
                         /\ p = ContextPenalty(a, m)
    OBVIOUS
<1>13. Normalized(Price(m), prices) \in Int /\ Normalized(m.latency, latencies) \in Int
    BY <1>5, <1>8, <1>9, NormalizedInt
<1>14. \A u, v \in Int : u * v \in Int /\ (100 - u) * v \in Int
    OBVIOUS
<1>15. x \in Int /\ y \in Int /\ z \in Int
    BY <1>9, <1>11, <1>12, <1>13, <1>14
<1>16. p \in Int
    BY <1>12, PenaltyInt
<1>17. Score(m, models, request, a) = x + y + z - p
    BY <1>3, <1>10, <1>12 DEF Score
<1> QED BY <1>15, <1>16, <1>17

-----------------------------------------------------------------------------
(* The candidates, and the ways to choose one of them.                     *)

(* Every candidate is of the catalogue and qualified, whichever filter let *)
(* it through.                                                             *)
LEMMA CandidatesQualified ==
    ASSUME NEW request, NEW a, NEW around
    PROVE  LET pool == Candidates(request, a, around)
           IN  /\ Pool(pool)
               /\ \A m \in ToSet(pool) : m \in ToSet(Catalog) /\ Qualified(m, request, a)
<1>1. PICK strict : strict = Only(Catalog, {m \in ToSet(Catalog) :
            PassesHardConstraints(m, request, a, NearLimit) /\ m.provider \notin around.broken})
    OBVIOUS
<1>2. PICK capped : capped = Only(strict, {m \in ToSet(strict) :
            request.cap < 0 \/ EstimateCost(a, m) <= request.cap})
    OBVIOUS
<1>3. PICK relaxed : relaxed = Only(Catalog, {m \in ToSet(Catalog) : Qualified(m, request, a)})
    OBVIOUS
<1>4. Candidates(request, a, around) =
        IF capped # <<>> THEN capped ELSE IF strict # <<>> THEN strict ELSE relaxed
    BY <1>1, <1>2, <1>3 DEF Candidates, RelaxedFilter, Where
<1>5. /\ Pool(strict)
      /\ \A m \in ToSet(strict) : m \in ToSet(Catalog) /\ Qualified(m, request, a)
    BY <1>1, CatalogPool, PoolOnly DEF PassesHardConstraints
<1>6. Pool(capped) /\ ToSet(capped) \subseteq ToSet(strict)
    BY <1>2, <1>5, PoolOnly
<1>7. /\ Pool(relaxed)
      /\ \A m \in ToSet(relaxed) : m \in ToSet(Catalog) /\ Qualified(m, request, a)
    BY <1>3, CatalogPool, PoolOnly
<1> QED BY <1>4, <1>5, <1>6, <1>7

Unscored == {"daily_budget_cap_free_tier", "explicit_model_override", "always-premium",
             "cascade", "quality_max", "trivial_request"}

(* A way is open only where it leads somewhere.                            *)
LEMMA WayOpen ==
    ASSUME NEW request, NEW a, NEW b, NEW candidates, NEW around, NEW way,
           way = Way(request, a, b, candidates, around), way \notin Blocked
    PROVE  /\ way \in Unscored \cup {"tier_selection"}
           /\ candidates # <<>>
           /\ way \in {"daily_budget_cap_free_tier", "trivial_request"}
                => TierOf(candidates, "free") # <<>>
           /\ way = "explicit_model_override" => request.model \in IdsOf(candidates)
BY DEF Way, Blocked, Unscored

(* On every way that asks no scores the model is a candidate.              *)
LEMMA ShortcutOf ==
    ASSUME NEW candidates, Pool(candidates), candidates # <<>>,
           NEW request, NEW a, NEW way \in Unscored,
           way \in {"daily_budget_cap_free_tier", "trivial_request"}
               => TierOf(candidates, "free") # <<>>,
           way = "explicit_model_override" => request.model \in IdsOf(candidates)
    PROVE  ShortcutModel(request, a, way, candidates) \in ToSet(candidates)
<1>1. CASE way \in {"daily_budget_cap_free_tier", "trivial_request"}
    <2>1. PICK free : free = TierOf(candidates, "free")
        OBVIOUS
    <2>2. free # <<>> /\ Pool(free) /\ ToSet(free) \subseteq ToSet(candidates)
        BY <1>1, <2>1, TierOfPool
    <2>3. PickBest(free, a) \in ToSet(candidates)
        BY <2>2, PickBestOf
    <2>4. ShortcutModel(request, a, way, candidates) = PickBest(free, a)
        BY <1>1, <2>1 DEF ShortcutModel
    <2> QED BY <2>3, <2>4
<1>2. CASE way = "always-premium"
    BY <1>2, AlwaysPremiumOf DEF ShortcutModel
<1>3. CASE way = "cascade"
    BY <1>3, CascadeInitialOf DEF ShortcutModel
<1>4. CASE way = "quality_max"
    BY <1>4, QualityMaxOf DEF ShortcutModel
<1>5. CASE way = "explicit_model_override"
    <2>1. PICK those : those = Only(candidates, {m \in ToSet(candidates) : m.id = request.model})
        OBVIOUS
    <2>2. \E m \in ToSet(candidates) : m.id = request.model
        BY <1>5, PoolFields DEF IdsOf
    <2>3. Pool(those) /\ ToSet(those) \subseteq ToSet(candidates) /\ those # <<>>
        BY <2>1, <2>2, PoolOnly
    <2>4. those[1] \in ToSet(those)
        BY <2>3, PoolFields
    <2>5. ShortcutModel(request, a, way, candidates) = those[1]
        BY <1>5, <2>1 DEF ShortcutModel, Where
    <2> QED BY <2>3, <2>4, <2>5
<1> QED BY <1>1, <1>2, <1>3, <1>4, <1>5 DEF Unscored

-----------------------------------------------------------------------------
(* The scored way, step by step: each list the engine makes is a pool, and *)
(* has no model that is not in the one before.                             *)

(* Copies of models with a new quality or score are models.                *)
LEMMA CopiesSound ==
    ASSUME NEW m, Sound(m), NEW x \in Int
    PROVE  /\ Sound([m EXCEPT !.adjusted = x]) /\ [m EXCEPT !.adjusted = x].id = m.id
           /\ Sound([m EXCEPT !.score = x]) /\ [m EXCEPT !.score = x].id = m.id
<1>1. PICK k \in ToSet(Catalog) : Alike(m, k)
    BY DEF Sound
<1>2. ModelFields \subseteq DOMAIN m
    BY <1>1 DEF Alike
<1>3. /\ "id" \in DOMAIN m /\ "provider" \in DOMAIN m /\ "tier" \in DOMAIN m
      /\ "in" \in DOMAIN m /\ "out" \in DOMAIN m /\ "maxOut" \in DOMAIN m
      /\ "latency" \in DOMAIN m /\ "window" \in DOMAIN m
      /\ "ratings" \in DOMAIN m /\ "steps" \in DOMAIN m
      /\ "adjusted" \in DOMAIN m /\ "score" \in DOMAIN m
    BY <1>2 DEF ModelFields
<1>4. PICK n : n = [m EXCEPT !.adjusted = x]
    OBVIOUS
<1>5. /\ DOMAIN n = DOMAIN m /\ n.id = m.id /\ n.provider = m.provider /\ n.tier = m.tier
      /\ n.in = m.in /\ n.out = m.out /\ n.maxOut = m.maxOut /\ n.latency = m.latency
      /\ n.window = m.window /\ n.ratings = m.ratings /\ n.steps = m.steps
      /\ n.score = m.score /\ n.adjusted = x
    BY <1>3, <1>4
<1>6. PICK p : p = [m EXCEPT !.score = x]
    OBVIOUS
<1>7. /\ DOMAIN p = DOMAIN m /\ p.id = m.id /\ p.provider = m.provider /\ p.tier = m.tier
      /\ p.in = m.in /\ p.out = m.out /\ p.maxOut = m.maxOut /\ p.latency = m.latency
      /\ p.window = m.window /\ p.ratings = m.ratings /\ p.steps = m.steps
      /\ p.adjusted = m.adjusted /\ p.score = x
    BY <1>3, <1>6
<1>8. Alike(n, k)
    BY <1>1, <1>5 DEF Alike
<1>9. Alike(p, k)
    BY <1>1, <1>7 DEF Alike
<1> QED BY <1>4, <1>5, <1>6, <1>7, <1>8, <1>9 DEF Sound

(* A list made of sound copies of the models of a pool.                    *)
LEMMA CopiesPool ==
    ASSUME NEW models, Pool(models), NEW f, DOMAIN f = DOMAIN models,
           f = [i \in DOMAIN models |-> f[i]],
           \A i \in DOMAIN models : Sound(f[i]) /\ f[i].id = models[i].id
    PROVE  LET copies == SubSeq(f, 1, Len(models))
           IN  /\ Pool(copies)
               /\ IdsOf(copies) = IdsOf(models)
               /\ copies = <<>> <=> models = <<>>
<1>1. PICK S : S = {f[i] : i \in DOMAIN models}
    OBVIOUS
<1>2. f \in [DOMAIN models -> S]
    BY <1>1
<1>3. PICK copies : copies = SubSeq(f, 1, Len(models))
    OBVIOUS
<1>4. /\ copies \in Seq(S) /\ copies = f /\ ToSet(copies) = {f[i] : i \in DOMAIN models}
    BY <1>2, <1>3, EachList DEF Pool
<1>5. Listed(copies)
    BY <1>4, SequenceListed
<1>6. \A m \in ToSet(copies) : Sound(m)
    BY <1>4
<1>7. IdsOf(copies) = IdsOf(models)
    BY <1>4 DEF IdsOf
<1>8. copies = <<>> <=> models = <<>>
    BY <1>4, <1>5, PoolFields, SequenceListed DEF Pool, Listed
<1> QED BY <1>3, <1>5, <1>6, <1>7, <1>8 DEF Pool

(* The abuse guard leaves the candidates alone, or the paid ones of them,  *)
(* or where there is none the whole catalogue.                             *)
LEMMA TamedPool ==
    ASSUME NEW request, NEW pool, Pool(pool), pool # <<>>
    PROVE  LET tamed == Tamed(request, pool)
           IN  /\ Pool(tamed) /\ tamed # <<>>
               /\ \/ ToSet(tamed) \subseteq ToSet(pool)
                  \/ \A m \in ToSet(pool) : m.tier = "free"
               /\ FreeRpm(request.user) <= AbuseLimit \/ (\E m \in ToSet(pool) : m.tier # "free")
                    => ToSet(tamed) \subseteq ToSet(pool)
               /\ ~(FreeRpm(request.user) <= AbuseLimit) /\ (\E m \in ToSet(pool) : m.tier # "free")
                    => \A m \in ToSet(tamed) : m.tier # "free"
<1>1. PICK paid : paid = Only(pool, {m \in ToSet(pool) : m.tier # "free"})
    OBVIOUS
<1>2. /\ Pool(paid) /\ ToSet(paid) \subseteq ToSet(pool)
      /\ paid = <<>> <=> \A m \in ToSet(pool) : m.tier = "free"
      /\ \A m \in ToSet(paid) : m.tier # "free"
    BY <1>1, PoolOnly
<1>3. PICK tamed : tamed = Tamed(request, pool)
    OBVIOUS
<1>4. tamed = IF FreeRpm(request.user) <= AbuseLimit THEN pool
              ELSE IF paid # <<>> THEN paid ELSE Catalog
    BY <1>1, <1>3 DEF Tamed, Where
<1> QED BY <1>2, <1>3, <1>4, CatalogPool, RoutingAssumption

(* Learned quality, and its bar, leave candidates.                         *)
LEMMA AdjustedPool ==
    ASSUME NEW models, Pool(models), models # <<>>, NEW a, NEW around
    PROVE  LET candidates == Adjusted(models, a, around)
           IN  /\ Pool(candidates) /\ candidates # <<>>
               /\ IdsOf(candidates) \subseteq IdsOf(models)
<1> DEFINE Learned(m) == ResolveQuality(a, m) - IF m.id \in around.bad THEN 50 ELSE 0
           f == [i \in DOMAIN models |-> [models[i] EXCEPT !.adjusted = Learned(models[i])]]
           adjusted == SubSeq(f, 1, Len(models))
           good == Only(adjusted, {m \in ToSet(adjusted) : m.adjusted >= 35})
<1>1. ASSUME NEW i \in DOMAIN models
      PROVE  Sound(f[i]) /\ f[i].id = models[i].id
    <2>1. Sound(models[i])
        BY PoolFields
    <2>2. Learned(models[i]) \in Int
        BY <2>1, QualityInt
    <2> HIDE DEF Learned
    <2> QED BY <2>1, <2>2, CopiesSound
<1>2. DOMAIN f = DOMAIN models /\ f = [i \in DOMAIN models |-> f[i]]
    OBVIOUS
<1>3. Adjusted(models, a, around) = IF good # <<>> THEN good ELSE adjusted
    BY DEF Adjusted, Each, Where
<1> HIDE DEF f
<1>4. Pool(adjusted) /\ IdsOf(adjusted) = IdsOf(models) /\ adjusted # <<>>
    BY <1>1, <1>2, CopiesPool
<1> HIDE DEF adjusted
<1>5. Pool(good) /\ ToSet(good) \subseteq ToSet(adjusted)
    BY <1>4, PoolOnly
<1> HIDE DEF good
<1>6. IdsOf(good) \subseteq IdsOf(adjusted)
    <2>1. \A i \in DOMAIN good : \E j \in DOMAIN adjusted : good[i] = adjusted[j]
        BY <1>4, <1>5, PoolFields
    <2> QED BY <2>1 DEF IdsOf
<1> QED BY <1>3, <1>4, <1>5, <1>6

(* Fewer models have no more ids.                                          *)
LEMMA WithinIds ==
    ASSUME NEW models, NEW s, ToSet(s) \subseteq ToSet(models)
    PROVE  IdsOf(s) \subseteq IdsOf(models)
<1>1. \A i \in DOMAIN s : \E j \in DOMAIN models : s[i] = models[j]
    BY DEF ToSet
<1> QED BY <1>1 DEF IdsOf

(* The floors of quality and effort leave candidates to score.             *)
LEMMA ContendersPool ==
    ASSUME NEW candidates, Pool(candidates), candidates # <<>>, NEW request, NEW a
    PROVE  LET contenders == Contenders(request, a, candidates)
           IN  /\ Pool(contenders) /\ contenders # <<>>
               /\ ToSet(contenders) \subseteq ToSet(candidates)
<1>1. PICK able : able = Only(candidates,
                    {m \in ToSet(candidates) : ResolveQuality(a, m) >= QualityFloor(a)})
    OBVIOUS
<1>2. PICK some : some = IF able # <<>> THEN able ELSE candidates
    OBVIOUS
<1>3. Pool(some) /\ some # <<>> /\ ToSet(some) \subseteq ToSet(candidates)
    BY <1>1, <1>2, PoolOnly
<1>4. PICK paid : paid = Only(some, {m \in ToSet(some) : m.tier # "free"})
    OBVIOUS
<1>5. Pool(paid) /\ ToSet(paid) \subseteq ToSet(some)
    BY <1>3, <1>4, PoolOnly
<1>6. Contenders(request, a, candidates) =
        IF request.priority = "critical" /\ paid # <<>> THEN paid ELSE some
    BY <1>1, <1>2, <1>4 DEF Contenders, Where
<1> QED BY <1>3, <1>5, <1>6

(* Scoring changes the score of a candidate only.                          *)
LEMMA ScoredPool ==
    ASSUME NEW candidates, Pool(candidates), NEW contenders, Pool(contenders), contenders # <<>>,
           NEW request, request.priority \in {"low", "normal", "high", "critical"},
           NEW a, a.input \in Int
    PROVE  LET scored == WithScores(request, a, candidates, contenders)
           IN  Pool(scored) /\ IdsOf(scored) = IdsOf(candidates)
<1> DEFINE Points(m) == Score(m, contenders, request, a) + Favour(request, m)
           f == [i \in DOMAIN candidates |->
                    IF candidates[i].id \in IdsOf(contenders)
                    THEN [candidates[i] EXCEPT !.score = Points(candidates[i])]
                    ELSE candidates[i]]
<1>1. ASSUME NEW i \in DOMAIN candidates
      PROVE  Sound(f[i]) /\ f[i].id = candidates[i].id
    <2>1. Sound(candidates[i])
        BY PoolFields
    <2>2. Favour(request, candidates[i]) \in Int
        BY DEF Favour
    <2>3. Score(candidates[i], contenders, request, a) \in Int
        BY <2>1, ScoreInt
    <2>4. Points(candidates[i]) \in Int
        BY <2>2, <2>3
    <2> HIDE DEF Points
    <2> QED BY <2>1, <2>4, CopiesSound
<1>2. DOMAIN f = DOMAIN candidates /\ f = [i \in DOMAIN candidates |-> f[i]]
    OBVIOUS
<1>3. WithScores(request, a, candidates, contenders) = SubSeq(f, 1, Len(candidates))
    BY DEF WithScores, Each
<1> HIDE DEF f
<1> QED BY <1>1, <1>2, <1>3, CopiesPool

(* The pin to a warm provider leaves candidates.                           *)
LEMMA PinnedPool ==
    ASSUME NEW contenders, Pool(contenders), contenders # <<>>, NEW request, NEW a
    PROVE  LET race == Pinned(request, a, contenders)
           IN  /\ Pool(race.models) /\ race.models # <<>>
               /\ ToSet(race.models) \subseteq ToSet(contenders)
<1>1. PICK incumbents : incumbents =
        Only(contenders, {m \in ToSet(contenders) : m.provider = WarmProvider(request)})
    OBVIOUS
<1>2. Pool(incumbents) /\ ToSet(incumbents) \subseteq ToSet(contenders)
    BY <1>1, PoolOnly
<1>3. PICK race : race = Pinned(request, a, contenders)
    OBVIOUS
<1>4. \/ race.models = contenders
      \/ race.models = incumbents /\ incumbents # <<>>
    BY <1>1, <1>3 DEF Pinned, Where
<1> QED BY <1>2, <1>3, <1>4

(* Exploring and hearing a second opinion end at a candidate.              *)
LEMMA ElectedOf ==
    ASSUME NEW candidates, Pool(candidates), NEW winner \in ToSet(candidates),
           NEW request, NEW a, NEW explore \in Nat
    PROVE  Elected(request, a, candidates, winner, explore) \in ToSet(candidates)
<1>1. PICK premium : premium = Others(TierOf(candidates, "premium"), {winner.id})
    OBVIOUS
<1>2. Within(candidates, candidates)
    BY DEF Within, Pool
<1>3. Pool(premium) /\ ToSet(premium) \subseteq ToSet(candidates)
    <2>1. Within(TierOf(candidates, "premium"), candidates)
        BY <1>2, WithinTier
    <2>2. Within(premium, candidates)
        BY <1>1, <2>1, WithinTier
    <2> QED BY <2>2, WithinPool DEF Within
<1>4. PICK elected : elected = Confident(winner, premium)
    OBVIOUS
<1>5. elected.model \in ToSet(candidates)
    <2>1. premium # <<>> => Best(premium, LAMBDA m : m.adjusted) \in ToSet(premium)
        BY <1>3, AdjustedBestOf
    <2> QED BY <1>3, <1>4, <2>1 DEF Confident
<1>6. PICK below : below = OneTierBelow(candidates, TierForScore(a))
    OBVIOUS
<1>7. Pool(below) /\ ToSet(below) \subseteq ToSet(candidates)
    <2>1. Pool(<<>>) /\ ToSet(<<>>) = {}
        BY DEF Pool, Listed, ToSet
    <2> QED BY <1>6, <2>1, TierOfPool DEF OneTierBelow
<1>8. PICK viable : viable = Only(below, {m \in ToSet(below) : m.adjusted >= 35})
    OBVIOUS
<1>9. Pool(viable) /\ ToSet(viable) \subseteq ToSet(candidates)
    BY <1>7, <1>8, PoolOnly
<1>10. Elected(request, a, candidates, winner, explore) = Explored(request, a, elected, viable, explore)
    BY <1>1, <1>4, <1>6, <1>8 DEF Elected, Where
<1>11. ASSUME explore > 0, viable # <<>>
       PROVE  viable[Min({explore, Len(viable)})] \in ToSet(viable)
    <2>1. PICK n \in Nat \ {0} : n = Len(viable) /\ DOMAIN viable = 1..n
        BY <1>9, <1>11, PoolFields
    <2>2. Min({explore, n}) = IF explore <= n THEN explore ELSE n
        BY PairBounds
    <2>3. Min({explore, n}) \in 1..n
        BY <1>11, <2>2
    <2> QED BY <1>9, <2>1, <2>3, PoolFields
<1> QED BY <1>5, <1>9, <1>10, <1>11 DEF Explored

(* What a choice is: a model of its candidates, which are of these ids.    *)
Chosen(c, ids) ==
    /\ Pool(c.candidates)
    /\ c.model \in ToSet(c.candidates)
    /\ IdsOf(c.candidates) \subseteq ids

(* The way of the scores chooses a candidate the guard left, which fits in *)
(* the budget or is the cheapest.                                          *)
LEMMA ScoredChooses ==
    ASSUME NEW pool, Pool(pool), pool # <<>>,
           NEW request, request.priority \in {"low", "normal", "high", "critical"},
           NEW a, a.input \in Int, a.billing \in Int, NEW around, NEW explore \in Nat
    PROVE  LET c == Scored(request, a, pool, around, explore)
           IN  /\ Chosen(c, IdsOf(Tamed(request, pool)))
               /\ Affordable(c, c.candidates, a, around.room)
<1>1. PICK tamed : tamed = Tamed(request, pool)
    OBVIOUS
<1>2. Pool(tamed) /\ tamed # <<>>
    BY <1>1, TamedPool
<1>3. PICK candidates : candidates = Adjusted(tamed, a, around)
    OBVIOUS
<1>4. Pool(candidates) /\ candidates # <<>> /\ IdsOf(candidates) \subseteq IdsOf(tamed)
    BY <1>2, <1>3, AdjustedPool
<1>5. PICK contenders : contenders = Contenders(request, a, candidates)
    OBVIOUS
<1>6. Pool(contenders) /\ contenders # <<>> /\ ToSet(contenders) \subseteq ToSet(candidates)
    BY <1>4, <1>5, ContendersPool
<1>7. PICK scored, ids : /\ scored = WithScores(request, a, candidates, contenders)
                         /\ ids = IdsOf(contenders)
    OBVIOUS
<1>8. Pool(scored) /\ IdsOf(scored) = IdsOf(candidates)
    BY <1>4, <1>6, <1>7, ScoredPool
<1>9. PICK best : best = Only(scored, {m \in ToSet(scored) : m.id \in ids})
    OBVIOUS
<1>10. Pool(best) /\ ToSet(best) \subseteq ToSet(scored) /\ best # <<>>
    <2>1. \E id \in ids : id \in IdsOf(scored)
        <3>1. IdsOf(contenders) \subseteq IdsOf(candidates)
            BY <1>6, WithinIds
        <3>2. \E i \in DOMAIN contenders : TRUE
            BY <1>6, PoolFields
        <3>3. \E id : id \in ids
            BY <1>7, <3>2 DEF IdsOf
        <3> QED BY <1>7, <1>8, <3>1, <3>3
    <2>2. \E m \in ToSet(scored) : m.id \in ids
        BY <1>8, <2>1, PoolFields DEF IdsOf
    <2> QED BY <1>8, <1>9, <2>2, PoolOnly
<1>11. PICK race : race = Pinned(request, a, best)
    OBVIOUS
<1>12. Pool(race.models) /\ race.models # <<>> /\ ToSet(race.models) \subseteq ToSet(best)
    BY <1>10, <1>11, PinnedPool
<1>13. PICK winner : winner = Best(race.models, LAMBDA m : m.score)
    OBVIOUS
<1>14. winner \in ToSet(scored)
    BY <1>10, <1>12, <1>13, ScoredBestOf
<1>15. PICK model : model = Elected(request, a, scored, winner, explore)
    OBVIOUS
<1>16. model \in ToSet(scored)
    BY <1>8, <1>14, <1>15, ElectedOf
<1>17. PICK afforded : afforded = Afforded(model, scored, a, around.room)
    OBVIOUS
<1>18. Affordable(afforded, scored, a, around.room)
    <2>1. scored # <<>>
        BY <1>8, <1>16, PoolFields
    <2> QED BY <1>8, <1>16, <1>17, <2>1, AffordedOf
<1>19. PICK c : c = Scored(request, a, pool, around, explore)
    OBVIOUS
<1>20. c = Settled(request, afforded, scored, race.status)
    BY <1>1, <1>3, <1>5, <1>7, <1>9, <1>11, <1>13, <1>15, <1>17, <1>19
       DEF Scored, Weighed, Compared, Raced, Where
<1>21. c.candidates = scored /\ c.model = afforded.model /\ c.exhausted = afforded.exhausted
    BY <1>20 DEF Settled, Held, Choice
<1> QED BY <1>1, <1>4, <1>8, <1>18, <1>19, <1>21 DEF Chosen, Affordable

(* The other ways choose a candidate, the one named by the request under   *)
(* the budget too.                                                         *)
LEMMA ShortcutChooses ==
    ASSUME NEW pool, Pool(pool), pool # <<>>,
           NEW request, NEW a, a.input \in Int, a.billing \in Int, NEW around,
           NEW way \in Unscored,
           way \in {"daily_budget_cap_free_tier", "trivial_request"} => TierOf(pool, "free") # <<>>,
           way = "explicit_model_override" => request.model \in IdsOf(pool)
    PROVE  LET c == Shortcut(request, a, way, pool, around)
           IN  /\ Chosen(c, IdsOf(pool))
               /\ way = "explicit_model_override" => Affordable(c, c.candidates, a, around.room)
<1>1. PICK chosen : chosen = ShortcutModel(request, a, way, pool)
    OBVIOUS
<1>2. chosen \in ToSet(pool)
    BY <1>1, ShortcutOf
<1>3. PICK afforded : afforded = Afforded(chosen, pool, a, around.room)
    OBVIOUS
<1>4. Affordable(afforded, pool, a, around.room)
    BY <1>2, <1>3, AffordedOf
<1>5. PICK c : c = Shortcut(request, a, way, pool, around)
    OBVIOUS
<1>6. c = IF way = "explicit_model_override" THEN Held(afforded, pool, "cold")
          ELSE Choice(chosen, pool, FALSE, "cold")
    BY <1>1, <1>3, <1>5 DEF Shortcut
<1>7. /\ c.candidates = pool
      /\ way = "explicit_model_override" => c.model = afforded.model /\ c.exhausted = afforded.exhausted
      /\ way # "explicit_model_override" => c.model = chosen
    BY <1>6 DEF Held, Choice
<1> QED BY <1>2, <1>4, <1>5, <1>7 DEF Chosen, Affordable

-----------------------------------------------------------------------------
(* What the engine makes of a request is in numbers.                       *)

MessageList(s) == Listed(s) /\ \A m \in ToSet(s) : "size" \in DOMAIN m /\ m.size \in Nat


(* The size of a list of messages is a natural number.                     *)
LEMMA TokensNatural ==
    ASSUME NEW s, MessageList(s)
    PROVE  Tokens(s) \in Nat
<1>1. PICK sizes : sizes = [i \in DOMAIN s |-> s[i].size]
    OBVIOUS
<1>2. Tokens(s) = SumOver(sizes, DOMAIN s)
    BY <1>1 DEF Tokens, SumOver, MapThenSumSet, MapThenFoldSet
<1>3. s \in Seq(ToSet(s))
    BY DEF MessageList, Listed
<1>4. DOMAIN s = 1..Len(s) /\ Len(s) \in Int /\ \A i \in DOMAIN s : s[i] \in ToSet(s)
    BY <1>3, SequenceListed
<1>5. IsFiniteSet(DOMAIN s)
    BY <1>4, FS_Interval
<1>6. \A i \in DOMAIN s : sizes[i] \in Nat
    BY <1>1, <1>4 DEF MessageList
<1> QED BY <1>2, <1>5, <1>6, SumNatural

(* The pieces of a list of messages are lists of messages.                 *)
LEMMA MessagesOnly ==
    ASSUME NEW s, MessageList(s), NEW wanted
    PROVE  MessageList(Only(s, wanted))
<1>1. Listed(Only(s, wanted)) /\ ToSet(Only(s, wanted)) = ToSet(s) \cap wanted
    BY OnlyListed DEF MessageList
<1> QED BY <1>1 DEF MessageList

(* What the compressor does to a list of messages gives one: a part,       *)
LEMMA MessagesPart ==
    ASSUME NEW s, MessageList(s), NEW m \in Nat \ {0}, NEW n \in 0..Len(s)
    PROVE  MessageList(SubSeq(s, m, n))
<1>1. s \in Seq(ToSet(s))
    BY DEF MessageList, Listed
<1>2. SubSeq(s, m, n) \in Seq(ToSet(s))
    BY <1>1
<1>3. Listed(SubSeq(s, m, n)) /\ ToSet(SubSeq(s, m, n)) \subseteq ToSet(s)
    BY <1>2, SequenceListed
<1> QED BY <1>3 DEF MessageList

(* two joined,                                                             *)
LEMMA MessagesJoin ==
    ASSUME NEW s, MessageList(s), NEW t, MessageList(t)
    PROVE  MessageList(s \o t)
<1>1. PICK S : S = ToSet(s) \cup ToSet(t)
    OBVIOUS
<1>2. s \in Seq(S) /\ t \in Seq(S)
    BY <1>1 DEF MessageList, Listed
<1>3. s \o t \in Seq(S)
    BY <1>2
<1>4. Listed(s \o t) /\ ToSet(s \o t) \subseteq S
    BY <1>3, SequenceListed
<1> QED BY <1>1, <1>4 DEF MessageList

(* the old ones shrunk,                                                    *)
LEMMA MessagesShrunk ==
    ASSUME NEW s, MessageList(s)
    PROVE  MessageList(Shrunk(s))
<1>1. PICK kept : kept = Where(s, LAMBDA m : m.role # "tool")
    OBVIOUS
<1>2. MessageList(kept)
    BY <1>1, MessagesOnly DEF Where
<1>3. PICK t : t = Shrunk(s)
    OBVIOUS
<1>4. t = [i \in DOMAIN kept |->
            IF kept[i].role = "assistant" /\ kept[i].size > Long
            THEN [kept[i] EXCEPT !.size = Truncated] ELSE kept[i]]
    BY <1>1, <1>3 DEF Shrunk
<1>5. /\ DOMAIN kept = 1..Len(kept)
      /\ Len(kept) \in Nat
      /\ \A i \in DOMAIN kept : "size" \in DOMAIN kept[i] /\ kept[i].size \in Nat
    BY <1>2 DEF MessageList, Listed, ToSet
<1>6. \A i \in DOMAIN kept : "size" \in DOMAIN t[i] /\ t[i].size \in Nat
    BY <1>4, <1>5, MessagesAssumption
<1>7. DOMAIN t = 1..Len(kept)
    BY <1>4, <1>5
<1>8. ToSet(t) = {t[i] : i \in 1..Len(kept)}
    BY <1>7 DEF ToSet
<1>9. t = [i \in 1..Len(kept) |-> t[i]]
    BY <1>4, <1>7
<1>10. t \in Seq(ToSet(t))
    BY <1>5, <1>8, <1>9
<1> QED BY <1>3, <1>5, <1>6, <1>8, <1>10 DEF MessageList, Listed

(* nothing, and a note,                                                    *)
LEMMA NoteMessages ==
    /\ MessageList(<<>>)
    /\ MessageList(<<Says("system", 1)>>)
<1>1. PICK m : m = Says("system", 1)
    OBVIOUS
<1>2. m = [role |-> "system", size |-> 1, calls |-> <<>>, answers |-> NoId]
    BY <1>1 DEF Says, Message
<1>3. ToSet(<<m>>) = {m} /\ ToSet(<<>>) = {}
    BY DEF ToSet
<1>4. Listed(<<m>>) /\ Listed(<<>>)
    BY <1>3 DEF Listed
<1> QED BY <1>1, <1>2, <1>3, <1>4 DEF MessageList

(* the last ones that fit.                                                 *)
LEMMA CutMessages ==
    ASSUME NEW s, MessageList(s), NEW room
    PROVE  MessageList(Cut(s, room))
<1>1. PICK fits : fits = {n \in 0 .. Len(s) : Tokens(SubSeq(s, n + 1, Len(s))) <= room}
    OBVIOUS
<1>2. Len(s) \in Nat
    BY DEF MessageList, Listed
<1>3. CASE fits = {}
    BY <1>1, <1>3, NoteMessages DEF Cut
<1>4. CASE fits # {}
    <2>1. IsFiniteSet(0..Len(s))
        <3>1. PICK z \in Int : z = 0
            OBVIOUS
        <3> QED BY <1>2, <3>1, FS_Interval
    <2>2. IsFiniteSet(fits) /\ fits \subseteq Int
        BY <1>1, <2>1, FS_Subset
    <2>3. Min(fits) \in 0..Len(s)
        BY <1>1, <1>4, <2>2, IntBounds
    <2>4. PICK n : n = Min(fits) + 1
        OBVIOUS
    <2>5. MessageList(SubSeq(s, n, Len(s)))
        BY <1>2, <2>3, <2>4, MessagesPart
    <2> QED BY <1>1, <1>4, <2>4, <2>5 DEF Cut
<1> QED BY <1>3, <1>4

(* What is compressed is still a conversation, in a request otherwise the  *)
(* same.                                                                   *)
LEMMA CompressedRequest ==
    ASSUME NEW request, RequestFields \subseteq DOMAIN request, MessageList(request.history)
    PROVE  LET short == Compress(request)
           IN  /\ MessageList(short.history)
               /\ short.prompt = request.prompt
               /\ short.system = request.system
               /\ short.asked = request.asked
               /\ short.maxTokens = request.maxTokens
               /\ short.priority = request.priority
<1>1. PICK history : history = request.history
    OBVIOUS
<1>2. MessageList(history) /\ history \in Seq(ToSet(history)) /\ Len(history) \in Nat
    BY <1>1 DEF MessageList, Listed
<1>3. PICK split : split = Max({0, Len(history) - PreserveRecent})
    OBVIOUS
<1>4. split \in Nat /\ split <= Len(history)
    BY <1>2, <1>3, PairBounds, MessagesAssumption
<1>5. PICK recent : recent = SubSeq(history, split + 1, Len(history))
    OBVIOUS
<1>6. MessageList(recent)
    BY <1>2, <1>4, <1>5, MessagesPart
<1>7. PICK old : old = SubSeq(history, 1, split)
    OBVIOUS
<1>8. MessageList(old)
    BY <1>2, <1>4, <1>7, MessagesPart
<1>9. PICK pass1 : pass1 = Shrunk(old)
    OBVIOUS
<1>10. MessageList(pass1)
    BY <1>8, <1>9, MessagesShrunk
<1>11. PICK room : room = Target - Tokens(recent)
    OBVIOUS
<1>12. PICK pass2 : pass2 = IF Tokens(pass1) <= room THEN pass1
                           ELSE Where(pass1, LAMBDA m : m.role = "user")
    OBVIOUS
<1>13. MessageList(pass2)
    BY <1>10, <1>12, MessagesOnly DEF Where
<1>14. PICK pass3 : pass3 = IF Tokens(pass2) <= room THEN pass2 ELSE Cut(pass2, room)
    OBVIOUS
<1>15. MessageList(pass3)
    <2>1. CASE Tokens(pass2) <= room
        BY <1>13, <1>14, <2>1
    <2>2. CASE ~(Tokens(pass2) <= room)
        BY <1>13, <1>14, <2>2, CutMessages
    <2> QED BY <2>1, <2>2
<1>16. PICK note : note = IF Len(pass3) < split THEN <<Says("system", 1)>> ELSE <<>>
    OBVIOUS
<1>17. MessageList(note)
    BY <1>16, NoteMessages
<1>18. MessageList(note \o pass3 \o recent)
    BY <1>6, <1>15, <1>17, MessagesJoin
<1>19. Compress(request) = IF Tokens(history) <= Target THEN request
                           ELSE [request EXCEPT !.history = note \o pass3 \o recent]
    BY <1>1, <1>3, <1>5, <1>7, <1>9, <1>11, <1>12, <1>14, <1>16 DEF Compress
<1>20. {"history", "prompt", "system", "asked", "maxTokens", "priority"} \subseteq DOMAIN request
    BY DEF RequestFields
<1> QED BY <1>1, <1>2, <1>18, <1>19, <1>20

(* The sizes that costs are computed from are numbers: the input,          *)
LEMMA InputNatural ==
    ASSUME NEW request, MessageList(request.history), request.prompt \in Nat,
           SystemTokens(request) \in Nat
    PROVE  InputTokens(request) \in Nat
<1>1. Tokens(request.history) \in Nat
    BY TokensNatural
<1> QED BY <1>1 DEF InputTokens

(* the output expected,                                                    *)
LEMMA OutputInt ==
    ASSUME NEW task, NEW input \in Nat
    PROVE  EstimateOutputTokens(task, input) \in Int
<1>1. PICK x, y, z, u, v :
        x = (input * 9) \div 10 /\ y = input \div 2 /\ z = input \div 5
        /\ u = (input * 15) \div 100 /\ v = Max({100, y})
    OBVIOUS
<1>2. {x, y, z, u} \subseteq Int
    BY <1>1
<1>3. Max({50, x}) \in Int /\ v \in Int /\ Max({100, z}) \in Int /\ Max({400, u}) \in Int
    BY <1>1, <1>2, PairBounds
<1>4. Min({500, v}) \in Int
    <2>1. PICK w \in Int : w = 500
        OBVIOUS
    <2>2. v \in Int
        BY <1>3
    <2>3. Min({w, v}) = IF w <= v THEN w ELSE v
        BY <2>2, PairBounds
    <2> QED BY <2>1, <2>2, <2>3
<1> QED BY <1>1, <1>3, <1>4 DEF EstimateOutputTokens

(* and what is billed of it,                                               *)
LEMMA AnalyzeInt ==
    ASSUME NEW request, MessageList(request.history), SystemTokens(request) \in Nat,
           {request.prompt, request.asked, request.maxTokens} \subseteq Nat
    PROVE  Analyze(request).input \in Int /\ Analyze(request).billing \in Int
<1>1. PICK input : input = InputTokens(request)
    OBVIOUS
<1>2. input \in Nat
    BY <1>1, InputNatural
<1>3. PICK task, output : task = DetectTaskType(request) /\ output = OutputTokens(request, task)
    OBVIOUS
<1>4. EstimateOutputTokens(task, input) \in Int
    BY <1>2, OutputInt
<1>5. output \in Int
    BY <1>1, <1>3, <1>4 DEF OutputTokens
<1>6. PICK a : a = Analyze(request)
    OBVIOUS
<1>7. a.input = input /\ a.billing = IF request.maxTokens > 0 THEN request.maxTokens ELSE output
    BY <1>1, <1>3, <1>6 DEF Analyze
<1> QED BY <1>2, <1>5, <1>6, <1>7

(* for each request, compressed or not.                                    *)
LEMMA AnalysesInt ==
    ASSUME NEW name \in DOMAIN Requests
    PROVE  /\ Analysis[name].input \in Int /\ Analysis[name].billing \in Int
           /\ ShortAnalysis[name].input \in Int /\ ShortAnalysis[name].billing \in Int
<1>1. PICK request : request = Requests[name]
    OBVIOUS
<1>2. /\ RequestFields \subseteq DOMAIN request
      /\ {request.prompt, request.maxTokens, request.asked} \subseteq Nat
      /\ SystemTokens(request) \in Nat
      /\ MessageList(request.history)
    BY <1>1, RequestsAssumption DEF MessageList, Listed
<1>3. PICK short : short = Compress(request)
    OBVIOUS
<1>4. /\ MessageList(short.history)
      /\ short.prompt = request.prompt /\ short.system = request.system
      /\ short.asked = request.asked /\ short.maxTokens = request.maxTokens
    BY <1>2, <1>3, CompressedRequest
<1>5. SystemTokens(short) \in Nat
    BY <1>2, <1>4 DEF SystemTokens
<1>6. Analyze(request).input \in Int /\ Analyze(request).billing \in Int
    BY <1>2, AnalyzeInt
<1>7. Analyze(short).input \in Int /\ Analyze(short).billing \in Int
    BY <1>2, <1>4, <1>5, AnalyzeInt
<1>8. Analysis[name] = Analyze(request)
    BY <1>1 DEF Analysis
<1>9. ShortAnalysis[name] = Analyze(short)
    BY <1>1, <1>3 DEF ShortAnalysis, Short
<1> QED BY <1>6, <1>7, <1>8, <1>9

-----------------------------------------------------------------------------
(* What a decision offers, the model and every chain, is of its candidates.*)
LEMMA DecisionOffers ==
    ASSUME NEW c, NEW ids, Chosen(c, ids), NEW rule
    PROVE  LET d == Decision(rule, c)
           IN  /\ d.rule = rule /\ d.chosen = c.model.id /\ d.exhausted = c.exhausted
               /\ d.status = c.status
               /\ {d.chosen} \cup ToSet(d.chain) \cup ToSet(d.rateLimit)
                    \cup ToSet(d.safety) \cup ToSet(d.timeout) \subseteq IdsOf(c.candidates)
<1>1. PICK chain, typed : /\ chain = BuildFallbackChain(c.model, c.candidates)
                          /\ typed = BuildTypedFallbackChains(c.model, c.candidates)
    OBVIOUS
<1>2. Pool(c.candidates)
    BY DEF Chosen
<1>3. /\ Within(chain, c.candidates) /\ Within(typed.rateLimit, c.candidates)
      /\ Within(typed.safety, c.candidates) /\ Within(typed.timeout, c.candidates)
    BY <1>1, <1>2, FallbackWithin, TypedWithin
<1>4. /\ ToSet(Ids(chain)) \subseteq IdsOf(c.candidates)
      /\ ToSet(Ids(typed.rateLimit)) \subseteq IdsOf(c.candidates)
      /\ ToSet(Ids(typed.safety)) \subseteq IdsOf(c.candidates)
      /\ ToSet(Ids(typed.timeout)) \subseteq IdsOf(c.candidates)
    BY <1>2, <1>3, IdsWithin
<1>5. c.model.id \in IdsOf(c.candidates)
    BY <1>2, PoolFields DEF Chosen, IdsOf
<1>6. PICK d : d = Decision(rule, c)
    OBVIOUS
<1>7. d = [rule |-> rule, chosen |-> c.model.id, exhausted |-> c.exhausted, status |-> c.status,
           chain |-> Ids(chain), rateLimit |-> Ids(typed.rateLimit),
           safety |-> Ids(typed.safety), timeout |-> Ids(typed.timeout)]
    BY <1>1, <1>6 DEF Decision, Chained
<1> QED BY <1>4, <1>5, <1>6, <1>7

(* No candidate is of a tier below the floor, nor is any that the taming   *)
(* of a user may put in their place.                                       *)
AboveFloor(id, a) == Named(id).tier \in ToSet(Tiers) /\ Rank[Named(id).tier] >= ComposedMinTier(a)

(* The composed floor is one of the four tiers.                            *)
LEMMA FloorNumber ==
    ASSUME NEW a
    PROVE  ComposedMinTier(a) \in 1..4
<1>1. PICK x, y, z :
        /\ x = IF a.step \in {"plan", "tool_select", "final_answer"} THEN 3
               ELSE IF a.step = "reflect" THEN 2 ELSE 1
        /\ y = IF a.task \in {"legal", "medical"} THEN 4 ELSE 1
        /\ z = IF a.score >= At85 THEN 4 ELSE 1
    OBVIOUS
<1>2. PICK T : T = {x, y, z}
    OBVIOUS
<1>3. T \subseteq 1..4 /\ T # {}
    BY <1>1, <1>2
<1>4. IsFiniteSet(T)
    <2>1. T = ({x} \cup {y}) \cup {z}
        BY <1>2
    <2> QED BY <2>1, FS_Singleton, FS_AddElement
<1>5. Max(T) \in T
    <2>1. T \subseteq Int
        BY <1>3
    <2> QED BY <1>3, <1>4, <2>1, IntBounds
<1>6. ComposedMinTier(a) = Max(T)
    BY <1>1, <1>2 DEF ComposedMinTier
<1> QED BY <1>3, <1>5, <1>6

(* No candidate is below the composed floor of the request.                *)
LEMMA PoolAboveFloor ==
    ASSUME NEW request, NEW a, NEW around
    PROVE  \A id \in IdsOf(Candidates(request, a, around)) : AboveFloor(id, a)
<1>1. PICK pool : pool = Candidates(request, a, around)
    OBVIOUS
<1>2. Pool(pool) /\ \A m \in ToSet(pool) : m \in ToSet(Catalog) /\ Qualified(m, request, a)
    BY <1>1, CandidatesQualified
<1>3. SUFFICES ASSUME NEW i \in DOMAIN pool PROVE AboveFloor(pool[i].id, a)
    BY <1>1 DEF IdsOf
<1>4. pool[i] \in ToSet(pool) /\ Sound(pool[i])
    BY <1>2, PoolFields
<1>5. Rank[pool[i].tier] >= ComposedMinTier(a) /\ pool[i].tier \in ToSet(Tiers)
    BY <1>2, <1>4, CatalogAssumption DEF Qualified
<1>6. pool[i].tier = Named(pool[i].id).tier
    BY <1>4, NamedIs DEF Alike
<1> HIDE DEF Named
<1> QED BY <1>5, <1>6 DEF AboveFloor

(* Nor is a model the abuse guard leaves: if it leaves the candidates at   *)
(* all, all of them are free and so is the floor.                          *)
LEMMA TamedAboveFloor ==
    ASSUME NEW request, NEW a, NEW around, NEW tamer,
           Candidates(request, a, around) # <<>>
    PROVE  \A id \in IdsOf(Tamed(tamer, Candidates(request, a, around))) : AboveFloor(id, a)
<1>1. PICK pool : pool = Candidates(request, a, around)
    OBVIOUS
<1>2. PICK tamed : tamed = Tamed(tamer, pool)
    OBVIOUS
<1>3. Pool(pool) /\ \A m \in ToSet(pool) : m \in ToSet(Catalog) /\ Qualified(m, request, a)
    BY <1>1, CandidatesQualified
<1>4. Pool(tamed)
    BY <1>1, <1>2, <1>3, TamedPool
<1>5. SUFFICES ASSUME NEW i \in DOMAIN tamed PROVE AboveFloor(tamed[i].id, a)
    BY <1>1, <1>2 DEF IdsOf
<1>6. tamed[i] \in ToSet(tamed) /\ Sound(tamed[i])
    BY <1>4, PoolFields
<1>7. CASE ToSet(tamed) \subseteq ToSet(pool)
    <2>1. \E j \in DOMAIN pool : tamed[i] = pool[j]
        BY <1>3, <1>6, <1>7, PoolFields
    <2>2. tamed[i].id \in IdsOf(pool)
        BY <2>1 DEF IdsOf
    <2> QED BY <1>1, <2>2, PoolAboveFloor
<1>8. CASE \A m \in ToSet(pool) : m.tier = "free"
    <2>1. PICK m \in ToSet(pool) : TRUE
        BY <1>1, <1>3, PoolFields
    <2>2. Rank["free"] >= ComposedMinTier(a)
        BY <1>3, <1>8, <2>1 DEF Qualified
    <2>3. ComposedMinTier(a) \in Int /\ ComposedMinTier(a) <= 1
        BY <2>2, FloorNumber DEF Rank
    <2>4. Named(tamed[i].id).tier \in ToSet(Tiers)
        BY <1>6, NamedIs, CatalogAssumption
    <2>5. Rank[Named(tamed[i].id).tier] \in Int /\ Rank[Named(tamed[i].id).tier] >= 1
        BY <2>4, TiersRanked
    <2> QED BY <2>3, <2>4, <2>5 DEF AboveFloor
<1> QED BY <1>1, <1>2, <1>3, <1>7, <1>8, TamedPool

-----------------------------------------------------------------------------
(* The whole of a decision.                                                *)

(* What a decision d rests on: a choice c.                                 *)
RestsOn(d, c) ==
    /\ Pool(c.candidates) /\ c.model \in ToSet(c.candidates)
    /\ d.decision = Decision(d.decision.rule, c)
    /\ \A id \in IdsOf(c.candidates) : AboveFloor(id, Analysis[d.name])
    /\ d.decision.rule \in {"explicit_model_override", "tier_selection"} =>
         Affordable(c, c.candidates,
                    IF d.tight THEN ShortAnalysis[d.name] ELSE Analysis[d.name], d.around.room)

(* A decision rests on a choice among the candidates of its request, and a *)
(* refusal chooses none.                                                   *)
LEMMA RouteRests ==
    ASSUME NEW name \in DOMAIN Requests, NEW request,
           request.priority \in {"low", "normal", "high", "critical"},
           NEW around, NEW explore \in Nat
    PROVE  LET d == RouteCore(name, request, around, explore)
           IN  /\ d.name = name /\ d.around = around
               /\ d.decision.rule \in Blocked => d.decision.chosen = None
               /\ d.decision.chosen # None => \E c : RestsOn(d, c)
<1>1. PICK a, pool, tight : /\ a = Analysis[name]
                            /\ pool = Candidates(request, a, around)
                            /\ tight = (pool # <<>> /\ IsTight(a, pool))
    OBVIOUS
<1>2. PICK b : b = IF tight THEN ShortAnalysis[name] ELSE a
    OBVIOUS
<1>3. PICK way : way = Way(request, a, b, pool, around)
    OBVIOUS
<1>4. PICK decision : decision = RouteAlong(way, request, a, b, pool, around, explore)
    OBVIOUS
<1>5. PICK d : d = RouteCore(name, request, around, explore)
    OBVIOUS
<1>6. d.name = name /\ d.around = around /\ d.tight = tight /\ d.decision = decision
    BY <1>1, <1>2, <1>3, <1>4, <1>5 DEF RouteCore, RouteWith
<1>7. CASE way \in Blocked
    <2>1. decision = [rule |-> way, chosen |-> None, chain |-> <<>>]
        BY <1>4, <1>7 DEF RouteAlong
    <2> QED BY <1>5, <1>6, <1>7, <2>1
<1>8. CASE way \notin Blocked
    <2>1. /\ way \in Unscored \cup {"tier_selection"}
          /\ pool # <<>>
          /\ way \in {"daily_budget_cap_free_tier", "trivial_request"} => TierOf(pool, "free") # <<>>
          /\ way = "explicit_model_override" => request.model \in IdsOf(pool)
        BY <1>3, <1>8, WayOpen
    <2>2. Pool(pool)
        BY <1>1, CandidatesQualified
    <2>3. a.input \in Int /\ a.billing \in Int /\ b.input \in Int /\ b.billing \in Int
        BY <1>1, <1>2, AnalysesInt
    <2>4. CASE way = "tier_selection"
        <3>1. PICK c : c = Scored(request, b, pool, around, explore)
            OBVIOUS
        <3>2. Chosen(c, IdsOf(Tamed(request, pool))) /\ Affordable(c, c.candidates, b, around.room)
            BY <2>1, <2>2, <2>3, <3>1, ScoredChooses
        <3>3. \A id \in IdsOf(c.candidates) : AboveFloor(id, a)
            BY <1>1, <2>1, <3>2, TamedAboveFloor DEF Chosen
        <3>4. decision = Decision(way, c)
            BY <1>4, <1>8, <2>4, <3>1 DEF RouteAlong
        <3>5. decision.rule = way
            BY <3>2, <3>4, DecisionOffers
        <3>6. RestsOn(d, c)
            BY <1>1, <1>2, <1>6, <3>2, <3>3, <3>4, <3>5 DEF RestsOn, Chosen
        <3> QED BY <1>5, <1>6, <1>8, <3>5, <3>6
    <2>5. CASE way \in Unscored
        <3>1. PICK e : e = IF way = "daily_budget_cap_free_tier" THEN a ELSE b
            OBVIOUS
        <3>2. PICK c : c = Shortcut(request, e, way, pool, around)
            OBVIOUS
        <3>3. /\ Chosen(c, IdsOf(pool))
              /\ way = "explicit_model_override" => Affordable(c, c.candidates, e, around.room)
            BY <2>1, <2>2, <2>3, <2>5, <3>1, <3>2, ShortcutChooses
        <3>4. \A id \in IdsOf(c.candidates) : AboveFloor(id, a)
            BY <1>1, <3>3, PoolAboveFloor DEF Chosen
        <3>5. decision = Decision(way, c)
            BY <1>4, <1>8, <2>5, <3>1, <3>2 DEF RouteAlong, Unscored
        <3>6. decision.rule = way
            BY <3>3, <3>5, DecisionOffers
        <3>7. way = "explicit_model_override" => e = b
            BY <3>1
        <3>8. way # "tier_selection"
            BY <2>5 DEF Unscored
        <3>9. RestsOn(d, c)
            BY <1>1, <1>2, <1>6, <3>3, <3>4, <3>5, <3>6, <3>7, <3>8 DEF RestsOn, Chosen
        <3> QED BY <1>5, <1>6, <1>8, <3>6, <3>9
    <2> QED BY <2>1, <2>4, <2>5
<1> QED BY <1>7, <1>8

-----------------------------------------------------------------------------
(* What it rests on makes a decision true to the floors and to the budget. *)

(* What a decision offers are candidates of the choice it rests on.        *)
LEMMA OffersNamed ==
    ASSUME NEW d, NEW c, RestsOn(d, c), NEW m \in Offered(d.decision)
    PROVE  \E k \in ToSet(c.candidates) : Sound(k) /\ m = Named(k.id)
<1>1. Chosen(c, IdsOf(c.candidates)) /\ d.decision = Decision(d.decision.rule, c)
    BY DEF RestsOn, Chosen
<1>2. PICK ids : ids = {d.decision.chosen} \cup ToSet(d.decision.chain)
            \cup ToSet(d.decision.rateLimit) \cup ToSet(d.decision.safety)
            \cup ToSet(d.decision.timeout)
    OBVIOUS
<1>3. ids \subseteq IdsOf(c.candidates)
    BY <1>1, <1>2, DecisionOffers
<1>4. PICK id \in ids : m = Named(id)
    BY <1>2 DEF Offered
<1>5. PICK i \in DOMAIN c.candidates : id = c.candidates[i].id
    BY <1>3, <1>4 DEF IdsOf
<1> QED BY <1>1, <1>4, <1>5, PoolFields DEF Chosen

(* So nothing it offers is below the floor,                                *)
LEMMA RestsAboveFloor ==
    ASSUME NEW d, NEW c, RestsOn(d, c)
    PROVE  \A m \in Offered(d.decision) : Rank[m.tier] >= ComposedMinTier(Analysis[d.name])
<1> SUFFICES ASSUME NEW m \in Offered(d.decision)
             PROVE  Rank[m.tier] >= ComposedMinTier(Analysis[d.name])
    OBVIOUS
<1>1. PICK k \in ToSet(c.candidates) : m = Named(k.id)
    BY OffersNamed
<1>2. k.id \in IdsOf(c.candidates)
    BY PoolFields DEF RestsOn, IdsOf
<1> HIDE DEF Named
<1> QED BY <1>1, <1>2 DEF RestsOn, AboveFloor

(* and what it says of the budget is true.                                 *)
LEMMA RestsInBudget ==
    ASSUME NEW d, d.name \in DOMAIN Requests, NEW c, RestsOn(d, c),
           d.decision.rule \in {"explicit_model_override", "tier_selection"}
    PROVE  LET a == IF d.tight THEN ShortAnalysis[d.name] ELSE Analysis[d.name]
               cost == EstimateCost(a, Named(d.decision.chosen))
           IN  IF d.decision.exhausted THEN \A m \in Offered(d.decision) : cost <= EstimateCost(a, m)
               ELSE cost <= d.around.room
<1>1. PICK a : a = IF d.tight THEN ShortAnalysis[d.name] ELSE Analysis[d.name]
    OBVIOUS
<1>2. a.input \in Int /\ a.billing \in Int
    BY <1>1, AnalysesInt
<1>3. Affordable(c, c.candidates, a, d.around.room) /\ Pool(c.candidates)
    BY <1>1 DEF RestsOn
<1>4. Chosen(c, IdsOf(c.candidates)) /\ d.decision = Decision(d.decision.rule, c)
    BY DEF RestsOn, Chosen
<1>5. d.decision.chosen = c.model.id /\ d.decision.exhausted = c.exhausted
    BY <1>4, DecisionOffers
<1>6. \A k \in ToSet(c.candidates) : EstimateCost(a, k) = EstimateCost(a, Named(k.id))
    BY <1>2, <1>3, CostInt DEF Pool
<1>7. PICK cost : cost = EstimateCost(a, Named(d.decision.chosen))
    OBVIOUS
<1>8. cost = EstimateCost(a, c.model)
    BY <1>3, <1>5, <1>6, <1>7 DEF Affordable
<1>9. ASSUME d.decision.exhausted, NEW m \in Offered(d.decision)
      PROVE  cost <= EstimateCost(a, m)
    <2>1. PICK k \in ToSet(c.candidates) : m = Named(k.id)
        BY OffersNamed
    <2>2. EstimateCost(a, m) = EstimateCost(a, k)
        BY <1>6, <2>1
    <2>3. EstimateCost(a, c.model) <= EstimateCost(a, k)
        BY <1>3, <1>5, <1>9 DEF Affordable
    <2> QED BY <1>8, <2>2, <2>3
<1>10. ~d.decision.exhausted => cost <= d.around.room
    BY <1>3, <1>5, <1>8 DEF Affordable
<1> QED BY <1>1, <1>7, <1>9, <1>10

-----------------------------------------------------------------------------
(* The steps of the engine.                                                *)

(* What is true of every decision, whatever it is made of.                 *)
Founded(d) == d.name \in DOMAIN Requests /\ (d.decision.chosen # None => \E c : RestsOn(d, c))
LastFounded == last # None => Founded(last)

(* A pressed run changes only the routing priority of its request.         *)
LEMMA Redirected ==
    ASSUME NEW name \in DOMAIN Requests, NEW routing
    PROVE  LET request == [Requests[name] EXCEPT !.routing = routing]
           IN  /\ request.priority \in {"low", "normal", "high", "critical"}
               /\ request.user = Requests[name].user
<1>1. RequestFields \subseteq DOMAIN Requests[name]
    BY RequestsAssumption
<1>2. {"routing", "priority", "user"} \subseteq DOMAIN Requests[name]
    BY <1>1 DEF RequestFields
<1> QED BY <1>2, RequestsAssumption

(* Each decision is founded on its request,                                *)
LEMMA DecideFounded ==
    ASSUME NEW name \in DOMAIN Requests, NEW around, NEW explore \in Nat, Decide(name, around, explore)
    PROVE  Founded(last')
<1>1. PICK request : request = [Requests[name] EXCEPT
                !.routing = IF around.pressed THEN "cost-optimized" ELSE @]
    OBVIOUS
<1>2. last' = RouteCore(name, request, around, explore)
    BY <1>1 DEF Decide
<1>3. request.priority \in {"low", "normal", "high", "critical"}
    BY <1>1, Redirected
<1>4. PICK d : d = RouteCore(name, request, around, explore)
    OBVIOUS
<1>5. Founded(d)
    BY <1>3, <1>4, RouteRests DEF Founded
<1> QED BY <1>2, <1>4, <1>5

(* nothing else changes the last decision,                                 *)
LEMMA StepFounded ==
    LastFounded /\ [Next]_vars => LastFounded'
<1> SUFFICES ASSUME LastFounded, [Next]_vars PROVE LastFounded'
    OBVIOUS
<1>1. ASSUME NEW name \in DOMAIN Requests, NEW around, NEW explore \in {0, 1, 2},
             Decide(name, around, explore)
      PROVE  LastFounded'
    BY <1>1, DecideFounded DEF LastFounded
<1>2. CASE UNCHANGED last
    BY <1>2 DEF LastFounded
<1>3. Next => \/ UNCHANGED last
              \/ \E name \in DOMAIN Requests : \E around \in Surroundings[name] :
                    \E explore \in {0, 1, 2} : Decide(name, around, explore)
    BY DEF Next, RecordPromptCacheSuccess, Tick
<1> QED BY <1>1, <1>2, <1>3 DEF vars

(* and so it is always founded.                                            *)
LEMMA AlwaysFounded == Spec => []LastFounded
<1>1. Init => LastFounded
    BY DEF Init, LastFounded
<1> QED BY <1>1, StepFounded, PTL DEF Spec

(* No way through the engine offers, as the model or in a chain, one of a  *)
(* tier below what the step, the domain or the complexity of the request   *)
(* demand.                                                                 *)
THEOREM FloorsNeverBypassed == Spec => []FloorsHold
<1>1. LastFounded => FloorsHold
    BY RestsAboveFloor DEF LastFounded, Founded, FloorsHold, IsMade
<1> QED BY <1>1, AlwaysFounded, PTL

(* On the ways that ask the budget, what a decision says of it is true.    *)
THEOREM BudgetToldTruly == Spec => []BudgetTruth
<1>1. LastFounded => BudgetTruth
    <2> SUFFICES ASSUME LastFounded, IsMade,
                        last.decision.rule \in {"explicit_model_override", "tier_selection"}
                 PROVE  BudgetTruth
        BY DEF BudgetTruth
    <2>1. PICK c : RestsOn(last, c)
        BY DEF LastFounded, Founded, IsMade
    <2>2. last.name \in DOMAIN Requests
        BY DEF LastFounded, Founded, IsMade
    <2> HIDE DEF LastFounded, IsMade
    <2> QED BY <2>1, <2>2, RestsInBudget DEF BudgetTruth
<1> QED BY <1>1, AlwaysFounded, PTL

-----------------------------------------------------------------------------
(* Who hammers the free tier.                                              *)

FreshAt(t) == {x \in Nat : t - x < Minute}
Ascending(times) == \A i, j \in DOMAIN times : i <= j => times[i] <= times[j]

(* What the engine keeps of a user's free uses says as much of any minute  *)
(* that ends now or later as what really happened.                         *)
UseOK ==
    /\ now \in Nat
    /\ freeUse \in [Users -> Seq(Nat)]
    /\ given \in [Users -> Seq(Nat)]
UseInOrder ==
    \A u \in Users : Ascending(freeUse[u]) /\ \A i \in DOMAIN freeUse[u] : freeUse[u][i] <= now
Matches(used, truly, time) ==
    \A t \in Nat : t >= time => HowMany(used, FreshAt(t)) = HowMany(truly, FreshAt(t))
UseMatches == \A u \in Users : Matches(freeUse[u], given[u], now)
UseSeen == UseOK /\ UseInOrder /\ UseMatches

(* The entries of the last minute, at some time.                           *)
LastMinute(times, time) == Only(times, {t \in ToSet(times) : time - t < Minute})

(* The guard counts what it is given of the last minute.                   *)
LEMMA RecentIs == \A times : Recent(times, Minute) = LastMinute(times, now)
BY DEF Recent, LastMinute, Where

(* Forgetting what is older than a minute leaves the counts of all minutes *)
(* to come.                                                                *)
LEMMA LastMinuteCounts ==
    ASSUME NEW times \in Seq(Nat), NEW time \in Nat
    PROVE  /\ LastMinute(times, time) \in Seq(Nat)
           /\ Len(LastMinute(times, time)) = HowMany(times, FreshAt(time))
           /\ Matches(LastMinute(times, time), times, time)
<1>1. PICK wanted : wanted = {t \in ToSet(times) : time - t < Minute}
    OBVIOUS
<1>2. PICK gone : gone = ToSet(times) \ wanted
    OBVIOUS
<1>3. PICK s : s = LastMinute(times, time)
    OBVIOUS
<1>4. s = Without(times, gone)
    BY <1>1, <1>2, <1>3 DEF LastMinute, Only
<1>5. s \in Seq(Nat) /\ ToSet(s) = ToSet(times) \ gone
    BY <1>4, WithoutList
<1>6. ToSet(times) \subseteq Nat
    BY SequenceListed
<1>7. ASSUME NEW t \in Nat, t >= time
      PROVE  HowMany(s, FreshAt(t)) = HowMany(times, FreshAt(t))
    <2>1. HowMany(s, FreshAt(t)) = HowMany(times, FreshAt(t) \ gone)
        BY <1>4, CountWithout
    <2>2. \A x \in ToSet(times) : x \in FreshAt(t) => x \in wanted
        BY <1>1, <1>6, <1>7, RoutingAssumption DEF FreshAt
    <2>3. ToSet(times) \cap (FreshAt(t) \ gone) = ToSet(times) \cap FreshAt(t)
        BY <1>2, <2>2
    <2> QED BY <2>1, <2>3, CountLaws
<1>8. ToSet(s) \subseteq FreshAt(time)
    BY <1>1, <1>2, <1>5, <1>6 DEF FreshAt
<1>9. Len(s) = HowMany(s, FreshAt(time))
    BY <1>5, <1>8, CountLaws
<1> QED BY <1>3, <1>5, <1>7, <1>9 DEF Matches

(* Another use, and the same use again.                                    *)
LEMMA MatchesAppended ==
    ASSUME NEW used \in Seq(Nat), NEW truly \in Seq(Nat), NEW time \in Nat,
           Matches(used, truly, time)
    PROVE  Matches(Append(used, time), Append(LastMinute(truly, time), time), time)
<1>1. PICK s : s = LastMinute(truly, time)
    OBVIOUS
<1>2. s \in Seq(Nat) /\ Matches(s, truly, time)
    BY <1>1, LastMinuteCounts
<1>3. SUFFICES ASSUME NEW t \in Nat, t >= time
               PROVE  HowMany(Append(used, time), FreshAt(t)) = HowMany(Append(s, time), FreshAt(t))
    BY <1>1 DEF Matches
<1>4. HowMany(used, FreshAt(t)) = HowMany(s, FreshAt(t))
    BY <1>2, <1>3 DEF Matches
<1> QED BY <1>2, <1>4, CountAppends

(* Uses that are all a minute old say nothing of what is to come.          *)
LEMMA MatchesDrained ==
    ASSUME NEW used \in Seq(Nat), used # <<>>, Ascending(used), NEW truly \in Seq(Nat),
           NEW time \in Nat, time - Last(used) >= Minute, Matches(used, truly, time)
    PROVE  Matches(<<>>, truly, time)
<1>1. PICK n \in Nat : n = Len(used) /\ DOMAIN used = 1..n /\ n >= 1
    OBVIOUS
<1>2. \A i \in 1..n : used[i] \in Nat /\ used[i] <= used[n]
    <2>1. \A i \in 1..n : i \in DOMAIN used /\ n \in DOMAIN used /\ i <= n
        BY <1>1
    <2>2. \A i \in 1..n : used[i] <= used[n]
        BY <2>1 DEF Ascending
    <2>3. \A i \in 1..n : used[i] \in Nat
        BY <1>1
    <2> QED BY <2>2, <2>3
<1>3. Last(used) = used[n]
    BY <1>1 DEF Last
<1>4. \A x \in ToSet(used) : x \in Nat /\ time - x >= Minute
    BY <1>1, <1>2, <1>3, RoutingAssumption DEF ToSet
<1>5. PICK none : none = <<>>
    OBVIOUS
<1>6. none \in Seq(Nat) /\ ToSet(none) = {}
    BY <1>5 DEF ToSet
<1>7. SUFFICES ASSUME NEW t \in Nat, t >= time
               PROVE  HowMany(none, FreshAt(t)) = HowMany(truly, FreshAt(t))
    BY <1>5 DEF Matches
<1>8. ToSet(used) \cap FreshAt(t) = {}
    BY <1>4, <1>7, RoutingAssumption DEF FreshAt
<1>9. HowMany(used, FreshAt(t)) = 0
    BY <1>8, CountLaws
<1>10. HowMany(none, FreshAt(t)) = 0
    BY <1>6, CountLaws
<1> QED BY <1>7, <1>9, <1>10 DEF Matches

(* A list of times stays in order when the present is appended.            *)
LEMMA AscendingAppended ==
    ASSUME NEW times \in Seq(Nat), Ascending(times), NEW time \in Nat,
           \A i \in DOMAIN times : times[i] <= time
    PROVE  LET longer == Append(times, time)
           IN  /\ longer \in Seq(Nat) /\ Ascending(longer)
               /\ \A i \in DOMAIN longer : longer[i] <= time
<1>1. PICK n \in Nat : n = Len(times) /\ DOMAIN times = 1..n
    OBVIOUS
<1>2. PICK longer : longer = Append(times, time)
    OBVIOUS
<1>3. /\ longer \in Seq(Nat) /\ DOMAIN longer = 1..n + 1 /\ longer[n + 1] = time
      /\ \A i \in 1..n : longer[i] = times[i]
    BY <1>1, <1>2
<1>4. \A i \in 1..n + 1 : i \in 1..n \/ i = n + 1
    BY <1>1
<1>5. \A i \in DOMAIN longer : longer[i] <= time
    BY <1>1, <1>3, <1>4
<1>6. ASSUME NEW i \in DOMAIN longer, NEW j \in DOMAIN longer, i <= j
      PROVE  longer[i] <= longer[j]
    <2>1. CASE j = n + 1
        BY <1>3, <1>5, <2>1
    <2>2. CASE j \in 1..n
        <3>1. i \in 1..n
            BY <1>3, <1>6, <2>2
        <3> QED BY <1>1, <1>3, <1>6, <2>2, <3>1 DEF Ascending
    <2> QED BY <1>3, <1>4, <2>1, <2>2
<1> QED BY <1>2, <1>3, <1>5, <1>6 DEF Ascending

(* A decision keeps the count: it adds a use, and drops what is drained.   *)
LEMMA PostRouteSeen ==
    ASSUME UseSeen, NEW request, request.user \in Users, NEW id, NEW talksNow, UNCHANGED now,
           PostRoute(request, id, talksNow)
    PROVE  UseSeen'
<1>1. PICK isFree \in BOOLEAN : isFree <=> Named(id).tier = "free"
    OBVIOUS
<1>2. PICK used : used = IF isFree THEN [freeUse EXCEPT ![request.user] = Append(@, now)] ELSE freeUse
    OBVIOUS
<1> HIDE DEF Named
<1>3. freeUse' = Cleaned(used)
    BY <1>1, <1>2 DEF PostRoute
<1>4. given' = IF isFree
               THEN [given EXCEPT ![request.user] = Append(LastMinute(given[request.user], now), now)]
               ELSE given
    BY <1>1, RecentIs DEF PostRoute
<1>5. now \in Nat /\ freeUse \in [Users -> Seq(Nat)] /\ given \in [Users -> Seq(Nat)]
    BY DEF UseSeen, UseOK
<1>6. ASSUME NEW u \in Users
      PROVE  /\ freeUse[u] \in Seq(Nat) /\ given[u] \in Seq(Nat) /\ Ascending(freeUse[u])
             /\ \A i \in DOMAIN freeUse[u] : freeUse[u][i] <= now
             /\ Matches(freeUse[u], given[u], now)
    BY <1>5 DEF UseSeen, UseInOrder, UseMatches
<1>7. ASSUME NEW u \in Users
      PROVE  /\ used[u] = IF isFree /\ u = request.user THEN Append(freeUse[u], now) ELSE freeUse[u]
             /\ given'[u] = IF isFree /\ u = request.user
                            THEN Append(LastMinute(given[u], now), now) ELSE given[u]
    BY <1>2, <1>4, <1>5
<1>8. ASSUME NEW u \in Users
      PROVE  /\ used[u] \in Seq(Nat) /\ given'[u] \in Seq(Nat) /\ Ascending(used[u])
             /\ \A i \in DOMAIN used[u] : used[u][i] <= now
             /\ Matches(used[u], given'[u], now)
    <2>1. CASE isFree /\ u = request.user
        <3>1. used[u] = Append(freeUse[u], now) /\ given'[u] = Append(LastMinute(given[u], now), now)
            BY <1>7, <2>1
        <3>2. given'[u] \in Seq(Nat)
            BY <1>5, <1>6, <3>1, LastMinuteCounts
        <3>3. Matches(used[u], given'[u], now)
            BY <1>5, <1>6, <3>1, MatchesAppended
        <3>4. /\ Append(freeUse[u], now) \in Seq(Nat) /\ Ascending(Append(freeUse[u], now))
              /\ \A i \in DOMAIN Append(freeUse[u], now) : Append(freeUse[u], now)[i] <= now
            BY <1>5, <1>6, AscendingAppended
        <3> QED BY <3>1, <3>2, <3>3, <3>4
    <2>2. CASE ~(isFree /\ u = request.user)
        BY <1>6, <1>7, <2>2
    <2> QED BY <2>1, <2>2
<1>9. ASSUME NEW u \in Users
      PROVE  /\ freeUse'[u] \in Seq(Nat) /\ Ascending(freeUse'[u])
             /\ \A i \in DOMAIN freeUse'[u] : freeUse'[u][i] <= now
             /\ Matches(freeUse'[u], given'[u], now)
    <2>1. \/ freeUse'[u] = used[u]
          \/ freeUse'[u] = <<>> /\ used[u] # <<>> /\ now - Last(used[u]) >= Minute
        BY <1>3 DEF Cleaned, Drained
    <2>2. CASE freeUse'[u] = used[u]
        BY <1>8, <2>2
    <2>3. CASE freeUse'[u] = <<>> /\ used[u] # <<>> /\ now - Last(used[u]) >= Minute
        <3>1. Matches(<<>>, given'[u], now)
            BY <1>5, <1>8, <2>3, MatchesDrained
        <3> QED BY <2>3, <3>1 DEF Ascending
    <2> QED BY <2>1, <2>2, <2>3
<1>10. freeUse' = [u \in Users |-> freeUse'[u]]
    BY <1>3 DEF Cleaned
<1>11. given' = [u \in Users |-> given'[u]]
    BY <1>4, <1>5
<1>12. UseOK'
    <2>1. \A u \in Users : freeUse'[u] \in Seq(Nat)
        BY <1>9
    <2>2. \A u \in Users : given'[u] \in Seq(Nat)
        BY <1>8
    <2>3. freeUse' \in [Users -> Seq(Nat)]
        BY <1>10, <2>1
    <2>4. given' \in [Users -> Seq(Nat)]
        BY <1>11, <2>2
    <2> QED BY <1>5, <2>3, <2>4 DEF UseOK
<1>13. UseInOrder'
    BY <1>9 DEF UseInOrder
<1>14. UseMatches'
    BY <1>9 DEF UseMatches
<1> QED BY <1>12, <1>13, <1>14 DEF UseSeen

(* Every step keeps the counts true,                                       *)
LEMMA StepSeen ==
    UseSeen /\ [Next]_vars => UseSeen'
<1> SUFFICES ASSUME UseSeen, [Next]_vars PROVE UseSeen'
    OBVIOUS
<1>1. CASE UNCHANGED <<now, freeUse, given>>
    BY <1>1 DEF UseSeen, UseOK, UseInOrder, UseMatches
<1>2. ASSUME NEW name \in DOMAIN Requests, NEW around, NEW explore, Decide(name, around, explore)
      PROVE  UseSeen'
    <2>1. PICK request : request = [Requests[name] EXCEPT
                    !.routing = IF around.pressed THEN "cost-optimized" ELSE @]
        OBVIOUS
    <2>2. request.user \in Users
        BY <2>1, Redirected DEF Users
    <2>3. UNCHANGED now
        BY <1>2 DEF Decide
    <2>4. \/ UNCHANGED <<freeUse, given>>
          \/ \E id, talksNow : PostRoute(request, id, talksNow)
        BY <1>2, <2>1 DEF Decide
    <2> QED BY <1>1, <2>2, <2>3, <2>4, PostRouteSeen
<1>3. CASE Tick
    <2>1. now' = now + 1 /\ UNCHANGED <<freeUse, given>> /\ now \in Nat
        BY <1>3 DEF Tick, UseSeen, UseOK
    <2>2. \A x \in Int : x <= now => x <= now'
        BY <2>1
    <2>3. \A t \in Nat : t >= now' => t >= now
        BY <2>1
    <2>4. UseOK'
        BY <2>1 DEF UseSeen, UseOK
    <2>5. UseInOrder'
        <3>1. ASSUME NEW u \in Users, NEW i \in DOMAIN freeUse[u] PROVE freeUse[u][i] <= now'
            <4>1. freeUse[u] \in Seq(Nat)
                BY DEF UseSeen, UseOK
            <4>2. freeUse[u][i] \in Nat
                BY <4>1
            <4> QED BY <2>2, <4>2 DEF UseSeen, UseInOrder
        <3> QED BY <2>1, <3>1 DEF UseSeen, UseInOrder
    <2>6. UseMatches'
        BY <2>1, <2>3 DEF UseSeen, UseMatches, Matches
    <2> QED BY <2>4, <2>5, <2>6 DEF UseSeen
<1>4. Next => \/ UNCHANGED <<now, freeUse, given>>
              \/ \E name \in DOMAIN Requests : \E around \in Surroundings[name] :
                    \E explore \in {0, 1, 2} : Decide(name, around, explore)
              \/ Tick
    BY DEF Next, RecordPromptCacheSuccess
<1> QED BY <1>1, <1>2, <1>3, <1>4 DEF vars

(* and so they are always true.                                            *)
LEMMA AlwaysSeen == Spec => []UseSeen
<1>1. ASSUME Init PROVE UseSeen
    <2>1. PICK none : none = <<>>
        OBVIOUS
    <2>2. /\ now = 0
          /\ freeUse = [user \in Users |-> none] /\ given = [user \in Users |-> none]
        BY <1>1, <2>1 DEF Init
    <2>3. none \in Seq(Nat) /\ DOMAIN none = {}
        BY <2>1
    <2>4. UseOK
        BY <2>2, <2>3 DEF UseOK
    <2>5. UseInOrder
        BY <2>2, <2>3 DEF UseInOrder, Ascending
    <2>6. UseMatches
        BY <2>2 DEF UseMatches, Matches
    <2> QED BY <2>4, <2>5, <2>6 DEF UseSeen
<1> QED BY <1>1, StepSeen, PTL DEF Spec

(* The count the engine goes by is the true one.                           *)
LEMMA RpmIsTrue ==
    ASSUME UseSeen, NEW user \in Users
    PROVE  FreeRpm(user) = Len(Recent(given[user], Minute)) /\ FreeRpm(user) \in Nat
<1>1. now \in Nat /\ freeUse[user] \in Seq(Nat) /\ given[user] \in Seq(Nat)
    BY DEF UseSeen, UseOK
<1>2. FreeRpm(user) = HowMany(freeUse[user], FreshAt(now))
    <2>1. \A i \in DOMAIN freeUse[user] : freeUse[user][i] \in Nat
        BY <1>1
    <2>2. {i \in DOMAIN freeUse[user] : now - freeUse[user][i] < Minute}
            = {i \in DOMAIN freeUse[user] : freeUse[user][i] \in FreshAt(now)}
        BY <2>1 DEF FreshAt
    <2> QED BY <2>2 DEF FreeRpm, HowMany
<1>3. HowMany(freeUse[user], FreshAt(now)) = HowMany(given[user], FreshAt(now))
    BY <1>1 DEF UseSeen, UseMatches, Matches
<1>4. Len(LastMinute(given[user], now)) = HowMany(given[user], FreshAt(now))
    BY <1>1, LastMinuteCounts
<1>5. HowMany(freeUse[user], FreshAt(now)) \in Nat
    BY <1>1, CountLaws
<1> QED BY <1>2, <1>3, <1>4, <1>5, RecentIs

(* The candidates do not depend on how a request is to be routed.          *)
LEMMA CandidatesRedirected ==
    ASSUME NEW name \in DOMAIN Requests, NEW routing, NEW a, NEW around
    PROVE  Candidates([Requests[name] EXCEPT !.routing = routing], a, around)
             = Candidates(Requests[name], a, around)
<1>1. PICK r, q : r = Requests[name] /\ q = [r EXCEPT !.routing = routing]
    OBVIOUS
<1>2. {"tools", "structured", "capabilities", "plan", "streaming", "cap"} \subseteq DOMAIN r
    BY <1>1, RequestsAssumption DEF RequestFields
<1>3. /\ q.tools = r.tools /\ q.structured = r.structured /\ q.capabilities = r.capabilities
      /\ q.plan = r.plan /\ q.streaming = r.streaming /\ q.cap = r.cap
    BY <1>1, <1>2
<1>4. \A m : Qualified(m, q, a) <=> Qualified(m, r, a)
    BY <1>3 DEF Qualified
<1>5. \A m : PassesHardConstraints(m, q, a, NearLimit) <=> PassesHardConstraints(m, r, a, NearLimit)
    BY <1>3, <1>4 DEF PassesHardConstraints
<1>6. RelaxedFilter(q, a) = RelaxedFilter(r, a)
    BY <1>4 DEF RelaxedFilter, Where
<1>7. {m \in ToSet(Catalog) : PassesHardConstraints(m, q, a, NearLimit) /\ m.provider \notin around.broken}
        = {m \in ToSet(Catalog) : PassesHardConstraints(m, r, a, NearLimit) /\ m.provider \notin around.broken}
    BY <1>5
<1>8. Candidates(q, a, around) = Candidates(r, a, around)
    BY <1>3, <1>6, <1>7 DEF Candidates, Where
<1> QED BY <1>1, <1>8

(* A free model chosen by the scores, of a user kept off them, means there *)
(* was nothing else.                                                       *)
LEMMA ScoredTamed ==
    ASSUME NEW name \in DOMAIN Requests, NEW request,
           request.priority \in {"low", "normal", "high", "critical"},
           NEW around, NEW explore \in Nat, ~(FreeRpm(request.user) <= AbuseLimit)
    PROVE  LET decision == RouteCore(name, request, around, explore).decision
               pool == Candidates(request, Analysis[name], around)
           IN  decision.rule = "tier_selection" /\ Named(decision.chosen).tier = "free"
                 => TierOf(pool, "free") = pool
<1>1. PICK a, pool, tight : /\ a = Analysis[name]
                            /\ pool = Candidates(request, a, around)
                            /\ tight = (pool # <<>> /\ IsTight(a, pool))
    OBVIOUS
<1>2. PICK b : b = IF tight THEN ShortAnalysis[name] ELSE a
    OBVIOUS
<1>3. PICK way : way = Way(request, a, b, pool, around)
    OBVIOUS
<1>4. PICK decision : decision = RouteAlong(way, request, a, b, pool, around, explore)
    OBVIOUS
<1>5. RouteCore(name, request, around, explore).decision = decision
    BY <1>1, <1>2, <1>3, <1>4 DEF RouteCore, RouteWith
<1>6. SUFFICES ASSUME decision.rule = "tier_selection", Named(decision.chosen).tier = "free"
               PROVE  TierOf(pool, "free") = pool
    BY <1>1, <1>5
<1>7. way = "tier_selection" /\ way \notin Blocked
    <2>1. CASE way \in Blocked
        BY <1>4, <1>6, <2>1 DEF RouteAlong, Blocked
    <2>2. CASE way \notin Blocked
        <3>1. PICK c : decision = Decision(way, c)
            BY <1>4, <2>2 DEF RouteAlong
        <3>2. decision.rule = way
            BY <3>1 DEF Decision, Chained
        <3> QED BY <1>6, <2>2, <3>2
    <2> QED BY <2>1, <2>2
<1>8. pool # <<>> /\ Pool(pool)
    BY <1>1, <1>3, <1>7, WayOpen, CandidatesQualified
<1>9. b.input \in Int /\ b.billing \in Int
    BY <1>1, <1>2, AnalysesInt
<1>10. PICK c : c = Scored(request, b, pool, around, explore)
    OBVIOUS
<1>11. Chosen(c, IdsOf(Tamed(request, pool)))
    BY <1>8, <1>9, <1>10, ScoredChooses
<1>12. decision = Decision(way, c)
    BY <1>4, <1>7, <1>10 DEF RouteAlong, Blocked
<1>13. decision.chosen \in IdsOf(c.candidates)
    BY <1>11, <1>12, DecisionOffers
<1>14. PICK tamed : tamed = Tamed(request, pool)
    OBVIOUS
<1>15. PICK i \in DOMAIN tamed : decision.chosen = tamed[i].id
    BY <1>11, <1>13, <1>14 DEF Chosen, IdsOf
<1>16. Pool(tamed)
    BY <1>8, <1>14, TamedPool
<1>17. tamed[i] \in ToSet(tamed) /\ Sound(tamed[i])
    BY <1>16, PoolFields
<1>18. tamed[i].tier = "free"
    BY <1>6, <1>15, <1>17, NamedIs DEF Alike
<1>19. \A m \in ToSet(pool) : m.tier = "free"
    BY <1>8, <1>14, <1>17, <1>18, TamedPool
<1>20. TierOf(pool, "free") = Without(pool, {})
    <2>1. {m \in ToSet(pool) : m.tier = "free"} = ToSet(pool)
        BY <1>19
    <2>2. PICK S : S = {m \in ToSet(pool) : m.tier = "free"}
        OBVIOUS
    <2>3. TierOf(pool, "free") = Without(pool, ToSet(pool) \ S)
        BY <2>2 DEF TierOf, Where, Only
    <2>4. ToSet(pool) \ S = {}
        BY <2>1, <2>2
    <2> QED BY <2>3, <2>4
<1>21. Without(pool, {}) = pool
    BY <1>8, WithoutNone DEF Pool, Listed
<1> QED BY <1>20, <1>21

(* A user who took more free models within the minute than allowed is not  *)
(* given another one by the scores while a paid one would do.              *)
THEOREM AbuseAlwaysSeen == Spec => AbuseSeen
<1>1. ASSUME UseSeen, [Next]_vars, count' # count,
             last'.decision.rule = "tier_selection",
             Len(Recent(given[Requests[last'.name].user], Minute)) > AbuseLimit,
             Named(last'.decision.chosen).tier = "free"
      PROVE  LET pool == Candidates(Requests[last'.name], Analysis[last'.name], last'.around)
             IN  TierOf(pool, "free") = pool
    <2>1. PICK name \in DOMAIN Requests :
            \E around : \E explore \in {0, 1, 2} : Decide(name, around, explore)
        <3>1. Next => \/ UNCHANGED count
                      \/ \E name \in DOMAIN Requests : \E around \in Surroundings[name] :
                            \E explore \in {0, 1, 2} : Decide(name, around, explore)
            BY DEF Next, RecordPromptCacheSuccess, Tick
        <3> QED BY <1>1, <3>1 DEF vars
    <2>12. PICK around : \E explore \in {0, 1, 2} : Decide(name, around, explore)
        BY <2>1
    <2>13. PICK explore \in {0, 1, 2} : Decide(name, around, explore)
        BY <2>12
    <2>2. PICK routing : routing = IF around.pressed THEN "cost-optimized" ELSE Requests[name].routing
        OBVIOUS
    <2>3. PICK request : request = [Requests[name] EXCEPT !.routing = routing]
        OBVIOUS
    <2>4. last' = RouteCore(name, request, around, explore)
        BY <2>2, <2>3, <2>13 DEF Decide
    <2>5. /\ request.priority \in {"low", "normal", "high", "critical"}
          /\ request.user = Requests[name].user
        BY <2>3, Redirected
    <2>6. last'.name = name /\ last'.around = around
        BY <2>4, <2>5, RouteRests
    <2>7. request.user \in Users
        BY <2>5 DEF Users
    <2>8. ~(FreeRpm(request.user) <= AbuseLimit)
        <3>1. /\ FreeRpm(request.user) > AbuseLimit
              /\ FreeRpm(request.user) \in Nat /\ AbuseLimit \in Nat
            BY <1>1, <2>5, <2>6, <2>7, RpmIsTrue, RoutingAssumption
        <3> QED BY <3>1
    <2>9. PICK pool : pool = Candidates(request, Analysis[name], around)
        OBVIOUS
    <2>10. TierOf(pool, "free") = pool
        BY <1>1, <2>4, <2>5, <2>8, <2>9, ScoredTamed
    <2>11. pool = Candidates(Requests[name], Analysis[name], around)
        BY <2>3, <2>9, CandidatesRedirected
    <2> QED BY <2>6, <2>10, <2>11
<1>2. UseSeen /\ [Next]_vars =>
        (/\ count' # count
         /\ last'.decision.rule = "tier_selection"
         /\ Len(Recent(given[Requests[last'.name].user], Minute)) > AbuseLimit
         /\ Named(last'.decision.chosen).tier = "free"
         => LET pool == Candidates(Requests[last'.name], Analysis[last'.name], last'.around)
            IN  TierOf(pool, "free") = pool)
    BY <1>1
<1> QED BY <1>2, AlwaysSeen, PTL DEF Spec, AbuseSeen

-----------------------------------------------------------------------------
(* The stores the engine keeps in the order of their use.                  *)

(* What is left of a list without repetitions has none.                    *)
LEMMA OnlyInjective ==
    ASSUME NEW s, Listed(s), IsInjective(s), NEW wanted
    PROVE  IsInjective(Only(s, wanted))
BY WithoutList DEF Listed, Only

(* The entry of a key and the others share out a store.                    *)
LEMMA StoreShared ==
    ASSUME NEW store, Listed(store), NEW key
    PROVE  /\ Listed(EntryOf(store, key)) /\ Listed(OthersOf(store, key))
           /\ ToSet(EntryOf(store, key)) = {e \in ToSet(store) : e.key = key}
           /\ ToSet(OthersOf(store, key)) = {e \in ToSet(store) : e.key # key}
           /\ IsInjective(store) =>
                IsInjective(EntryOf(store, key)) /\ IsInjective(OthersOf(store, key))
<1>1. PICK mine, theirs : /\ mine = {e \in ToSet(store) : e.key = key}
                          /\ theirs = {e \in ToSet(store) : e.key # key}
    OBVIOUS
<1>2. EntryOf(store, key) = Only(store, mine) /\ OthersOf(store, key) = Only(store, theirs)
    BY <1>1 DEF EntryOf, OthersOf, Where
<1>3. ToSet(store) \cap mine = mine /\ ToSet(store) \cap theirs = theirs
    BY <1>1
<1> QED BY <1>1, <1>2, <1>3, OnlyListed, OnlyInjective

(* A lookup drops the entry of the key, unless it is good.                 *)
LEMMA LookedList ==
    ASSUME NEW store, Listed(store), NEW key, NEW good
    PROVE  LET s == Looked(store, key, Only(EntryOf(store, key), good))
           IN  /\ Listed(s)
               /\ ToSet(s) = {e \in ToSet(store) : e.key = key => e \in good}
               /\ IsInjective(store) => IsInjective(s)
<1>1. PICK mine, theirs : mine = EntryOf(store, key) /\ theirs = OthersOf(store, key)
    OBVIOUS
<1>2. /\ Listed(mine) /\ ToSet(mine) = {e \in ToSet(store) : e.key = key}
      /\ Listed(theirs) /\ ToSet(theirs) = {e \in ToSet(store) : e.key # key}
      /\ IsInjective(store) => IsInjective(mine) /\ IsInjective(theirs)
    BY <1>1, StoreShared
<1>3. PICK kept : kept = Only(mine, good)
    OBVIOUS
<1>4. /\ Listed(kept) /\ ToSet(kept) = ToSet(mine) \cap good
      /\ IsInjective(mine) => IsInjective(kept)
    BY <1>2, <1>3, OnlyListed, OnlyInjective
<1>5. PICK s : s = Looked(store, key, kept)
    OBVIOUS
<1>6. CASE mine = <<>>
    <2>1. s = store
        BY <1>1, <1>5, <1>6 DEF Looked
    <2>2. ToSet(mine) = {}
        BY <1>6 DEF ToSet
    <2> QED BY <1>1, <1>2, <1>3, <1>5, <2>1, <2>2
<1>7. CASE mine # <<>>
    <2>1. s = theirs \o kept
        BY <1>1, <1>5, <1>7 DEF Looked
    <2>2. theirs \in Seq(ToSet(store)) /\ kept \in Seq(ToSet(store))
        <3>1. ToSet(theirs) \subseteq ToSet(store) /\ ToSet(kept) \subseteq ToSet(store)
            BY <1>2, <1>4
        <3> QED BY <1>2, <1>4, <3>1 DEF Listed
    <2>3. s \in Seq(ToSet(store)) /\ ToSet(s) = ToSet(theirs) \cup ToSet(kept)
        BY <2>1, <2>2, ConcatList
    <2>4. ToSet(theirs) \cap ToSet(kept) = {}
        BY <1>2, <1>4
    <2>5. IsInjective(store) => IsInjective(s)
        BY <1>2, <1>4, <2>1, <2>2, <2>4, ConcatList
    <2>6. Listed(s)
        BY <2>3, SequenceListed
    <2>7. ToSet(s) = {e \in ToSet(store) : e.key = key => e \in good}
        BY <1>2, <1>4, <2>3
    <2> QED BY <1>1, <1>3, <1>5, <2>5, <2>6, <2>7
<1> QED BY <1>6, <1>7

(* A new entry replaces the one of its key; only in a full store another   *)
(* one may make room for it.                                               *)
LEMMA PutList ==
    ASSUME NEW store, Listed(store), NEW entry, NEW limit \in Nat \ {0}
    PROVE  LET s == Put(store, entry, limit)
               others == {e \in ToSet(store) : e.key # entry.key}
           IN  /\ Listed(s)
               /\ entry \in ToSet(s) /\ ToSet(s) \subseteq others \cup {entry}
               /\ \/ ToSet(s) = others \cup {entry}
                  \/ Len(store) >= limit /\ Len(OthersOf(store, entry.key)) = Len(store)
               /\ IsInjective(store) => IsInjective(s)
<1>1. PICK theirs : theirs = OthersOf(store, entry.key)
    OBVIOUS
<1>2. /\ Listed(theirs) /\ ToSet(theirs) = {e \in ToSet(store) : e.key # entry.key}
      /\ IsInjective(store) => IsInjective(theirs)
    BY <1>1, StoreShared
<1>3. PICK full \in BOOLEAN : full <=> Len(theirs) = Len(store) /\ Len(store) >= limit
    OBVIOUS
<1>4. PICK rest : rest = IF full THEN Tail(theirs) ELSE theirs
    OBVIOUS
<1>5. PICK s : s = Put(store, entry, limit)
    OBVIOUS
<1>6. s = Append(rest, entry)
    BY <1>1, <1>3, <1>4, <1>5 DEF Put
<1>7. /\ rest \in Seq(ToSet(theirs)) /\ ToSet(rest) \subseteq ToSet(theirs)
      /\ full \/ rest = theirs
      /\ IsInjective(theirs) => IsInjective(rest)
    <2>1. CASE full
        <3>1. theirs \in Seq(ToSet(theirs)) /\ theirs # <<>>
            <4>1. theirs \in Seq(ToSet(theirs)) /\ Len(theirs) >= limit
                BY <1>2, <1>3, <2>1 DEF Listed
            <4> QED BY <4>1
        <3> QED BY <1>4, <2>1, <3>1, TailList
    <2>2. CASE ~full
        BY <1>2, <1>4, <2>2 DEF Listed
    <2> QED BY <1>3, <2>1, <2>2
<1>8. PICK S : S = ToSet(theirs) \cup {entry}
    OBVIOUS
<1>9. rest \in Seq(S) /\ entry \in S /\ entry \notin ToSet(rest)
    BY <1>2, <1>7, <1>8
<1>10. /\ s \in Seq(S) /\ ToSet(s) = ToSet(rest) \cup {entry}
       /\ IsInjective(rest) => IsInjective(s)
    BY <1>6, <1>9, AppendList
<1>11. Listed(s)
    BY <1>10, SequenceListed
<1>12. /\ entry \in ToSet(s) /\ ToSet(s) \subseteq ToSet(theirs) \cup {entry}
       /\ full \/ ToSet(s) = ToSet(theirs) \cup {entry}
       /\ IsInjective(store) => IsInjective(s)
    BY <1>2, <1>7, <1>10
<1> QED BY <1>1, <1>2, <1>3, <1>5, <1>11, <1>12

-----------------------------------------------------------------------------
(* The prompt cache.                                                       *)

(* Every entry is the last success of its key.                             *)
WarmTruly ==
    /\ Listed(warm)
    /\ \A e \in ToSet(warm) : e.key \in DOMAIN cached /\ cached[e.key] = e

(* A part of the store is as true as the whole.                            *)
LEMMA WarmPart ==
    ASSUME WarmTruly, Listed(warm'), ToSet(warm') \subseteq ToSet(warm), UNCHANGED cached
    PROVE  WarmTruly'
BY DEF WarmTruly

(* A success makes its own entry, in the place of an older one.            *)
LEMMA RecordWarm ==
    ASSUME WarmTruly, NEW id, RecordPromptCacheSuccess(id)
    PROVE  WarmTruly'
<1>1. PICK request, key : request = Requests[last.name] /\ key = CacheKey(request)
    OBVIOUS
<1>2. PICK entry : entry = WarmedBy(request, Named(id))
    OBVIOUS
<1>3. entry.key = key
    BY <1>1, <1>2 DEF WarmedBy
<1>4. TrueCacheKey(request) = key
    BY <1>1 DEF TrueCacheKey, Owner, CacheKey, ScopedKey
<1>5. warm' = Put(warm, entry, MaxWarm)
    BY <1>1, <1>2 DEF RecordPromptCacheSuccess, Warmed
<1>6. cached' = With(cached, key, entry)
    BY <1>1, <1>2, <1>4 DEF RecordPromptCacheSuccess
<1>7. /\ DOMAIN cached' = {key} \cup DOMAIN cached /\ cached'[key] = entry
      /\ \A k \in DOMAIN cached : k # key => cached'[k] = cached[k]
    BY <1>6 DEF With
<1>8. /\ Listed(warm')
      /\ ToSet(warm') \subseteq {e \in ToSet(warm) : e.key # key} \cup {entry}
    <2>1. Listed(warm) /\ MaxWarm \in Nat \ {0}
        BY RoutingAssumption DEF WarmTruly
    <2> QED BY <1>3, <1>5, <2>1, PutList
<1> QED BY <1>3, <1>7, <1>8 DEF WarmTruly

(* Every step keeps the store true,                                        *)
LEMMA StepWarm ==
    WarmTruly /\ [Next]_vars => WarmTruly'
<1> SUFFICES ASSUME WarmTruly, [Next]_vars PROVE WarmTruly'
    OBVIOUS
<1>1. CASE UNCHANGED <<warm, cached>>
    BY <1>1 DEF WarmTruly
<1>2. ASSUME NEW name, NEW around, NEW explore, Decide(name, around, explore)
      PROVE  WarmTruly'
    <2>1. UNCHANGED cached
        BY <1>2 DEF Decide
    <2>2. \/ UNCHANGED warm
          \/ \E key, good : warm' = Looked(warm, key, Only(EntryOf(warm, key), good))
        <3>1. PICK request : request = [Requests[name] EXCEPT
                        !.routing = IF around.pressed THEN "cost-optimized" ELSE @]
            OBVIOUS
        <3>2. PICK key : key = CacheKey(request)
            OBVIOUS
        <3>3. warm' = warm \/ warm' = Looked(warm, key, WarmEntry(request))
            BY <1>2, <3>1, <3>2 DEF Decide
        <3>4. PICK good : good = {e \in ToSet(EntryOf(warm, key)) :
                                    now <= e.until /\ e.prefix = request.system}
            OBVIOUS
        <3>5. WarmEntry(request) = Only(EntryOf(warm, key), good)
            BY <3>2, <3>4 DEF WarmEntry, Where
        <3> QED BY <3>3, <3>5
    <2>3. Listed(warm') /\ ToSet(warm') \subseteq ToSet(warm)
        BY <2>2, LookedList DEF WarmTruly
    <2> QED BY <2>1, <2>3, WarmPart
<1>3. Next => \/ UNCHANGED <<warm, cached>>
              \/ \E id : RecordPromptCacheSuccess(id)
              \/ \E name \in DOMAIN Requests : \E around \in Surroundings[name] :
                    \E explore \in {0, 1, 2} : Decide(name, around, explore)
    BY DEF Next, Tick
<1> QED BY <1>1, <1>2, <1>3, RecordWarm DEF vars

(* and so it is always true.                                               *)
LEMMA AlwaysWarm == Spec => []WarmTruly
<1>1. ASSUME Init PROVE WarmTruly
    <2>1. PICK none : none = <<>>
        OBVIOUS
    <2>2. Listed(none) /\ ToSet(none) = {}
        BY <2>1 DEF Listed, ToSet
    <2> QED BY <1>1, <2>1, <2>2 DEF Init, WarmTruly
<1> QED BY <1>1, StepWarm, PTL DEF Spec

(* What a request is remembered by does not depend on how it is routed.    *)
LEMMA KeysRedirected ==
    ASSUME NEW name \in DOMAIN Requests, NEW routing
    PROVE  LET request == [Requests[name] EXCEPT !.routing = routing]
           IN  /\ request.user = Requests[name].user /\ request.tenant = Requests[name].tenant
               /\ request.talk = Requests[name].talk
               /\ request.run = Requests[name].run /\ request.system = Requests[name].system
<1>1. {"routing", "user", "tenant", "talk", "run", "system"} \subseteq DOMAIN Requests[name]
    BY RequestsAssumption DEF RequestFields
<1> QED BY <1>1

(* A provider said to be warm is the one of the last success of this key.  *)
LEMMA WarmIsCached ==
    ASSUME WarmTruly, NEW request, WarmProvider(request) # None
    PROVE  LET key == TrueCacheKey(request)
           IN  /\ key \in DOMAIN cached
               /\ cached[key].provider = WarmProvider(request)
               /\ cached[key].prefix = request.system
               /\ now <= cached[key].until
<1>1. PICK key : key = CacheKey(request)
    OBVIOUS
<1>2. TrueCacheKey(request) = key
    BY <1>1 DEF TrueCacheKey, Owner, CacheKey, ScopedKey
<1>3. PICK mine : mine = EntryOf(warm, key)
    OBVIOUS
<1>4. Listed(mine) /\ ToSet(mine) = {e \in ToSet(warm) : e.key = key}
    BY <1>3, StoreShared DEF WarmTruly
<1>5. PICK good : good = {e \in ToSet(mine) : now <= e.until /\ e.prefix = request.system}
    OBVIOUS
<1>6. PICK found : found = Only(mine, good)
    OBVIOUS
<1>7. WarmEntry(request) = found
    BY <1>1, <1>3, <1>5, <1>6 DEF WarmEntry, Where
<1>8. found # <<>> /\ WarmProvider(request) = found[1].provider
    BY <1>7 DEF WarmProvider
<1>9. Listed(found) /\ ToSet(found) = ToSet(mine) \cap good
    BY <1>4, <1>6, OnlyListed
<1>10. found[1] \in ToSet(found)
    <2>1. found \in Seq(ToSet(found))
        BY <1>9 DEF Listed
    <2> QED BY <1>8, <2>1
<1>11. /\ found[1] \in ToSet(warm) /\ found[1].key = key
       /\ now <= found[1].until /\ found[1].prefix = request.system
    BY <1>4, <1>5, <1>9, <1>10
<1> QED BY <1>2, <1>8, <1>11 DEF WarmTruly

(* A choice said to be warm is of the provider that has the prompt warm.   *)
LEMMA ScoredWarm ==
    ASSUME NEW pool, Pool(pool), pool # <<>>,
           NEW request, request.priority \in {"low", "normal", "high", "critical"},
           NEW a, a.input \in Int, a.billing \in Int, NEW around, NEW explore \in Nat,
           Scored(request, a, pool, around, explore).status = "warm"
    PROVE  LET c == Scored(request, a, pool, around, explore)
           IN  WarmProvider(request) # None /\ c.model.provider = WarmProvider(request)
<1>1. PICK candidates : candidates = Adjusted(Tamed(request, pool), a, around)
    OBVIOUS
<1>2. PICK contenders : contenders = Contenders(request, a, candidates)
    OBVIOUS
<1>3. PICK scored, ids : /\ scored = WithScores(request, a, candidates, contenders)
                         /\ ids = IdsOf(contenders)
    OBVIOUS
<1>4. Pool(scored)
    <2>1. PICK tamed : tamed = Tamed(request, pool)
        OBVIOUS
    <2>2. Pool(tamed) /\ tamed # <<>>
        BY <2>1, TamedPool
    <2>3. Pool(candidates) /\ candidates # <<>>
        BY <1>1, <2>1, <2>2, AdjustedPool
    <2>4. Pool(contenders) /\ contenders # <<>>
        BY <1>2, <2>3, ContendersPool
    <2> QED BY <1>3, <2>3, <2>4, ScoredPool
<1>5. PICK best : best = Only(scored, {m \in ToSet(scored) : m.id \in ids})
    OBVIOUS
<1>6. Pool(best)
    BY <1>4, <1>5, PoolOnly
<1>7. PICK race : race = Pinned(request, a, best)
    OBVIOUS
<1>8. PICK model : model = Elected(request, a, scored, Best(race.models, LAMBDA m : m.score), explore)
    OBVIOUS
<1>9. PICK afforded : afforded = Afforded(model, scored, a, around.room)
    OBVIOUS
<1>10. PICK c : c = Scored(request, a, pool, around, explore)
    OBVIOUS
<1>11. c = Settled(request, afforded, scored, race.status)
    BY <1>1, <1>2, <1>3, <1>5, <1>7, <1>8, <1>9, <1>10
       DEF Scored, Weighed, Compared, Raced, Where
<1>12. c.model = afforded.model /\ c.status = CacheStatus(request, race.status, afforded.model)
    BY <1>11 DEF Settled, Held, Choice
<1>13. /\ race.status = "warm"
       /\ WarmProvider(request) = None \/ c.model.provider = WarmProvider(request)
    BY <1>10, <1>12 DEF CacheStatus
<1>14. WarmProvider(request) # None
    <2>1. PICK mine : mine = {m \in ToSet(best) : m.provider = WarmProvider(request)}
        OBVIOUS
    <2>2. Only(best, mine) # <<>>
        BY <1>7, <1>13, <2>1 DEF Pinned, Where
    <2>3. PICK m \in ToSet(best) : m.provider = WarmProvider(request)
        BY <1>6, <2>1, <2>2, OnlyListed DEF Pool
    <2>4. PICK k \in ToSet(Catalog) : Alike(m, k)
        BY <1>6, <2>3 DEF Pool, Sound
    <2>5. m.provider = k.provider /\ k.provider # None
        BY <2>4, CatalogAssumption DEF Alike
    <2> QED BY <2>3, <2>5
<1> QED BY <1>10, <1>13, <1>14

(* A decision says so only of a provider that has the prompt warm.         *)
LEMMA RouteWarm ==
    ASSUME NEW name \in DOMAIN Requests, NEW request,
           request.priority \in {"low", "normal", "high", "critical"},
           NEW around, NEW explore \in Nat
    PROVE  LET decision == RouteCore(name, request, around, explore).decision
           IN  decision.rule \notin Blocked /\ decision.status = "warm"
                 => /\ WarmProvider(request) # None
                    /\ Named(decision.chosen).provider = WarmProvider(request)
<1>1. PICK a, pool, tight : /\ a = Analysis[name]
                            /\ pool = Candidates(request, a, around)
                            /\ tight = (pool # <<>> /\ IsTight(a, pool))
    OBVIOUS
<1>2. PICK b : b = IF tight THEN ShortAnalysis[name] ELSE a
    OBVIOUS
<1>3. PICK way : way = Way(request, a, b, pool, around)
    OBVIOUS
<1>4. PICK decision : decision = RouteAlong(way, request, a, b, pool, around, explore)
    OBVIOUS
<1>5. RouteCore(name, request, around, explore).decision = decision
    BY <1>1, <1>2, <1>3, <1>4 DEF RouteCore, RouteWith
<1>6. SUFFICES ASSUME decision.rule \notin Blocked, decision.status = "warm"
               PROVE  /\ WarmProvider(request) # None
                      /\ Named(decision.chosen).provider = WarmProvider(request)
    BY <1>5
<1>7. way \notin Blocked
    BY <1>4, <1>6 DEF RouteAlong
<1>8. PICK c : /\ decision = Decision(way, c)
               /\ c = IF way = "tier_selection" THEN Scored(request, b, pool, around, explore)
                      ELSE Shortcut(request, IF way = "daily_budget_cap_free_tier" THEN a ELSE b,
                                    way, pool, around)
    BY <1>4, <1>7 DEF RouteAlong
<1>9. decision.chosen = c.model.id /\ c.status = "warm"
    BY <1>6, <1>8 DEF Decision, Chained
<1>10. way = "tier_selection"
    <2>1. ASSUME NEW e PROVE Shortcut(request, e, way, pool, around).status = "cold"
        BY DEF Shortcut, Held, Choice
    <2> QED BY <1>8, <1>9, <2>1
<1>11. pool # <<>> /\ Pool(pool)
    BY <1>1, <1>3, <1>7, WayOpen, CandidatesQualified
<1>12. b.input \in Int /\ b.billing \in Int
    BY <1>1, <1>2, AnalysesInt
<1>13. c = Scored(request, b, pool, around, explore)
    BY <1>8, <1>10
<1>14. WarmProvider(request) # None /\ c.model.provider = WarmProvider(request)
    BY <1>9, <1>11, <1>12, <1>13, ScoredWarm
<1>15. Sound(c.model)
    <2>1. Chosen(c, IdsOf(Tamed(request, pool)))
        BY <1>11, <1>12, <1>13, ScoredChooses
    <2> QED BY <2>1 DEF Chosen, Pool
<1>16. Named(c.model.id).provider = c.model.provider
    BY <1>15, NamedIs DEF Alike
<1> QED BY <1>9, <1>14, <1>16

(* A decision was made, of this request as it was to be routed.            *)
Made(name, request, around, explore) ==
    /\ explore \in Nat
    /\ Decide(name, around, explore)
    /\ last' = RouteCore(name, request, around, explore)
    /\ last'.name = name
    /\ last'.decision.rule \notin Blocked

(* Only a decision counts as one.                                          *)
LEMMA DecisionMade ==
    ASSUME [Next]_vars, count' # count
    PROVE  \E name \in DOMAIN Requests : \E around, explore, routing :
              Made(name, [Requests[name] EXCEPT !.routing = routing], around, explore)
<1>1. Next => \/ UNCHANGED count
              \/ \E name \in DOMAIN Requests : \E around \in Surroundings[name] :
                    \E explore \in {0, 1, 2} : Decide(name, around, explore)
    BY DEF Next, RecordPromptCacheSuccess, Tick
<1>2. PICK name \in DOMAIN Requests : \E around : \E explore \in {0, 1, 2} : Decide(name, around, explore)
    BY <1>1 DEF vars
<1>3. PICK around : \E explore \in {0, 1, 2} : Decide(name, around, explore)
    BY <1>2
<1>4. PICK explore \in {0, 1, 2} : Decide(name, around, explore)
    BY <1>3
<1>5. PICK routing : routing = IF around.pressed THEN "cost-optimized" ELSE Requests[name].routing
    OBVIOUS
<1>6. PICK request : request = [Requests[name] EXCEPT !.routing = routing]
    OBVIOUS
<1>7. last' = RouteCore(name, request, around, explore)
    BY <1>4, <1>5, <1>6 DEF Decide
<1>8. last'.decision.rule \notin Blocked
    BY <1>4 DEF Decide
<1>9. last'.name = name
    BY <1>7 DEF RouteCore, RouteWith
<1>10. Made(name, request, around, explore)
    BY <1>4, <1>7, <1>8, <1>9 DEF Made
<1> QED BY <1>6, <1>10

(* A decision said to be warm goes to the provider whose success warmed    *)
(* this very prompt of this conversation, or lone run, not too long ago:   *)
(* however the choice was moved by the scores, the exploration and the     *)
(* budget, and whichever entries the cache had to drop.                    *)
THEOREM WarmAlwaysHonest == Spec => CacheStatusHonest
<1>1. ASSUME WarmTruly, [Next]_vars, count' # count, last'.decision.status = "warm"
      PROVE  LET request == Requests[last'.name]
                 key == TrueCacheKey(request)
             IN  /\ key \in DOMAIN cached
                 /\ cached[key].provider = Named(last'.decision.chosen).provider
                 /\ cached[key].prefix = request.system
                 /\ now <= cached[key].until
    <2>1. PICK name \in DOMAIN Requests : \E around, explore, routing :
              Made(name, [Requests[name] EXCEPT !.routing = routing], around, explore)
        BY <1>1, DecisionMade
    <2>11. PICK around, explore, routing :
              Made(name, [Requests[name] EXCEPT !.routing = routing], around, explore)
        BY <2>1
    <2>2. PICK request : request = [Requests[name] EXCEPT !.routing = routing]
        OBVIOUS
    <2>12. /\ explore \in Nat /\ last' = RouteCore(name, request, around, explore)
           /\ last'.name = name /\ last'.decision.rule \notin Blocked
        BY <2>2, <2>11 DEF Made
    <2>13. PICK decision : decision = RouteCore(name, request, around, explore).decision
        OBVIOUS
    <2>3. request.priority \in {"low", "normal", "high", "critical"}
        BY <2>2, Redirected
    <2>4. /\ WarmProvider(request) # None
          /\ Named(last'.decision.chosen).provider = WarmProvider(request)
        <3>1. last'.decision = decision
            BY <2>12, <2>13
        <3>2. decision.rule \notin Blocked /\ decision.status = "warm"
            BY <1>1, <2>12, <3>1
        <3>3. /\ WarmProvider(request) # None
              /\ Named(decision.chosen).provider = WarmProvider(request)
            BY <2>3, <2>12, <2>13, <3>2, RouteWarm
        <3> QED BY <3>1, <3>3
    <2>5. TrueCacheKey(request) = TrueCacheKey(Requests[name]) /\ request.system = Requests[name].system
        BY <2>2, KeysRedirected DEF TrueCacheKey, Owner
    <2>6. PICK key : key = TrueCacheKey(request)
        OBVIOUS
    <2>7. /\ key \in DOMAIN cached /\ cached[key].provider = WarmProvider(request)
          /\ cached[key].prefix = request.system /\ now <= cached[key].until
        BY <1>1, <2>4, <2>6, WarmIsCached
    <2> QED BY <2>4, <2>5, <2>6, <2>7, <2>12
<1>2. WarmTruly /\ [Next]_vars =>
        (count' # count /\ last'.decision.status = "warm" =>
            LET request == Requests[last'.name]
                key == TrueCacheKey(request)
            IN  /\ key \in DOMAIN cached
                /\ cached[key].provider = Named(last'.decision.chosen).provider
                /\ cached[key].prefix = request.system
                /\ now <= cached[key].until)
    BY <1>1
<1> QED BY <1>2, AlwaysWarm, PTL DEF Spec, CacheStatusHonest

-----------------------------------------------------------------------------
(* The conversations.                                                      *)

(* The store has the last turn of each conversation it has, and misses one *)
(* that is not over only when there have been too many.                    *)
TurnsTrue(store, told) ==
    \A e \in ToSet(store) :
        e.key \in DOMAIN told /\ told[e.key].model = e.model /\ told[e.key].at = e.at
OnePerKey(store) == \A e, f \in ToSet(store) : e.key = f.key => e = f
Missing(store, told, time) ==
    {k \in DOMAIN told : time - told[k].at <= TalkFor /\ \A e \in ToSet(store) : e.key # k}
TooMany(told) == Cardinality(DOMAIN told) > MaxTalks
Kept(store, told, time) ==
    /\ Listed(store) /\ IsInjective(store)
    /\ IsFiniteSet(DOMAIN told) /\ \A k \in DOMAIN told : told[k].at \in Nat
    /\ TurnsTrue(store, told)
    /\ OnePerKey(store)
    /\ Missing(store, told, time) = {} \/ TooMany(told)
TalksTruly == now \in Nat /\ Kept(talks, spoken, now)

(* Entries that are over may go.                                           *)
LEMMA KeptPart ==
    ASSUME NEW store, NEW told, NEW time, Kept(store, told, time),
           NEW part, Listed(part), IsInjective(part), ToSet(part) \subseteq ToSet(store),
           \A e \in ToSet(store) : e \in ToSet(part) \/ ~(time - e.at <= TalkFor)
    PROVE  Kept(part, told, time)
<1>1. TurnsTrue(part, told) /\ OnePerKey(part)
    BY DEF Kept, TurnsTrue, OnePerKey
<1>2. Missing(part, told, time) \subseteq Missing(store, told, time)
    <2> SUFFICES ASSUME NEW k \in Missing(part, told, time), NEW e \in ToSet(store), e.key = k
                 PROVE  FALSE
        BY DEF Missing
    <2>1. told[k].at = e.at
        BY DEF Kept, TurnsTrue
    <2>2. e \in ToSet(part)
        BY <2>1 DEF Missing
    <2> QED BY <2>2 DEF Missing
<1> QED BY <1>1, <1>2 DEF Kept

(* With a new conversation, a full store has heard of too many.            *)
LEMMA StoreCrowded ==
    ASSUME NEW store, NEW told, NEW time, Kept(store, told, time), NEW key,
           Len(store) >= MaxTalks, Len(OthersOf(store, key)) = Len(store)
    PROVE  Cardinality(DOMAIN told \cup {key}) > MaxTalks
<1>1. PICK theirs : theirs = OthersOf(store, key)
    OBVIOUS
<1>2. PICK E, K : E = ToSet(store) /\ K = {e.key : e \in E}
    OBVIOUS
<1>3. /\ Listed(theirs) /\ IsInjective(theirs) /\ ToSet(theirs) = {e \in E : e.key # key}
      /\ Listed(store) /\ IsInjective(store)
    BY <1>1, <1>2, StoreShared DEF Kept
<1>4. /\ IsFiniteSet(E) /\ Cardinality(E) = Len(store)
      /\ Cardinality(ToSet(theirs)) = Len(theirs)
    BY <1>2, <1>3, DistinctList DEF Listed
<1>5. ToSet(theirs) = E
    <2>1. ToSet(theirs) \in SUBSET E
        BY <1>3
    <2> QED BY <1>1, <1>4, <2>1, FS_Subset
<1>6. key \notin K
    BY <1>2, <1>3, <1>5
<1>7. IsFiniteSet(K) /\ Cardinality(K) = Cardinality(E)
    <2>1. PICK f : f = [e \in E |-> e.key]
        OBVIOUS
    <2>2. f \in Bijection(E, K)
        <3>1. IsInjective(f)
            BY <1>2, <2>1 DEF Kept, OnePerKey, IsInjective
        <3>2. f \in [E -> K]
            BY <1>2, <2>1
        <3>3. \A k \in K : \E e \in E : f[e] = k
            BY <1>2, <2>1
        <3> QED BY <3>1, <3>2, <3>3 DEF Bijection, Injection, Surjection
    <2>3. ExistsBijection(E, K)
        BY <2>2 DEF ExistsBijection
    <2> QED BY <1>4, <2>3, FS_Bijection
<1>8. /\ IsFiniteSet(K \cup {key})
      /\ Cardinality(K \cup {key}) = Len(store) + 1
    BY <1>4, <1>6, <1>7, FS_AddElement
<1>9. PICK D : D = DOMAIN told \cup {key}
    OBVIOUS
<1>10. IsFiniteSet(D)
    BY <1>9, FS_AddElement DEF Kept
<1>11. K \cup {key} \in SUBSET D
    BY <1>2, <1>9 DEF Kept, TurnsTrue
<1>12. Len(store) + 1 <= Cardinality(D)
    BY <1>8, <1>10, <1>11, FS_Subset
<1>13. Len(store) \in Nat /\ MaxTalks \in Nat /\ Cardinality(D) \in Nat
    BY <1>3, <1>10, FS_CardinalityType, RoutingAssumption DEF Listed
<1> QED BY <1>9, <1>12, <1>13

(* A turn is put in the store as it is said.                               *)
LEMMA KeptPut ==
    ASSUME NEW store, NEW told, NEW time \in Nat, Kept(store, told, time),
           NEW entry, entry.at = time
    PROVE  Kept(Put(store, entry, MaxTalks),
                With(told, entry.key, [model |-> entry.model, at |-> time]), time)
<1>1. PICK key, says, s : /\ key = entry.key
                          /\ says = With(told, key, [model |-> entry.model, at |-> time])
                          /\ s = Put(store, entry, MaxTalks)
    OBVIOUS
<1>2. /\ DOMAIN says = DOMAIN told \cup {key}
      /\ says[key].model = entry.model /\ says[key].at = time
      /\ \A k \in DOMAIN told : k # key => says[k] = told[k]
    BY <1>1 DEF With
<1>3. PICK others : others = {e \in ToSet(store) : e.key # key}
    OBVIOUS
<1>4. /\ Listed(s) /\ IsInjective(s)
      /\ entry \in ToSet(s) /\ ToSet(s) \subseteq others \cup {entry}
      /\ \/ ToSet(s) = others \cup {entry}
         \/ Len(store) >= MaxTalks /\ Len(OthersOf(store, key)) = Len(store)
    <2>1. MaxTalks \in Nat \ {0} /\ Listed(store) /\ IsInjective(store)
        BY RoutingAssumption DEF Kept
    <2> QED BY <1>1, <1>3, <2>1, PutList
<1>5. IsFiniteSet(DOMAIN told) /\ IsFiniteSet(DOMAIN says)
    BY <1>2, FS_AddElement DEF Kept
<1>6. \A k \in DOMAIN says : says[k].at \in Nat
    BY <1>2 DEF Kept
<1>7. TurnsTrue(s, says)
    BY <1>1, <1>2, <1>3, <1>4 DEF Kept, TurnsTrue
<1>8. OnePerKey(s)
    BY <1>1, <1>3, <1>4 DEF Kept, OnePerKey
<1>9. Missing(s, says, time) = {} \/ TooMany(says)
    <2>1. CASE ToSet(s) = others \cup {entry}
        <3>1. Missing(s, says, time) \subseteq Missing(store, told, time)
            BY <1>1, <1>2, <1>3, <2>1 DEF Missing
        <3>2. TooMany(told) => TooMany(says)
            <4>1. Cardinality(DOMAIN told) <= Cardinality(DOMAIN says)
                BY <1>2, <1>5, FS_Subset
            <4>2. /\ Cardinality(DOMAIN told) \in Nat /\ Cardinality(DOMAIN says) \in Nat
                  /\ MaxTalks \in Nat
                BY <1>5, FS_CardinalityType, RoutingAssumption
            <4> QED BY <4>1, <4>2 DEF TooMany
        <3> QED BY <3>1, <3>2 DEF Kept
    <2>2. CASE Len(store) >= MaxTalks /\ Len(OthersOf(store, key)) = Len(store)
        BY <1>2, <2>2, StoreCrowded DEF TooMany
    <2> QED BY <1>4, <2>1, <2>2
<1> QED BY <1>1, <1>4, <1>5, <1>6, <1>7, <1>8, <1>9 DEF Kept

(* The entry of a request is the one of its key, unless it is over.        *)
LEMMA ConversationIs ==
    ASSUME NEW request, request.talk # None, Listed(talks)
    PROVE  LET turn == ConversationOf(request)
               key == TalkKey(request)
               good == {e \in ToSet(EntryOf(talks, key)) : Alive(e)}
           IN  /\ turn = Only(EntryOf(talks, key), good)
               /\ Listed(turn)
               /\ ToSet(turn) = {e \in ToSet(talks) : e.key = key /\ now - e.at <= TalkFor}
<1>1. PICK key, mine : key = TalkKey(request) /\ mine = EntryOf(talks, key)
    OBVIOUS
<1>2. PICK good : good = {e \in ToSet(mine) : Alive(e)}
    OBVIOUS
<1>3. Listed(mine) /\ ToSet(mine) = {e \in ToSet(talks) : e.key = key}
    BY <1>1, StoreShared
<1>4. PICK turn : turn = Only(mine, good)
    OBVIOUS
<1>5. Listed(turn) /\ ToSet(turn) = ToSet(mine) \cap good
    BY <1>3, <1>4, OnlyListed
<1>6. ConversationOf(request) = turn
    BY <1>1, <1>2, <1>4 DEF ConversationOf, Where
<1>7. ToSet(turn) = {e \in ToSet(talks) : e.key = key /\ now - e.at <= TalkFor}
    BY <1>2, <1>3, <1>5 DEF Alive
<1> QED BY <1>1, <1>2, <1>4, <1>5, <1>6, <1>7

(* A lookup drops at most an entry that is over,                           *)
LEMMA LookupKept ==
    ASSUME TalksTruly, NEW request, NEW talksNow,
           talksNow = IF request.talk = None THEN talks
                      ELSE Looked(talks, TalkKey(request), ConversationOf(request))
    PROVE  Kept(talksNow, spoken, now)
<1>1. CASE request.talk = None
    BY <1>1 DEF TalksTruly
<1>2. CASE request.talk # None
    <2>1. Listed(talks) /\ IsInjective(talks)
        BY DEF TalksTruly, Kept
    <2>2. PICK key, good : /\ key = TalkKey(request)
                           /\ good = {e \in ToSet(EntryOf(talks, key)) : Alive(e)}
        OBVIOUS
    <2>3. talksNow = Looked(talks, key, Only(EntryOf(talks, key), good))
        BY <1>2, <2>1, <2>2, ConversationIs
    <2>4. /\ Listed(talksNow) /\ IsInjective(talksNow)
          /\ ToSet(talksNow) = {e \in ToSet(talks) : e.key = key => e \in good}
        BY <2>1, <2>3, LookedList
    <2>5. good = {e \in ToSet(talks) : e.key = key /\ now - e.at <= TalkFor}
        BY <2>1, <2>2, StoreShared DEF Alive
    <2>6. \A e \in ToSet(talks) : e \in ToSet(talksNow) \/ ~(now - e.at <= TalkFor)
        BY <2>4, <2>5
    <2>7. ToSet(talksNow) \subseteq ToSet(talks)
        BY <2>4
    <2> QED BY <2>4, <2>6, <2>7, KeptPart DEF TalksTruly
<1> QED BY <1>1, <1>2

(* a decision adds the turn and, at times, drops what is over,             *)
LEMMA PostRouteKept ==
    ASSUME now \in Nat, NEW request, NEW id, NEW talksNow, Kept(talksNow, spoken, now),
           PostRoute(request, id, talksNow)
    PROVE  Kept(talks', spoken', now)
<1>1. PICK turns : turns = IF ConversationOf(request) = <<>> THEN 0 ELSE ConversationOf(request)[1].turns
    OBVIOUS
<1>2. PICK entry : entry = [key |-> TalkKey(request), model |-> id, turns |-> turns + 1, at |-> now]
    OBVIOUS
<1>3. PICK told : told = IF request.talk = None THEN talksNow ELSE Put(talksNow, entry, MaxTalks)
    OBVIOUS
<1>4. /\ talks' = IF (count + 1) % Housekeeping = 0 THEN Where(told, Alive) ELSE told
      /\ spoken' = IF request.talk = None THEN spoken
                   ELSE With(spoken, TrueKey(request), [model |-> id, at |-> now])
    BY <1>1, <1>2, <1>3 DEF PostRoute
<1>5. Kept(told, spoken', now)
    <2>1. CASE request.talk = None
        BY <1>3, <1>4, <2>1
    <2>2. CASE request.talk # None
        <3>1. entry.key = TrueKey(request) /\ entry.model = id /\ entry.at = now
            BY <1>2 DEF TalkKey, TrueKey, Owner, ScopedKey
        <3>2. spoken' = With(spoken, entry.key, [model |-> entry.model, at |-> now])
            BY <1>4, <2>2, <3>1
        <3> QED BY <1>3, <2>2, <3>1, <3>2, KeptPut
    <2> QED BY <2>1, <2>2
<1>6. CASE talks' = told
    BY <1>5, <1>6
<1>7. CASE talks' = Where(told, Alive)
    <2>1. PICK good : good = {e \in ToSet(told) : now - e.at <= TalkFor}
        OBVIOUS
    <2>2. talks' = Only(told, good)
        BY <1>7, <2>1 DEF Where, Alive
    <2>3. Listed(told) /\ IsInjective(told)
        BY <1>5 DEF Kept
    <2>4. PICK part : part = Only(told, good)
        OBVIOUS
    <2>5. Listed(part) /\ IsInjective(part) /\ ToSet(part) = ToSet(told) \cap good
        BY <2>3, <2>4, OnlyListed, OnlyInjective
    <2>6. \A e \in ToSet(told) : e \in ToSet(part) \/ ~(now - e.at <= TalkFor)
        BY <2>1, <2>5
    <2>7. ToSet(part) \subseteq ToSet(told)
        BY <2>5
    <2>8. Kept(part, spoken', now)
        BY <1>5, <2>5, <2>6, <2>7, KeptPart
    <2> QED BY <2>2, <2>4, <2>8
<1> QED BY <1>4, <1>6, <1>7

(* and every step keeps the store,                                         *)
LEMMA StepTalks ==
    TalksTruly /\ [Next]_vars => TalksTruly'
<1> SUFFICES ASSUME TalksTruly, [Next]_vars PROVE TalksTruly'
    OBVIOUS
<1>1. CASE UNCHANGED <<now, talks, spoken>>
    BY <1>1 DEF TalksTruly
<1>2. ASSUME NEW name \in DOMAIN Requests, NEW around, NEW explore, Decide(name, around, explore)
      PROVE  TalksTruly'
    <2>1. PICK request : request = [Requests[name] EXCEPT
                    !.routing = IF around.pressed THEN "cost-optimized" ELSE @]
        OBVIOUS
    <2>2. PICK talksNow : talksNow = IF request.talk = None THEN talks
                                     ELSE Looked(talks, TalkKey(request), ConversationOf(request))
        OBVIOUS
    <2>3. /\ now' = now
          /\ \/ talks' = talksNow /\ UNCHANGED spoken
             \/ \E id : PostRoute(request, id, talksNow)
        BY <1>2, <2>1, <2>2 DEF Decide
    <2>4. Kept(talksNow, spoken, now)
        BY <2>2, LookupKept
    <2>5. now \in Nat
        BY DEF TalksTruly
    <2>6. Kept(talks', spoken', now)
        BY <2>3, <2>4, <2>5, PostRouteKept
    <2> QED BY <2>3, <2>5, <2>6 DEF TalksTruly
<1>3. CASE Tick
    <2>1. now' = now + 1 /\ UNCHANGED <<talks, spoken>> /\ now \in Nat /\ Kept(talks, spoken, now)
        BY <1>3 DEF Tick, TalksTruly
    <2>2. Missing(talks, spoken, now + 1) \subseteq Missing(talks, spoken, now)
        BY <2>1, RoutingAssumption DEF Kept, Missing
    <2>3. Kept(talks, spoken, now + 1)
        BY <2>1, <2>2 DEF Kept
    <2> QED BY <2>1, <2>3 DEF TalksTruly
<1>4. Next => \/ UNCHANGED <<now, talks, spoken>>
              \/ \E name \in DOMAIN Requests : \E around \in Surroundings[name] :
                    \E explore \in {0, 1, 2} : Decide(name, around, explore)
              \/ Tick
    BY DEF Next, RecordPromptCacheSuccess
<1> QED BY <1>1, <1>2, <1>3, <1>4 DEF vars

(* and so it is always kept.                                               *)
LEMMA AlwaysTalks == Spec => []TalksTruly
<1>1. ASSUME Init PROVE TalksTruly
    <2>1. PICK none : none = <<>>
        OBVIOUS
    <2>2. Listed(none) /\ ToSet(none) = {} /\ IsInjective(none) /\ DOMAIN none = {}
        BY <2>1 DEF Listed, ToSet, IsInjective
    <2>3. IsFiniteSet(DOMAIN none)
        BY <2>2, FS_EmptySet
    <2>4. Kept(none, none, 0)
        BY <2>2, <2>3 DEF Kept, TurnsTrue, OnePerKey, Missing
    <2>5. now = 0 /\ talks = none /\ spoken = none
        BY <1>1, <2>1 DEF Init
    <2> QED BY <2>4, <2>5 DEF TalksTruly
<1> QED BY <1>1, StepTalks, PTL DEF Spec

(* The model a turn is biased to is the one its own scope's conversation   *)
(* used last, if it was used lately; and a conversation is forgotten in    *)
(* time only when there are too many (ConversationStore): whatever other   *)
(* conversations, those of the same name of other tenants and lone users   *)
(* among them, came between.                                               *)
THEOREM TurnsFollowTheirOwn == Spec => ConversationKept
<1>1. ASSUME TalksTruly, [Next]_vars, count' # count, Requests[last'.name].talk # None
      PROVE  LET key == TrueKey(Requests[last'.name])
                 recent == {k \in DOMAIN spoken : now - spoken[k].at <= TalkFor}
             IN  IF key \in recent
                 THEN \/ last'.lastModel = spoken[key].model
                      \/ last'.lastModel = None /\ Cardinality(DOMAIN spoken) > MaxTalks
                 ELSE last'.lastModel = None
    <2>1. PICK name \in DOMAIN Requests : \E around, explore, routing :
              Made(name, [Requests[name] EXCEPT !.routing = routing], around, explore)
        BY <1>1, DecisionMade
    <2>2. PICK around, explore, routing :
              Made(name, [Requests[name] EXCEPT !.routing = routing], around, explore)
        BY <2>1
    <2>3. PICK request : request = [Requests[name] EXCEPT !.routing = routing]
        OBVIOUS
    <2>4. last' = RouteCore(name, request, around, explore) /\ last'.name = name
        BY <2>2, <2>3 DEF Made
    <2>5. PICK turn : turn = ConversationOf(request)
        OBVIOUS
    <2>6. last'.lastModel = IF turn = <<>> THEN None ELSE turn[1].model
        BY <2>4, <2>5 DEF RouteCore, RouteWith
    <2>7. PICK key : key = TrueKey(Requests[last'.name])
        OBVIOUS
    <2>8. request.talk # None /\ TalkKey(request) = key
        BY <1>1, <2>3, <2>4, <2>7, KeysRedirected DEF TalkKey, TrueKey, Owner, ScopedKey
    <2>9. /\ turn \in Seq(ToSet(turn))
          /\ ToSet(turn) = {e \in ToSet(talks) : e.key = key /\ now - e.at <= TalkFor}
        <3>1. Listed(talks)
            BY <1>1 DEF TalksTruly, Kept
        <3> QED BY <2>5, <2>8, <3>1, ConversationIs DEF Listed
    <2>10. PICK recent : recent = {k \in DOMAIN spoken : now - spoken[k].at <= TalkFor}
        OBVIOUS
    <2>11. CASE turn # <<>>
        <3>1. turn[1] \in ToSet(turn)
            BY <2>9, <2>11
        <3>2. turn[1].key \in DOMAIN spoken /\ spoken[turn[1].key].model = turn[1].model
              /\ spoken[turn[1].key].at = turn[1].at
            BY <1>1, <2>9, <3>1 DEF TalksTruly, Kept, TurnsTrue
        <3>3. key \in recent /\ last'.lastModel = spoken[key].model
            BY <2>6, <2>9, <2>10, <2>11, <3>1, <3>2
        <3> QED BY <2>7, <2>10, <3>3
    <2>12. CASE turn = <<>>
        <3>1. ToSet(turn) = {}
            BY <2>12 DEF ToSet
        <3>2. \A e \in ToSet(talks) : e.key = key => ~(now - e.at <= TalkFor)
            BY <2>9, <3>1
        <3>3. key \in recent => key \in Missing(talks, spoken, now)
            BY <1>1, <2>10, <3>2 DEF Missing, TalksTruly, Kept, TurnsTrue
        <3>4. key \in recent => Cardinality(DOMAIN spoken) > MaxTalks
            BY <1>1, <3>3 DEF TalksTruly, Kept, TooMany
        <3> QED BY <2>6, <2>7, <2>10, <2>12, <3>4
    <2> QED BY <2>11, <2>12
<1>2. TalksTruly /\ [Next]_vars =>
        (count' # count /\ Requests[last'.name].talk # None =>
            LET key == TrueKey(Requests[last'.name])
                recent == {k \in DOMAIN spoken : now - spoken[k].at <= TalkFor}
            IN  IF key \in recent
                THEN \/ last'.lastModel = spoken[key].model
                     \/ last'.lastModel = None /\ Cardinality(DOMAIN spoken) > MaxTalks
                ELSE last'.lastModel = None)
    BY <1>1
<1> QED BY <1>2, AlwaysTalks, PTL DEF Spec, ConversationKept
=============================================================================
