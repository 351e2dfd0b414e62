------------------------ MODULE AdaptiveWeightsProofs ------------------------
(***************************************************************************)
(* What the router has learnt stays consistent, for any threads, keys,     *)
(* customers, signals, caps and intervals: of a customer out of the        *)
(* recency list nothing is kept; no sequence of signals leaves the         *)
(* averages degraded, and their statistics never count more signals than   *)
(* they do; a memory said to be clean is in the file.                      *)
(*                                                                         *)
(* The invariant says of the memory, of the snapshot it may be rolled back *)
(* to and of every image, in the file or on its way, what makes each a     *)
(* memory to go on from.  That a clean memory is saved needs to know where *)
(* the image taken last is while a thread still has to write it.           *)
(***************************************************************************)
EXTENDS AdaptiveWeights, DataLemmas

Fields == {"state", "stats", "own", "log", "recent", "decay", "lru", "dirty", "total", "snapshot"}

IsWeights(w) == IsFiniteSet(DOMAIN w) /\ \A k \in DOMAIN w : w[k] \in [avg : Nat, n : Nat]
StatsFit(stats, state) ==
    \A k \in DOMAIN stats : k \in DOMAIN state /\ stats[k] \in Nat /\ stats[k] <= state[k].n

(* The averages of a memory, and what they may be rolled back to.          *)
Averages(m) ==
    /\ IsWeights(m.state) /\ StatsFit(m.stats, m.state)
    /\ m.snapshot # <<>> => /\ IsWeights(m.snapshot[1].state)
                            /\ StatsFit(m.snapshot[1].stats, m.snapshot[1].state)
Unspoilt(m) == Averages(m) /\ ~Corrupt(m)

(* The customers of a memory.                                              *)
Listed(list) == list \in Seq(Customers) /\ IsInjective(list) /\ Len(list) <= MaxCustomers
KnownTo(m) == DOMAIN m.own \cup DOMAIN m.log \cup DOMAIN m.recent
InSync(m) == Listed(m.lru) /\ KnownTo(m) \subseteq ToSet(m.lru)

(* The counter of signals not saved, and the factors of the averages.      *)
Counts(m) == m.dirty \in Nat /\ \A k \in DOMAIN m.decay : m.decay[k] \in Int

MemoryFits(m) == Fields \subseteq DOMAIN m /\ Unspoilt(m) /\ InSync(m) /\ Counts(m)

ImageFits(image) ==
    LET known == DOMAIN image.customers IN
    /\ known \subseteq Customers /\ IsFiniteSet(known) /\ Cardinality(known) <= MaxCustomers
    /\ IsWeights(image.global)

(* An image, of customers alone, has all of a memory.                      *)
Saved(image, m) ==
    /\ image.global = m.state /\ DOMAIN image.customers \subseteq Customers
    /\ \A c \in DOMAIN m.own : Lookup(image.customers, c, NoWeights) = m.own[c]

Newest == IF newest = "file" THEN file.image ELSE pending[newest]

Inv ==
    /\ MemoryFits(mem)
    /\ file # NoImage => ImageFits(file.image)
    /\ pending = [t \in Threads |-> pending[t]]
    /\ \A t \in Threads : pending[t] # NoImage => ImageFits(pending[t])
    /\ newest \in Threads \cup {"file", "lost"} /\ undone \in BOOLEAN
    /\ newest # "lost" /\ mem.dirty = 0 /\ ~undone => Saved(Newest, mem)

-----------------------------------------------------------------------------
(* Averages with one signal more, of k.                                    *)
Grown(w, k, v) ==
    /\ IsWeights(v) /\ DOMAIN v = DOMAIN w \cup {k}
    /\ \A x \in DOMAIN w \ {k} : v[x] = w[x]
    /\ v[k].n = IF k \in DOMAIN w THEN w[k].n + 1 ELSE 1

(* A signal leaves averages averages, and is counted by its own.           *)
LEMMA EmaFits ==
    ASSUME NEW w, IsWeights(w), NEW k \in Keys, NEW score \in Scores, NEW decay \in Int
    PROVE  Grown(w, k, UpdateEma(w, k, score, decay))
<1>1. PICK old : old = Lookup(w, k, NoEntry(k))
  OBVIOUS
<1>2. old \in [avg : Nat, n : Nat] /\ old.n = IF k \in DOMAIN w THEN w[k].n ELSE 0
  BY <1>1, AdaptiveAssumption DEF Lookup, NoEntry, IsWeights
<1>3. Clamped(score) \in Int
  <2>1. Best \in Int /\ score \in Int
    BY AdaptiveAssumption
  <2>2. PICK low \in Int : low = Min({Best, score})
    BY <2>1, PairBounds
  <2>3. Max({0, low}) \in {0, low}
    BY <2>2, PairBounds
  <2> QED  BY <2>2, <2>3 DEF Clamped
<1>4. PICK avg \in Int : avg = (decay * old.avg + (100 - decay) * Clamped(score)) \div 100
  <2>1. PICK a \in Int, s \in Int : a = old.avg /\ s = Clamped(score)
    BY <1>2, <1>3
  <2>2. PICK p \in Int, q \in Int : p = decay * a /\ q = (100 - decay) * s
    BY <2>1
  <2>3. (p + q) \div 100 \in Int
    BY <2>2
  <2> QED  BY <2>1, <2>2, <2>3
<1>5. PICK top : top = Max({QualityFloor, avg})
  OBVIOUS
<1>6. top \in Nat
  <2>1. PICK floor \in Nat : floor = QualityFloor
    BY AdaptiveAssumption
  <2>2. Max({floor, avg}) \in {floor, avg} /\ Max({floor, avg}) >= floor
    <3>1. floor \in Int /\ avg \in Int
      BY <1>4, <2>1
    <3> QED  BY <3>1, PairBounds
  <2>3. top = Max({floor, avg})
    BY <1>5, <2>1
  <2> QED  BY <2>1, <2>2, <2>3
<1>7. PICK e : e = [avg |-> top, n |-> old.n + 1]
  OBVIOUS
<1>8. e \in [avg : Nat, n : Nat] /\ e.n = old.n + 1
  BY <1>2, <1>6, <1>7
<1>9. PICK v : v = UpdateEma(w, k, score, decay)
  OBVIOUS
<1>10. v = Set(w, k, e)
  BY <1>1, <1>4, <1>5, <1>7, <1>9 DEF UpdateEma
<1>11. /\ DOMAIN v = DOMAIN w \cup {k} /\ v[k] = e
       /\ \A x \in DOMAIN w \ {k} : v[x] = w[x]
  BY <1>10 DEF Set
<1>12. IsFiniteSet(DOMAIN v)
  BY <1>11, FS_AddElement DEF IsWeights
<1>13. IsWeights(v)
  BY <1>8, <1>11, <1>12 DEF IsWeights
<1>14. v[k].n = IF k \in DOMAIN w THEN w[k].n + 1 ELSE 1
  BY <1>2, <1>8, <1>11
<1> QED  BY <1>9, <1>11, <1>13, <1>14 DEF Grown

(* Learnt averages are not below themselves.                               *)
LEMMA NotBelowItself ==
    ASSUME NEW w, IsWeights(w)
    PROVE  ~Degraded(w, w)
<1>1. PICK v : v = [k \in DOMAIN w |-> w[k].avg]
  OBVIOUS
<1>2. Quality(w) = SumOver(v, DOMAIN w)
  BY <1>1 DEF Quality, SumOver, MapThenSumSet, MapThenFoldSet
<1>3. \A k \in DOMAIN w : v[k] \in Nat
  BY <1>1 DEF IsWeights
<1>4. PICK q \in Nat : q = Quality(w)
  BY <1>2, <1>3, SumNatural DEF IsWeights
<1>5. PICK n \in Nat : n = Cardinality(DOMAIN w)
  BY FS_CardinalityType DEF IsWeights
<1>6. PICK p \in Nat : p = q * n
  BY <1>4, <1>5
<1>7. 10 * q * n = 10 * p /\ 9 * q * n = 9 * p
  BY <1>4, <1>5, <1>6
<1>8. ~(10 * q * n < 9 * q * n)
  BY <1>6, <1>7
<1> QED  BY <1>4, <1>5, <1>8 DEF Degraded

-----------------------------------------------------------------------------
(* Touching a customer, known or not, keeps the list and the records in    *)
(* step: whoever leaves the list takes its records with it.                *)
LEMMA TouchFits ==
    ASSUME NEW m, Fields \subseteq DOMAIN m, Listed(m.lru), NEW c \in Customers,
           KnownTo(m) \subseteq ToSet(m.lru) \cup {c}
    PROVE  LET t == Touch(m, c) IN
           /\ Fields \subseteq DOMAIN t /\ InSync(t) /\ c \in ToSet(t.lru)
           /\ t.state = m.state /\ t.stats = m.stats /\ t.snapshot = m.snapshot
           /\ t.dirty = m.dirty /\ t.decay = m.decay
           /\ \A d \in DOMAIN t.own : d \in DOMAIN m.own /\ t.own[d] = m.own[d]
<1>1. PICK s \in Seq(Customers) : s = m.lru /\ IsInjective(s) /\ Len(s) <= MaxCustomers
  BY DEF Listed
<1>2. PICK most \in Nat \ {0} : most = MaxCustomers
  BY AdaptiveAssumption
<1>3. PICK t : t = Touch(m, c)
  OBVIOUS
<1>4. CASE c \in ToSet(s)
  <2>1. PICK w \in Seq(Customers) : w = Without(s, {c})
    BY WithoutList
  <2>2. /\ ToSet(w) = ToSet(s) \ {c} /\ IsInjective(w)
        /\ Cardinality(ToSet(w)) = Len(w) /\ Cardinality(ToSet(s)) = Len(s)
        /\ IsFiniteSet(ToSet(s))
    BY <1>1, <2>1, WithoutList, DistinctList
  <2>3. Cardinality(ToSet(w)) = Cardinality(ToSet(s)) - 1
    BY <1>4, <2>2, FS_RemoveElement
  <2>4. PICK l : l = Append(w, c)
    OBVIOUS
  <2>5. /\ l \in Seq(Customers) /\ Len(l) = Len(w) + 1 /\ ToSet(l) = ToSet(w) \cup {c}
        /\ IsInjective(l)
    <3>1. c \notin ToSet(w) /\ IsInjective(w)
      BY <2>2
    <3>2. w \in Seq(Customers) /\ c \in Customers
      OBVIOUS
    <3>3. /\ Append(w, c) \in Seq(Customers) /\ Len(Append(w, c)) = Len(w) + 1
          /\ ToSet(Append(w, c)) = ToSet(w) \cup {c}
      BY <3>2, AppendList
    <3>4. IsInjective(Append(w, c))
      BY <3>1, <3>2, AppendList
    <3> QED  BY <2>4, <3>3, <3>4
  <2>6. Len(l) = Len(s)
    <3>1. PICK a \in Nat, b \in Nat : a = Len(w) /\ b = Len(s)
      OBVIOUS
    <3>2. a = b - 1
      BY <2>2, <2>3, <3>1
    <3>3. Len(l) = a + 1
      BY <2>5, <3>1
    <3> QED  BY <3>1, <3>2, <3>3
  <2>7. t = [m EXCEPT !.lru = l]
    BY <1>1, <1>3, <1>4, <2>1, <2>4 DEF Touch
  <2>8. /\ Fields \subseteq DOMAIN t /\ t.lru = l /\ t.own = m.own /\ t.log = m.log
        /\ t.recent = m.recent
        /\ t.state = m.state /\ t.stats = m.stats /\ t.snapshot = m.snapshot
        /\ t.dirty = m.dirty /\ t.decay = m.decay
    BY <2>7 DEF Fields
  <2>9. ToSet(l) = ToSet(s)
    BY <1>4, <2>2, <2>5
  <2>10. KnownTo(t) \subseteq ToSet(l)
    BY <1>1, <1>4, <2>8, <2>9 DEF KnownTo
  <2> QED  BY <1>1, <1>3, <1>4, <2>5, <2>6, <2>8, <2>9, <2>10 DEF InSync, Listed
<1>5. CASE c \notin ToSet(s) /\ Len(s) < most
  <2>1. PICK l : l = Append(s, c)
    OBVIOUS
  <2>2. /\ l \in Seq(Customers) /\ Len(l) = Len(s) + 1 /\ ToSet(l) = ToSet(s) \cup {c}
        /\ IsInjective(l)
    BY <1>1, <1>5, <2>1, AppendList
  <2>3. Len(l) <= most
    <3>1. Len(s) \in Nat
      OBVIOUS
    <3> QED  BY <1>5, <2>2, <3>1
  <2>4. t = [m EXCEPT !.lru = l]
    BY <1>1, <1>2, <1>3, <1>5, <2>1 DEF Touch
  <2>5. /\ Fields \subseteq DOMAIN t /\ t.lru = l /\ t.own = m.own /\ t.log = m.log
        /\ t.recent = m.recent
        /\ t.state = m.state /\ t.stats = m.stats /\ t.snapshot = m.snapshot
        /\ t.dirty = m.dirty /\ t.decay = m.decay
    BY <2>4 DEF Fields
  <2>6. KnownTo(t) \subseteq ToSet(l)
    BY <1>1, <2>2, <2>5 DEF KnownTo
  <2> QED  BY <1>2, <1>3, <2>2, <2>3, <2>5, <2>6 DEF InSync, Listed
<1>6. CASE c \notin ToSet(s) /\ ~(Len(s) < most)
  <2>1. PICK n \in Nat : n = Len(s) /\ n = most /\ n >= 1
    <3>1. PICK n \in Nat : n = Len(s)
      OBVIOUS
    <3>2. n = most
      BY <1>1, <1>2, <1>6, <3>1
    <3> QED  BY <1>2, <3>1, <3>2
  <2>2. s # <<>>
    BY <2>1
  <2>3. PICK tl \in Seq(Customers), h \in Customers :
           /\ tl = Tail(s) /\ h = Head(s) /\ Len(tl) = n - 1
           /\ ToSet(s) = {h} \cup ToSet(tl) /\ IsInjective(tl) /\ h \notin ToSet(tl)
    BY <1>1, <2>1, <2>2, TailList
  <2>4. PICK l : l = Append(tl, c)
    OBVIOUS
  <2>5. /\ l \in Seq(Customers) /\ Len(l) = Len(tl) + 1 /\ ToSet(l) = ToSet(tl) \cup {c}
        /\ IsInjective(l)
    <3>1. c \notin ToSet(tl) /\ IsInjective(tl)
      BY <1>6, <2>3
    <3>2. tl \in Seq(Customers) /\ c \in Customers
      OBVIOUS
    <3>3. /\ Append(tl, c) \in Seq(Customers) /\ Len(Append(tl, c)) = Len(tl) + 1
          /\ ToSet(Append(tl, c)) = ToSet(tl) \cup {c}
      BY <3>2, AppendList
    <3>4. IsInjective(Append(tl, c))
      BY <3>1, <3>2, AppendList
    <3> QED  BY <2>4, <3>3, <3>4
  <2>6. Len(l) = most
    BY <2>1, <2>3, <2>5
  <2>7. PICK others : others = Customers \ {h}
    OBVIOUS
  <2>8. PICK own, lg, recent :
           /\ own = Restrict(m.own, DOMAIN m.own \cap others)
           /\ lg = Restrict(m.log, DOMAIN m.log \cap others)
           /\ recent = Restrict(m.recent, DOMAIN m.recent \cap others)
    OBVIOUS
  <2>9. t = [m EXCEPT !.lru = l, !.own = own, !.log = lg, !.recent = recent]
    BY <1>1, <1>2, <1>3, <1>6, <2>3, <2>4, <2>7, <2>8 DEF Touch
  <2>10. /\ Fields \subseteq DOMAIN t /\ t.lru = l /\ t.own = own /\ t.log = lg
         /\ t.recent = recent
         /\ t.state = m.state /\ t.stats = m.stats /\ t.snapshot = m.snapshot
         /\ t.dirty = m.dirty /\ t.decay = m.decay
    BY <2>9 DEF Fields
  <2>11. /\ DOMAIN own = DOMAIN m.own \cap others /\ DOMAIN lg = DOMAIN m.log \cap others
         /\ DOMAIN recent = DOMAIN m.recent \cap others
         /\ \A d \in DOMAIN own : own[d] = m.own[d]
    BY <2>8 DEF Restrict
  <2>12. KnownTo(t) \subseteq ToSet(l)
    <3>1. KnownTo(m) \subseteq {h} \cup ToSet(tl) \cup {c}
      BY <1>1, <2>3
    <3>2. KnownTo(t) \subseteq KnownTo(m) \ {h}
      BY <2>7, <2>10, <2>11 DEF KnownTo
    <3> QED  BY <2>5, <3>1, <3>2
  <2> QED  BY <1>2, <1>3, <2>5, <2>6, <2>10, <2>11, <2>12 DEF InSync, Listed
<1> QED  BY <1>4, <1>5, <1>6

(* So does greeting the customer of a signal.                              *)
LEMMA GreetFits ==
    ASSUME NEW m, Fields \subseteq DOMAIN m, InSync(m), NEW c \in Customers \cup {Anyone}, NEW live
    PROVE  LET t == Greet(m, c, live) IN
           /\ Fields \subseteq DOMAIN t /\ InSync(t) /\ (c # Anyone => c \in ToSet(t.lru))
           /\ t.state = m.state /\ t.stats = m.stats /\ t.snapshot = m.snapshot
           /\ t.dirty = m.dirty /\ t.decay = m.decay
           /\ \A d \in DOMAIN t.own : d \in DOMAIN m.own /\ t.own[d] = m.own[d]
<1>1. CASE c = Anyone
  BY <1>1 DEF Greet
<1>2. CASE c # Anyone
  <2>1. PICK recent : recent = Set(m.recent, c, live + 1)
    OBVIOUS
  <2>2. PICK x : x = [m EXCEPT !.recent = recent]
    OBVIOUS
  <2>3. /\ Fields \subseteq DOMAIN x /\ x.recent = recent /\ x.lru = m.lru /\ x.own = m.own
        /\ x.log = m.log /\ x.state = m.state /\ x.stats = m.stats
        /\ x.snapshot = m.snapshot /\ x.dirty = m.dirty /\ x.decay = m.decay
    BY <2>2 DEF Fields
  <2>4. DOMAIN recent = DOMAIN m.recent \cup {c}
    BY <2>1 DEF Set
  <2>5. Listed(x.lru) /\ KnownTo(x) \subseteq ToSet(x.lru) \cup {c}
    BY <2>3, <2>4 DEF InSync, KnownTo
  <2>6. Greet(m, c, live) = Touch(x, c)
    BY <1>2, <2>1, <2>2 DEF Greet
  <2>7. c \in Customers
    BY <1>2
  <2> QED  BY <2>3, <2>5, <2>6, <2>7, TouchFits
<1> QED  BY <1>1, <1>2

-----------------------------------------------------------------------------
(* A memory is as good as another with the same averages and snapshot.     *)
LEMMA SameAverages ==
    ASSUME NEW m, NEW x, x.state = m.state, x.stats = m.stats, x.snapshot = m.snapshot
    PROVE  (Averages(m) => Averages(x)) /\ (Corrupt(x) <=> Corrupt(m))
  BY DEF Averages, Corrupt

(* The statistics of a key grow no faster than its average.                *)
LEMMA StatsGrow ==
    ASSUME NEW stats, NEW state, StatsFit(stats, state), IsWeights(state), NEW k, NEW v, Grown(state, k, v)
    PROVE  StatsFit(UpdateSignalStats(stats, k), v)
<1> USE DEF Grown
<1>1. ASSUME NEW x \in DOMAIN stats
      PROVE  x \in DOMAIN v /\ stats[x] \in Nat /\ stats[x] <= v[x].n /\ (x = k => stats[x] + 1 <= v[x].n)
  <2>1. PICK a \in Nat, b \in Nat : a = stats[x] /\ b = state[x].n /\ a <= b /\ x \in DOMAIN state
    BY <1>1 DEF StatsFit, IsWeights
  <2>2. CASE x = k
    <3>1. v[x].n = b + 1
      BY <2>1, <2>2
    <3> QED  BY <2>1, <2>2, <3>1
  <2>3. CASE x # k
    <3>1. v[x] = state[x]
      BY <2>1, <2>3
    <3> QED  BY <2>1, <2>3, <3>1
  <2> QED  BY <2>2, <2>3
<1>2. CASE ~(k \in DOMAIN stats \/ Cardinality(DOMAIN stats) < MaxKeys)
  BY <1>1, <1>2 DEF StatsFit, UpdateSignalStats
<1>3. CASE k \in DOMAIN stats \/ Cardinality(DOMAIN stats) < MaxKeys
  <2>1. PICK n : n = Lookup(stats, k, 0) + 1
    OBVIOUS
  <2>2. n \in Nat /\ n <= v[k].n
    <3>1. CASE k \in DOMAIN stats
      BY <1>1, <2>1, <3>1 DEF Lookup
    <3>2. CASE k \notin DOMAIN stats
      <4>1. n = 1
        BY <2>1, <3>2 DEF Lookup
      <4>2. v[k].n \in Nat /\ v[k].n >= 1
        <5>1. CASE k \in DOMAIN state
          <6>1. PICK b \in Nat : b = state[k].n
            BY <5>1 DEF IsWeights
          <6> QED  BY <5>1, <6>1
        <5> QED  BY <5>1
      <4> QED  BY <4>1, <4>2
    <3> QED  BY <3>1, <3>2
  <2>3. PICK s : s = UpdateSignalStats(stats, k)
    OBVIOUS
  <2>4. s = Set(stats, k, n)
    BY <1>3, <2>1, <2>3 DEF UpdateSignalStats
  <2>5. /\ DOMAIN s = DOMAIN stats \cup {k} /\ s[k] = n
        /\ \A x \in DOMAIN stats \ {k} : s[x] = stats[x]
    BY <2>4 DEF Set
  <2> QED  BY <1>1, <2>2, <2>3, <2>5 DEF StatsFit
<1> QED  BY <1>2, <1>3

(* An accepted signal.                                                     *)
LEMMA LearnFits ==
    ASSUME NEW m, Fields \subseteq DOMAIN m, Averages(m), InSync(m), Counts(m),
           NEW k \in Keys, NEW score \in Scores, NEW c \in Customers \cup {Anyone},
           c # Anyone => c \in ToSet(m.lru)
    PROVE  LET x == Learn(m, k, score, c) IN
           /\ Fields \subseteq DOMAIN x /\ Averages(x) /\ InSync(x) /\ Counts(x) /\ x.dirty >= 1
<1>1. PICK decay \in Int : decay = Lookup(m.decay, k, DecayFactor)
  BY AdaptiveAssumption DEF Lookup, Counts
<1>2. PICK state, stats, own, dirty, total :
        /\ state = UpdateEma(m.state, k, score, decay)
        /\ stats = UpdateSignalStats(m.stats, k)
        /\ own = IF c = Anyone THEN m.own
                 ELSE Set(m.own, c, UpdateEma(Lookup(m.own, c, NoWeights), k, score, decay))
        /\ dirty = m.dirty + 1 /\ total = m.total + 1
  OBVIOUS
<1>3. PICK x : x = Learn(m, k, score, c)
  OBVIOUS
<1>4. x = [m EXCEPT !.stats = stats, !.state = state, !.own = own, !.dirty = dirty, !.total = total]
  BY <1>1, <1>2, <1>3 DEF Learn
<1>5. /\ Fields \subseteq DOMAIN x /\ x.stats = stats /\ x.state = state /\ x.own = own
      /\ x.dirty = dirty /\ x.log = m.log /\ x.recent = m.recent /\ x.lru = m.lru
      /\ x.decay = m.decay /\ x.snapshot = m.snapshot
  BY <1>4 DEF Fields
<1>6. Grown(m.state, k, state)
  <2>1. PICK w : w = m.state /\ IsWeights(w)
    BY DEF Averages
  <2>2. Grown(w, k, UpdateEma(w, k, score, decay))
    BY <1>1, <2>1, EmaFits
  <2> QED  BY <1>2, <2>1, <2>2
<1>7. IsWeights(state) /\ StatsFit(stats, state)
  BY <1>2, <1>6, StatsGrow DEF Averages, Grown
<1>8. Averages(x)
  BY <1>5, <1>7 DEF Averages
<1>9. DOMAIN own \subseteq DOMAIN m.own \cup (IF c = Anyone THEN {} ELSE {c})
  BY <1>2 DEF Set
<1>10. InSync(x)
  BY <1>5, <1>9 DEF InSync, KnownTo
<1>11. dirty \in Nat /\ dirty >= 1
  BY <1>2 DEF Counts
<1>12. Counts(x)
  BY <1>5, <1>11 DEF Counts
<1> QED  BY <1>3, <1>5, <1>8, <1>10, <1>11, <1>12

(* Taking a snapshot of it.                                                *)
LEMMA SnapshotFits ==
    ASSUME NEW m, Fields \subseteq DOMAIN m, Averages(m)
    PROVE  LET x == MaybeSnapshot(m) IN
           /\ Fields \subseteq DOMAIN x /\ Averages(x)
           /\ x.state = m.state /\ x.own = m.own /\ x.log = m.log /\ x.recent = m.recent
           /\ x.lru = m.lru /\ x.dirty = m.dirty /\ x.decay = m.decay
<1>1. CASE m.total % SnapshotInterval = 0
  <2>1. PICK kept : kept = [state |-> m.state, stats |-> m.stats]
    OBVIOUS
  <2>2. PICK snapshot : snapshot = <<kept>>
    OBVIOUS
  <2>3. snapshot[1] = kept /\ kept.state = m.state /\ kept.stats = m.stats
    BY <2>1, <2>2
  <2>4. PICK x : x = [m EXCEPT !.snapshot = snapshot]
    OBVIOUS
  <2>5. /\ Fields \subseteq DOMAIN x /\ x.snapshot = snapshot /\ x.stats = m.stats
        /\ x.state = m.state /\ x.own = m.own /\ x.log = m.log /\ x.recent = m.recent
        /\ x.lru = m.lru /\ x.dirty = m.dirty /\ x.decay = m.decay
    BY <2>4 DEF Fields
  <2>6. Averages(x)
    BY <2>3, <2>5 DEF Averages
  <2>7. MaybeSnapshot(m) = x
    BY <1>1, <2>1, <2>2, <2>4 DEF MaybeSnapshot
  <2> QED  BY <2>5, <2>6, <2>7
<1>2. CASE m.total % SnapshotInterval # 0
  BY <1>2 DEF MaybeSnapshot
<1> QED  BY <1>1, <1>2

(* Going back to the snapshot, which is not below itself.                  *)
LEMMA RollBackFits ==
    ASSUME NEW m, Fields \subseteq DOMAIN m, Averages(m), Corrupt(m)
    PROVE  LET x == RollBack(m) IN
           /\ Fields \subseteq DOMAIN x /\ Unspoilt(x)
           /\ x.own = m.own /\ x.log = m.log /\ x.recent = m.recent
           /\ x.lru = m.lru /\ x.dirty = m.dirty /\ x.decay = m.decay
<1>1. PICK state, stats : state = m.snapshot[1].state /\ stats = m.snapshot[1].stats
  OBVIOUS
<1>2. IsWeights(state) /\ StatsFit(stats, state)
  BY <1>1 DEF Averages, Corrupt
<1>3. PICK x : x = [m EXCEPT !.state = state, !.stats = stats]
  OBVIOUS
<1>4. /\ Fields \subseteq DOMAIN x /\ x.state = state /\ x.stats = stats
      /\ x.snapshot = m.snapshot /\ x.own = m.own /\ x.log = m.log /\ x.recent = m.recent
      /\ x.lru = m.lru /\ x.dirty = m.dirty /\ x.decay = m.decay
  BY <1>3 DEF Fields
<1>5. Averages(x)
  BY <1>1, <1>2, <1>4 DEF Averages
<1>6. ~Corrupt(x)
  BY <1>1, <1>2, <1>4, NotBelowItself DEF Corrupt
<1>7. RollBack(m) = x
  BY <1>1, <1>3 DEF RollBack
<1> QED  BY <1>4, <1>5, <1>6, <1>7 DEF Unspoilt

-----------------------------------------------------------------------------
(* The images.                                                             *)

(* The image of a memory is one to load.                                   *)
LEMMA ImageIsFit ==
    ASSUME NEW m, MemoryFits(m) \/ (InSync(m) /\ IsWeights(m.state))
    PROVE  ImageFits(Image(m)) /\ Saved(Image(m), m)
<1>1. InSync(m) /\ IsWeights(m.state)
  BY DEF MemoryFits, Unspoilt, Averages
<1>2. Image(m).global = m.state /\ Image(m).customers = m.own
  BY DEF Image
<1>3. PICK s \in Seq(Customers) : s = m.lru /\ IsInjective(s) /\ Len(s) <= MaxCustomers
                               /\ DOMAIN m.own \subseteq ToSet(s)
  BY <1>1 DEF InSync, Listed, KnownTo
<1>4. IsFiniteSet(ToSet(s)) /\ ToSet(s) \subseteq Customers /\ Cardinality(ToSet(s)) = Len(s)
  BY <1>3, DistinctList
<1>5. /\ IsFiniteSet(DOMAIN m.own) /\ Cardinality(DOMAIN m.own) <= Cardinality(ToSet(s))
  BY <1>3, <1>4, FS_Subset
<1>6. Cardinality(DOMAIN m.own) <= MaxCustomers
  <2>1. PICK a \in Nat, b \in Nat, most \in Nat :
           a = Cardinality(DOMAIN m.own) /\ b = Len(s) /\ most = MaxCustomers
    BY <1>5, FS_CardinalityType, AdaptiveAssumption
  <2> QED  BY <1>3, <1>4, <1>5, <2>1
<1>7. ImageFits(Image(m))
  BY <1>1, <1>2, <1>3, <1>4, <1>5, <1>6 DEF ImageFits
<1>8. Saved(Image(m), m)
  BY <1>2, <1>3, <1>4 DEF Saved, Lookup
<1> QED  BY <1>7, <1>8

(* A process starts from an empty memory, or from a loaded image.          *)
LEMMA FreshFits == MemoryFits(Fresh)
<1>1. /\ Fields \subseteq DOMAIN Fresh /\ Fresh.state = NoWeights /\ Fresh.stats = NoWeights
      /\ Fresh.own = NoWeights /\ Fresh.log = NoWeights /\ Fresh.recent = NoWeights
      /\ Fresh.decay = NoWeights /\ Fresh.lru = <<>> /\ Fresh.dirty = 0 /\ Fresh.snapshot = <<>>
  BY DEF Fresh, Fields
<1>2. DOMAIN NoWeights = {}
  BY DEF NoWeights
<1>3. Unspoilt(Fresh)
  BY <1>1, <1>2, FS_EmptySet DEF Unspoilt, Averages, Corrupt, IsWeights, StatsFit
<1>4. <<>> \in Seq(Customers) /\ Len(<<>>) = 0 /\ IsInjective(<<>>)
  BY DEF IsInjective
<1>5. InSync(Fresh)
  BY <1>1, <1>2, <1>4, AdaptiveAssumption DEF InSync, Listed, KnownTo
<1> QED  BY <1>1, <1>2, <1>3, <1>5 DEF MemoryFits, Counts

(* The customers of a set in any order, one after the other.               *)
LEMMA InSomeOrder ==
    ASSUME NEW S \in SUBSET Customers, IsFiniteSet(S), NEW order \in SetToSeqs(S)
    PROVE  order \in Seq(Customers) /\ IsInjective(order) /\ ToSet(order) = S
           /\ Len(order) = Cardinality(S)
<1>1. PICK n \in Nat : n = Cardinality(S)
  BY FS_CardinalityType
<1>2. order \in [1..n -> S] /\ \A i, j \in 1..n : i # j => order[i] # order[j]
  BY <1>1 DEF SetToSeqs
<1>3. order \in Seq(S) /\ Len(order) = n /\ DOMAIN order = 1..n
  BY <1>2
<1>4. IsInjective(order)
  BY <1>2, <1>3 DEF IsInjective
<1>5. ToSet(order) \subseteq S /\ Cardinality(ToSet(order)) = n
  BY <1>3, <1>4, DistinctList
<1>6. ToSet(order) = S
  BY <1>1, <1>5, FS_Subset
<1> QED  BY <1>1, <1>3, <1>4, <1>6

(* A loaded image makes a memory to go on from, which it shows in whole.   *)
LEMMA LoadedFits ==
    ASSUME NEW f, ImageFits(f.image), NEW m, Loads(m, f)
    PROVE  MemoryFits(m) /\ Saved(f.image, m)
<1>1. PICK known : known = DOMAIN f.image.customers
  OBVIOUS
<1>2. known \in SUBSET Customers /\ IsFiniteSet(known) /\ Cardinality(known) <= MaxCustomers
      /\ IsWeights(f.image.global)
  BY <1>1 DEF ImageFits
<1>3. PICK order, dirty :
         /\ order \in SetToSeqs(known)
         /\ dirty = IF f.format = 2 THEN 0 ELSE WriteInterval
         /\ m = [Fresh EXCEPT !.state = f.image.global, !.own = f.image.customers,
                              !.lru = order, !.dirty = dirty]
  BY <1>1 DEF Loads
<1>4. /\ Fields \subseteq DOMAIN m /\ m.state = f.image.global /\ m.own = f.image.customers
      /\ m.lru = order /\ m.dirty = dirty /\ m.stats = NoWeights /\ m.log = NoWeights
      /\ m.recent = NoWeights /\ m.decay = NoWeights /\ m.snapshot = <<>>
  BY <1>3 DEF Fresh, Fields
<1>5. DOMAIN NoWeights = {}
  BY DEF NoWeights
<1>6. Unspoilt(m)
  BY <1>2, <1>4, <1>5 DEF Unspoilt, Averages, Corrupt, StatsFit
<1>7. order \in Seq(Customers) /\ IsInjective(order) /\ ToSet(order) = known
      /\ Len(order) = Cardinality(known)
  BY <1>2, <1>3, InSomeOrder
<1>8. InSync(m)
  BY <1>1, <1>2, <1>4, <1>5, <1>7 DEF InSync, Listed, KnownTo
<1>9. dirty \in Nat
  BY <1>3, AdaptiveAssumption
<1>10. Saved(f.image, m)
  BY <1>1, <1>2, <1>4 DEF Saved, Lookup
<1> QED  BY <1>4, <1>5, <1>6, <1>8, <1>9, <1>10 DEF MemoryFits, Counts

-----------------------------------------------------------------------------
(* What the steps preserve.                                                *)

(* Two memories hold the same ratings, one perhaps of fewer customers.     *)
Kept(x, m) ==
    /\ x.state = m.state
    /\ \A d \in DOMAIN x.own : d \in DOMAIN m.own /\ x.own[d] = m.own[d]

(* An image keeps showing a memory that forgets a customer.                *)
LEMMA SavedStays ==
    ASSUME NEW image, NEW m, NEW x, Saved(image, m), Kept(x, m)
    PROVE  Saved(image, x)
  BY DEF Saved, Kept

(* A step of the memory alone that learns nothing.                         *)
LEMMA LearnsNothing ==
    ASSUME Inv, Kept(mem', mem), mem'.dirty = mem.dirty, MemoryFits(mem'),
           UNCHANGED <<pending, file, newest, undone>>
    PROVE  Inv'
<1>1. Newest' = Newest
  BY DEF Newest
<1>2. newest # "lost" /\ mem.dirty = 0 /\ ~undone => Saved(Newest, mem')
  BY SavedStays DEF Inv
<1>3. newest' # "lost" /\ mem'.dirty = 0 /\ ~undone' => Saved(Newest', mem')
  BY <1>1, <1>2
<1> QED  BY <1>3 DEF Inv

(* A signal above its customer's rate is only noted.                       *)
LEMMA RateLimitedOK ==
    ASSUME Inv, NEW c \in Customers \cup {Anyone}, NEW live, RateLimited(c, live)
    PROVE  Inv'
<1>1. PICK recent : recent = Set(mem.recent, c, live)
  OBVIOUS
<1>2. mem' = [mem EXCEPT !.recent = recent]
  BY <1>1 DEF RateLimited
<1>3. Fields \subseteq DOMAIN mem /\ MemoryFits(mem)
  BY DEF Inv, MemoryFits
<1>4. /\ Fields \subseteq DOMAIN mem' /\ mem'.recent = recent /\ mem'.lru = mem.lru
      /\ mem'.own = mem.own /\ mem'.log = mem.log /\ mem'.state = mem.state
      /\ mem'.stats = mem.stats /\ mem'.snapshot = mem.snapshot /\ mem'.dirty = mem.dirty
      /\ mem'.decay = mem.decay
  BY <1>2, <1>3 DEF Fields
<1>5. c \in DOMAIN mem.recent
  <2>1. PICK most : live \in 0..most /\ most = Lookup(mem.recent, c, 0) /\ live >= RatePerCustomer
    BY DEF RateLimited
  <2>2. ASSUME c \notin DOMAIN mem.recent PROVE FALSE
    <3>1. most = 0
      BY <2>1, <2>2 DEF Lookup
    <3>2. live = 0
      BY <2>1, <3>1
    <3> QED  BY <2>1, <3>2, AdaptiveAssumption
  <2> QED  BY <2>2
<1>6. DOMAIN recent = DOMAIN mem.recent
  BY <1>1, <1>5 DEF Set
<1>7. MemoryFits(mem')
  BY <1>3, <1>4, <1>6, SameAverages DEF MemoryFits, Unspoilt, InSync, KnownTo, Counts
<1> QED  BY <1>4, <1>7, LearnsNothing DEF RateLimited, Kept

(* An ignored signal makes its customer the most recent, no more.          *)
LEMMA IgnoredOK ==
    ASSUME Inv, NEW k, NEW c \in Customers \cup {Anyone}, NEW live, Ignored(k, c, live)
    PROVE  Inv'
<1>1. Fields \subseteq DOMAIN mem /\ MemoryFits(mem)
  BY DEF Inv, MemoryFits
<1>2. PICK x : x = Greet(mem, c, live)
  OBVIOUS
<1>3. mem' = x
  BY <1>2 DEF Ignored
<1>4. /\ Fields \subseteq DOMAIN x /\ InSync(x)
      /\ x.state = mem.state /\ x.stats = mem.stats /\ x.snapshot = mem.snapshot
      /\ x.dirty = mem.dirty /\ x.decay = mem.decay
      /\ \A d \in DOMAIN x.own : d \in DOMAIN mem.own /\ x.own[d] = mem.own[d]
  BY <1>1, <1>2, GreetFits DEF MemoryFits
<1>5. MemoryFits(x)
  BY <1>1, <1>4, SameAverages DEF MemoryFits, Unspoilt, Counts
<1> QED  BY <1>3, <1>4, <1>5, LearnsNothing DEF Ignored, Kept

(* An accepted signal: the image taken of it, if any, is the newest, and   *)
(* shows the memory unless that is rolled back at once.                    *)
LEMMA AcceptedOK ==
    ASSUME Inv, NEW t \in Threads, NEW k \in Keys, NEW score \in Scores,
           NEW c \in Customers \cup {Anyone}, NEW live, Accepted(t, k, score, c, live)
    PROVE  Inv'
<1>1. Fields \subseteq DOMAIN mem /\ MemoryFits(mem)
  BY DEF Inv, MemoryFits
<1>2. PICK x : x = Greet(mem, c, live)
  OBVIOUS
<1>3. /\ Fields \subseteq DOMAIN x /\ InSync(x) /\ (c # Anyone => c \in ToSet(x.lru))
      /\ x.state = mem.state /\ x.stats = mem.stats /\ x.snapshot = mem.snapshot
      /\ x.dirty = mem.dirty /\ x.decay = mem.decay
  BY <1>1, <1>2, GreetFits DEF MemoryFits
<1>4. Averages(x) /\ Counts(x)
  BY <1>1, <1>3, SameAverages DEF MemoryFits, Unspoilt, Counts
<1>5. PICK learnt : learnt = Learn(x, k, score, c)
  OBVIOUS
<1>6. /\ Fields \subseteq DOMAIN learnt /\ Averages(learnt) /\ InSync(learnt) /\ Counts(learnt)
      /\ learnt.dirty >= 1
  BY <1>3, <1>4, <1>5, LearnFits
<1>7. PICK flushes \in BOOLEAN : flushes <=> learnt.dirty >= WriteInterval
  OBVIOUS
<1>8. PICK z : z = IF flushes THEN [learnt EXCEPT !.dirty = 0] ELSE learnt
  OBVIOUS
<1>9. /\ Fields \subseteq DOMAIN z /\ z.dirty = (IF flushes THEN 0 ELSE learnt.dirty)
      /\ z.state = learnt.state /\ z.stats = learnt.stats /\ z.snapshot = learnt.snapshot
      /\ z.own = learnt.own /\ z.log = learnt.log /\ z.recent = learnt.recent
      /\ z.lru = learnt.lru /\ z.decay = learnt.decay
  BY <1>6, <1>8 DEF Fields
<1>10. Averages(z) /\ InSync(z) /\ Counts(z)
  BY <1>6, <1>9, SameAverages DEF InSync, KnownTo, Counts
<1>11. PICK checked : checked = MaybeSnapshot(z)
  OBVIOUS
<1>12. /\ Fields \subseteq DOMAIN checked /\ Averages(checked)
       /\ checked.state = z.state /\ checked.own = z.own /\ checked.log = z.log
       /\ checked.recent = z.recent /\ checked.lru = z.lru /\ checked.dirty = z.dirty
       /\ checked.decay = z.decay
  BY <1>9, <1>10, <1>11, SnapshotFits
<1>13. InSync(checked) /\ Counts(checked)
  BY <1>10, <1>12 DEF InSync, KnownTo, Counts
<1>14. /\ Idle(t)
       /\ mem' = IF Corrupt(checked) THEN RollBack(checked) ELSE checked
       /\ IF flushes THEN Hold(t, Image(learnt)) ELSE UNCHANGED <<pending, newest>>
       /\ undone' = (Corrupt(checked) \/ (undone /\ ~flushes))
       /\ file' = file
  BY <1>2, <1>5, <1>7, <1>8, <1>11 DEF Accepted
<1>15. MemoryFits(mem') /\ mem'.dirty = z.dirty
  <2>1. CASE Corrupt(checked)
    <3>1. PICK y : y = RollBack(checked)
      OBVIOUS
    <3>2. /\ Fields \subseteq DOMAIN y /\ Unspoilt(y)
          /\ y.own = checked.own /\ y.log = checked.log /\ y.recent = checked.recent
          /\ y.lru = checked.lru /\ y.dirty = checked.dirty /\ y.decay = checked.decay
      BY <1>12, <2>1, <3>1, RollBackFits
    <3>3. InSync(y) /\ Counts(y)
      BY <1>13, <3>2 DEF InSync, KnownTo, Counts
    <3>4. mem' = y
      BY <1>14, <2>1, <3>1
    <3> QED  BY <1>12, <3>2, <3>3, <3>4 DEF MemoryFits
  <2>2. CASE ~Corrupt(checked)
    <3>1. mem' = checked
      BY <1>14, <2>2
    <3> QED  BY <1>12, <1>13, <2>2, <3>1 DEF MemoryFits, Unspoilt
  <2> QED  BY <2>1, <2>2
<1>16. undone' \in BOOLEAN
  BY <1>14
<1>17. CASE flushes
  <2>1. PICK image : image = Image(learnt)
    OBVIOUS
  <2>2. ImageFits(image) /\ Saved(image, learnt)
    BY <1>6, <2>1, ImageIsFit DEF Averages
  <2>3. pending' = [pending EXCEPT ![t] = image] /\ newest' = t
    BY <1>14, <1>17, <2>1 DEF Hold
  <2>4. /\ pending' = [u \in Threads |-> pending'[u]] /\ pending'[t] = image
        /\ \A u \in Threads \ {t} : pending'[u] = pending[u]
    BY <2>3 DEF Inv
  <2>5. t # "file" /\ t # "lost"
    BY AdaptiveAssumption
  <2>6. Newest' = image
    BY <2>3, <2>4, <2>5 DEF Newest
  <2>7. ~undone' => Saved(image, mem')
    <3>1. ASSUME ~undone' PROVE Saved(image, mem')
      <4>1. mem' = checked
        BY <1>14, <3>1
      <4>2. mem'.state = learnt.state /\ mem'.own = learnt.own
        BY <1>9, <1>12, <4>1
      <4> QED  BY <2>2, <4>2 DEF Saved
    <3> QED  BY <3>1
  <2>8. \A u \in Threads : pending'[u] # NoImage => ImageFits(pending'[u])
    BY <2>2, <2>4 DEF Inv
  <2>9. file' # NoImage => ImageFits(file'.image)
    BY <1>14 DEF Inv
  <2> QED  BY <1>15, <1>16, <2>3, <2>4, <2>6, <2>7, <2>8, <2>9 DEF Inv
<1>18. CASE ~flushes
  <2>1. mem'.dirty # 0
    BY <1>6, <1>9, <1>15, <1>18 DEF Counts
  <2>2. UNCHANGED <<pending, newest, file>>
    BY <1>14, <1>18
  <2> QED  BY <1>15, <1>16, <2>1, <2>2 DEF Inv
<1> QED  BY <1>7, <1>17, <1>18

(* The three ends of a signal.                                             *)
LEMMA RecordOK ==
    ASSUME Inv, NEW t \in Threads, NEW k \in Keys, NEW score \in Scores,
           NEW c \in Customers \cup {Anyone}, Record(t, k, score, c)
    PROVE  Inv'
  BY RateLimitedOK, IgnoredOK, AcceptedOK DEF Record

(* An event is logged for a customer the list knows by then.               *)
LEMMA RoutingEventOK ==
    ASSUME Inv, NEW c \in Customers, RecordRoutingEvent(c)
    PROVE  Inv'
<1>1. Fields \subseteq DOMAIN mem /\ MemoryFits(mem)
  BY DEF Inv, MemoryFits
<1>2. PICK x : x = Touch(mem, c)
  OBVIOUS
<1>3. /\ Fields \subseteq DOMAIN x /\ InSync(x) /\ c \in ToSet(x.lru)
      /\ x.state = mem.state /\ x.stats = mem.stats /\ x.snapshot = mem.snapshot
      /\ x.dirty = mem.dirty /\ x.decay = mem.decay
      /\ \A d \in DOMAIN x.own : d \in DOMAIN mem.own /\ x.own[d] = mem.own[d]
  <2>1. Listed(mem.lru) /\ KnownTo(mem) \subseteq ToSet(mem.lru) \cup {c}
    BY <1>1 DEF MemoryFits, InSync
  <2> QED  BY <1>1, <1>2, <2>1, TouchFits
<1>4. PICK events : events = Min({LogMax, Lookup(x.log, c, 0) + 1})
  OBVIOUS
<1>5. PICK lg : lg = Set(x.log, c, events)
  OBVIOUS
<1>6. mem' = [x EXCEPT !.log = lg]
  BY <1>2, <1>4, <1>5 DEF RecordRoutingEvent
<1>7. /\ Fields \subseteq DOMAIN mem' /\ mem'.log = lg /\ mem'.lru = x.lru
      /\ mem'.own = x.own /\ mem'.recent = x.recent /\ mem'.state = x.state
      /\ mem'.stats = x.stats /\ mem'.snapshot = x.snapshot /\ mem'.dirty = x.dirty
      /\ mem'.decay = x.decay
  BY <1>3, <1>6 DEF Fields
<1>8. DOMAIN lg = DOMAIN x.log \cup {c}
  BY <1>5 DEF Set
<1>9. InSync(mem')
  BY <1>3, <1>7, <1>8 DEF InSync, KnownTo
<1>10. MemoryFits(mem')
  BY <1>1, <1>3, <1>7, <1>9, SameAverages DEF MemoryFits, Unspoilt, Counts
<1> QED  BY <1>3, <1>7, <1>10, LearnsNothing DEF RecordRoutingEvent, Kept

(* A factor set by an operator changes no average yet.                     *)
LEMMA DecayOK ==
    ASSUME Inv, NEW k \in Keys, NEW decay \in Decays, SetDecayFactor(k, decay)
    PROVE  Inv'
<1>1. Fields \subseteq DOMAIN mem /\ MemoryFits(mem)
  BY DEF Inv, MemoryFits
<1>2. PICK factors : factors = Set(mem.decay, k, decay)
  OBVIOUS
<1>3. mem' = [mem EXCEPT !.decay = factors]
  BY <1>2 DEF SetDecayFactor
<1>4. /\ Fields \subseteq DOMAIN mem' /\ mem'.decay = factors /\ mem'.lru = mem.lru
      /\ mem'.own = mem.own /\ mem'.log = mem.log /\ mem'.recent = mem.recent
      /\ mem'.state = mem.state /\ mem'.stats = mem.stats /\ mem'.snapshot = mem.snapshot
      /\ mem'.dirty = mem.dirty
  BY <1>1, <1>3 DEF Fields
<1>5. \A x \in DOMAIN factors : factors[x] \in Int
  <2>1. decay \in Int
    BY AdaptiveAssumption
  <2> QED  BY <1>1, <1>2, <2>1 DEF Set, MemoryFits, Counts
<1>6. MemoryFits(mem')
  BY <1>1, <1>4, <1>5, SameAverages DEF MemoryFits, Unspoilt, InSync, KnownTo, Counts
<1> QED  BY <1>4, <1>6, LearnsNothing DEF SetDecayFactor, Kept

(* flush() takes an image of the memory as it is.                          *)
LEMMA FlushOK ==
    ASSUME Inv, NEW t \in Threads, Flush(t)
    PROVE  Inv'
<1>1. Fields \subseteq DOMAIN mem /\ MemoryFits(mem)
  BY DEF Inv, MemoryFits
<1>2. PICK image : image = Image(mem)
  OBVIOUS
<1>3. /\ mem' = [mem EXCEPT !.dirty = 0] /\ undone' = FALSE /\ file' = file
      /\ pending' = [pending EXCEPT ![t] = image] /\ newest' = t
  BY <1>2 DEF Flush, Hold
<1>4. ImageFits(image) /\ Saved(image, mem)
  BY <1>1, <1>2, ImageIsFit
<1>5. /\ Fields \subseteq DOMAIN mem' /\ mem'.dirty = 0 /\ mem'.decay = mem.decay
      /\ mem'.lru = mem.lru /\ mem'.own = mem.own /\ mem'.log = mem.log
      /\ mem'.recent = mem.recent /\ mem'.state = mem.state /\ mem'.stats = mem.stats
      /\ mem'.snapshot = mem.snapshot
  BY <1>1, <1>3 DEF Fields
<1>6. MemoryFits(mem')
  BY <1>1, <1>5, SameAverages DEF MemoryFits, Unspoilt, InSync, KnownTo, Counts
<1>7. /\ pending' = [u \in Threads |-> pending'[u]] /\ pending'[t] = image
      /\ \A u \in Threads \ {t} : pending'[u] = pending[u]
  BY <1>3 DEF Inv
<1>8. t # "file" /\ t # "lost"
  BY AdaptiveAssumption
<1>9. Newest' = image
  BY <1>3, <1>7, <1>8 DEF Newest
<1>10. Saved(image, mem')
  BY <1>4, <1>5 DEF Saved
<1>11. \A u \in Threads : pending'[u] # NoImage => ImageFits(pending'[u])
  BY <1>4, <1>7 DEF Inv
<1>12. file' # NoImage => ImageFits(file'.image)
  BY <1>3 DEF Inv
<1> QED  BY <1>3, <1>6, <1>7, <1>9, <1>10, <1>11, <1>12 DEF Inv

(* An image that is written, or dropped, is no more with its thread.       *)
LEMMA WriteOK ==
    ASSUME Inv, NEW t \in Threads, WriteToDisk(t) \/ WriteFails(t)
    PROVE  Inv'
<1>1. /\ pending[t] # NoImage /\ pending' = [pending EXCEPT ![t] = NoImage]
      /\ mem' = mem /\ undone' = undone
  BY DEF WriteToDisk, WriteFails, Idle
<1>2. t # "file" /\ t # "lost"
  BY AdaptiveAssumption
<1>3. /\ pending' = [u \in Threads |-> pending'[u]] /\ pending'[t] = NoImage
      /\ \A u \in Threads \ {t} : pending'[u] = pending[u]
  BY <1>1 DEF Inv
<1>4. \A u \in Threads : pending'[u] # NoImage => ImageFits(pending'[u])
  BY <1>3 DEF Inv
<1>5. CASE WriteToDisk(t)
  <2>1. PICK f : f = [format |-> 2, image |-> pending[t]]
    OBVIOUS
  <2>2. file' = f /\ f.image = pending[t]
    BY <1>5, <2>1 DEF WriteToDisk
  <2>3. ImageFits(file'.image)
    BY <1>1, <2>2 DEF Inv
  <2>4. newest' = CASE newest = t -> "file" [] newest = "file" -> "lost" [] OTHER -> newest
    BY <1>5 DEF WriteToDisk
  <2>5. CASE newest = t
    <3>1. newest' = "file" /\ Newest' = pending[t] /\ Newest = pending[t]
      BY <1>2, <2>2, <2>4, <2>5 DEF Newest
    <3> QED  BY <1>1, <1>2, <1>3, <1>4, <2>3, <2>5, <3>1 DEF Inv
  <2>6. CASE newest = "file"
    <3>1. newest' = "lost"
      BY <1>2, <2>4, <2>6
    <3> QED  BY <1>1, <1>3, <1>4, <2>3, <3>1 DEF Inv
  <2>7. CASE newest # t /\ newest # "file"
    <3>1. newest' = newest
      BY <2>4, <2>7
    <3>2. newest # "lost" => newest \in Threads \ {t}
      BY <2>7 DEF Inv
    <3>3. newest # "lost" => Newest' = Newest
      BY <1>3, <2>7, <3>1, <3>2 DEF Newest
    <3>4. newest' # "lost" /\ mem'.dirty = 0 /\ ~undone' => Saved(Newest', mem')
      BY <1>1, <3>1, <3>3 DEF Inv
    <3> QED  BY <1>1, <1>3, <1>4, <2>3, <3>1, <3>4 DEF Inv
  <2> QED  BY <2>5, <2>6, <2>7
<1>6. CASE WriteFails(t)
  <2>1. file' = file /\ newest' = IF newest = t THEN "lost" ELSE newest
    BY <1>6 DEF WriteFails
  <2>2. newest' # "lost" => newest' = newest /\ Newest' = Newest
    <3>1. newest # t /\ newest # "lost" => newest = "file" \/ newest \in Threads \ {t}
      BY DEF Inv
    <3> QED  BY <1>2, <1>3, <2>1, <3>1 DEF Newest
  <2>3. newest' # "lost" /\ mem'.dirty = 0 /\ ~undone' => Saved(Newest', mem')
    BY <1>1, <2>2 DEF Inv
  <2> QED  BY <1>1, <1>3, <1>4, <2>1, <2>3 DEF Inv
<1> QED  BY <1>5, <1>6

(* A new process loads the file, or starts afresh.                         *)
LEMMA RestartOK ==
    ASSUME Inv, Restart
    PROVE  Inv'
<1>1. pending' = [t \in Threads |-> NoImage] /\ file' = file
  BY DEF Restart
<1>2. pending' = [t \in Threads |-> pending'[t]] /\ \A t \in Threads : pending'[t] = NoImage
  BY <1>1
<1>3. file' # NoImage => ImageFits(file'.image)
  BY <1>1 DEF Inv
<1>4. CASE file # NoImage /\ Loads(mem', file) /\ undone' = FALSE /\ newest' = "file"
  <2>1. MemoryFits(mem') /\ Saved(file.image, mem')
    BY <1>4, LoadedFits DEF Inv
  <2>2. Newest' = file.image
    BY <1>1, <1>4 DEF Newest
  <2> QED  BY <1>2, <1>3, <1>4, <2>1, <2>2 DEF Inv
<1>5. CASE mem' = Fresh /\ undone' = TRUE /\ newest' = "lost"
  <2>1. MemoryFits(mem')
    BY <1>5, FreshFits
  <2> QED  BY <1>2, <1>3, <1>5, <2>1 DEF Inv
<1> QED  BY <1>4, <1>5 DEF Restart

(* The first process starts from an old file or from nothing.              *)
LEMMA InitOK == Init => Inv
<1> SUFFICES ASSUME Init PROVE Inv
  OBVIOUS
<1>1. file # NoImage => ImageFits(file.image)
  BY FilesAssumption DEF Init, ImageFits, IsWeights
<1>2. MemoryFits(mem)
  BY <1>1, FreshFits, LoadedFits DEF Init
<1> QED  BY <1>1, <1>2 DEF Init, Inv

(* What is known of the memory, the file and the images holds throughout.  *)
LEMMA Invariance == Spec => []Inv
<1>1. Inv /\ [Next]_vars => Inv'
  <2> SUFFICES ASSUME Inv, [Next]_vars PROVE Inv'
    OBVIOUS
  <2>1. CASE Next
    BY <2>1, RecordOK, RoutingEventOK, DecayOK, FlushOK, WriteOK, RestartOK DEF Next
  <2>2. CASE UNCHANGED vars
    <3>1. UNCHANGED <<mem, pending, file, newest, undone>>
      BY <2>2 DEF vars
    <3> QED  BY <3>1 DEF Inv, Newest
  <2> QED  BY <2>1, <2>2
<1> QED  BY InitOK, <1>1, PTL DEF Spec

(* Of a customer the recency list does not know nothing is kept, so it is  *)
(* rated as everybody and has no profile; and the list keeps its cap.      *)
THEOREM Synced == Spec => []CustomersInSync
<1>1. Inv => CustomersInSync
  <2> SUFFICES ASSUME Inv PROVE CustomersInSync
    OBVIOUS
  <2>1. Listed(mem.lru) /\ KnownTo(mem) \subseteq ToSet(mem.lru)
    BY DEF Inv, MemoryFits, InSync
  <2>2. ToSet(mem.lru) \subseteq Customers
    BY <2>1, DistinctList DEF Listed
  <2>3. ASSUME NEW c, c \notin ToSet(mem.lru), NEW k
        PROVE  AdjustedScore(mem, k, c)
                 = Unless(MinSamples, Lookup(mem.state, k, NoEntry(k)), Base[k])
    <3>1. c \notin DOMAIN mem.own
      BY <2>1, <2>3 DEF KnownTo
    <3>2. Lookup(mem.own, c, NoWeights) = NoWeights
      BY <3>1 DEF Lookup
    <3>3. PICK none : none = [avg |-> 0, n |-> -1]
      OBVIOUS
    <3>4. Lookup(NoWeights, k, none) = none
      BY DEF Lookup, NoWeights
    <3>5. none.n < OwnMinSamples
      BY <3>3, AdaptiveAssumption
    <3> QED  BY <3>2, <3>3, <3>4, <3>5 DEF AdjustedScore, Unless
  <2>4. Anyone \notin ToSet(mem.lru)
    BY <2>2, AdaptiveAssumption
  <2>5. ASSUME NEW c \in Customers \ ToSet(mem.lru)
        PROVE  /\ \A k \in Keys : AdjustedScore(mem, k, c) = AdjustedScore(mem, k, Anyone)
               /\ RoutingProfile(mem, c) = [requests |-> 0, custom |-> FALSE]
    <3>1. \A k \in Keys : AdjustedScore(mem, k, c) = AdjustedScore(mem, k, Anyone)
      BY <2>3, <2>4, <2>5
    <3>2. c \notin DOMAIN mem.log
      BY <2>1, <2>5 DEF KnownTo
    <3>3. Lookup(mem.log, c, 0) = 0
      BY <3>2 DEF Lookup
    <3>4. PICK own : own = Lookup(mem.own, c, NoWeights)
      OBVIOUS
    <3>5. (0 > 0 /\ \E k \in DOMAIN own : own[k].n >= OwnMinSamples) = FALSE
      OBVIOUS
    <3>6. RoutingProfile(mem, c) =
             [requests |-> 0, custom |-> 0 > 0 /\ \E k \in DOMAIN own : own[k].n >= OwnMinSamples]
      BY <3>3, <3>4, Zenon DEF RoutingProfile
    <3>7. RoutingProfile(mem, c) = [requests |-> 0, custom |-> FALSE]
      BY <3>5, <3>6, Zenon
    <3> QED  BY <3>1, <3>7
  <2> QED  BY <2>1, <2>5 DEF CustomersInSync, Listed, KnownTo
<1> QED  BY <1>1, Invariance, PTL

(* No sequence of signals leaves what was learnt degraded, and no key has  *)
(* more signals in its statistics than in its average.                     *)
THEOREM Contained == Spec => []DriftContained
<1>1. Inv => DriftContained
  BY DEF Inv, MemoryFits, Unspoilt, Averages, StatsFit, DriftContained
<1> QED  BY <1>1, Invariance, PTL

(* When the newest image is the one in the file, and the memory was not    *)
(* rolled back since that image, a memory marked clean is what the file    *)
(* holds, and a process that loads it rates as this one does: a signal     *)
(* that comes while the image is on its way keeps the memory dirty.  An    *)
(* older image that overwrites a newer one, a write that fails and a load  *)
(* that fails are outside of it.                                           *)
THEOREM CleanSaved == Spec => []CleanIsSaved
<1>1. Inv => CleanIsSaved
  <2> SUFFICES ASSUME Inv, mem.dirty = 0, newest = "file", ~undone PROVE CleanIsSaved
    BY DEF CleanIsSaved
  <2>1. Saved(file.image, mem)
    BY DEF Inv, Newest
  <2>2. PICK loaded : loaded = [Fresh EXCEPT !.state = file.image.global, !.own = file.image.customers]
    OBVIOUS
  <2>3. loaded.state = mem.state /\ loaded.own = file.image.customers
    BY <2>1, <2>2 DEF Saved, Fresh
  <2>4. \A c \in DOMAIN mem.own : Lookup(loaded.own, c, NoWeights) = mem.own[c]
    BY <2>1, <2>3 DEF Saved
  <2>5. \A c \in DOMAIN mem.own \cup {Anyone} :
           Lookup(loaded.own, c, NoWeights) = Lookup(mem.own, c, NoWeights)
    <3>1. Anyone \notin DOMAIN loaded.own
      BY <2>1, <2>3, AdaptiveAssumption DEF Saved
    <3>2. Anyone \notin DOMAIN mem.own
      <4>1. DOMAIN mem.own \subseteq ToSet(mem.lru) /\ Listed(mem.lru)
        BY DEF Inv, MemoryFits, InSync, KnownTo
      <4>2. ToSet(mem.lru) \subseteq Customers
        BY <4>1, DistinctList DEF Listed
      <4> QED  BY <4>1, <4>2, AdaptiveAssumption
    <3> QED  BY <2>4, <3>1, <3>2 DEF Lookup
  <2>6. \A k \in Keys, c \in DOMAIN mem.own \cup {Anyone} :
           AdjustedScore(loaded, k, c) = AdjustedScore(mem, k, c)
    BY <2>3, <2>5 DEF AdjustedScore
  <2> QED  BY <2>2, <2>3, <2>4, <2>6 DEF CleanIsSaved
<1> QED  BY <1>1, Invariance, PTL
=============================================================================
