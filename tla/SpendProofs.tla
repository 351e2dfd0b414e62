----------------------------- MODULE SpendProofs -----------------------------
(***************************************************************************)
(* Proofs about the two accounts kept of what is spent.                    *)
(*                                                                         *)
(* What is kept of the requests served (UsageRecords), for any requests,   *)
(* correlation ids, readers, sizes of queue, batch and log, and caps:      *)
(*                                                                         *)
(*   - the index of the decision log leads to the newest entry of an id;   *)
(*   - a record the queue took is in one place on its way to the table,    *)
(*     and a reader that waited finds it there;                            *)
(*   - what is answered from the table is in scope and adds up, for any    *)
(*     rows and questions;                                                 *)
(*   - the counters split all requests and all costs between the labels.   *)
(*                                                                         *)
(* And the plan budget (BudgetTracker), for any users, callers, plans and  *)
(* bounds: the ledger is exact while nothing was forgotten, no reservation *)
(* outlives its call, and one is granted only where the plan leaves room.  *)
(***************************************************************************)
EXTENDS BudgetTracker, UsageRecords, DataLemmas

Stages == {"new", "decided", "logged", "stored", "counted", "refused", "gone"}

(* No request is in the log before it was decided, nor twice.              *)
LogInv ==
    /\ stage \in [Requests -> Stages]
    /\ {entries, lines} \subseteq Seq(Requests)
    /\ IsInjective(entries) /\ IsInjective(lines)
    /\ \A r \in ToSet(entries) : stage[r] # "new"
    /\ \A r \in ToSet(lines) : stage[r] \notin {"new", "decided"}
    /\ IndexIsNewest

(* Those who wait do so for records that the queue took.                   *)
StoreInv ==
    /\ {queue, batch, table, lost, accepted} \subseteq Seq(Requests) /\ committed \in Nat
    /\ reader \in [Readers -> {"idle", "flushing", "counting"}]
    /\ read \in [Readers -> Seq(Requests)]
    /\ awaited \in [Readers -> SUBSET Requests]
    /\ NothingIsLost
    /\ \A x \in Readers : reader[x] = "flushing" => awaited[x] \subseteq ToSet(accepted)
-----------------------------------------------------------------------------
(* The index of the decision log.                                          *)

IdsOf(s) == {Correlation[r] : r \in ToSet(s)}

(* The entry at i is the newest of s that has the id.                      *)
NewestAt(s, id, i) ==
    /\ i \in DOMAIN s /\ Correlation[s[i]] = id
    /\ \A j \in DOMAIN s : Correlation[s[j]] = id => j <= i

(* The index leads to the newest entry of every id of the log.             *)
LEMMA IndexSays ==
    ASSUME NEW s \in Seq(Requests)
    PROVE  /\ IndexOf(s) = [id \in IdsOf(s) |-> IndexOf(s)[id]]
           /\ \A id \in IdsOf(s) : \E i \in 1..Len(s) : NewestAt(s, id, i) /\ IndexOf(s)[id] = s[i]
<1>1. IndexOf(s) = [id \in IdsOf(s) |-> s[Max({i \in DOMAIN s : Correlation[s[i]] = id})]]
  BY DEF IndexOf, IdsOf
<1>2. DOMAIN s = 1..Len(s) /\ Len(s) \in Nat
  OBVIOUS
<1>3. ASSUME NEW id \in IdsOf(s)
      PROVE  \E i \in 1..Len(s) : NewestAt(s, id, i) /\ IndexOf(s)[id] = s[i]
  <2> DEFINE T == {i \in DOMAIN s : Correlation[s[i]] = id}
  <2>1. T # {}
    BY DEF IdsOf, ToSet
  <2>2. T \subseteq 0..Len(s)
    BY <1>2
  <2> HIDE DEF T
  <2>3. Max(T) \in T /\ \A m \in T : m <= Max(T)
    BY <1>2, <2>1, <2>2, MaxIsGreatest
  <2>4. NewestAt(s, id, Max(T)) /\ Max(T) \in 1..Len(s)
    BY <1>2, <2>3 DEF NewestAt, T
  <2>5. IndexOf(s)[id] = s[Max(T)]
    BY <1>1 DEF T
  <2> QED  BY <2>4, <2>5
<1> QED  BY <1>1, <1>3

(* A function that does so is the index.                                   *)
LEMMA IndexIs ==
    ASSUME NEW s \in Seq(Requests), NEW f, f = [id \in IdsOf(s) |-> f[id]],
           \A id \in IdsOf(s) : \E i \in 1..Len(s) : NewestAt(s, id, i) /\ f[id] = s[i]
    PROVE  f = IndexOf(s)
<1>1. ASSUME NEW id \in IdsOf(s)
      PROVE  f[id] = IndexOf(s)[id]
  <2>1. PICK i \in 1..Len(s) : NewestAt(s, id, i) /\ f[id] = s[i]
    OBVIOUS
  <2>2. PICK j \in 1..Len(s) : NewestAt(s, id, j) /\ IndexOf(s)[id] = s[j]
    BY IndexSays
  <2>3. i <= j /\ j <= i
    BY <2>1, <2>2 DEF NewestAt
  <2>4. i = j
    BY <2>3
  <2> QED  BY <2>1, <2>2, <2>4
<1>2. IndexOf(s) = [id \in IdsOf(s) |-> IndexOf(s)[id]]
  BY IndexSays
<1> QED  BY <1>1, <1>2

(* An entry is appended: its id leads to it.                               *)
LEMMA IndexGrows ==
    ASSUME NEW s \in Seq(Requests), NEW r \in Requests
    PROVE  With(IndexOf(s), Correlation[r], r) = IndexOf(Append(s, r))
<1> DEFINE t == Append(s, r)
           n == Len(s)
           f == With(IndexOf(s), Correlation[r], r)
<1>1. /\ t \in Seq(Requests) /\ Len(t) = n + 1 /\ ToSet(t) = ToSet(s) \cup {r} /\ n \in Nat
      /\ DOMAIN t = 1..n + 1 /\ DOMAIN s = 1..n
  BY AppendList
<1>2. t[n + 1] = r /\ \A i \in 1..n : t[i] = s[i]
  OBVIOUS
<1>3. IdsOf(t) = IdsOf(s) \cup {Correlation[r]}
  BY <1>1 DEF IdsOf
<1>4. DOMAIN IndexOf(s) = IdsOf(s)
  BY IndexSays
<1>5. f = [id \in IdsOf(t) |-> IF id = Correlation[r] THEN r ELSE IndexOf(s)[id]]
  BY <1>3, <1>4 DEF With
<1> HIDE DEF t, f
<1>6. ASSUME NEW id \in IdsOf(t)
      PROVE  \E i \in 1..Len(t) : NewestAt(t, id, i) /\ f[id] = t[i]
  <2>1. CASE id = Correlation[r]
    <3>1. NewestAt(t, id, n + 1) /\ f[id] = t[n + 1]
      BY <1>1, <1>2, <1>5, <2>1 DEF NewestAt
    <3> QED  BY <1>1, <3>1
  <2>2. CASE id # Correlation[r]
    <3>1. id \in IdsOf(s)
      BY <1>3, <2>2
    <3>2. PICK i \in 1..n : NewestAt(s, id, i) /\ IndexOf(s)[id] = s[i]
      BY <3>1, IndexSays
    <3>3. i \in 1..n + 1 /\ f[id] = t[i] /\ Correlation[t[i]] = id
      BY <1>1, <1>2, <1>5, <2>2, <3>2 DEF NewestAt
    <3>4. ASSUME NEW j \in DOMAIN t, Correlation[t[j]] = id
          PROVE  j <= i
      <4>1. j \in 1..n
        BY <1>1, <1>2, <2>2, <3>4
      <4> QED  BY <1>1, <1>2, <3>2, <3>4, <4>1 DEF NewestAt
    <3>5. NewestAt(t, id, i)
      BY <1>1, <3>3, <3>4 DEF NewestAt
    <3> QED  BY <1>1, <3>3, <3>5
  <2> QED  BY <2>1, <2>2
<1>7. f = [id \in IdsOf(t) |-> f[id]]
  BY <1>5
<1>8. f = IndexOf(t)
  BY <1>1, <1>6, <1>7, IndexIs
<1> QED  BY <1>8 DEF f, t

(* The oldest entry is evicted.                                            *)
LEMMA IndexShrinks ==
    ASSUME NEW s \in Seq(Requests), s # <<>>, IsInjective(s)
    PROVE  Unindex(IndexOf(s), Head(s)) = IndexOf(Tail(s))
<1> DEFINE t == Tail(s)
           n == Len(s)
           old == Correlation[Head(s)]
           f == Unindex(IndexOf(s), Head(s))
<1>1. /\ t \in Seq(Requests) /\ Len(t) = n - 1 /\ ToSet(s) = {Head(s)} \cup ToSet(t)
      /\ Head(s) \notin ToSet(t)
  BY TailList
<1>2. /\ n \in Nat \ {0} /\ DOMAIN s = 1..n /\ DOMAIN t = 1..n - 1 /\ Head(s) = s[1]
      /\ \A i \in 1..n - 1 : t[i] = s[i + 1]
  OBVIOUS
<1>3. IdsOf(s) = IdsOf(t) \cup {old}
  BY <1>1 DEF IdsOf
<1>4. IndexOf(s) = [id \in IdsOf(s) |-> IndexOf(s)[id]]
  BY IndexSays
<1>5. PICK k \in 1..n : NewestAt(s, old, k) /\ IndexOf(s)[old] = s[k]
  BY <1>3, IndexSays
<1>6. IndexOf(s)[old] = Head(s) <=> k = 1
  BY <1>2, <1>5 DEF IsInjective
<1>7. old \in IdsOf(t) <=> k # 1
  <2>1. ASSUME k # 1 PROVE old \in IdsOf(t)
    <3>1. k - 1 \in 1..n - 1 /\ t[k - 1] = s[k]
      BY <1>2, <2>1
    <3>2. Correlation[t[k - 1]] = old
      BY <1>5, <3>1 DEF NewestAt
    <3>3. t[k - 1] \in ToSet(t)
      BY <1>2, <3>1 DEF ToSet
    <3> QED  BY <3>2, <3>3 DEF IdsOf
  <2>2. ASSUME old \in IdsOf(t) PROVE k # 1
    <3>1. PICK i \in 1..n - 1 : Correlation[t[i]] = old
      BY <1>2, <2>2 DEF IdsOf, ToSet
    <3>2. i + 1 \in 1..n /\ Correlation[s[i + 1]] = old
      BY <1>2, <3>1
    <3>3. i + 1 <= k
      BY <1>2, <1>5, <3>2 DEF NewestAt
    <3> QED  BY <3>1, <3>3
  <2> QED  BY <2>1, <2>2
<1>8. f = [id \in IdsOf(t) |-> IndexOf(s)[id]]
  <2>1. CASE k = 1
    <3>1. f = Unkeyed(IndexOf(s), old)
      BY <1>3, <1>4, <1>6, <2>1 DEF Unindex
    <3>2. IdsOf(s) \ {old} = IdsOf(t)
      BY <1>3, <1>7, <2>1
    <3> QED  BY <1>4, <3>1, <3>2 DEF Unkeyed, Restrict
  <2>2. CASE k # 1
    <3>1. f = IndexOf(s)
      BY <1>6, <2>2 DEF Unindex
    <3>2. IdsOf(s) = IdsOf(t)
      BY <1>3, <1>7, <2>2
    <3> QED  BY <1>4, <3>1, <3>2
  <2> QED  BY <2>1, <2>2
<1> HIDE DEF t, f
<1>9. ASSUME NEW id \in IdsOf(t)
      PROVE  \E i \in 1..Len(t) : NewestAt(t, id, i) /\ f[id] = t[i]
  <2>1. PICK i \in 1..n : NewestAt(s, id, i) /\ IndexOf(s)[id] = s[i]
    BY <1>3, <1>9, IndexSays
  <2>2. PICK j \in 1..n - 1 : Correlation[t[j]] = id
    BY <1>2, <1>9 DEF IdsOf, ToSet
  <2>3. j + 1 \in 1..n /\ Correlation[s[j + 1]] = id
    BY <1>2, <2>2
  <2>4. j + 1 <= i
    BY <1>2, <2>1, <2>3 DEF NewestAt
  <2>5. i - 1 \in 1..n - 1 /\ t[i - 1] = s[i]
    BY <1>2, <2>4
  <2>6. Correlation[t[i - 1]] = id
    BY <2>1, <2>5 DEF NewestAt
  <2>7. ASSUME NEW m \in 1..n - 1, Correlation[t[m]] = id
        PROVE  m <= i - 1
    <3>1. m + 1 \in 1..n /\ Correlation[s[m + 1]] = id
      BY <1>2, <2>7
    <3>2. m + 1 <= i
      BY <1>2, <2>1, <3>1 DEF NewestAt
    <3> QED  BY <3>2
  <2>8. NewestAt(t, id, i - 1)
    BY <1>2, <2>5, <2>6, <2>7 DEF NewestAt
  <2>9. f[id] = t[i - 1]
    BY <1>8, <2>1, <2>5
  <2> QED  BY <1>1, <2>5, <2>8, <2>9
<1>10. f = [id \in IdsOf(t) |-> f[id]]
  BY <1>8
<1>11. f = IndexOf(t)
  BY <1>1, <1>9, <1>10, IndexIs
<1> QED  BY <1>11 DEF f, t

-----------------------------------------------------------------------------
(* The end of a list: what it has is of the list, and once if it was.      *)
LEMMA LastList ==
    ASSUME NEW S, NEW s \in Seq(S), NEW k \in Nat
    PROVE  /\ LastOf(k, s) \in Seq(S) /\ ToSet(LastOf(k, s)) \subseteq ToSet(s)
           /\ IsInjective(s) => IsInjective(LastOf(k, s))
<1> DEFINE n == Len(s)
           d == n - k + 1
           first == Max({1, d})
           t == LastOf(k, s)
<1>1. n \in Nat /\ d \in Int /\ DOMAIN s = 1..n
  OBVIOUS
<1>2. first \in Nat /\ first >= 1
  <2>1. \E x \in {1, d} : \A y \in {1, d} : x >= y
    BY <1>1
  <2>2. first \in {1, d} /\ \A y \in {1, d} : first >= y
    BY <2>1 DEF Max
  <2> QED  BY <1>1, <2>2
<1> HIDE DEF first
<1>3. t = [i \in 1..1 + n - first |-> s[i + first - 1]]
  <2>1. t = SubSeq(s, first, n)
    BY DEF LastOf, first
  <2> HIDE DEF t
  <2>2. \A a, b \in Int : SubSeq(s, a, b) = [i \in 1..1 + b - a |-> s[i + a - 1]]
    OBVIOUS
  <2> QED  BY <1>1, <1>2, <2>1, <2>2
<1>4. \A i \in 1..1 + n - first : i + first - 1 \in 1..n
  BY <1>1, <1>2
<1>5. DOMAIN t = 1..1 + n - first /\ \A i \in 1..1 + n - first : t[i] = s[i + first - 1]
  BY <1>3
<1>6. t \in Seq(S)
  <2> DEFINE m == IF first <= n THEN 1 + n - first ELSE 0
  <2>1. m \in Nat /\ 1..1 + n - first = 1..m
    BY <1>1, <1>2
  <2>2. t = [i \in 1..m |-> s[i + first - 1]]
    BY <1>3, <2>1
  <2>3. \A i \in 1..m : s[i + first - 1] \in S
    BY <1>1, <1>4, <2>1
  <2> HIDE DEF m, t
  <2> QED  BY <2>1, <2>2, <2>3
<1> HIDE DEF t
<1>7. ToSet(t) \subseteq ToSet(s)
  BY <1>1, <1>4, <1>5 DEF ToSet
<1>8. ASSUME IsInjective(s)
      PROVE  IsInjective(t)
  <2> SUFFICES ASSUME NEW i \in 1..1 + n - first, NEW j \in 1..1 + n - first, t[i] = t[j]
               PROVE  i = j
    BY <1>5 DEF IsInjective
  <2>1. s[i + first - 1] = s[j + first - 1]
    BY <1>5
  <2>2. i + first - 1 = j + first - 1
    BY <1>1, <1>4, <1>8, <2>1 DEF IsInjective
  <2> QED  BY <1>1, <1>2, <2>2
<1> QED  BY <1>6, <1>7, <1>8 DEF t

(* A request goes from one stage to the next.                              *)
LEMMA Advances ==
    ASSUME stage \in [Requests -> Stages], NEW r \in Requests, NEW from, NEW to \in Stages,
           Advance(r, from, to)
    PROVE  /\ stage' \in [Requests -> Stages] /\ stage[r] = from /\ stage'[r] = to
           /\ \A p \in Requests \ {r} : stage'[p] = stage[p]
BY DEF Advance

(* Nobody has logged anything.                                             *)
LEMMA LogStarts ==
    ASSUME UsageInit
    PROVE  LogInv
<1>1. entries = <<>> /\ lines = <<>> /\ index = <<>> /\ stage \in [Requests -> Stages]
  BY DEF UsageInit, Stages
<1>2. ToSet(<<>>) = {} /\ IsInjective(<<>>) /\ <<>> \in Seq(Requests)
  BY DEF ToSet, IsInjective
<1>3. IndexOf(<<>>) = <<>>
  <2>1. IndexOf(<<>>) = [id \in {} |-> IndexOf(<<>>)[id]]
    BY <1>2, IndexSays DEF IdsOf
  <2> QED  BY <2>1
<1> QED  BY <1>1, <1>2, <1>3 DEF LogInv, IndexIsNewest

(* A new entry, and perhaps the eviction of the oldest.                    *)
LEMMA LogDecisionOK ==
    ASSUME LogInv, NEW r \in Requests, LogDecision(r)
    PROVE  LogInv'
<1> DEFINE full == Len(entries) >= MaxEntries
           kept == IF full THEN Tail(entries) ELSE entries
           left == IF full THEN Unindex(index, Head(entries)) ELSE index
<1>1. /\ entries' = Append(kept, r) /\ index' = With(left, Correlation[r], r) /\ lines' = lines
      /\ Advance(r, "new", "decided")
  BY DEF LogDecision
<1>2. /\ stage' \in [Requests -> Stages] /\ stage[r] = "new" /\ stage'[r] = "decided"
      /\ \A p \in Requests \ {r} : stage'[p] = stage[p]
  BY <1>1, Advances DEF LogInv, Stages
<1>3. /\ kept \in Seq(Requests) /\ IsInjective(kept) /\ ToSet(kept) \subseteq ToSet(entries)
      /\ left = IndexOf(kept)
  <2>1. CASE full
    <3>1. MaxEntries \in Nat \ {0}
      BY UsageAssumption
    <3>2. entries \in Seq(Requests) /\ entries # <<>> /\ IsInjective(entries) /\ index = IndexOf(entries)
      BY <2>1, <3>1 DEF LogInv, IndexIsNewest
    <3> QED  BY <2>1, <3>2, TailList, IndexShrinks
  <2>2. CASE ~full
    BY <2>2 DEF LogInv, IndexIsNewest
  <2> QED  BY <2>1, <2>2
<1> HIDE DEF kept, left
<1>4. r \notin ToSet(kept)
  BY <1>2, <1>3 DEF LogInv
<1>5. /\ entries' \in Seq(Requests) /\ IsInjective(entries')
      /\ ToSet(entries') = ToSet(kept) \cup {r}
  BY <1>1, <1>3, <1>4, AppendList
<1>6. \A p \in ToSet(entries') : stage'[p] # "new"
  <2>1. ToSet(entries) \subseteq Requests
    BY DistinctList DEF LogInv
  <2> QED  BY <1>2, <1>3, <1>5, <2>1 DEF LogInv
<1>7. \A p \in ToSet(lines') : stage'[p] \notin {"new", "decided"}
  <2>1. ToSet(lines) \subseteq Requests
    BY DistinctList DEF LogInv
  <2> QED  BY <1>1, <1>2, <2>1 DEF LogInv
<1>8. index' = IndexOf(entries')
  BY <1>1, <1>3, IndexGrows
<1> QED  BY <1>1, <1>2, <1>5, <1>6, <1>7, <1>8 DEF LogInv, IndexIsNewest

(* The line of an entry is written, or not.                                *)
LEMMA WriteLineOK ==
    ASSUME LogInv, NEW r \in Requests, WriteLine(r)
    PROVE  LogInv'
<1>1. /\ stage' \in [Requests -> Stages] /\ stage[r] = "decided" /\ stage'[r] = "logged"
      /\ \A p \in Requests \ {r} : stage'[p] = stage[p]
  BY Advances DEF WriteLine, LogInv, Stages
<1>2. entries' = entries /\ index' = index /\ lines' \in {lines, Append(lines, r)}
  BY DEF WriteLine
<1>3. ToSet(entries) \subseteq Requests /\ ToSet(lines) \subseteq Requests
  BY DistinctList DEF LogInv
<1>4. r \notin ToSet(lines)
  BY <1>1 DEF LogInv
<1>5. /\ lines' \in Seq(Requests) /\ IsInjective(lines')
      /\ ToSet(lines') \subseteq ToSet(lines) \cup {r}
  <2>1. lines \in Seq(Requests) /\ IsInjective(lines)
    BY DEF LogInv
  <2>2. /\ Append(lines, r) \in Seq(Requests) /\ IsInjective(Append(lines, r))
        /\ ToSet(Append(lines, r)) = ToSet(lines) \cup {r}
    BY <1>4, <2>1, AppendList
  <2>3. CASE lines' = lines
    BY <2>1, <2>3
  <2>4. CASE lines' = Append(lines, r)
    BY <2>2, <2>4
  <2> QED  BY <1>2, <2>3, <2>4
<1>6. \A p \in ToSet(lines') : stage'[p] \notin {"new", "decided"}
  BY <1>1, <1>3, <1>5 DEF LogInv
<1>7. \A p \in ToSet(entries') : stage'[p] # "new"
  BY <1>1, <1>2, <1>3 DEF LogInv
<1>8. index' = IndexOf(entries')
  BY <1>2 DEF LogInv, IndexIsNewest, IndexOf
<1> QED  BY <1>1, <1>2, <1>5, <1>6, <1>7, <1>8 DEF LogInv, IndexIsNewest

(* A request that goes on with its log entry untouched.                    *)
LEMMA LogKept ==
    ASSUME LogInv, decisions' = decisions, NEW r \in Requests, NEW from,
           NEW to \in Stages \ {"new", "decided"}, Advance(r, from, to)
    PROVE  LogInv'
<1>1. /\ stage' \in [Requests -> Stages] /\ stage'[r] = to
      /\ \A p \in Requests \ {r} : stage'[p] = stage[p]
  BY Advances DEF LogInv
<1>2. entries' = entries /\ index' = index /\ lines' = lines
  BY DEF decisions
<1>3. ToSet(entries) \subseteq Requests /\ ToSet(lines) \subseteq Requests
  BY DistinctList DEF LogInv
<1>4. \A p \in ToSet(lines') : stage'[p] \notin {"new", "decided"}
  BY <1>1, <1>2, <1>3 DEF LogInv
<1>5. \A p \in ToSet(entries') : stage'[p] # "new"
  BY <1>1, <1>2, <1>3 DEF LogInv
<1> QED  BY <1>1, <1>2, <1>4, <1>5 DEF LogInv, IndexIsNewest, IndexOf

(* The log of the next process is the end of the file.                     *)
LEMMA LogReloads ==
    ASSUME LogInv, Restart
    PROVE  LogInv'
<1> DEFINE k == Min({MaxLoaded, MaxEntries})
           log == LastOf(k, lines)
<1>1. k \in Nat
  <2>1. MaxLoaded \in Nat /\ MaxEntries \in Nat
    BY UsageAssumption
  <2>2. \E x \in {MaxLoaded, MaxEntries} : \A y \in {MaxLoaded, MaxEntries} : x =< y
    BY <2>1
  <2>3. k \in {MaxLoaded, MaxEntries}
    BY <2>2 DEF Min
  <2> QED  BY <2>1, <2>3
<1> HIDE DEF k
<1>2. entries' = log /\ index' = IndexOf(log) /\ lines' = lines
  BY DEF Restart, k
<1>3. log \in Seq(Requests) /\ ToSet(log) \subseteq ToSet(lines) /\ IsInjective(log)
  BY <1>1, LastList DEF LogInv
<1>4. /\ stage' \in [Requests -> Stages]
      /\ \A p \in Requests : stage[p] # "new" => stage'[p] = "gone"
  BY DEF Restart, LogInv, Stages
<1>5. ToSet(lines) \subseteq Requests
  BY DistinctList DEF LogInv
<1>6. \A p \in ToSet(lines) : stage'[p] = "gone"
  BY <1>4, <1>5 DEF LogInv
<1> HIDE DEF log
<1> QED  BY <1>2, <1>3, <1>4, <1>6 DEF LogInv, IndexIsNewest

(* The invariant of the log is kept by every step.                         *)
LEMMA LogStep ==
    ASSUME LogInv, [UsageNext]_usage
    PROVE  LogInv'
<1>1. ASSUME NEW r \in Requests, LogDecision(r) PROVE LogInv'
  BY <1>1, LogDecisionOK
<1>2. ASSUME NEW r \in Requests, WriteLine(r) PROVE LogInv'
  BY <1>2, WriteLineOK
<1>3. ASSUME NEW r \in Requests, Enqueue(r) PROVE LogInv'
  <2>1. Advance(r, "logged", "stored") /\ decisions' = decisions
    BY <1>3 DEF Enqueue
  <2> QED  BY <2>1, LogKept DEF Stages
<1>4. ASSUME NEW r \in Requests, Tally(r) PROVE LogInv'
  <2>1. Advance(r, "stored", "counted") /\ decisions' = decisions
    BY <1>4 DEF Tally
  <2> QED  BY <2>1, LogKept DEF Stages
<1>5. ASSUME NEW r \in Requests, TallyRefused(r) PROVE LogInv'
  <2>1. Advance(r, "new", "refused") /\ decisions' = decisions
    BY <1>5 DEF TallyRefused
  <2> QED  BY <2>1, LogKept DEF Stages
<1>6. ASSUME Restart PROVE LogInv'
  BY <1>6, LogReloads
<1>7. ASSUME stage' = stage, decisions' = decisions PROVE LogInv'
  <2>1. entries' = entries /\ index' = index /\ lines' = lines
    BY <1>7 DEF decisions
  <2> QED  BY <1>7, <2>1 DEF LogInv, IndexIsNewest, IndexOf
<1>8. ASSUME Write \/ UNCHANGED usage \/ \E x \in Readers : AskRows(x) \/ ReadRows(x) \/ ReadTotal(x)
      PROVE  stage' = stage /\ decisions' = decisions
  BY <1>8 DEF Write, Gather, Commit, InsertFails, AskRows, ReadRows, ReadTotal, usage
<1> QED  BY <1>1, <1>2, <1>3, <1>4, <1>5, <1>6, <1>7, <1>8 DEF UsageNext

(* A correlation id leads to the newest entry that has it, through         *)
(* evictions, duplicate ids and reloads of part of the file.               *)
THEOREM IndexHolds == UsageSpec => []IndexIsNewest
<1>1. UsageInit => LogInv
  BY LogStarts
<1>2. LogInv /\ [UsageNext]_usage => LogInv'
  BY LogStep
<1>3. LogInv => IndexIsNewest
  BY DEF LogInv
<1> QED  BY <1>1, <1>2, <1>3, PTL DEF UsageSpec

-----------------------------------------------------------------------------
(* The queue, the writer and those who wait for it.                        *)

(* Nothing has been recorded.                                              *)
LEMMA StoreStarts ==
    ASSUME UsageInit
    PROVE  StoreInv
<1>1. /\ queue = <<>> /\ batch = <<>> /\ table = <<>> /\ lost = <<>> /\ accepted = <<>>
      /\ unfinished = 0 /\ committed = 0 /\ reader = [x \in Readers |-> "idle"]
      /\ read = [x \in Readers |-> <<>>] /\ awaited = [x \in Readers |-> {}]
  BY DEF UsageInit
<1>2. <<>> \in Seq(Requests) /\ <<>> \o <<>> = <<>> /\ Len(<<>>) = 0
  OBVIOUS
<1> QED  BY <1>1, <1>2 DEF StoreInv, NothingIsLost

(* The readers are left alone, and what they were answered from stays in   *)
(* the table, what they wait for in what was accepted.                     *)
LEMMA ReadersKept ==
    ASSUME StoreInv, reading' = reading,
           {queue', batch', table', lost', accepted'} \subseteq Seq(Requests),
           accepted' = table' \o lost' \o batch' \o queue',
           unfinished' = Len(batch') + Len(queue'),
           committed' \in Nat, committed' <= Len(table'),
           lost' # <<>> \/ committed' # Len(table') => writer' = "dead",
           table' = table \/ \E u \in Seq(Requests) : table' = table \o u,
           ToSet(accepted) \subseteq ToSet(accepted'), ToSet(lost) \subseteq ToSet(lost')
    PROVE  StoreInv'
<1>1. reader' = reader /\ read' = read /\ awaited' = awaited
  BY DEF reading
<1>2. ASSUME NEW x \in Readers, reader[x] = "counting"
      PROVE  IsPrefix(read[x], table') /\ awaited[x] \subseteq ToSet(read[x]) \cup ToSet(lost')
  <2>1. /\ IsPrefix(read[x], table) /\ awaited[x] \subseteq ToSet(read[x]) \cup ToSet(lost)
        /\ read[x] \in Seq(Requests) /\ table \in Seq(Requests)
    BY <1>2 DEF StoreInv, NothingIsLost
  <2>2. IsPrefix(read[x], table')
    BY <2>1, PrefixLaws
  <2> QED  BY <2>1, <2>2
<1>3. NothingIsLost'
  BY <1>1, <1>2 DEF NothingIsLost
<1>4. \A x \in Readers : reader[x] = "flushing" => awaited[x] \subseteq ToSet(accepted')
  BY DEF StoreInv
<1> QED  BY <1>1, <1>3, <1>4 DEF StoreInv

(* A record goes to the end of the queue, or is refused.                   *)
LEMMA EnqueueOK ==
    ASSUME StoreInv, NEW r \in Requests, Enqueue(r)
    PROVE  StoreInv'
<1>1. /\ batch' = batch /\ table' = table /\ writer' = writer /\ lost' = lost /\ reading' = reading
      /\ committed' = committed
      /\ \/ queue' = Append(queue, r) /\ accepted' = Append(accepted, r) /\ unfinished' = unfinished + 1
         \/ queue' = queue /\ accepted' = accepted /\ unfinished' = unfinished
  BY DEF Enqueue
<1>2. /\ queue \in Seq(Requests) /\ batch \in Seq(Requests) /\ table \in Seq(Requests)
      /\ lost \in Seq(Requests) /\ accepted \in Seq(Requests)
      /\ accepted = table \o lost \o batch \o queue /\ unfinished = Len(batch) + Len(queue)
      /\ committed \in Nat /\ committed <= Len(table)
      /\ lost # <<>> \/ committed # Len(table) => writer = "dead"
  BY DEF StoreInv, NothingIsLost
<1>3. CASE queue' = queue /\ accepted' = accepted /\ unfinished' = unfinished
  <2>1. {queue', batch', table', lost', accepted'} \subseteq Seq(Requests)
    BY <1>1, <1>2, <1>3
  <2>2. accepted' = table' \o lost' \o batch' \o queue' /\ unfinished' = Len(batch') + Len(queue')
    BY <1>1, <1>2, <1>3
  <2> QED  BY <1>1, <1>2, <1>3, <2>1, <2>2, ReadersKept
<1>4. CASE queue' = Append(queue, r) /\ accepted' = Append(accepted, r) /\ unfinished' = unfinished + 1
  <2>1. /\ Append(queue, r) \in Seq(Requests) /\ Len(Append(queue, r)) = Len(queue) + 1
        /\ Append(accepted, r) \in Seq(Requests) /\ ToSet(Append(accepted, r)) = ToSet(accepted) \cup {r}
    <3>1. \A s \in Seq(Requests) :
            /\ Append(s, r) \in Seq(Requests) /\ Len(Append(s, r)) = Len(s) + 1
            /\ ToSet(Append(s, r)) = ToSet(s) \cup {r}
      BY AppendList
    <3> QED  BY <1>2, <3>1
  <2>2. table \o lost \o batch \in Seq(Requests)
    BY <1>2
  <2>3. (table \o lost \o batch) \o Append(queue, r) = Append((table \o lost \o batch) \o queue, r)
    BY <1>2, <2>2, ConcatLaws
  <2>4. {queue', batch', table', lost', accepted'} \subseteq Seq(Requests)
    BY <1>1, <1>2, <1>4, <2>1
  <2>5. accepted' = table' \o lost' \o batch' \o queue'
    BY <1>1, <1>2, <1>4, <2>3
  <2>6. unfinished' = Len(batch') + Len(queue')
    <3>1. Len(batch) \in Nat /\ Len(queue) \in Nat
      BY <1>2
    <3> QED  BY <1>1, <1>2, <1>4, <2>1, <3>1
  <2> QED  BY <1>1, <1>2, <1>4, <2>1, <2>4, <2>5, <2>6, ReadersKept
<1> QED  BY <1>1, <1>3, <1>4

(* A record moves from the head of the queue to the end of the batch.      *)
LEMMA GatherOK ==
    ASSUME StoreInv, Gather
    PROVE  StoreInv'
<1>1. /\ batch' = Append(batch, Head(queue)) /\ queue' = Tail(queue) /\ queue # <<>>
      /\ table' = table /\ committed' = committed /\ lost' = lost
      /\ accepted' = accepted /\ unfinished' = unfinished
      /\ reading' = reading /\ writer \in {"waiting", "gathering"}
  BY DEF Gather
<1>2. /\ queue \in Seq(Requests) /\ batch \in Seq(Requests) /\ table \in Seq(Requests)
      /\ lost \in Seq(Requests) /\ accepted \in Seq(Requests)
      /\ accepted = table \o lost \o batch \o queue /\ unfinished = Len(batch) + Len(queue)
      /\ committed \in Nat /\ committed <= Len(table)
      /\ lost # <<>> \/ committed # Len(table) => writer = "dead"
  BY DEF StoreInv, NothingIsLost
<1>3. /\ Head(queue) \in Requests /\ Tail(queue) \in Seq(Requests) /\ Len(Tail(queue)) = Len(queue) - 1
      /\ Append(batch, Head(queue)) \in Seq(Requests) /\ Len(Append(batch, Head(queue))) = Len(batch) + 1
  BY <1>1, <1>2, TailList, AppendList
<1>4. accepted = table \o lost \o Append(batch, Head(queue)) \o Tail(queue)
  <2> DEFINE front == table \o lost
  <2>1. front \in Seq(Requests) /\ accepted = (front \o batch) \o queue
    BY <1>2
  <2> HIDE DEF front
  <2>2. accepted = front \o (batch \o queue)
    BY <1>2, <2>1, ConcatLaws
  <2>3. batch \o queue = Append(batch, Head(queue)) \o Tail(queue)
    BY <1>1, <1>2, ConcatLaws
  <2> DEFINE longer == Append(batch, Head(queue))
  <2>4. longer \in Seq(Requests) /\ Tail(queue) \in Seq(Requests)
    BY <1>3
  <2> HIDE DEF longer
  <2>5. (front \o longer) \o Tail(queue) = front \o (longer \o Tail(queue))
    BY <2>1, <2>4, ConcatLaws
  <2> QED  BY <2>2, <2>3, <2>5 DEF front, longer
<1>5. {queue', batch', table', lost', accepted'} \subseteq Seq(Requests)
  BY <1>1, <1>2, <1>3
<1>6. unfinished' = Len(batch') + Len(queue')
  <2>1. Len(batch) \in Nat /\ Len(queue) \in Nat
    BY <1>2
  <2> QED  BY <1>1, <1>2, <1>3, <2>1
<1>7. lost' = <<>> /\ committed' \in Nat /\ committed' = Len(table')
  BY <1>1, <1>2
<1>8. accepted' = table' \o lost' \o batch' \o queue'
  BY <1>1, <1>4
<1>9. committed' <= Len(table')
  BY <1>7
<1> QED  BY <1>1, <1>5, <1>6, <1>7, <1>8, <1>9, ReadersKept

(* What both ends of a batch have in common: all is committed, none lost.  *)
LEMMA BatchEnds ==
    ASSUME StoreInv, Gathered, NEW all, all = Len(batch), unfinished' = unfinished - all,
           batch' = <<>>, queue' = queue, accepted' = accepted
    PROVE  /\ lost = <<>> /\ {table, batch, queue, accepted} \subseteq Seq(Requests)
           /\ committed = Len(table)
           /\ accepted' = table \o batch \o queue
           /\ unfinished' = Len(batch') + Len(queue')
<1>1. lost = <<>> /\ {table, batch, queue, accepted} \subseteq Seq(Requests) /\ committed = Len(table)
  BY DEF StoreInv, NothingIsLost, Gathered
<1>2. accepted = table \o batch \o queue
  <2>1. accepted = table \o <<>> \o batch \o queue
    BY <1>1 DEF StoreInv, NothingIsLost
  <2>2. table \o <<>> = table
    BY <1>1, ConcatLaws
  <2> QED  BY <2>1, <2>2
<1>3. Len(batch) \in Nat /\ Len(queue) \in Nat /\ unfinished = Len(batch) + Len(queue)
  BY <1>1 DEF StoreInv, NothingIsLost
<1> QED  BY <1>1, <1>2, <1>3

(* The batch becomes the end of the table.                                 *)
LEMMA CommitOK ==
    ASSUME StoreInv, Commit
    PROVE  StoreInv'
<1>1. /\ table' = table \o batch /\ unfinished' = unfinished - Len(batch) /\ batch' = <<>>
      /\ committed' = Len(table) + Len(batch)
      /\ queue' = queue /\ accepted' = accepted /\ lost' = lost /\ reading' = reading /\ Gathered
  BY DEF Commit
<1>2. /\ lost = <<>> /\ {table, batch, queue, accepted} \subseteq Seq(Requests)
      /\ accepted' = table \o batch \o queue
      /\ unfinished' = Len(batch') + Len(queue')
  BY <1>1, BatchEnds
<1>3. table \o batch \in Seq(Requests) /\ <<>> \in Seq(Requests)
  BY <1>2
<1>4. (table \o batch) \o <<>> = table \o batch
  BY <1>3, ConcatLaws
<1>5. accepted' = table' \o lost' \o batch' \o queue'
  BY <1>1, <1>2, <1>4
<1>6. {queue', batch', table', lost', accepted'} \subseteq Seq(Requests)
  BY <1>1, <1>2, <1>3
<1>7. committed' \in Nat /\ committed' = Len(table') /\ committed' <= Len(table')
  <2>1. Len(table) \in Nat /\ Len(batch) \in Nat /\ Len(table \o batch) = Len(table) + Len(batch)
    BY <1>2
  <2> QED  BY <1>1, <2>1
<1> QED  BY <1>1, <1>2, <1>5, <1>6, <1>7, ReadersKept

(* A list is what it begins with and the rest.                             *)
LEMMA SplitList ==
    ASSUME NEW S, NEW s \in Seq(S), NEW n \in 0..Len(s)
    PROVE  /\ SubSeq(s, 1, n) \in Seq(S) /\ Len(SubSeq(s, 1, n)) = n
           /\ SubSeq(s, n + 1, Len(s)) \in Seq(S)
           /\ SubSeq(s, 1, n) \o SubSeq(s, n + 1, Len(s)) = s
<1>1. PICK m \in Nat : m = Len(s) /\ DOMAIN s = 1..m
  OBVIOUS
<1>2. PICK front : front = SubSeq(s, 1, n)
  OBVIOUS
<1>3. PICK back : back = SubSeq(s, n + 1, m)
  OBVIOUS
<1>4. front \in Seq(S) /\ Len(front) = n /\ \A i \in 1..n : front[i] = s[i]
  BY <1>1, <1>2
<1>5. back \in Seq(S) /\ Len(back) = m - n /\ \A i \in 1..m - n : back[i] = s[n + i]
  BY <1>1, <1>3
<1>6. PICK whole : whole = front \o back
  OBVIOUS
<1>7. /\ whole \in Seq(S) /\ Len(whole) = m
      /\ \A i \in 1..n : whole[i] = front[i]
      /\ \A i \in n + 1..m : whole[i] = back[i - n]
  BY <1>1, <1>4, <1>5, <1>6
<1>8. front \o back = s
  <2>1. ASSUME NEW i \in 1..m PROVE whole[i] = s[i]
    <3>1. CASE i <= n
      <4>1. i \in 1..n
        BY <1>1, <3>1
      <4> QED  BY <1>4, <1>7, <4>1
    <3>2. CASE i > n
      <4>1. i \in n + 1..m /\ i - n \in 1..m - n /\ n + (i - n) = i
        BY <1>1, <3>2
      <4> QED  BY <1>5, <1>7, <4>1
    <3> QED  BY <1>1, <3>1, <3>2
  <2>2. whole \in [1..m -> S] /\ s \in [1..m -> S]
    BY <1>1, <1>7
  <2>3. whole = s
    BY <2>1, <2>2
  <2> QED  BY <1>6, <2>3
<1> QED  BY <1>1, <1>2, <1>3, <1>4, <1>5, <1>8

(* Of the batch some rows end the table, and the rest is lost.             *)
LEMMA InsertFailsOK ==
    ASSUME StoreInv, InsertFails
    PROVE  StoreInv'
<1>1. PICK n \in 0..Len(batch) :
        table' = table \o SubSeq(batch, 1, n) /\ lost' = SubSeq(batch, n + 1, Len(batch))
  BY DEF InsertFails
<1>2. /\ unfinished' = unfinished - Len(batch) /\ batch' = <<>> /\ committed' = committed
      /\ queue' = queue /\ accepted' = accepted /\ reading' = reading /\ writer' = "dead" /\ Gathered
  BY DEF InsertFails
<1>3. /\ lost = <<>> /\ {table, batch, queue, accepted} \subseteq Seq(Requests)
      /\ committed = Len(table) /\ accepted' = table \o batch \o queue
      /\ unfinished' = Len(batch') + Len(queue')
  BY <1>2, BatchEnds
<1>4. PICK front : front = SubSeq(batch, 1, n)
  OBVIOUS
<1>5. PICK back : back = SubSeq(batch, n + 1, Len(batch))
  OBVIOUS
<1>6. front \in Seq(Requests) /\ back \in Seq(Requests) /\ front \o back = batch
  BY <1>3, <1>4, <1>5, SplitList
<1>7. table' = table \o front /\ lost' = back
  BY <1>1, <1>4, <1>5
<1>8. /\ table' \in Seq(Requests) /\ table' \o back \in Seq(Requests)
      /\ (table' \o back) \o <<>> = table' \o back
  BY <1>3, <1>6, <1>7, ConcatLaws
<1>9. table' \o back = table \o batch
  <2>1. table \in Seq(Requests) /\ front \in Seq(Requests) /\ back \in Seq(Requests)
    BY <1>3, <1>6
  <2>2. (table \o front) \o back = table \o (front \o back)
    BY <2>1, ConcatLaws
  <2> QED  BY <1>6, <1>7, <2>2
<1>10. accepted' = table' \o lost' \o batch' \o queue'
  BY <1>2, <1>3, <1>7, <1>8, <1>9
<1>11. {queue', batch', table', lost', accepted'} \subseteq Seq(Requests)
  BY <1>2, <1>3, <1>6, <1>7, <1>8
<1>12. ToSet(lost) = {}
  BY <1>3 DEF ToSet
<1>13. committed' \in Nat /\ committed' <= Len(table')
  <2>1. /\ Len(table) \in Nat /\ Len(front) \in Nat /\ Len(table \o front) = Len(table) + Len(front)
    BY <1>3, <1>6
  <2> QED  BY <1>2, <1>3, <1>7, <2>1
<1> QED  BY <1>2, <1>3, <1>6, <1>7, <1>10, <1>11, <1>12, <1>13, ReadersKept

(* One reader goes on.  The store does not notice.                         *)
LEMMA AskRowsOK ==
    ASSUME StoreInv, NEW x \in Readers, AskRows(x)
    PROVE  StoreInv'
<1>1. /\ reader' = [reader EXCEPT ![x] = "flushing"] /\ awaited' = [awaited EXCEPT ![x] = ToSet(accepted)]
      /\ store' = store /\ read' = read
  BY DEF AskRows
<1>2. /\ queue' = queue /\ batch' = batch /\ unfinished' = unfinished /\ table' = table
      /\ writer' = writer /\ accepted' = accepted /\ lost' = lost /\ committed' = committed
  BY <1>1 DEF store
<1>3. ToSet(accepted) \subseteq Requests
  BY DistinctList DEF StoreInv
<1>4. /\ reader' \in [Readers -> {"idle", "flushing", "counting"}]
      /\ awaited' \in [Readers -> SUBSET Requests]
      /\ reader'[x] = "flushing" /\ awaited'[x] = ToSet(accepted)
      /\ \A y \in Readers \ {x} : reader'[y] = reader[y] /\ awaited'[y] = awaited[y]
  BY <1>1, <1>3 DEF StoreInv
<1>5. NothingIsLost'
  BY <1>1, <1>2, <1>4 DEF StoreInv, NothingIsLost
<1>6. \A y \in Readers : reader'[y] = "flushing" => awaited'[y] \subseteq ToSet(accepted')
  BY <1>2, <1>4 DEF StoreInv
<1> QED  BY <1>1, <1>2, <1>4, <1>5, <1>6 DEF StoreInv

(* When nothing is on its way, what was accepted is in the table or lost.  *)
LEMMA ReadRowsOK ==
    ASSUME StoreInv, NEW x \in Readers, ReadRows(x)
    PROVE  StoreInv'
<1>1. /\ reader' = [reader EXCEPT ![x] = "counting"] /\ read' = [read EXCEPT ![x] = table]
      /\ store' = store /\ awaited' = awaited /\ reader[x] = "flushing" /\ unfinished = 0
  BY DEF ReadRows
<1>2. /\ queue' = queue /\ batch' = batch /\ unfinished' = unfinished /\ table' = table
      /\ writer' = writer /\ accepted' = accepted /\ lost' = lost /\ committed' = committed
  BY <1>1 DEF store
<1>3. /\ reader' \in [Readers -> {"idle", "flushing", "counting"}]
      /\ read' \in [Readers -> Seq(Requests)]
      /\ reader'[x] = "counting" /\ read'[x] = table
      /\ \A y \in Readers \ {x} : reader'[y] = reader[y] /\ read'[y] = read[y]
  BY <1>1 DEF StoreInv
<1>4. {table, lost, batch, queue} \subseteq Seq(Requests)
  BY DEF StoreInv
<1>5. awaited[x] \subseteq ToSet(table) \cup ToSet(lost)
  <2>1. batch = <<>> /\ queue = <<>>
    <3>1. Len(batch) + Len(queue) = 0 /\ Len(batch) \in Nat /\ Len(queue) \in Nat
      BY <1>1, <1>4 DEF StoreInv, NothingIsLost
    <3>2. Len(batch) = 0 /\ Len(queue) = 0
      BY <3>1
    <3> QED  BY <1>4, <3>2
  <2>2. accepted = table \o lost \o <<>> \o <<>>
    BY <2>1 DEF StoreInv, NothingIsLost
  <2>3. table \o lost \in Seq(Requests)
    BY <1>4
  <2>4. accepted = table \o lost
    BY <2>2, <2>3, ConcatLaws
  <2>5. ToSet(accepted) = ToSet(table) \cup ToSet(lost)
    BY <1>4, <2>4, ConcatList
  <2> QED  BY <1>1, <2>5 DEF StoreInv
<1>6. IsPrefix(table, table)
  BY <1>4, PrefixLaws
<1>7. ASSUME NEW y \in Readers, reader'[y] = "counting"
      PROVE  IsPrefix(read'[y], table) /\ awaited[y] \subseteq ToSet(read'[y]) \cup ToSet(lost)
  <2>1. CASE y = x
    BY <1>3, <1>5, <1>6, <2>1
  <2>2. CASE y # x
    BY <1>3, <1>7, <2>2 DEF StoreInv, NothingIsLost
  <2> QED  BY <2>1, <2>2
<1>8. NothingIsLost'
  BY <1>1, <1>2, <1>7 DEF StoreInv, NothingIsLost
<1>9. \A y \in Readers : reader'[y] = "flushing" => awaited'[y] \subseteq ToSet(accepted')
  BY <1>1, <1>2, <1>3 DEF StoreInv
<1> QED  BY <1>1, <1>2, <1>3, <1>8, <1>9 DEF StoreInv

(* A listing counts after its page.                                        *)
LEMMA ReadTotalOK ==
    ASSUME StoreInv, NEW x \in Readers, ReadTotal(x)
    PROVE  StoreInv'
<1>1. /\ reader' = [reader EXCEPT ![x] = "idle"]
      /\ read' = [read EXCEPT ![x] = <<>>] /\ awaited' = [awaited EXCEPT ![x] = {}]
      /\ store' = store /\ reader[x] = "counting"
  BY DEF ReadTotal
<1>2. /\ queue' = queue /\ batch' = batch /\ unfinished' = unfinished /\ table' = table
      /\ writer' = writer /\ accepted' = accepted /\ lost' = lost /\ committed' = committed
  BY <1>1 DEF store
<1>3. /\ reader' \in [Readers -> {"idle", "flushing", "counting"}] /\ reader'[x] = "idle"
      /\ \A y \in Readers \ {x} : /\ reader'[y] = reader[y]
                                  /\ read'[y] = read[y] /\ awaited'[y] = awaited[y]
  BY <1>1 DEF StoreInv
<1>4. NothingIsLost'
  BY <1>1, <1>2, <1>3 DEF StoreInv, NothingIsLost
<1>5. \A y \in Readers : reader'[y] = "flushing" => awaited'[y] \subseteq ToSet(accepted')
  BY <1>1, <1>2, <1>3 DEF StoreInv
<1> QED  BY <1>1, <1>2, <1>3, <1>4, <1>5 DEF StoreInv

(* The next process starts with the committed rows and nothing else.       *)
LEMMA StoreRestarts ==
    ASSUME StoreInv, Restart
    PROVE  StoreInv'
<1>1. PICK kept : kept = SubSeq(table, 1, committed)
  OBVIOUS
<1>2. /\ queue' = <<>> /\ batch' = <<>> /\ unfinished' = 0 /\ table' = kept /\ lost' = <<>>
      /\ accepted' = kept /\ committed' = committed /\ reader' = [x \in Readers |-> "idle"]
      /\ read' = [x \in Readers |-> <<>>] /\ awaited' = [x \in Readers |-> {}]
  BY <1>1 DEF Restart
<1>3. table \in Seq(Requests) /\ committed \in 0..Len(table)
  BY DEF StoreInv, NothingIsLost
<1>4. kept \in Seq(Requests) /\ Len(kept) = committed
  BY <1>1, <1>3, SplitList
<1>5. kept \o <<>> = kept /\ <<>> \in Seq(Requests) /\ Len(<<>>) = 0
  BY <1>4, ConcatLaws
<1>6. accepted' = table' \o lost' \o batch' \o queue' /\ unfinished' = Len(batch') + Len(queue')
  BY <1>2, <1>5
<1>7. \A x \in Readers : reader'[x] = "idle"
  BY <1>2
<1>8. committed' \in Nat /\ committed' <= Len(table') /\ committed' = Len(table')
  BY <1>2, <1>3, <1>4
<1>9. NothingIsLost'
  BY <1>2, <1>6, <1>7, <1>8 DEF NothingIsLost
<1>10. {queue', batch', table', lost', accepted'} \subseteq Seq(Requests)
  BY <1>2, <1>4, <1>5
<1>11. /\ reader' \in [Readers -> {"idle", "flushing", "counting"}]
       /\ read' \in [Readers -> Seq(Requests)] /\ awaited' \in [Readers -> SUBSET Requests]
  BY <1>2, <1>5
<1> QED  BY <1>7, <1>8, <1>9, <1>10, <1>11 DEF StoreInv

(* The invariant of the store is kept by every step.                       *)
LEMMA StoreStep ==
    ASSUME StoreInv, [UsageNext]_usage
    PROVE  StoreInv'
<1>1. ASSUME NEW r \in Requests, Enqueue(r) PROVE StoreInv'
  BY <1>1, EnqueueOK
<1>2. ASSUME Write PROVE StoreInv'
  BY <1>2, GatherOK, CommitOK, InsertFailsOK DEF Write
<1>3. ASSUME NEW x \in Readers, AskRows(x) \/ ReadRows(x) \/ ReadTotal(x) PROVE StoreInv'
  BY <1>3, AskRowsOK, ReadRowsOK, ReadTotalOK
<1>4. ASSUME Restart PROVE StoreInv'
  BY <1>4, StoreRestarts
<1>5. ASSUME store' = store, reading' = reading PROVE StoreInv'
  <2>1. /\ queue' = queue /\ batch' = batch /\ unfinished' = unfinished /\ table' = table
        /\ writer' = writer /\ accepted' = accepted /\ lost' = lost /\ committed' = committed
        /\ reader' = reader /\ read' = read /\ awaited' = awaited
    BY <1>5 DEF store, reading
  <2> QED  BY <2>1 DEF StoreInv, NothingIsLost
<1>6. ASSUME NEW r \in Requests, LogDecision(r) \/ WriteLine(r) \/ Tally(r) \/ TallyRefused(r)
      PROVE  store' = store /\ reading' = reading
  BY <1>6 DEF LogDecision, WriteLine, Tally, TallyRefused
<1>7. ASSUME UNCHANGED usage PROVE store' = store /\ reading' = reading
  BY <1>7 DEF usage
<1> QED  BY <1>1, <1>2, <1>3, <1>4, <1>5, <1>6, <1>7 DEF UsageNext

(* Every record the queue took is committed once, in order, or on its way, *)
(* unless an insert or a commit failed; and a reader that waited is        *)
(* answered from all records accepted before it asked, but for those the   *)
(* failure lost.                                                           *)
THEOREM RecordsAreKept == UsageSpec => []NothingIsLost
<1>1. UsageInit => StoreInv
  BY StoreStarts
<1>2. StoreInv /\ [UsageNext]_usage => StoreInv'
  BY StoreStep
<1>3. StoreInv => NothingIsLost
  BY DEF StoreInv
<1> QED  BY <1>1, <1>2, <1>3, PTL DEF UsageSpec

-----------------------------------------------------------------------------
(* What the reports answer over rows.                                      *)

Table(rows) ==
    /\ IsFiniteSet(DOMAIN rows) /\ DOMAIN rows \subseteq Nat
    /\ \A i \in DOMAIN rows : IsRow(rows[i])

(* The part of v that falls to each key, over the elements of T.           *)
Shares(v, key, T, E) == [k \in E |-> SumOver(v, {i \in T : key[i] = k})]

(* What falls to the keys is all there is to divide.                       *)
LEMMA GroupsSum ==
    ASSUME NEW D, IsFiniteSet(D), NEW v, \A i \in D : v[i] \in Int, NEW key,
           NEW E, E = {key[i] : i \in D}
    PROVE  SumOver(Shares(v, key, D, E), E) = SumOver(v, D)
<1>1. PICK f : f = [i \in D |-> key[i]]
    OBVIOUS
<1>2. IsFiniteSet(E)
    <2>1. f \in Surjection(D, E)
        BY <1>1 DEF Surjection
    <2> QED BY <2>1, FS_Surjection
<1> DEFINE G == {T \in SUBSET D : SumOver(Shares(v, key, T, E), E) = SumOver(v, T)}
<1>3. ASSUME NEW T \in SUBSET D, \A t \in SUBSET T : t # T => t \in G
      PROVE  T \in G
    <2>0. IsFiniteSet(T)
        BY FS_Subset
    <2>1. CASE T = {}
        <3>1. \A k \in E : Shares(v, key, T, E)[k] = 0
            BY <2>1, SumEmpty DEF Shares
        <3>2. SumOver(Shares(v, key, T, E), E) = 0
            BY <1>2, <3>1, SumOfZeros
        <3> QED BY <2>1, <3>2, SumEmpty
    <2>2. CASE T # {}
        <3>1. PICK x \in T : TRUE
            BY <2>2
        <3>2. PICK R : R = T \ {x}
            OBVIOUS
        <3>3. R \in G /\ IsFiniteSet(R) /\ x \notin R /\ T = R \cup {x} /\ x \in D
            BY <1>3, <2>0, <3>1, <3>2, FS_Subset
        <3>4. PICK old : old = Shares(v, key, R, E)
            OBVIOUS
        <3>5. PICK new : new = Shares(v, key, T, E)
            OBVIOUS
        <3>6. PICK k : k = key[x] /\ k \in E
            BY <3>3
        <3>7. \A e \in E : old[e] \in Int /\ new[e] \in Int
            <4>1. \A e : IsFiniteSet({i \in R : key[i] = e}) /\ IsFiniteSet({i \in T : key[i] = e})
                BY <2>0, <3>3, FS_Subset
            <4>2. \A e : SumOver(v, {i \in R : key[i] = e}) \in Int /\ SumOver(v, {i \in T : key[i] = e}) \in Int
                BY <4>1, <3>3, SumInt
            <4> QED BY <4>2, <3>4, <3>5 DEF Shares
        <3>8. \A e \in E \ {k} : old[e] = new[e]
            <4>1. \A e \in E \ {k} : {i \in R : key[i] = e} = {i \in T : key[i] = e}
                BY <3>2, <3>6
            <4> QED BY <4>1, <3>4, <3>5 DEF Shares
        <3>9. new[k] = v[x] + old[k]
            <4>1. PICK S : S = {i \in R : key[i] = k}
                OBVIOUS
            <4>2. {i \in T : key[i] = k} = S \cup {x} /\ x \notin S /\ IsFiniteSet(S)
                BY <3>3, <3>6, <4>1, FS_Subset
            <4>3. v[x] \in Int /\ \A i \in S : v[i] \in Int
                BY <3>3, <4>1
            <4>4. SumOver(v, S \cup {x}) = v[x] + SumOver(v, S)
                BY <4>2, <4>3, SumAdds
            <4> QED BY <3>4, <3>5, <3>6, <4>1, <4>2, <4>4 DEF Shares
        <3>10. SumOver(new, E) = SumOver(old, E) - old[k] + new[k]
            <4>1. k \in E /\ IsFiniteSet(E)
                BY <1>2, <3>6
            <4>2. \A e \in E : old[e] \in Int
                BY <3>7
            <4>3. \A e \in E : new[e] \in Int
                BY <3>7
            <4>4. SumOver(old, E) = old[k] + SumOver(old, E \ {k})
                BY <4>1, <4>2, SumTakes
            <4>5. SumOver(new, E) = new[k] + SumOver(new, E \ {k})
                BY <4>1, <4>3, SumTakes
            <4>6. IsFiniteSet(E \ {k})
                BY <4>1, FS_Subset
            <4>7. SumOver(old, E \ {k}) = SumOver(new, E \ {k})
                BY <4>6, <3>8, SumAgrees
            <4>8. SumOver(old, E \ {k}) \in Int
                BY <4>6, <4>2, SumInt
            <4> QED BY <4>1, <4>2, <4>3, <4>4, <4>5, <4>7, <4>8
        <3>11. SumOver(v, T) = v[x] + SumOver(v, R)
            <4>1. v[x] \in Int /\ \A i \in R : v[i] \in Int
                BY <3>3
            <4> QED BY <3>3, <4>1, SumAdds
        <3>12. SumOver(old, E) = SumOver(v, R) /\ SumOver(v, R) \in Int /\ v[x] \in Int /\ old[k] \in Int
            <4>1. \A i \in R : v[i] \in Int
                BY <3>3
            <4> QED BY <3>3, <3>4, <3>6, <3>7, <4>1, SumInt
        <3> QED BY <3>5, <3>9, <3>10, <3>11, <3>12
    <2> QED BY <2>1, <2>2
<1> HIDE DEF G
<1>4. \A T \in SUBSET D : T \in G
    BY <1>3, SubsetInduction
<1> QED BY <1>4 DEF G

(* The sum of ones is the number of elements.                              *)
LEMMA SumOfOnes ==
    ASSUME NEW S, IsFiniteSet(S), NEW v, \A x \in S : v[x] = 1
    PROVE  SumOver(v, S) = Cardinality(S)
<1> DEFINE G == {T \in SUBSET S : SumOver(v, T) = Cardinality(T)}
<1>1. ASSUME NEW T \in SUBSET S, \A t \in SUBSET T : t # T => t \in G
      PROVE  T \in G
    <2>0. IsFiniteSet(T)
        BY FS_Subset
    <2>1. CASE T = {}
        BY <2>1, SumEmpty, FS_EmptySet
    <2>2. CASE T # {}
        <3>1. PICK x \in T : TRUE
            BY <2>2
        <3>2. PICK R : R = T \ {x}
            OBVIOUS
        <3>3. R \in G /\ IsFiniteSet(R) /\ x \notin R /\ T = R \cup {x} /\ v[x] = 1
            BY <1>1, <2>0, <3>1, <3>2, FS_Subset
        <3>4. SumOver(v, T) = 1 + SumOver(v, R)
            <4>1. \A y \in R : v[y] \in Int
                BY <3>2
            <4> QED BY <3>3, <4>1, SumAdds
        <3>5. Cardinality(T) = Cardinality(R) + 1 /\ Cardinality(R) \in Nat
            BY <3>3, FS_AddElement, FS_CardinalityType
        <3> QED BY <3>3, <3>4, <3>5
    <2> QED BY <2>1, <2>2
<1> HIDE DEF G
<1>2. \A T \in SUBSET S : T \in G
    BY <1>1, SubsetInduction
<1> QED BY <1>2 DEF G

(* A sum over the rows is one over their places.                           *)
LEMMA SumOfIs ==
    ASSUME NEW rows, NEW field
    PROVE  SumOf(rows, field) = SumOver([i \in DOMAIN rows |-> rows[i][field]], DOMAIN rows)
<1>1. PICK v : v = [i \in DOMAIN rows |-> rows[i][field]]
    OBVIOUS
<1>2. SumOf(rows, field) = SumOver(v, DOMAIN rows)
    BY <1>1 DEF SumOf, SumOver, MapThenSumSet, MapThenFoldSet
<1> QED BY <1>1, <1>2

(* A part of the rows is a table, and its cost is that of its rows.        *)
LEMMA PartOfTable ==
    ASSUME NEW rows, Table(rows), NEW S, S \subseteq DOMAIN rows, NEW part, part = [i \in S |-> rows[i]]
    PROVE  /\ Table(part) /\ DOMAIN part = S /\ Size(part) = Cardinality(S)
           /\ Size(part) \in Nat /\ Size(part) <= Size(rows)
           /\ CostOf(part) = SumOver([i \in DOMAIN rows |-> rows[i].cost], S)
<1>1. DOMAIN part = S /\ IsFiniteSet(S) /\ IsFiniteSet(DOMAIN rows)
    BY FS_Subset DEF Table
<1>2. Table(part)
    BY <1>1 DEF Table
<1>3. PICK v : v = [i \in DOMAIN part |-> part[i].cost]
    OBVIOUS
<1>4. CostOf(part) = SumOver(v, DOMAIN part)
    BY <1>3, SumOfIs DEF CostOf
<1>5. PICK w : w = [i \in DOMAIN rows |-> rows[i].cost]
    OBVIOUS
<1>6. SumOver(v, S) = SumOver(w, S)
    <2>1. \A i \in S : v[i] = w[i]
        BY <1>1, <1>3, <1>5
    <2> QED BY <1>1, <2>1, SumAgrees
<1>7. Cardinality(S) \in Nat /\ Cardinality(S) <= Cardinality(DOMAIN rows)
    BY <1>1, FS_Subset, FS_CardinalityType
<1> QED BY <1>1, <1>2, <1>4, <1>5, <1>6, <1>7 DEF Size

(* The cost of a table is the sum of the costs of its rows.                *)
LEMMA CostsOfTable ==
    ASSUME NEW rows, Table(rows)
    PROVE  /\ CostOf(rows) = SumOver([i \in DOMAIN rows |-> rows[i].cost], DOMAIN rows)
           /\ \A i \in DOMAIN rows : rows[i].cost \in Nat
           /\ IsFiniteSet(DOMAIN rows) /\ Size(rows) \in Nat
<1>1. PICK v : v = [i \in DOMAIN rows |-> rows[i].cost]
    OBVIOUS
<1>2. CostOf(rows) = SumOver(v, DOMAIN rows)
    BY <1>1, SumOfIs DEF CostOf
<1> QED BY <1>1, <1>2, FS_CardinalityType DEF Table, IsRow, Size

(* A report has a line for each key of the rows, of the rows of that key.  *)
ReportOf(report, key, rows) ==
    /\ DOMAIN report = {key[i] : i \in DOMAIN rows}
    /\ \A k \in DOMAIN report :
        LET part == [i \in {j \in DOMAIN rows : key[j] = k} |-> rows[i]]
        IN  report[k].cost = CostOf(part) /\ report[k].requests = Size(part)

(* The lines of a report add up to the headline over the same rows.        *)
LEMMA ReportSums ==
    ASSUME NEW rows, Table(rows), NEW key, NEW report, ReportOf(report, key, rows),
           NEW summary, summary.cost = CostOf(rows), summary.requests = Size(rows)
    PROVE  SumsTo(report, summary)
<1>1. PICK D : D = DOMAIN rows
    OBVIOUS
<1>2. PICK E : E = {key[i] : i \in D}
    OBVIOUS
<1>3. PICK v : v = [i \in D |-> rows[i].cost]
    OBVIOUS
<1>4. PICK one : one = [i \in D |-> 1]
    OBVIOUS
<1>5. IsFiniteSet(D) /\ (\A i \in D : v[i] \in Int) /\ (\A i \in D : one[i] \in Int)
    BY <1>1, <1>3, <1>4, CostsOfTable
<1>6. SumOver(Shares(v, key, D, E), E) = SumOver(v, D)
    BY <1>2, <1>5, GroupsSum
<1>7. SumOver(Shares(one, key, D, E), E) = SumOver(one, D)
    BY <1>2, <1>5, GroupsSum
<1>8. SumOver(v, D) = CostOf(rows)
    BY <1>1, <1>3, CostsOfTable
<1>9. SumOver(one, D) = Size(rows)
    BY <1>1, <1>4, <1>5, SumOfOnes DEF Size
<1>10. DOMAIN report = E
    BY <1>1, <1>2 DEF ReportOf
<1>11. ASSUME NEW k \in E
       PROVE  report[k].cost = Shares(v, key, D, E)[k] /\ report[k].requests = Shares(one, key, D, E)[k]
    <2>1. PICK S : S = {j \in D : key[j] = k}
        OBVIOUS
    <2>2. PICK part : part = [i \in S |-> rows[i]]
        OBVIOUS
    <2>3. report[k].cost = CostOf(part) /\ report[k].requests = Size(part)
        BY <1>1, <1>10, <1>11, <2>1, <2>2 DEF ReportOf
    <2>4. CostOf(part) = SumOver(v, S) /\ Size(part) = Cardinality(S)
        BY <1>1, <1>3, <2>1, <2>2, PartOfTable
    <2>5. IsFiniteSet(S) /\ \A i \in S : one[i] = 1
        BY <1>4, <1>5, <2>1, FS_Subset
    <2>6. SumOver(one, S) = Cardinality(S)
        BY <2>5, SumOfOnes
    <2> QED BY <2>1, <2>3, <2>4, <2>6 DEF Shares
<1>12. IsFiniteSet(E)
    <2>1. PICK f : f = [i \in D |-> key[i]]
        OBVIOUS
    <2>2. f \in Surjection(D, E)
        BY <1>2, <2>1 DEF Surjection
    <2> QED BY <1>5, <2>2, FS_Surjection
<1>13. PICK amounts : amounts = [k \in DOMAIN report |-> report[k].cost]
    OBVIOUS
<1>14. PICK counts : counts = [k \in DOMAIN report |-> report[k].requests]
    OBVIOUS
<1>15. MapThenSumSet(LAMBDA k : report[k].cost, DOMAIN report) = SumOver(amounts, DOMAIN report)
    BY <1>13, SumOfIs DEF SumOf
<1>16. MapThenSumSet(LAMBDA k : report[k].requests, DOMAIN report) = SumOver(counts, DOMAIN report)
    BY <1>14, SumOfIs DEF SumOf
<1>17. SumOver(amounts, E) = SumOver(Shares(v, key, D, E), E)
    <2>1. \A k \in E : amounts[k] = Shares(v, key, D, E)[k]
        BY <1>10, <1>11, <1>13
    <2> QED BY <1>12, <2>1, SumAgrees
<1>18. SumOver(counts, E) = SumOver(Shares(one, key, D, E), E)
    <2>1. \A k \in E : counts[k] = Shares(one, key, D, E)[k]
        BY <1>10, <1>11, <1>14
    <2> QED BY <1>12, <2>1, SumAgrees
<1> QED BY <1>6, <1>7, <1>8, <1>9, <1>10, <1>15, <1>16, <1>17, <1>18 DEF SumsTo

(* The rows of the window are rows of the table that the caller may read.  *)
LEMMA WindowIsPart ==
    ASSUME NEW rows, Table(rows), NEW q
    PROVE  /\ Table(Window(q, rows)) /\ DOMAIN Window(q, rows) \subseteq DOMAIN rows
           /\ \A i \in DOMAIN Window(q, rows) :
                /\ Window(q, rows)[i] = rows[i] /\ rows[i].at >= Since(q)
                /\ ReadTenantScope(q) \in {Everyone, rows[i].tenant}
<1>1. PICK S : S = {i \in DOMAIN rows : /\ ReadTenantScope(q) \in {Everyone, rows[i].tenant}
                                        /\ AnyRun \in {AnyRun, rows[i].run}}
    OBVIOUS
<1>2. PICK part : part = [i \in S |-> rows[i]]
    OBVIOUS
<1>3. Of(ReadTenantScope(q), AnyRun, rows) = part
    BY <1>1, <1>2 DEF Of, Selected
<1>4. PICK T : T = {i \in DOMAIN part : part[i].at >= Since(q)}
    OBVIOUS
<1>5. Window(q, rows) = [i \in T |-> part[i]]
    BY <1>3, <1>4 DEF Window, Selected
<1>6. DOMAIN part = S /\ S \subseteq DOMAIN rows /\ T \subseteq S /\ \A i \in S : part[i] = rows[i]
    BY <1>1, <1>2, <1>4
<1>7. IsFiniteSet(T) /\ T \subseteq Nat
    BY <1>6, FS_Subset DEF Table
<1>8. Table(Window(q, rows))
    BY <1>5, <1>6, <1>7 DEF Table
<1> QED BY <1>1, <1>4, <1>5, <1>6, <1>8

(* What each report has on a line is of the rows of the key.               *)
LEMMA ReportsOfWindow ==
    ASSUME NEW rows, NEW q, NEW w, w = Window(q, rows)
    PROVE  /\ ReportOf(ByModel(q, rows), [i \in DOMAIN w |-> w[i].model], w)
           /\ ReportOf(ByTaskType(q, rows), [i \in DOMAIN w |-> w[i].task], w)
           /\ ReportOf(ByTenant(q, rows), [i \in DOMAIN w |-> w[i].tenant], w)
           /\ ReportOf(Timeseries(q, rows),
                       [i \in DOMAIN w |-> (w[i].at \div Width(q)) * Width(q)], w)
<1>1. ReportOf(ByModel(q, rows), [i \in DOMAIN w |-> w[i].model], w)
    <2>1. PICK key : key = [i \in DOMAIN w |-> w[i].model]
        OBVIOUS
    <2>2. \A k : {j \in DOMAIN w : key[j] = k} = {j \in DOMAIN w : w[j].model = k}
        BY <2>1
    <2>3. {key[i] : i \in DOMAIN w} = {w[i].model : i \in DOMAIN w}
        BY <2>1
    <2>4. ReportOf(ByModel(q, rows), key, w)
        BY <2>2, <2>3 DEF ReportOf, ByModel, Grouped, Selected
    <2> QED BY <2>1, <2>4
<1>2. ReportOf(ByTaskType(q, rows), [i \in DOMAIN w |-> w[i].task], w)
    <2>1. PICK key : key = [i \in DOMAIN w |-> w[i].task]
        OBVIOUS
    <2>2. \A k : {j \in DOMAIN w : key[j] = k} = {j \in DOMAIN w : w[j].task = k}
        BY <2>1
    <2>3. {key[i] : i \in DOMAIN w} = {w[i].task : i \in DOMAIN w}
        BY <2>1
    <2>4. ReportOf(ByTaskType(q, rows), key, w)
        BY <2>2, <2>3 DEF ReportOf, ByTaskType, Grouped, Selected
    <2> QED BY <2>1, <2>4
<1>3. ReportOf(ByTenant(q, rows), [i \in DOMAIN w |-> w[i].tenant], w)
    <2>1. PICK key : key = [i \in DOMAIN w |-> w[i].tenant]
        OBVIOUS
    <2>2. \A k : {j \in DOMAIN w : key[j] = k} = {j \in DOMAIN w : w[j].tenant = k}
        BY <2>1
    <2>3. {key[i] : i \in DOMAIN w} = {w[i].tenant : i \in DOMAIN w}
        BY <2>1
    <2>4. ReportOf(ByTenant(q, rows), key, w)
        BY <2>2, <2>3 DEF ReportOf, ByTenant, Grouped, Selected
    <2> QED BY <2>1, <2>4
<1>4. ReportOf(Timeseries(q, rows), [i \in DOMAIN w |-> (w[i].at \div Width(q)) * Width(q)], w)
    <2>1. PICK key : key = [i \in DOMAIN w |-> (w[i].at \div Width(q)) * Width(q)]
        OBVIOUS
    <2>2. \A k : {j \in DOMAIN w : key[j] = k} = {j \in DOMAIN w : (w[j].at \div Width(q)) * Width(q) = k}
        BY <2>1
    <2>3. {key[i] : i \in DOMAIN w} = {(w[i].at \div Width(q)) * Width(q) : i \in DOMAIN w}
        BY <2>1
    <2>4. ReportOf(Timeseries(q, rows), key, w)
        BY <2>2, <2>3 DEF ReportOf, Timeseries, Grouped, Selected
    <2> QED BY <2>1, <2>4
<1> QED BY <1>1, <1>2, <1>3, <1>4

(* The lines of every report add up to the summary.                        *)
LEMMA StatsSum ==
    ASSUME NEW rows, Table(rows), NEW q
    PROVE  LET stats == Stats(q, rows) IN
           /\ SumsTo(stats.models, stats.summary) /\ SumsTo(stats.tasks, stats.summary)
           /\ SumsTo(stats.tenants, stats.summary) /\ SumsTo(stats.timeseries, stats.summary)
<1>1. PICK w : w = Window(q, rows)
    OBVIOUS
<1>2. Table(w)
    BY <1>1, WindowIsPart
<1>3. PICK summary : summary = Summary(q, rows)
    OBVIOUS
<1>4. summary.cost = CostOf(w) /\ summary.requests = Size(w)
    BY <1>1, <1>3 DEF Summary
<1>5. SumsTo(ByModel(q, rows), summary)
    BY <1>1, <1>2, <1>4, ReportSums, ReportsOfWindow
<1>6. SumsTo(ByTaskType(q, rows), summary)
    BY <1>1, <1>2, <1>4, ReportSums, ReportsOfWindow
<1>7. SumsTo(ByTenant(q, rows), summary)
    BY <1>1, <1>2, <1>4, ReportSums, ReportsOfWindow
<1>8. SumsTo(Timeseries(q, rows), summary)
    BY <1>1, <1>2, <1>4, ReportSums, ReportsOfWindow
<1> QED BY <1>3, <1>5, <1>6, <1>7, <1>8 DEF Stats

(* What is reported by providers is a part of the cost.                    *)
LEMMA ActualBounded ==
    ASSUME NEW rows, Table(rows)
    PROVE  CostOf(Selected(rows, LAMBDA row : row.reported)) <= CostOf(rows)
<1>1. PICK S : S = {i \in DOMAIN rows : rows[i].reported}
    OBVIOUS
<1>2. PICK part : part = [i \in S |-> rows[i]]
    OBVIOUS
<1>3. Selected(rows, LAMBDA row : row.reported) = part
    BY <1>1, <1>2 DEF Selected
<1>4. PICK v : v = [i \in DOMAIN rows |-> rows[i].cost]
    OBVIOUS
<1>5. CostOf(part) = SumOver(v, S) /\ S \subseteq DOMAIN rows
    BY <1>1, <1>2, <1>4, PartOfTable
<1>6. CostOf(rows) = SumOver(v, DOMAIN rows) /\ IsFiniteSet(DOMAIN rows) /\ \A i \in DOMAIN rows : v[i] \in Nat
    BY <1>4, CostsOfTable
<1>7. SumOver(v, S) <= SumOver(v, DOMAIN rows)
    BY <1>5, <1>6, SumGrows
<1> QED BY <1>3, <1>5, <1>6, <1>7

(* A percentile was measured, and is where it claims to be.                *)
LEMMA PercentilesHold ==
    ASSUME NEW rows, Table(rows), NEW part \in {50, 95}
    PROVE  IsPercentile(Percentile(rows, part, 100), rows, part, 100)
<1>1. PICK times : times = Timed(rows)
    OBVIOUS
<1>2. PICK D : D = {j \in DOMAIN rows : rows[j].latency # Unmeasured}
    OBVIOUS
<1>3. times = [i \in D |-> rows[i]]
    BY <1>1, <1>2 DEF Timed, Selected
<1>4. DOMAIN times = D /\ IsFiniteSet(D) /\ \A i \in D : times[i].latency \in Int
    BY <1>2, <1>3, FS_Subset DEF Table, IsRow
<1>5. PICK n \in Nat : n = Size(times)
    BY <1>4, FS_CardinalityType DEF Size
<1>6. PICK t : t = Percentile(rows, part, 100)
    OBVIOUS
<1>7. CASE n = 0
    BY <1>1, <1>5, <1>6, <1>7 DEF Percentile, IsPercentile
<1>8. CASE n # 0
    <2>1. PICK T : T = Values(times, "latency")
        OBVIOUS
    <2>2. T \subseteq Int /\ IsFiniteSet(T) /\ T # {} /\ T = {times[i].latency : i \in D}
        <3>1. T = {times[i].latency : i \in D}
            BY <1>4, <2>1 DEF Values
        <3>2. PICK f : f = [i \in D |-> times[i].latency]
            OBVIOUS
        <3>3. f \in Surjection(D, T)
            BY <3>1, <3>2 DEF Surjection
        <3>4. IsFiniteSet(T)
            BY <1>4, <3>3, FS_Surjection
        <3>5. D # {}
            BY <1>4, <1>5, <1>8, FS_EmptySet DEF Size
        <3> QED BY <1>4, <3>1, <3>4, <3>5
    <2>3. PICK through \in Nat : through = (n * part) \div 100
        OBVIOUS
    <2>4. PICK offset \in Nat : /\ offset = Min({through, n - 1})
                                /\ offset = IF through <= n - 1 THEN through ELSE n - 1
        <3>1. n - 1 \in Nat /\ through \in Int /\ n - 1 \in Int
            BY <1>8
        <3>2. PICK o : o = Min({through, n - 1})
            OBVIOUS
        <3>3. o = IF through <= n - 1 THEN through ELSE n - 1
            BY <3>1, <3>2, PairBounds
        <3> QED BY <3>1, <3>2, <3>3
    <2>5. PICK slow : slow = {x \in T : Size(UpTo(x, times)) > offset}
        OBVIOUS
    <2>6. t = Min(slow)
        BY <1>1, <1>5, <1>6, <1>8, <2>1, <2>3, <2>4, <2>5 DEF Percentile
    <2>7. Max(T) \in slow
        <3>1. PICK m : m = Max(T)
            OBVIOUS
        <3>2. m \in T /\ \A x \in T : x <= m
            BY <2>2, <3>1, IntBounds
        <3>3. {j \in DOMAIN times : times[j].latency <= m} = D
            BY <1>4, <2>2, <3>2
        <3>4. DOMAIN UpTo(m, times) = D
            BY <3>3 DEF UpTo, Selected
        <3>5. Size(UpTo(m, times)) = n
            BY <1>4, <1>5, <3>4 DEF Size
        <3> QED BY <1>8, <2>4, <2>5, <3>1, <3>2, <3>5
    <2>8. t \in slow
        <3>1. slow \subseteq Int /\ IsFiniteSet(slow) /\ slow # {}
            BY <2>2, <2>5, <2>7, FS_Subset
        <3> QED BY <2>6, <3>1, IntBounds
    <2>9. PICK k \in Nat : k = Size(UpTo(t, times)) /\ k > offset
        <3>1. DOMAIN UpTo(t, times) \subseteq D
            BY <1>4 DEF UpTo, Selected
        <3>2. Size(UpTo(t, times)) \in Nat
            BY <1>4, <3>1, FS_Subset, FS_CardinalityType DEF Size
        <3> QED BY <2>5, <2>8, <3>2
    <2>10. 100 * k >= part * n
        <3>1. CASE part = 50
            BY <1>8, <2>3, <2>4, <2>9, <3>1
        <3>2. CASE part = 95
            BY <1>8, <2>3, <2>4, <2>9, <3>2
        <3> QED BY <3>1, <3>2
    <2> QED BY <1>1, <1>5, <1>6, <1>8, <2>1, <2>5, <2>8, <2>9, <2>10 DEF IsPercentile
<1> QED BY <1>7, <1>8

(* A quotient, rounded down.                                               *)
LEMMA QuotientBounds ==
    ASSUME NEW a \in Nat, NEW l \in Nat \ {0}
    PROVE  /\ a \div l \in Nat /\ a \div l <= a
           /\ (a \div l) * l <= a /\ a < (a \div l) * l + l
<1>1. PICK b : b = a \div l
    OBVIOUS
<1>2. b \in Int /\ \E r \in Int : a = l * b + r /\ 0 <= r /\ r < l
    BY <1>1
<1>3. PICK r \in Int : a = l * b + r /\ 0 <= r /\ r < l
    BY <1>2
<1>4. l * b = b * l /\ b * l \in Int
    BY <1>2
<1>5. b >= 0
    <2> SUFFICES ASSUME b < 0 PROVE FALSE
        BY <1>2
    <2>1. b + 1 <= 0
        BY <1>2
    <2>2. l * (b + 1) <= 0
        BY <1>2, <2>1
    <2>3. l * (b + 1) = l * b + l
        BY <1>2
    <2> QED BY <1>2, <1>3, <2>2, <2>3
<1>6. b <= a
    <2>1. b * l >= b
        BY <1>2, <1>5
    <2> QED BY <1>2, <1>3, <1>4, <2>1
<1> QED BY <1>1, <1>2, <1>3, <1>4, <1>5, <1>6

(* A page is some of the rows of a scope, and the scope is some of the     *)
(* table.                                                                  *)
PageOf(page, scope, q, rows) ==
    /\ Table(scope) /\ DOMAIN scope \subseteq DOMAIN rows
    /\ \A i \in DOMAIN scope : /\ scope[i] = rows[i]
                               /\ UsageScope(q) \in {Everyone, rows[i].tenant}
    /\ \A i : i \in DOMAIN page <=>
            /\ i \in DOMAIN scope
            /\ Newer(i, scope) \in Max({0, q.offset}) .. Max({0, q.offset}) + Limit(q) - 1
    /\ \A i \in DOMAIN page : page[i] = rows[i]

(* A page of a table is one.                                               *)
LEMMA PageIsPart ==
    ASSUME NEW rows, Table(rows), NEW q
    PROVE  PageOf(Page(q, rows), Of(UsageScope(q), q.run, rows), q, rows)
<1>1. PICK page : page = Page(q, rows)
    OBVIOUS
<1>2. PICK scope : scope = Of(UsageScope(q), q.run, rows)
    OBVIOUS
<1>3. PICK S : S = {i \in DOMAIN rows : /\ UsageScope(q) \in {Everyone, rows[i].tenant}
                                        /\ q.run \in {AnyRun, rows[i].run}}
    OBVIOUS
<1>4. scope = [i \in S |-> rows[i]]
    BY <1>2, <1>3 DEF Of, Selected
<1>5. DOMAIN scope = S /\ S \subseteq DOMAIN rows /\ \A i \in S : scope[i] = rows[i]
    BY <1>3, <1>4
<1>6. IsFiniteSet(S) /\ S \subseteq Nat
    BY <1>5, FS_Subset DEF Table
<1>7. Table(scope)
    BY <1>5, <1>6 DEF Table
<1>8. PICK P : P = {i \in S : Newer(i, scope) \in
                        Max({0, q.offset}) .. Max({0, q.offset}) + Limit(q) - 1}
    OBVIOUS
<1>9. page = [i \in P |-> scope[i]]
    BY <1>1, <1>2, <1>5, <1>8 DEF Page
<1>10. DOMAIN page = P /\ \A i \in P : page[i] = rows[i]
    BY <1>5, <1>8, <1>9
<1> QED BY <1>1, <1>2, <1>3, <1>5, <1>7, <1>8, <1>10 DEF PageOf

(* A caller bound to a tenant reads of it alone, and a page has no more    *)
(* than there is to list.                                                  *)
LEMMA ScopeHolds ==
    ASSUME NEW rows, Table(rows), NEW q
    PROVE  /\ ReadTenantScope(q) # Everyone =>
                DOMAIN ByTenant(q, rows) \cup Values(Page(q, rows), "tenant")
                    \subseteq {ReadTenantScope(q)}
           /\ Size(Page(q, rows)) <= Count(q, rows)
<1>1. PICK page : page = Page(q, rows)
    OBVIOUS
<1>2. PICK scope : scope = Of(UsageScope(q), q.run, rows)
    OBVIOUS
<1>3. PICK w : w = Window(q, rows)
    OBVIOUS
<1>4. PageOf(page, scope, q, rows)
    BY <1>1, <1>2, PageIsPart
<1>5. /\ Table(scope) /\ DOMAIN page \subseteq DOMAIN scope
      /\ \A i \in DOMAIN scope : UsageScope(q) \in {Everyone, rows[i].tenant}
      /\ \A i \in DOMAIN page : page[i] = rows[i]
    BY <1>4 DEF PageOf
<1>6. ASSUME ReadTenantScope(q) # Everyone
      PROVE  DOMAIN ByTenant(q, rows) \cup Values(page, "tenant") \subseteq {ReadTenantScope(q)}
    <2>1. DOMAIN ByTenant(q, rows) = {w[i].tenant : i \in DOMAIN w}
        BY <1>3 DEF ByTenant, Grouped
    <2>2. \A i \in DOMAIN w : w[i].tenant = ReadTenantScope(q)
        BY <1>3, <1>6, WindowIsPart
    <2>3. UsageScope(q) = ReadTenantScope(q)
        BY <1>6 DEF UsageScope
    <2>4. \A i \in DOMAIN page : page[i].tenant = ReadTenantScope(q)
        <3>1. \A i \in DOMAIN page : /\ page[i] = rows[i] /\ i \in DOMAIN scope
                                     /\ UsageScope(q) \in {Everyone, rows[i].tenant}
            BY <1>5
        <3> QED BY <1>6, <2>3, <3>1
    <2>5. Values(page, "tenant") = {page[i].tenant : i \in DOMAIN page}
        BY DEF Values
    <2> QED BY <2>1, <2>2, <2>4, <2>5
<1>7. Size(page) <= Size(scope)
    <2>1. DOMAIN page \subseteq DOMAIN scope /\ IsFiniteSet(DOMAIN scope)
        BY <1>5 DEF Table
    <2> QED BY <2>1, FS_Subset DEF Size
<1> QED BY <1>1, <1>2, <1>6, <1>7 DEF Count

(* No bucket ended before the window.                                      *)
LEMMA BucketsInWindow ==
    ASSUME NEW rows, Table(rows), NEW q, IsQuestion(q), NEW start \in DOMAIN Timeseries(q, rows)
    PROVE  start + Width(q) > Since(q)
<1>1. PICK w : w = Window(q, rows)
    OBVIOUS
<1>2. PICK width \in Nat \ {0} : width = Width(q)
    <2>1. PICK narrow \in Nat \ {0}, wide \in Int : narrow = Narrowest /\ wide = Widest
        BY UsageAssumption
    <2>2. q.width \in Int
        BY DEF IsQuestion
    <2>3. PICK low \in Int : low = Min({q.width, wide})
        BY <2>1, <2>2, PairBounds
    <2>4. Max({narrow, low}) \in Nat \ {0}
        BY <2>1, <2>3, PairBounds
    <2> QED BY <2>1, <2>3, <2>4 DEF Width
<1>3. DOMAIN Timeseries(q, rows) = {(w[i].at \div width) * width : i \in DOMAIN w}
    BY <1>1, <1>2 DEF Timeseries, Grouped
<1>4. PICK i \in DOMAIN w : start = (w[i].at \div width) * width
    BY <1>3
<1>5. PICK at \in Nat : at = w[i].at /\ at >= Since(q)
    <2>1. w[i] = rows[i] /\ rows[i].at >= Since(q) /\ i \in DOMAIN rows
        BY <1>1, <1>4, WindowIsPart
    <2> QED BY <2>1 DEF Table, IsRow
<1>6. at < (at \div width) * width + width /\ at \div width \in Nat
    BY <1>2, <1>5, QuotientBounds
<1>7. Since(q) \in Int
    BY DEF Since, IsQuestion
<1>8. start \in Int /\ at < start + width
    BY <1>2, <1>4, <1>5, <1>6
<1> QED BY <1>2, <1>5, <1>7, <1>8

(* The fewer rows are newer than a row, the newer it is.                   *)
LEMMA NewerFalls ==
    ASSUME NEW n \in Nat, NEW scope, IsFiniteSet(DOMAIN scope), DOMAIN scope \subseteq Nat,
           Cardinality(DOMAIN scope) <= n, NEW i \in DOMAIN scope
    PROVE  /\ Newer(i, scope) \in 0..n
           /\ \A j \in DOMAIN scope : Newer(j, scope) < Newer(i, scope) => j > i
<1>2. \A k : LET later == {j \in DOMAIN scope : j > k} IN
        IsFiniteSet(later) /\ Cardinality(later) \in Nat /\ Cardinality(later) <= n
    BY FS_Subset, FS_CardinalityType
<1>3. Newer(i, scope) \in 0..n
    BY <1>2 DEF Newer
<1>4. ASSUME NEW j \in DOMAIN scope, Newer(j, scope) < Newer(i, scope)
      PROVE  j > i
    <2> SUFFICES ASSUME j <= i PROVE FALSE
        OBVIOUS
    <2>1. PICK S : S = {k \in DOMAIN scope : k > i}
        OBVIOUS
    <2>2. PICK T : T = {k \in DOMAIN scope : k > j}
        OBVIOUS
    <2>3. S \subseteq T
        BY <2>1, <2>2
    <2>4. IsFiniteSet(T) /\ Cardinality(T) \in Nat /\ Cardinality(S) \in Nat
        BY <1>2, <2>1, <2>2
    <2>5. Cardinality(S) <= Cardinality(T)
        BY <2>3, <2>4, FS_Subset
    <2> QED BY <1>4, <2>1, <2>2, <2>4, <2>5 DEF Newer
<1> QED BY <1>3, <1>4

(* What the n-th page has.                                                 *)
LEMMA WalkIs ==
    ASSUME NEW rows, Table(rows), NEW q, IsQuestion(q), NEW n \in Nat \ {0},
           NEW limit, limit = Limit(q), NEW scope, scope = Of(UsageScope(q), q.run, rows)
    PROVE  /\ limit \in Nat \ {0} /\ DOMAIN scope \subseteq DOMAIN rows
           /\ \A i : i \in DOMAIN Walk(q, n, rows) <=>
                i \in DOMAIN scope /\ Newer(i, scope) \in (n - 1) * limit .. (n - 1) * limit + limit - 1
           /\ \A i \in DOMAIN Walk(q, n, rows) : Walk(q, n, rows)[i] = rows[i]
<1>1. limit \in Nat \ {0}
    <2>1. PICK l \in Int, most \in Int : l = q.limit /\ most = PageMax
        BY UsageAssumption DEF IsQuestion
    <2>2. PICK low \in Int : low = Min({l, most})
        BY <2>1, PairBounds
    <2>3. Max({1, low}) \in Nat \ {0}
        <3>1. PICK one \in Int : one = 1
            OBVIOUS
        <3>2. Max({one, low}) = IF one >= low THEN one ELSE low
            BY <2>2, <3>1, PairBounds
        <3> QED BY <2>2, <3>1, <3>2
    <2> QED BY <2>1, <2>2, <2>3 DEF Limit
<1>2. PICK p : p = [q EXCEPT !.offset = (n - 1) * limit]
    OBVIOUS
<1>3. /\ p.offset = (n - 1) * limit /\ p.limit = q.limit /\ p.run = q.run
      /\ p.binding = q.binding /\ p.wanted = q.wanted
    BY <1>2 DEF IsQuestion
<1>4. Limit(p) = limit /\ UsageScope(p) = UsageScope(q)
    BY <1>3 DEF Limit, UsageScope, ReadTenantScope
<1>5. PICK from \in Nat : from = (n - 1) * limit
    BY <1>1
<1>6. Max({0, p.offset}) = from
    <2>1. PICK zero \in Int : zero = 0
        OBVIOUS
    <2>2. Max({zero, from}) = IF zero >= from THEN zero ELSE from
        BY <1>5, <2>1, PairBounds
    <2> QED BY <1>3, <1>5, <2>1, <2>2
<1>7. PICK page : page = Walk(q, n, rows)
    OBVIOUS
<1>8. page = Page(p, rows)
    BY <1>2, <1>7 DEF Walk
<1>9. PageOf(page, scope, p, rows)
    BY <1>3, <1>4, <1>8, PageIsPart
<1> QED BY <1>1, <1>4, <1>5, <1>6, <1>7, <1>9 DEF PageOf

(* Earlier strips of the same width end before later ones begin.           *)
LEMMA StripsApart ==
    ASSUME NEW l \in Nat, NEW a \in Nat, NEW b \in Nat, a < b
    PROVE  a * l + l <= b * l
<1>1. PICK c \in Nat : b = a + 1 + c
    BY b - a - 1 \in Nat
<1>2. b * l = a * l + l + c * l
    BY <1>1
<1>3. c * l >= 0 /\ a * l \in Int /\ c * l \in Int
    BY <1>1
<1> QED BY <1>2, <1>3

(* The pages show every row in scope once, and newer rows earlier.         *)
LEMMA PagesHold ==
    ASSUME NEW rows, Table(rows), NEW q, IsQuestion(q)
    PROVE  PagesCover(q, rows)
<1>1. PICK scope : scope = Of(UsageScope(q), q.run, rows)
    OBVIOUS
<1>2. PICK limit : limit = Limit(q)
    OBVIOUS
<1>3. PICK all \in Nat : all = Size(rows)
    BY FS_CardinalityType DEF Table, Size
<1>4. /\ limit \in Nat \ {0}
      /\ IsFiniteSet(DOMAIN scope) /\ DOMAIN scope \subseteq Nat /\ Cardinality(DOMAIN scope) <= all
    <2>1. PICK one \in Nat \ {0} : one = 1
        OBVIOUS
    <2>2. limit \in Nat \ {0} /\ DOMAIN scope \subseteq DOMAIN rows
        BY <1>1, <1>2, <2>1, WalkIs
    <2> QED BY <1>3, <2>2, FS_Subset DEF Table, Size
<1>5. PICK place : place = [i \in DOMAIN scope |-> Newer(i, scope)]
    OBVIOUS
<1>6. \A i \in DOMAIN scope :
        /\ place[i] \in 0..all
        /\ \A j \in DOMAIN scope : place[j] < place[i] => j > i
    BY <1>4, <1>5, NewerFalls
<1>7. \A n \in 1..all + 1 :
        /\ \A i : i \in DOMAIN Walk(q, n, rows) <=>
            i \in DOMAIN scope /\ place[i] \in (n - 1) * limit .. (n - 1) * limit + limit - 1
        /\ \A i \in DOMAIN Walk(q, n, rows) : Walk(q, n, rows)[i] = rows[i]
    BY <1>1, <1>2, <1>5, WalkIs
<1>8. ASSUME NEW i \in DOMAIN scope
      PROVE  \E n \in 1..all + 1 :
                /\ i \in DOMAIN Walk(q, n, rows) /\ Walk(q, n, rows)[i] = rows[i]
                /\ \A k \in 1..all + 1 \ {n} : i \notin DOMAIN Walk(q, k, rows)
                /\ \A k \in 1..all + 1 : \A j \in DOMAIN Walk(q, k, rows) : k < n => j > i
    <2>1. PICK r \in Nat : r = place[i] /\ r <= all
        BY <1>6
    <2>2. PICK m \in Nat : m <= r /\ m * limit <= r /\ r < m * limit + limit
        BY <1>4, <2>1, QuotientBounds
    <2>3. PICK n \in 1..all + 1 : n - 1 = m
        <3>1. m + 1 \in 1..all + 1 /\ (m + 1) - 1 = m
            BY <2>1, <2>2
        <3> QED BY <3>1
    <2>4. i \in DOMAIN Walk(q, n, rows)
        <3>1. PICK y \in Int : y = (n - 1) * limit /\ y = m * limit
            BY <1>4, <2>3
        <3>2. r \in y .. y + limit - 1
            BY <1>4, <2>1, <2>2, <3>1
        <3> QED BY <1>7, <2>1, <3>1, <3>2
    <2>5. ASSUME NEW k \in 1..all + 1, k < n, NEW j \in DOMAIN Walk(q, k, rows)
          PROVE  place[j] < r /\ j \in DOMAIN scope
        <3>1. k - 1 \in Nat /\ k - 1 < m
            BY <2>3, <2>5
        <3>2. (k - 1) * limit + limit <= m * limit
            BY <1>4, <3>1, StripsApart
        <3>3. PICK y \in Int, z \in Int : y = (k - 1) * limit /\ z = m * limit
            BY <1>4, <2>2, <3>1
        <3>4. j \in DOMAIN scope /\ place[j] \in y .. y + limit - 1
            BY <1>7, <2>5, <3>3
        <3> QED BY <1>4, <2>2, <3>2, <3>3, <3>4
    <2>6. ASSUME NEW k \in 1..all + 1, k > n
          PROVE  i \notin DOMAIN Walk(q, k, rows)
        <3>1. k - 1 \in Nat /\ m < k - 1
            BY <2>3, <2>6
        <3>2. m * limit + limit <= (k - 1) * limit
            BY <1>4, <3>1, StripsApart
        <3>3. PICK y \in Int, z \in Int : y = (k - 1) * limit /\ z = m * limit
            BY <1>4, <2>2, <3>1
        <3>4. r < y
            BY <1>4, <2>2, <3>2, <3>3
        <3> QED BY <1>4, <1>7, <2>1, <3>3, <3>4
    <2>7. \A k \in 1..all + 1 \ {n} : i \notin DOMAIN Walk(q, k, rows)
        <3>1. ASSUME NEW k \in 1..all + 1, k < n
              PROVE  i \notin DOMAIN Walk(q, k, rows)
            BY <2>1, <2>5, <3>1
        <3>2. \A k \in 1..all + 1 \ {n} : k < n \/ k > n
            OBVIOUS
        <3> QED BY <2>6, <3>1, <3>2
    <2>8. \A k \in 1..all + 1 : \A j \in DOMAIN Walk(q, k, rows) : k < n => j > i
        BY <1>6, <2>1, <2>5
    <2> QED BY <1>7, <2>3, <2>4, <2>7, <2>8
<1> QED BY <1>1, <1>3, <1>8 DEF PagesCover

(* What is answered over any rows of requests is in scope and adds up.     *)
LEMMA AnswersCohere ==
    ASSUME NEW rows, Table(rows), NEW q, IsQuestion(q)
    PROVE  Coherent(q, rows)
<1>1. PICK w : w = Window(q, rows)
    OBVIOUS
<1>2. Table(w)
    BY <1>1, WindowIsPart
<1>3. PICK summary : summary = Summary(q, rows)
    OBVIOUS
<1>4. /\ SumsTo(ByModel(q, rows), summary) /\ SumsTo(ByTaskType(q, rows), summary)
      /\ SumsTo(ByTenant(q, rows), summary) /\ SumsTo(Timeseries(q, rows), summary)
    BY <1>3, StatsSum DEF Stats
<1>5. summary.actual <= summary.cost
    <2>1. PICK some : some = Selected(w, LAMBDA row : row.reported)
        OBVIOUS
    <2>2. CostOf(some) <= CostOf(w)
        BY <1>2, <2>1, ActualBounded
    <2> QED BY <1>1, <1>3, <2>1, <2>2 DEF Summary
<1>6. IsPercentile(summary.p50, w, 50, 100) /\ IsPercentile(summary.p95, w, 95, 100)
    <2>1. \A part \in {50, 95} : IsPercentile(Percentile(w, part, 100), w, part, 100)
        BY <1>2, PercentilesHold
    <2>2. summary.p50 = Percentile(w, 50, 100) /\ summary.p95 = Percentile(w, 95, 100)
        BY <1>1, <1>3 DEF Summary
    <2> QED BY <2>1, <2>2
<1>7. /\ ReadTenantScope(q) # Everyone =>
            DOMAIN ByTenant(q, rows) \cup Values(Page(q, rows), "tenant") \subseteq {ReadTenantScope(q)}
      /\ Size(Page(q, rows)) <= Count(q, rows)
    BY ScopeHolds
<1>8. \A start \in DOMAIN Timeseries(q, rows) : start + Width(q) > Since(q)
    BY BucketsInWindow
<1>9. PagesCover(q, rows)
    BY PagesHold
<1>10. PICK stats : stats = Stats(q, rows)
    OBVIOUS
<1>11. /\ stats.summary = summary /\ stats.models = ByModel(q, rows) /\ stats.tasks = ByTaskType(q, rows)
       /\ stats.tenants = ByTenant(q, rows) /\ stats.timeseries = Timeseries(q, rows)
    BY <1>3, <1>10 DEF Stats
<1>12. /\ SumsTo(stats.models, summary) /\ SumsTo(stats.tasks, summary)
       /\ SumsTo(stats.tenants, summary) /\ SumsTo(stats.timeseries, summary)
    BY <1>4, <1>11
<1> QED BY <1>1, <1>5, <1>6, <1>7, <1>8, <1>9, <1>10, <1>11, <1>12 DEF Coherent

(* The queue takes each record once.                                       *)
OnceInv ==
    /\ StoreInv
    /\ stage \in [Requests -> Stages]
    /\ IsInjective(accepted)
    /\ \A r \in ToSet(accepted) : stage[r] \in {"stored", "counted", "gone"}

(* Nothing has been accepted.                                              *)
LEMMA OnceStarts ==
    ASSUME UsageInit
    PROVE  OnceInv
<1>1. accepted = <<>> /\ stage \in [Requests -> Stages]
    BY DEF UsageInit, Stages
<1>2. ToSet(accepted) = {} /\ IsInjective(accepted)
    BY <1>1 DEF ToSet, IsInjective
<1> QED BY <1>1, <1>2, StoreStarts DEF OnceInv

(* A request moves on and nothing is accepted.                             *)
LEMMA OnceKept ==
    ASSUME OnceInv, StoreInv', accepted' = accepted, NEW r \in Requests, NEW from, NEW to \in Stages,
           Advance(r, from, to), from \in {"new", "decided", "logged"} \/ to = "counted"
    PROVE  OnceInv'
<1>1. /\ stage' \in [Requests -> Stages] /\ stage[r] = from /\ stage'[r] = to
      /\ \A p \in Requests \ {r} : stage'[p] = stage[p]
    BY Advances DEF OnceInv
<1>2. ToSet(accepted) \subseteq Requests
    BY DistinctList DEF OnceInv, StoreInv
<1>3. \A p \in ToSet(accepted') : stage'[p] \in {"stored", "counted", "gone"}
    BY <1>1, <1>2 DEF OnceInv
<1> QED BY <1>1, <1>3 DEF OnceInv

(* What the queue takes it has not taken before.                           *)
LEMMA OnceEnqueue ==
    ASSUME OnceInv, StoreInv', NEW r \in Requests, Enqueue(r)
    PROVE  OnceInv'
<1>1. Advance(r, "logged", "stored") /\ accepted' \in {accepted, Append(accepted, r)}
    BY DEF Enqueue
<1>2. CASE accepted' = accepted
    BY <1>1, <1>2, OnceKept DEF Stages
<1>3. CASE accepted' = Append(accepted, r)
    <2>1. /\ stage' \in [Requests -> Stages] /\ stage[r] = "logged" /\ stage'[r] = "stored"
          /\ \A p \in Requests \ {r} : stage'[p] = stage[p]
        BY <1>1, Advances DEF OnceInv, Stages
    <2>2. accepted \in Seq(Requests) /\ r \notin ToSet(accepted) /\ IsInjective(accepted)
        BY <2>1 DEF OnceInv, StoreInv
    <2>3. ToSet(accepted) \subseteq Requests
        BY <2>2, DistinctList
    <2>4. IsInjective(accepted') /\ ToSet(accepted') = ToSet(accepted) \cup {r}
        BY <1>3, <2>2, AppendList
    <2>5. \A p \in ToSet(accepted') : stage'[p] \in {"stored", "counted", "gone"}
        BY <2>1, <2>3, <2>4 DEF OnceInv
    <2> QED BY <2>1, <2>4, <2>5 DEF OnceInv
<1> QED BY <1>1, <1>2, <1>3

(* What begins a list without repetitions has none.                        *)
LEMMA FrontInjective ==
    ASSUME NEW S, NEW s \in Seq(S), NEW t \in Seq(S), IsInjective(s \o t)
    PROVE  IsInjective(s) /\ ToSet(s) \subseteq ToSet(s \o t) /\ Len(s) <= Len(s \o t)
<1>1. PICK m \in Nat, n \in Nat : m = Len(s) /\ n = Len(t) /\ DOMAIN s = 1..m
    OBVIOUS
<1>2. PICK u : u = s \o t
    OBVIOUS
<1>3. DOMAIN u = 1..m + n /\ \A i \in 1..m : u[i] = s[i]
    BY <1>1, <1>2
<1>4. IsInjective(s)
    BY <1>1, <1>2, <1>3 DEF IsInjective
<1> QED BY <1>1, <1>4, ConcatList

(* The table begins what was accepted, and has no record twice either.     *)
LEMMA AcceptedFront ==
    ASSUME OnceInv
    PROVE  /\ table \in Seq(Requests) /\ IsInjective(table) /\ ToSet(table) \subseteq ToSet(accepted)
<1>1. /\ queue \in Seq(Requests) /\ batch \in Seq(Requests) /\ table \in Seq(Requests)
      /\ lost \in Seq(Requests)
    BY DEF OnceInv, StoreInv
<1>2. PICK back : back = batch \o queue
    OBVIOUS
<1>3. PICK front : front = table \o lost
    OBVIOUS
<1>4. back \in Seq(Requests) /\ front \in Seq(Requests) /\ lost \o back \in Seq(Requests)
    <2>1. back \in Seq(Requests)
        BY <1>1, <1>2, ConcatList
    <2>2. front \in Seq(Requests)
        BY <1>1, <1>3, ConcatList
    <2> QED BY <1>1, <2>1, <2>2, ConcatList
<1>5. accepted = table \o (lost \o back)
    <2>1. accepted = (front \o batch) \o queue
        BY <1>3 DEF OnceInv, StoreInv, NothingIsLost
    <2>2. (front \o batch) \o queue = front \o back
        BY <1>1, <1>2, <1>4, ConcatLaws
    <2>3. front \o back = table \o (lost \o back)
        BY <1>1, <1>3, <1>4, ConcatLaws
    <2> QED BY <2>1, <2>2, <2>3
<1> QED BY <1>1, <1>4, <1>5, FrontInjective DEF OnceInv

(* The next process has accepted what had been committed.                  *)
LEMMA OnceRestarts ==
    ASSUME OnceInv, StoreInv', Restart
    PROVE  OnceInv'
<1>1. table \in Seq(Requests) /\ IsInjective(table) /\ ToSet(table) \subseteq ToSet(accepted)
    BY AcceptedFront
<1>2. PICK kept : kept = SubSeq(table, 1, committed)
    OBVIOUS
<1>3. committed \in 0..Len(table)
    BY <1>1 DEF OnceInv, StoreInv, NothingIsLost
<1>4. IsInjective(kept) /\ ToSet(kept) \subseteq ToSet(table)
    BY <1>1, <1>2, <1>3, PrefixList
<1>5. /\ accepted' = kept /\ stage' \in [Requests -> Stages]
      /\ \A p \in Requests : stage[p] # "new" => stage'[p] = "gone"
    BY <1>2 DEF Restart, OnceInv, Stages
<1>6. ToSet(table) \subseteq Requests
    BY <1>1, DistinctList
<1>7. \A p \in ToSet(accepted') : stage'[p] = "gone"
    BY <1>1, <1>4, <1>5, <1>6 DEF OnceInv
<1> QED BY <1>4, <1>5, <1>7 DEF OnceInv

(* The queue takes each record once, whatever happens.                     *)
LEMMA OnceStep ==
    ASSUME OnceInv, [UsageNext]_usage
    PROVE  OnceInv'
<1>0. StoreInv'
    BY StoreStep DEF OnceInv
<1>1. ASSUME NEW r \in Requests, LogDecision(r) PROVE OnceInv'
    <2>1. Advance(r, "new", "decided") /\ accepted' = accepted
        BY <1>1 DEF LogDecision, store
    <2> QED BY <1>0, <2>1, OnceKept DEF Stages
<1>2. ASSUME NEW r \in Requests, WriteLine(r) PROVE OnceInv'
    <2>1. Advance(r, "decided", "logged") /\ accepted' = accepted
        BY <1>2 DEF WriteLine, store
    <2> QED BY <1>0, <2>1, OnceKept DEF Stages
<1>3. ASSUME NEW r \in Requests, Enqueue(r) PROVE OnceInv'
    BY <1>0, <1>3, OnceEnqueue
<1>4. ASSUME NEW r \in Requests, Tally(r) PROVE OnceInv'
    <2>1. Advance(r, "stored", "counted") /\ accepted' = accepted
        BY <1>4 DEF Tally, store
    <2> QED BY <1>0, <2>1, OnceKept DEF Stages
<1>5. ASSUME NEW r \in Requests, TallyRefused(r) PROVE OnceInv'
    <2>1. Advance(r, "new", "refused") /\ accepted' = accepted
        BY <1>5 DEF TallyRefused, store
    <2> QED BY <1>0, <2>1, OnceKept DEF Stages
<1>6. ASSUME Restart PROVE OnceInv'
    BY <1>0, <1>6, OnceRestarts
<1>7. ASSUME stage' = stage, accepted' = accepted PROVE OnceInv'
    BY <1>0, <1>7 DEF OnceInv
<1>8. ASSUME Write \/ UNCHANGED usage \/ \E x \in Readers : AskRows(x) \/ ReadRows(x) \/ ReadTotal(x)
      PROVE  stage' = stage /\ accepted' = accepted
    BY <1>8 DEF Write, Gather, Commit, InsertFails, AskRows, ReadRows, ReadTotal, store, usage
<1> QED BY <1>1, <1>2, <1>3, <1>4, <1>5, <1>6, <1>7, <1>8 DEF UsageNext

(* What a reader was answered from is a table of some of the requests.     *)
LEMMA ReadIsTable ==
    ASSUME OnceInv, NEW x \in Readers, reader[x] = "counting"
    PROVE  Rows(read[x]) \in CoherentTables
<1>1. PICK ids \in Seq(Requests) : ids = read[x]
    BY DEF OnceInv, StoreInv
<1>2. IsPrefix(ids, table)
    BY <1>1 DEF OnceInv, StoreInv, NothingIsLost
<1>3. table \in Seq(Requests) /\ IsInjective(table)
    BY AcceptedFront
<1>4. PICK n \in Nat : n = Cardinality(Requests)
    BY UsageAssumption, FS_CardinalityType
<1>5. Len(table) <= n /\ Len(table) \in Nat
    <2>1. ToSet(table) \subseteq Requests /\ Cardinality(ToSet(table)) = Len(table)
        BY <1>3, DistinctList
    <2>2. Cardinality(ToSet(table)) <= Cardinality(Requests)
        BY <2>1, UsageAssumption, FS_Subset
    <2> QED BY <1>3, <1>4, <2>1, <2>2
<1>6. PICK m \in Nat : m = Len(ids) /\ m <= n /\ ids \in [1..m -> Requests]
    <2>1. Len(ids) <= Len(table)
        BY <1>1, <1>2, <1>3 DEF IsPrefix
    <2> QED BY <1>1, <1>5, <2>1
<1>7. ids \in BoundedSeq(Requests, n)
    BY <1>4, <1>6 DEF BoundedSeq, SeqOf
<1>8. PICK rows : rows = Rows(ids)
    OBVIOUS
<1>9. Table(rows)
    <2>1. DOMAIN rows = 1..m /\ \A i \in 1..m : rows[i] = Row[ids[i]] /\ ids[i] \in Requests
        BY <1>6, <1>8 DEF Rows
    <2>2. IsFiniteSet(1..m) /\ 1..m \subseteq Nat
        BY FS_Interval
    <2> QED BY <2>1, <2>2, UsageAssumption DEF Table
<1>10. \A q \in Questions : Coherent(q, rows)
    BY <1>9, AnswersCohere, UsageAssumption
<1> QED BY <1>1, <1>4, <1>7, <1>8, <1>10 DEF CoherentTables

(* Readers are answered from a table that has all they waited for, once    *)
(* each, and whatever they ask, what it adds up to is right.               *)
THEOREM ReadersAreAnswered == UsageSpec => []ReadersSeeAll
<1>1. UsageInit => OnceInv
    BY OnceStarts
<1>2. OnceInv /\ [UsageNext]_usage => OnceInv'
    BY OnceStep
<1>3. OnceInv => ReadersSeeAll
    <2> SUFFICES ASSUME OnceInv PROVE ReadersSeeAll
        OBVIOUS
    <2>1. NothingIsLost
        BY DEF OnceInv, StoreInv
    <2>2. \A x \in Readers : reader[x] = "counting" => Rows(read[x]) \in CoherentTables
        BY ReadIsTable
    <2> QED BY <2>1, <2>2 DEF ReadersSeeAll
<1> QED BY <1>1, <1>2, <1>3, PTL DEF UsageSpec

-----------------------------------------------------------------------------
(* The counters.                                                           *)

CostOfRow == [r \in Requests |-> Row[r].cost]
In(phase) == {r \in Requests : stage[r] = phase}
PairOf(r) == <<Row[r].tenant, Row[r].model>>

(* A counter f that counts the requests in seen, when the tenants in names *)
(* have labels: labels are not used up while a tenant is without one.      *)
CountFits(f, seen, names) ==
    /\ seen \subseteq Requests
    /\ DOMAIN f \subseteq names \cup {Overflow}
    /\ \A t \in names : Series(f, t) = Cardinality({r \in seen : Row[r].tenant = t})
    /\ Series(f, Overflow) = Cardinality({r \in seen : Row[r].tenant \notin names})
    /\ Cardinality(names) < MaxLabels => \A r \in seen : Row[r].tenant \in names

NamesFit(names) == IsFiniteSet(names) /\ Cardinality(names) <= MaxLabels /\ Overflow \notin names

(* Costs c, of which a is reported, that account for the requests in seen. *)
CostFits(c, a, seen) ==
    /\ seen \subseteq Requests
    /\ IsFiniteSet(DOMAIN c) /\ \A p \in DOMAIN c : c[p] \in Nat
    /\ \A p \in DOMAIN c : p = <<Overflow, Overflow>> \/ \E r \in seen : p = PairOf(r)
    /\ SumOver(c, DOMAIN c) = SumOver(CostOfRow, seen)
    /\ \A p \in DOMAIN a : p \in DOMAIN c /\ a[p] \in Nat /\ a[p] <= c[p]

(* Pairs have the names of tenants, or are the folded ones.                *)
PairsNamed(c, names) == \A p \in DOMAIN c : p = <<Overflow, Overflow>> \/ p[1] \in names

CounterInv ==
    /\ stage \in [Requests -> Stages]
    /\ NamesFit(known)
    /\ CountFits(steps, In("counted"), known)
    /\ CountFits(refusals, In("refused"), known)
    /\ CostFits(costs, actuals, In("counted"))
    /\ PairsNamed(costs, known)

(* Of requests, any can be counted, and summed over.                       *)
LEMMA RequestsFinite ==
    ASSUME NEW T, T \subseteq Requests
    PROVE  IsFiniteSet(T) /\ Cardinality(T) \in Nat /\ \A r \in T : CostOfRow[r] \in Nat
<1>1. IsFiniteSet(Requests) /\ \A r \in Requests : Row[r].cost \in Nat
  BY UsageAssumption DEF IsRow
<1> QED  BY <1>1, FS_Subset, FS_CardinalityType DEF CostOfRow

(* One more of them.                                                       *)
LEMMA OneMore ==
    ASSUME NEW T, T \subseteq Requests, NEW r \in Requests, r \notin T
    PROVE  Cardinality(T \cup {r}) = Cardinality(T) + 1
BY RequestsFinite, FS_AddElement

(* What an increment changes.                                              *)
LEMMA BumpIs ==
    ASSUME NEW f, NEW label, NEW amount
    PROVE  /\ DOMAIN Bump(f, label, amount) = DOMAIN f \cup {label}
           /\ Bump(f, label, amount)[label] = amount + Series(f, label)
           /\ \A l \in DOMAIN f \ {label} : Bump(f, label, amount)[l] = f[l]
BY DEF Bump, With, Series

(* The label a tenant gets, and the tenants that have one then.            *)
LEMMA LabelIs ==
    ASSUME NamesFit(known), NEW t, t # Overflow
    PROVE  LET names == known \cup ({Label(t)} \ {Overflow}) IN
           /\ NamesFit(names)
           /\ \/ t \in known /\ Label(t) = t /\ names = known
              \/ t \notin known /\ Label(t) = t /\ names = known \cup {t} /\ Cardinality(known) < MaxLabels
              \/ t \notin known /\ Label(t) = Overflow /\ names = known /\ Cardinality(known) >= MaxLabels
<1>1. Cardinality(known) \in Nat /\ MaxLabels \in Nat
  BY FS_CardinalityType, UsageAssumption DEF NamesFit
<1>2. CASE t \in known
  <2>1. Label(t) = t /\ known \cup ({t} \ {Overflow}) = known
    BY <1>2 DEF Label
  <2> QED  BY <1>2, <2>1
<1>3. CASE t \notin known /\ Cardinality(known) < MaxLabels
  <2>1. Label(t) = t /\ known \cup ({t} \ {Overflow}) = known \cup {t}
    BY <1>3 DEF Label
  <2>2. IsFiniteSet(known \cup {t}) /\ Cardinality(known \cup {t}) = Cardinality(known) + 1
    BY <1>3, FS_AddElement DEF NamesFit
  <2>3. NamesFit(known \cup {t})
    BY <1>1, <1>3, <2>2 DEF NamesFit
  <2> QED  BY <1>3, <2>1, <2>3
<1>4. CASE t \notin known /\ ~(Cardinality(known) < MaxLabels)
  <2>1. Label(t) = Overflow /\ known \cup ({Overflow} \ {Overflow}) = known
    BY <1>4 DEF Label
  <2> QED  BY <1>1, <1>4, <2>1
<1> QED  BY <1>2, <1>3, <1>4

(* A tenant that is new gets a label; a counter has seen none of its       *)
(* requests.                                                               *)
LEMMA CountRenamed ==
    ASSUME NEW f, NEW seen, CountFits(f, seen, known), NamesFit(known), NEW t, t # Overflow,
           t \notin known, Cardinality(known) < MaxLabels
    PROVE  CountFits(f, seen, known \cup {t})
<1> DEFINE names == known \cup {t}
<1>1. /\ \A r \in seen : Row[r].tenant \in known
      /\ seen \subseteq Requests /\ DOMAIN f \subseteq known \cup {Overflow}
  BY DEF CountFits
<1>2. /\ {r \in seen : Row[r].tenant = t} = {}
      /\ {r \in seen : Row[r].tenant \notin names} = {r \in seen : Row[r].tenant \notin known}
  BY <1>1
<1>3. Series(f, t) = Cardinality({r \in seen : Row[r].tenant = t})
  BY <1>1, <1>2, FS_EmptySet DEF Series
<1>4. \A u \in names : Series(f, u) = Cardinality({r \in seen : Row[r].tenant = u})
  BY <1>3 DEF CountFits
<1>5. Series(f, Overflow) = Cardinality({r \in seen : Row[r].tenant \notin names})
  BY <1>2 DEF CountFits
<1> QED  BY <1>1, <1>4, <1>5 DEF CountFits

(* One more request is counted, under its tenant's label.                  *)
LEMMA CountBumped ==
    ASSUME NEW f, NEW seen, NEW names, CountFits(f, seen, names), NamesFit(names),
           NEW r \in Requests, r \notin seen, Row[r].tenant # Overflow,
           NEW label, label = IF Row[r].tenant \in names THEN Row[r].tenant ELSE Overflow,
           Row[r].tenant \in names \/ Cardinality(names) >= MaxLabels
    PROVE  CountFits(Bump(f, label, 1), seen \cup {r}, names)
<1> DEFINE t == Row[r].tenant
           g == Bump(f, label, 1)
           more == seen \cup {r}
           Of1(set, u) == {p \in set : Row[p].tenant = u}
           Rest(set) == {p \in set : Row[p].tenant \notin names}
<1>1. /\ seen \subseteq Requests /\ DOMAIN f \subseteq names \cup {Overflow}
      /\ \A u \in names : Series(f, u) = Cardinality(Of1(seen, u))
      /\ Series(f, Overflow) = Cardinality(Rest(seen))
      /\ Overflow \notin names
  BY DEF CountFits, NamesFit
<1>2. /\ DOMAIN g = DOMAIN f \cup {label} /\ g[label] = 1 + Series(f, label)
      /\ \A l \in DOMAIN f \ {label} : g[l] = f[l]
  BY DEF Bump, With, Series
<1> HIDE DEF g
<1>3. Series(g, label) = 1 + Series(f, label) /\ \A l : l # label => Series(g, l) = Series(f, l)
  BY <1>2 DEF Series
<1>4. \A T \in SUBSET seen : Cardinality(T) \in Nat /\ Cardinality(T \cup {r}) = Cardinality(T) + 1
  <2> SUFFICES ASSUME NEW T \in SUBSET seen
               PROVE  Cardinality(T) \in Nat /\ Cardinality(T \cup {r}) = Cardinality(T) + 1
    OBVIOUS
  <2>1. T \subseteq Requests /\ r \notin T
    BY <1>1
  <2> QED  BY <2>1, RequestsFinite, OneMore
<1>5. /\ Of1(more, t) = Of1(seen, t) \cup {r}
      /\ \A u \in names : u # t => Of1(more, u) = Of1(seen, u)
  OBVIOUS
<1>6. Rest(more) = IF t \in names THEN Rest(seen) ELSE Rest(seen) \cup {r}
  OBVIOUS
<1>7. CASE t \in names
  <2>1. label = t /\ label # Overflow
    BY <1>1, <1>7
  <2>2. Series(g, t) = Cardinality(Of1(more, t))
    <3>1. Cardinality(Of1(more, t)) = Cardinality(Of1(seen, t)) + 1 /\ Cardinality(Of1(seen, t)) \in Nat
      BY <1>4, <1>5
    <3> QED  BY <1>1, <1>3, <1>7, <2>1, <3>1
  <2>3. \A u \in names : Series(g, u) = Cardinality(Of1(more, u))
    BY <1>1, <1>3, <1>5, <2>1, <2>2
  <2>4. Series(g, Overflow) = Cardinality(Rest(more))
    BY <1>1, <1>3, <1>6, <1>7, <2>1
  <2> QED  BY <1>1, <1>2, <1>7, <2>1, <2>3, <2>4 DEF CountFits, g
<1>8. CASE t \notin names
  <2>1. label = Overflow
    BY <1>8
  <2>2. Series(g, Overflow) = Cardinality(Rest(more))
    <3>1. Cardinality(Rest(more)) = Cardinality(Rest(seen)) + 1 /\ Cardinality(Rest(seen)) \in Nat
      BY <1>4, <1>6, <1>8
    <3> QED  BY <1>1, <1>3, <2>1, <3>1
  <2>3. \A u \in names : Series(g, u) = Cardinality(Of1(more, u))
    BY <1>1, <1>3, <1>5, <1>8, <2>1
  <2>4. ~(Cardinality(names) < MaxLabels)
    <3>1. Cardinality(names) \in Nat /\ MaxLabels \in Nat
      BY FS_CardinalityType, UsageAssumption DEF NamesFit
    <3> QED  BY <1>8, <3>1
  <2> QED  BY <1>1, <1>2, <2>1, <2>2, <2>3, <2>4 DEF CountFits, g
<1> QED  BY <1>7, <1>8

(* A request of a tenant is counted by one counter; the other notices that *)
(* the tenant has a label now.                                             *)
LEMMA CountStep ==
    ASSUME NEW f, NEW seen, CountFits(f, seen, known), NEW g, NEW other, CountFits(g, other, known),
           NamesFit(known), NEW r \in Requests, r \notin seen,
           NEW names, names = known \cup ({Label(Row[r].tenant)} \ {Overflow})
    PROVE  /\ NamesFit(names)
           /\ CountFits(Bump(f, Label(Row[r].tenant), 1), seen \cup {r}, names)
           /\ CountFits(g, other, names)
<1> DEFINE t == Row[r].tenant
<1>1. t # Overflow
  BY UsageAssumption
<1> HIDE DEF t
<1>2. /\ NamesFit(names)
      /\ \/ t \in known /\ Label(t) = t /\ names = known
         \/ t \notin known /\ Label(t) = t /\ names = known \cup {t} /\ Cardinality(known) < MaxLabels
         \/ t \notin known /\ Label(t) = Overflow /\ names = known /\ Cardinality(known) >= MaxLabels
  BY <1>1, LabelIs DEF t
<1>3. CountFits(f, seen, names) /\ CountFits(g, other, names)
  BY <1>1, <1>2, CountRenamed
<1>4. Label(t) = IF t \in names THEN t ELSE Overflow
  BY <1>1, <1>2 DEF NamesFit
<1>5. t \in names \/ Cardinality(names) >= MaxLabels
  BY <1>2
<1>6. CountFits(Bump(f, Label(t), 1), seen \cup {r}, names)
  BY <1>1, <1>2, <1>3, <1>4, <1>5, CountBumped DEF t
<1> QED  BY <1>2, <1>3, <1>6 DEF t

(* A cost is added to one of the sums.                                     *)
LEMMA SumBumped ==
    ASSUME NEW c, IsFiniteSet(DOMAIN c), \A p \in DOMAIN c : c[p] \in Nat, NEW pair, NEW amount \in Nat
    PROVE  LET d == Bump(c, pair, amount) IN
           /\ IsFiniteSet(DOMAIN d) /\ \A p \in DOMAIN d : d[p] \in Nat
           /\ SumOver(d, DOMAIN d) = SumOver(c, DOMAIN c) + amount
<1> DEFINE d == Bump(c, pair, amount)
           S == DOMAIN c
<1>1. /\ DOMAIN d = S \cup {pair} /\ d[pair] = amount + Series(c, pair)
      /\ \A p \in S \ {pair} : d[p] = c[p]
  BY BumpIs, Zenon
<1> HIDE DEF d
<1>2. Series(c, pair) \in Nat
  BY DEF Series
<1>3. IsFiniteSet(DOMAIN d) /\ \A p \in DOMAIN d : d[p] \in Nat
  <2>1. IsFiniteSet(S \cup {pair})
    BY FS_AddElement
  <2> QED  BY <1>1, <1>2, <2>1
<1>4. SumOver(c, S) \in Nat
  BY SumNatural
<1>5. CASE pair \in S
  <2>1. DOMAIN d = S
    BY <1>1, <1>5
  <2>2. \A p \in S : c[p] \in Int /\ d[p] \in Int
    BY <1>3, <2>1
  <2>3. SumOver(d, S) = SumOver(c, S) - c[pair] + d[pair]
    BY <1>1, <1>5, <2>2, SumChanges
  <2>4. d[pair] = amount + c[pair] /\ c[pair] \in Nat
    BY <1>1, <1>5 DEF Series
  <2> QED  BY <1>3, <1>4, <2>1, <2>3, <2>4 DEF d
<1>6. CASE pair \notin S
  <2>1. d[pair] = amount
    BY <1>1, <1>6 DEF Series
  <2>2. \A p \in S : d[p] = c[p] /\ d[p] \in Int
    BY <1>1, <1>6
  <2>3. SumOver(d, S \cup {pair}) = d[pair] + SumOver(d, S)
    BY <1>6, <2>1, <2>2, SumAdds
  <2>4. SumOver(d, S) = SumOver(c, S)
    BY <2>2, SumAgrees
  <2> QED  BY <1>1, <1>3, <1>4, <2>1, <2>3, <2>4 DEF d
<1> QED  BY <1>5, <1>6

(* A request is served: its cost goes to its pair, and is reported or not. *)
LEMMA CostStep ==
    ASSUME NEW c, NEW a, NEW seen, CostFits(c, a, seen), NEW r \in Requests, r \notin seen,
           NEW pair, pair = <<Overflow, Overflow>> \/ pair = PairOf(r), NEW b,
           b = a \/ b = Bump(a, pair, Row[r].cost)
    PROVE  CostFits(Bump(c, pair, Row[r].cost), b, seen \cup {r})
<1> DEFINE cost == Row[r].cost
           d == Bump(c, pair, cost)
           more == seen \cup {r}
<1>1. /\ seen \subseteq Requests /\ IsFiniteSet(DOMAIN c) /\ \A p \in DOMAIN c : c[p] \in Nat
      /\ \A p \in DOMAIN c : p = <<Overflow, Overflow>> \/ \E q \in seen : p = PairOf(q)
      /\ SumOver(c, DOMAIN c) = SumOver(CostOfRow, seen)
      /\ \A p \in DOMAIN a : p \in DOMAIN c /\ a[p] \in Nat /\ a[p] <= c[p]
  BY DEF CostFits
<1>2. cost \in Nat /\ CostOfRow[r] = cost
  BY UsageAssumption DEF IsRow, CostOfRow
<1> HIDE DEF cost
<1>3. /\ IsFiniteSet(DOMAIN d) /\ \A p \in DOMAIN d : d[p] \in Nat
      /\ SumOver(d, DOMAIN d) = SumOver(c, DOMAIN c) + cost
  BY <1>1, <1>2, SumBumped
<1>4. /\ DOMAIN d = DOMAIN c \cup {pair} /\ d[pair] = cost + Series(c, pair)
      /\ \A p \in DOMAIN c \ {pair} : d[p] = c[p]
  BY BumpIs, Zenon
<1> HIDE DEF d
<1>5. SumOver(CostOfRow, more) = SumOver(CostOfRow, seen) + cost
  <2>1. IsFiniteSet(seen) /\ \A q \in seen : CostOfRow[q] \in Int
    BY <1>1, RequestsFinite
  <2>2. SumOver(CostOfRow, seen \cup {r}) = CostOfRow[r] + SumOver(CostOfRow, seen)
    BY <1>2, <2>1, SumAdds
  <2>3. SumOver(CostOfRow, seen) \in Int
    BY <2>1, SumInt
  <2> QED  BY <1>2, <2>2, <2>3
<1>6. \A p \in DOMAIN d : p = <<Overflow, Overflow>> \/ \E q \in more : p = PairOf(q)
  BY <1>1, <1>4
<1>7. \A p \in DOMAIN a : p \in DOMAIN d /\ a[p] \in Nat /\ a[p] <= d[p]
  <2> SUFFICES ASSUME NEW p \in DOMAIN a
               PROVE  p \in DOMAIN d /\ a[p] \in Nat /\ a[p] <= d[p]
    OBVIOUS
  <2>1. p \in DOMAIN c /\ a[p] \in Nat /\ a[p] <= c[p] /\ c[p] \in Nat
    BY <1>1
  <2>2. d[p] = c[p] \/ d[p] = cost + c[p]
    BY <1>4, <2>1 DEF Series
  <2> QED  BY <1>2, <1>4, <2>1, <2>2
<1>8. \A p \in DOMAIN b : p \in DOMAIN d /\ b[p] \in Nat /\ b[p] <= d[p]
  <2>1. CASE b = a
    BY <1>7, <2>1
  <2>2. CASE b = Bump(a, pair, cost)
    <3>1. /\ DOMAIN b = DOMAIN a \cup {pair} /\ b[pair] = cost + Series(a, pair)
          /\ \A p \in DOMAIN a \ {pair} : b[p] = a[p]
      <4> DEFINE e == Bump(a, pair, cost)
      <4>1. /\ DOMAIN e = DOMAIN a \cup {pair} /\ e[pair] = cost + Series(a, pair)
            /\ \A p \in DOMAIN a \ {pair} : e[p] = a[p]
        BY BumpIs, Zenon
      <4> HIDE DEF e
      <4>2. b = e
        BY <2>2 DEF e
      <4> QED  BY <4>1, <4>2
    <3>2. /\ Series(a, pair) \in Nat /\ Series(c, pair) \in Nat
          /\ Series(a, pair) <= Series(c, pair)
      BY <1>1 DEF Series
    <3>3. b[pair] \in Nat /\ b[pair] <= d[pair] /\ pair \in DOMAIN d
      BY <1>2, <1>4, <3>1, <3>2
    <3> QED  BY <1>7, <3>1, <3>3
  <2> QED  BY <2>1, <2>2 DEF cost
<1>9. more \subseteq Requests
  BY <1>1
<1> QED  BY <1>1, <1>3, <1>5, <1>6, <1>8, <1>9 DEF CostFits, d, cost

(* Nothing is counted yet.                                                 *)
LEMMA NoneCounted == NamesFit({}) /\ CountFits(<<>>, {}, {}) /\ CostFits(<<>>, <<>>, {})
<1>1. IsFiniteSet({}) /\ Cardinality({}) = 0 /\ DOMAIN <<>> = {} /\ MaxLabels \in Nat
  BY FS_EmptySet, UsageAssumption
<1>2. NamesFit({})
  BY <1>1 DEF NamesFit
<1>3. Series(<<>>, Overflow) = 0
  BY <1>1 DEF Series
<1>4. CountFits(<<>>, {}, {})
  BY <1>1, <1>3 DEF CountFits
<1>5. CostFits(<<>>, <<>>, {})
  BY <1>1, SumEmpty DEF CostFits
<1> QED  BY <1>2, <1>4, <1>5

(* The counters start empty.                                               *)
LEMMA CountersStart ==
    ASSUME UsageInit
    PROVE  CounterInv
<1>1. /\ stage = [r \in Requests |-> "new"]
      /\ known = {} /\ steps = <<>> /\ refusals = <<>> /\ costs = <<>> /\ actuals = <<>>
  BY DEF UsageInit
<1>2. stage \in [Requests -> Stages] /\ In("counted") = {} /\ In("refused") = {}
  BY <1>1 DEF In, Stages
<1>3. PairsNamed(costs, known)
  BY <1>1 DEF PairsNamed
<1> QED  BY <1>1, <1>2, <1>3, NoneCounted DEF CounterInv

(* A request that was served is counted, with its cost.                    *)
LEMMA TallyOK ==
    ASSUME CounterInv, NEW r \in Requests, Tally(r)
    PROVE  CounterInv'
<1> DEFINE label == Label(Row[r].tenant)
           pair == IF label = Overflow THEN <<Overflow, Overflow>> ELSE <<label, Row[r].model>>
<1>1. /\ Advance(r, "stored", "counted")
      /\ steps' = Bump(steps, label, 1)
      /\ costs' = Bump(costs, pair, Row[r].cost)
      /\ actuals' = IF Row[r].reported THEN Bump(actuals, pair, Row[r].cost) ELSE actuals
      /\ known' = known \cup ({label} \ {Overflow})
      /\ refusals' = refusals
  BY DEF Tally
<1>2. /\ stage' \in [Requests -> Stages] /\ stage[r] = "stored" /\ stage'[r] = "counted"
      /\ \A p \in Requests \ {r} : stage'[p] = stage[p]
  BY <1>1, Advances DEF CounterInv, Stages
<1>3. /\ r \notin In("counted") /\ In("counted")' = In("counted") \cup {r}
      /\ In("refused")' = In("refused")
  BY <1>2 DEF In
<1>4. /\ NamesFit(known) /\ CountFits(steps, In("counted"), known)
      /\ CountFits(refusals, In("refused"), known) /\ CostFits(costs, actuals, In("counted"))
  BY DEF CounterInv
<1>5. /\ NamesFit(known')
      /\ CountFits(Bump(steps, label, 1), In("counted") \cup {r}, known')
      /\ CountFits(refusals, In("refused"), known')
  BY <1>1, <1>3, <1>4, CountStep
<1>6. label # Overflow => label = Row[r].tenant
  BY DEF Label
<1>7. /\ pair = <<Overflow, Overflow>> \/ pair = PairOf(r)
      /\ pair = <<Overflow, Overflow>> \/ pair[1] \in known'
  BY <1>1, <1>6 DEF PairOf
<1> HIDE DEF label, pair
<1>8. actuals' = actuals \/ actuals' = Bump(actuals, pair, Row[r].cost)
  BY <1>1
<1>9. CostFits(Bump(costs, pair, Row[r].cost), actuals', In("counted") \cup {r})
  BY <1>3, <1>4, <1>7, <1>8, CostStep
<1>10. PairsNamed(costs', known')
  <2>1. DOMAIN costs' = DOMAIN costs \cup {pair} /\ known \subseteq known'
    BY <1>1, BumpIs
  <2> QED  BY <1>7, <2>1 DEF CounterInv, PairsNamed
<1> QED  BY <1>1, <1>2, <1>3, <1>5, <1>9, <1>10 DEF CounterInv

(* A request that was refused is counted.                                  *)
LEMMA TallyRefusedOK ==
    ASSUME CounterInv, NEW r \in Requests, TallyRefused(r)
    PROVE  CounterInv'
<1> DEFINE label == Label(Row[r].tenant)
<1>1. /\ Advance(r, "new", "refused")
      /\ refusals' = Bump(refusals, label, 1)
      /\ known' = known \cup ({label} \ {Overflow})
      /\ steps' = steps /\ costs' = costs /\ actuals' = actuals
  BY DEF TallyRefused
<1>2. /\ stage' \in [Requests -> Stages] /\ stage[r] = "new" /\ stage'[r] = "refused"
      /\ \A p \in Requests \ {r} : stage'[p] = stage[p]
  BY <1>1, Advances DEF CounterInv, Stages
<1>3. /\ r \notin In("refused") /\ In("refused")' = In("refused") \cup {r}
      /\ In("counted")' = In("counted")
  BY <1>2 DEF In
<1>4. /\ NamesFit(known) /\ CountFits(steps, In("counted"), known)
      /\ CountFits(refusals, In("refused"), known) /\ CostFits(costs, actuals, In("counted"))
  BY DEF CounterInv
<1>5. /\ NamesFit(known')
      /\ CountFits(Bump(refusals, label, 1), In("refused") \cup {r}, known')
      /\ CountFits(steps, In("counted"), known')
  BY <1>1, <1>3, <1>4, CountStep
<1>6. PairsNamed(costs', known')
  BY <1>1 DEF CounterInv, PairsNamed
<1> QED  BY <1>1, <1>2, <1>3, <1>4, <1>5, <1>6 DEF CounterInv

(* The invariant of the counters is kept by every step.                    *)
LEMMA CounterStep ==
    ASSUME CounterInv, [UsageNext]_usage
    PROVE  CounterInv'
<1>1. ASSUME NEW r \in Requests, Tally(r) PROVE CounterInv'
  BY <1>1, TallyOK
<1>2. ASSUME NEW r \in Requests, TallyRefused(r) PROVE CounterInv'
  BY <1>2, TallyRefusedOK
<1>3. ASSUME Restart PROVE CounterInv'
  <2>1. /\ stage' = [r \in Requests |-> IF stage[r] = "new" THEN "new" ELSE "gone"]
        /\ known' = {} /\ steps' = <<>> /\ refusals' = <<>> /\ costs' = <<>> /\ actuals' = <<>>
    BY <1>3 DEF Restart
  <2>2. stage' \in [Requests -> Stages] /\ In("counted")' = {} /\ In("refused")' = {}
    BY <2>1 DEF In, Stages
  <2>3. PairsNamed(costs', known')
    BY <2>1 DEF PairsNamed
  <2> QED  BY <2>1, <2>2, <2>3, NoneCounted DEF CounterInv
<1>4. ASSUME counters' = counters, stage' \in [Requests -> Stages],
             In("counted")' = In("counted"), In("refused")' = In("refused")
      PROVE  CounterInv'
  <2>1. known' = known /\ steps' = steps /\ refusals' = refusals /\ costs' = costs /\ actuals' = actuals
    BY <1>4 DEF counters
  <2> QED  BY <1>4, <2>1 DEF CounterInv
<1>5. ASSUME NEW r \in Requests, NEW from, NEW to, Advance(r, from, to), counters' = counters,
             {from, to} \subseteq {"new", "decided", "logged", "stored"}
      PROVE  CounterInv'
  <2>1. /\ stage' \in [Requests -> Stages] /\ stage[r] = from /\ stage'[r] = to
        /\ \A p \in Requests \ {r} : stage'[p] = stage[p]
    BY <1>5, Advances DEF CounterInv, Stages
  <2>2. In("counted")' = In("counted") /\ In("refused")' = In("refused")
    BY <1>5, <2>1 DEF In
  <2> QED  BY <1>4, <1>5, <2>1, <2>2
<1>6. ASSUME NEW r \in Requests, LogDecision(r) \/ WriteLine(r) \/ Enqueue(r) PROVE CounterInv'
  BY <1>5, <1>6 DEF LogDecision, WriteLine, Enqueue
<1>7. ASSUME Write \/ UNCHANGED usage \/ \E x \in Readers : AskRows(x) \/ ReadRows(x) \/ ReadTotal(x)
      PROVE  CounterInv'
  <2>1. stage' = stage /\ counters' = counters
    BY <1>7 DEF Write, Gather, Commit, InsertFails, AskRows, ReadRows, ReadTotal, usage
  <2> QED  BY <1>4, <2>1 DEF CounterInv, In
<1> QED  BY <1>1, <1>2, <1>3, <1>6, <1>7 DEF UsageNext

(* The counters are as SeriesAreWhole says.                                *)
LEMMA WholeSeries ==
    ASSUME CounterInv
    PROVE  SeriesAreWhole
<1> DEFINE shown == Exposed(Everyone)
<1>1. /\ NamesFit(known) /\ CountFits(steps, In("counted"), known)
      /\ CountFits(refusals, In("refused"), known) /\ CostFits(costs, actuals, In("counted"))
  BY DEF CounterInv
<1>2. /\ \A l : Series(shown.steps, l) = Series(steps, l)
      /\ \A l : Series(shown.refusals, l) = Series(refusals, l)
  BY DEF Exposed, Restrict, Series
<1>3. /\ DOMAIN shown.costs = DOMAIN costs /\ \A p \in DOMAIN costs : shown.costs[p] = costs[p]
      /\ DOMAIN shown.actuals = DOMAIN actuals
      /\ \A p \in DOMAIN actuals : shown.actuals[p] = actuals[p]
  BY DEF Exposed, Restrict
<1> HIDE DEF shown
<1>4. ASSUME NEW f, NEW phase, CountFits(f, In(phase), known), NEW g, \A l : Series(g, l) = Series(f, l)
      PROVE  CountsAll(g, phase)
  <2>1. \A t : Those(phase, {t}) = {r \in In(phase) : Row[r].tenant = t}
    BY DEF Those, In
  <2>2. Those(phase, TenantsSeen \ known) = {r \in In(phase) : Row[r].tenant \notin known}
    BY DEF Those, In, TenantsSeen
  <2> QED  BY <1>4, <2>1, <2>2 DEF CountsAll, CountFits
<1>5. CountsAll(shown.steps, "counted") /\ CountsAll(shown.refusals, "refused")
  BY <1>1, <1>2, <1>4
<1>6. Those("counted", TenantsSeen) = In("counted")
  BY DEF Those, In, TenantsSeen
<1>7. MapThenSumSet(LAMBDA pair : shown.costs[pair], DOMAIN shown.costs)
        = MapThenSumSet(LAMBDA r : Row[r].cost, Those("counted", TenantsSeen))
  <2> DEFINE c == shown.costs
             S == DOMAIN costs
  <2>1. IsFiniteSet(S) /\ \A p \in S : c[p] = costs[p]
    BY <1>1, <1>3 DEF CostFits
  <2>2. SumOver(c, S) = SumOver(costs, S)
    BY <2>1, SumAgrees
  <2>3. SumOver(costs, S) = SumOver(CostOfRow, In("counted"))
    BY <1>1 DEF CostFits
  <2>4. MapThenSumSet(LAMBDA pair : shown.costs[pair], S) = SumOver(c, S)
    BY DEF SumOver, MapThenSumSet, MapThenFoldSet
  <2>5. MapThenSumSet(LAMBDA r : Row[r].cost, In("counted")) = SumOver(CostOfRow, In("counted"))
    BY DEF CostOfRow, In, SumOver, MapThenSumSet, MapThenFoldSet
  <2> QED  BY <1>3, <1>6, <2>2, <2>3, <2>4, <2>5
<1>8. \A p \in DOMAIN shown.actuals : shown.actuals[p] <= shown.costs[p]
  BY <1>1, <1>3 DEF CostFits
<1>9. ASSUME NEW t \in TenantsSeen, NEW p \in DOMAIN Exposed(t).costs
      PROVE  p[1] = t /\ p[2] \in {Row[r].model : r \in Those("counted", {t})}
  <2>1. t # Everyone /\ t # Overflow
    BY UsageAssumption DEF TenantsSeen
  <2>2. p \in DOMAIN costs /\ p[1] = t
    BY <1>9, <2>1 DEF Exposed, Restrict
  <2>3. p # <<Overflow, Overflow>>
    BY <2>1, <2>2
  <2>4. PICK r \in In("counted") : p = <<Row[r].tenant, Row[r].model>>
    BY <1>1, <2>2, <2>3 DEF CostFits, PairOf
  <2>5. Row[r].tenant = t /\ p[2] = Row[r].model
    BY <2>2, <2>4
  <2>6. r \in Those("counted", {t})
    BY <2>4, <2>5 DEF In, Those
  <2> QED  BY <2>2, <2>5, <2>6
<1>10. Cardinality(known) <= MaxLabels
  BY <1>1 DEF NamesFit
<1>11. \A p \in DOMAIN shown.costs : p = <<Overflow, Overflow>> \/ p[1] \in known
  BY <1>3 DEF CounterInv, PairsNamed
<1> QED  BY <1>5, <1>7, <1>8, <1>9, <1>10, <1>11 DEF SeriesAreWhole, shown

(* Under its cap on tenants with a label /metrics loses no request and no  *)
(* cost: tenants with a label have all of theirs under it, and all pairs   *)
(* with a model; all others are under the overflow label; and a caller     *)
(* bound to a tenant is shown that alone.                                  *)
THEOREM SeriesHold == UsageSpec => []SeriesAreWhole
<1>1. UsageInit => CounterInv
  BY CountersStart
<1>2. CounterInv /\ [UsageNext]_usage => CounterInv'
  BY CounterStep
<1>3. CounterInv => SeriesAreWhole
  BY WholeSeries
<1> QED  BY <1>1, <1>2, <1>3, PTL DEF UsageSpec

-----------------------------------------------------------------------------
(* The plan budget.                                                        *)

IInv == TypeOK /\ PlansMatchLedger /\ ReservationsBacked

USE NoneAssumption

(* Appending spend keeps the ledgers and the cached plans of the same      *)
(* users, whoever is evicted to make room.                                 *)
LEMMA AddSpendEffect ==
    ASSUME IInv, NEW u \in Users, NEW amount \in Nat, NEW plan \in Plans,
           AddSpend(u, amount, plan)
    PROVE  /\ ledger' \in [Users -> Seq(SpendRecord) \cup {None}]
           /\ plans' \in [Users -> Plans \cup {NoPlan}]
           /\ PlansMatchLedger'
<1> DEFINE grown == Append(Records(u), [amount |-> amount, day |-> today])
<1>1. ledger \in [Users -> Seq(SpendRecord) \cup {None}] /\ today \in 0..LastDay
      /\ plans \in [Users -> Plans \cup {NoPlan}]
  BY DEF IInv, TypeOK
<1>2. Records(u) \in Seq(SpendRecord)
  BY <1>1 DEF Records
<1>3. [amount |-> amount, day |-> today] \in SpendRecord
  BY <1>1 DEF SpendRecord
<1>4. grown \in Seq(SpendRecord) /\ grown # <<>>
  BY <1>2, <1>3
<1> HIDE DEF grown
<1>5. Trimmed(grown) \in Seq(SpendRecord)
  BY <1>4 DEF Trimmed
<1>6. Trimmed(grown) # None
  BY <1>5
<1>7. /\ ledger' = [v \in Users |-> IF v = u THEN Trimmed(grown)
                                   ELSE IF v \in Victims(u) THEN None ELSE ledger[v]]
      /\ plans' = [v \in Users |-> IF v = u THEN plan
                                  ELSE IF v \in Victims(u) THEN NoPlan ELSE plans[v]]
  BY DEF AddSpend, PlansAfter, grown
<1>8. \A v \in Users : ledger'[v] # None <=> plans'[v] # NoPlan
  <2>1. plan # NoPlan
    BY PlansAssumption
  <2>2. \A v \in Users : ledger[v] # None <=> plans[v] # NoPlan
    BY DEF IInv, PlansMatchLedger
  <2> QED  BY <1>6, <1>7, <2>1, <2>2
<1> QED  BY <1>1, <1>5, <1>7, <1>8 DEF PlansMatchLedger

(* The history of a charge keeps its type.                                 *)
LEMMA ChargedType ==
    ASSUME IInv, NEW u \in Users, NEW amount \in Nat, NEW present
    PROVE  /\ Charged(u, amount, present) \in [Users -> [day : Nat, month : Nat]]
           /\ Kept(u) \in [Users -> BOOLEAN]
<1>1. \A v \in Users : spent[v] \in [day : Nat, month : Nat] /\ intact[v] \in BOOLEAN
  BY DEF IInv, TypeOK
<1>2. \A v \in Users : spent[v].day + amount \in Nat /\ spent[v].month + amount \in Nat
  BY <1>1
<1>3. Charged(u, amount, present) \in [Users -> [day : Nat, month : Nat]]
  BY <1>1, <1>2 DEF Charged
<1> QED  BY <1>3 DEF Kept

(* A reservation that is granted is backed by the call that made it.       *)
LEMMA ReserveOK ==
    ASSUME IInv, NEW c \in Callers, NEW u \in Users, NEW amount \in Amounts,
           NEW plan \in Plans \cup {NoPlan}, ReserveSpend(c, u, amount, plan)
    PROVE  IInv'
<1> DEFINE live == Swept(reservations)
           resolved == Resolve(u, plan)
           fits == Fits(live, u, amount, PlanLimits[resolved])
           new == [user |-> u, amount |-> amount, plan |-> resolved, age |-> 0]
<1>1. resolved \in Plans
  BY PlansAssumption DEF IInv, TypeOK, Resolve
<1>2. new \in Reservation /\ new.user = u /\ new.amount = amount
  BY <1>1, AmountsAssumption, BoundsAssumption DEF Reservation
<1>3. [user |-> u, amount |-> amount] \in Call
  BY AmountsAssumption DEF Call
<1>4. /\ live \in [Callers -> Reservation \cup {None}]
      /\ \A d \in Callers : live[d] # None => live[d] = reservations[d]
  BY DEF IInv, TypeOK, Swept
<1> HIDE DEF live, resolved, fits
<1>5. /\ calling[c] = None
      /\ reservations' = IF fits THEN [live EXCEPT ![c] = new] ELSE live
      /\ calling' = IF fits THEN [calling EXCEPT ![c] = [user |-> u, amount |-> amount]]
                    ELSE calling
      /\ UNCHANGED <<ledger, plans, today, spent, intact>>
  BY DEF ReserveSpend, live, resolved, fits, new
<1> HIDE DEF new
<1>6. TypeOK'
  BY <1>2, <1>3, <1>4, <1>5 DEF IInv, TypeOK
<1>7. PlansMatchLedger'
  BY <1>5 DEF IInv, PlansMatchLedger
<1>8. ASSUME NEW d \in Callers, reservations'[d] # None
      PROVE  /\ calling'[d] # None /\ reservations'[d].user = calling'[d].user
             /\ reservations'[d].amount = calling'[d].amount
  <2>1. calling \in [Callers -> Call \cup {None}]
    BY DEF IInv, TypeOK
  <2>2. live[d] # None => /\ calling[d] # None /\ live[d].user = calling[d].user
                          /\ live[d].amount = calling[d].amount
    BY <1>4 DEF IInv, ReservationsBacked
  <2>3. CASE fits /\ d = c
    <3>1. reservations'[d] = new /\ calling'[d] = [user |-> u, amount |-> amount]
      BY <1>4, <1>5, <2>1, <2>3
    <3> QED  BY <3>1, <1>2, <1>3
  <2>4. CASE ~(fits /\ d = c)
    <3>1. reservations'[d] = live[d] /\ calling'[d] = calling[d]
      BY <1>4, <1>5, <2>1, <2>4
    <3> QED  BY <3>1, <2>2, <1>8
  <2> QED  BY <2>3, <2>4
<1> QED  BY <1>6, <1>7, <1>8 DEF IInv, ReservationsBacked

(* A spend recorded without a reservation leaves the reservations alone.   *)
LEMMA RecordOK ==
    ASSUME IInv, NEW u \in Users, NEW amount \in Amounts, NEW plan \in Plans,
           RecordSpend(u, amount, plan)
    PROVE  IInv'
<1>1. amount \in Nat
  BY AmountsAssumption
<1>2. /\ AddSpend(u, amount, plan) /\ UNCHANGED <<reservations, today, calling>>
      /\ intact' = Kept(u) /\ spent' = Charged(u, amount, Kept(u))
  BY DEF RecordSpend
<1>3. TypeOK'
  BY <1>1, <1>2, AddSpendEffect, ChargedType DEF IInv, TypeOK
<1> QED  BY <1>1, <1>2, <1>3, AddSpendEffect DEF IInv, ReservationsBacked

(* A settled reservation goes with the call it backs.                      *)
LEMMA ReconcileOK ==
    ASSUME IInv, NEW c \in Callers, NEW amount \in Amounts, ReconcileSpend(c, amount)
    PROVE  IInv'
<1> DEFINE u == calling[c].user
<1>1. amount \in Nat
  BY AmountsAssumption
<1>2. /\ calling[c] # None /\ reservations[c] # None
      /\ AddSpend(u, amount, reservations[c].plan)
      /\ reservations' = [reservations EXCEPT ![c] = None]
      /\ calling' = [calling EXCEPT ![c] = None]
      /\ intact' = Kept(u) /\ spent' = Charged(u, amount, Kept(u)) /\ today' = today
  BY DEF ReconcileSpend
<1>3. u \in Users /\ reservations[c].plan \in Plans
  BY <1>2 DEF IInv, TypeOK, Call, Reservation
<1>4. /\ ledger' \in [Users -> Seq(SpendRecord) \cup {None}]
      /\ plans' \in [Users -> Plans \cup {NoPlan}] /\ PlansMatchLedger'
  BY <1>1, <1>2, <1>3, AddSpendEffect
<1>5. spent' \in [Users -> [day : Nat, month : Nat]] /\ intact' \in [Users -> BOOLEAN]
  BY <1>1, <1>2, <1>3, ChargedType
<1>6. TypeOK'
  BY <1>2, <1>4, <1>5 DEF IInv, TypeOK
<1>7. ReservationsBacked'
  BY <1>2 DEF IInv, TypeOK, ReservationsBacked
<1> QED  BY <1>4, <1>6, <1>7 DEF IInv

(* A call whose reservation is gone ends without a record.                 *)
LEMMA UnknownOK ==
    ASSUME IInv, NEW c \in Callers, NEW amount \in Amounts, ReconcileUnknown(c, amount)
    PROVE  IInv'
<1> DEFINE u == calling[c].user
<1>1. amount \in Nat
  BY AmountsAssumption
<1>2. /\ calling[c] # None /\ reservations[c] = None
      /\ calling' = [calling EXCEPT ![c] = None]
      /\ intact' = [intact EXCEPT ![u] = @ /\ amount = 0]
      /\ spent' = Charged(u, amount, intact')
      /\ UNCHANGED <<ledger, plans, reservations, today>>
  BY DEF ReconcileUnknown
<1>3. u \in Users
  BY <1>2 DEF IInv, TypeOK, Call
<1>4. spent' \in [Users -> [day : Nat, month : Nat]] /\ intact' \in [Users -> BOOLEAN]
  <2>1. spent' \in [Users -> [day : Nat, month : Nat]]
    BY <1>1, <1>2, <1>3, ChargedType
  <2>2. intact \in [Users -> BOOLEAN] /\ (intact[u] /\ amount = 0) \in BOOLEAN
    BY <1>3 DEF IInv, TypeOK
  <2> QED  BY <1>2, <2>1, <2>2
<1>5. TypeOK'
  BY <1>2, <1>4 DEF IInv, TypeOK
<1>6. ReservationsBacked' /\ PlansMatchLedger'
  BY <1>2 DEF IInv, TypeOK, ReservationsBacked, PlansMatchLedger
<1> QED  BY <1>5, <1>6 DEF IInv

(* A released reservation goes with the call it backs.                     *)
LEMMA ReleaseOK ==
    ASSUME IInv, NEW c \in Callers, ReleaseReservation(c)
    PROVE  IInv'
  BY DEF IInv, TypeOK, PlansMatchLedger, ReservationsBacked, ReleaseReservation

(* A new day keeps the records, the plans and the reservations.            *)
LEMMA NewDayOK ==
    ASSUME IInv, NewDay
    PROVE  IInv'
<1>1. /\ today < LastDay /\ today' = today + 1
      /\ UNCHANGED <<ledger, plans, reservations, calling>>
      /\ \E same \in BOOLEAN :
           /\ spent' = [u \in Users |-> [day |-> 0, month |-> IF same THEN spent[u].month ELSE 0]]
           /\ intact' = [u \in Users |-> IF same THEN intact[u] ELSE TRUE]
  BY DEF NewDay
<1>2. today' \in 0..LastDay
  BY <1>1, BoundsAssumption DEF IInv, TypeOK
<1>3. spent' \in [Users -> [day : Nat, month : Nat]] /\ intact' \in [Users -> BOOLEAN]
  <2>1. PICK same \in BOOLEAN :
           /\ spent' = [u \in Users |-> [day |-> 0, month |-> IF same THEN spent[u].month ELSE 0]]
           /\ intact' = [u \in Users |-> IF same THEN intact[u] ELSE TRUE]
    BY <1>1
  <2>2. \A u \in Users : spent[u].month \in Nat /\ intact[u] \in BOOLEAN
    BY DEF IInv, TypeOK
  <2>3. spent' \in [Users -> [day : Nat, month : Nat]]
    BY <2>1, <2>2
  <2>4. CASE same
    BY <2>1, <2>2, <2>3, <2>4
  <2>5. CASE ~same
    BY <2>1, <2>3, <2>5
  <2> QED  BY <2>4, <2>5
<1> QED  BY <1>1, <1>2, <1>3 DEF IInv, TypeOK, PlansMatchLedger, ReservationsBacked

(* Reservations age, and stay whose they are.                              *)
LEMMA AgeOK ==
    ASSUME IInv, Age
    PROVE  IInv'
<1>1. /\ reservations' = [c \in Callers |->
                            IF reservations[c] # None /\ reservations[c].age <= MaxAge
                            THEN [reservations[c] EXCEPT !.age = @ + 1] ELSE reservations[c]]
      /\ UNCHANGED <<ledger, plans, today, calling, spent, intact>>
  BY DEF Age
<1>2. ASSUME NEW c \in Callers
      PROVE  /\ reservations'[c] \in Reservation \cup {None}
             /\ reservations'[c] # None => /\ reservations[c] # None
                                           /\ reservations'[c].user = reservations[c].user
                                           /\ reservations'[c].amount = reservations[c].amount
  <2>1. reservations[c] \in Reservation \cup {None}
    BY DEF IInv, TypeOK
  <2>2. CASE reservations[c] # None /\ reservations[c].age <= MaxAge
    <3>1. reservations'[c] = [reservations[c] EXCEPT !.age = reservations[c].age + 1]
      BY <1>1, <2>2
    <3>2. reservations[c].age + 1 \in 0..MaxAge + 1
      BY <2>1, <2>2, BoundsAssumption DEF Reservation
    <3> QED  BY <2>1, <2>2, <3>1, <3>2 DEF Reservation
  <2>3. CASE ~(reservations[c] # None /\ reservations[c].age <= MaxAge)
    BY <1>1, <2>1, <2>3
  <2> QED  BY <2>2, <2>3
<1>3. TypeOK'
  BY <1>1, <1>2 DEF IInv, TypeOK
<1> QED  BY <1>1, <1>2, <1>3 DEF IInv, PlansMatchLedger, ReservationsBacked

(* Every reachable state satisfies the inductive invariant.                *)
THEOREM Invariance == Spec => []IInv
<1>1. Init => IInv
  BY PlansAssumption, BoundsAssumption
     DEF Init, IInv, TypeOK, PlansMatchLedger, ReservationsBacked
<1>2. IInv /\ [Next]_vars => IInv'
  <2> SUFFICES ASSUME IInv, [Next]_vars PROVE IInv'
    OBVIOUS
  <2>1. CASE UNCHANGED vars
    BY <2>1 DEF vars, IInv, TypeOK, PlansMatchLedger, ReservationsBacked
  <2>2. ASSUME NEW u \in Users, Consult(u) PROVE IInv'
    BY <2>2 DEF Consult, IInv, TypeOK, PlansMatchLedger, ReservationsBacked
  <2> QED  BY <2>1, <2>2, ReserveOK, RecordOK, ReconcileOK, UnknownOK, ReleaseOK,
              NewDayOK, AgeOK DEF Next
<1> QED  BY <1>1, <1>2, PTL DEF Spec

(* The types of the tracker's state, its recency order aside.              *)
THEOREM TypeCorrect == Spec => []TypeOK
<1>1. IInv => TypeOK
  BY DEF IInv
<1> QED  BY <1>1, Invariance, PTL

(* The ledger and the cached plans always name the same users.             *)
THEOREM PlansTrackLedger == Spec => []PlansMatchLedger
<1>1. IInv => PlansMatchLedger
  BY DEF IInv
<1> QED  BY <1>1, Invariance, PTL

(* No reservation outlives the call it was made for, or misstates it.      *)
THEOREM NoOrphanReservation == Spec => []ReservationsBacked
<1>1. IInv => ReservationsBacked
  BY DEF IInv
<1> QED  BY <1>1, Invariance, PTL

-----------------------------------------------------------------------------
(* The months come in the order of their days.                            *)
LEMMA MonthsInOrder ==
    ASSUME NEW a \in Nat, NEW b \in Nat, a <= b
    PROVE  Month(a) \in Int /\ Month(b) \in Int /\ Month(a) <= Month(b)
<1> DEFINE d == DaysPerMonth
<1>1. d \in Nat /\ d > 0
    BY BoundsAssumption
<1>2. PICK q \in Int, r \in 0..d-1 : q = a \div d /\ a = d * q + r
    BY <1>1
<1>3. PICK p \in Int, s \in 0..d-1 : p = b \div d /\ b = d * p + s
    BY <1>1
<1>4. q <= p
    <2> SUFFICES ASSUME p + 1 <= q PROVE FALSE
        BY <1>2, <1>3
    <2>1. d * (p + 1) <= d * q
        BY <1>1
    <2>2. d * (p + 1) = d * p + d
        BY <1>1
    <2> HIDE DEF d
    <2> QED BY <1>1, <1>2, <1>3, <2>1, <2>2
<1> QED BY <1>2, <1>3, <1>4 DEF Month

(* The records the backward scan reaches: those after which no record is  *)
(* of another month.                                                      *)
InMonth(records, day) ==
    {i \in 1..Len(records) : \A j \in i..Len(records) : Month(records[j].day) = Month(day)}

(* The tail the model computes with Max is exactly those.                 *)
LEMMA TailIsMonth ==
    ASSUME NEW records \in Seq(SpendRecord), NEW day \in Nat, NEW outside,
           outside = {i \in DOMAIN records : Month(records[i].day) # Month(day)}
    PROVE  Max(outside \cup {0}) + 1 .. Len(records) = InMonth(records, day)
<1> DEFINE far == outside \cup {0}
<1>1. Len(records) \in Nat /\ DOMAIN records = 1..Len(records)
    OBVIOUS
<1>2. far \subseteq 0..Len(records) /\ far # {}
    BY <1>1
<1>3. PICK m \in far : m = Max(far) /\ (\A k \in far : k <= m) /\ m \in 0..Len(records)
    <2> HIDE DEF far
    <2> QED BY <1>1, <1>2, MaxIsGreatest
<1>4. ASSUME NEW i \in m + 1..Len(records) PROVE i \in InMonth(records, day)
    <2>1. \A j \in i..Len(records) : j \in DOMAIN records /\ ~ (j <= m)
        BY <1>1, <1>3
    <2>2. \A j \in outside : j <= m
        BY <1>3
    <2> QED BY <1>1, <1>3, <2>1, <2>2 DEF InMonth
<1>5. ASSUME NEW i \in InMonth(records, day) PROVE i \in m + 1..Len(records)
    <2>1. CASE m = 0
        BY <1>1, <2>1 DEF InMonth
    <2>2. CASE m # 0
        <3>1. m \in outside
            BY <2>2
        <3>2. ~ (i <= m)
            BY <1>1, <1>3, <3>1 DEF InMonth
        <3> QED BY <1>1, <1>3, <3>2 DEF InMonth
    <2> QED BY <2>1, <2>2
<1> QED BY <1>3, <1>4, <1>5

(* The sums over a ledger as seen from a given day.                       *)
AmountsOf(records) == [i \in 1..Len(records) |-> records[i].amount]
OfDay(records, day) == {i \in InMonth(records, day) : records[i].day = day}
MonthOf(records, day) == SumOver(AmountsOf(records), InMonth(records, day))
DayOf(records, day) == SumOver(AmountsOf(records), OfDay(records, day))

(* Total is a sum in the sense of DataLemmas.                             *)
LEMMA TotalSums ==
    ASSUME NEW records, NEW indices, NEW v, v = [i \in indices |-> records[i].amount]
    PROVE  Total(records, indices) = SumOver(v, indices)
BY DEF Total, SumOver, MapThenSumSet, MapThenFoldSet

(* It reads the records' amounts only, whatever indices it is given.      *)
LEMMA TotalIsSum ==
    ASSUME NEW records \in Seq(SpendRecord), NEW indices, indices \subseteq 1..Len(records)
    PROVE  Total(records, indices) = SumOver(AmountsOf(records), indices)
<1>1. PICK v : v = [i \in indices |-> records[i].amount]
    OBVIOUS
<1>2. Total(records, indices) = SumOver(v, indices)
    BY <1>1, TotalSums
<1>3. IsFiniteSet(indices)
    <2>1. Len(records) \in Int
        OBVIOUS
    <2>2. IsFiniteSet(1..Len(records))
        BY <2>1, FS_Interval
    <2> QED BY <2>2, FS_Subset
<1>4. SumOver(v, indices) = SumOver(AmountsOf(records), indices)
    <2>1. \A i \in indices : v[i] = AmountsOf(records)[i]
        BY <1>1 DEF AmountsOf
    <2> QED BY <1>3, <2>1, SumAgrees
<1> QED BY <1>2, <1>4

(* What the getters return, in terms of the ledger and the day alone.     *)
SpendsRead ==
    \A u \in Users : /\ Records(u) \in Seq(SpendRecord)
                     /\ MonthlySpend(u) = MonthOf(Records(u), today)
                     /\ DailySpend(u) = DayOf(Records(u), today)

(* The getters return it, before and after a step.                        *)
LEMMA SpendRead == TypeOK => SpendsRead
<1> SUFFICES ASSUME TypeOK, NEW u \in Users
             PROVE  /\ Records(u) \in Seq(SpendRecord)
                    /\ MonthlySpend(u) = MonthOf(Records(u), today)
                    /\ DailySpend(u) = DayOf(Records(u), today)
    BY DEF SpendsRead
<1>1. Records(u) \in Seq(SpendRecord) /\ today \in Nat
    BY BoundsAssumption DEF TypeOK, Records
<1>2. MonthTail(Records(u)) = InMonth(Records(u), today)
    BY <1>1, TailIsMonth DEF MonthTail
<1>3. InMonth(Records(u), today) \subseteq 1..Len(Records(u))
    BY DEF InMonth
<1> QED BY <1>1, <1>2, <1>3, TotalIsSum DEF MonthlySpend, DailySpend, MonthOf, DayOf, OfDay

(* No record is of a day to come.                                         *)
Dated(records, day) == \A i \in 1..Len(records) : records[i].day <= day

(* The sums are over finite sets of naturals, the day's within the        *)
(* month's.                                                               *)
LEMMA SpendFinite ==
    ASSUME NEW records \in Seq(SpendRecord), NEW day
    PROVE  /\ IsFiniteSet(InMonth(records, day)) /\ IsFiniteSet(OfDay(records, day))
           /\ InMonth(records, day) \subseteq 1..Len(records)
           /\ OfDay(records, day) \subseteq InMonth(records, day)
           /\ \A i \in 1..Len(records) : AmountsOf(records)[i] \in Nat
           /\ MonthOf(records, day) \in Nat /\ DayOf(records, day) \in Nat
           /\ DayOf(records, day) <= MonthOf(records, day)
<1>1. Len(records) \in Nat
    OBVIOUS
<1>2. IsFiniteSet(1..Len(records))
    BY <1>1, FS_Interval
<1>3. InMonth(records, day) \subseteq 1..Len(records) /\ OfDay(records, day) \subseteq InMonth(records, day)
    BY DEF InMonth, OfDay
<1>4. IsFiniteSet(InMonth(records, day)) /\ IsFiniteSet(OfDay(records, day))
    BY <1>2, <1>3, FS_Subset
<1>5. \A i \in 1..Len(records) : AmountsOf(records)[i] \in Nat
    <2>1. \A i \in 1..Len(records) : records[i] \in SpendRecord
        OBVIOUS
    <2> QED BY <2>1 DEF AmountsOf, SpendRecord
<1>6. MonthOf(records, day) \in Nat /\ DayOf(records, day) \in Nat
    BY <1>3, <1>4, <1>5, SumNatural DEF MonthOf, DayOf
<1>7. DayOf(records, day) <= MonthOf(records, day)
    BY <1>3, <1>4, <1>5, SumGrows DEF MonthOf, DayOf
<1> QED BY <1>3, <1>4, <1>5, <1>6, <1>7

(* A record of today adds its amount to both sums.                        *)
LEMMA AppendSpend ==
    ASSUME NEW records \in Seq(SpendRecord), NEW new \in SpendRecord
    PROVE  /\ Append(records, new) \in Seq(SpendRecord)
           /\ Len(Append(records, new)) = Len(records) + 1
           /\ \A i \in 1..Len(records) : Append(records, new)[i] = records[i]
           /\ Dated(records, new.day) => Dated(Append(records, new), new.day)
           /\ MonthOf(Append(records, new), new.day) = MonthOf(records, new.day) + new.amount
           /\ DayOf(Append(records, new), new.day) = DayOf(records, new.day) + new.amount
<1> DEFINE n == Len(records)
<1>1. n \in Nat
    OBVIOUS
<1>0. PICK grown, day, amount :
         grown = Append(records, new) /\ day = new.day /\ amount = new.amount
    OBVIOUS
<1>2. day \in 0..LastDay /\ amount \in Nat
    BY <1>0 DEF SpendRecord
<1>3. /\ grown \in Seq(SpendRecord) /\ Len(grown) = n + 1
      /\ \A i \in 1..n : grown[i] = records[i]
      /\ grown[n + 1].day = day /\ grown[n + 1].amount = amount
    BY <1>1, <1>0
<1>4. InMonth(grown, day) = InMonth(records, day) \cup {n + 1}
    <2>1. \A i \in 1..n + 1 : i \in InMonth(grown, day) <=> i \in InMonth(records, day) \cup {n + 1}
        <3>1. n + 1 \in InMonth(grown, day)
            BY <1>1, <1>3 DEF InMonth
        <3>2. ASSUME NEW i \in 1..n
              PROVE  i \in InMonth(grown, day) <=> i \in InMonth(records, day)
            <4>1. \A j \in i..n + 1 : j \in 1..n \/ j = n + 1
                BY <1>1
            <4>2. \A j \in i..n : j \in i..n + 1 /\ j \in 1..n
                BY <1>1
            <4>3. \A j \in i..n + 1 : j \in i..n \/ j = n + 1
                BY <1>1
            <4>4. i \in 1..n + 1
                BY <1>1
            <4> QED BY <1>2, <1>1, <1>3, <4>1, <4>2, <4>3, <4>4 DEF InMonth
        <3>3. \A i \in 1..n + 1 : i \in 1..n \/ i = n + 1
            BY <1>1
        <3> QED BY <1>1, <3>1, <3>2, <3>3
    <2>2. InMonth(grown, day) \subseteq 1..n + 1
        BY <1>3 DEF InMonth
    <2>3. InMonth(records, day) \cup {n + 1} \subseteq 1..n + 1
        BY <1>1 DEF InMonth
    <2> QED BY <2>1, <2>2, <2>3
<1>5. OfDay(grown, day) = OfDay(records, day) \cup {n + 1}
    <2>1. InMonth(records, day) \subseteq 1..n
        BY DEF InMonth
    <2> QED BY <1>1, <1>3, <1>4, <2>1 DEF OfDay
<1>6. /\ \A i \in 1..n : AmountsOf(grown)[i] = AmountsOf(records)[i]
      /\ AmountsOf(grown)[n + 1] = amount
    BY <1>1, <1>3 DEF AmountsOf
<1>7. ASSUME NEW S, S \subseteq 1..n, IsFiniteSet(S)
      PROVE  SumOver(AmountsOf(grown), S \cup {n + 1}) = SumOver(AmountsOf(records), S) + amount
    <2>1. \A i \in S : AmountsOf(records)[i] \in Nat
        BY <1>7, SpendFinite
    <2>2. SumOver(AmountsOf(grown), S) = SumOver(AmountsOf(records), S)
        BY <1>6, <1>7, SumAgrees
    <2>3. SumOver(AmountsOf(grown), S \cup {n + 1}) = AmountsOf(grown)[n + 1] + SumOver(AmountsOf(grown), S)
        <3>1. n + 1 \notin S
            BY <1>1, <1>7
        <3>2. \A i \in S : AmountsOf(grown)[i] \in Int
            BY <1>6, <1>7, <2>1
        <3>3. AmountsOf(grown)[n + 1] \in Int
            BY <1>2, <1>6
        <3>4. PICK v, k : v = AmountsOf(grown) /\ k = n + 1
            OBVIOUS
        <3>5. SumOver(v, S \cup {k}) = v[k] + SumOver(v, S)
            BY <1>7, <3>1, <3>2, <3>3, <3>4, SumAdds
        <3> QED BY <3>4, <3>5
    <2>4. SumOver(AmountsOf(records), S) \in Nat
        BY <1>7, <2>1, SumNatural
    <2> QED BY <1>2, <1>6, <2>2, <2>3, <2>4
<1>8. MonthOf(grown, day) = MonthOf(records, day) + amount /\ DayOf(grown, day) = DayOf(records, day) + amount
    <2>1. /\ InMonth(records, day) \subseteq 1..n /\ IsFiniteSet(InMonth(records, day))
          /\ OfDay(records, day) \subseteq 1..n /\ IsFiniteSet(OfDay(records, day))
        BY SpendFinite
    <2> QED BY <1>4, <1>5, <1>7, <2>1 DEF MonthOf, DayOf
<1>9. Dated(records, day) => Dated(grown, day)
    <2>1. \A i \in 1..n + 1 : i \in 1..n \/ i = n + 1
        BY <1>1
    <2> QED BY <1>2, <1>1, <1>0, <1>3, <2>1, BoundsAssumption DEF Dated
<1> QED BY <1>0, <1>3, <1>8, <1>9

(* Dropping an oldest record of another month changes neither sum.        *)
LEMMA TailSpend ==
    ASSUME NEW records \in Seq(SpendRecord), NEW day \in 0..LastDay, records # <<>>,
           Month(records[1].day) # Month(day)
    PROVE  /\ MonthOf(Tail(records), day) = MonthOf(records, day)
           /\ DayOf(Tail(records), day) = DayOf(records, day)
<1> DEFINE n == Len(records)
           rest == Tail(records)
<1>1. n \in Nat /\ n >= 1
    OBVIOUS
<1>2. rest \in Seq(SpendRecord) /\ Len(rest) = n - 1 /\ \A i \in 1..n - 1 : rest[i] = records[i + 1]
    OBVIOUS
<1> HIDE DEF rest
<1>3. 1 \notin InMonth(records, day)
    BY <1>1 DEF InMonth
<1>4. \A i \in 1..n - 1 : i \in InMonth(rest, day) <=> i + 1 \in InMonth(records, day)
    <2> SUFFICES ASSUME NEW i \in 1..n - 1
                 PROVE  (\A j \in i..n - 1 : Month(rest[j].day) = Month(day))
                        <=> (\A j \in i + 1..n : Month(records[j].day) = Month(day))
        <3>1. \A i \in 1..n - 1 : i + 1 \in 1..n
            BY <1>1
        <3> QED BY <1>2, <3>1 DEF InMonth
    <2>1. \A j \in i..n - 1 : j \in 1..n - 1 /\ j + 1 \in i + 1..n
        BY <1>1
    <2>2. \A j \in i + 1..n : j - 1 \in i..n - 1 /\ j - 1 \in 1..n - 1 /\ (j - 1) + 1 = j
        BY <1>1
    <2>3. \A j \in i..n - 1 : rest[j] = records[j + 1]
        BY <1>2, <2>1
    <2>4. \A j \in i + 1..n : records[j] = rest[j - 1]
        BY <1>2, <2>2
    <2>5. ASSUME \A j \in i..n - 1 : Month(rest[j].day) = Month(day), NEW j \in i + 1..n
          PROVE  Month(records[j].day) = Month(day)
        BY <2>2, <2>4, <2>5
    <2>6. ASSUME \A j \in i + 1..n : Month(records[j].day) = Month(day), NEW j \in i..n - 1
          PROVE  Month(rest[j].day) = Month(day)
        BY <2>1, <2>3, <2>6
    <2> QED BY <2>5, <2>6
<1>5. ASSUME NEW R, NEW S, R \subseteq 1..n - 1, S \subseteq 2..n,
             \A i \in 1..n - 1 : i \in R <=> i + 1 \in S
      PROVE  SumOver(AmountsOf(rest), R) = SumOver(AmountsOf(records), S)
    <2>2. \A i \in 1..n - 1 : AmountsOf(records)[i + 1] \in Int /\ AmountsOf(rest)[i] = AmountsOf(records)[i + 1]
        <3>1. \A i \in 1..n - 1 : i + 1 \in 1..n
            BY <1>1
        <3>2. \A i \in 1..n : AmountsOf(records)[i] \in Int
            BY SpendFinite
        <3>3. \A i \in 1..n - 1 : AmountsOf(rest)[i] = AmountsOf(records)[i + 1]
            BY <1>2, <3>1 DEF AmountsOf
        <3> QED BY <3>1, <3>2, <3>3
    <2>3. \A i \in R : i + 1 \in S /\ AmountsOf(rest)[i] \in Int
                        /\ AmountsOf(records)[i + 1] = AmountsOf(rest)[i]
        BY <1>5, <2>2
    <2>4. \A u \in S : u - 1 \in R
        <3> SUFFICES ASSUME NEW u \in S PROVE u - 1 \in R
            OBVIOUS
        <3>1. u - 1 \in 1..n - 1 /\ (u - 1) + 1 = u
            BY <1>1, <1>5
        <3> QED BY <1>5, <3>1
    <2>5. IsFiniteSet(R) /\ IsFiniteSet(S)
        <3>1. n - 1 \in Int /\ n \in Int
            BY <1>1
        <3>2. IsFiniteSet(1..n - 1) /\ IsFiniteSet(2..n)
            BY <3>1, FS_Interval
        <3> QED BY <1>5, <3>2, FS_Subset
    <2>6. R \subseteq Int /\ S \subseteq Int
        BY <1>5
    <2> QED BY <2>3, <2>4, <2>5, <2>6, SumShifts
<1>6. InMonth(rest, day) \subseteq 1..n - 1 /\ InMonth(records, day) \subseteq 2..n
    <2>1. InMonth(rest, day) \subseteq 1..n - 1
        BY <1>2 DEF InMonth
    <2>2. \A i \in 1..n : i # 1 => i \in 2..n
        BY <1>1
    <2>3. InMonth(records, day) \subseteq 1..n
        BY DEF InMonth
    <2> QED BY <1>3, <2>1, <2>2, <2>3
<1>7. MonthOf(rest, day) = MonthOf(records, day)
    BY <1>4, <1>5, <1>6 DEF MonthOf
<1>8. DayOf(rest, day) = DayOf(records, day)
    <2>1. OfDay(rest, day) \subseteq 1..n - 1 /\ OfDay(records, day) \subseteq 2..n
        BY <1>6 DEF OfDay
    <2>2. \A i \in 1..n - 1 : i \in OfDay(rest, day) <=> i + 1 \in OfDay(records, day)
        BY <1>2, <1>4 DEF OfDay
    <2> QED BY <1>5, <2>1, <2>2 DEF DayOf
<1> QED BY <1>7, <1>8 DEF rest

(* The next day starts from zero, and so does the next month.             *)
LEMMA NextDaySpend ==
    ASSUME NEW records \in Seq(SpendRecord), NEW day \in Nat, Dated(records, day)
    PROVE  /\ Dated(records, day + 1)
           /\ DayOf(records, day + 1) = 0
           /\ MonthOf(records, day + 1) = IF Month(day + 1) = Month(day) THEN MonthOf(records, day) ELSE 0
<1>1. \A i \in 1..Len(records) : records[i].day \in Nat /\ records[i].day <= day
    <2>1. \A i \in 1..Len(records) : records[i] \in SpendRecord
        OBVIOUS
    <2> QED BY <2>1, BoundsAssumption DEF Dated, SpendRecord
<1>2. Dated(records, day + 1)
    BY <1>1 DEF Dated
<1>3. DayOf(records, day + 1) = 0
    <2>1. OfDay(records, day + 1) = {}
        BY <1>1 DEF OfDay, InMonth
    <2> QED BY <2>1, SumEmpty DEF DayOf
<1>4. CASE Month(day + 1) = Month(day)
    <2>1. InMonth(records, day + 1) = InMonth(records, day)
        BY <1>4 DEF InMonth
    <2> QED BY <1>2, <1>3, <1>4, <2>1 DEF MonthOf
<1>5. CASE Month(day + 1) # Month(day)
    <2>1. ASSUME NEW i \in 1..Len(records) PROVE Month(records[i].day) # Month(day + 1)
        <3>1. Month(records[i].day) \in Int /\ Month(day) \in Int /\ Month(records[i].day) <= Month(day)
            BY <1>1, MonthsInOrder
        <3>2. day + 1 \in Nat /\ day <= day + 1
            OBVIOUS
        <3>3. Month(day) <= Month(day + 1) /\ Month(day + 1) \in Int
            BY <3>2, MonthsInOrder
        <3> QED BY <1>5, <3>1, <3>3
    <2>2. \A i \in 1..Len(records) : i \in i..Len(records)
        OBVIOUS
    <2>3. InMonth(records, day + 1) = {}
        BY <2>1, <2>2 DEF InMonth
    <2> QED BY <1>2, <1>3, <1>5, <2>3, SumEmpty DEF MonthOf
<1> QED BY <1>4, <1>5

(* What the tracker reads off each ledger is what was spent, over ledgers  *)
(* of bounded length whose records are none of them of a day to come.      *)
Books ==
    \A u \in Users :
        /\ Len(Records(u)) <= LedgerMax
        /\ Dated(Records(u), today)
        /\ intact[u] => /\ DayOf(Records(u), today) = spent[u].day
                        /\ MonthOf(Records(u), today) = spent[u].month

(* The books say what LedgerExact says.                                   *)
LEMMA BooksAreExact == TypeOK /\ Books => LedgerExact
BY SpendRead DEF SpendsRead, Books, LedgerExact

(* An evicted or unknown user's ledger sums to nothing.                   *)
LEMMA EmptySpend ==
    ASSUME NEW day
    PROVE  DayOf(<<>>, day) = 0 /\ MonthOf(<<>>, day) = 0 /\ Dated(<<>>, day)
<1>1. InMonth(<<>>, day) = {} /\ OfDay(<<>>, day) = {}
    BY DEF InMonth, OfDay
<1>2. Dated(<<>>, day)
    BY DEF Dated
<1>3. DayOf(<<>>, day) = 0
    BY <1>1, SumEmpty DEF DayOf
<1>4. MonthOf(<<>>, day) = 0
    BY <1>1, SumEmpty DEF MonthOf
<1> QED BY <1>2, <1>3, <1>4

(* Booking a charge keeps the books, whoever is evicted for it.            *)
LEMMA ChargeKeepsBooks ==
    ASSUME IInv, Books, NEW u \in Users, NEW amount \in Nat, NEW plan \in Plans,
           AddSpend(u, amount, plan), today' = today,
           intact' = Kept(u), spent' = Charged(u, amount, Kept(u))
    PROVE  Books'
<1>0. PICK recs : recs = Records(u)
    OBVIOUS
<1>1. /\ ledger \in [Users -> Seq(SpendRecord) \cup {None}] /\ today \in 0..LastDay /\ today \in Nat
      /\ spent \in [Users -> [day : Nat, month : Nat]] /\ TypeOK
    BY BoundsAssumption DEF IInv, TypeOK
<1>2. recs \in Seq(SpendRecord) /\ Len(recs) \in Nat
    BY <1>0, <1>1 DEF Records
<1>3. PICK new, grown : new = [amount |-> amount, day |-> today] /\ grown = Append(recs, new)
    OBVIOUS
<1>4. /\ grown \in Seq(SpendRecord) /\ Len(grown) = Len(recs) + 1
      /\ \A i \in 1..Len(recs) : grown[i] = recs[i]
      /\ Dated(recs, today) => Dated(grown, today)
      /\ MonthOf(grown, today) = MonthOf(recs, today) + amount
      /\ DayOf(grown, today) = DayOf(recs, today) + amount
    <2>1. new \in SpendRecord /\ new.amount = amount /\ new.day = today
        BY <1>1, <1>3 DEF SpendRecord
    <2> QED BY <1>2, <1>3, <2>1, AppendSpend
<1>5. /\ Len(recs) <= LedgerMax /\ Dated(recs, today)
      /\ intact[u] => DayOf(recs, today) = spent[u].day /\ MonthOf(recs, today) = spent[u].month
    BY <1>0 DEF Books
<1>6. /\ \A v \in Users : ledger'[v] = IF v = u THEN Trimmed(grown)
                                         ELSE IF v \in Victims(u) THEN None ELSE ledger[v]
    BY <1>0, <1>3 DEF AddSpend
<1>7. ASSUME NEW v \in Users
      PROVE  /\ intact'[v] = (/\ intact[v]
                              /\ v = u /\ Len(recs) = LedgerMax => Month(recs[1].day) # Month(today)
                              /\ v \in Victims(u) => MonthlySpend(v) = 0)
             /\ intact'[v] => spent'[v] = IF v = u THEN [day |-> spent[u].day + amount,
                                                        month |-> spent[u].month + amount]
                                         ELSE spent[v]
    BY <1>0 DEF Kept, Charged
<1> SUFFICES ASSUME NEW v \in Users
             PROVE  /\ Len(Records(v)') <= LedgerMax
                    /\ Dated(Records(v)', today)
                    /\ intact'[v] => /\ DayOf(Records(v)', today) = spent'[v].day
                                     /\ MonthOf(Records(v)', today) = spent'[v].month
    BY DEF Books
<1>8. CASE v = u
    <2>1. Records(v)' = Trimmed(grown)
        <3>1. Trimmed(grown) \in Seq(SpendRecord)
            <4>1. grown # <<>>
                BY <1>2, <1>4
            <4> QED BY <1>4, <4>1 DEF Trimmed
        <3> QED BY <1>6, <1>8, <3>1 DEF Records
    <2>2. intact'[v] => /\ intact[u]
                        /\ spent'[v].day = spent[u].day + amount /\ spent'[v].month = spent[u].month + amount
        <3>1. PICK day, month : day = spent[u].day + amount /\ month = spent[u].month + amount
            OBVIOUS
        <3>2. intact'[v] => intact[u] /\ spent'[v] = [day |-> day, month |-> month]
            BY <1>7, <1>8, <3>1
        <3> QED BY <3>1, <3>2
    <2>3. CASE Len(recs) = LedgerMax
        <3>1. Trimmed(grown) = Tail(grown) /\ grown # <<>>
            BY <1>2, <1>4, <2>3, BoundsAssumption DEF Trimmed
        <3>2. /\ Len(Tail(grown)) = Len(recs)
              /\ \A i \in 1..Len(recs) : Tail(grown)[i] = grown[i + 1] /\ i + 1 \in 1..Len(grown)
            BY <1>2, <1>4, <3>1
        <3>3. Dated(Tail(grown), today)
            BY <1>4, <1>5, <3>2 DEF Dated
        <3>4. intact'[v] => Month(grown[1].day) # Month(today)
            <4>1. 1 \in 1..Len(recs)
                BY <1>2, <2>3, BoundsAssumption
            <4> QED BY <1>4, <1>7, <1>8, <2>3, <4>1
        <3>5. intact'[v] => /\ MonthOf(Tail(grown), today) = MonthOf(grown, today)
                            /\ DayOf(Tail(grown), today) = DayOf(grown, today)
            BY <1>1, <1>4, <3>1, <3>4, TailSpend
        <3> QED BY <1>4, <1>5, <2>1, <2>2, <2>3, <3>1, <3>2, <3>3, <3>5
    <2>4. CASE Len(recs) # LedgerMax
        <3>1. Trimmed(grown) = grown /\ Len(grown) <= LedgerMax
            BY <1>2, <1>4, <1>5, <2>4, BoundsAssumption DEF Trimmed
        <3> QED BY <1>4, <1>5, <2>1, <2>2, <3>1
    <2> QED BY <2>3, <2>4
<1>9. CASE v # u /\ v \in Victims(u)
    <2>1. Records(v)' = <<>>
        BY <1>6, <1>9 DEF Records
    <2>2. intact'[v] => intact[v] /\ MonthlySpend(v) = 0 /\ spent'[v] = spent[v]
        BY <1>7, <1>9
    <2>3. Records(v) \in Seq(SpendRecord) /\ MonthlySpend(v) = MonthOf(Records(v), today)
        BY <1>1, SpendRead DEF SpendsRead
    <2>4. DayOf(Records(v), today) \in Nat /\ DayOf(Records(v), today) <= MonthOf(Records(v), today)
        BY <2>3, SpendFinite
    <2>5. intact[v] => DayOf(Records(v), today) = spent[v].day /\ MonthOf(Records(v), today) = spent[v].month
        BY DEF Books
    <2>6. intact'[v] => spent'[v].day = 0 /\ spent'[v].month = 0
        BY <2>2, <2>3, <2>4, <2>5
    <2>7. Len(<<>>) <= LedgerMax
        BY BoundsAssumption
    <2> QED BY <2>1, <2>6, <2>7, EmptySpend
<1>10. CASE v # u /\ v \notin Victims(u)
    <2>1. Records(v)' = Records(v)
        BY <1>6, <1>10 DEF Records
    <2>2. intact'[v] => intact[v] /\ spent'[v] = spent[v]
        BY <1>7, <1>10
    <2> QED BY <2>1, <2>2 DEF Books
<1> QED BY <1>8, <1>9, <1>10

(* A day that passes keeps the books, and a month that ends starts them    *)
(* afresh.                                                                 *)
LEMMA NewDayKeepsBooks ==
    ASSUME IInv, Books, NewDay
    PROVE  Books'
<1>1. today \in Nat /\ TypeOK
    BY BoundsAssumption DEF IInv, TypeOK
<1>2. /\ today' = today + 1 /\ ledger' = ledger
      /\ \A u \in Users :
           /\ spent'[u] = [day |-> 0, month |-> IF Month(today + 1) = Month(today) THEN spent[u].month ELSE 0]
           /\ intact'[u] = IF Month(today + 1) = Month(today) THEN intact[u] ELSE TRUE
    BY DEF NewDay
<1> SUFFICES ASSUME NEW u \in Users
             PROVE  /\ Len(Records(u)) <= LedgerMax
                    /\ Dated(Records(u), today + 1)
                    /\ intact'[u] => /\ DayOf(Records(u), today + 1) = spent'[u].day
                                     /\ MonthOf(Records(u), today + 1) = spent'[u].month
    BY <1>2 DEF Books, Records
<1>3. /\ Len(Records(u)) <= LedgerMax /\ Dated(Records(u), today)
      /\ intact[u] => MonthOf(Records(u), today) = spent[u].month
    BY DEF Books
<1>4. Records(u) \in Seq(SpendRecord)
    BY <1>1, SpendRead DEF SpendsRead
<1>5. /\ Dated(Records(u), today + 1) /\ DayOf(Records(u), today + 1) = 0
      /\ MonthOf(Records(u), today + 1) = IF Month(today + 1) = Month(today)
                                          THEN MonthOf(Records(u), today) ELSE 0
    BY <1>1, <1>3, <1>4, NextDaySpend
<1>6. PICK month : month = IF Month(today + 1) = Month(today) THEN spent[u].month ELSE 0
    OBVIOUS
<1>7. spent'[u] = [day |-> 0, month |-> month]
    BY <1>2, <1>6
<1>8. spent'[u].day = 0 /\ spent'[u].month = month
    BY <1>7
<1>9. intact'[u] = IF Month(today + 1) = Month(today) THEN intact[u] ELSE TRUE
    BY <1>2
<1> QED BY <1>3, <1>5, <1>6, <1>8, <1>9

(* While nothing a user spent was forgotten, the tracker's backward scan   *)
(* of the ledger reads exactly what the user spent today and this month.   *)
THEOREM LedgerIsExact == Spec => []LedgerExact
<1>1. Init => Books
    <2> SUFFICES ASSUME Init, NEW u \in Users
                 PROVE  /\ Len(Records(u)) <= LedgerMax /\ Dated(Records(u), today)
                        /\ intact[u] => /\ DayOf(Records(u), today) = spent[u].day
                                        /\ MonthOf(Records(u), today) = spent[u].month
        BY DEF Books
    <2>1. Records(u) = <<>> /\ spent[u].day = 0 /\ spent[u].month = 0
        BY DEF Init, Records
    <2>2. Len(<<>>) <= LedgerMax
        BY BoundsAssumption
    <2> QED BY <2>1, <2>2, EmptySpend
<1>2. IInv /\ Books /\ [Next]_vars => Books'
    <2> SUFFICES ASSUME IInv, Books, [Next]_vars PROVE Books'
        OBVIOUS
    <2>1. ASSUME UNCHANGED <<ledger, today, spent, intact>> PROVE Books'
        BY <2>1 DEF Books, Records
    <2>2. ASSUME NEW u \in Users, NEW amount \in Amounts, NEW plan \in Plans, RecordSpend(u, amount, plan)
          PROVE  Books'
        BY <2>2, AmountsAssumption, ChargeKeepsBooks DEF RecordSpend
    <2>3. ASSUME NEW c \in Callers, NEW amount \in Amounts, ReconcileSpend(c, amount)
          PROVE  Books'
        <3>1. calling[c].user \in Users /\ reservations[c].plan \in Plans
            BY <2>3 DEF ReconcileSpend, IInv, TypeOK, Call, Reservation
        <3> QED BY <2>3, <3>1, AmountsAssumption, ChargeKeepsBooks DEF ReconcileSpend
    <2>4. ASSUME NEW c \in Callers, NEW amount \in Amounts, ReconcileUnknown(c, amount)
          PROVE  Books'
        <3>1. PICK u \in Users : u = calling[c].user
            BY <2>4 DEF ReconcileUnknown, IInv, TypeOK, Call
        <3>2. /\ ledger' = ledger /\ today' = today
              /\ intact' = [intact EXCEPT ![u] = intact[u] /\ amount = 0]
              /\ spent' = Charged(u, amount, intact')
            BY <2>4, <3>1 DEF ReconcileUnknown
        <3>3. intact \in [Users -> BOOLEAN] /\ spent \in [Users -> [day : Nat, month : Nat]]
            BY DEF IInv, TypeOK
        <3>4. \A v \in Users : intact'[v] => /\ intact[v] /\ spent'[v].day = spent[v].day
                                              /\ spent'[v].month = spent[v].month
            <4> SUFFICES ASSUME NEW v \in Users, intact'[v]
                         PROVE  /\ intact[v] /\ spent'[v].day = spent[v].day
                                /\ spent'[v].month = spent[v].month
                OBVIOUS
            <4>1. intact[v] /\ (v = u => amount = 0)
                BY <3>2, <3>3
            <4>2. spent'[v] = IF v = u THEN [day |-> spent[u].day + amount, month |-> spent[u].month + amount]
                              ELSE spent[v]
                BY <3>2 DEF Charged
            <4> QED BY <3>3, <4>1, <4>2
        <3> QED BY <3>2, <3>4 DEF Books, Records
    <2>5. CASE UNCHANGED vars
        BY <2>1, <2>5 DEF vars
    <2>6. ASSUME NEW u \in Users, Consult(u) PROVE Books'
        BY <2>1, <2>6 DEF Consult
    <2>7. ASSUME NEW c \in Callers, NEW u \in Users, NEW amount \in Amounts, NEW plan \in Plans \cup {NoPlan},
                 ReserveSpend(c, u, amount, plan)
          PROVE  Books'
        BY <2>1, <2>7 DEF ReserveSpend
    <2>8. ASSUME NEW c \in Callers, ReleaseReservation(c) PROVE Books'
        BY <2>1, <2>8 DEF ReleaseReservation
    <2>9. CASE Age
        BY <2>1, <2>9 DEF Age
    <2> QED BY <2>2, <2>3, <2>4, <2>5, <2>6, <2>7, <2>8, <2>9, NewDayKeepsBooks DEF Next
<1>3. IInv /\ Books => LedgerExact
    BY BooksAreExact DEF IInv
<1> QED BY <1>1, <1>2, <1>3, Invariance, PTL DEF Spec

-----------------------------------------------------------------------------
(* What is held for a user, and what the user has in flight, as sums.      *)
Holders(live, u) == {c \in Callers : live[c] # None /\ live[c].user = u}

(* A sum over the holders' amounts is one in the sense of DataLemmas.     *)
LEMMA AmountsSum ==
    ASSUME NEW live, NEW S, NEW v, v = [c \in S |-> live[c].amount]
    PROVE  MapThenSumSet(LAMBDA c : live[c].amount, S) = SumOver(v, S)
BY DEF SumOver, MapThenSumSet, MapThenFoldSet

(* So are what is pending and what is in flight.                          *)
LEMMA PendingSums ==
    ASSUME NEW live, NEW u, NEW v, v = [c \in Holders(live, u) |-> live[c].amount]
    PROVE  /\ Pending(live, u) = SumOver(v, Holders(live, u))
           /\ InFlight(live, u) = SumOver(v, Holders(live, u))
<1>1. PICK S : S = Holders(live, u)
    OBVIOUS
<1>2. MapThenSumSet(LAMBDA c : live[c].amount, S) = SumOver(v, S)
    BY <1>1, AmountsSum
<1>3. Pending(live, u) = MapThenSumSet(LAMBDA c : live[c].amount, S)
    BY <1>1 DEF Pending, Holders
<1>4. InFlight(live, u) = MapThenSumSet(LAMBDA c : live[c].amount, S)
    BY <1>1 DEF InFlight, Holders
<1> QED BY <1>1, <1>2, <1>3, <1>4

(* A call that joins those in flight adds what it is estimated at.         *)
Joins(flights, live, u, c) ==
    /\ live[c] = None /\ flights[c] # None /\ flights[c].user = u /\ flights[c].amount \in Nat
    /\ \A d \in Callers \ {c} : d \in Holders(live, u) <=> d \in Holders(flights, u)
    /\ \A d \in Holders(live, u) : live[d].amount \in Nat /\ flights[d].amount = live[d].amount

(* What is in flight grows by the amount of a new reservation.             *)
LEMMA InFlightGrows ==
    ASSUME NEW live, NEW flights, NEW u, NEW c \in Callers, Joins(flights, live, u, c)
    PROVE  /\ Pending(live, u) \in Nat
           /\ InFlight(flights, u) = Pending(live, u) + flights[c].amount
<1>1. PICK v, w : /\ v = [d \in Holders(live, u) |-> live[d].amount]
                  /\ w = [d \in Holders(flights, u) |-> flights[d].amount]
    OBVIOUS
<1>2. Pending(live, u) = SumOver(v, Holders(live, u)) /\ InFlight(flights, u) = SumOver(w, Holders(flights, u))
    BY <1>1, PendingSums
<1>3. PICK S : S = Holders(live, u) /\ S \subseteq Callers /\ c \notin S
    BY DEF Holders, Joins
<1>4. Holders(flights, u) = S \cup {c}
    <2>1. Holders(flights, u) \subseteq Callers /\ c \in Holders(flights, u)
        BY DEF Holders, Joins
    <2> QED BY <1>3, <2>1 DEF Joins
<1>5. IsFiniteSet(S)
    BY <1>3, CallersAssumption, FS_Subset
<1>6. /\ \A d \in S : v[d] \in Nat /\ w[d] = v[d]
      /\ w[c] = flights[c].amount /\ w[c] \in Nat
    BY <1>1, <1>3, <1>4 DEF Joins
<1>7. SumOver(w, S) = SumOver(v, S)
    BY <1>5, <1>6, SumAgrees
<1>8. SumOver(v, S) \in Nat
    BY <1>5, <1>6, SumNatural
<1>9. SumOver(w, S \cup {c}) = w[c] + SumOver(w, S)
    <2>1. \A d \in S : w[d] \in Int
        BY <1>6
    <2>2. w[c] \in Int
        BY <1>6
    <2> QED BY <1>3, <1>5, <2>1, <2>2, SumAdds
<1> QED BY <1>2, <1>3, <1>4, <1>6, <1>7, <1>8, <1>9

(* A reservation is granted only where what the user really spent and has  *)
(* really in flight, the new call among it, fits the plan.                 *)
THEOREM GrantsFit == Spec => GrantsFitThePlan
<1>1. ASSUME IInv, LedgerExact, NEW c \in Callers, NEW u \in Users, NEW amount \in Amounts,
             NEW plan \in Plans \cup {NoPlan}, ReserveSpend(c, u, amount, plan)
      PROVE  GrantsWithinPlan
    <2>1. PICK live, resolved, new, call :
            /\ live = Swept(reservations) /\ resolved = Resolve(u, plan)
            /\ new = [user |-> u, amount |-> amount, plan |-> resolved, age |-> 0]
            /\ call = [user |-> u, amount |-> amount]
        OBVIOUS
    <2>2. amount \in Nat /\ amount \in Int
        BY AmountsAssumption
    <2>3. resolved \in Plans
        BY <1>1, <2>1, PlansAssumption DEF IInv, TypeOK, Resolve
    <2>4. /\ new.user = u /\ new.plan = resolved
          /\ call.user = u /\ call.amount = amount /\ call \in Call
        BY <2>1, <2>2 DEF Call
    <2>5. /\ calling[c] = None
          /\ reservations' = IF Fits(live, u, amount, PlanLimits[resolved])
                              THEN [live EXCEPT ![c] = new] ELSE live
          /\ calling' = IF Fits(live, u, amount, PlanLimits[resolved])
                         THEN [calling EXCEPT ![c] = call] ELSE calling
        BY <1>1, <2>1 DEF ReserveSpend
    <2>6. /\ live \in [Callers -> Reservation \cup {None}]
          /\ \A d \in Callers : live[d] = IF reservations[d] # None /\ reservations[d].age > MaxAge
                                           THEN None ELSE reservations[d]
          /\ calling \in [Callers -> Call \cup {None}]
        BY <1>1, <2>1 DEF Swept, IInv, TypeOK
    <2> SUFFICES ASSUME NEW e \in Callers, calling[e] = None, calling'[e] # None,
                        intact[reservations'[e].user],
                        \A d \in Callers : calling[d] # None /\ calling[d].user = reservations'[e].user
                                     => reservations[d] # None /\ reservations[d].age <= MaxAge
                 PROVE  LET granted == reservations'[e]
                            of == granted.user
                        IN  /\ spent[of].day + InFlight(calling', of) <= PlanLimits[granted.plan].daily
                            /\ spent[of].month + InFlight(calling', of) <= PlanLimits[granted.plan].monthly
        BY DEF GrantsWithinPlan
    <2>7. Fits(live, u, amount, PlanLimits[resolved]) /\ e = c
        BY <2>5, <2>6
    <2>8. reservations'[e] = new /\ calling' = [calling EXCEPT ![c] = call]
        BY <2>5, <2>6, <2>7
    <2>9. PICK flights : flights = calling' /\ flights = [calling EXCEPT ![c] = call]
        BY <2>8
    <2>10. flights[c] = call /\ \A d \in Callers \ {c} : flights[d] = calling[d]
        BY <2>6, <2>9
    <2>11. flights[c] # None /\ live[c] = None
        <3>1. reservations[c] = None
            BY <1>1, <2>5 DEF IInv, ReservationsBacked
        <3> QED BY <2>4, <2>6, <2>10, <3>1
    <2>12. \A d \in Callers \ {c} : d \in Holders(live, u) <=> d \in Holders(flights, u)
        <3>1. \A d \in Callers : calling[d] # None /\ calling[d].user = u
                                  => reservations[d] # None /\ ~ (reservations[d].age > MaxAge)
            <4>1. \A d \in Callers : calling[d] # None /\ calling[d].user = u
                                  => reservations[d] # None /\ reservations[d].age <= MaxAge
                BY <2>4, <2>8
            <4>2. \A d \in Callers : reservations[d] # None => reservations[d].age \in Int
                BY <1>1, BoundsAssumption DEF IInv, TypeOK, Reservation
            <4> QED BY <4>1, <4>2, BoundsAssumption
        <3>2. \A d \in Callers : reservations[d] # None
                                  => calling[d] # None /\ reservations[d].user = calling[d].user
            BY <1>1 DEF IInv, ReservationsBacked
        <3> QED BY <2>6, <2>10, <3>1, <3>2 DEF Holders
    <2>13. \A d \in Holders(live, u) : live[d].amount \in Nat /\ flights[d].amount = live[d].amount
        <3>1. \A d \in Callers : reservations[d] # None => reservations[d].amount = calling[d].amount
            BY <1>1 DEF IInv, ReservationsBacked
        <3>2. \A d \in Holders(live, u) : d \in Callers \ {c} /\ live[d] # None /\ live[d] = reservations[d]
            BY <2>6, <2>11 DEF Holders
        <3>3. \A d \in Callers : live[d] # None => live[d].amount \in Nat
            BY <2>6 DEF Reservation
        <3> QED BY <2>10, <3>1, <3>2, <3>3
    <2>14. Pending(live, u) \in Nat /\ InFlight(flights, u) = Pending(live, u) + amount
        <3>1. Joins(flights, live, u, c)
            BY <2>2, <2>4, <2>10, <2>11, <2>12, <2>13 DEF Joins
        <3> QED BY <2>4, <2>10, <3>1, InFlightGrows
    <2>15. DailySpend(u) = spent[u].day /\ MonthlySpend(u) = spent[u].month
        BY <1>1, <2>4, <2>8 DEF LedgerExact
    <2>16. spent[u].day \in Nat /\ spent[u].month \in Nat
        BY <1>1 DEF IInv, TypeOK
    <2>17. PlanLimits[resolved].daily \in Nat /\ PlanLimits[resolved].monthly \in Nat
        BY <2>3, PlansAssumption
    <2>18. /\ spent[u].day + Pending(live, u) + amount <= PlanLimits[resolved].daily
           /\ spent[u].month + Pending(live, u) + amount <= PlanLimits[resolved].monthly
        BY <2>7, <2>15 DEF Fits
    <2>19. /\ spent[u].day + InFlight(flights, u) <= PlanLimits[resolved].daily
           /\ spent[u].month + InFlight(flights, u) <= PlanLimits[resolved].monthly
        BY <2>2, <2>14, <2>16, <2>17, <2>18
    <2> QED BY <2>4, <2>8, <2>9, <2>19
<1>2. IInv /\ LedgerExact /\ [Next]_vars => [GrantsWithinPlan]_vars
    <2> SUFFICES ASSUME IInv, LedgerExact, [Next]_vars
                 PROVE  [GrantsWithinPlan]_vars
        OBVIOUS
    <2>1. ASSUME \A c \in Callers : calling[c] = None => calling'[c] = None
          PROVE  GrantsWithinPlan
        BY <2>1 DEF GrantsWithinPlan
    <2>2. calling \in [Callers -> Call \cup {None}]
        BY DEF IInv, TypeOK
    <2>3. CASE UNCHANGED vars
        BY <2>3
    <2>4. ASSUME NEW u \in Users, Consult(u) PROVE GrantsWithinPlan
        BY <2>1, <2>4 DEF Consult
    <2>5. ASSUME NEW u \in Users, NEW amount \in Amounts, NEW plan \in Plans, RecordSpend(u, amount, plan)
          PROVE  GrantsWithinPlan
        BY <2>1, <2>5 DEF RecordSpend
    <2>6. ASSUME NEW c \in Callers, NEW amount \in Amounts,
                 ReconcileSpend(c, amount) \/ ReconcileUnknown(c, amount)
          PROVE  GrantsWithinPlan
        BY <2>1, <2>2, <2>6 DEF ReconcileSpend, ReconcileUnknown
    <2>7. ASSUME NEW c \in Callers, ReleaseReservation(c)
          PROVE  GrantsWithinPlan
        BY <2>1, <2>2, <2>7 DEF ReleaseReservation
    <2>8. ASSUME NewDay \/ Age PROVE GrantsWithinPlan
        BY <2>1, <2>8 DEF NewDay, Age
    <2> QED BY <1>1, <2>3, <2>4, <2>5, <2>6, <2>7, <2>8 DEF Next
<1> QED BY <1>2, Invariance, LedgerIsExact, PTL DEF Spec, GrantsFitThePlan
=============================================================================
