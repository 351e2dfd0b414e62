----------------------------- MODULE DataLemmas -----------------------------
(***************************************************************************)
(* Laws of the data the models compute with, for the proofs to cite: sums  *)
(* over finite sets (money in a ledger, money held by the requests in      *)
(* flight), which the models write with MapThenSumSet, a fold whose order  *)
(* is left to CHOOSE; sums along a sequence, which they write with         *)
(* FoldLeft; and lists whose elements are taken out and appended.          *)
(*                                                                         *)
(* The induction theorems of the library take an operator as a parameter,  *)
(* which no prover here can instantiate.  The inductions below go over a   *)
(* set instead: the set G of the cases that hold.                          *)
(***************************************************************************)
EXTENDS Lists, FiniteSetsExt, FiniteSetTheorems, WellFoundedInduction, TLAPS

SumOver(v, S) == MapThenSumSet(LAMBDA x : v[x], S)

-----------------------------------------------------------------------------
(* A nonempty set of naturals has a least element.                         *)
LEMMA LeastNatural ==
    ASSUME NEW T, T \subseteq Nat, T # {}
    PROVE  \E n \in T : \A m \in T : n <= m
<1> DEFINE Below == OpToRel(<, Nat)
<1>1. IsWellFoundedOn(Below, Nat)
    BY NatLessThanWellFounded, Zenon
<1>2. PICK n \in T : \A m \in T : ~ (<<m, n>> \in Below)
    <2> HIDE DEF Below
    <2> QED BY <1>1, WFMin
<1>3. \A m, k \in Nat : <<m, k>> \in Below <=> m < k
    BY DEF OpToRel
<1> HIDE DEF Below
<1>4. \A m \in T : ~ (m < n)
    BY <1>2, <1>3
<1> QED BY <1>4

(* Induction over the naturals.                                            *)
LEMMA NaturalInduction ==
    ASSUME NEW G, 0 \in G, \A n \in Nat : n \in G => n + 1 \in G
    PROVE  \A n \in Nat : n \in G
<1> DEFINE Bad == {n \in Nat : n \notin G}
<1> SUFFICES ASSUME Bad # {} PROVE FALSE
    OBVIOUS
<1>1. PICK n \in Bad : \A m \in Bad : n <= m
    <2>1. Bad \subseteq Nat
        OBVIOUS
    <2> HIDE DEF Bad
    <2> QED BY <2>1, LeastNatural
<1>2. n \in Nat /\ n # 0
    OBVIOUS
<1>3. n - 1 \in Nat /\ (n - 1) + 1 = n /\ n - 1 \notin Bad
    BY <1>1, <1>2
<1> QED BY <1>3

(* Max of a bounded set of naturals is its greatest element.               *)
LEMMA MaxIsGreatest ==
    ASSUME NEW n \in Nat, NEW T, T \subseteq 0..n, T # {}
    PROVE  Max(T) \in T /\ \A m \in T : m <= Max(T)
<1> DEFINE gaps == {n - m : m \in T}
<1>0. \A m \in T : m \in Nat /\ m <= n
    OBVIOUS
<1>1. PICK k \in gaps : \A j \in gaps : k <= j
    <2>1. gaps \subseteq Nat
        BY <1>0
    <2>2. gaps # {}
        OBVIOUS
    <2> HIDE DEF gaps
    <2> QED BY <2>1, <2>2, LeastNatural
<1>2. \A m \in T : n - k >= m /\ n - k \in T
    <2>1. PICK x \in T : k = n - x
        OBVIOUS
    <2>2. \A m \in T : k <= n - m
        BY <1>1
    <2> QED BY <1>0, <2>1, <2>2
<1>3. \E x \in T : \A y \in T : x >= y
    BY <1>2
<1>4. Max(T) \in T /\ \A y \in T : Max(T) >= y
    BY <1>3 DEF Max
<1> QED BY <1>4

(* Induction over the subsets of a finite set: when a subset is in G as    *)
(* soon as all its proper subsets are, every subset is.                    *)
LEMMA SubsetInduction ==
    ASSUME NEW S, IsFiniteSet(S), NEW G,
           \A T \in SUBSET S : (\A t \in SUBSET T : t # T => t \in G) => T \in G
    PROVE  \A T \in SUBSET S : T \in G
<1> DEFINE Bad == {T \in SUBSET S : T \notin G}
           Sizes == {Cardinality(T) : T \in Bad}
<1> SUFFICES ASSUME Bad # {} PROVE FALSE
    OBVIOUS
<1>1. \A T \in SUBSET S : IsFiniteSet(T) /\ Cardinality(T) \in Nat
    BY FS_Subset, FS_CardinalityType
<1>2. PICK n \in Sizes : \A m \in Sizes : n <= m
    <2>1. Sizes \subseteq Nat /\ Sizes # {}
        BY <1>1
    <2> QED BY <2>1, LeastNatural
<1>3. PICK T \in Bad : Cardinality(T) = n
    BY <1>2
<1>4. ASSUME NEW t \in SUBSET T, t # T
      PROVE  t \in G
    <2>1. Cardinality(t) < Cardinality(T)
        BY <1>1, <1>4, FS_Subset
    <2>2. Cardinality(t) \in Nat /\ Cardinality(T) \in Nat
        BY <1>1
    <2>3. t \notin Bad
        BY <1>2, <1>3, <2>1, <2>2
    <2> QED BY <2>3
<1> QED BY <1>3, <1>4

(* A nonempty finite set of integers has a greatest and a least element.   *)
LEMMA IntBounds ==
    ASSUME NEW T, T \subseteq Int, IsFiniteSet(T), T # {}
    PROVE  /\ Max(T) \in T /\ \A x \in T : x <= Max(T)
           /\ Min(T) \in T /\ \A x \in T : Min(T) <= x
<1> DEFINE Bounded(U) == /\ \E x \in U : \A y \in U : x >= y
                         /\ \E x \in U : \A y \in U : x <= y
           G == {U \in SUBSET T : U # {} => Bounded(U)}
<1>1. ASSUME NEW U \in SUBSET T, \A u \in SUBSET U : u # U => u \in G
      PROVE  U \in G
    <2> SUFFICES ASSUME U # {} PROVE Bounded(U)
        OBVIOUS
    <2>1. PICK z \in U : TRUE
        OBVIOUS
    <2>2. PICK V : V = U \ {z}
        OBVIOUS
    <2>3. V \in G /\ U = V \cup {z} /\ z \in Int /\ V \subseteq Int
        BY <1>1, <2>1, <2>2
    <2>4. CASE V = {}
        BY <2>3, <2>4
    <2>5. CASE V # {}
        <3>1. PICK x \in V, y \in V : \A v \in V : x >= v /\ y <= v
            BY <2>3, <2>5
        <3>2. PICK p : p = IF x >= z THEN x ELSE z
            OBVIOUS
        <3>3. PICK q : q = IF y <= z THEN y ELSE z
            OBVIOUS
        <3>4. p \in U /\ q \in U
            BY <2>3, <3>1, <3>2, <3>3
        <3>5. \A v \in U : p >= v /\ q <= v
            BY <2>3, <3>1, <3>2, <3>3
        <3> QED BY <3>4, <3>5
    <2> QED BY <2>4, <2>5
<1> HIDE DEF G
<1>2. T \in G
    BY <1>1, SubsetInduction
<1>3. Bounded(T)
    BY <1>2 DEF G
<1>4. Max(T) \in T /\ \A y \in T : Max(T) >= y
    BY <1>3 DEF Max
<1>5. Min(T) \in T /\ \A y \in T : Min(T) <= y
    BY <1>3 DEF Min
<1> QED BY <1>4, <1>5

(* The greater and the lesser of two.                                      *)
LEMMA PairBounds ==
    ASSUME NEW x \in Int, NEW y \in Int
    PROVE  /\ Max({x, y}) = IF x >= y THEN x ELSE y
           /\ Min({x, y}) = IF x <= y THEN x ELSE y
<1>1. IsFiniteSet({x})
    BY FS_Singleton
<1>2. IsFiniteSet({x} \cup {y})
    BY <1>1, FS_AddElement
<1>3. PICK T : T = {x, y}
    OBVIOUS
<1>4. T = {x} \cup {y} /\ T \subseteq Int /\ T # {}
    BY <1>3
<1>5. Max(T) \in T /\ Min(T) \in T /\ \A z \in T : z <= Max(T) /\ Min(T) <= z
    BY <1>2, <1>4, IntBounds
<1> QED BY <1>3, <1>5

-----------------------------------------------------------------------------
(* The fold as a recursion over the subsets of S.                          *)
Foremost(s) == CHOOSE x \in s : TRUE

Recursion(g, v, S) ==
    g = [s \in SUBSET S |-> IF s = {} THEN 0 ELSE v[Foremost(s)] + g[s \ {Foremost(s)}]]

(* Any two solutions of the recursion agree.                               *)
LEMMA RecursionUnique ==
    ASSUME NEW v, NEW S, IsFiniteSet(S), NEW g, NEW h,
           Recursion(g, v, S), Recursion(h, v, S)
    PROVE  \A T \in SUBSET S : g[T] = h[T]
<1> DEFINE G == {T \in SUBSET S : g[T] = h[T]}
<1>1. ASSUME NEW T \in SUBSET S, \A t \in SUBSET T : t # T => t \in G
      PROVE  T \in G
    <2>1. CASE T = {}
        BY <2>1 DEF Recursion
    <2>2. CASE T # {}
        <3>1. Foremost(T) \in T
            BY <2>2 DEF Foremost
        <3> DEFINE rest == T \ {Foremost(T)}
        <3>2. rest \in SUBSET T /\ rest # T /\ rest \in SUBSET S
            BY <3>1
        <3>3. g[rest] = h[rest]
            BY <1>1, <3>2
        <3>4. g[T] = v[Foremost(T)] + g[rest] /\ h[T] = v[Foremost(T)] + h[rest]
            BY <2>2 DEF Recursion
        <3> QED BY <3>3, <3>4
    <2> QED BY <2>1, <2>2
<1> HIDE DEF G
<1>2. \A T \in SUBSET S : T \in G
    BY <1>1, SubsetInduction
<1> QED BY <1>2 DEF G

(* Where the recursion has a solution, the sum is its value.               *)
LEMMA SumIsRecursion ==
    ASSUME NEW v, NEW S, \E g : Recursion(g, v, S)
    PROVE  \E g : Recursion(g, v, S) /\ SumOver(v, S) = g[S]
<1> DEFINE h == CHOOSE g : Recursion(g, v, S)
<1>1. Recursion(h, v, S)
    BY Zenon
<1>2. SumOver(v, S) = h[S]
    BY DEF SumOver, MapThenSumSet, MapThenFoldSet, Recursion, Foremost
<1> QED BY <1>1, <1>2

(* The recursion has a solution over every finite set.                     *)
LEMMA SumUnfolds ==
    ASSUME NEW v, NEW S, IsFiniteSet(S)
    PROVE  SumOver(v, S) = IF S = {} THEN 0 ELSE v[Foremost(S)] + SumOver(v, S \ {Foremost(S)})
<1> DEFINE Step(T) == IF T = {} THEN 0 ELSE v[Foremost(T)] + SumOver(v, T \ {Foremost(T)})
           G == {T \in SUBSET S : SumOver(v, T) = Step(T)}
<1>1. ASSUME NEW T \in SUBSET S, \A t \in SUBSET T : t # T => t \in G
      PROVE  T \in G
    <2> DEFINE g == [s \in SUBSET T |-> Step(s)]
    <2>1. \A s \in SUBSET T : s # {} => Foremost(s) \in s
        BY DEF Foremost
    <2>2. \A s \in SUBSET T : g[s] = Step(s)
        OBVIOUS
    <2>3. \A s \in SUBSET T : s # T => g[s] = SumOver(v, s)
        BY <1>1
    <2>4. \A s \in SUBSET T : s # {} => g[s \ {Foremost(s)}] = SumOver(v, s \ {Foremost(s)})
        <3> SUFFICES ASSUME NEW s \in SUBSET T, s # {}
                     PROVE  g[s \ {Foremost(s)}] = SumOver(v, s \ {Foremost(s)})
            OBVIOUS
        <3>1. s \ {Foremost(s)} \in SUBSET T /\ s \ {Foremost(s)} # T
            BY <2>1
        <3> QED BY <2>3, <3>1
    <2>5. g = [s \in SUBSET T |-> IF s = {} THEN 0 ELSE v[Foremost(s)] + g[s \ {Foremost(s)}]]
        BY <2>4
    <2>6. Recursion(g, v, T)
        BY <2>5 DEF Recursion
    <2> HIDE DEF g
    <2>7. PICK h : Recursion(h, v, T) /\ SumOver(v, T) = h[T]
        BY <2>6, SumIsRecursion
    <2>8. IsFiniteSet(T)
        BY FS_Subset
    <2>9. h[T] = g[T]
        BY <2>6, <2>7, <2>8, RecursionUnique
    <2> QED BY <2>2, <2>7, <2>9
<1> HIDE DEF G
<1>2. S \in G
    BY <1>1, SubsetInduction
<1> QED BY <1>2 DEF G

(* The empty sum.                                                          *)
LEMMA SumEmpty ==
    ASSUME NEW v
    PROVE  SumOver(v, {}) = 0
BY SumUnfolds, FS_EmptySet

-----------------------------------------------------------------------------
(* What the sums are used for: any element may be taken out first.         *)

(* A sum depends on the values inside its set only.                        *)
LEMMA SumAgrees ==
    ASSUME NEW S, IsFiniteSet(S), NEW v, NEW w, \A x \in S : v[x] = w[x]
    PROVE  SumOver(v, S) = SumOver(w, S)
<1> DEFINE G == {T \in SUBSET S : SumOver(v, T) = SumOver(w, T)}
<1>1. ASSUME NEW T \in SUBSET S, \A t \in SUBSET T : t # T => t \in G
      PROVE  T \in G
    <2>1. CASE T = {}
        BY <2>1, SumEmpty
    <2>2. CASE T # {}
        <3> DEFINE rest == T \ {Foremost(T)}
        <3>1. Foremost(T) \in T
            BY <2>2 DEF Foremost
        <3>2. rest \in SUBSET T /\ rest # T
            BY <3>1
        <3>3. SumOver(v, rest) = SumOver(w, rest)
            BY <1>1, <3>2
        <3>4. IsFiniteSet(T)
            BY FS_Subset
        <3>5. SumOver(v, T) = v[Foremost(T)] + SumOver(v, rest) /\ SumOver(w, T) = w[Foremost(T)] + SumOver(w, rest)
            BY <2>2, <3>4, SumUnfolds
        <3> QED BY <3>1, <3>3, <3>5
    <2> QED BY <2>1, <2>2
<1> HIDE DEF G
<1>2. S \in G
    BY <1>1, SubsetInduction
<1> QED BY <1>2 DEF G

(* A sum of integers is an integer.                                        *)
LEMMA SumInt ==
    ASSUME NEW S, IsFiniteSet(S), NEW v, \A x \in S : v[x] \in Int
    PROVE  SumOver(v, S) \in Int
<1> DEFINE G == {T \in SUBSET S : SumOver(v, T) \in Int}
<1>1. ASSUME NEW T \in SUBSET S, \A t \in SUBSET T : t # T => t \in G
      PROVE  T \in G
    <2>1. CASE T = {}
        BY <2>1, SumEmpty
    <2>2. CASE T # {}
        <3> DEFINE rest == T \ {Foremost(T)}
        <3>1. Foremost(T) \in T
            BY <2>2 DEF Foremost
        <3>2. SumOver(v, rest) \in Int
            BY <1>1, <3>1
        <3>3. SumOver(v, T) = v[Foremost(T)] + SumOver(v, rest)
            BY <2>2, FS_Subset, SumUnfolds
        <3> QED BY <3>1, <3>2, <3>3
    <2> QED BY <2>1, <2>2
<1> HIDE DEF G
<1>2. S \in G
    BY <1>1, SubsetInduction
<1> QED BY <1>2 DEF G

(* A sum of naturals is a natural.                                         *)
LEMMA SumNatural ==
    ASSUME NEW S, IsFiniteSet(S), NEW v, \A x \in S : v[x] \in Nat
    PROVE  SumOver(v, S) \in Nat
<1> DEFINE G == {T \in SUBSET S : SumOver(v, T) \in Nat}
<1>1. ASSUME NEW T \in SUBSET S, \A t \in SUBSET T : t # T => t \in G
      PROVE  T \in G
    <2>1. CASE T = {}
        BY <2>1, SumEmpty
    <2>2. CASE T # {}
        <3> DEFINE rest == T \ {Foremost(T)}
        <3>1. Foremost(T) \in T
            BY <2>2 DEF Foremost
        <3>2. SumOver(v, rest) \in Nat
            BY <1>1, <3>1
        <3>3. SumOver(v, T) = v[Foremost(T)] + SumOver(v, rest)
            BY <2>2, FS_Subset, SumUnfolds
        <3> QED BY <3>1, <3>2, <3>3
    <2> QED BY <2>1, <2>2
<1> HIDE DEF G
<1>2. S \in G
    BY <1>1, SubsetInduction
<1> QED BY <1>2 DEF G

(* Any element of the set can be taken out of the sum.                     *)
LEMMA SumTakes ==
    ASSUME NEW S, IsFiniteSet(S), NEW v, \A x \in S : v[x] \in Int
    PROVE  \A x \in S : SumOver(v, S) = v[x] + SumOver(v, S \ {x})
<1> DEFINE G == {T \in SUBSET S : \A x \in T : SumOver(v, T) = v[x] + SumOver(v, T \ {x})}
<1>1. ASSUME NEW T \in SUBSET S, \A t \in SUBSET T : t # T => t \in G
      PROVE  T \in G
    <2> SUFFICES ASSUME NEW x \in T
                 PROVE  SumOver(v, T) = v[x] + SumOver(v, T \ {x})
        OBVIOUS
    <2>1. IsFiniteSet(T)
        BY FS_Subset
    <2>2. PICK c \in T : c = Foremost(T)
        BY DEF Foremost
    <2>3. SumOver(v, T) = v[c] + SumOver(v, T \ {c})
        BY <2>1, <2>2, SumUnfolds
    <2>4. CASE x = c
        BY <2>3, <2>4
    <2>5. CASE x # c
        <3>1. SumOver(v, T \ {c}) = v[x] + SumOver(v, (T \ {c}) \ {x})
            <4>1. T \ {c} \in SUBSET T /\ T \ {c} # T /\ x \in T \ {c}
                BY <2>5
            <4> QED BY <1>1, <4>1
        <3>2. SumOver(v, T \ {x}) = v[c] + SumOver(v, (T \ {x}) \ {c})
            <4>1. T \ {x} \in SUBSET T /\ T \ {x} # T /\ c \in T \ {x}
                BY <2>5
            <4> QED BY <1>1, <4>1
        <3>3. (T \ {c}) \ {x} = (T \ {x}) \ {c}
            OBVIOUS
        <3>4. v[c] \in Int /\ v[x] \in Int
            OBVIOUS
        <3>5. PICK k \in Int : k = SumOver(v, (T \ {x}) \ {c})
            <4>1. IsFiniteSet((T \ {x}) \ {c})
                BY FS_Subset
            <4> QED BY <4>1, SumInt
        <3>6. SumOver(v, T) = v[c] + (v[x] + k) /\ SumOver(v, T \ {x}) = v[c] + k
            BY <2>3, <3>1, <3>2, <3>3, <3>5
        <3> QED BY <3>4, <3>6
    <2> QED BY <2>4, <2>5
<1> HIDE DEF G
<1>2. S \in G
    BY <1>1, SubsetInduction
<1> QED BY <1>2 DEF G

(* A sum with one element more.                                            *)
LEMMA SumAdds ==
    ASSUME NEW S, IsFiniteSet(S), NEW v, \A x \in S : v[x] \in Int,
           NEW x, x \notin S, v[x] \in Int
    PROVE  SumOver(v, S \cup {x}) = v[x] + SumOver(v, S)
<1>1. IsFiniteSet(S \cup {x})
    BY FS_AddElement
<1>2. (S \cup {x}) \ {x} = S
    OBVIOUS
<1>3. \A y \in S \cup {x} : v[y] \in Int
    OBVIOUS
<1> QED BY <1>1, <1>2, <1>3, SumTakes

(* A sum of nothing but zeros.                                             *)
LEMMA SumOfZeros ==
    ASSUME NEW S, IsFiniteSet(S), NEW v, \A x \in S : v[x] = 0
    PROVE  SumOver(v, S) = 0
<1> DEFINE G == {T \in SUBSET S : SumOver(v, T) = 0}
<1>1. ASSUME NEW T \in SUBSET S, \A t \in SUBSET T : t # T => t \in G
      PROVE  T \in G
    <2>1. CASE T = {}
        BY <2>1, SumEmpty
    <2>2. CASE T # {}
        <3> DEFINE rest == T \ {Foremost(T)}
        <3>1. Foremost(T) \in T
            BY <2>2 DEF Foremost
        <3>2. SumOver(v, rest) = 0
            BY <1>1, <3>1
        <3>3. SumOver(v, T) = v[Foremost(T)] + SumOver(v, rest)
            BY <2>2, FS_Subset, SumUnfolds
        <3> QED BY <3>1, <3>2, <3>3
    <2> QED BY <2>1, <2>2
<1> HIDE DEF G
<1>2. S \in G
    BY <1>1, SubsetInduction
<1> QED BY <1>2 DEF G

(* A subset sums to no more, when nothing is negative.                     *)
LEMMA SumGrows ==
    ASSUME NEW S, IsFiniteSet(S), NEW v, \A x \in S : v[x] \in Nat, NEW R, R \subseteq S
    PROVE  SumOver(v, R) <= SumOver(v, S)
<1> DEFINE G == {T \in SUBSET S : SumOver(v, R \cap T) <= SumOver(v, T)}
<1>1. ASSUME NEW T \in SUBSET S, \A t \in SUBSET T : t # T => t \in G
      PROVE  T \in G
    <2>1. CASE R \cap T = T
        <3>1. SumOver(v, T) \in Nat
            BY FS_Subset, SumNatural
        <3> QED BY <2>1, <3>1
    <2>2. CASE R \cap T # T
        <3>1. PICK x \in T : x \notin R
            BY <2>2
        <3>2. T \ {x} \in G
            BY <1>1
        <3>3. SumOver(v, R \cap T) <= SumOver(v, T \ {x})
            <4>1. R \cap (T \ {x}) = R \cap T
                BY <3>1
            <4> QED BY <3>2, <4>1
        <3>4. SumOver(v, T) = v[x] + SumOver(v, T \ {x})
            <4>1. IsFiniteSet(T)
                BY FS_Subset
            <4>2. \A y \in T : v[y] \in Int
                OBVIOUS
            <4> QED BY <4>1, <4>2, SumTakes
        <3>5. SumOver(v, T \ {x}) \in Nat /\ SumOver(v, R \cap T) \in Nat
            <4>1. IsFiniteSet(T \ {x}) /\ IsFiniteSet(R \cap T)
                BY FS_Subset
            <4> QED BY <4>1, SumNatural
        <3>6. v[x] \in Nat
            OBVIOUS
        <3> QED BY <3>3, <3>4, <3>5, <3>6
    <2> QED BY <2>1, <2>2
<1> HIDE DEF G
<1>2. S \in G
    BY <1>1, SubsetInduction
<1>3. R \cap S = R
    OBVIOUS
<1> QED BY <1>2, <1>3 DEF G

(* Values no smaller anywhere sum to no less.                              *)
LEMMA SumMonotonic ==
    ASSUME NEW S, IsFiniteSet(S), NEW v, NEW w,
           \A x \in S : v[x] \in Int /\ w[x] \in Int /\ v[x] <= w[x]
    PROVE  SumOver(v, S) <= SumOver(w, S)
<1> DEFINE G == {T \in SUBSET S : SumOver(v, T) <= SumOver(w, T)}
<1>1. ASSUME NEW T \in SUBSET S, \A t \in SUBSET T : t # T => t \in G
      PROVE  T \in G
    <2>1. CASE T = {}
        BY <2>1, SumEmpty
    <2>2. CASE T # {}
        <3>1. PICK c \in T : c = Foremost(T)
            BY <2>2 DEF Foremost
        <3> DEFINE rest == T \ {c}
        <3>2. SumOver(v, rest) <= SumOver(w, rest)
            BY <1>1
        <3>3. SumOver(v, T) = v[c] + SumOver(v, rest) /\ SumOver(w, T) = w[c] + SumOver(w, rest)
            BY <2>2, <3>1, FS_Subset, SumUnfolds
        <3>4. SumOver(v, rest) \in Int /\ SumOver(w, rest) \in Int
            <4>1. IsFiniteSet(rest) /\ \A x \in rest : v[x] \in Int /\ w[x] \in Int
                BY FS_Subset
            <4> QED BY <4>1, SumInt
        <3>5. v[c] \in Int /\ w[c] \in Int /\ v[c] <= w[c]
            OBVIOUS
        <3> QED BY <3>2, <3>3, <3>4, <3>5
    <2> QED BY <2>1, <2>2
<1> HIDE DEF G
<1>2. S \in G
    BY <1>1, SubsetInduction
<1> QED BY <1>2 DEF G

(* When one element's value changes, the sum changes by as much.           *)
LEMMA SumChanges ==
    ASSUME NEW S, IsFiniteSet(S), NEW v, NEW w, NEW x \in S,
           \A y \in S : v[y] \in Int /\ w[y] \in Int,
           \A y \in S \ {x} : v[y] = w[y]
    PROVE  SumOver(w, S) = SumOver(v, S) - v[x] + w[x]
<1>1. SumOver(v, S) = v[x] + SumOver(v, S \ {x}) /\ SumOver(w, S) = w[x] + SumOver(w, S \ {x})
    BY SumTakes
<1>2. IsFiniteSet(S \ {x})
    BY FS_Subset
<1>3. SumOver(v, S \ {x}) = SumOver(w, S \ {x})
    BY <1>2, SumAgrees
<1>4. SumOver(v, S \ {x}) \in Int
    BY <1>2, SumInt
<1>5. v[x] \in Int /\ w[x] \in Int
    OBVIOUS
<1> QED BY <1>1, <1>3, <1>4, <1>5

(* The sum over two sets that have nothing in common.                      *)
LEMMA SumJoins ==
    ASSUME NEW S, IsFiniteSet(S), NEW T, IsFiniteSet(T), S \cap T = {},
           NEW v, \A x \in S \cup T : v[x] \in Int
    PROVE  SumOver(v, S \cup T) = SumOver(v, S) + SumOver(v, T)
<1> DEFINE G == {R \in SUBSET T : SumOver(v, S \cup R) = SumOver(v, S) + SumOver(v, R)}
<1>1. SumOver(v, S) \in Int
    BY SumInt
<1>2. ASSUME NEW R \in SUBSET T, \A r \in SUBSET R : r # R => r \in G
      PROVE  R \in G
    <2>1. CASE R = {}
        <3>1. PICK U : U = S \cup R /\ U = S
            BY <2>1
        <3>2. SumOver(v, R) = 0
            BY <2>1, SumEmpty
        <3>3. SumOver(v, U) = SumOver(v, S) + SumOver(v, R)
            BY <1>1, <3>1, <3>2
        <3> QED BY <3>1, <3>3
    <2>2. CASE R # {}
        <3>1. PICK x \in R : TRUE
            BY <2>2
        <3>2. PICK r : r = R \ {x}
            OBVIOUS
        <3>3. r \in SUBSET R /\ r # R /\ x \notin r /\ R = r \cup {x}
            BY <3>1, <3>2
        <3>4. SumOver(v, S \cup r) = SumOver(v, S) + SumOver(v, r)
            BY <1>2, <3>3
        <3>5. IsFiniteSet(r) /\ IsFiniteSet(S \cup r)
            <4>1. IsFiniteSet(r)
                BY <3>3, FS_Subset
            <4> QED BY <4>1, FS_Union
        <3>6. v[x] \in Int /\ (\A y \in r : v[y] \in Int) /\ (\A y \in S \cup r : v[y] \in Int)
              /\ x \notin S \cup r
            BY <3>3
        <3>7. SumOver(v, r \cup {x}) = v[x] + SumOver(v, r)
            BY <3>3, <3>5, <3>6, SumAdds
        <3>8. SumOver(v, (S \cup r) \cup {x}) = v[x] + SumOver(v, S \cup r)
            BY <3>5, <3>6, SumAdds
        <3>9. SumOver(v, r) \in Int
            BY <3>5, <3>6, SumInt
        <3>10. PICK U : U = S \cup R /\ U = (S \cup r) \cup {x}
            BY <3>3
        <3>12. SumOver(v, R) = v[x] + SumOver(v, r)
            BY <3>3, <3>7
        <3>13. SumOver(v, U) = v[x] + SumOver(v, S \cup r)
            BY <3>8, <3>10
        <3>11. SumOver(v, U) = SumOver(v, S) + SumOver(v, R)
            BY <1>1, <3>4, <3>6, <3>9, <3>12, <3>13
        <3> QED BY <3>10, <3>11
    <2> QED BY <2>1, <2>2
<1> HIDE DEF G
<1>3. T \in G
    BY <1>2, SubsetInduction
<1> QED BY <1>3 DEF G

(* Renaming the elements, each to one of its own, keeps the sum.           *)
Renames(f, R, U, v, w) ==
    /\ \A i \in R : f[i] \in U /\ w[i] \in Int /\ v[f[i]] = w[i]
    /\ \A i, j \in R : f[i] = f[j] => i = j
    /\ \A u \in U : \E i \in R : f[i] = u

(* A sum does not depend on the names of its terms.                        *)
LEMMA SumRenames ==
    ASSUME NEW R, IsFiniteSet(R), NEW U, IsFiniteSet(U), NEW v, NEW w, NEW f,
           Renames(f, R, U, v, w)
    PROVE  SumOver(w, R) = SumOver(v, U)
<1> USE DEF Renames
<1> DEFINE Image(T) == {f[i] : i \in T}
           G == {T \in SUBSET R : SumOver(w, T) = SumOver(v, Image(T))}
<1>1. ASSUME NEW T \in SUBSET R, \A t \in SUBSET T : t # T => t \in G
      PROVE  T \in G
    <2>1. CASE T = {}
        BY <2>1, SumEmpty
    <2>2. CASE T # {}
        <3>1. PICK c \in T : TRUE
            BY <2>2
        <3>2. SumOver(w, T) = w[c] + SumOver(w, T \ {c})
            <4>1. IsFiniteSet(T)
                BY FS_Subset
            <4>2. \A i \in T : w[i] \in Int
                OBVIOUS
            <4> QED BY <4>1, <4>2, SumTakes
        <3>3. f[c] \in Image(T) /\ Image(T) \ {f[c]} = Image(T \ {c})
            OBVIOUS
        <3>4. PICK M : M = Image(T)
            OBVIOUS
        <3>5. SumOver(v, M) = v[f[c]] + SumOver(v, M \ {f[c]})
            <4>1. M \subseteq U
                BY <3>4
            <4>2. IsFiniteSet(M)
                BY <4>1, FS_Subset
            <4>3. \A u \in M : v[u] \in Int
                BY <3>4
            <4>4. f[c] \in M
                BY <3>3, <3>4
            <4> HIDE DEF Image
            <4> QED BY <4>2, <4>3, <4>4, SumTakes
        <3>6. SumOver(w, T \ {c}) = SumOver(v, Image(T \ {c}))
            BY <1>1
        <3> QED BY <3>2, <3>3, <3>4, <3>5, <3>6
    <2> QED BY <2>1, <2>2
<1> HIDE DEF G
<1>2. R \in G
    BY <1>1, SubsetInduction
<1>3. Image(R) = U
    OBVIOUS
<1> QED BY <1>2, <1>3 DEF G

(* Indices moved down by one carry their values along, as those of a       *)
(* sequence do when its head is dropped.                                   *)
LEMMA SumShifts ==
    ASSUME NEW R, IsFiniteSet(R), NEW U, IsFiniteSet(U), NEW v, NEW w,
           R \subseteq Int, U \subseteq Int,
           \A i \in R : i + 1 \in U /\ w[i] \in Int /\ v[i + 1] = w[i],
           \A u \in U : u - 1 \in R
    PROVE  SumOver(w, R) = SumOver(v, U)
<1>1. PICK f : f = [i \in R |-> i + 1]
    OBVIOUS
<1>2. \A i \in R : f[i] = i + 1 /\ i \in Int
    BY <1>1
<1>3. \A i \in R : f[i] \in U /\ w[i] \in Int /\ v[f[i]] = w[i]
    BY <1>2
<1>4. \A i, j \in R : f[i] = f[j] => i = j
    BY <1>2
<1>5. \A u \in U : \E i \in R : f[i] = u
    <2> SUFFICES ASSUME NEW u \in U PROVE f[u - 1] = u /\ u - 1 \in R
        OBVIOUS
    <2>1. u \in Int /\ u - 1 \in R /\ (u - 1) + 1 = u
        OBVIOUS
    <2> QED BY <1>2, <2>1
<1>6. Renames(f, R, U, v, w)
    BY <1>3, <1>4, <1>5 DEF Renames
<1> QED BY <1>6, SumRenames

-----------------------------------------------------------------------------
(* Lists: what their elements are, and how many.                           *)

(* A list with one entry more at its end.                                  *)
LEMMA AppendList ==
    ASSUME NEW S, NEW s \in Seq(S), NEW x \in S
    PROVE  /\ Append(s, x) \in Seq(S) /\ Len(Append(s, x)) = Len(s) + 1
           /\ ToSet(Append(s, x)) = ToSet(s) \cup {x}
           /\ IsInjective(s) /\ x \notin ToSet(s) => IsInjective(Append(s, x))
<1>1. /\ Append(s, x) \in Seq(S) /\ Len(Append(s, x)) = Len(s) + 1 /\ Len(s) \in Nat
      /\ \A i \in 1..Len(s) : Append(s, x)[i] = s[i]
      /\ Append(s, x)[Len(s) + 1] = x
      /\ DOMAIN s = 1..Len(s) /\ DOMAIN Append(s, x) = 1..Len(s) + 1
    OBVIOUS
<1>2. 1..Len(s) + 1 = (1..Len(s)) \cup {Len(s) + 1}
    BY <1>1
<1>3. PICK t : t = Append(s, x)
    OBVIOUS
<1>4. ToSet(t) = ToSet(s) \cup {x}
    BY <1>1, <1>2, <1>3 DEF ToSet
<1>5. ASSUME IsInjective(s), x \notin ToSet(s) PROVE IsInjective(t)
    <2>1. \A i \in 1..Len(s) : t[i] # x
        BY <1>1, <1>3, <1>5 DEF ToSet
    <2> QED BY <1>1, <1>2, <1>3, <1>5, <2>1 DEF IsInjective
<1> QED BY <1>1, <1>3, <1>4, <1>5

(* A list without its head.                                                *)
LEMMA TailList ==
    ASSUME NEW S, NEW s \in Seq(S), s # <<>>
    PROVE  /\ Tail(s) \in Seq(S) /\ Len(Tail(s)) = Len(s) - 1 /\ Head(s) \in S
           /\ ToSet(s) = {Head(s)} \cup ToSet(Tail(s))
           /\ IsInjective(s) => IsInjective(Tail(s)) /\ Head(s) \notin ToSet(Tail(s))
<1>1. PICK n \in Nat : n = Len(s) /\ n >= 1 /\ DOMAIN s = 1..n
    OBVIOUS
<1>2. PICK t : t = Tail(s)
    OBVIOUS
<1>9. t \in Seq(S) /\ Len(t) = n - 1 /\ \A i \in 1..n - 1 : t[i] = s[i + 1]
    BY <1>1, <1>2
<1>10. DOMAIN t = 1..n - 1
    BY <1>9
<1>3. Head(s) = s[1] /\ s[1] \in S
    OBVIOUS
<1>4. ToSet(s) = {Head(s)} \cup ToSet(t)
    <2>4. PICK h : h = Head(s)
        OBVIOUS
    <2>1. ASSUME NEW i \in 1..n PROVE i = 1 \/ (i - 1 \in 1..n - 1 /\ s[i] = t[i - 1])
        <3>1. i # 1 => i - 1 \in 1..n - 1 /\ (i - 1) + 1 = i
            BY <1>1
        <3> QED BY <1>9, <3>1
    <2>2. \A i \in 1..n - 1 : i + 1 \in 1..n
        BY <1>1
    <2>3. ToSet(s) = {s[i] : i \in 1..n} /\ ToSet(t) = {t[i] : i \in 1..n - 1} /\ 1 \in 1..n
        BY <1>1, <1>10 DEF ToSet
    <2>5. \A i \in 1..n - 1 : t[i] = s[i + 1]
        BY <1>9
    <2>6. h = s[1]
        BY <1>3, <2>4
    <2>7. {s[i] : i \in 1..n} = {h} \cup {t[i] : i \in 1..n - 1}
        <3>1. ASSUME NEW i \in 1..n PROVE s[i] \in {h} \cup {t[j] : j \in 1..n - 1}
            BY <2>1, <2>6
        <3>2. h \in {s[i] : i \in 1..n}
            BY <2>3, <2>6
        <3>3. ASSUME NEW i \in 1..n - 1 PROVE t[i] \in {s[j] : j \in 1..n}
            BY <2>2, <2>5
        <3> QED BY <3>1, <3>2, <3>3
    <2> QED BY <2>3, <2>4, <2>7
<1>5. ASSUME IsInjective(s) PROVE IsInjective(t) /\ Head(s) \notin ToSet(t)
    <2>1. \A i, j \in 1..n : s[i] = s[j] => i = j
        BY <1>1, <1>5 DEF IsInjective
    <2>2. \A i \in 1..n - 1 : i + 1 \in 1..n /\ i + 1 # 1 /\ i \in Int
        BY <1>1
    <2>3. ASSUME NEW i \in 1..n - 1, NEW j \in 1..n - 1, t[i] = t[j] PROVE i = j
        <3>1. i + 1 = j + 1
            BY <1>9, <2>1, <2>2, <2>3
        <3> QED BY <2>2, <3>1
    <2>4. \A i \in 1..n - 1 : t[i] # s[1]
        BY <1>1, <1>9, <2>1, <2>2
    <2> QED BY <1>9, <1>10, <1>3, <2>3, <2>4 DEF IsInjective, ToSet
<1> QED BY <1>1, <1>2, <1>3, <1>9, <1>4, <1>5

(* A list after another.                                                   *)
LEMMA ConcatList ==
    ASSUME NEW S, NEW s \in Seq(S), NEW t \in Seq(S)
    PROVE  /\ s \o t \in Seq(S) /\ Len(s \o t) = Len(s) + Len(t)
           /\ ToSet(s \o t) = ToSet(s) \cup ToSet(t)
           /\ IsInjective(s) /\ IsInjective(t) /\ ToSet(s) \cap ToSet(t) = {} => IsInjective(s \o t)
<1>1. PICK m \in Nat, n \in Nat : m = Len(s) /\ n = Len(t) /\ DOMAIN s = 1..m /\ DOMAIN t = 1..n
    OBVIOUS
<1>9. PICK u : u = s \o t
    OBVIOUS
<1>10. u \in Seq(S) /\ Len(u) = m + n
    BY <1>1, <1>9
<1>11. \A i \in 1..m + n : u[i] = IF i <= m THEN s[i] ELSE t[i - m]
    BY <1>1, <1>9
<1>12. DOMAIN u = 1..m + n
    BY <1>10
<1>2. /\ Len(u) = m + n /\ DOMAIN u = 1..m + n
      /\ \A i \in 1..m + n : u[i] = IF i <= m THEN s[i] ELSE t[i - m]
    BY <1>10, <1>11, <1>12
<1>3. \A i \in 1..m : i \in 1..m + n /\ i <= m
    BY <1>1
<1>4. \A i \in 1..n : i + m \in 1..m + n /\ ~ (i + m <= m) /\ (i + m) - m = i
    BY <1>1
<1>5. \A i \in 1..m + n : (i <= m /\ i \in 1..m) \/ (~ (i <= m) /\ i - m \in 1..n /\ (i - m) + m = i)
    BY <1>1
<1>6. ToSet(u) = ToSet(s) \cup ToSet(t)
    <2>1. ToSet(u) \subseteq ToSet(s) \cup ToSet(t)
        BY <1>1, <1>2, <1>5 DEF ToSet
    <2>2. ToSet(s) \subseteq ToSet(u)
        BY <1>1, <1>2, <1>3 DEF ToSet
    <2>3. ToSet(t) \subseteq ToSet(u)
        BY <1>1, <1>2, <1>4 DEF ToSet
    <2> QED BY <2>1, <2>2, <2>3
<1>7. ASSUME IsInjective(s), IsInjective(t), ToSet(s) \cap ToSet(t) = {} PROVE IsInjective(u)
    <2>1. \A i \in 1..m, j \in 1..n : s[i] # t[j]
        BY <1>1, <1>7 DEF ToSet
    <2>2. \A i, j \in 1..m : s[i] = s[j] => i = j
        BY <1>1, <1>7 DEF IsInjective
    <2>3. \A i, j \in 1..n : t[i] = t[j] => i = j
        BY <1>1, <1>7 DEF IsInjective
    <2>4. ASSUME NEW i \in 1..m + n, NEW j \in 1..m + n, u[i] = u[j] PROVE i = j
        <3>1. CASE i <= m /\ j <= m
            BY <1>2, <1>5, <2>2, <2>4, <3>1
        <3>2. CASE ~ (i <= m) /\ ~ (j <= m)
            <4>1. t[i - m] = t[j - m] /\ i - m \in 1..n /\ j - m \in 1..n
                BY <1>2, <1>5, <2>4, <3>2
            <4>2. i - m = j - m
                BY <2>3, <4>1
            <4> QED BY <1>1, <4>2
        <3>3. CASE ~ (i <= m <=> j <= m)
            BY <1>2, <1>5, <2>1, <2>4, <3>3
        <3> QED BY <3>1, <3>2, <3>3
    <2> QED BY <1>2, <2>4 DEF IsInjective
<1> QED BY <1>1, <1>9, <1>10, <1>6, <1>7

(* A list that names nothing twice has as many entries as it names things. *)
LEMMA DistinctList ==
    ASSUME NEW S, NEW s \in Seq(S)
    PROVE  /\ IsFiniteSet(ToSet(s)) /\ ToSet(s) \subseteq S
           /\ IsInjective(s) => Cardinality(ToSet(s)) = Len(s)
<1>1. PICK n \in Nat : n = Len(s) /\ DOMAIN s = 1..n
    OBVIOUS
<1> DEFINE Part(k) == {s[i] : i \in 1..k}
           P(k) == k <= n => /\ IsFiniteSet(Part(k))
                             /\ IsInjective(s) => Cardinality(Part(k)) = k
           G == {k \in Nat : P(k)}
<1>2. 0 \in G
    <2>1. Part(0) = {}
        OBVIOUS
    <2>2. P(0)
        BY <2>1, FS_EmptySet
    <2> HIDE DEF P
    <2> QED BY <2>2
<1>3. ASSUME NEW k \in Nat, k \in G PROVE k + 1 \in G
    <2>5. P(k) /\ (P(k + 1) => k + 1 \in G)
        BY <1>3
    <2> SUFFICES ASSUME k + 1 <= n
                 PROVE  /\ IsFiniteSet(Part(k + 1))
                        /\ IsInjective(s) => Cardinality(Part(k + 1)) = k + 1
        BY <2>5
    <2>1. Part(k + 1) = Part(k) \cup {s[k + 1]}
        <3>1. 1..k + 1 = (1..k) \cup {k + 1}
            OBVIOUS
        <3> QED BY <3>1
    <2>2. IsFiniteSet(Part(k)) /\ (IsInjective(s) => Cardinality(Part(k)) = k)
        BY <1>1, <2>5
    <2>3. IsInjective(s) => s[k + 1] \notin Part(k)
        <3>1. \A i \in 1..k : i \in 1..n /\ i # k + 1
            BY <1>1
        <3>2. k + 1 \in 1..n
            BY <1>1
        <3> QED BY <1>1, <3>1, <3>2 DEF IsInjective
    <2> HIDE DEF Part
    <2>6. PICK p, q, x : p = Part(k) /\ q = Part(k + 1) /\ x = s[k + 1]
        OBVIOUS
    <2>7. IsFiniteSet(q) /\ (x \notin p => Cardinality(q) = Cardinality(p) + 1)
        <3>1. IsFiniteSet(p) /\ q = p \cup {x}
            BY <2>1, <2>2, <2>6
        <3> QED BY <3>1, FS_AddElement
    <2> QED BY <2>2, <2>3, <2>6, <2>7
<1> HIDE DEF G
<1>4. n \in G
    BY <1>2, <1>3, NaturalInduction
<1>7. P(n)
    BY <1>4 DEF G
<1>5. ToSet(s) = Part(n)
    BY <1>1 DEF ToSet
<1>6. ToSet(s) \subseteq S
    BY <1>1 DEF ToSet
<1> QED BY <1>1, <1>7, <1>5, <1>6

(* The first entries of a list are among its entries, in their order.      *)
LEMMA PrefixList ==
    ASSUME NEW S, NEW s \in Seq(S), NEW k \in 0..Len(s)
    PROVE  /\ SubSeq(s, 1, k) \in Seq(S) /\ Len(SubSeq(s, 1, k)) = k
           /\ ToSet(SubSeq(s, 1, k)) \subseteq ToSet(s)
           /\ IsInjective(s) => IsInjective(SubSeq(s, 1, k))
<1>1. PICK n \in Nat : n = Len(s) /\ DOMAIN s = 1..n /\ k \in Nat /\ k <= n
    OBVIOUS
<1>2. PICK t : t = SubSeq(s, 1, k)
    OBVIOUS
<1>3. Len(t) = k /\ \A i \in 1..k : t[i] = s[i]
    BY <1>1, <1>2
<1>4. \A i \in 1..k : i \in 1..n /\ s[i] \in S
    BY <1>1
<1>5. t \in Seq(S)
    BY <1>1, <1>2, <1>4
<1>6. DOMAIN t = 1..k
    BY <1>3, <1>5
<1>7. ToSet(t) \subseteq ToSet(s)
    BY <1>1, <1>3, <1>4, <1>6 DEF ToSet
<1>8. IsInjective(s) => IsInjective(t)
    BY <1>1, <1>3, <1>4, <1>6 DEF IsInjective
<1> QED BY <1>2, <1>3, <1>5, <1>7, <1>8

(* A list of one entry, and of none.                                       *)
LEMMA ShortList ==
    ASSUME NEW S, NEW x \in S
    PROVE  /\ <<x>> \in Seq(S) /\ Len(<<x>>) = 1 /\ ToSet(<<x>>) = {x} /\ IsInjective(<<x>>)
           /\ <<>> \in Seq(S) /\ Len(<<>>) = 0 /\ ToSet(<<>>) = {} /\ IsInjective(<<>>)
<1>1. PICK t : t = <<x>>
    OBVIOUS
<1>2. t \in Seq(S) /\ Len(t) = 1 /\ DOMAIN t = {1} /\ t[1] = x
    BY <1>1
<1>3. ToSet(t) = {x} /\ IsInjective(t)
    BY <1>2 DEF ToSet, IsInjective
<1>4. <<>> \in Seq(S) /\ Len(<<>>) = 0 /\ ToSet(<<>>) = {} /\ IsInjective(<<>>)
    BY DEF ToSet, IsInjective
<1> QED BY <1>1, <1>2, <1>3, <1>4

(* Lists are appended to one another in any grouping; an empty one changes *)
(* nothing; and the head of a list may go to the end of the one before it. *)
LEMMA ConcatLaws ==
    ASSUME NEW S, NEW s \in Seq(S), NEW t \in Seq(S)
    PROVE  /\ s \o <<>> = s
           /\ \A u \in Seq(S) : (s \o t) \o u = s \o (t \o u)
           /\ \A x \in S : s \o Append(t, x) = Append(s \o t, x)
           /\ t # <<>> => s \o t = Append(s, Head(t)) \o Tail(t)
<1>1. Len(s) \in Nat /\ Len(t) \in Nat
    OBVIOUS
<1>2. s \o <<>> = s
    OBVIOUS
<1>3. ASSUME NEW u \in Seq(S)
      PROVE  (s \o t) \o u = s \o (t \o u)
    OBVIOUS
<1>4. ASSUME NEW x \in S
      PROVE  s \o Append(t, x) = Append(s \o t, x)
    OBVIOUS
<1>5. ASSUME t # <<>>
      PROVE  s \o t = Append(s, Head(t)) \o Tail(t)
    <2>1. Head(t) \in S /\ Tail(t) \in Seq(S) /\ Len(Tail(t)) = Len(t) - 1
        BY <1>5, TailList
    <2> QED BY <1>5, <2>1
<1> QED BY <1>2, <1>3, <1>4, <1>5

(* What a list begins with.                                                *)
LEMMA PrefixLaws ==
    ASSUME NEW S, NEW s \in Seq(S)
    PROVE  /\ IsPrefix(s, s)
           /\ \A t, u \in Seq(S) : IsPrefix(s, t) => IsPrefix(s, t \o u)
<1>1. IsPrefix(s, s)
    BY DEF IsPrefix
<1>2. ASSUME NEW t \in Seq(S), NEW u \in Seq(S), IsPrefix(s, t)
      PROVE  IsPrefix(s, t \o u)
    <2>1. Len(s) <= Len(t) /\ SubSeq(s, 1, Len(s)) = SubSeq(t, 1, Len(s))
        BY <1>2 DEF IsPrefix
    <2>2. Len(t \o u) = Len(t) + Len(u) /\ Len(s) \in Nat /\ Len(t) \in Nat /\ Len(u) \in Nat
        OBVIOUS
    <2>3. SubSeq(t \o u, 1, Len(s)) = SubSeq(t, 1, Len(s))
        BY <2>1, <2>2
    <2> QED BY <2>1, <2>2, <2>3 DEF IsPrefix
<1> QED BY <1>1, <1>2

(* The recursion of Without, over any list.                                *)
WithoutRecursion(f, s, gone) ==
    /\ f[0] = <<>>
    /\ \A i \in 1..Len(s) : f[i] = IF s[i] \in gone THEN f[i - 1] ELSE Append(f[i - 1], s[i])

(* Without is the last value of a function that satisfies its recursion.   *)
LEMMA WithoutUnfolds ==
    ASSUME NEW S, NEW s \in Seq(S), NEW gone
    PROVE  \E f : WithoutRecursion(f, s, gone) /\ Without(s, gone) = f[Len(s)]
<1>1. PICK n \in Nat : n = Len(s) /\ DOMAIN s = 1..n
    OBVIOUS
<1> DEFINE Kept(f, k) == f = [i \in 0..k |-> IF i = 0 THEN <<>>
                                            ELSE IF s[i] \in gone THEN f[i - 1]
                                            ELSE Append(f[i - 1], s[i])]
           E == {k \in Nat : \E f : Kept(f, k)}
<1>2. 0 \in E
    <2>1. PICK f : f = [i \in 0..0 |-> <<>>]
        OBVIOUS
    <2>2. Kept(f, 0)
        BY <2>1
    <2> QED BY <2>2
<1>3. ASSUME NEW k \in Nat, k \in E PROVE k + 1 \in E
    <2>1. PICK f : Kept(f, k)
        BY <1>3
    <2> DEFINE g == [i \in 0..k + 1 |-> IF i # k + 1 THEN f[i]
                                       ELSE IF s[k + 1] \in gone THEN f[k] ELSE Append(f[k], s[k + 1])]
    <2>2. \A i \in 0..k + 1 : i # k + 1 => i \in 0..k
        OBVIOUS
    <2>3. \A i \in 0..k : f[i] = IF i = 0 THEN <<>> ELSE IF s[i] \in gone THEN f[i - 1] ELSE Append(f[i - 1], s[i])
        BY <2>1
    <2>4. \A i \in 1..k + 1 : i - 1 \in 0..k + 1 /\ i - 1 # k + 1 /\ (i = k + 1 => i - 1 = k)
        OBVIOUS
    <2>5. \A i \in 1..k + 1 : g[i - 1] = f[i - 1]
        BY <2>4
    <2>6. ASSUME NEW i \in 0..k + 1
          PROVE  g[i] = IF i = 0 THEN <<>> ELSE IF s[i] \in gone THEN g[i - 1] ELSE Append(g[i - 1], s[i])
        <3>1. CASE i = 0
            BY <2>2, <2>3, <3>1
        <3>2. CASE i # 0 /\ i # k + 1
            BY <2>2, <2>3, <2>5, <3>2
        <3>3. CASE i = k + 1
            BY <2>4, <2>5, <3>3
        <3> QED BY <3>1, <3>2, <3>3
    <2>8. PICK h : h = g
        OBVIOUS
    <2>7. Kept(h, k + 1)
        BY <2>6, <2>8
    <2> HIDE DEF Kept
    <2> QED BY <2>7
<1> HIDE DEF E
<1>4. n \in E
    BY <1>2, <1>3, NaturalInduction
<1>5. PICK f : Kept(f, n) /\ Without(s, gone) = f[n]
    <2> DEFINE h == CHOOSE f : Kept(f, n)
    <2>1. Kept(h, n)
        BY <1>4, Zenon DEF E
    <2>2. Without(s, gone) = h[n]
        BY <1>1 DEF Without
    <2> QED BY <2>1, <2>2
<1>11. \A i \in 0..n : f[i] = IF i = 0 THEN <<>> ELSE IF s[i] \in gone THEN f[i - 1]
                                                  ELSE Append(f[i - 1], s[i])
    BY <1>5
<1>12. 0 \in 0..n /\ \A i \in 1..n : i \in 0..n /\ i # 0
    BY <1>1
<1>6. /\ f[0] = <<>>
      /\ \A i \in 1..n : f[i] = IF s[i] \in gone THEN f[i - 1] ELSE Append(f[i - 1], s[i])
    BY <1>11, <1>12
<1> QED BY <1>1, <1>5, <1>6 DEF WithoutRecursion

(* What is appended is taken out alone: of two sets that take the same out *)
(* of a list, the first takes from it what the second does, and then the   *)
(* last element or not.                                                    *)
LEMMA WithoutAppends ==
    ASSUME NEW S, NEW s \in Seq(S), NEW x \in S, NEW gone, NEW less,
           \A y \in ToSet(s) : y \in gone <=> y \in less
    PROVE  Without(Append(s, x), gone) =
               IF x \in gone THEN Without(s, less) ELSE Append(Without(s, less), x)
<1>1. PICK n \in Nat : n = Len(s) /\ DOMAIN s = 1..n
    OBVIOUS
<1>2. PICK t : t = Append(s, x)
    OBVIOUS
<1>3. t \in Seq(S) /\ Len(t) = n + 1 /\ t[n + 1] = x /\ \A i \in 1..n : t[i] = s[i]
    BY <1>1, <1>2
<1>4. PICK f : WithoutRecursion(f, t, gone) /\ Without(t, gone) = f[n + 1]
    BY <1>3, WithoutUnfolds
<1>5. PICK g : WithoutRecursion(g, s, less) /\ Without(s, less) = g[n]
    BY <1>1, WithoutUnfolds
<1>6. /\ f[0] = <<>>
      /\ \A i \in 1..n + 1 : f[i] = IF t[i] \in gone THEN f[i - 1] ELSE Append(f[i - 1], t[i])
    BY <1>3, <1>4 DEF WithoutRecursion
<1>7. /\ g[0] = <<>>
      /\ \A i \in 1..n : g[i] = IF s[i] \in less THEN g[i - 1] ELSE Append(g[i - 1], s[i])
    BY <1>1, <1>5 DEF WithoutRecursion
<1>8. \A i \in 1..n : s[i] \in gone <=> s[i] \in less
    BY <1>1 DEF ToSet
<1> DEFINE G == {k \in Nat : k <= n => f[k] = g[k]}
<1>9. 0 \in G
    BY <1>6, <1>7
<1>10. ASSUME NEW k \in Nat, k \in G PROVE k + 1 \in G
    <2> SUFFICES ASSUME k + 1 <= n PROVE f[k + 1] = g[k + 1]
        OBVIOUS
    <2>1. k + 1 \in 1..n /\ k + 1 \in 1..n + 1 /\ (k + 1) - 1 = k /\ f[k] = g[k]
        BY <1>1, <1>10
    <2>2. f[k + 1] = IF t[k + 1] \in gone THEN f[k] ELSE Append(f[k], t[k + 1])
        BY <1>6, <2>1
    <2>3. g[k + 1] = IF s[k + 1] \in less THEN g[k] ELSE Append(g[k], s[k + 1])
        BY <1>7, <2>1
    <2>4. t[k + 1] = s[k + 1] /\ (s[k + 1] \in gone <=> s[k + 1] \in less)
        BY <1>3, <1>8, <2>1
    <2> QED BY <2>1, <2>2, <2>3, <2>4
<1> HIDE DEF G
<1>11. n \in G
    BY <1>9, <1>10, NaturalInduction
<1>12. f[n] = g[n]
    BY <1>1, <1>11 DEF G
<1>13. n + 1 \in 1..n + 1 /\ (n + 1) - 1 = n
    BY <1>1
<1>14. f[n + 1] = IF x \in gone THEN f[n] ELSE Append(f[n], x)
    BY <1>3, <1>6, <1>13
<1> QED BY <1>2, <1>4, <1>5, <1>12, <1>14


(* Without takes out what it is told to, and nothing else.                 *)
LEMMA WithoutList ==
    ASSUME NEW S, NEW s \in Seq(S), NEW gone
    PROVE  /\ Without(s, gone) \in Seq(S)
           /\ ToSet(Without(s, gone)) = ToSet(s) \ gone
           /\ Len(Without(s, gone)) <= Len(s)
           /\ IsInjective(s) => IsInjective(Without(s, gone))
<1>1. PICK n \in Nat : n = Len(s) /\ DOMAIN s = 1..n
    OBVIOUS
<1>5. PICK f : WithoutRecursion(f, s, gone) /\ Without(s, gone) = f[n]
    BY <1>1, WithoutUnfolds
<1>6. /\ f[0] = <<>>
      /\ \A i \in 1..n : f[i] = IF s[i] \in gone THEN f[i - 1] ELSE Append(f[i - 1], s[i])
    BY <1>1, <1>5 DEF WithoutRecursion
<1> DEFINE Part(k) == {s[i] : i \in 1..k}
           P(k) == k <= n => /\ f[k] \in Seq(S) /\ ToSet(f[k]) = Part(k) \ gone
                             /\ Len(f[k]) <= k
                             /\ IsInjective(s) => IsInjective(f[k])
           G == {k \in Nat : P(k)}
<1>7. 0 \in G
    <2>1. Part(0) = {}
        OBVIOUS
    <2>2. <<>> \in Seq(S) /\ ToSet(<<>>) = {} /\ Len(<<>>) = 0 /\ IsInjective(<<>>)
        BY DEF ToSet, IsInjective
    <2>3. P(0)
        BY <1>6, <2>1, <2>2
    <2> HIDE DEF P
    <2> QED BY <2>3
<1>8. ASSUME NEW k \in Nat, k \in G PROVE k + 1 \in G
    <2>10. P(k) /\ (P(k + 1) => k + 1 \in G)
        BY <1>8
    <2> SUFFICES ASSUME k + 1 <= n
                 PROVE  /\ f[k + 1] \in Seq(S) /\ ToSet(f[k + 1]) = Part(k + 1) \ gone
                        /\ Len(f[k + 1]) <= k + 1
                        /\ IsInjective(s) => IsInjective(f[k + 1])
        BY <2>10
    <2>1. Part(k + 1) = Part(k) \cup {s[k + 1]}
        <3>1. 1..k + 1 = (1..k) \cup {k + 1}
            OBVIOUS
        <3> QED BY <3>1
    <2>2. /\ f[k] \in Seq(S) /\ ToSet(f[k]) = Part(k) \ gone /\ Len(f[k]) <= k
          /\ IsInjective(s) => IsInjective(f[k])
        BY <1>1, <2>10
    <2>3. k + 1 \in 1..n /\ (k + 1) - 1 = k
        BY <1>1
    <2>4. f[k + 1] = IF s[k + 1] \in gone THEN f[k] ELSE Append(f[k], s[k + 1])
        BY <1>6, <2>3
    <2>5. s[k + 1] \in S
        BY <1>1, <2>3
    <2>6. IsInjective(s) => s[k + 1] \notin Part(k)
        <3>1. \A i \in 1..k : i \in 1..n /\ i # k + 1
            BY <1>1
        <3> QED BY <1>1, <2>3, <3>1 DEF IsInjective
    <2>7. Len(f[k]) \in Nat
        BY <2>2
    <2> HIDE DEF Part
    <2>8. CASE s[k + 1] \in gone
        BY <2>1, <2>2, <2>4, <2>7, <2>8
    <2>9. CASE s[k + 1] \notin gone
        <3>1. PICK t, x : t = f[k] /\ x = s[k + 1] /\ f[k + 1] = Append(t, x)
            BY <2>4, <2>9
        <3>2. /\ Append(t, x) \in Seq(S) /\ Len(Append(t, x)) = Len(t) + 1
              /\ ToSet(Append(t, x)) = ToSet(t) \cup {x}
              /\ IsInjective(t) /\ x \notin ToSet(t) => IsInjective(Append(t, x))
            BY <2>2, <2>5, <3>1, AppendList
        <3> QED BY <2>1, <2>2, <2>6, <2>7, <2>9, <3>1, <3>2
    <2> QED BY <2>8, <2>9
<1> HIDE DEF G
<1>9. n \in G
    BY <1>7, <1>8, NaturalInduction
<1>13. P(n)
    BY <1>9 DEF G
<1>10. Part(n) = ToSet(s)
    BY <1>1 DEF ToSet
<1> QED BY <1>1, <1>5, <1>13, <1>10

(* Taking out what is not there leaves the list as it is.                  *)
LEMMA WithoutNone ==
    ASSUME NEW S, NEW s \in Seq(S), NEW gone, ToSet(s) \cap gone = {}
    PROVE  Without(s, gone) = s
<1>1. PICK n \in Nat : n = Len(s) /\ DOMAIN s = 1..n
    OBVIOUS
<1>2. PICK f : WithoutRecursion(f, s, gone) /\ Without(s, gone) = f[n]
    BY <1>1, WithoutUnfolds
<1>3. f[0] = <<>> /\ \A i \in 1..n : f[i] = Append(f[i - 1], s[i]) /\ s[i] \in S
    <2>1. \A i \in 1..n : s[i] \notin gone /\ s[i] \in S
        BY <1>1 DEF ToSet
    <2> QED BY <1>1, <1>2, <2>1 DEF WithoutRecursion
<1> DEFINE P(k) == k <= n => f[k] \in Seq(S) /\ Len(f[k]) = k /\ \A i \in 1..k : f[k][i] = s[i]
           G == {k \in Nat : P(k)}
<1>4. 0 \in G
    <2>1. <<>> \in Seq(S) /\ Len(<<>>) = 0
        OBVIOUS
    <2>2. P(0)
        BY <1>3, <2>1
    <2> HIDE DEF P
    <2> QED BY <2>2
<1>5. ASSUME NEW k \in Nat, k \in G PROVE k + 1 \in G
    <2>1. P(k) /\ (P(k + 1) => k + 1 \in G)
        BY <1>5
    <2> SUFFICES ASSUME k + 1 <= n
                 PROVE  /\ f[k + 1] \in Seq(S) /\ Len(f[k + 1]) = k + 1
                        /\ \A i \in 1..k + 1 : f[k + 1][i] = s[i]
        BY <2>1
    <2>2. f[k] \in Seq(S) /\ Len(f[k]) = k /\ \A i \in 1..k : f[k][i] = s[i]
        BY <1>1, <2>1
    <2>3. k + 1 \in 1..n /\ (k + 1) - 1 = k
        BY <1>1
    <2>4. PICK t, x : t = f[k] /\ x = s[k + 1] /\ f[k + 1] = Append(t, x) /\ x \in S
        BY <1>3, <2>3
    <2>5. t \in Seq(S) /\ Len(t) = k /\ \A i \in 1..k : t[i] = s[i]
        BY <2>2, <2>4
    <2>6. /\ Append(t, x) \in Seq(S) /\ Len(Append(t, x)) = k + 1
          /\ \A i \in 1..k : Append(t, x)[i] = t[i]
          /\ Append(t, x)[k + 1] = x
        BY <2>4, <2>5
    <2>7. \A i \in 1..k + 1 : i \in 1..k \/ i = k + 1
        OBVIOUS
    <2> QED BY <2>4, <2>5, <2>6, <2>7
<1> HIDE DEF G
<1>6. n \in G
    BY <1>4, <1>5, NaturalInduction
<1>7. P(n)
    BY <1>6 DEF G
<1>8. PICK t : t = f[n]
    OBVIOUS
<1>9. t \in Seq(S) /\ Len(t) = n /\ \A i \in 1..n : t[i] = s[i]
    BY <1>1, <1>7, <1>8
<1>10. t = s
    BY <1>1, <1>9
<1> QED BY <1>2, <1>8, <1>10

-----------------------------------------------------------------------------
(* Sums along a list, which FoldLeft takes from the last entry down.       *)
SumAlong(v, s) == FoldLeft(LAMBDA sum, m : sum + v[m], 0, s)

AlongRecursion(g, v, s) ==
    g = [T \in SUBSET DOMAIN s |-> IF T = {} THEN 0 ELSE g[T \ {Max(T)}] + v[s[Max(T)]]]

(* Where its recursion has a solution, the fold is its value.              *)
LEMMA AlongIsRecursion ==
    ASSUME NEW v, NEW s, \E g : AlongRecursion(g, v, s)
    PROVE  \E g : AlongRecursion(g, v, s) /\ SumAlong(v, s) = g[DOMAIN s]
<1> DEFINE h == CHOOSE g : AlongRecursion(g, v, s)
<1>1. AlongRecursion(h, v, s)
    BY Zenon
<1>2. SumAlong(v, s) = h[DOMAIN s]
    BY DEF SumAlong, FoldLeft, MapThenFoldSet, AlongRecursion
<1> QED BY <1>1, <1>2

(* The sum along a list is the sum over its indices, in any order.         *)
LEMMA AlongIsSum ==
    ASSUME NEW S, NEW s \in Seq(S), NEW v, \A x \in S : v[x] \in Int
    PROVE  SumAlong(v, s) = SumOver([i \in 1..Len(s) |-> v[s[i]]], 1..Len(s))
<1>1. PICK n \in Nat : n = Len(s) /\ DOMAIN s = 1..n
    OBVIOUS
<1>2. PICK D : D = 1..n
    OBVIOUS
<1>3. PICK w : w = [i \in D |-> v[s[i]]]
    OBVIOUS
<1>4. IsFiniteSet(D) /\ \A i \in D : w[i] = v[s[i]] /\ w[i] \in Int
    <2>1. IsFiniteSet(D)
        BY <1>2, FS_Interval
    <2>2. \A i \in D : s[i] \in S
        BY <1>1, <1>2
    <2> QED BY <1>3, <2>1, <2>2
<1>5. \A T \in SUBSET D : T # {} => Max(T) \in T
    <2>1. \A T \in SUBSET D : T \subseteq 0..n
        BY <1>2
    <2> QED BY <2>1, MaxIsGreatest
<1>6. \A T \in SUBSET D : T # {} => SumOver(w, T) = SumOver(w, T \ {Max(T)}) + v[s[Max(T)]]
    <2> SUFFICES ASSUME NEW T \in SUBSET D, T # {}
                 PROVE  SumOver(w, T) = SumOver(w, T \ {Max(T)}) + v[s[Max(T)]]
        OBVIOUS
    <2>1. PICK x \in T : x = Max(T)
        BY <1>5
    <2>2. IsFiniteSet(T) /\ IsFiniteSet(T \ {x})
        BY <1>4, FS_Subset
    <2>3. \A y \in T : w[y] \in Int
        BY <1>4
    <2>4. SumOver(w, T) = w[x] + SumOver(w, T \ {x})
        BY <2>2, <2>3, SumTakes
    <2>5. SumOver(w, T \ {x}) \in Int
        BY <2>2, <2>3, SumInt
    <2> QED BY <1>4, <2>1, <2>4, <2>5
<1>7. PICK g : g = [T \in SUBSET D |-> SumOver(w, T)]
    OBVIOUS
<1>8. g = [T \in SUBSET D |-> IF T = {} THEN 0 ELSE g[T \ {Max(T)}] + v[s[Max(T)]]]
    <2>1. SumOver(w, {}) = 0
        BY SumEmpty
    <2>2. \A T \in SUBSET D : g[T] = SumOver(w, T) /\ g[T \ {Max(T)}] = SumOver(w, T \ {Max(T)})
        BY <1>7
    <2>3. \A T \in SUBSET D : g[T] = IF T = {} THEN 0 ELSE g[T \ {Max(T)}] + v[s[Max(T)]]
        BY <1>6, <2>1, <2>2
    <2> QED BY <1>7, <2>3
<1>9. D = DOMAIN s
    BY <1>1, <1>2
<1>10. AlongRecursion(g, v, s)
    BY <1>8, <1>9 DEF AlongRecursion
<1>11. PICK h : AlongRecursion(h, v, s) /\ SumAlong(v, s) = h[D]
    BY <1>9, <1>10, AlongIsRecursion
<1> DEFINE G == {T \in SUBSET D : h[T] = g[T]}
<1>12. ASSUME NEW T \in SUBSET D, \A t \in SUBSET T : t # T => t \in G
       PROVE  T \in G
    <2>1. h[T] = IF T = {} THEN 0 ELSE h[T \ {Max(T)}] + v[s[Max(T)]]
        BY <1>9, <1>11 DEF AlongRecursion
    <2>2. g[T] = IF T = {} THEN 0 ELSE g[T \ {Max(T)}] + v[s[Max(T)]]
        BY <1>9, <1>10 DEF AlongRecursion
    <2>3. T # {} => h[T \ {Max(T)}] = g[T \ {Max(T)}]
        <3> SUFFICES ASSUME T # {} PROVE h[T \ {Max(T)}] = g[T \ {Max(T)}]
            OBVIOUS
        <3>1. T \ {Max(T)} \in SUBSET T /\ T \ {Max(T)} # T
            BY <1>5
        <3> QED BY <1>12, <3>1
    <2> QED BY <2>1, <2>2, <2>3
<1> HIDE DEF G
<1>13. \A T \in SUBSET D : T \in G
    BY <1>4, <1>12, SubsetInduction
<1>14. h[D] = g[D] /\ g[D] = SumOver(w, D)
    BY <1>7, <1>13 DEF G
<1> QED BY <1>1, <1>2, <1>3, <1>11, <1>14

(* Its head can be taken out of a sum, and a sum of naturals is a natural. *)
LEMMA AlongList ==
    ASSUME NEW S, NEW s \in Seq(S), NEW v, \A x \in S : v[x] \in Nat
    PROVE  /\ SumAlong(v, s) \in Nat
           /\ s # <<>> => SumAlong(v, s) = v[Head(s)] + SumAlong(v, Tail(s))
<1>1. PICK n \in Nat : n = Len(s) /\ DOMAIN s = 1..n
    OBVIOUS
<1>2. PICK D, w : D = 1..n /\ w = [i \in D |-> v[s[i]]]
    OBVIOUS
<1>3. IsFiniteSet(D) /\ \A i \in D : w[i] = v[s[i]] /\ w[i] \in Nat
    <2>1. IsFiniteSet(D)
        BY <1>2, FS_Interval
    <2>2. \A i \in D : s[i] \in S
        BY <1>1, <1>2
    <2> QED BY <1>2, <2>1, <2>2
<1>4. SumAlong(v, s) = SumOver(w, D)
    BY <1>1, <1>2, AlongIsSum
<1>5. SumAlong(v, s) \in Nat
    BY <1>3, <1>4, SumNatural
<1>6. ASSUME s # <<>> PROVE SumAlong(v, s) = v[Head(s)] + SumAlong(v, Tail(s))
    <2>1. n >= 1 /\ Head(s) = s[1] /\ n - 1 \in Nat
        BY <1>1, <1>6
    <2>2. PICK t : t = Tail(s)
        OBVIOUS
    <2>3. t \in Seq(S) /\ Len(t) = n - 1 /\ \A i \in 1..n - 1 : t[i] = s[i + 1]
        BY <1>1, <1>6, <2>2
    <2>4. PICK R, z : R = 1..n - 1 /\ z = [i \in R |-> v[t[i]]]
        OBVIOUS
    <2>5. SumAlong(v, t) = SumOver(z, R)
        <3>1. SumAlong(v, t) = SumOver([i \in 1..Len(t) |-> v[t[i]]], 1..Len(t))
            BY <2>3, AlongIsSum
        <3> QED BY <2>3, <2>4, <3>1
    <2>6. SumOver(w, D) = w[1] + SumOver(w, D \ {1})
        <3>1. 1 \in D /\ \A i \in D : w[i] \in Int
            BY <1>2, <1>3, <2>1
        <3> QED BY <1>3, <3>1, SumTakes
    <2>7. SumOver(z, R) = SumOver(w, D \ {1})
        <3>1. IsFiniteSet(R) /\ IsFiniteSet(D \ {1}) /\ R \subseteq Int /\ D \ {1} \subseteq Int
            <4>1. IsFiniteSet(R)
                BY <2>1, <2>4, FS_Interval
            <4>2. IsFiniteSet(D \ {1})
                BY <1>3, FS_Subset
            <4> QED BY <1>2, <2>4, <4>1, <4>2
        <3>2. \A i \in R : i + 1 \in D \ {1} /\ i \in 1..n - 1
            BY <1>2, <2>1, <2>4
        <3>3. \A i \in R : z[i] = v[t[i]] /\ t[i] = s[i + 1]
            BY <2>3, <2>4, <3>2
        <3>4. \A i \in R : z[i] \in Int /\ w[i + 1] = z[i]
            BY <1>3, <3>2, <3>3
        <3>5. \A u \in D \ {1} : u - 1 \in R
            BY <1>2, <2>1, <2>4
        <3>6. PICK E : E = D \ {1}
            OBVIOUS
        <3>7. /\ IsFiniteSet(R) /\ IsFiniteSet(E) /\ R \subseteq Int /\ E \subseteq Int
              /\ \A i \in R : i + 1 \in E /\ z[i] \in Int /\ w[i + 1] = z[i]
              /\ \A u \in E : u - 1 \in R
            BY <3>1, <3>2, <3>4, <3>5, <3>6
        <3>8. SumOver(z, R) = SumOver(w, E)
            BY <3>7, SumShifts
        <3> QED BY <3>6, <3>8
    <2>8. w[1] = v[Head(s)]
        BY <1>2, <1>3, <2>1
    <2> QED BY <1>4, <2>2, <2>5, <2>6, <2>7, <2>8
<1> QED BY <1>5, <1>6

-----------------------------------------------------------------------------
(* Counting along a list: how many of its entries are in a set.            *)
HowMany(s, V) == Cardinality({i \in DOMAIN s : s[i] \in V})

(* How many of a list are in a set: all, none, or as many as in a set that *)
(* is the same for the list.                                               *)
LEMMA CountLaws ==
    ASSUME NEW S, NEW s \in Seq(S), NEW V
    PROVE  /\ HowMany(s, V) \in Nat
           /\ ToSet(s) \subseteq V => HowMany(s, V) = Len(s)
           /\ ToSet(s) \cap V = {} => HowMany(s, V) = 0
           /\ \A W : ToSet(s) \cap V = ToSet(s) \cap W => HowMany(s, V) = HowMany(s, W)
<1>1. PICK n \in Nat : n = Len(s) /\ DOMAIN s = 1..n
    OBVIOUS
<1>2. \A i \in 1..n : s[i] \in ToSet(s)
    BY <1>1 DEF ToSet
<1>3. PICK z \in Int : z = 1
    OBVIOUS
<1>4. IsFiniteSet(z..n) /\ Cardinality(z..n) = IF n < z THEN 0 ELSE (n - z) + 1
    BY <1>3, FS_Interval
<1>5. IsFiniteSet(1..n) /\ Cardinality(1..n) = n
    BY <1>3, <1>4
<1>6. PICK I : I = {i \in 1..n : s[i] \in V}
    OBVIOUS
<1>7. HowMany(s, V) = Cardinality(I)
    BY <1>1, <1>6 DEF HowMany
<1>8. IsFiniteSet(I)
    BY <1>5, <1>6, FS_Subset
<1>9. Cardinality(I) \in Nat
    BY <1>8, FS_CardinalityType
<1>10. ASSUME ToSet(s) \subseteq V PROVE Cardinality(I) = n
    <2>1. I = 1..n
        BY <1>2, <1>6, <1>10
    <2> QED BY <1>5, <2>1
<1>11. ASSUME ToSet(s) \cap V = {} PROVE Cardinality(I) = 0
    <2>1. I = {}
        BY <1>2, <1>6, <1>11
    <2> QED BY <2>1, FS_EmptySet
<1>12. ASSUME NEW W, ToSet(s) \cap V = ToSet(s) \cap W PROVE HowMany(s, V) = HowMany(s, W)
    <2>1. \A i \in DOMAIN s : s[i] \in V <=> s[i] \in W
        BY <1>1, <1>2, <1>12
    <2>2. {i \in DOMAIN s : s[i] \in V} = {i \in DOMAIN s : s[i] \in W}
        BY <2>1
    <2> QED BY <2>2 DEF HowMany
<1> QED BY <1>1, <1>7, <1>9, <1>10, <1>11, <1>12

(* One more element counts if it is in the set.                            *)
LEMMA CountAppends ==
    ASSUME NEW S, NEW s \in Seq(S), NEW x \in S, NEW V
    PROVE  HowMany(Append(s, x), V) = HowMany(s, V) + IF x \in V THEN 1 ELSE 0
<1>1. PICK n \in Nat : n = Len(s) /\ DOMAIN s = 1..n
    OBVIOUS
<1>2. PICK t : t = Append(s, x)
    OBVIOUS
<1>3. DOMAIN t = 1..n + 1 /\ t[n + 1] = x /\ \A i \in 1..n : t[i] = s[i]
    BY <1>1, <1>2
<1>4. PICK I, J : I = {i \in DOMAIN s : s[i] \in V} /\ J = {i \in DOMAIN t : t[i] \in V}
    OBVIOUS
<1>5. IsFiniteSet(I) /\ Cardinality(I) \in Nat
    <2>1. PICK z \in Int : z = 1
        OBVIOUS
    <2>2. IsFiniteSet(z..n)
        BY FS_Interval
    <2>3. I \subseteq z..n
        BY <1>1, <1>4, <2>1
    <2> QED BY <2>2, <2>3, FS_Subset, FS_CardinalityType
<1>6. CASE x \in V
    <2>1. J = I \cup {n + 1} /\ n + 1 \notin I
        BY <1>1, <1>3, <1>4, <1>6
    <2>2. Cardinality(I \cup {n + 1}) = Cardinality(I) + 1
        BY <1>5, <2>1, FS_AddElement
    <2>3. HowMany(Append(s, x), V) = Cardinality(J) /\ HowMany(s, V) = Cardinality(I)
        BY <1>2, <1>4 DEF HowMany
    <2> QED BY <1>6, <2>1, <2>2, <2>3
<1>7. CASE x \notin V
    <2>1. J = I
        BY <1>1, <1>3, <1>4, <1>7
    <2>2. HowMany(Append(s, x), V) = Cardinality(J) /\ HowMany(s, V) = Cardinality(I)
        BY <1>2, <1>4 DEF HowMany
    <2> QED BY <1>5, <1>7, <2>1, <2>2
<1> QED BY <1>6, <1>7

(* What is taken out counts no more, and only that.                        *)
LEMMA CountWithout ==
    ASSUME NEW S, NEW s \in Seq(S), NEW gone, NEW V
    PROVE  HowMany(Without(s, gone), V) = HowMany(s, V \ gone)
<1>1. PICK n \in Nat : n = Len(s) /\ DOMAIN s = 1..n
    OBVIOUS
<1>2. PICK f : WithoutRecursion(f, s, gone) /\ Without(s, gone) = f[n]
    BY <1>1, WithoutUnfolds
<1>3. f[0] = <<>> /\ \A i \in 1..n : f[i] = IF s[i] \in gone THEN f[i - 1] ELSE Append(f[i - 1], s[i])
    BY <1>1, <1>2 DEF WithoutRecursion
<1> DEFINE Part(k) == {i \in 1..k : s[i] \in V \ gone}
           P(k) == k <= n => f[k] \in Seq(S) /\ HowMany(f[k], V) = Cardinality(Part(k))
           G == {k \in Nat : P(k)}
<1>4. 0 \in G
    <2>1. Part(0) = {}
        OBVIOUS
    <2>2. PICK e : e = <<>>
        OBVIOUS
    <2>4. e \in Seq(S) /\ HowMany(e, V) = 0
        <3>1. e \in Seq(S)
            BY <2>2
        <3>2. ToSet(e) \cap V = {}
            BY <2>2 DEF ToSet
        <3> QED BY <3>1, <3>2, CountLaws
    <2>3. P(0)
        BY <1>3, <2>1, <2>2, <2>4, FS_EmptySet
    <2> HIDE DEF P
    <2> QED BY <2>3
<1>5. ASSUME NEW k \in Nat, k \in G PROVE k + 1 \in G
    <2>1. P(k) /\ (P(k + 1) => k + 1 \in G)
        BY <1>5
    <2> SUFFICES ASSUME k + 1 <= n
                 PROVE  f[k + 1] \in Seq(S) /\ HowMany(f[k + 1], V) = Cardinality(Part(k + 1))
        BY <2>1
    <2>2. f[k] \in Seq(S) /\ HowMany(f[k], V) = Cardinality(Part(k))
        BY <1>1, <2>1
    <2>3. k + 1 \in 1..n /\ (k + 1) - 1 = k /\ s[k + 1] \in S
        BY <1>1
    <2>4. f[k + 1] = IF s[k + 1] \in gone THEN f[k] ELSE Append(f[k], s[k + 1])
        BY <1>3, <2>3
    <2>5. IsFiniteSet(Part(k)) /\ Cardinality(Part(k)) \in Nat
        <3>1. PICK z \in Int : z = 1
            OBVIOUS
        <3>2. IsFiniteSet(z..k)
            BY FS_Interval
        <3>3. Part(k) \subseteq z..k
            BY <3>1
        <3> QED BY <3>2, <3>3, FS_Subset, FS_CardinalityType
    <2>6. 1..k + 1 = (1..k) \cup {k + 1} /\ k + 1 \notin 1..k
        OBVIOUS
    <2>7. Part(k + 1) = IF s[k + 1] \in V \ gone THEN Part(k) \cup {k + 1} ELSE Part(k)
        BY <2>6
    <2>8. k + 1 \notin Part(k)
        BY <2>6
    <2> HIDE DEF Part
    <2>9. Cardinality(Part(k + 1)) = Cardinality(Part(k)) + IF s[k + 1] \in V \ gone THEN 1 ELSE 0
        <3>1. Cardinality(Part(k) \cup {k + 1}) = Cardinality(Part(k)) + 1
            BY <2>5, <2>8, FS_AddElement
        <3> QED BY <2>5, <2>7, <3>1
    <2>10. CASE s[k + 1] \in gone
        BY <2>2, <2>4, <2>5, <2>9, <2>10
    <2>11. CASE s[k + 1] \notin gone
        <3>1. PICK t, x : t = f[k] /\ x = s[k + 1] /\ f[k + 1] = Append(t, x)
            BY <2>4, <2>11
        <3>2. HowMany(Append(t, x), V) = HowMany(t, V) + IF x \in V THEN 1 ELSE 0
            BY <2>2, <2>3, <3>1, CountAppends
        <3>3. Append(t, x) \in Seq(S)
            BY <2>2, <2>3, <3>1
        <3> QED BY <2>2, <2>9, <2>11, <3>1, <3>2, <3>3
    <2> QED BY <2>10, <2>11
<1> HIDE DEF G
<1>6. n \in G
    BY <1>4, <1>5, NaturalInduction
<1>7. P(n)
    BY <1>6 DEF G
<1>8. Part(n) = {i \in DOMAIN s : s[i] \in V \ gone}
    BY <1>1
<1>9. HowMany(Without(s, gone), V) = Cardinality(Part(n))
    BY <1>1, <1>2, <1>7
<1>10. HowMany(s, V \ gone) = Cardinality({i \in DOMAIN s : s[i] \in V \ gone})
    BY DEF HowMany
<1> HIDE DEF Part, P
<1> QED BY <1>8, <1>9, <1>10
=============================================================================
