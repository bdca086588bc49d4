----------------------- MODULE CalibrationBuild_proofs -----------------------
(***************************************************************************)
(* What is proved of CalibrationBuild. The first half is about the         *)
(* operators of CalibrationRecords: what the folds of the community        *)
(* modules compute, that every extraction, segment and adapted record is a *)
(* record, and what the selections of a domain are. Then CalInv, the       *)
(* inductive invariant: what every directory in place or moved away, every *)
(* builder at each of its steps and every unraced reader fulfils. One      *)
(* lemma per action shows that it is kept.                                 *)
(***************************************************************************)
EXTENDS CalibrationBuild, FiniteSetTheorems, WellFoundedInduction, TLAPS

-----------------------------------------------------------------------------
(***************************************************************************)
(* Sums: the fold of the community modules, taken element by element       *)
(***************************************************************************)

\* The sum of a function over a part of its domain, as the folds take it.
Chosen(S) == CHOOSE x \in S : TRUE
SumIter(it, f, S) ==
    it = [s \in SUBSET S |-> IF s = {} THEN 0 ELSE f[Chosen(s)] + it[s \ {Chosen(s)}]]
SumOn(f, S) == FoldFunctionOnSet(+, 0, f, S)

\* A sum runs over the whole domain of its function.
LEMMA SumIsSumOn == \A f : Sum(f) = SumOn(f, DOMAIN f)
BY DEF Sum, SumOn, FoldFunction

\* A sum over a set is what the fold of the community modules computes.
LEMMA SumOnIs == \A f, S : SumOn(f, S) = (CHOOSE it : SumIter(it, f, S))[S]
BY DEF SumOn, FoldFunctionOnSet, MapThenFoldSet, SumIter, Chosen

\* The element a fold takes next is one of the set.
LEMMA ChosenIn == \A S : S # {} => Chosen(S) \in S
BY DEF Chosen

\* Every non-empty set of naturals has a smallest element.
LEMMA SmallestExists ==
    ASSUME NEW T, T \subseteq Nat, T # {}
    PROVE  \E x \in T : \A y \in T : x <= y
<1>1. PICK R : R = OpToRel(<, Nat)
  OBVIOUS
<1>2. IsWellFoundedOn(R, Nat)
  BY <1>1, NatLessThanWellFounded
<1>3. \A x, y \in Nat : <<x, y>> \in R <=> x < y
  BY <1>1 DEF OpToRel
<1>4. PICK x \in T : \A y \in T : ~ (<<y, x>> \in R)
  BY <1>2, WFMin
<1>5. \A y \in T : x \in Nat /\ y \in Nat /\ ~(y < x)
  BY <1>3, <1>4
<1> QED
  BY <1>5

\* A set without its chosen element is smaller.
LEMMA Rest ==
    ASSUME NEW S, IsFiniteSet(S), NEW s, s \subseteq S, s # {}
    PROVE  /\ IsFiniteSet(s) /\ Cardinality(s) \in Nat /\ Chosen(s) \in s
           /\ s \ {Chosen(s)} \subseteq S /\ IsFiniteSet(s \ {Chosen(s)})
           /\ Cardinality(s \ {Chosen(s)}) \in Nat
           /\ Cardinality(s) = Cardinality(s \ {Chosen(s)}) + 1
<1>1. IsFiniteSet(s) /\ Cardinality(s) \in Nat /\ Chosen(s) \in s
  BY FS_Subset, FS_CardinalityType, ChosenIn
<1>2. IsFiniteSet(s \ {Chosen(s)}) /\ Cardinality(s \ {Chosen(s)}) = Cardinality(s) - 1
  BY <1>1, FS_RemoveElement
<1>3. Cardinality(s \ {Chosen(s)}) \in Nat
  BY <1>2, FS_CardinalityType
<1> QED
  BY <1>1, <1>2, <1>3

\* Such a function exists: it is put together by the size of the sets.
LEMMA SumIterExists ==
    ASSUME NEW S, IsFiniteSet(S), NEW f
    PROVE  \E it : SumIter(it, f, S)
<1> DEFINE Upto(n) == {s \in SUBSET S : Cardinality(s) <= n}
           Fine(n) == \E it : it = [s \in Upto(n) |->
                          IF s = {} THEN 0 ELSE f[Chosen(s)] + it[s \ {Chosen(s)}]]
           Bad == {n \in Nat : ~Fine(n)}
<1>0. Fine(0)
  <2>1. PICK it : it = [s \in Upto(0) |-> 0]
    OBVIOUS
  <2>2. \A s \in Upto(0) : s = {}
    <3> SUFFICES ASSUME NEW s \in SUBSET S, Cardinality(s) <= 0, s # {} PROVE FALSE
      OBVIOUS
    <3>1. s \subseteq S
      OBVIOUS
    <3>2. /\ Cardinality(s \ {Chosen(s)}) \in Nat
          /\ Cardinality(s) = Cardinality(s \ {Chosen(s)}) + 1
      BY <3>1, Rest
    <3> QED
      BY <3>2
  <2>3. it = [s \in Upto(0) |-> IF s = {} THEN 0 ELSE f[Chosen(s)] + it[s \ {Chosen(s)}]]
    BY <2>1, <2>2
  <2> QED
    BY <2>3
<1>1. ASSUME NEW n \in Nat, Fine(n) PROVE Fine(n + 1)
  <2>1. PICK it : it = [s \in Upto(n) |->
                          IF s = {} THEN 0 ELSE f[Chosen(s)] + it[s \ {Chosen(s)}]]
    BY <1>1
  <2>2. PICK new : new = [s \in Upto(n + 1) |->
                            IF s = {} THEN 0 ELSE f[Chosen(s)] + it[s \ {Chosen(s)}]]
    OBVIOUS
  <2>3. ASSUME NEW s \in Upto(n) PROVE s \in Upto(n + 1) /\ new[s] = it[s]
    <3>1. IsFiniteSet(s) /\ Cardinality(s) \in Nat
      BY FS_Subset, FS_CardinalityType
    <3>2. s \in Upto(n + 1)
      BY <3>1
    <3> QED
      BY <2>1, <2>2, <3>2
  <2>4. ASSUME NEW s \in Upto(n + 1), s # {} PROVE s \ {Chosen(s)} \in Upto(n)
    <3>1. /\ Cardinality(s \ {Chosen(s)}) \in Nat /\ Cardinality(s) <= n + 1
          /\ Cardinality(s) = Cardinality(s \ {Chosen(s)}) + 1 /\ s \ {Chosen(s)} \subseteq S
      BY <2>4, Rest
    <3> QED
      BY <3>1
  <2> HIDE DEF Upto
  <2>5. new = [s \in Upto(n + 1) |-> IF s = {} THEN 0 ELSE f[Chosen(s)] + new[s \ {Chosen(s)}]]
    BY <2>2, <2>3, <2>4
  <2> QED
    BY <2>5
<1>2. \A n \in Nat : Fine(n)
  <2> HIDE DEF Fine
  <2> SUFFICES ASSUME Bad # {} PROVE FALSE
    OBVIOUS
  <2>1. PICK n \in Bad : \A m \in Bad : n <= m
    <3>1. Bad \subseteq Nat
      OBVIOUS
    <3> HIDE DEF Bad
    <3> QED
      BY <3>1, SmallestExists
  <2>2. n \in Nat /\ ~Fine(n)
    OBVIOUS
  <2>3. PICK m \in Nat : n = m + 1
    BY <1>0, <2>2
  <2>4. m \notin Bad
    <3>1. ~(n <= m)
      BY <2>3
    <3> HIDE DEF Bad
    <3> QED
      BY <2>1, <3>1
  <2>5. Fine(m)
    BY <2>4
  <2> QED
    BY <1>1, <2>2, <2>3, <2>5
<1> HIDE DEF Upto
<1>3. Fine(Cardinality(S))
  BY <1>2, FS_CardinalityType
<1>4. Upto(Cardinality(S)) = SUBSET S
  <2>1. \A s \in SUBSET S : Cardinality(s) <= Cardinality(S)
    BY FS_Subset
  <2> QED
    BY <2>1 DEF Upto
<1> QED
  BY <1>3, <1>4 DEF SumIter

\* Induction over the naturals, for a set.
LEMMA NatSetInduction ==
    ASSUME NEW P, 0 \in P, \A n \in Nat : n \in P => n + 1 \in P
    PROVE  Nat \subseteq P
<1> DEFINE Bad == Nat \ P
<1> SUFFICES ASSUME Bad # {} PROVE FALSE
  OBVIOUS
<1>1. PICK n \in Bad : \A m \in Bad : n <= m
  BY SmallestExists
<1>2. PICK m \in Nat : n = m + 1
  <2>1. n \in Nat /\ n # 0
    OBVIOUS
  <2> QED
    BY <2>1
<1>3. m \notin Bad
  <2>1. ~(n <= m)
    BY <1>2
  <2> HIDE DEF Bad
  <2> QED
    BY <1>1, <2>1
<1> QED
  BY <1>2, <1>3

\* Induction over the subsets of a finite set by their size, for a set of them.
LEMMA SubsetInduction ==
    ASSUME NEW S, IsFiniteSet(S), NEW P,
           \A s \in SUBSET S :
              (\A t \in SUBSET S : Cardinality(t) < Cardinality(s) => t \in P) => s \in P
    PROVE  SUBSET S \subseteq P
<1> DEFINE Bad == {Cardinality(s) : s \in (SUBSET S) \ P}
<1> SUFFICES ASSUME NEW bad \in (SUBSET S) \ P PROVE FALSE
  OBVIOUS
<1>1. ASSUME NEW s \in SUBSET S PROVE Cardinality(s) \in Nat
  BY FS_Subset, FS_CardinalityType
<1>2. Bad \subseteq Nat /\ Bad # {}
  BY <1>1
<1>3. PICK n \in Bad : \A m \in Bad : n <= m
  <2> HIDE DEF Bad
  <2> QED
    BY <1>2, SmallestExists
<1>4. PICK s \in (SUBSET S) \ P : Cardinality(s) = n
  OBVIOUS
<1>5. ASSUME NEW t \in SUBSET S, Cardinality(t) < Cardinality(s) PROVE t \in P
  <2> SUFFICES ASSUME t \notin P PROVE FALSE
    OBVIOUS
  <2>1. Cardinality(t) \in Bad /\ Cardinality(t) \in Nat /\ n \in Nat
    BY <1>1, <1>4
  <2>2. n <= Cardinality(t)
    BY <1>3, <2>1
  <2> QED
    BY <1>4, <1>5, <2>1, <2>2
<1> QED
  BY <1>4, <1>5

\* Two such functions agree wherever both are defined.
LEMMA SumIterAgree ==
    ASSUME NEW S, IsFiniteSet(S), NEW T, T \subseteq S, NEW f,
           NEW i, SumIter(i, f, S), NEW j, SumIter(j, f, T)
    PROVE  \A s \in SUBSET T : i[s] = j[s]
<1> DEFINE P == {s \in SUBSET T : i[s] = j[s]}
<1>1. IsFiniteSet(T)
  BY FS_Subset
<1>2. ASSUME NEW s \in SUBSET T, \A t \in SUBSET T : Cardinality(t) < Cardinality(s) => t \in P
      PROVE  s \in P
  <2>1. CASE s = {}
    BY <2>1 DEF SumIter
  <2>2. CASE s # {}
    <3>1. PICK t \in SUBSET T : t = s \ {Chosen(s)}
      BY <2>2
    <3>2. Cardinality(t) \in Nat /\ Cardinality(s) = Cardinality(t) + 1
      BY <1>1, <2>2, <3>1, Rest
    <3>3. i[t] = j[t]
      BY <1>2, <3>2
    <3>4. i[s] = f[Chosen(s)] + i[t] /\ j[s] = f[Chosen(s)] + j[t]
      BY <2>2, <3>1 DEF SumIter
    <3> QED
      BY <3>3, <3>4
  <2> QED
    BY <2>1, <2>2
<1>3. SUBSET T \subseteq P
  <2> HIDE DEF P
  <2> QED
    BY <1>1, <1>2, SubsetInduction
<1> QED
  BY <1>3

\* A sum is the chosen summand and the sum of the rest.
LEMMA SumOnRest ==
    ASSUME NEW S, IsFiniteSet(S), NEW f
    PROVE  SumOn(f, S) = IF S = {} THEN 0 ELSE f[Chosen(S)] + SumOn(f, S \ {Chosen(S)})
<1>1. PICK i : i = CHOOSE it : SumIter(it, f, S)
  OBVIOUS
<1>2. SumIter(i, f, S)
  BY <1>1, SumIterExists
<1>3. SumOn(f, S) = i[S]
  BY <1>1, SumOnIs
<1>4. CASE S = {}
  BY <1>2, <1>3, <1>4 DEF SumIter
<1>5. CASE S # {}
  <2>1. PICK T : T = S \ {Chosen(S)}
    OBVIOUS
  <2>2. T \subseteq S /\ IsFiniteSet(T)
    BY <2>1, FS_Subset
  <2>3. PICK j : j = CHOOSE it : SumIter(it, f, T)
    OBVIOUS
  <2>4. SumIter(j, f, T) /\ SumOn(f, T) = j[T]
    BY <2>2, <2>3, SumIterExists, SumOnIs
  <2>5. i[T] = j[T]
    BY <1>2, <2>2, <2>4, SumIterAgree
  <2>6. i[S] = f[Chosen(S)] + i[T]
    BY <1>2, <1>5, <2>1 DEF SumIter
  <2> QED
    BY <1>3, <1>5, <2>1, <2>4, <2>5, <2>6
<1> QED
  BY <1>4, <1>5

\* A sum of naturals over a finite set is a natural.
LEMMA SumOnNat ==
    ASSUME NEW S, IsFiniteSet(S), NEW f, \A x \in S : f[x] \in Nat
    PROVE  \A s \in SUBSET S : SumOn(f, s) \in Nat
<1> DEFINE P == {s \in SUBSET S : SumOn(f, s) \in Nat}
<1>1. ASSUME NEW s \in SUBSET S, \A t \in SUBSET S : Cardinality(t) < Cardinality(s) => t \in P
      PROVE  s \in P
  <2>1. IsFiniteSet(s)
    BY FS_Subset
  <2>2. CASE s = {}
    <3>1. SumOn(f, s) = 0
      BY <2>1, <2>2, SumOnRest
    <3> QED
      BY <3>1
  <2>3. CASE s # {}
    <3>1. PICK t \in SUBSET S : t = s \ {Chosen(s)}
      BY <2>3
    <3>2. Cardinality(t) \in Nat /\ Cardinality(s) = Cardinality(t) + 1 /\ Chosen(s) \in s
      BY <2>3, <3>1, Rest
    <3>3. SumOn(f, t) \in Nat /\ f[Chosen(s)] \in Nat
      BY <1>1, <3>2
    <3>4. SumOn(f, s) = f[Chosen(s)] + SumOn(f, t)
      BY <2>1, <2>3, <3>1, SumOnRest
    <3> QED
      BY <3>3, <3>4
  <2> QED
    BY <2>2, <2>3
<1>2. SUBSET S \subseteq P
  <2> HIDE DEF P
  <2> QED
    BY <1>1, SubsetInduction
<1> QED
  BY <1>2

\* The order in which the summands are taken does not matter.
LEMMA SumOnAny ==
    ASSUME NEW S, IsFiniteSet(S), NEW f, \A x \in S : f[x] \in Nat
    PROVE  \A s \in SUBSET S : \A x \in s : SumOn(f, s) = f[x] + SumOn(f, s \ {x})
<1> DEFINE P == {s \in SUBSET S : \A x \in s : SumOn(f, s) = f[x] + SumOn(f, s \ {x})}
<1>1. ASSUME NEW s \in SUBSET S, \A t \in SUBSET S : Cardinality(t) < Cardinality(s) => t \in P,
             NEW x \in s
      PROVE  SumOn(f, s) = f[x] + SumOn(f, s \ {x})
  <2>1. PICK c : c = Chosen(s)
    OBVIOUS
  <2>2. PICK t \in SUBSET S, u \in SUBSET S, v \in SUBSET S :
           t = s \ {c} /\ u = s \ {x} /\ v = s \ {c, x}
    OBVIOUS
  <2>3. c \in s /\ IsFiniteSet(s) /\ IsFiniteSet(u) /\ Cardinality(t) < Cardinality(s)
        /\ SumOn(f, s) = f[c] + SumOn(f, t)
    <3>1. IsFiniteSet(s) /\ IsFiniteSet(u)
      BY <2>2, FS_Subset
    <3>2. c \in s /\ Cardinality(t) \in Nat /\ Cardinality(s) = Cardinality(t) + 1
      BY <2>1, <2>2, Rest
    <3>3. SumOn(f, s) = f[c] + SumOn(f, t)
      BY <2>1, <2>2, <3>1, SumOnRest
    <3> QED
      BY <3>1, <3>2, <3>3
  <2>4. Cardinality(u) < Cardinality(s)
    <3>1. Cardinality(u) = Cardinality(s) - 1 /\ Cardinality(s) \in Nat
      BY <2>2, <2>3, FS_RemoveElement, FS_CardinalityType
    <3> QED
      BY <3>1
  <2>5. CASE x = c
    BY <2>2, <2>3, <2>5
  <2>6. CASE x # c
    <3>1. t \in P /\ u \in P /\ x \in t /\ c \in u /\ t \ {x} = v /\ u \ {c} = v
      BY <1>1, <2>2, <2>3, <2>4, <2>6
    <3>2. SumOn(f, t) = f[x] + SumOn(f, v) /\ SumOn(f, u) = f[c] + SumOn(f, v)
      BY <3>1
    <3>3. f[x] \in Nat /\ f[c] \in Nat /\ SumOn(f, v) \in Nat
      BY <2>3, SumOnNat
    <3> QED
      BY <2>2, <2>3, <3>2, <3>3
  <2> QED
    BY <2>5, <2>6
<1>2. SUBSET S \subseteq P
  <2>1. \A s \in SUBSET S :
           (\A t \in SUBSET S : Cardinality(t) < Cardinality(s) => t \in P) => s \in P
    BY <1>1
  <2> HIDE DEF P
  <2> QED
    BY <2>1, SubsetInduction
<1> QED
  BY <1>2

\* One element more adds its value.
LEMMA SumOnMore ==
    ASSUME NEW S, IsFiniteSet(S), NEW x, x \notin S, NEW f, \A y \in S \union {x} : f[y] \in Nat
    PROVE  SumOn(f, S \union {x}) = SumOn(f, S) + f[x]
<1>1. PICK T : T = S \union {x}
  OBVIOUS
<1>2. IsFiniteSet(T) /\ S \subseteq T /\ T \ {x} = S /\ x \in T
  BY <1>1, FS_AddElement
<1>3. SumOn(f, T) = f[x] + SumOn(f, T \ {x})
  BY <1>1, <1>2, SumOnAny
<1>4. SumOn(f, S) \in Nat /\ f[x] \in Nat
  BY <1>1, <1>2, SumOnNat
<1> QED
  BY <1>1, <1>2, <1>3, <1>4

\* A sum depends only on the values it adds.
LEMMA SumOnSame ==
    ASSUME NEW S, IsFiniteSet(S), NEW f, NEW g, \A x \in S : f[x] = g[x]
    PROVE  SumOn(f, S) = SumOn(g, S)
<1> DEFINE P == {s \in SUBSET S : SumOn(f, s) = SumOn(g, s)}
<1>1. ASSUME NEW s \in SUBSET S, \A t \in SUBSET S : Cardinality(t) < Cardinality(s) => t \in P
      PROVE  s \in P
  <2>1. IsFiniteSet(s)
    BY FS_Subset
  <2>2. CASE s = {}
    BY <2>1, <2>2, SumOnRest
  <2>3. CASE s # {}
    <3>1. PICK t \in SUBSET S : t = s \ {Chosen(s)}
      BY <2>3
    <3>2. Cardinality(t) \in Nat /\ Cardinality(s) = Cardinality(t) + 1 /\ Chosen(s) \in s
      BY <2>3, <3>1, Rest
    <3>3. SumOn(f, t) = SumOn(g, t) /\ f[Chosen(s)] = g[Chosen(s)]
      BY <1>1, <3>2
    <3>4. /\ SumOn(f, s) = f[Chosen(s)] + SumOn(f, t)
          /\ SumOn(g, s) = g[Chosen(s)] + SumOn(g, t)
      BY <2>1, <2>3, <3>1, SumOnRest
    <3> QED
      BY <3>3, <3>4
  <2> QED
    BY <2>2, <2>3
<1>2. SUBSET S \subseteq P
  <2> HIDE DEF P
  <2> QED
    BY <1>1, SubsetInduction
<1> QED
  BY <1>2

\* A sum of naturals is a natural.
LEMMA SumIsNat ==
    ASSUME NEW S, IsFiniteSet(S), NEW f \in [S -> Nat]
    PROVE  Sum(f) \in Nat
<1>1. Sum(f) = SumOn(f, S)
  BY SumIsSumOn
<1>2. S \in SUBSET S /\ \A x \in S : f[x] \in Nat
  OBVIOUS
<1> QED
  BY <1>1, <1>2, SumOnNat

\* An empty sum is zero.
LEMMA SumOfNone == ASSUME NEW f, DOMAIN f = {} PROVE Sum(f) = 0
<1>1. SumOn(f, {}) = 0
  BY SumOnRest, FS_EmptySet
<1> QED
  BY <1>1, SumIsSumOn

\* h takes the places 1..n to what g says of the values of s, which make up S.
Reindexed(n, s, S, g, h) ==
    /\ \A x : x \in S <=> \E i \in 1..n : x = s[i]
    /\ \A i, j \in 1..n : s[i] = s[j] => i = j
    /\ \A i \in 1..n : g[s[i]] \in Nat /\ h[i] = g[s[i]]

\* The sum over the values of a sequence without repetitions is the sum over
\* its places.
LEMMA SumReindexed ==
    ASSUME NEW n \in Nat, NEW s, NEW S, NEW g, NEW h, Reindexed(n, s, S, g, h)
    PROVE  SumOn(g, S) = SumOn(h, 1..n)
<1> USE DEF Reindexed
<1> DEFINE V(k) == {s[i] : i \in 1..k}
           P == {k \in Nat : k <= n => IsFiniteSet(V(k)) /\ SumOn(g, V(k)) = SumOn(h, 1..k)}
<1>1. 0 \in P
  <2>1. V(0) = {} /\ 1..0 = {}
    OBVIOUS
  <2>2. SumOn(g, {}) = 0 /\ SumOn(h, {}) = 0 /\ IsFiniteSet({})
    BY FS_EmptySet, SumOnRest
  <2> QED
    BY <2>1, <2>2
<1>2. ASSUME NEW k \in Nat, k \in P PROVE k + 1 \in P
  <2> SUFFICES ASSUME k + 1 <= n
               PROVE  IsFiniteSet(V(k + 1)) /\ SumOn(g, V(k + 1)) = SumOn(h, 1..(k + 1))
    OBVIOUS
  <2>1. PICK m \in Nat : m = k + 1
    OBVIOUS
  <2>2. /\ V(m) = V(k) \union {s[m]} /\ s[m] \notin V(k)
        /\ 1..m = (1..k) \union {m} /\ m \notin 1..k
    BY <2>1
  <2>3. PICK A : A = V(k)
    OBVIOUS
  <2>4. IsFiniteSet(A) /\ SumOn(g, A) = SumOn(h, 1..k)
    BY <1>2, <2>3, <2>1
  <2>5. IsFiniteSet(1..k)
    BY FS_Interval
  <2>6. \A y \in A \union {s[m]} : g[y] \in Nat
    BY <2>1, <2>3
  <2>7. \A y \in (1..k) \union {m} : h[y] \in Nat
    BY <2>1
  <2>8. SumOn(g, A \union {s[m]}) = SumOn(g, A) + g[s[m]] /\ IsFiniteSet(A \union {s[m]})
    <3>1. PICK x : x = s[m]
      OBVIOUS
    <3>2. x \notin A
      BY <2>2, <2>3, <3>1
    <3>3. \A y \in A \union {x} : g[y] \in Nat
      BY <2>6, <3>1
    <3>4. SumOn(g, A \union {x}) = SumOn(g, A) + g[x]
      <4>1. IsFiniteSet(A)
        BY <2>4
      <4> HIDE DEF V, P
      <4> QED
        BY ONLY <4>1, <3>2, <3>3, SumOnMore
    <3>5. IsFiniteSet(A \union {x})
      BY <2>4, FS_AddElement
    <3> QED
      BY <3>1, <3>4, <3>5
  <2>9. SumOn(h, (1..k) \union {m}) = SumOn(h, 1..k) + h[m]
    <3>1. PICK B : B = 1..k
      OBVIOUS
    <3>2. IsFiniteSet(B) /\ m \notin B /\ \A y \in B \union {m} : h[y] \in Nat
      BY <2>2, <2>5, <2>7, <3>1
    <3> HIDE DEF V, P
    <3>3. SumOn(h, B \union {m}) = SumOn(h, B) + h[m]
      BY ONLY <3>2, SumOnMore
    <3> QED
      BY <3>1, <3>3
  <2>10. g[s[m]] = h[m]
    BY <2>1
  <2>11. V(m) = A \union {s[m]}
    BY <2>2, <2>3
  <2> HIDE DEF V
  <2> QED
    BY <2>1, <2>2, <2>4, <2>8, <2>9, <2>10, <2>11
<1> HIDE DEF P
<1>3. n \in P
  BY <1>1, <1>2, NatSetInduction
<1>4. \A x : x \in S <=> x \in V(n)
  OBVIOUS
<1>5. S = V(n)
  BY <1>4
<1> QED
  BY <1>3, <1>5 DEF P

-----------------------------------------------------------------------------
(***************************************************************************)
(* Positions and parts of sequences                                        *)
(***************************************************************************)

\* A set of positions up to n has finitely many elements, and up to n + 1 one
\* more or none.
LEMMA UpTo ==
    ASSUME NEW S, NEW n \in Nat
    PROVE  /\ IsFiniteSet(S \cap (1..n)) /\ Cardinality(S \cap (1..n)) \in Nat
           /\ Cardinality(S \cap (1..n)) <= n
           /\ S \cap (1..0) = {} /\ Cardinality(S \cap (1..0)) = 0
           /\ n + 1 \notin S => S \cap (1..(n + 1)) = S \cap (1..n)
           /\ n + 1 \in S => /\ S \cap (1..(n + 1)) = (S \cap (1..n)) \union {n + 1}
                             /\ Cardinality(S \cap (1..(n + 1))) = Cardinality(S \cap (1..n)) + 1
<1>1. IsFiniteSet(1..n) /\ Cardinality(1..n) = n
  BY FS_Interval
<1>2. /\ IsFiniteSet(S \cap (1..n)) /\ Cardinality(S \cap (1..n)) \in Nat
      /\ Cardinality(S \cap (1..n)) <= n
  <2>1. S \cap (1..n) \in SUBSET (1..n)
    OBVIOUS
  <2> QED
    BY <1>1, <2>1, FS_Subset, FS_CardinalityType
<1>3. S \cap (1..0) = {} /\ Cardinality(S \cap (1..0)) = 0
  <2>1. S \cap (1..0) = {}
    OBVIOUS
  <2> QED
    BY <2>1, FS_EmptySet
<1>4. n + 1 \notin S \cap (1..n)
  OBVIOUS
<1>5. n + 1 \notin S => S \cap (1..(n + 1)) = S \cap (1..n)
  OBVIOUS
<1>6. n + 1 \in S => S \cap (1..(n + 1)) = (S \cap (1..n)) \union {n + 1}
  OBVIOUS
<1>7. Cardinality((S \cap (1..n)) \union {n + 1}) = Cardinality(S \cap (1..n)) + 1
  BY <1>2, <1>4, FS_AddElement
<1> QED
  BY <1>2, <1>3, <1>5, <1>6, <1>7

\* Of two positions of a set the later one has more of them up to itself.
LEMMA MoreUpTo ==
    ASSUME NEW S, NEW i \in Nat, NEW j \in Nat, j \in S, i < j
    PROVE  Cardinality(S \cap (1..i)) < Cardinality(S \cap (1..j))
<1>1. S \cap (1..i) \in SUBSET (S \cap (1..j)) /\ j \in S \cap (1..j) /\ j \notin S \cap (1..i)
  OBVIOUS
<1>2. IsFiniteSet(S \cap (1..j)) /\ Cardinality(S \cap (1..i)) \in Nat
      /\ Cardinality(S \cap (1..j)) \in Nat
  BY UpTo
<1> QED
  BY <1>1, <1>2, FS_Subset

\* As many positions as a set has up to n, so many can be counted off.
LEMMA NthExists ==
    ASSUME NEW S
    PROVE  \A n \in Nat : \A k \in 1..Cardinality(S \cap (1..n)) :
              \E i \in S \cap (1..n) : Cardinality(S \cap (1..i)) = k
<1> DEFINE Fine(n) == \A k \in 1..Cardinality(S \cap (1..n)) :
                         \E i \in S \cap (1..n) : Cardinality(S \cap (1..i)) = k
           Bad == {n \in Nat : ~Fine(n)}
<1> SUFFICES ASSUME Bad # {} PROVE FALSE
  OBVIOUS
<1>1. PICK n \in Bad : \A m \in Bad : n <= m
  <2> HIDE DEF Fine
  <2>1. Bad \subseteq Nat
    OBVIOUS
  <2> QED
    BY <2>1, SmallestExists
<1>2. Fine(0)
  BY UpTo
<1>3. PICK m \in Nat : n = m + 1
  <2>1. n \in Nat /\ n # 0
    BY <1>1, <1>2
  <2> QED
    BY <2>1
<1>4. Fine(m) /\ ~Fine(m + 1)
  <2>1. m \notin Bad
    <3>1. ~(n <= m)
      BY <1>3
    <3> QED
      BY <1>1, <3>1
  <2>2. ~Fine(n)
    BY <1>1
  <2> QED
    BY <1>3, <2>1, <2>2
<1> HIDE DEF Bad
<1>5. /\ Cardinality(S \cap (1..m)) \in Nat
      /\ m + 1 \notin S => S \cap (1..(m + 1)) = S \cap (1..m)
      /\ m + 1 \in S => /\ S \cap (1..(m + 1)) = (S \cap (1..m)) \union {m + 1}
                        /\ Cardinality(S \cap (1..(m + 1))) = Cardinality(S \cap (1..m)) + 1
  BY UpTo
<1>6. ASSUME NEW k \in 1..Cardinality(S \cap (1..(m + 1)))
      PROVE  \E i \in S \cap (1..(m + 1)) : Cardinality(S \cap (1..i)) = k
  <2>1. CASE k \in 1..Cardinality(S \cap (1..m))
    <3>1. \E i \in S \cap (1..m) : Cardinality(S \cap (1..i)) = k
      BY <1>4, <2>1
    <3> QED
      BY <1>5, <3>1
  <2>2. CASE k \notin 1..Cardinality(S \cap (1..m))
    <3>1. m + 1 \in S /\ k = Cardinality(S \cap (1..(m + 1)))
      BY <1>5, <2>2
    <3>2. m + 1 \in S \cap (1..(m + 1))
      BY <3>1
    <3> QED
      BY <3>1, <3>2
  <2> QED
    BY <2>1, <2>2
<1> QED
  BY <1>4, <1>6

\* The k-th position of a set is one of its positions, with k up to it.
LEMMA NthIs ==
    ASSUME NEW n \in Nat, NEW S, S \subseteq 1..n, NEW k \in 1..Cardinality(S)
    PROVE  Nth(S, k) \in S /\ Cardinality(S \cap (1..Nth(S, k))) = k
<1>1. S \cap (1..n) = S
  OBVIOUS
<1>2. \E i \in S \cap (1..n) : Cardinality(S \cap (1..i)) = k
  BY <1>1, NthExists
<1>3. \E i \in S : Cardinality(S \cap (1..i)) = k
  BY <1>2
<1> QED
  BY <1>3 DEF Nth

\* The positions of a set are numbered without gaps and without repetitions.
LEMMA NthAll ==
    ASSUME NEW n \in Nat, NEW S, S \subseteq 1..n
    PROVE  /\ IsFiniteSet(S) /\ Cardinality(S) \in Nat /\ Cardinality(S) <= n
           /\ \A k \in 1..Cardinality(S) : Nth(S, k) \in S
           /\ \A k, m \in 1..Cardinality(S) : Nth(S, k) = Nth(S, m) => k = m
           /\ \A i \in S : \E k \in 1..Cardinality(S) : Nth(S, k) = i
<1>1. S \cap (1..n) = S
  OBVIOUS
<1>2. IsFiniteSet(S) /\ Cardinality(S) \in Nat /\ Cardinality(S) <= n
  <2>1. IsFiniteSet(S \cap (1..n)) /\ Cardinality(S \cap (1..n)) \in Nat
        /\ Cardinality(S \cap (1..n)) <= n
    BY UpTo
  <2> QED
    BY <1>1, <2>1
<1>3. \A k \in 1..Cardinality(S) : Nth(S, k) \in S /\ Cardinality(S \cap (1..Nth(S, k))) = k
  BY NthIs
<1>4. ASSUME NEW i \in S PROVE \E k \in 1..Cardinality(S) : Nth(S, k) = i
  <2>1. i \in 1..n /\ i \in Nat
    OBVIOUS
  <2>2. PICK k : k = Cardinality(S \cap (1..i))
    OBVIOUS
  <2>3. k \in Nat /\ k # 0
    <3>1. k \in Nat /\ IsFiniteSet(S \cap (1..i))
      BY <2>1, <2>2, UpTo
    <3>2. i \in S \cap (1..i)
      BY <2>1
    <3> QED
      BY <2>2, <3>1, <3>2, FS_EmptySet
  <2>4. k <= Cardinality(S)
    <3>1. S \cap (1..i) \subseteq S
      OBVIOUS
    <3> QED
      BY <1>2, <2>2, <3>1, FS_Subset
  <2>5. k \in 1..Cardinality(S)
    BY <1>2, <2>3, <2>4
  <2>6. PICK m \in Nat : m = Nth(S, k) /\ m \in S /\ Cardinality(S \cap (1..m)) = k
    <3>1. Nth(S, k) \in S /\ Cardinality(S \cap (1..Nth(S, k))) = k
      BY <1>3, <2>5
    <3>2. PICK m : m = Nth(S, k)
      OBVIOUS
    <3>3. m \in S /\ Cardinality(S \cap (1..m)) = k
      BY <3>1, <3>2
    <3>4. m \in Nat
      BY <3>3
    <3> QED
      BY <3>2, <3>3, <3>4
  <2>7. ~(i < m) /\ ~(m < i)
    <3>1. i < m => Cardinality(S \cap (1..i)) < Cardinality(S \cap (1..m))
      BY <2>1, <2>6, MoreUpTo
    <3>2. m < i => Cardinality(S \cap (1..m)) < Cardinality(S \cap (1..i))
      BY <2>1, <2>6, MoreUpTo
    <3> QED
      BY <2>2, <2>3, <2>6, <3>1, <3>2
  <2> QED
    BY <2>1, <2>5, <2>6, <2>7
<1> QED
  BY <1>2, <1>3, <1>4

\* s is made of distinct positions of t, those of f.
Takes(s, t, f) ==
    /\ Len(s) \in Nat /\ Len(t) \in Nat
    /\ f \in [1..Len(s) -> 1..Len(t)]
    /\ \A i, j \in 1..Len(s) : f[i] = f[j] => i = j
    /\ s = [i \in 1..Len(s) |-> t[f[i]]]
PartOf(s, t) == \E f : Takes(s, t, f)

\* A part of a part is a part.
LEMMA PartOfPart ==
    ASSUME NEW s, NEW t, NEW u, PartOf(s, t), PartOf(t, u)
    PROVE  PartOf(s, u)
<1>1. PICK f : Takes(s, t, f)
  BY DEF PartOf
<1>2. PICK g : Takes(t, u, g)
  BY DEF PartOf
<1>3. PICK h : h = [i \in 1..Len(s) |-> g[f[i]]]
  OBVIOUS
<1>4. Takes(s, u, h)
  BY <1>1, <1>2, <1>3 DEF Takes
<1> QED
  BY <1>4 DEF PartOf

\* A part is a sequence of values of the whole.
LEMMA PartOfValues ==
    ASSUME NEW s, NEW t, PartOf(s, t)
    PROVE  /\ DOMAIN s = 1..Len(s) /\ Len(s) \in Nat
           /\ \A i \in DOMAIN s : s[i] \in {t[j] : j \in 1..Len(t)}
           /\ \A R : t \in Seq(R) => s \in Seq(R)
<1>1. PICK f : Takes(s, t, f)
  BY DEF PartOf
<1>2. PICK n \in Nat : n = Len(s)
  BY <1>1 DEF Takes
<1>3. DOMAIN s = 1..n /\ \A i \in 1..n : f[i] \in 1..Len(t) /\ s[i] = t[f[i]]
  BY <1>1, <1>2 DEF Takes
<1>4. ASSUME NEW R, t \in Seq(R) PROVE s \in Seq(R)
  <2>1. \A i \in 1..n : s[i] \in R
    BY <1>3, <1>4
  <2>2. s = [i \in 1..n |-> s[i]]
    BY <1>1, <1>2 DEF Takes
  <2> QED
    BY <2>1, <2>2
<1> QED
  BY <1>2, <1>3, <1>4

\* What a sequence has at some positions is a part of it.
LEMMA PartOfAt ==
    ASSUME NEW R, NEW t \in Seq(R), NEW S, S \subseteq DOMAIN t
    PROVE  /\ PartOf(At(t, S), t) /\ At(t, S) \in Seq(R) /\ Len(At(t, S)) = Cardinality(S)
           /\ DOMAIN At(t, S) = 1..Cardinality(S) /\ Cardinality(S) \in Nat
           /\ \A k \in 1..Cardinality(S) : Nth(S, k) \in S /\ At(t, S)[k] = t[Nth(S, k)]
           /\ \A i \in S : \E k \in 1..Cardinality(S) : Nth(S, k) = i
<1>1. PICK n \in Nat : n = Len(t) /\ DOMAIN t = 1..n
  OBVIOUS
<1>2. PICK c \in Nat : c = Cardinality(S)
  BY <1>1, NthAll
<1>3. /\ \A k \in 1..c : Nth(S, k) \in S /\ Nth(S, k) \in 1..n
      /\ \A k, m \in 1..c : Nth(S, k) = Nth(S, m) => k = m
      /\ \A i \in S : \E k \in 1..c : Nth(S, k) = i
  BY <1>1, <1>2, NthAll
<1>4. PICK a : a = At(t, S)
  OBVIOUS
<1>5. a = [k \in 1..c |-> t[Nth(S, k)]]
  BY <1>2, <1>4 DEF At
<1>6. a \in Seq(R) /\ Len(a) = c
  BY <1>1, <1>3, <1>5
<1>7. PICK f : f = [k \in 1..c |-> Nth(S, k)]
  OBVIOUS
<1>8. Takes(a, t, f)
  BY <1>1, <1>3, <1>5, <1>6, <1>7 DEF Takes
<1> QED
  BY <1>2, <1>3, <1>4, <1>5, <1>6, <1>8 DEF PartOf

\* What Where keeps are the values that fulfil the condition.
LEMMA AtAll ==
    ASSUME NEW R, NEW t \in Seq(R), NEW S, S \subseteq DOMAIN t
    PROVE  ToSet(At(t, S)) = {t[i] : i \in S}
<1>1. PICK a : a = At(t, S)
  OBVIOUS
<1>2. PICK c : c = Cardinality(S)
  OBVIOUS
<1>3. /\ DOMAIN a = 1..c
      /\ \A k \in 1..c : Nth(S, k) \in S /\ a[k] = t[Nth(S, k)]
      /\ \A i \in S : \E k \in 1..c : Nth(S, k) = i
  BY <1>1, <1>2, PartOfAt
<1>4. \A x : x \in ToSet(a) <=> x \in {t[i] : i \in S}
  BY <1>3 DEF ToSet
<1> QED
  BY <1>1, <1>4

\* A reversed sequence is a part of the sequence.
LEMMA PartOfReverse ==
    ASSUME NEW R, NEW t \in Seq(R)
    PROVE  PartOf(Reverse(t), t) /\ Reverse(t) \in Seq(R) /\ Len(Reverse(t)) = Len(t)
<1>1. PICK n \in Nat : n = Len(t)
  OBVIOUS
<1>2. PICK r : r = Reverse(t)
  OBVIOUS
<1>3. r = [i \in 1..n |-> t[n - i + 1]]
  BY <1>1, <1>2 DEF Reverse
<1>4. r \in Seq(R) /\ Len(r) = n
  BY <1>1, <1>3
<1>5. PICK f : f = [i \in 1..n |-> n - i + 1]
  OBVIOUS
<1>6. Takes(r, t, f)
  BY <1>1, <1>3, <1>4, <1>5 DEF Takes
<1> QED
  BY <1>1, <1>2, <1>4, <1>6 DEF PartOf

\* A prefix is a part.
LEMMA PartOfPrefix ==
    ASSUME NEW R, NEW t \in Seq(R), NEW n \in Nat, n <= Len(t)
    PROVE  PartOf(SubSeq(t, 1, n), t) /\ SubSeq(t, 1, n) \in Seq(R) /\ Len(SubSeq(t, 1, n)) = n
<1>1. PICK p : p = SubSeq(t, 1, n)
  OBVIOUS
<1>2. p \in Seq(R) /\ Len(p) = n /\ p = [i \in 1..n |-> t[i]]
  BY <1>1
<1>3. PICK f : f = [i \in 1..n |-> i]
  OBVIOUS
<1>4. Takes(p, t, f)
  BY <1>2, <1>3 DEF Takes
<1> QED
  BY <1>1, <1>2, <1>4 DEF PartOf

-----------------------------------------------------------------------------
(***************************************************************************)
(* Largest and smallest numbers; left folds                                *)
(***************************************************************************)

\* Every non-empty set of bounded naturals has a largest element.
LEMMA LargestExists ==
    ASSUME NEW n \in Nat, NEW T, T \subseteq 0..n, T # {}
    PROVE  \E x \in T : \A y \in T : x >= y
<1> DEFINE B == {b \in Nat : \A y \in T : b >= y}
<1>1. n \in B
  OBVIOUS
<1>2. PICK b \in B : \A c \in B : b <= c
  <2>1. B \subseteq Nat /\ B # {}
    BY <1>1
  <2> HIDE DEF B
  <2> QED
    BY <2>1, SmallestExists
<1>3. b \in T
  <2> SUFFICES ASSUME b \notin T PROVE FALSE
    OBVIOUS
  <2>1. \A y \in T : y \in Nat /\ b > y
    BY <1>2
  <2>2. PICK y \in T : TRUE
    OBVIOUS
  <2>3. PICK c \in Nat : b = c + 1
    <3>1. b \in Nat /\ b # 0
      BY <2>1, <2>2
    <3> QED
      BY <3>1
  <2>4. c \in B
    BY <2>1, <2>3
  <2>5. b <= c
    BY <1>2, <2>4
  <2> QED
    BY <2>3, <2>5
<1> QED
  BY <1>2, <1>3

\* Max is the largest element of such a set.
LEMMA MaxIs ==
    ASSUME NEW n \in Nat, NEW T, T \subseteq 0..n, T # {}
    PROVE  Max(T) \in T /\ \A y \in T : Max(T) >= y
<1>1. \E x \in T : \A y \in T : x >= y
  BY LargestExists
<1> QED
  BY <1>1 DEF Max

\* Min is the smallest element of a set of naturals.
LEMMA MinIs ==
    ASSUME NEW T, T \subseteq Nat, T # {}
    PROVE  Min(T) \in T /\ \A y \in T : Min(T) <= y
<1>1. \E x \in T : \A y \in T : x <= y
  BY SmallestExists
<1> QED
  BY <1>1 DEF Min

\* The smaller of two naturals.
LEMMA MinOfTwo ==
    ASSUME NEW a \in Nat, NEW b \in Nat
    PROVE  Min({a, b}) = IF a <= b THEN a ELSE b
<1>1. PICK T : T = {a, b}
  OBVIOUS
<1>2. T \subseteq Nat /\ T # {}
  BY <1>1
<1>3. Min(T) \in T /\ \A y \in T : Min(T) <= y
  BY <1>2, MinIs
<1> QED
  BY <1>1, <1>3

\* A set of positions without its last one is smaller.
LEMMA RestOfPositions ==
    ASSUME NEW n \in Nat, NEW s, s \subseteq 1..n, s # {}
    PROVE  /\ Max(s) \in s /\ s \ {Max(s)} \subseteq 1..n
           /\ Cardinality(s) \in Nat /\ Cardinality(s \ {Max(s)}) \in Nat
           /\ Cardinality(s) = Cardinality(s \ {Max(s)}) + 1
<1>1. Max(s) \in s
  <2>1. s \subseteq 0..n
    OBVIOUS
  <2> QED
    BY <2>1, MaxIs
<1>2. IsFiniteSet(s) /\ Cardinality(s) \in Nat
  BY NthAll
<1>3. IsFiniteSet(s \ {Max(s)}) /\ Cardinality(s \ {Max(s)}) = Cardinality(s) - 1
  BY <1>1, <1>2, FS_RemoveElement
<1>4. Cardinality(s \ {Max(s)}) \in Nat
  BY <1>3, FS_CardinalityType
<1>5. Cardinality(s) = Cardinality(s \ {Max(s)}) + 1
  BY ONLY <1>2, <1>3, <1>4
<1>6. s \ {Max(s)} \subseteq 1..n
  OBVIOUS
<1> QED
  BY ONLY <1>1, <1>2, <1>4, <1>5, <1>6

\* The last of the first k positions is k.
LEMMA PrefixOfPositions ==
    ASSUME NEW n \in Nat, NEW k \in 1..n
    PROVE  /\ 1..k \in SUBSET (1..n) /\ 1..k # {} /\ Max(1..k) = k
           /\ (1..k) \ {k} = 1..(k - 1)
<1>1. k \in Nat /\ 1..k \subseteq 0..k /\ 1..k # {} /\ 1..k \in SUBSET (1..n)
  OBVIOUS
<1>2. Max(1..k) \in 1..k /\ \A y \in 1..k : Max(1..k) >= y
  <2>1. PICK T : T = 1..k
    OBVIOUS
  <2>2. Max(T) \in T /\ \A y \in T : Max(T) >= y
    BY <1>1, <2>1, MaxIs
  <2> QED
    BY <2>1, <2>2
<1>3. Max(1..k) = k
  <2>1. PICK m : m = Max(1..k)
    OBVIOUS
  <2>2. m \in 1..k /\ m >= k
    BY <1>1, <1>2, <2>1
  <2> QED
    BY <2>1, <2>2
<1> QED
  BY <1>1, <1>3

\* The iteration of a fold over the positions 1..n: step says what the last of
\* some positions does to the value of the others.
StepOn(step, n, A) == step \in [A \X (1..n) -> A]
Folds(it, n, A, base, step) ==
    /\ it \in [SUBSET (1..n) -> A]
    /\ \A s \in SUBSET (1..n) :
          it[s] = IF s = {} THEN base ELSE step[<<it[s \ {Max(s)}], Max(s)>>]

\* The function that a left fold over n entries is defined by exists.
LEMMA FoldExists ==
    ASSUME NEW n \in Nat, NEW A, NEW base \in A, NEW step, StepOn(step, n, A)
    PROVE  \E it : Folds(it, n, A, base, step)
<1> USE DEF StepOn
<1> DEFINE Upto(m) == {s \in SUBSET (1..n) : Cardinality(s) <= m}
           next(it, s) == IF s = {} THEN base ELSE step[<<it[s \ {Max(s)}], Max(s)>>]
           Fine(m) == \E it \in [Upto(m) -> A] : \A s \in Upto(m) : it[s] = next(it, s)
           P == {m \in Nat : Fine(m)}
<1>0. ASSUME NEW s \in SUBSET (1..n)
      PROVE  /\ Cardinality(s) \in Nat /\ Cardinality(s) <= n
             /\ s # {} => /\ Max(s) \in 1..n /\ s \ {Max(s)} \in SUBSET (1..n)
                          /\ Cardinality(s \ {Max(s)}) \in Nat
                          /\ Cardinality(s) = Cardinality(s \ {Max(s)}) + 1
  <2>1. Cardinality(s) \in Nat /\ Cardinality(s) <= n
    BY NthAll
  <2> QED
    BY <2>1, RestOfPositions
<1>1. 0 \in P
  <2>1. ASSUME NEW s \in Upto(0) PROVE s = {}
    <3>1. s \in SUBSET (1..n) /\ Cardinality(s) <= 0
      OBVIOUS
    <3>2. s # {} => /\ Cardinality(s \ {Max(s)}) \in Nat
                    /\ Cardinality(s) = Cardinality(s \ {Max(s)}) + 1
      BY <1>0, <3>1
    <3> QED
      BY <3>1, <3>2
  <2>2. PICK it : it = [s \in Upto(0) |-> base]
    OBVIOUS
  <2>3. it \in [Upto(0) -> A] /\ \A s \in Upto(0) : it[s] = next(it, s)
    BY <2>1, <2>2
  <2> QED
    BY <2>3
<1>2. ASSUME NEW m \in Nat, m \in P PROVE m + 1 \in P
  <2>1. PICK it \in [Upto(m) -> A] : \A s \in Upto(m) : it[s] = next(it, s)
    BY <1>2
  <2>2. PICK new : new = [s \in Upto(m + 1) |-> next(it, s)]
    OBVIOUS
  <2>3. ASSUME NEW s \in Upto(m + 1), s # {} PROVE s \ {Max(s)} \in Upto(m) /\ Max(s) \in 1..n
    BY <1>0, <2>3
  <2>4. ASSUME NEW s \in Upto(m) PROVE s \in Upto(m + 1) /\ new[s] = it[s]
    <3>1. s \in SUBSET (1..n) /\ Cardinality(s) <= m
      OBVIOUS
    <3>2. Cardinality(s) \in Nat
      BY <1>0, <3>1
    <3>3. s \in Upto(m + 1)
      BY <3>1, <3>2
    <3> QED
      BY <2>1, <2>2, <3>3
  <2> HIDE DEF Upto
  <2>5. ASSUME NEW s \in Upto(m + 1) PROVE new[s] = next(new, s) /\ new[s] \in A
    <3>1. CASE s = {}
      BY <2>2, <3>1
    <3>2. CASE s # {}
      <4>1. PICK t : t = s \ {Max(s)}
        OBVIOUS
      <4>2. t \in Upto(m) /\ Max(s) \in 1..n
        BY <2>3, <3>2, <4>1
      <4>3. new[t] = it[t] /\ it[t] \in A
        BY <2>4, <4>2
      <4>4. <<it[t], Max(s)>> \in A \X (1..n)
        BY <4>2, <4>3
      <4>5. new[s] = step[<<it[t], Max(s)>>]
        BY <2>2, <3>2, <4>1
      <4> QED
        BY <3>2, <4>1, <4>3, <4>4, <4>5
    <3> QED
      BY <3>1, <3>2
  <2>6. new \in [Upto(m + 1) -> A]
    BY <2>2, <2>5
  <2>7. Fine(m + 1)
    BY <2>5, <2>6
  <2> HIDE DEF Fine
  <2> QED
    BY <2>7
<1>3. n \in P
  <2> HIDE DEF P
  <2> QED
    BY <1>1, <1>2, NatSetInduction
<1>4. Upto(n) = SUBSET (1..n)
  BY <1>0
<1> QED
  BY <1>3, <1>4 DEF Folds

\* The values a step by step computation goes through.
Goes(p, n, A, base, step) ==
    /\ p \in [0..n -> A]
    /\ p[0] = base
    /\ \A k \in 1..n : p[k] = step[<<p[k - 1], k>>]

\* So do the intermediate results of a left fold, one after another.
LEMMA StepsExist ==
    ASSUME NEW n \in Nat, NEW A, NEW base \in A, NEW step, StepOn(step, n, A)
    PROVE  \E p : Goes(p, n, A, base, step)
<1>1. PICK it : Folds(it, n, A, base, step)
  BY FoldExists
<1>2. PICK p : p = [k \in 0..n |-> it[1..k]]
  OBVIOUS
<1>3. p \in [0..n -> A]
  <2>1. \A k \in 0..n : 1..k \in SUBSET (1..n)
    OBVIOUS
  <2> QED
    BY <1>1, <1>2, <2>1 DEF Folds
<1>4. p[0] = base
  <2>1. 1..0 = {} /\ {} \in SUBSET (1..n)
    OBVIOUS
  <2>2. it[{}] = base
    BY <1>1, <2>1 DEF Folds
  <2> QED
    BY <1>2, <2>1, <2>2
<1>5. ASSUME NEW k \in 1..n PROVE p[k] = step[<<p[k - 1], k>>]
  <2>1. it[1..k] = step[<<it[(1..k) \ {Max(1..k)}], Max(1..k)>>]
    BY <1>1, PrefixOfPositions DEF Folds
  <2>2. it[1..k] = step[<<it[1..(k - 1)], k>>]
    BY <2>1, PrefixOfPositions
  <2>3. k \in 0..n /\ k - 1 \in 0..n
    OBVIOUS
  <2> QED
    BY <1>2, <2>2, <2>3
<1> QED
  BY <1>3, <1>4, <1>5 DEF Goes
\* A fold from left to right takes the prefixes one after the other.
LEMMA FoldOfPrefixes ==
    ASSUME NEW n \in Nat, NEW base, NEW h,
           NEW j, j = [s \in SUBSET (1..n) |-> IF s = {} THEN base ELSE h[s]]
    PROVE  j[1..0] = base /\ \A k \in 1..n : j[1..k] = h[1..k] /\ 1..k \in SUBSET (1..n)
<1>1. 1..0 = {} /\ {} \in SUBSET (1..n)
  OBVIOUS
<1>2. \A k \in 1..n : 1..k \in SUBSET (1..n) /\ 1..k # {}
  BY PrefixOfPositions
<1> QED
  BY <1>1, <1>2

-----------------------------------------------------------------------------
(***************************************************************************)
(* Flattening and deduplication                                            *)
(***************************************************************************)

FlattenIter(it, seqs) ==
    it = [i \in 1..Len(seqs) |-> IF i = 1 THEN seqs[i] ELSE it[i - 1] \o seqs[i]]

\* FlattenSeq, by the function that defines it.
LEMMA FlattenIs ==
    \A seqs : FlattenSeq(seqs) =
        IF Len(seqs) = 0 THEN seqs ELSE (CHOOSE it : FlattenIter(it, seqs))[Len(seqs)]
BY DEF FlattenSeq, FlattenIter

\* A flattened sequence of sequences over R is a sequence over R.
LEMMA FlattenType ==
    ASSUME NEW R, NEW seqs \in Seq(Seq(R))
    PROVE  FlattenSeq(seqs) \in Seq(R)
<1>1. PICK n \in Nat : n = Len(seqs) /\ DOMAIN seqs = 1..n
  OBVIOUS
<1>2. PICK step : step = [x \in Seq(R) \X (1..n) |-> x[1] \o seqs[x[2]]]
  OBVIOUS
<1>3. step \in [Seq(R) \X (1..n) -> Seq(R)]
  <2>1. \A x \in Seq(R) \X (1..n) : x[1] \in Seq(R) /\ seqs[x[2]] \in Seq(R)
    BY <1>1
  <2>2. \A x \in Seq(R) \X (1..n) : x[1] \o seqs[x[2]] \in Seq(R)
    BY <2>1
  <2> QED
    BY <1>2, <2>2
<1>4. PICK p \in [0..n -> Seq(R)] :
         p[0] = <<>> /\ \A k \in 1..n : p[k] = step[<<p[k - 1], k>>]
  <2>1. PICK A : A = Seq(R)
    OBVIOUS
  <2>2. PICK base : base = <<>>
    OBVIOUS
  <2>3. base \in A /\ StepOn(step, n, A)
    BY <1>3, <2>1, <2>2 DEF StepOn
  <2>4. PICK p : Goes(p, n, A, base, step)
    BY <2>3, StepsExist
  <2> QED
    BY <2>1, <2>2, <2>4 DEF Goes
<1>5. ASSUME NEW k \in 1..n PROVE p[k] = p[k - 1] \o seqs[k] /\ p[k - 1] \in Seq(R)
  <2>1. k - 1 \in 0..n
    OBVIOUS
  <2>2. <<p[k - 1], k>> \in Seq(R) \X (1..n)
    BY <2>1
  <2> QED
    BY <1>2, <1>4, <2>1, <2>2
<1>6. PICK it : it = [i \in 1..n |-> p[i]]
  OBVIOUS
<1>7. FlattenIter(it, seqs)
  <2>1. ASSUME NEW i \in 1..n
        PROVE  p[i] = IF i = 1 THEN seqs[i] ELSE it[i - 1] \o seqs[i]
    <3>1. CASE i = 1
      <4>1. p[i] = <<>> \o seqs[i] /\ seqs[i] \in Seq(R)
        <5>1. i - 1 = 0
          BY <3>1
        <5>2. p[i] = p[0] \o seqs[i]
          BY <1>5, <5>1
        <5> QED
          BY <1>1, <1>4, <5>2
      <4> QED
        BY <3>1, <4>1
    <3>2. CASE i # 1
      <4>1. i - 1 \in 1..n
        BY <3>2
      <4> QED
        BY <1>5, <1>6, <3>2, <4>1
    <3> QED
      BY <3>1, <3>2
  <2> QED
    BY <1>1, <1>6, <2>1 DEF FlattenIter
<1>8. PICK j : j = CHOOSE f : FlattenIter(f, seqs)
  OBVIOUS
<1>9. FlattenIter(j, seqs)
  BY <1>7, <1>8
<1>10. \A k \in 1..n : j[k] = IF k = 1 THEN seqs[k] ELSE j[k - 1] \o seqs[k]
  BY <1>1, <1>9 DEF FlattenIter
<1> DEFINE P == {k \in Nat : k \in 1..n => j[k] \in Seq(R)}
<1>11. 0 \in P
  OBVIOUS
<1>12. ASSUME NEW k \in Nat, k \in P PROVE k + 1 \in P
  <2> SUFFICES ASSUME k + 1 \in 1..n PROVE j[k + 1] \in Seq(R)
    OBVIOUS
  <2>1. PICK m \in 1..n : m = k + 1
    OBVIOUS
  <2>2. seqs[m] \in Seq(R)
    BY <1>1
  <2>3. CASE k = 0
    BY <1>10, <2>1, <2>2, <2>3
  <2>4. CASE k # 0
    <3>1. k \in 1..n /\ m # 1 /\ m - 1 = k
      BY <2>1, <2>4
    <3>2. j[k] \in Seq(R)
      BY <1>12, <3>1
    <3>3. j[m] = j[k] \o seqs[m]
      BY <1>10, <3>1
    <3> QED
      BY <2>1, <2>2, <3>2, <3>3
  <2> QED
    BY <2>3, <2>4
<1>13. n \in P
  <2> HIDE DEF P
  <2> QED
    BY <1>11, <1>12, NatSetInduction
<1>14. CASE n = 0
  <2>1. FlattenSeq(seqs) = seqs
    BY <1>1, <1>14, FlattenIs
  <2>2. seqs \in Seq(R)
    BY <1>1, <1>14
  <2> QED
    BY <2>1, <2>2
<1>15. CASE n # 0
  <2>1. FlattenSeq(seqs) = j[n]
    BY <1>1, <1>8, <1>15, FlattenIs
  <2> QED
    BY <1>13, <1>15, <2>1
<1> QED
  BY <1>14, <1>15

\* Deduplication, record by record.
DedupStep(accepted, r) ==
    IF \E i \in DOMAIN accepted : Similar(r, accepted[i]) THEN accepted
    ELSE Append(accepted, r)

DedupIter(it, records) ==
    it = [s \in SUBSET DOMAIN records |->
            IF s = {} THEN <<>> ELSE DedupStep(it[s \ {Max(s)}], records[Max(s)])]
DedupGoes(p, records) ==
    /\ p[0] = <<>>
    /\ \A k \in 1..Len(records) : p[k] = DedupStep(p[k - 1], records[k])

\* Deduplicate, by the function that defines its fold.
LEMMA DedupIs ==
    \A records : Deduplicate(records) =
        (CHOOSE it : DedupIter(it, records))[DOMAIN records]
BY DEF Deduplicate, FoldLeft, MapThenFoldSet, DedupIter, DedupStep

\* Every step of the deduplication keeps a sequence of records.
LEMMA DedupStepType ==
    ASSUME NEW R, NEW accepted \in Seq(R), NEW r \in R
    PROVE  DedupStep(accepted, r) \in Seq(R)
BY DEF DedupStep

\* Deduplicate goes through the records one by one (deduplicate_records).
LEMMA DedupSteps ==
    ASSUME NEW R, NEW records \in Seq(R)
    PROVE  \E p : DedupGoes(p, records) /\ Deduplicate(records) = p[Len(records)]
<1>1. PICK n \in Nat : n = Len(records) /\ DOMAIN records = 1..n
  OBVIOUS
<1>2. PICK A : A = Seq(R)
  OBVIOUS
<1>3. PICK base : base = <<>>
  OBVIOUS
<1>4. base \in A /\ \A acc \in A, k \in 1..n : DedupStep(acc, records[k]) \in A
  BY <1>1, <1>2, <1>3, DedupStepType
<1>5. PICK step : step = [x \in A \X (1..n) |-> DedupStep(x[1], records[x[2]])]
  OBVIOUS
<1>6. StepOn(step, n, A)
  BY <1>4, <1>5 DEF StepOn
<1>7. PICK it : Folds(it, n, A, base, step)
  BY <1>4, <1>6, FoldExists
<1>8. DedupIter(it, records)
  <2>1. ASSUME NEW s \in SUBSET (1..n), s # {}
        PROVE  it[s] = DedupStep(it[s \ {Max(s)}], records[Max(s)])
    <3>1. PICK t : t = s \ {Max(s)}
      OBVIOUS
    <3>2. PICK k : k = Max(s)
      OBVIOUS
    <3>3. t \in SUBSET (1..n) /\ k \in 1..n
      BY <2>1, <3>1, <3>2, RestOfPositions
    <3>4. it[t] \in A /\ it[s] = step[<<it[t], k>>]
      BY <1>7, <2>1, <3>1, <3>2, <3>3 DEF Folds
    <3>5. <<it[t], k>> \in A \X (1..n)
      BY <3>3, <3>4
    <3>6. step[<<it[t], k>>] = DedupStep(it[t], records[k])
      BY <1>5, <3>5
    <3> QED
      BY <3>1, <3>2, <3>4, <3>6
  <2>2. it[{}] = base /\ it \in [SUBSET (1..n) -> A]
    BY <1>7 DEF Folds
  <2>3. it = [s \in SUBSET (1..n) |->
                IF s = {} THEN base ELSE DedupStep(it[s \ {Max(s)}], records[Max(s)])]
    BY <2>1, <2>2
  <2> QED
    BY <1>1, <1>3, <2>3 DEF DedupIter
<1>9. PICK j : j = CHOOSE f : DedupIter(f, records)
  OBVIOUS
<1>10. DedupIter(j, records)
  BY <1>8, <1>9
<1>11. PICK h : h = [s \in SUBSET (1..n) |-> DedupStep(j[s \ {Max(s)}], records[Max(s)])]
  OBVIOUS
<1>12. j = [s \in SUBSET (1..n) |-> IF s = {} THEN base ELSE h[s]]
  <2>1. j = [s \in SUBSET (1..n) |->
               IF s = {} THEN base ELSE DedupStep(j[s \ {Max(s)}], records[Max(s)])]
    BY <1>1, <1>3, <1>10 DEF DedupIter
  <2> QED
    BY <1>11, <2>1
<1>13. /\ j[1..0] = base
       /\ \A k \in 1..n : j[1..k] = h[1..k] /\ 1..k \in SUBSET (1..n)
  BY <1>12, FoldOfPrefixes
<1>14. PICK p : p = [k \in 0..n |-> j[1..k]]
  OBVIOUS
<1>15. ASSUME NEW k \in 1..n PROVE p[k] = DedupStep(p[k - 1], records[k])
  <2>1. k \in 0..n /\ k - 1 \in 0..n
    OBVIOUS
  <2>2. h[1..k] = DedupStep(j[(1..k) \ {Max(1..k)}], records[Max(1..k)])
    BY <1>11, <1>13
  <2>3. h[1..k] = DedupStep(j[1..(k - 1)], records[k])
    BY <2>2, PrefixOfPositions
  <2> QED
    BY <1>13, <1>14, <2>1, <2>3
<1>16. p[0] = base
  BY <1>13, <1>14
<1>17. DedupGoes(p, records)
  BY <1>1, <1>3, <1>15, <1>16 DEF DedupGoes
<1>18. j[DOMAIN records] = p[n]
  BY <1>1, <1>14
<1> QED
  BY <1>1, <1>9, <1>17, <1>18, DedupIs

-----------------------------------------------------------------------------
(***************************************************************************)
(* Similarity and stripping                                                *)
(***************************************************************************)

\* Similarity has no direction.
LEMMA SimilarSymmetric == \A a, b : Similar(a, b) <=> Similar(b, a)
<1> TAKE a, b
<1>1. PICK fa : fa = Fingerprint(a)
  OBVIOUS
<1>2. PICK fb : fb = Fingerprint(b)
  OBVIOUS
<1>3. /\ fa \cap fb = fb \cap fa
      /\ {Cardinality(fa), Cardinality(fb)} = {Cardinality(fb), Cardinality(fa)}
  OBVIOUS
<1>4. Similar(a, b) <=> 5 * Cardinality(fa \cap fb) >= 4 * Min({Cardinality(fa), Cardinality(fb)})
  BY <1>1, <1>2 DEF Similar, Alike
<1>5. Similar(b, a) <=> 5 * Cardinality(fb \cap fa) >= 4 * Min({Cardinality(fb), Cardinality(fa)})
  BY <1>1, <1>2 DEF Similar, Alike
<1> QED
  BY <1>3, <1>4, <1>5

\* Records of which no two are similar.
Dissimilar(records) ==
    \A i, j \in DOMAIN records : i # j => ~Similar(records[i], records[j])

\* A step of the deduplication accepts nothing that is similar to what it has.
LEMMA DedupKeeps ==
    ASSUME NEW R, NEW accepted \in Seq(R), NEW r \in R, Dissimilar(accepted)
    PROVE  Dissimilar(DedupStep(accepted, r))
<1>1. CASE \E i \in DOMAIN accepted : Similar(r, accepted[i])
  BY <1>1 DEF DedupStep
<1>2. CASE ~\E i \in DOMAIN accepted : Similar(r, accepted[i])
  <2>1. PICK n \in Nat : n = Len(accepted) /\ DOMAIN accepted = 1..n
    OBVIOUS
  <2>2. PICK new : new = Append(accepted, r)
    OBVIOUS
  <2>3. /\ DOMAIN new = 1..(n + 1) /\ new[n + 1] = r
        /\ \A i \in 1..n : new[i] = accepted[i]
    BY <2>1, <2>2
  <2>4. ASSUME NEW i \in DOMAIN new, NEW j \in DOMAIN new, i # j
        PROVE  ~Similar(new[i], new[j])
    <3>1. CASE i \in 1..n /\ j \in 1..n
      BY <2>1, <2>3, <2>4, <3>1 DEF Dissimilar
    <3>2. CASE i = n + 1 /\ j \in 1..n
      BY <1>2, <2>1, <2>3, <3>2
    <3>3. CASE i \in 1..n /\ j = n + 1
      <4>1. ~Similar(r, accepted[i])
        BY <1>2, <2>1, <3>3
      <4> QED
        BY <2>3, <3>3, <4>1, SimilarSymmetric
    <3> QED
      BY <2>3, <2>4, <3>1, <3>2, <3>3
  <2>5. DedupStep(accepted, r) = new
    BY <1>2, <2>2 DEF DedupStep
  <2> QED
    BY <2>4, <2>5 DEF Dissimilar
<1> QED
  BY <1>1, <1>2

\* What is left of records are some of them, no two of them similar.
LEMMA Deduplicated ==
    ASSUME NEW R, NEW records \in Seq(R)
    PROVE  Deduplicate(records) \in Seq(R) /\ Dissimilar(Deduplicate(records))
<1>1. PICK n \in Nat : n = Len(records) /\ \A k \in 1..n : records[k] \in R
  OBVIOUS
<1>2. PICK p : DedupGoes(p, records) /\ Deduplicate(records) = p[n]
  BY <1>1, DedupSteps
<1>3. /\ p[0] = <<>>
      /\ \A k \in 1..n : p[k] = DedupStep(p[k - 1], records[k])
  BY <1>1, <1>2 DEF DedupGoes
<1> DEFINE P == {k \in Nat : k <= n => p[k] \in Seq(R) /\ Dissimilar(p[k])}
<1>4. 0 \in P
  <2>1. Dissimilar(<<>>)
    BY DEF Dissimilar
  <2>2. <<>> \in Seq(R)
    OBVIOUS
  <2>3. p[0] \in Seq(R) /\ Dissimilar(p[0])
    BY <1>3, <2>1, <2>2
  <2> QED
    BY <2>3
<1>5. ASSUME NEW k \in Nat, k \in P PROVE k + 1 \in P
  <2> SUFFICES ASSUME k + 1 <= n PROVE p[k + 1] \in Seq(R) /\ Dissimilar(p[k + 1])
    OBVIOUS
  <2>1. PICK m \in 1..n : m = k + 1
    OBVIOUS
  <2>2. p[k] \in Seq(R) /\ Dissimilar(p[k]) /\ records[m] \in R
    BY <1>1, <1>5, <2>1
  <2>3. p[m] = DedupStep(p[k], records[m])
    BY <1>3, <2>1
  <2>4. DedupStep(p[k], records[m]) \in Seq(R)
    BY <2>2, DedupStepType
  <2>5. Dissimilar(DedupStep(p[k], records[m]))
    BY <2>2, DedupKeeps
  <2> QED
    BY <2>1, <2>3, <2>4, <2>5
<1>6. n \in P
  <2> HIDE DEF P
  <2> QED
    BY <1>4, <1>5, NatSetInduction
<1> QED
  BY <1>2, <1>6

\* A text with a symbol that is no white space.
HasInk(text) == \E i \in DOMAIN text : text[i] \notin {Para, Line}

\* What a part between two positions consists of.
LEMMA SubSeqType ==
    ASSUME NEW R, NEW s \in Seq(R), NEW m \in Nat \ {0}, NEW n \in 0..Len(s)
    PROVE  /\ SubSeq(s, m, n) \in Seq(R)
           /\ m <= n + 1 => Len(SubSeq(s, m, n)) = n - m + 1
           /\ \A i \in 1..(n - m + 1) : SubSeq(s, m, n)[i] = s[m + i - 1]
<1>1. PICK l \in Nat : l = Len(s)
  OBVIOUS
<1>2. m \in Nat /\ n \in Nat /\ 1 <= m /\ n <= l
  BY <1>1
<1> QED
  BY <1>1, <1>2

\* A stripped text is a text, empty exactly where the text has no ink.
LEMMA StripOf ==
    ASSUME NEW text \in Text
    PROVE  /\ Strip(text) \in Text /\ Len(Strip(text)) <= Len(text)
           /\ HasInk(text) => HasInk(Strip(text))
           /\ HasInk(text) <=> Strip(text) # <<>>
<1> DEFINE ink == {i \in DOMAIN text : text[i] \notin {Para, Line}}
<1>0. PICK S : Text = Seq(S)
  BY DEF Text
<1>1. PICK n \in Nat : n = Len(text) /\ DOMAIN text = 1..n
  BY <1>0
<1>2. CASE ink = {}
  <2>1. Strip(text) = <<>>
    BY <1>2 DEF Strip
  <2>2. ~HasInk(text)
    BY <1>2 DEF HasInk
  <2> QED
    BY <1>0, <1>1, <2>1, <2>2
<1>3. CASE ink # {}
  <2>1. Strip(text) = SubSeq(text, Min(ink), Max(ink))
    BY <1>3 DEF Strip
  <2>2. PICK I : I = ink
    OBVIOUS
  <2>3. I \subseteq 0..n /\ I \subseteq Nat /\ I # {}
    BY <1>1, <1>3, <2>2
  <2>4. PICK a, b : a = Min(I) /\ b = Max(I)
    OBVIOUS
  <2>5. a \in I /\ b \in I /\ a <= b
    BY <2>3, <2>4, MinIs, MaxIs
  <2>6. a \in 1..n /\ b \in 1..n /\ a \in Nat \ {0} /\ b \in 0..n /\ a <= b
    BY <1>1, <2>2, <2>5
  <2>7. PICK s : s = SubSeq(text, a, b)
    OBVIOUS
  <2>8. s \in Text /\ Len(s) = b - a + 1 /\ \A i \in 1..(b - a + 1) : s[i] = text[a + i - 1]
    BY <1>0, <1>1, <2>6, <2>7, SubSeqType
  <2>9. 1 \in DOMAIN s /\ s[1] = text[a]
    BY <1>0, <2>6, <2>8
  <2>10. HasInk(s) /\ HasInk(text) /\ s # <<>>
    BY <1>1, <2>2, <2>5, <2>6, <2>9 DEF HasInk
  <2> QED
    BY <1>1, <2>1, <2>2, <2>4, <2>6, <2>7, <2>8, <2>10
<1> QED
  BY <1>2, <1>3

-----------------------------------------------------------------------------
(***************************************************************************)
(* Joining texts                                                           *)
(***************************************************************************)

TextParts == Word \cup {Special, Para, Line}
InkText == {text \in Text : HasInk(text)}

\* A text is a sequence of its symbols.
LEMMA TextIs == Text = Seq(TextParts) /\ <<>> \in Text /\ \A t \in Text : t \in Seq(TextParts)
<1>1. Text = Seq(TextParts)
  BY DEF Text, TextParts
<1> QED
  BY <1>1

\* The texts that join others.
LEMMA SmallTexts == <<>> \in Text /\ <<Para>> \in Text
<1>1. <<Para>> \in Seq(TextParts) /\ <<>> \in Seq(TextParts)
  BY DEF TextParts
<1> QED
  BY <1>1, TextIs

\* Two texts one after another are a text.
LEMMA JoinText ==
    ASSUME NEW a \in Text, NEW b \in Text
    PROVE  a \o b \in Text /\ (HasInk(b) => HasInk(a \o b))
<1>1. PICK S : Text = Seq(S)
  BY DEF Text
<1>2. a \o b \in Seq(S)
  BY <1>1
<1>3. ASSUME NEW i \in DOMAIN b, b[i] \notin {Para, Line} PROVE HasInk(a \o b)
  <2>1. i + Len(a) \in DOMAIN (a \o b) /\ (a \o b)[i + Len(a)] = b[i]
    BY <1>1
  <2> QED
    BY <1>3, <2>1 DEF HasInk
<1> QED
  BY <1>1, <1>2, <1>3 DEF HasInk

\* Joining, text by text.
JoinStep(all, text) == IF all = <<>> THEN text ELSE all \o <<Para>> \o text

JoinIter(it, texts) ==
    it = [s \in SUBSET DOMAIN texts |->
            IF s = {} THEN <<>> ELSE JoinStep(it[s \ {Max(s)}], texts[Max(s)])]
JoinGoes(p, texts) ==
    /\ p[0] = <<>>
    /\ \A k \in 1..Len(texts) : p[k] = JoinStep(p[k - 1], texts[k])

\* Join, by the function that defines its fold.
LEMMA JoinIs ==
    \A texts : Join(texts) = (CHOOSE it : JoinIter(it, texts))[DOMAIN texts]
BY DEF Join, FoldLeft, MapThenFoldSet, JoinIter, JoinStep

\* A step of a join keeps a text, with ink if what it adds has some.
LEMMA JoinStepKeeps ==
    ASSUME NEW all \in Text, NEW text \in Text
    PROVE  JoinStep(all, text) \in Text /\ (HasInk(text) => HasInk(JoinStep(all, text)))
<1>1. all \o <<Para>> \in Text
  BY SmallTexts, JoinText
<1>2. /\ (all \o <<Para>>) \o text \in Text
      /\ HasInk(text) => HasInk((all \o <<Para>>) \o text)
  BY <1>1, JoinText
<1> QED
  BY <1>2 DEF JoinStep

\* A step of a join keeps a text.
LEMMA JoinStepType == \A all, text \in Text : JoinStep(all, text) \in Text
BY JoinStepKeeps

\* Join goes through the texts one by one.
LEMMA JoinSteps ==
    ASSUME NEW texts \in Seq(Text)
    PROVE  \E p : JoinGoes(p, texts) /\ Join(texts) = p[Len(texts)]
<1>1. PICK n \in Nat : n = Len(texts) /\ DOMAIN texts = 1..n
  OBVIOUS
<1>2. PICK A : A = Text
  OBVIOUS
<1>3. PICK base : base = <<>>
  OBVIOUS
<1>4. base \in A /\ \A acc \in A, k \in 1..n : JoinStep(acc, texts[k]) \in A
  BY <1>1, <1>2, <1>3, JoinStepType, SmallTexts
<1>5. PICK step : step = [x \in A \X (1..n) |-> JoinStep(x[1], texts[x[2]])]
  OBVIOUS
<1>6. StepOn(step, n, A)
  BY <1>4, <1>5 DEF StepOn
<1>7. PICK it : Folds(it, n, A, base, step)
  BY <1>4, <1>6, FoldExists
<1>8. JoinIter(it, texts)
  <2>1. ASSUME NEW s \in SUBSET (1..n), s # {}
        PROVE  it[s] = JoinStep(it[s \ {Max(s)}], texts[Max(s)])
    <3>1. PICK t : t = s \ {Max(s)}
      OBVIOUS
    <3>2. PICK k : k = Max(s)
      OBVIOUS
    <3>3. t \in SUBSET (1..n) /\ k \in 1..n
      BY <2>1, <3>1, <3>2, RestOfPositions
    <3>4. it[t] \in A /\ it[s] = step[<<it[t], k>>]
      BY <1>7, <2>1, <3>1, <3>2, <3>3 DEF Folds
    <3>5. <<it[t], k>> \in A \X (1..n)
      BY <3>3, <3>4
    <3>6. step[<<it[t], k>>] = JoinStep(it[t], texts[k])
      BY <1>5, <3>5
    <3> QED
      BY <3>1, <3>2, <3>4, <3>6
  <2>2. it[{}] = base /\ it \in [SUBSET (1..n) -> A]
    BY <1>7 DEF Folds
  <2>3. it = [s \in SUBSET (1..n) |->
                IF s = {} THEN base ELSE JoinStep(it[s \ {Max(s)}], texts[Max(s)])]
    BY <2>1, <2>2
  <2> QED
    BY <1>1, <1>3, <2>3 DEF JoinIter
<1>9. PICK j : j = CHOOSE f : JoinIter(f, texts)
  OBVIOUS
<1>10. JoinIter(j, texts)
  BY <1>8, <1>9
<1>11. PICK h : h = [s \in SUBSET (1..n) |-> JoinStep(j[s \ {Max(s)}], texts[Max(s)])]
  OBVIOUS
<1>12. j = [s \in SUBSET (1..n) |-> IF s = {} THEN base ELSE h[s]]
  <2>1. j = [s \in SUBSET (1..n) |->
               IF s = {} THEN base ELSE JoinStep(j[s \ {Max(s)}], texts[Max(s)])]
    BY <1>1, <1>3, <1>10 DEF JoinIter
  <2> QED
    BY <1>11, <2>1
<1>13. /\ j[1..0] = base
       /\ \A k \in 1..n : j[1..k] = h[1..k] /\ 1..k \in SUBSET (1..n)
  BY <1>12, FoldOfPrefixes
<1>14. PICK p : p = [k \in 0..n |-> j[1..k]]
  OBVIOUS
<1>15. ASSUME NEW k \in 1..n PROVE p[k] = JoinStep(p[k - 1], texts[k])
  <2>1. k \in 0..n /\ k - 1 \in 0..n
    OBVIOUS
  <2>2. h[1..k] = JoinStep(j[(1..k) \ {Max(1..k)}], texts[Max(1..k)])
    BY <1>11, <1>13
  <2>3. h[1..k] = JoinStep(j[1..(k - 1)], texts[k])
    BY <2>2, PrefixOfPositions
  <2> QED
    BY <1>13, <1>14, <2>1, <2>3
<1>16. p[0] = base
  BY <1>13, <1>14
<1>17. JoinGoes(p, texts)
  BY <1>1, <1>3, <1>15, <1>16 DEF JoinGoes
<1>18. j[DOMAIN texts] = p[n]
  BY <1>1, <1>14
<1> QED
  BY <1>1, <1>9, <1>17, <1>18, JoinIs

\* Texts joined are a text, with ink if all of them have some.
LEMMA Joined ==
    ASSUME NEW texts \in Seq(Text)
    PROVE  /\ Join(texts) \in Text
           /\ texts \in Seq(InkText) /\ texts # <<>> => Join(texts) \in InkText
<1>1. PICK n \in Nat : n = Len(texts) /\ DOMAIN texts = 1..n /\ \A k \in 1..n : texts[k] \in Text
  OBVIOUS
<1>2. PICK p : JoinGoes(p, texts) /\ Join(texts) = p[n]
  BY <1>1, JoinSteps
<1>3. /\ p[0] = <<>>
      /\ \A k \in 1..n : p[k] = JoinStep(p[k - 1], texts[k])
  BY <1>1, <1>2 DEF JoinGoes
<1> DEFINE P == {k \in Nat : k <= n => p[k] \in Text}
<1>4. 0 \in P
  BY <1>3, SmallTexts
<1>5. ASSUME NEW k \in Nat, k \in P PROVE k + 1 \in P
  <2> SUFFICES ASSUME k + 1 <= n PROVE p[k + 1] \in Text
    OBVIOUS
  <2>1. PICK m \in 1..n : m = k + 1
    OBVIOUS
  <2>2. p[k] \in Text /\ texts[m] \in Text
    BY <1>1, <1>5, <2>1
  <2>3. p[m] = JoinStep(p[k], texts[m])
    BY <1>3, <2>1
  <2> QED
    BY <2>1, <2>2, <2>3, JoinStepType
<1>6. Nat \subseteq P
  <2> HIDE DEF P
  <2> QED
    BY <1>4, <1>5, NatSetInduction
<1>7. p[n] \in Text
  BY <1>6
<1>8. ASSUME texts \in Seq(InkText), texts # <<>> PROVE p[n] \in InkText
  <2>1. n \in 1..n /\ texts[n] \in InkText /\ n - 1 \in Nat
    <3>1. n # 0
      BY <1>1, <1>8
    <3> QED
      BY <1>1, <1>8, <3>1
  <2>2. p[n - 1] \in Text /\ texts[n] \in Text /\ HasInk(texts[n])
    BY <1>6, <2>1 DEF InkText
  <2>3. p[n] = JoinStep(p[n - 1], texts[n])
    BY <1>3, <2>1
  <2> QED
    BY <2>2, <2>3, JoinStepKeeps DEF InkText
<1> QED
  BY <1>2, <1>7, <1>8

\* The texts of some fields, each with ink.
LEMMA TextsType ==
    ASSUME NEW fields \in Seq(Text)
    PROVE  Texts(fields) \in Seq(InkText) /\ Texts(fields) \in Seq(Text)
<1>1. PICK S : S = {i \in DOMAIN fields : Inked(fields[i])}
  OBVIOUS
<1>2. PICK inked : inked = At(fields, S)
  OBVIOUS
<1>3. PICK c \in Nat : /\ DOMAIN inked = 1..c
                      /\ \A k \in 1..c : Nth(S, k) \in S /\ inked[k] = fields[Nth(S, k)]
  <2>1. S \subseteq DOMAIN fields
    BY <1>1
  <2>2. PICK c : c = Cardinality(S)
    OBVIOUS
  <2>3. /\ DOMAIN inked = 1..c /\ c \in Nat
        /\ \A k \in 1..c : Nth(S, k) \in S /\ inked[k] = fields[Nth(S, k)]
    BY <1>2, <2>1, <2>2, PartOfAt
  <2> QED
    BY <2>3
<1>4. ASSUME NEW k \in 1..c PROVE Strip(inked[k]) \in InkText
  <2>1. PICK i \in DOMAIN fields : inked[k] = fields[i] /\ Inked(fields[i])
    BY <1>1, <1>3
  <2>2. fields[i] \in Text /\ Strip(fields[i]) # <<>>
    BY <2>1 DEF Inked
  <2> QED
    BY <2>1, <2>2, StripOf DEF InkText
<1>5. Texts(fields) = [i \in DOMAIN inked |-> Strip(inked[i])]
  BY <1>1, <1>2 DEF Texts, Where
<1>6. Texts(fields) = [i \in 1..c |-> Strip(inked[i])]
  BY <1>3, <1>5
<1>7. InkText \subseteq Text
  BY DEF InkText
<1> QED
  BY <1>4, <1>6, <1>7

-----------------------------------------------------------------------------
(***************************************************************************)
(* Units, chunks and segments                                              *)
(***************************************************************************)

\* Cutting a text, symbol by symbol.
SplitStep(units, s) ==
    IF s = Para THEN Append(units, <<>>) ELSE Append(Front(units), Append(Last(units), s))

SplitIter(it, text) ==
    it = [s \in SUBSET DOMAIN text |->
            IF s = {} THEN <<(<<>>)>> ELSE SplitStep(it[s \ {Max(s)}], text[Max(s)])]
SplitGoes(p, text) ==
    /\ p[0] = <<(<<>>)>>
    /\ \A k \in 1..Len(text) : p[k] = SplitStep(p[k - 1], text[k])

\* SplitUnits, by the function that defines its fold.
LEMMA SplitIs ==
    \A text : SplitUnits(text) =
        Texts((CHOOSE it : SplitIter(it, text))[DOMAIN text])
BY DEF SplitUnits, FoldLeft, MapThenFoldSet, SplitIter, SplitStep

\* A step of the split keeps a non-empty sequence of texts.
LEMMA SplitStepType ==
    ASSUME NEW units \in Seq(Text) \ {<<>>}, NEW s \in TextParts
    PROVE  SplitStep(units, s) \in Seq(Text) \ {<<>>}
<1>1. PICK n \in Nat : n = Len(units) /\ n > 0 /\ DOMAIN units = 1..n
  OBVIOUS
<1>2. Last(units) \in Text
  BY <1>1 DEF Last
<1>3. Append(Last(units), s) \in Text
  BY <1>2, TextIs
<1>4. Front(units) \in Seq(Text)
  <2>1. n - 1 \in 0..n /\ 1 \in 1..(n + 1)
    BY <1>1
  <2> QED
    BY <1>1, <2>1, SubSeqType DEF Front
<1>5. PICK front, last : front = Front(units) /\ last = Append(Last(units), s)
  OBVIOUS
<1>6. Append(front, last) \in Seq(Text) /\ Append(front, last) # <<>>
  BY <1>3, <1>4, <1>5
<1>7. Append(units, <<>>) \in Seq(Text) /\ Append(units, <<>>) # <<>>
  BY SmallTexts
<1> QED
  BY <1>5, <1>6, <1>7 DEF SplitStep

\* SplitUnits goes through the symbols one by one (_split_units).
LEMMA SplitSteps ==
    ASSUME NEW text \in Text
    PROVE  \E p : SplitGoes(p, text) /\ SplitUnits(text) = Texts(p[Len(text)])
<1>1. PICK n \in Nat : n = Len(text) /\ DOMAIN text = 1..n
  BY TextIs
<1>2. PICK A : A = Seq(Text) \ {<<>>}
  OBVIOUS
<1>3. PICK base : base = <<(<<>>)>>
  OBVIOUS
<1>4. base \in A /\ \A acc \in A, k \in 1..n : SplitStep(acc, text[k]) \in A
  <2>1. base \in A
    BY <1>2, <1>3, SmallTexts
  <2>2. ASSUME NEW acc \in A, NEW k \in 1..n PROVE SplitStep(acc, text[k]) \in A
    <3>1. text[k] \in TextParts
      BY <1>1, TextIs
    <3> QED
      BY <1>2, <3>1, SplitStepType
  <2> QED
    BY <2>1, <2>2
<1>5. PICK step : step = [x \in A \X (1..n) |-> SplitStep(x[1], text[x[2]])]
  OBVIOUS
<1>6. StepOn(step, n, A)
  BY <1>4, <1>5 DEF StepOn
<1>7. PICK it : Folds(it, n, A, base, step)
  BY <1>4, <1>6, FoldExists
<1>8. SplitIter(it, text)
  <2>1. ASSUME NEW s \in SUBSET (1..n), s # {}
        PROVE  it[s] = SplitStep(it[s \ {Max(s)}], text[Max(s)])
    <3>1. PICK t : t = s \ {Max(s)}
      OBVIOUS
    <3>2. PICK k : k = Max(s)
      OBVIOUS
    <3>3. t \in SUBSET (1..n) /\ k \in 1..n
      BY <2>1, <3>1, <3>2, RestOfPositions
    <3>4. it[t] \in A /\ it[s] = step[<<it[t], k>>]
      BY <1>7, <2>1, <3>1, <3>2, <3>3 DEF Folds
    <3>5. <<it[t], k>> \in A \X (1..n)
      BY <3>3, <3>4
    <3>6. step[<<it[t], k>>] = SplitStep(it[t], text[k])
      BY <1>5, <3>5
    <3> QED
      BY <3>1, <3>2, <3>4, <3>6
  <2>2. it[{}] = base /\ it \in [SUBSET (1..n) -> A]
    BY <1>7 DEF Folds
  <2>3. it = [s \in SUBSET (1..n) |->
                IF s = {} THEN base ELSE SplitStep(it[s \ {Max(s)}], text[Max(s)])]
    BY <2>1, <2>2
  <2> QED
    BY <1>1, <1>3, <2>3 DEF SplitIter
<1>9. PICK j : j = CHOOSE f : SplitIter(f, text)
  OBVIOUS
<1>10. SplitIter(j, text)
  BY <1>8, <1>9
<1>11. PICK h : h = [s \in SUBSET (1..n) |-> SplitStep(j[s \ {Max(s)}], text[Max(s)])]
  OBVIOUS
<1>12. j = [s \in SUBSET (1..n) |-> IF s = {} THEN base ELSE h[s]]
  <2>1. j = [s \in SUBSET (1..n) |->
               IF s = {} THEN base ELSE SplitStep(j[s \ {Max(s)}], text[Max(s)])]
    BY <1>1, <1>3, <1>10 DEF SplitIter
  <2> QED
    BY <1>11, <2>1
<1>13. /\ j[1..0] = base
       /\ \A k \in 1..n : j[1..k] = h[1..k] /\ 1..k \in SUBSET (1..n)
  BY <1>12, FoldOfPrefixes
<1>14. PICK p : p = [k \in 0..n |-> j[1..k]]
  OBVIOUS
<1>15. ASSUME NEW k \in 1..n PROVE p[k] = SplitStep(p[k - 1], text[k])
  <2>1. k \in 0..n /\ k - 1 \in 0..n
    OBVIOUS
  <2>2. h[1..k] = SplitStep(j[(1..k) \ {Max(1..k)}], text[Max(1..k)])
    BY <1>11, <1>13
  <2>3. h[1..k] = SplitStep(j[1..(k - 1)], text[k])
    BY <2>2, PrefixOfPositions
  <2> QED
    BY <1>13, <1>14, <2>1, <2>3
<1>16. p[0] = base
  BY <1>13, <1>14
<1>17. SplitGoes(p, text)
  BY <1>1, <1>3, <1>15, <1>16 DEF SplitGoes
<1>18. j[DOMAIN text] = p[n]
  BY <1>1, <1>14
<1> QED
  BY <1>1, <1>9, <1>17, <1>18, SplitIs

\* The units of a text are texts.
LEMMA SplitUnitsType == \A text \in Text : SplitUnits(text) \in Seq(Text)
<1> SUFFICES ASSUME NEW text \in Text PROVE SplitUnits(text) \in Seq(Text)
  OBVIOUS
<1>1. PICK n \in Nat : n = Len(text) /\ \A k \in 1..n : text[k] \in TextParts
  BY TextIs
<1>2. PICK p : SplitGoes(p, text) /\ SplitUnits(text) = Texts(p[n])
  BY <1>1, SplitSteps
<1>3. /\ p[0] = <<(<<>>)>>
      /\ \A k \in 1..n : p[k] = SplitStep(p[k - 1], text[k])
  BY <1>1, <1>2 DEF SplitGoes
<1> DEFINE P == {k \in Nat : k <= n => p[k] \in Seq(Text) \ {<<>>}}
<1>4. 0 \in P
  <2>1. p[0] \in Seq(Text) \ {<<>>}
    BY <1>3, SmallTexts
  <2> QED
    BY <2>1
<1>5. ASSUME NEW k \in Nat, k \in P PROVE k + 1 \in P
  <2> SUFFICES ASSUME k + 1 <= n PROVE p[k + 1] \in Seq(Text) \ {<<>>}
    OBVIOUS
  <2>1. PICK m \in 1..n : m = k + 1
    OBVIOUS
  <2>2. p[k] \in Seq(Text) \ {<<>>} /\ text[m] \in TextParts
    BY <1>1, <1>5, <2>1
  <2>3. p[m] = SplitStep(p[k], text[m])
    BY <1>3, <2>1
  <2>4. SplitStep(p[k], text[m]) \in Seq(Text) \ {<<>>}
    BY <2>2, SplitStepType
  <2> QED
    BY <2>1, <2>3, <2>4
<1>6. n \in P
  <2> HIDE DEF P
  <2> QED
    BY <1>4, <1>5, NatSetInduction
<1>7. p[n] \in Seq(Text)
  BY <1>6
<1> QED
  BY <1>2, <1>7, TextsType

\* The chunks of an overlong unit are texts.
LEMMA ChunksType == \A unit \in Text : Chunks(unit) \in Seq(Text)
<1> SUFFICES ASSUME NEW unit \in Text PROVE Chunks(unit) \in Seq(Text)
  OBVIOUS
<1>1. PICK l \in Nat : l = Len(unit)
  BY TextIs
<1>2. PICK t \in Nat : t = MaxTokens /\ t > 0
  BY RecordAssumption
<1>3. PICK q : q = (l + t - 1) \div t
  OBVIOUS
<1>4. q \in Nat
  BY <1>2, <1>3
<1>5. ASSUME NEW i \in 1..q
      PROVE  Strip(SubSeq(unit, (i - 1) * t + 1, Min({i * t, l}))) \in Text
  <2>1. PICK a : a = (i - 1) * t + 1
    OBVIOUS
  <2>2. a \in Nat /\ a > 0
    <3>1. i - 1 \in Nat
      BY <1>4
    <3>2. (i - 1) * t \in Nat
      BY <3>1
    <3> QED
      BY <2>1, <3>2
  <2>3. PICK b : b = Min({i * t, l})
    OBVIOUS
  <2>4. b \in 0..l
    <3>1. i * t \in Nat
      BY <1>4
    <3> QED
      BY <2>3, <3>1, MinOfTwo
  <2>5. SubSeq(unit, a, b) \in Text
    <3>1. unit \in Seq(TextParts) /\ b \in 0..Len(unit) /\ a \in Nat \ {0}
      BY <1>1, <2>2, <2>4, TextIs
    <3>2. SubSeq(unit, a, b) \in Seq(TextParts)
      BY <3>1, SubSeqType
    <3> QED
      BY <3>2, TextIs
  <2> QED
    BY <2>1, <2>3, <2>5, StripOf
<1>6. Chunks(unit) = [i \in 1..q |-> Strip(SubSeq(unit, (i - 1) * t + 1, Min({i * t, l})))]
  BY <1>1, <1>2, <1>3 DEF Chunks
<1>7. PICK c : c = Chunks(unit)
  OBVIOUS
<1>8. c = [i \in 1..q |-> c[i]] /\ \A i \in 1..q : c[i] \in Text
  BY <1>5, <1>6, <1>7
<1> QED
  BY ONLY <1>4, <1>7, <1>8

\* Gathering units into segments, unit by unit.
Flush(acc) == IF acc.current = <<>> THEN acc.done ELSE Append(acc.done, acc.current)
GatherStep(acc, unit) ==
    IF Len(unit) > MaxTokens THEN [done |-> Flush(acc) \o Chunks(unit), current |-> <<>>]
    ELSE IF acc.current # <<>> /\ Len(acc.current) + 1 + Len(unit) > MaxTokens
    THEN [done |-> Flush(acc), current |-> unit]
    ELSE [acc EXCEPT !.current = Join(<<@, unit>>)]

GatherIter(it, units) ==
    it = [s \in SUBSET DOMAIN units |->
            IF s = {} THEN [done |-> <<>>, current |-> <<>>]
            ELSE GatherStep(it[s \ {Max(s)}], units[Max(s)])]
GatherGoes(p, units) ==
    /\ p[0] = [done |-> <<>>, current |-> <<>>]
    /\ \A k \in 1..Len(units) : p[k] = GatherStep(p[k - 1], units[k])

\* Segments, by the function that defines its fold.
LEMMA GatherIs ==
    \A units : \A text : units = SplitUnits(text) =>
        Segments(text) = Flush((CHOOSE it : GatherIter(it, units))[DOMAIN units])
BY DEF Segments, Flush, FoldLeft, MapThenFoldSet, GatherIter, GatherStep

Gathered == [done : Seq(Text), current : Text]

\* What is gathered ends as a sequence of texts.
LEMMA FlushType == \A acc \in Gathered : Flush(acc) \in Seq(Text)
BY DEF Gathered, Flush

\* A step of the gathering keeps a state of it.
LEMMA GatherStepType ==
    ASSUME NEW acc \in Gathered, NEW unit \in Text
    PROVE  GatherStep(acc, unit) \in Gathered
<1>1. Flush(acc) \in Seq(Text) /\ Chunks(unit) \in Seq(Text) /\ <<>> \in Text
  BY FlushType, ChunksType, SmallTexts
<1>2. Flush(acc) \o Chunks(unit) \in Seq(Text)
  BY <1>1
<1>3. Join(<<acc.current, unit>>) \in Text
  <2>1. <<acc.current, unit>> \in Seq(Text)
    BY DEF Gathered
  <2> QED
    BY <2>1, Joined
<1>4. [acc EXCEPT !.current = Join(<<acc.current, unit>>)] \in Gathered
  BY <1>3 DEF Gathered
<1>5. /\ [done |-> Flush(acc) \o Chunks(unit), current |-> <<>>] \in Gathered
      /\ [done |-> Flush(acc), current |-> unit] \in Gathered
  BY <1>1, <1>2 DEF Gathered
<1> QED
  BY <1>4, <1>5 DEF GatherStep

\* Segments gathers the units one by one (segment_document).
LEMMA GatherSteps ==
    ASSUME NEW text, NEW units \in Seq(Text), units = SplitUnits(text)
    PROVE  \E p : GatherGoes(p, units) /\ Segments(text) = Flush(p[Len(units)])
<1>1. PICK n \in Nat : n = Len(units) /\ DOMAIN units = 1..n
  OBVIOUS
<1>2. PICK A : A = Gathered
  OBVIOUS
<1>3. PICK base : base = [done |-> <<>>, current |-> <<>>]
  OBVIOUS
<1>4. base \in A /\ \A acc \in A, k \in 1..n : GatherStep(acc, units[k]) \in A
  BY <1>1, <1>2, <1>3, GatherStepType, SmallTexts DEF Gathered
<1>5. PICK step : step = [x \in A \X (1..n) |-> GatherStep(x[1], units[x[2]])]
  OBVIOUS
<1>6. StepOn(step, n, A)
  BY <1>4, <1>5 DEF StepOn
<1>7. PICK it : Folds(it, n, A, base, step)
  BY <1>4, <1>6, FoldExists
<1>8. GatherIter(it, units)
  <2>1. ASSUME NEW s \in SUBSET (1..n), s # {}
        PROVE  it[s] = GatherStep(it[s \ {Max(s)}], units[Max(s)])
    <3>1. PICK t : t = s \ {Max(s)}
      OBVIOUS
    <3>2. PICK k : k = Max(s)
      OBVIOUS
    <3>3. t \in SUBSET (1..n) /\ k \in 1..n
      BY <2>1, <3>1, <3>2, RestOfPositions
    <3>4. it[t] \in A /\ it[s] = step[<<it[t], k>>]
      BY <1>7, <2>1, <3>1, <3>2, <3>3 DEF Folds
    <3>5. <<it[t], k>> \in A \X (1..n)
      BY <3>3, <3>4
    <3>6. step[<<it[t], k>>] = GatherStep(it[t], units[k])
      BY <1>5, <3>5
    <3> QED
      BY <3>1, <3>2, <3>4, <3>6
  <2>2. it[{}] = base /\ it \in [SUBSET (1..n) -> A]
    BY <1>7 DEF Folds
  <2>3. it = [s \in SUBSET (1..n) |->
                IF s = {} THEN base ELSE GatherStep(it[s \ {Max(s)}], units[Max(s)])]
    BY <2>1, <2>2
  <2> QED
    BY <1>1, <1>3, <2>3 DEF GatherIter
<1>9. PICK j : j = CHOOSE f : GatherIter(f, units)
  OBVIOUS
<1>10. GatherIter(j, units)
  BY <1>8, <1>9
<1>11. PICK h : h = [s \in SUBSET (1..n) |-> GatherStep(j[s \ {Max(s)}], units[Max(s)])]
  OBVIOUS
<1>12. j = [s \in SUBSET (1..n) |-> IF s = {} THEN base ELSE h[s]]
  <2>1. j = [s \in SUBSET (1..n) |->
               IF s = {} THEN base ELSE GatherStep(j[s \ {Max(s)}], units[Max(s)])]
    BY <1>1, <1>3, <1>10 DEF GatherIter
  <2> QED
    BY <1>11, <2>1
<1>13. /\ j[1..0] = base
       /\ \A k \in 1..n : j[1..k] = h[1..k] /\ 1..k \in SUBSET (1..n)
  BY <1>12, FoldOfPrefixes
<1>14. PICK p : p = [k \in 0..n |-> j[1..k]]
  OBVIOUS
<1>15. ASSUME NEW k \in 1..n PROVE p[k] = GatherStep(p[k - 1], units[k])
  <2>1. k \in 0..n /\ k - 1 \in 0..n
    OBVIOUS
  <2>2. h[1..k] = GatherStep(j[(1..k) \ {Max(1..k)}], units[Max(1..k)])
    BY <1>11, <1>13
  <2>3. h[1..k] = GatherStep(j[1..(k - 1)], units[k])
    BY <2>2, PrefixOfPositions
  <2> QED
    BY <1>13, <1>14, <2>1, <2>3
<1>16. p[0] = base
  BY <1>13, <1>14
<1>17. GatherGoes(p, units)
  BY <1>1, <1>3, <1>15, <1>16 DEF GatherGoes
<1>18. j[DOMAIN units] = p[n]
  BY <1>1, <1>14
<1> QED
  BY <1>1, <1>9, <1>17, <1>18, GatherIs

\* The segments of a text are texts.
LEMMA SegmentsType == \A text \in Text : Segments(text) \in Seq(Text)
<1> SUFFICES ASSUME NEW text \in Text PROVE Segments(text) \in Seq(Text)
  OBVIOUS
<1>0. PICK units : units = SplitUnits(text)
  OBVIOUS
<1>1. PICK n \in Nat : n = Len(units) /\ units \in Seq(Text) /\ \A k \in 1..n : units[k] \in Text
  BY <1>0, SplitUnitsType
<1>2. PICK p : GatherGoes(p, units) /\ Segments(text) = Flush(p[n])
  BY <1>0, <1>1, GatherSteps
<1>3. /\ p[0] = [done |-> <<>>, current |-> <<>>]
      /\ \A k \in 1..n : p[k] = GatherStep(p[k - 1], units[k])
  BY <1>1, <1>2 DEF GatherGoes
<1> DEFINE P == {k \in Nat : k <= n => p[k] \in Gathered}
<1>4. 0 \in P
  <2>1. p[0] \in Gathered
    BY <1>3, SmallTexts DEF Gathered
  <2> QED
    BY <2>1
<1>5. ASSUME NEW k \in Nat, k \in P PROVE k + 1 \in P
  <2> SUFFICES ASSUME k + 1 <= n PROVE p[k + 1] \in Gathered
    OBVIOUS
  <2>1. PICK m \in 1..n : m = k + 1
    OBVIOUS
  <2>2. p[k] \in Gathered /\ units[m] \in Text
    BY <1>1, <1>5, <2>1
  <2>3. p[m] = GatherStep(p[k], units[m])
    BY <1>3, <2>1
  <2>4. GatherStep(p[k], units[m]) \in Gathered
    BY <2>2, GatherStepType
  <2> QED
    BY <2>1, <2>3, <2>4
<1>6. n \in P
  <2> HIDE DEF P
  <2> QED
    BY <1>4, <1>5, NatSetInduction
<1> QED
  BY <1>2, <1>6, FlushType

-----------------------------------------------------------------------------
(***************************************************************************)
(* Messages                                                                *)
(***************************************************************************)

Roles == {Role[n] : n \in DOMAIN Role} \cup {"system", "user", "assistant", None}
Messages == [role : Roles, content : Text]
InkMessages == [role : Roles, content : InkText]

\* A text or message with ink is one.
LEMMA InkIsText == InkText \subseteq Text /\ InkMessages \subseteq Messages
BY DEF InkText, InkMessages, Messages

\* A message of a text, with ink if the text has some.
LEMMA MessageType ==
    ASSUME NEW role \in Roles, NEW text \in Text
    PROVE  /\ Message(role, text) \in Messages
           /\ HasInk(text) => Message(role, text) \in InkMessages
<1>1. Strip(text) \in Text /\ (HasInk(text) => Strip(text) \in InkText)
  BY StripOf DEF InkText
<1> QED
  BY <1>1 DEF Message, Messages, InkMessages

\* One message is a conversation.
LEMMA OneMessage == \A m \in InkMessages : <<m>> \in Seq(InkMessages)
OBVIOUS

\* The system messages of a row are messages with ink.
LEMMA SystemMessagesType ==
    ASSUME NEW row, row.system \in Seq(Text)
    PROVE  SystemMessages(row) \in Seq(InkMessages)
<1>1. PICK texts : texts = Texts(row.system)
  OBVIOUS
<1>2. texts \in Seq(InkText) /\ texts \in Seq(Text)
  BY <1>1, TextsType
<1>3. CASE texts = <<>>
  BY <1>1, <1>3 DEF SystemMessages
<1>4. CASE texts # <<>>
  <2>1. Join(texts) \in InkText
    BY <1>2, <1>4, Joined
  <2>2. "system" \in Roles
    BY DEF Roles
  <2>3. Message("system", Join(texts)) \in InkMessages
    BY <2>1, <2>2, MessageType DEF InkText
  <2>4. SystemMessages(row) = <<Message("system", Join(texts))>>
    BY <1>1, <1>4 DEF SystemMessages
  <2> QED
    BY <2>3, <2>4, OneMessage
<1> QED
  BY <1>3, <1>4

\* The messages said and their roles.
Spoken == [role : DOMAIN Role, content : Text]

\* What is said in a row are the messages with ink.
LEMMA SaidType ==
    ASSUME NEW row, IsChat(row)
    PROVE  Said(row) \in Seq({m \in Spoken : HasInk(m.content)})
<1>1. PICK messages : messages = row.messages /\ messages \in Seq(Spoken)
  BY DEF IsChat, Spoken
<1>2. PICK S : S = {i \in DOMAIN messages : Inked(messages[i].content)}
  OBVIOUS
<1>3. PICK a : a = At(messages, S)
  OBVIOUS
<1>4. PICK c : c = Cardinality(S)
  OBVIOUS
<1>5. /\ a \in Seq(Spoken) /\ Len(a) = c /\ c \in Nat
      /\ \A k \in 1..c : Nth(S, k) \in S /\ a[k] = messages[Nth(S, k)]
  <2>1. S \subseteq DOMAIN messages /\ messages \in Seq(Spoken)
    BY <1>1, <1>2
  <2> QED
    BY <1>3, <1>4, <2>1, PartOfAt
<1>6. ASSUME NEW k \in 1..c PROVE a[k] \in {m \in Spoken : HasInk(m.content)}
  <2>1. PICK i \in DOMAIN messages : a[k] = messages[i] /\ Inked(messages[i].content)
    BY <1>2, <1>5
  <2>2. messages[i] \in Spoken
    BY <1>1
  <2>3. messages[i].content \in Text
    BY <2>2 DEF Spoken
  <2> QED
    BY <2>1, <2>2, <2>3, StripOf DEF Inked
<1>7. Said(row) = a
  BY <1>1, <1>2, <1>3 DEF Said, Where
<1>8. a \in Seq({m \in Spoken : HasInk(m.content)})
  BY <1>5, <1>6
<1> QED
  BY <1>7, <1>8

\* With their normalized roles they are messages with ink.
LEMMA NormalizedType ==
    ASSUME NEW said \in Seq({m \in Spoken : HasInk(m.content)})
    PROVE  Normalized(said) \in Seq(InkMessages)
<1>1. PICK n \in Nat : n = Len(said) /\ DOMAIN said = 1..n
  OBVIOUS
<1>2. ASSUME NEW i \in 1..n PROVE Message(Role[said[i].role], said[i].content) \in InkMessages
  <2>1. said[i].role \in DOMAIN Role /\ said[i].content \in Text /\ HasInk(said[i].content)
    BY <1>1 DEF Spoken
  <2>2. Role[said[i].role] \in Roles
    BY <2>1 DEF Roles
  <2> QED
    BY <2>1, <2>2, MessageType
<1>3. Normalized(said) = [i \in 1..n |-> Message(Role[said[i].role], said[i].content)]
  BY <1>1 DEF Normalized
<1> QED
  BY <1>2, <1>3

\* Merging the leading system messages keeps messages with ink.
LEMMA MergeType ==
    ASSUME NEW body \in Seq(InkMessages)
    PROVE  MergeLeadingSystem(body) \in Seq(InkMessages)
<1>1. PICK n \in Nat : n = Len(body) /\ DOMAIN body = 1..n
  OBVIOUS
<1>2. PICK others : others = {i \in DOMAIN body : body[i].role # "system"}
  OBVIOUS
<1>3. PICK count : count = IF others = {} THEN Len(body) ELSE Min(others) - 1
  OBVIOUS
<1>4. count \in 0..n
  <2>1. others # {} => Min(others) \in others
    <3>1. others \subseteq Nat
      BY <1>1, <1>2
    <3> QED
      BY <3>1, MinIs
  <2>2. others \subseteq 1..n
    BY <1>1, <1>2
  <2>3. PICK b : b = Min(others)
    OBVIOUS
  <2>4. others # {} => b \in 1..n
    BY <2>1, <2>2, <2>3
  <2>5. count = IF others = {} THEN n ELSE b - 1
    BY <1>1, <1>3, <2>3
  <2> QED
    BY <2>4, <2>5
<1>5. PICK contents : contents = [i \in 1..count |-> body[i].content]
  OBVIOUS
<1>6. MergeLeadingSystem(body) =
         IF count <= 1 THEN body
         ELSE <<Message("system", Join(contents))>> \o SubSeq(body, count + 1, Len(body))
  BY <1>2, <1>3, <1>5 DEF MergeLeadingSystem
<1>7. CASE count > 1
  <2>1. ASSUME NEW i \in 1..count PROVE body[i].content \in InkText
    <3>1. body[i] \in InkMessages
      BY <1>1, <1>4
    <3> QED
      BY <3>1 DEF InkMessages
  <2>2. contents \in Seq(InkText) /\ contents # <<>>
    BY <1>4, <1>5, <1>7, <2>1
  <2>3. contents \in Seq(Text)
    BY <2>2, InkIsText
  <2>4. Join(contents) \in InkText
    BY <2>2, <2>3, Joined
  <2>5. "system" \in Roles
    BY DEF Roles
  <2>6. Message("system", Join(contents)) \in InkMessages
    BY <2>4, <2>5, MessageType DEF InkText
  <2>7. SubSeq(body, count + 1, Len(body)) \in Seq(InkMessages)
    <3>1. count + 1 \in Nat \ {0} /\ Len(body) \in 0..Len(body)
      BY <1>1, <1>4
    <3> QED
      BY <3>1, SubSeqType
  <2>8. <<Message("system", Join(contents))>> \in Seq(InkMessages)
    BY <2>6, OneMessage
  <2>9. <<Message("system", Join(contents))>> \o SubSeq(body, count + 1, Len(body))
           \in Seq(InkMessages)
    BY <2>7, <2>8
  <2> QED
    BY <1>4, <1>6, <1>7, <2>9
<1>8. CASE count <= 1
  BY <1>6, <1>8
<1> QED
  BY <1>4, <1>7, <1>8

-----------------------------------------------------------------------------
(***************************************************************************)
(* Extraction                                                              *)
(***************************************************************************)

KindOf(source) == IF Schema[source].extractor = "document" THEN "document" ELSE "messages"

\* What an extractor makes of a row: nothing, or messages with ink.
Extracted(record, source) ==
    /\ record = [kind |-> KindOf(source), body |-> record.body]
    /\ record.body \in Seq(InkMessages) /\ record.body # <<>>
    /\ KindOf(source) = "document" => Len(record.body) = 1

\* A conversation of messages with ink is an extraction, or none.
LEMMA ConversationIs ==
    ASSUME NEW source, KindOf(source) = "messages", NEW body \in Seq(InkMessages)
    PROVE  Conversation(body) = None \/ Extracted(Conversation(body), source)
BY DEF Conversation, Extracted

\* extract_messages returns a whole conversation or nothing for a chat.
LEMMA ExtractMessagesIs ==
    ASSUME NEW source, KindOf(source) = "messages", NEW row, IsChat(row),
           row.system \in Seq(Text), NEW merge
    PROVE  ExtractMessages(row, merge) = None \/ Extracted(ExtractMessages(row, merge), source)
<1>1. PICK said : said = Said(row)
  OBVIOUS
<1>2. said \in Seq({m \in Spoken : HasInk(m.content)})
  BY <1>1, SaidType
<1>3. PICK body : body = SystemMessages(row) \o Normalized(said)
  OBVIOUS
<1>4. body \in Seq(InkMessages)
  <2>1. SystemMessages(row) \in Seq(InkMessages) /\ Normalized(said) \in Seq(InkMessages)
    BY <1>2, SystemMessagesType, NormalizedType
  <2> QED
    BY <1>3, <2>1
<1>5. ~\E i \in DOMAIN said : said[i].role \notin DOMAIN Role
  <2> SUFFICES ASSUME NEW i \in DOMAIN said PROVE said[i].role \in DOMAIN Role
    OBVIOUS
  <2>1. said[i] \in {m \in Spoken : HasInk(m.content)}
    BY <1>2
  <2> QED
    BY <2>1 DEF Spoken
<1>6. row.messages # None
  BY DEF IsChat
<1>7. ExtractMessages(row, merge) = Conversation(IF merge THEN MergeLeadingSystem(body) ELSE body)
  BY <1>1, <1>3, <1>5, <1>6 DEF ExtractMessages
<1>8. (IF merge THEN MergeLeadingSystem(body) ELSE body) \in Seq(InkMessages)
  BY <1>4, MergeType
<1> QED
  BY <1>7, <1>8, ConversationIs

\* extract_tagged_tool_chat does for a chat with markers.
LEMMA ExtractTaggedIs ==
    ASSUME NEW source, KindOf(source) = "messages", NEW row, IsChat(row),
           row.system \in Seq(Text), row.messages # <<>>
    PROVE  \/ ExtractTaggedToolChat(row) = None
           \/ Extracted(ExtractTaggedToolChat(row), source)
<1>1. PICK body : body = SystemMessages(row) \o Normalized(Said(row))
  OBVIOUS
<1>2. body \in Seq(InkMessages)
  <2>1. SystemMessages(row) \in Seq(InkMessages)
    BY SystemMessagesType
  <2>2. Normalized(Said(row)) \in Seq(InkMessages)
    BY SaidType, NormalizedType
  <2> QED
    BY <1>1, <2>1, <2>2
<1>3. ExtractTaggedToolChat(row) = Conversation(body)
  BY <1>1 DEF ExtractTaggedToolChat
<1> QED
  BY <1>2, <1>3, ConversationIs

\* extract_prompt_response does for prompts and responses.
LEMMA ExtractPromptResponseIs ==
    ASSUME NEW source, KindOf(source) = "messages", NEW row, row.system \in Seq(Text),
           row.prompts \in Seq(Text), row.responses \in Seq(Text)
    PROVE  ExtractPromptResponse(row) = None \/ Extracted(ExtractPromptResponse(row), source)
<1>1. PICK prompts : prompts = Texts(row.prompts)
  OBVIOUS
<1>2. PICK responses : responses = Texts(row.responses)
  OBVIOUS
<1>3. prompts \in Seq(InkText) /\ prompts \in Seq(Text) /\ responses \in Seq(InkText)
  BY <1>1, <1>2, TextsType
<1>4. CASE prompts = <<>> \/ responses = <<>>
  BY <1>1, <1>2, <1>4 DEF ExtractPromptResponse
<1>5. CASE prompts # <<>> /\ responses # <<>>
  <2>1. Join(prompts) \in InkText /\ Head(responses) \in InkText
    BY <1>3, <1>5, Joined
  <2>2. "user" \in Roles /\ "assistant" \in Roles
    BY DEF Roles
  <2>3. PICK a, b : a = Message("user", Join(prompts)) /\ b = Message("assistant", Head(responses))
    OBVIOUS
  <2>4. a \in InkMessages /\ b \in InkMessages
    BY <2>1, <2>2, <2>3, MessageType DEF InkText
  <2>5. SystemMessages(row) \o <<a, b>> \in Seq(InkMessages)
    <3>1. SystemMessages(row) \in Seq(InkMessages)
      BY SystemMessagesType
    <3>2. <<a, b>> \in Seq(InkMessages)
      BY <2>4
    <3> QED
      BY <3>1, <3>2
  <2>6. ExtractPromptResponse(row) = Conversation(SystemMessages(row) \o <<a, b>>)
    BY <1>1, <1>2, <1>5, <2>3 DEF ExtractPromptResponse
  <2> QED
    BY <2>5, <2>6, ConversationIs
<1> QED
  BY <1>4, <1>5

\* extract_document returns one message with ink or nothing.
LEMMA ExtractDocumentIs ==
    ASSUME NEW source, KindOf(source) = "document", NEW row, row.text \in Text
    PROVE  ExtractDocument(row) = None \/ Extracted(ExtractDocument(row), source)
<1>1. CASE Inked(row.text)
  <2>1. HasInk(row.text)
    BY <1>1, StripOf DEF Inked
  <2>2. None \in Roles
    BY DEF Roles
  <2>3. Message(None, row.text) \in InkMessages
    BY <2>1, <2>2, MessageType
  <2>4. PICK body : body = <<Message(None, row.text)>>
    OBVIOUS
  <2>5. body \in Seq(InkMessages) /\ body # <<>> /\ Len(body) = 1
    BY <2>3, <2>4
  <2>6. ExtractDocument(row) = [kind |-> "document", body |-> body]
    BY <1>1, <2>4 DEF ExtractDocument
  <2> QED
    BY <2>5, <2>6 DEF Extracted
<1>2. CASE ~Inked(row.text)
  BY <1>2 DEF ExtractDocument
<1> QED
  BY <1>1, <1>2

\* Every extractor returns something the record needs, or nothing.
LEMMA ExtractIs ==
    ASSUME NEW source \in DOMAIN Schema, NEW row, GoodRow(row, source)
    PROVE  Extract(row, source) = None \/ Extracted(Extract(row, source), source)
<1>1. PICK e \in Extractors : e = Schema[source].extractor
  BY RecordAssumption
<1>2. CASE e = "messages"
  <2>1. row.system \in Seq(Text) /\ IsChat(row) /\ KindOf(source) = "messages"
    BY <1>1, <1>2 DEF GoodRow, KindOf
  <2>2. Extract(row, source) = ExtractMessages(row, Schema[source].merge)
    BY <1>1, <1>2 DEF Extract
  <2> QED
    BY <2>1, <2>2, ExtractMessagesIs
<1>3. CASE e = "prompt_response"
  <2>1. /\ row.system \in Seq(Text) /\ row.prompts \in Seq(Text) /\ row.responses \in Seq(Text)
        /\ KindOf(source) = "messages"
    BY <1>1, <1>3 DEF GoodRow, KindOf
  <2>2. Extract(row, source) = ExtractPromptResponse(row)
    BY <1>1, <1>3 DEF Extract
  <2> QED
    BY <2>1, <2>2, ExtractPromptResponseIs
<1>4. CASE e = "document"
  <2>1. row.text \in Text /\ KindOf(source) = "document"
    BY <1>1, <1>4 DEF GoodRow, KindOf
  <2>2. Extract(row, source) = ExtractDocument(row)
    BY <1>1, <1>4 DEF Extract
  <2> QED
    BY <2>1, <2>2, ExtractDocumentIs
<1>5. CASE e = "tagged_tool_chat"
  <2>1. /\ row.system \in Seq(Text) /\ IsChat(row) /\ row.messages # <<>>
        /\ KindOf(source) = "messages"
    BY <1>1, <1>5 DEF GoodRow, KindOf
  <2>2. Extract(row, source) = ExtractTaggedToolChat(row)
    BY <1>1, <1>5 DEF Extract
  <2> QED
    BY <2>1, <2>2, ExtractTaggedIs
<1> QED
  BY <1>1, <1>2, <1>3, <1>4, <1>5 DEF Extractors

-----------------------------------------------------------------------------
(***************************************************************************)
(* Records and the parent corpus                                           *)
(***************************************************************************)

\* Records, before and after they got their ids.
AllIds == ((DOMAIN Schema) \X Nat \X Seq(Messages)) \cup {None}
RawRecords ==
    {r \in [source : DOMAIN Schema, domain : {Schema[s].domain : s \in DOMAIN Schema},
            id : AllIds, kind : {"document", "messages"}, body : Seq(Messages)] :
        /\ r.domain = Schema[r.source].domain
        /\ r.kind = KindOf(r.source)
        /\ r.kind = "document" => Len(r.body) = 1}
Records == {r \in RawRecords : \E n \in Nat : r.id = <<r.source, n, Payload(r)>>}

\* A record is one whatever its id.
LEMMA RecordsAreRaw == Records \subseteq RawRecords
BY DEF Records

\* The payload of a record consists of messages, one for each of its body.
LEMMA PayloadType ==
    ASSUME NEW r, r.body \in Seq(Messages)
    PROVE  Payload(r) \in Seq(Messages) /\ DOMAIN Payload(r) = DOMAIN r.body
<1>1. PICK n \in Nat : n = Len(r.body) /\ DOMAIN r.body = 1..n
  OBVIOUS
<1>2. ASSUME NEW i \in 1..n
      PROVE  [r.body[i] EXCEPT !.content =
                 IF r.kind = "document" THEN Strip(r.body[i].content) ELSE r.body[i].content]
                \in Messages
  <2>1. r.body[i] \in Messages
    BY <1>1
  <2>2. r.body[i].content \in Text
    BY <2>1 DEF Messages
  <2>3. Strip(r.body[i].content) \in Text
    BY <2>2, StripOf
  <2> QED
    BY <2>1, <2>2, <2>3 DEF Messages
<1>3. PICK p : p = Payload(r)
  OBVIOUS
<1>4. p = [i \in 1..n |-> [r.body[i] EXCEPT !.content =
              IF r.kind = "document" THEN Strip(r.body[i].content) ELSE r.body[i].content]]
  BY <1>1, <1>3 DEF Payload
<1>5. p \in Seq(Messages) /\ DOMAIN p = 1..n
  BY <1>2, <1>4
<1> QED
  BY <1>1, <1>3, <1>5

\* Its length is a natural.
LEMMA PayloadLengthType ==
    ASSUME NEW r, r.body \in Seq(Messages)
    PROVE  PayloadLength(r) \in Nat
<1>1. PICK n \in Nat : n = Len(r.body) /\ DOMAIN r.body = 1..n
  OBVIOUS
<1>2. PICK p : p = Payload(r)
  OBVIOUS
<1>3. p \in Seq(Messages) /\ DOMAIN p = 1..n
  BY <1>1, <1>2, PayloadType
<1>4. PICK f : f = [i \in 1..n |->
                  Len(p[i].content) + (IF r.kind = "document" THEN 0 ELSE 1)]
  OBVIOUS
<1>5. f \in [1..n -> Nat]
  <2>1. ASSUME NEW i \in 1..n
        PROVE  Len(p[i].content) + (IF r.kind = "document" THEN 0 ELSE 1) \in Nat
    <3>1. p[i] \in Messages
      BY <1>3
    <3>2. p[i].content \in Text
      BY <3>1 DEF Messages
    <3>3. PICK l \in Nat : l = Len(p[i].content)
      BY <3>2, TextIs
    <3>4. CASE r.kind = "document"
      BY <3>3, <3>4
    <3>5. CASE r.kind # "document"
      BY <3>3, <3>5
    <3> QED
      BY <3>4, <3>5
  <2> QED
    BY <1>4, <2>1
<1>6. IsFiniteSet(1..n)
  BY FS_Interval
<1>7. PayloadLength(r) = Sum(f)
  BY <1>1, <1>2, <1>4 DEF PayloadLength
<1>8. PICK S : S = 1..n
  OBVIOUS
<1>9. IsFiniteSet(S) /\ f \in [S -> Nat]
  BY <1>5, <1>6, <1>8
<1> QED
  BY <1>7, <1>9, SumIsNat

\* Giving a record its id makes it whole and changes nothing else
\* (stable_record_id).
LEMMA IdentifiedIs ==
    ASSUME NEW r \in RawRecords, NEW n \in Nat
    PROVE  /\ Identified(r, n) \in Records
           /\ Identified(r, n).source = r.source /\ Identified(r, n).domain = r.domain
           /\ Identified(r, n).kind = r.kind /\ Identified(r, n).body = r.body
           /\ Identified(r, n).id = <<r.source, n, Payload(r)>>
           /\ Payload(Identified(r, n)) = Payload(r)
<1>1. PICK id : id = <<r.source, n, Payload(r)>>
  OBVIOUS
<1>2. r.body \in Seq(Messages) /\ r.source \in DOMAIN Schema
  BY DEF RawRecords
<1>3. id \in AllIds
  <2>1. Payload(r) \in Seq(Messages)
    BY <1>2, PayloadType
  <2> QED
    BY <1>1, <1>2, <2>1 DEF AllIds
<1>4. PICK q : q = [r EXCEPT !.id = id]
  OBVIOUS
<1>5. /\ q.source = r.source /\ q.domain = r.domain /\ q.kind = r.kind /\ q.body = r.body
      /\ q.id = id
  BY <1>4 DEF RawRecords
<1>6. q \in RawRecords
  BY <1>3, <1>4, <1>5 DEF RawRecords
<1>7. Payload(q) = Payload(r)
  BY <1>5 DEF Payload
<1>8. q \in Records
  BY <1>1, <1>5, <1>6, <1>7 DEF Records
<1>9. Identified(r, n) = q
  BY <1>1, <1>4 DEF Identified
<1> QED
  BY <1>1, <1>5, <1>7, <1>8, <1>9

\* The record of a row with text passes the validation of the corpus.
LEMMA RecordOfIs ==
    ASSUME NEW source \in DOMAIN Schema, NEW row, Extracted(Extract(row, source), source)
    PROVE  RecordOf(row, source) \in Records /\ ValidCorpusRecord(RecordOf(row, source))
<1>1. PICK e : e = Extract(row, source)
  OBVIOUS
<1>2. /\ e.kind = KindOf(source) /\ e.body \in Seq(InkMessages) /\ e.body # <<>>
      /\ KindOf(source) = "document" => Len(e.body) = 1
  <2>1. Extracted(e, source)
    BY <1>1
  <2>2. e = [kind |-> KindOf(source), body |-> e.body]
    BY <2>1 DEF Extracted
  <2>3. e.kind = KindOf(source)
    BY <2>2
  <2> QED
    BY <2>1, <2>3 DEF Extracted
<1>3. PICK raw : raw = [source |-> source, domain |-> Schema[source].domain, id |-> None,
                        kind |-> e.kind, body |-> e.body]
  OBVIOUS
<1>4. raw \in RawRecords
  <2>1. e.body \in Seq(Messages)
    BY <1>2, InkIsText
  <2>2. e.kind \in {"document", "messages"}
    BY <1>2 DEF KindOf
  <2> QED
    BY <1>2, <1>3, <2>1, <2>2 DEF RawRecords, AllIds
<1>5. RecordOf(row, source) = Identified(raw, 0)
  BY <1>1, <1>3 DEF RecordOf
<1>6. PICK q : q = Identified(raw, 0)
  OBVIOUS
<1>7. /\ q \in Records /\ q.source = source /\ q.domain = Schema[source].domain
      /\ q.body = e.body /\ q.id = <<q.source, 0, Payload(q)>>
  <2>1. 0 \in Nat
    OBVIOUS
  <2>2. raw.source = source /\ raw.domain = Schema[source].domain /\ raw.body = e.body
    BY <1>3
  <2> QED
    BY <1>4, <1>6, <2>1, <2>2, IdentifiedIs
<1>8. Identified(q, 0).id = <<q.source, 0, Payload(q)>>
  <2>1. q \in RawRecords /\ 0 \in Nat
    BY <1>7, RecordsAreRaw
  <2> QED
    BY <2>1, IdentifiedIs
<1>9. ASSUME NEW i \in DOMAIN e.body PROVE e.body[i].content # <<>>
  <2>1. e.body[i] \in InkMessages
    BY <1>2
  <2>2. HasInk(e.body[i].content)
    BY <2>1 DEF InkMessages, InkText
  <2> QED
    BY <2>2 DEF HasInk
<1>10. ValidCorpusRecord(q)
  BY <1>2, <1>7, <1>8, <1>9 DEF ValidCorpusRecord
<1> QED
  BY <1>5, <1>6, <1>7, <1>10

GoodRows(rows) ==
    /\ rows \in Seq(ToSet(rows))
    /\ \A i \in DOMAIN rows : /\ rows[i].source \in DOMAIN Schema
                              /\ GoodRow(rows[i].row, rows[i].source)

\* The parent of good rows consists of records that its validation accepts.
LEMMA ParentRecordsType ==
    ASSUME NEW rows, GoodRows(rows)
    PROVE  /\ ParentRecords(rows) \in Seq(Records)
           /\ \A i \in DOMAIN ParentRecords(rows) : ValidCorpusRecord(ParentRecords(rows)[i])
<1>1. PICK R : R = ToSet(rows) /\ rows \in Seq(R)
  BY DEF GoodRows
<1>2. PICK S : S = {i \in DOMAIN rows : Extract(rows[i].row, rows[i].source) # None}
  OBVIOUS
<1>3. PICK good : good = At(rows, S)
  OBVIOUS
<1>4. PICK c : c = Cardinality(S)
  OBVIOUS
<1>5. /\ good \in Seq(R) /\ Len(good) = c /\ c \in Nat /\ DOMAIN good = 1..c
      /\ \A k \in 1..c : Nth(S, k) \in S /\ good[k] = rows[Nth(S, k)]
  <2>1. S \subseteq DOMAIN rows /\ rows \in Seq(R)
    BY <1>1, <1>2
  <2> QED
    BY <1>3, <1>4, <2>1, PartOfAt
<1>6. PICK records : records = [i \in DOMAIN good |-> RecordOf(good[i].row, good[i].source)]
  OBVIOUS
<1> DEFINE V == {r \in Records : ValidCorpusRecord(r)}
<1>7. ASSUME NEW i \in 1..c PROVE RecordOf(good[i].row, good[i].source) \in V
  <2>1. PICK j \in DOMAIN rows : /\ good[i] = rows[j]
                                 /\ Extract(rows[j].row, rows[j].source) # None
    BY <1>2, <1>5
  <2>2. PICK row, source : row = rows[j].row /\ source = rows[j].source
    OBVIOUS
  <2>3. source \in DOMAIN Schema /\ GoodRow(row, source) /\ Extract(row, source) # None
    BY <2>1, <2>2 DEF GoodRows
  <2>4. RecordOf(row, source) \in V
    BY <2>3, ExtractIs, RecordOfIs
  <2> QED
    BY <2>1, <2>2, <2>4
<1>8. records \in Seq(V)
  <2>1. records = [i \in 1..c |-> RecordOf(good[i].row, good[i].source)]
    BY <1>5, <1>6
  <2> HIDE DEF V
  <2> QED
    BY <1>5, <1>7, <2>1
<1>9. PICK T : T = {i \in DOMAIN records : PayloadLength(records[i]) >= MinContent}
  OBVIOUS
<1>10. At(records, T) \in Seq(V)
  <2>1. T \subseteq DOMAIN records
    BY <1>9
  <2> HIDE DEF V
  <2> QED
    BY <1>8, <2>1, PartOfAt
<1>11. ParentRecords(rows) = At(records, T)
  BY <1>2, <1>3, <1>6, <1>9 DEF ParentRecords, Where
<1>12. PICK parents : parents = ParentRecords(rows) /\ parents \in Seq(V)
  BY <1>10, <1>11
<1>13. parents \in Seq(Records) /\ \A i \in DOMAIN parents : ValidCorpusRecord(parents[i])
  <2>1. \A i \in DOMAIN parents : parents[i] \in V
    BY <1>12
  <2> QED
    BY <1>12, <2>1
<1> QED
  BY <1>12, <1>13

-----------------------------------------------------------------------------
(***************************************************************************)
(* Records for the target tokenizer; fingerprints                          *)
(***************************************************************************)

\* Stripping special tokens leaves a record that needs a new id.
LEMMA StripSpecialType ==
    ASSUME NEW r \in RawRecords
    PROVE  StripSpecialTokens(r) \in RawRecords
<1>1. PICK body : body = r.body
  OBVIOUS
<1>2. PICK n \in Nat : n = Len(body) /\ DOMAIN body = 1..n /\ body \in Seq(Messages)
  BY <1>1 DEF RawRecords
<1> DEFINE clean(text) == Strip(Where(text, LAMBDA s : s # Special))
<1>3. ASSUME NEW text \in Text PROVE clean(text) \in Text
  <2>1. PICK S : S = {i \in DOMAIN text : text[i] # Special}
    OBVIOUS
  <2>2. At(text, S) \in Seq(TextParts)
    <3>1. S \subseteq DOMAIN text /\ text \in Seq(TextParts)
      BY <2>1, TextIs
    <3> QED
      BY <3>1, PartOfAt
  <2>3. Where(text, LAMBDA s : s # Special) = At(text, S)
    BY <2>1 DEF Where
  <2>4. Where(text, LAMBDA s : s # Special) \in Text
    BY <2>2, <2>3, TextIs
  <2> QED
    BY <2>4, StripOf
<1>4. PICK new : new = [i \in DOMAIN body |-> [body[i] EXCEPT !.content = clean(body[i].content)]]
  OBVIOUS
<1>5. StripSpecialTokens(r) = [r EXCEPT !.body = new]
  BY <1>1, <1>4 DEF StripSpecialTokens
<1> HIDE DEF clean
<1>6. ASSUME NEW i \in 1..n
      PROVE  [body[i] EXCEPT !.content = clean(body[i].content)] \in Messages
  <2>1. body[i] \in Messages
    BY <1>2
  <2>2. body[i].content \in Text
    BY <2>1 DEF Messages
  <2> QED
    BY <1>3, <2>1, <2>2 DEF Messages
<1>7. new = [i \in 1..n |-> [body[i] EXCEPT !.content = clean(body[i].content)]]
  BY <1>2, <1>4
<1>8. new \in Seq(Messages) /\ Len(new) = n
  BY <1>6, <1>7
<1>9. PICK q : q = [r EXCEPT !.body = new]
  OBVIOUS
<1>10. q \in RawRecords
  <2>1. /\ q.source = r.source /\ q.domain = r.domain /\ q.kind = r.kind /\ q.id = r.id
        /\ q.body = new
    BY <1>9 DEF RawRecords
  <2>2. Len(new) = Len(r.body)
    BY <1>1, <1>2, <1>8
  <2> QED
    BY <1>8, <1>9, <2>1, <2>2 DEF RawRecords
<1> QED
  BY <1>5, <1>9, <1>10

\* The segments of a record are records.
LEMMA SegmentDocumentType ==
    ASSUME NEW r \in RawRecords
    PROVE  SegmentDocument(r) \in Seq(Records)
<1>1. PICK text : text = r.body[1].content
  OBVIOUS
<1>2. CASE r.kind # "document" \/ Len(text) <= MaxTokens
  <2>1. SegmentDocument(r) = <<Identified(r, 0)>>
    BY <1>1, <1>2 DEF SegmentDocument
  <2>2. Identified(r, 0) \in Records
    <3>1. 0 \in Nat
      OBVIOUS
    <3> QED
      BY <3>1, IdentifiedIs
  <2> QED
    BY <2>1, <2>2
<1>3. CASE r.kind = "document" /\ ~(Len(text) <= MaxTokens)
  <2>1. text \in Text
    <3>1. Len(r.body) = 1 /\ r.body \in Seq(Messages)
      BY <1>3 DEF RawRecords
    <3>2. r.body[1] \in Messages
      BY <3>1
    <3> QED
      BY <1>1, <3>2 DEF Messages
  <2>2. PICK segments : segments = Segments(text) /\ segments \in Seq(Text)
    BY <2>1, SegmentsType
  <2>3. PICK n \in Nat : n = Len(segments) /\ DOMAIN segments = 1..n
    BY <2>2
  <2> DEFINE child(i) == [r EXCEPT !.body = <<Message(None, segments[i])>>]
  <2>4. ASSUME NEW i \in 1..n PROVE child(i) \in RawRecords
    <3>1. segments[i] \in Text /\ None \in Roles
      BY <2>2, <2>3 DEF Roles
    <3>2. Message(None, segments[i]) \in Messages
      BY <3>1, MessageType
    <3>3. PICK body : body = <<Message(None, segments[i])>>
      OBVIOUS
    <3>4. body \in Seq(Messages) /\ Len(body) = 1
      BY <3>2, <3>3
    <3>5. PICK q : q = [r EXCEPT !.body = body]
      OBVIOUS
    <3>6. /\ q.source = r.source /\ q.domain = r.domain /\ q.kind = r.kind /\ q.id = r.id
          /\ q.body = body
      BY <3>5 DEF RawRecords
    <3>7. q \in RawRecords
      BY <3>4, <3>5, <3>6 DEF RawRecords
    <3> QED
      BY <3>3, <3>5, <3>7
  <2>5. SegmentDocument(r) = [i \in 1..n |-> Identified(child(i), i - 1)]
    BY <1>1, <1>3, <2>2, <2>3 DEF SegmentDocument
  <2> HIDE DEF child
  <2>6. ASSUME NEW i \in 1..n PROVE Identified(child(i), i - 1) \in Records
    <3>1. i - 1 \in Nat
      OBVIOUS
    <3> QED
      BY <2>4, <3>1, IdentifiedIs
  <2> QED
    BY <2>5, <2>6
<1> QED
  BY <1>2, <1>3

\* The records for the target tokenizer are records.
LEMMA TargetRecordsType ==
    ASSUME NEW parents \in Seq(Records)
    PROVE  TargetRecords(parents) \in Seq(Records)
<1>1. PICK n \in Nat : n = Len(parents) /\ DOMAIN parents = 1..n
  OBVIOUS
<1>2. PICK stripped : stripped = [i \in DOMAIN parents |-> StripSpecialTokens(parents[i])]
  OBVIOUS
<1>3. ASSUME NEW i \in 1..n PROVE StripSpecialTokens(parents[i]) \in RawRecords
  <2>1. parents[i] \in RawRecords
    BY <1>1, RecordsAreRaw
  <2> QED
    BY <2>1, StripSpecialType
<1>4. stripped \in Seq(RawRecords)
  <2>1. stripped = [i \in 1..n |-> StripSpecialTokens(parents[i])]
    BY <1>1, <1>2
  <2> QED
    BY <1>3, <2>1
<1>5. PICK S : S = {i \in DOMAIN stripped : PayloadLength(stripped[i]) >= MinContent}
  OBVIOUS
<1>6. PICK kept : kept = At(stripped, S) /\ kept \in Seq(RawRecords)
  <2>1. S \subseteq DOMAIN stripped
    BY <1>5
  <2> QED
    BY <1>4, <2>1, PartOfAt
<1>7. PICK m \in Nat : m = Len(kept) /\ DOMAIN kept = 1..m
  BY <1>6
<1>8. PICK parts : parts = [i \in DOMAIN kept |-> SegmentDocument(kept[i])]
  OBVIOUS
<1>9. parts \in Seq(Seq(Records))
  <2>1. ASSUME NEW i \in 1..m PROVE SegmentDocument(kept[i]) \in Seq(Records)
    BY <1>6, <1>7, SegmentDocumentType
  <2>2. parts = [i \in 1..m |-> SegmentDocument(kept[i])]
    BY <1>7, <1>8
  <2> QED
    BY <2>1, <2>2
<1>10. TargetRecords(parents) = FlattenSeq(parts)
  BY <1>2, <1>5, <1>6, <1>8 DEF TargetRecords, Where
<1> QED
  BY <1>9, <1>10, FlattenType

\* Values at finitely many positions are finitely many.
LEMMA ImageOfInterval ==
    ASSUME NEW m \in Nat, NEW f, DOMAIN f = 1..m, f = [i \in 1..m |-> f[i]]
    PROVE  IsFiniteSet({f[i] : i \in 1..m})
<1> DEFINE V(k) == {f[i] : i \in 1..k}
           P == {k \in Nat : IsFiniteSet(V(k))}
<1>1. 0 \in P
  <2>1. V(0) = {}
    OBVIOUS
  <2> QED
    BY <2>1, FS_EmptySet
<1>2. ASSUME NEW k \in Nat, k \in P PROVE k + 1 \in P
  <2>1. V(k + 1) = V(k) \cup {f[k + 1]}
    <3>1. PICK j \in Nat : j = k + 1
      OBVIOUS
    <3>2. 1..j = (1..k) \cup {j}
      BY <3>1
    <3>3. {f[i] : i \in 1..j} = {f[i] : i \in 1..k} \cup {f[j]}
      BY ONLY <3>2
    <3> QED
      BY <3>1, <3>3
  <2>2. IsFiniteSet(V(k))
    BY <1>2
  <2>3. PICK W, x : W = V(k) /\ x = f[k + 1]
    OBVIOUS
  <2> HIDE DEF V
  <2>4. IsFiniteSet(W \cup {x})
    BY <2>2, <2>3, FS_AddElement
  <2>5. IsFiniteSet(V(k + 1))
    BY <2>1, <2>3, <2>4
  <2> QED
    BY <2>5
<1>3. m \in P
  <2> HIDE DEF P
  <2> QED
    BY <1>1, <1>2, NatSetInduction
<1> QED
  BY <1>3

Symbols == TextParts \cup Roles

\* What a fingerprint is made of is a sequence of symbols.
LEMMA NearKeyType ==
    ASSUME NEW r \in Records
    PROVE  NearKey(r) \in Seq(Symbols)
<1>1. PICK said : said = Payload(r)
  OBVIOUS
<1>2. said \in Seq(Messages)
  BY <1>1, PayloadType DEF Records, RawRecords
<1>3. PICK n \in Nat : n = Len(said) /\ DOMAIN said = 1..n
  BY <1>2
<1> DEFINE words(text) == Where(text, LAMBDA s : s \notin {Para, Line})
           role(i) == IF r.kind = "document" THEN <<>> ELSE <<said[i].role>>
<1>4. ASSUME NEW text \in Text PROVE words(text) \in Seq(Symbols)
  <2>1. PICK S : S = {i \in DOMAIN text : text[i] \notin {Para, Line}}
    OBVIOUS
  <2>2. At(text, S) \in Seq(TextParts)
    <3>1. S \subseteq DOMAIN text /\ text \in Seq(TextParts)
      BY <2>1, TextIs
    <3> QED
      BY <3>1, PartOfAt
  <2>3. At(text, S) \in Seq(Symbols)
    BY <2>2 DEF Symbols
  <2> QED
    BY <2>1, <2>3 DEF Where
<1>5. PICK parts : parts = [i \in DOMAIN said |-> role(i) \o words(said[i].content)]
  OBVIOUS
<1>6. NearKey(r) = FlattenSeq(parts)
  BY <1>1, <1>5 DEF NearKey
<1> HIDE DEF words
<1>7. ASSUME NEW i \in 1..n PROVE role(i) \o words(said[i].content) \in Seq(Symbols)
  <2>1. said[i] \in Messages
    BY <1>2, <1>3
  <2>2. said[i].role \in Symbols /\ said[i].content \in Text
    BY <2>1 DEF Messages, Symbols
  <2>3. role(i) \in Seq(Symbols)
    BY <2>2
  <2>4. words(said[i].content) \in Seq(Symbols)
    BY <1>4, <2>2
  <2> HIDE DEF role
  <2> QED
    BY <2>3, <2>4
<1> HIDE DEF role
<1>8. parts \in Seq(Seq(Symbols))
  <2>1. parts = [i \in 1..n |-> role(i) \o words(said[i].content)]
    BY <1>3, <1>5
  <2> QED
    BY <1>7, <2>1
<1> QED
  BY <1>6, <1>8, FlattenType

\* The digests of the features that begin at so many places are finite.
LEMMA DigestsFinite ==
    ASSUME NEW key, NEW m \in Nat, NEW g, NEW S, g = [i \in 1..m |-> g[i]],
           S = {g[i] : i \in 1..m}
    PROVE  IsFiniteSet(Digests(key, S))
<1>1. PICK f : f = [i \in 1..m |-> Hash(SubSeq(key, g[i], Min({g[i] + Shingle - 1, Len(key)})))]
  OBVIOUS
<1>2. IsFiniteSet({f[i] : i \in 1..m})
  <2>1. DOMAIN f = 1..m /\ f = [i \in 1..m |-> f[i]]
    BY <1>1
  <2> QED
    BY <2>1, ImageOfInterval
<1>3. Digests(key, S) = {f[i] : i \in 1..m}
  <2>1. Digests(key, S) = {Hash(SubSeq(key, g[i], Min({g[i] + Shingle - 1, Len(key)}))) : i \in 1..m}
    BY DEF Digests
  <2> QED
    BY <1>1, <2>1
<1> QED
  BY <1>2, <1>3

\* The features of a text begin at its first so many places.
LEMMA StartsAre ==
    ASSUME NEW l \in Nat
    PROVE  \E m \in Nat : /\ Starts(l) = 1..m /\ m >= 1 /\ Max(Starts(l)) = m
                          /\ IsFiniteSet(Starts(l)) /\ Cardinality(Starts(l)) = m
<1>1. PICK x \in Int : x = l - Shingle + 1
  BY RecordAssumption
<1>2. PICK m \in Nat : m = Max({1, x}) /\ m >= 1
  <2>1. PICK T : T = {1, x}
    OBVIOUS
  <2>2. \E y \in T : \A z \in T : y >= z
    BY <2>1
  <2>3. Max(T) \in T /\ \A z \in T : Max(T) >= z
    BY <2>2 DEF Max
  <2>4. PICK m : m = Max(T)
    OBVIOUS
  <2>5. m \in Nat /\ m >= 1
    BY <2>1, <2>3, <2>4
  <2> QED
    BY <2>1, <2>4, <2>5
<1>3. Starts(l) = 1..m
  BY <1>1, <1>2 DEF Starts
<1>4. Max(1..m) = m
  <2>1. PICK T : T = 1..m
    OBVIOUS
  <2>2. m \in T /\ \A z \in T : m >= z
    BY <1>2, <2>1
  <2>3. Max(T) \in T /\ \A z \in T : Max(T) >= z
    BY <2>2 DEF Max
  <2>4. PICK M : M = Max(T)
    OBVIOUS
  <2>5. M \in T /\ M >= m
    BY <2>2, <2>3, <2>4
  <2>6. M = m
    BY <1>2, <2>1, <2>5
  <2> QED
    BY <2>1, <2>4, <2>6
<1>5. IsFiniteSet(1..m) /\ Cardinality(1..m) = m
  <2>1. /\ IsFiniteSet(1..m)
        /\ Cardinality(1..m) = IF 1 > m THEN 0 ELSE m - 1 + 1
    BY FS_Interval
  <2> QED
    BY <1>2, <2>1
<1> QED
  BY <1>2, <1>3, <1>4, <1>5

\* The digests of all features of a text, and of the places looked at, are
\* finite.
LEMMA AllFinite ==
    ASSUME NEW key, NEW l \in Nat
    PROVE  IsFiniteSet(Digests(key, Starts(l))) /\ IsFiniteSet(Digests(key, Sampled(l)))
<1>1. PICK m \in Nat : Starts(l) = 1..m /\ Max(Starts(l)) = m
  BY StartsAre
<1>2. IsFiniteSet(Digests(key, Starts(l)))
  <2>1. PICK g : g = [i \in 1..m |-> i]
    OBVIOUS
  <2>2. Starts(l) = {g[i] : i \in 1..m}
    BY <1>1, <2>1
  <2>3. g = [i \in 1..m |-> g[i]]
    BY <2>1
  <2> QED
    BY <2>2, <2>3, DigestsFinite
<1>3. CASE m <= Samples
  BY <1>1, <1>2, <1>3 DEF Sampled
<1>4. CASE ~(m <= Samples)
  <2>1. PICK g : g = [i \in 1..Samples |-> 1 + (((i - 1) * (m - 1)) \div (Samples - 1))]
    OBVIOUS
  <2>2. Sampled(l) = {g[i] : i \in 1..Samples}
    <3>1. Sampled(l) = {1 + (((i - 1) * (m - 1)) \div (Samples - 1)) : i \in 1..Samples}
      BY <1>1, <1>4 DEF Sampled
    <3> QED
      BY <2>1, <3>1
  <2>3. g = [i \in 1..Samples |-> g[i]]
    BY <2>1
  <2>4. Samples \in Nat
    BY RecordAssumption
  <2>5. IsFiniteSet(Digests(key, Sampled(l)))
    BY <2>2, <2>3, <2>4, DigestsFinite
  <2> QED
    BY <1>2, <2>5
<1> QED
  BY <1>3, <1>4

\* A fingerprint is finite.
LEMMA FingerprintFinite ==
    ASSUME NEW r \in Records
    PROVE  IsFiniteSet(Fingerprint(r)) /\ Cardinality(Fingerprint(r)) \in Nat
<1>1. PICK key : key = NearKey(r)
  OBVIOUS
<1>2. PICK l \in Nat : l = Len(key)
  BY <1>1, NearKeyType
<1>3. PICK H : H = Digests(key, Sampled(l))
  OBVIOUS
<1>4. IsFiniteSet(H)
  BY <1>3, AllFinite
<1>5. PICK f : f = Fingerprint(r)
  OBVIOUS
<1>6. f \in SUBSET H
  BY <1>1, <1>2, <1>3, <1>5 DEF Fingerprint, Smallest
<1>7. IsFiniteSet(f)
  BY <1>4, <1>6, FS_Subset
<1> QED
  BY <1>5, <1>7, FS_CardinalityType

\* Where there are few enough digests, the sketch keeps them all.
LEMMA SmallestOfFew ==
    ASSUME NEW H, IsFiniteSet(H), Cardinality(H) <= Sketch
    PROVE  Smallest(H) = H
<1>1. ASSUME NEW h \in H
      PROVE  Cardinality({k \in H : k <= h}) <= Sketch
  <2>1. PICK T : T = {k \in H : k <= h}
    OBVIOUS
  <2>2. T \in SUBSET H
    BY <2>1
  <2>3. IsFiniteSet(T) /\ Cardinality(T) <= Cardinality(H)
    BY <2>2, FS_Subset
  <2>4. Cardinality(T) \in Nat /\ Cardinality(H) \in Nat /\ Sketch \in Nat
    BY <2>3, FS_CardinalityType, RecordAssumption
  <2>5. PICK a, b \in Nat : a = Cardinality(T) /\ b = Cardinality(H)
    BY <2>4
  <2>6. a <= Sketch
    BY <2>3, <2>4, <2>5
  <2> QED
    BY <2>1, <2>5, <2>6
<1> QED
  BY <1>1 DEF Smallest

\* The fingerprint of a small text holds all its features.
LEMMA SmallIsWhole ==
    ASSUME NEW r \in Records, Small(r)
    PROVE  Fingerprint(r) = AllDigests(r)
<1>1. PICK key : key = NearKey(r)
  OBVIOUS
<1>2. PICK l \in Nat : l = Len(key)
  BY <1>1, NearKeyType
<1>3. PICK m \in Nat : Max(Starts(l)) = m /\ Cardinality(Starts(l)) = m
  BY StartsAre
<1>4. m <= Samples
  BY <1>1, <1>2, <1>3 DEF Small
<1>5. Sampled(l) = Starts(l)
  BY <1>3, <1>4 DEF Sampled
<1>6. PICK H : H = Digests(key, Starts(l))
  OBVIOUS
<1>7. AllDigests(r) = H
  BY <1>1, <1>2, <1>6 DEF AllDigests
<1>8. IsFiniteSet(H) /\ Cardinality(H) <= Sketch
  BY <1>6, <1>7, AllFinite DEF Small
<1>9. Smallest(H) = H
  BY <1>8, SmallestOfFew
<1>10. Fingerprint(r) = Smallest(H)
  BY <1>1, <1>2, <1>5, <1>6 DEF Fingerprint
<1> QED
  BY <1>7, <1>9, <1>10

\* Records that say the same are similar.
LEMMA SameKeyIsSimilar ==
    ASSUME NEW r \in Records, NEW s \in Records, NearKey(r) = NearKey(s)
    PROVE  Similar(r, s)
<1>1. Fingerprint(r) = Fingerprint(s)
  BY DEF Fingerprint
<1>2. PICK f : f = Fingerprint(r)
  OBVIOUS
<1>3. PICK c \in Nat : c = Cardinality(f)
  BY <1>2, FingerprintFinite
<1>4. Min({c, c}) = c
  BY MinOfTwo
<1>5. f \cap f = f
  OBVIOUS
<1>6. Alike(f, f)
  <2>1. Cardinality(f \cap f) = c /\ {Cardinality(f), Cardinality(f)} = {c, c}
    BY <1>3, <1>5
  <2>2. Min({Cardinality(f), Cardinality(f)}) = c
    BY <1>4, <2>1
  <2> QED
    BY <2>1, <2>2 DEF Alike
<1> QED
  BY <1>1, <1>2, <1>6 DEF Similar

\* Of two records that are not similar nothing is seen in the other.
LEMMA DissimilarIsUnseen ==
    ASSUME NEW h \in Records, NEW c \in Records, ~Similar(h, c)
    PROVE  Unseen(h, c)
<1>1. NearKey(h) # NearKey(c)
  BY SameKeyIsSimilar
<1>2. ASSUME Small(h), Small(c) PROVE ~Alike(AllDigests(h), AllDigests(c))
  BY <1>2, SmallIsWhole DEF Similar
<1> QED
  BY <1>1, <1>2 DEF Unseen

\* The id of a record says what it is made of.
LEMMA SameIdIsSimilar ==
    ASSUME NEW r \in Records, NEW s \in Records, r.id = s.id
    PROVE  Similar(r, s)
<1>1. PICK m \in Nat : r.id = <<r.source, m, Payload(r)>>
  BY DEF Records
<1>2. PICK n \in Nat : s.id = <<s.source, n, Payload(s)>>
  BY DEF Records
<1>3. r.source = s.source /\ Payload(r) = Payload(s)
  <2>1. PICK p, q : p = Payload(r) /\ q = Payload(s)
    OBVIOUS
  <2>2. <<r.source, m, p>> = <<s.source, n, q>>
    BY <1>1, <1>2, <2>1
  <2>3. r.source = s.source /\ p = q
    BY ONLY <2>2
  <2> QED
    BY <2>1, <2>3
<1>4. r.kind = s.kind
  BY <1>3 DEF Records, RawRecords
<1>5. NearKey(r) = NearKey(s)
  BY <1>3, <1>4 DEF NearKey
<1> QED
  BY <1>5, SameKeyIsSimilar

-----------------------------------------------------------------------------
(***************************************************************************)
(* Adapted records and selections                                          *)
(***************************************************************************)

\* The values of a sequence.
LEMMA InToSet ==
    ASSUME NEW R, NEW s \in Seq(R)
    PROVE  /\ s \in Seq(ToSet(s)) /\ ToSet(s) \subseteq R
           /\ \A x : x \in ToSet(s) <=> \E i \in DOMAIN s : x = s[i]
<1>1. PICK n \in Nat : n = Len(s) /\ DOMAIN s = 1..n /\ s = [i \in 1..n |-> s[i]]
  OBVIOUS
<1>2. PICK T : T = ToSet(s)
  OBVIOUS
<1>3. \A x : x \in T <=> \E i \in DOMAIN s : x = s[i]
  BY <1>2 DEF ToSet
<1>4. \A i \in 1..n : s[i] \in T
  BY <1>1, <1>3
<1>5. s \in Seq(T)
  <2>1. [i \in 1..n |-> s[i]] \in Seq(T)
    BY <1>4
  <2> QED
    BY <1>1, <2>1
<1>6. T \subseteq R
  <2>1. \A i \in DOMAIN s : s[i] \in R
    OBVIOUS
  <2> QED
    BY <1>3, <2>1
<1> QED
  BY <1>2, <1>3, <1>5, <1>6

\* Every parent consists of records that its validation accepts.
LEMMA ParentType ==
    ASSUME NEW v \in Version
    PROVE  /\ Parent[v] \in Seq(Records)
           /\ \A i \in DOMAIN Parent[v] : ValidCorpusRecord(Parent[v][i])
<1>1. PICK rows : rows = Rows[v]
  OBVIOUS
<1>2. GoodRows(rows)
  BY <1>1, BuildAssumption DEF GoodRows
<1>3. Parent[v] = ParentRecords(rows)
  BY <1>1 DEF Parent
<1> QED
  BY <1>2, <1>3, ParentRecordsType

\* The adapted records are target records, no two of them similar.
LEMMA AdaptedType ==
    ASSUME NEW v \in Version
    PROVE  /\ Target[v] \in Seq(Records)
           /\ Adapted[v] \in Seq(Records) /\ Adapted[v] \in Seq(ToSet(Target[v]))
           /\ Dissimilar(Adapted[v])
<1>1. PICK t : t = Target[v]
  OBVIOUS
<1>2. t \in Seq(Records)
  BY <1>1, ParentType, TargetRecordsType DEF Target
<1>3. PICK T : T = ToSet(t)
  OBVIOUS
<1>4. t \in Seq(T) /\ T \subseteq Records
  BY <1>2, <1>3, InToSet
<1>5. Deduplicate(t) \in Seq(T) /\ Dissimilar(Deduplicate(t))
  BY <1>4, Deduplicated
<1>6. Adapted[v] = Deduplicate(t)
  BY <1>1 DEF Adapted
<1>7. Deduplicate(t) \in Seq(Records)
  BY <1>2, Deduplicated
<1> QED
  BY <1>1, <1>2, <1>3, <1>5, <1>6, <1>7

\* The records a build selects from, those of one domain, and some of those
\* one after the other.
Pool(v) == ToSet(Adapted[v])
DomainPool(v, d) == {r \in Pool(v) : r.domain = d}
Distinct(s) == \A i, j \in DOMAIN s : s[i] = s[j] => i = j
Selection(s, v, d) == s \in Seq(DomainPool(v, d)) /\ Distinct(s)

\* An adapted record is known by its id, and is not similar to another.
LEMMA PoolIs ==
    ASSUME NEW v \in Version
    PROVE  /\ Pool(v) \subseteq Records /\ Pool(v) \subseteq ToSet(Target[v])
           /\ Adapted[v] \in Seq(Pool(v)) /\ Distinct(Adapted[v])
           /\ \A r, s \in Pool(v) : r.id = s.id => r = s
           /\ \A r, s \in Pool(v) : r # s => ~Similar(r, s)
<1>1. PICK a : a = Adapted[v]
  OBVIOUS
<1>2. a \in Seq(Records) /\ a \in Seq(ToSet(Target[v])) /\ Dissimilar(a)
  BY <1>1, AdaptedType
<1>3. PICK P : P = Pool(v)
  OBVIOUS
<1>4. /\ P \subseteq Records /\ a \in Seq(P)
      /\ \A x : x \in P <=> \E i \in DOMAIN a : x = a[i]
  BY <1>1, <1>2, <1>3, InToSet DEF Pool
<1>5. P \subseteq ToSet(Target[v])
  <2>1. PICK T : T = ToSet(Target[v])
    OBVIOUS
  <2>2. \A i \in DOMAIN a : a[i] \in T
    BY <1>2, <2>1
  <2> QED
    BY <1>4, <2>1, <2>2
<1>6. ASSUME NEW i \in DOMAIN a, NEW j \in DOMAIN a, a[i].id = a[j].id PROVE i = j
  <2>1. a[i] \in Records /\ a[j] \in Records
    BY <1>2
  <2>2. Similar(a[i], a[j])
    BY <1>6, <2>1, SameIdIsSimilar
  <2> QED
    BY <1>2, <2>2 DEF Dissimilar
<1>7. Distinct(a)
  BY <1>6 DEF Distinct
<1>8. \A r, s \in P : r.id = s.id => r = s
  BY <1>4, <1>6
<1>9. \A r, s \in P : r # s => ~Similar(r, s)
  BY <1>2, <1>4 DEF Dissimilar
<1> QED
  BY <1>1, <1>3, <1>4, <1>5, <1>7, <1>8, <1>9

\* A part of a selection is a selection.
LEMMA PartOfSelection ==
    ASSUME NEW v, NEW d, NEW s, NEW t, PartOf(s, t), Selection(t, v, d)
    PROVE  Selection(s, v, d)
<1>1. s \in Seq(DomainPool(v, d))
  BY PartOfValues DEF Selection
<1>2. PICK f : Takes(s, t, f)
  BY DEF PartOf
<1>3. PICK m, n \in Nat : m = Len(s) /\ n = Len(t)
  BY <1>2 DEF Takes
<1>4. /\ DOMAIN s = 1..m /\ DOMAIN t = 1..n
      /\ \A i \in 1..m : f[i] \in 1..n /\ s[i] = t[f[i]]
      /\ \A i, j \in 1..m : f[i] = f[j] => i = j
  <2>1. DOMAIN s = 1..m /\ DOMAIN t = 1..n
    BY <1>1, <1>3 DEF Selection
  <2> QED
    BY <1>2, <1>3, <2>1 DEF Takes
<1>5. Distinct(s)
  BY <1>4 DEF Selection, Distinct
<1> QED
  BY <1>1, <1>5 DEF Selection

\* The records of a domain are a selection.
LEMMA InDomainIs ==
    ASSUME NEW v \in Version, NEW d
    PROVE  /\ Selection(InDomain(Adapted[v], d), v, d)
           /\ Len(InDomain(Adapted[v], d)) <= Len(Adapted[v])
<1>1. PICK a : a = Adapted[v]
  OBVIOUS
<1>2. PICK S : S = {i \in DOMAIN a : a[i].domain = d}
  OBVIOUS
<1>3. PICK s : s = At(a, S)
  OBVIOUS
<1>4. InDomain(a, d) = s
  BY <1>2, <1>3 DEF InDomain, Where
<1>5. PICK P : P = Pool(v)
  OBVIOUS
<1>6. a \in Seq(P) /\ Distinct(a)
  BY <1>1, <1>5, PoolIs
<1>7. PICK n \in Nat : n = Len(a) /\ DOMAIN a = 1..n
  BY <1>6
<1>8. PICK c \in Nat : /\ c = Cardinality(S) /\ Len(s) = c /\ DOMAIN s = 1..c /\ PartOf(s, a)
                       /\ \A k \in 1..c : Nth(S, k) \in S /\ s[k] = a[Nth(S, k)]
                       /\ s \in Seq(P)
  <2>1. S \subseteq DOMAIN a
    BY <1>2
  <2>2. PICK c : c = Cardinality(S)
    OBVIOUS
  <2> QED
    BY <1>3, <1>6, <2>1, <2>2, PartOfAt
<1>9. c <= n
  <2>1. S \subseteq 1..n
    BY <1>2, <1>7
  <2>2. Cardinality(S) <= n
    BY <2>1, NthAll
  <2>3. c = Cardinality(S)
    BY <1>8
  <2> QED
    BY <2>2, <2>3
<1>10. \A k \in 1..c : s[k] \in P /\ s[k].domain = d
  BY <1>2, <1>8
<1>11. s \in Seq(DomainPool(v, d))
  <2>1. \A k \in 1..c : s[k] \in DomainPool(v, d)
    BY <1>5, <1>10 DEF DomainPool
  <2>2. s = [k \in 1..c |-> s[k]]
    <3>1. s \in Seq(P) /\ DOMAIN s = 1..c
      BY <1>8
    <3>2. s = [k \in DOMAIN s |-> s[k]]
      BY ONLY <3>1
    <3> QED
      BY ONLY <3>1, <3>2
  <2>3. [k \in 1..c |-> s[k]] \in Seq(DomainPool(v, d))
    BY <2>1
  <2> QED
    BY <2>2, <2>3
<1>12. Distinct(s)
  <2>1. PICK f : Takes(s, a, f)
    BY <1>8 DEF PartOf
  <2>2. /\ \A i \in 1..c : f[i] \in 1..n /\ s[i] = a[f[i]]
        /\ \A i, j \in 1..c : f[i] = f[j] => i = j
    BY <1>7, <1>8, <2>1 DEF Takes
  <2> QED
    BY <1>6, <1>7, <1>8, <2>2 DEF Distinct
<1> QED
  BY <1>1, <1>4, <1>7, <1>8, <1>9, <1>11, <1>12 DEF Selection

\* A shuffle takes every record once.
LEMMA OrderedIsPart ==
    ASSUME NEW v \in Version, NEW R, NEW t \in Seq(R), Len(t) <= Len(Adapted[v]),
           NEW order \in Shuffles, NEW sh \in {order.first, order.second}
    PROVE  PartOf(Ordered(t, sh), t) /\ Ordered(t, sh) \in Seq(R) /\ Len(Ordered(t, sh)) = Len(t)
<1>1. PICK n \in Nat : n = Len(t) /\ DOMAIN t = 1..n
  OBVIOUS
<1>2. PICK f : f = sh[n]
  OBVIOUS
<1>3. f \in [1..n -> 1..n] /\ \A i, j \in 1..n : f[i] = f[j] => i = j
  <2>1. n \in 0..Len(Adapted[v])
    <3>1. Len(Adapted[v]) \in Nat
      BY AdaptedType
    <3> QED
      BY <1>1, <3>1
  <2>2. f \in {order.first[n], order.second[n]}
    BY <1>2
  <2>3. \A g \in {order.first[n], order.second[n]} : g \in [1..n -> 1..n] /\ IsInjective(g)
    BY <2>1, BuildAssumption
  <2>4. f \in [1..n -> 1..n] /\ IsInjective(f)
    BY <2>2, <2>3
  <2> QED
    BY <2>4 DEF IsInjective
<1>4. PICK s : s = Ordered(t, sh)
  OBVIOUS
<1>5. s = [i \in 1..n |-> t[f[i]]]
  BY <1>1, <1>2, <1>4 DEF Ordered
<1>6. s \in Seq(R) /\ Len(s) = n
  <2>1. \A i \in 1..n : t[f[i]] \in R
    <3>1. \A i \in 1..n : f[i] \in 1..n
      BY <1>3
    <3>2. \A i \in 1..n : t[i] \in R
      BY <1>1
    <3> QED
      BY <3>1, <3>2
  <2> QED
    BY <1>5, <2>1
<1>7. Takes(s, t, f)
  BY <1>1, <1>3, <1>5, <1>6 DEF Takes
<1> QED
  BY <1>1, <1>4, <1>6, <1>7 DEF PartOf

\* The shortest prefix that reaches a target.
LEMMA TakeIs ==
    ASSUME NEW R, NEW s \in Seq(R), NEW target \in Nat
    PROVE  \/ /\ TakeToTokenBudget(s, target) = Error
              /\ \A n \in 0..Len(s) : ~(TokensOf(SubSeq(s, 1, n)) >= target)
           \/ \E m \in 0..Len(s) :
              /\ TakeToTokenBudget(s, target) = SubSeq(s, 1, m)
              /\ TokensOf(SubSeq(s, 1, m)) >= target
              /\ \A n \in 0..Len(s) : n < m => ~(TokensOf(SubSeq(s, 1, n)) >= target)
<1>1. PICK l \in Nat : l = Len(s)
  OBVIOUS
<1>2. PICK enough : enough = {n \in 0..l : TokensOf(SubSeq(s, 1, n)) >= target}
  OBVIOUS
<1>3. TakeToTokenBudget(s, target) = IF enough = {} THEN Error ELSE SubSeq(s, 1, Min(enough))
  BY <1>1, <1>2 DEF TakeToTokenBudget
<1>4. CASE enough = {}
  BY <1>1, <1>2, <1>3, <1>4
<1>5. CASE enough # {}
  <2>1. enough \subseteq Nat
    BY <1>1, <1>2
  <2>2. PICK m \in enough : m = Min(enough) /\ \A n \in enough : m <= n
    BY <1>5, <2>1, MinIs
  <2>3. m \in 0..l /\ TokensOf(SubSeq(s, 1, m)) >= target
    BY <1>2
  <2>4. ASSUME NEW n \in 0..l, n < m PROVE n \notin enough
    BY <2>2, <2>4, <2>1, <1>1
  <2> QED
    BY <1>1, <1>2, <1>3, <1>5, <2>2, <2>3, <2>4
<1> QED
  BY <1>4, <1>5

-----------------------------------------------------------------------------
(***************************************************************************)
(* Tokens of a selection                                                   *)
(***************************************************************************)

\* A sum is the sum over a part and the sum over the rest.
LEMMA SumOnParts ==
    ASSUME NEW S, IsFiniteSet(S), NEW f, \A x \in S : f[x] \in Nat
    PROVE  \A T \in SUBSET S : SumOn(f, S) = SumOn(f, T) + SumOn(f, S \ T)
<1> DEFINE P == {T \in SUBSET S : SumOn(f, S) = SumOn(f, T) + SumOn(f, S \ T)}
<1>1. ASSUME NEW T \in SUBSET S, \A U \in SUBSET S : Cardinality(U) < Cardinality(T) => U \in P
      PROVE  T \in P
  <2>1. CASE T = {}
    <3>1. S \ T = S /\ SumOn(f, T) = 0
      BY <2>1, SumOnRest, FS_EmptySet
    <3>2. SumOn(f, S) \in Nat
      BY SumOnNat
    <3> QED
      BY <3>1, <3>2
  <2>2. CASE T # {}
    <3>1. PICK x \in T : TRUE
      BY <2>2
    <3>2. PICK U \in SUBSET S, V \in SUBSET S : U = T \ {x} /\ V = S \ U
      OBVIOUS
    <3>3. Cardinality(U) < Cardinality(T)
      <4>1. IsFiniteSet(T)
        BY FS_Subset
      <4>2. Cardinality(U) = Cardinality(T) - 1 /\ Cardinality(T) \in Nat
        BY <3>1, <3>2, <4>1, FS_RemoveElement, FS_CardinalityType
      <4> QED
        BY <4>2
    <3>4. SumOn(f, S) = SumOn(f, U) + SumOn(f, V)
      BY <1>1, <3>2, <3>3
    <3>5. SumOn(f, T) = f[x] + SumOn(f, U)
      BY <3>1, <3>2, SumOnAny
    <3>6. x \in V /\ V \ {x} = S \ T
      BY <3>1, <3>2
    <3>7. SumOn(f, V) = f[x] + SumOn(f, S \ T)
      BY <3>6, SumOnAny
    <3>8. f[x] \in Nat /\ SumOn(f, U) \in Nat /\ SumOn(f, S \ T) \in Nat
      <4>1. S \ T \in SUBSET S
        OBVIOUS
      <4> QED
        BY <3>1, <4>1, SumOnNat
    <3> QED
      BY <3>4, <3>5, <3>7, <3>8
  <2> QED
    BY <2>1, <2>2
<1>2. SUBSET S \subseteq P
  <2> HIDE DEF P
  <2> QED
    BY <1>1, SubsetInduction
<1> QED
  BY <1>2

\* The tokens of every record, and those of a set of records.
tok == [r \in Records |-> Tokens(r)]

\* Tokens are counted in naturals.
LEMMA TokType == tok \in [Records -> Nat]
<1>1. ASSUME NEW r \in Records PROVE Tokens(r) \in Nat
  <2>1. r.body \in Seq(Messages)
    BY DEF Records, RawRecords
  <2> QED
    BY <2>1, PayloadLengthType DEF Tokens
<1> QED
  BY <1>1 DEF tok

\* A sequence has finitely many values.
LEMMA ValuesFinite ==
    ASSUME NEW R, NEW s \in Seq(R)
    PROVE  IsFiniteSet(ToSet(s))
<1>1. PICK n \in Nat : n = Len(s) /\ DOMAIN s = 1..n /\ s = [i \in 1..n |-> s[i]]
  OBVIOUS
<1>2. IsFiniteSet({s[i] : i \in 1..n})
  BY <1>1, ImageOfInterval
<1>3. ToSet(s) = {s[i] : i \in 1..n}
  BY <1>1 DEF ToSet
<1> QED
  BY <1>2, <1>3

\* The tokens of distinct records are a sum over the set of them.
LEMMA TokensOfIs ==
    ASSUME NEW s \in Seq(Records), Distinct(s)
    PROVE  TokensOf(s) = SumOn(tok, ToSet(s)) /\ TokensOf(s) \in Nat
<1>1. PICK n \in Nat : n = Len(s) /\ DOMAIN s = 1..n
  OBVIOUS
<1>2. PICK h : h = [i \in DOMAIN s |-> Tokens(s[i])]
  OBVIOUS
<1>3. TokensOf(s) = SumOn(h, 1..n)
  BY <1>1, <1>2, SumIsSumOn DEF TokensOf
<1>4. PICK S : S = ToSet(s)
  OBVIOUS
<1>5. Reindexed(n, s, S, tok, h)
  <2>1. \A x : x \in S <=> \E i \in 1..n : x = s[i]
    BY <1>1, <1>4, InToSet
  <2>2. \A i, j \in 1..n : s[i] = s[j] => i = j
    BY <1>1 DEF Distinct
  <2>3. ASSUME NEW i \in 1..n PROVE tok[s[i]] \in Nat /\ h[i] = tok[s[i]]
    <3>1. s[i] \in Records
      BY <1>1
    <3> QED
      BY <1>1, <1>2, <3>1, TokType DEF tok
  <2> QED
    BY <2>1, <2>2, <2>3 DEF Reindexed
<1>6. SumOn(tok, S) = SumOn(h, 1..n)
  BY <1>5, SumReindexed
<1>7. SumOn(tok, S) \in Nat
  <2>1. IsFiniteSet(S) /\ S \in SUBSET S
    BY <1>4, ValuesFinite
  <2>2. \A x \in S : tok[x] \in Nat
    BY <1>4, InToSet, TokType
  <2> QED
    BY <2>1, <2>2, SumOnNat
<1> QED
  BY <1>3, <1>4, <1>6, <1>7

\* One record more.
LEMMA TokensOfPrefix ==
    ASSUME NEW s \in Seq(Records), Distinct(s), NEW m \in 1..Len(s)
    PROVE  /\ TokensOf(SubSeq(s, 1, m)) = TokensOf(SubSeq(s, 1, m - 1)) + Tokens(s[m])
           /\ TokensOf(SubSeq(s, 1, m - 1)) \in Nat /\ Tokens(s[m]) \in Nat
<1>1. PICK n \in Nat : n = Len(s) /\ DOMAIN s = 1..n
  OBVIOUS
<1>2. PICK k \in Nat : k = m - 1 /\ m = k + 1 /\ m \in Nat /\ m <= n /\ k <= n
  BY <1>1
<1>3. PICK a, b : a = SubSeq(s, 1, m) /\ b = SubSeq(s, 1, k)
  OBVIOUS
<1>4. /\ a \in Seq(Records) /\ b \in Seq(Records) /\ DOMAIN a = 1..m /\ DOMAIN b = 1..k
      /\ \A i \in 1..m : a[i] = s[i]
      /\ \A i \in 1..k : b[i] = s[i]
  <2>1. Len(a) = m /\ Len(b) = k /\ a \in Seq(Records) /\ b \in Seq(Records)
    BY <1>1, <1>2, <1>3, PartOfPrefix
  <2> QED
    BY <1>1, <1>2, <1>3, <2>1
<1>5. Distinct(a) /\ Distinct(b)
  <2>1. \A i, j \in 1..n : s[i] = s[j] => i = j
    BY <1>1 DEF Distinct
  <2>2. 1..m \subseteq 1..n /\ 1..k \subseteq 1..n
    BY <1>2
  <2>3. \A i, j \in 1..m : a[i] = a[j] => i = j
    BY <1>4, <2>1, <2>2
  <2>4. \A i, j \in 1..k : b[i] = b[j] => i = j
    BY <1>4, <2>1, <2>2
  <2>5. DOMAIN a = 1..m /\ DOMAIN b = 1..k
    BY <1>4
  <2> QED
    BY <2>3, <2>4, <2>5 DEF Distinct
<1>6. /\ TokensOf(a) = SumOn(tok, ToSet(a)) /\ TokensOf(b) = SumOn(tok, ToSet(b))
      /\ TokensOf(b) \in Nat
  BY <1>4, <1>5, TokensOfIs
<1>7. PICK x, A, B : x = s[m] /\ A = ToSet(a) /\ B = ToSet(b)
  OBVIOUS
<1>8. A = B \cup {x} /\ x \notin B
  <2>1. /\ \A y : y \in A <=> \E i \in 1..m : y = s[i]
        /\ \A y : y \in B <=> \E i \in 1..k : y = s[i]
    <3>1. \A y : y \in ToSet(a) <=> \E i \in DOMAIN a : y = a[i]
      BY <1>4, InToSet
    <3>2. \A y : y \in ToSet(b) <=> \E i \in DOMAIN b : y = b[i]
      BY <1>4, InToSet
    <3>3. (\A i \in DOMAIN a : a[i] = s[i]) /\ (\A i \in DOMAIN b : b[i] = s[i])
      BY <1>4
    <3>4. \A y : y \in A <=> \E i \in DOMAIN a : y = s[i]
      BY <1>7, <3>1, <3>3
    <3>5. \A y : y \in B <=> \E i \in DOMAIN b : y = s[i]
      BY <1>7, <3>2, <3>3
    <3>6. DOMAIN a = 1..m /\ DOMAIN b = 1..k
      BY <1>4
    <3> QED
      BY <3>4, <3>5, <3>6
  <2>2. \A i \in 1..m : i \in 1..k \/ i = m
    BY <1>2
  <2>3. x \notin B
    BY <1>1, <1>2, <1>7, <2>1 DEF Distinct
  <2>4. \A y : y \in A <=> y \in B \cup {x}
    BY <1>2, <1>7, <2>1, <2>2
  <2> QED
    BY <2>3, <2>4
<1>9. IsFiniteSet(B)
  BY <1>4, <1>7, ValuesFinite
<1>10. x \in Records /\ B \subseteq Records
  BY <1>1, <1>2, <1>4, <1>7, InToSet
<1>11. SumOn(tok, B \cup {x}) = SumOn(tok, B) + tok[x]
  <2>1. \A y \in B \cup {x} : tok[y] \in Nat
    BY <1>10, TokType
  <2> QED
    BY <1>8, <1>9, <2>1, SumOnMore
<1>12. tok[x] = Tokens(x) /\ tok[x] \in Nat
  BY <1>10, TokType DEF tok
<1> QED
  BY <1>2, <1>3, <1>6, <1>7, <1>8, <1>11, <1>12

\* A part as long as the whole has all its values.
LEMMA WholePart ==
    ASSUME NEW R, NEW s \in Seq(R), NEW t \in Seq(R), PartOf(s, t), Len(s) = Len(t)
    PROVE  ToSet(s) = ToSet(t)
<1>1. PICK n \in Nat : n = Len(s) /\ n = Len(t) /\ DOMAIN s = 1..n /\ DOMAIN t = 1..n
  OBVIOUS
<1>2. PICK f : Takes(s, t, f)
  BY DEF PartOf
<1>3. /\ f \in [1..n -> 1..n]
      /\ \A i, j \in 1..n : f[i] = f[j] => i = j
      /\ \A i \in 1..n : s[i] = t[f[i]]
  BY <1>1, <1>2 DEF Takes
<1>4. PICK I : I = 1..n
  OBVIOUS
<1>5. f \in Injection(I, I)
  BY <1>3, <1>4 DEF Injection, IsInjective
<1>6. IsFiniteSet(I)
  BY <1>4, FS_Interval
<1>7. f \in Surjection(I, I)
  BY <1>5, <1>6, FS_Injection
<1>8. \A j \in I : \E i \in I : f[i] = j
  BY <1>7 DEF Surjection
<1>9. /\ \A x : x \in ToSet(s) <=> \E i \in DOMAIN s : x = s[i]
      /\ \A x : x \in ToSet(t) <=> \E i \in DOMAIN t : x = t[i]
  BY InToSet
<1>10. PICK A, B : A = ToSet(s) /\ B = ToSet(t)
  OBVIOUS
<1>11. \A i \in 1..n : f[i] \in 1..n /\ s[i] = t[f[i]]
  BY <1>3
<1>12. /\ \A x : x \in A <=> \E i \in 1..n : x = s[i]
       /\ \A x : x \in B <=> \E i \in 1..n : x = t[i]
  BY <1>1, <1>9, <1>10
<1>13. ASSUME NEW x \in A PROVE x \in B
  BY <1>11, <1>12
<1>14. ASSUME NEW x \in B PROVE x \in A
  <2>1. PICK j \in 1..n : x = t[j]
    BY <1>12
  <2>2. PICK i \in 1..n : f[i] = j
    BY <1>4, <1>8
  <2> QED
    BY <1>11, <1>12, <2>1, <2>2
<1> QED
  BY <1>10, <1>13, <1>14

-----------------------------------------------------------------------------
(***************************************************************************)
(* Shuffles and budgets                                                    *)
(***************************************************************************)

\* No record of the one is a record of the other.
Apart(s, t) == \A r \in ToSet(s), q \in ToSet(t) : r.id # q.id

\* What a domain contributes to a build.
Contribution(v, d, args, hold, selected) ==
    /\ Selection(hold, v, d) /\ Selection(selected, v, d)
    /\ Apart(hold, selected)
    /\ TokensOf(hold) >= args.holdout
    /\ TokensOf(selected) >= args.target

\* A selection is neither an exception nor damage.
LEMMA NoErrorSelected ==
    ASSUME NEW v \in Version, NEW d, NEW s, Selection(s, v, d)
    PROVE  s # Error /\ s # Garbage
<1>1. s \in Seq(Pool(v))
  <2>1. DomainPool(v, d) \subseteq Pool(v)
    BY DEF DomainPool
  <2> QED
    BY <2>1 DEF Selection
<1>2. Error \notin Seq(Pool(v)) /\ Garbage \notin Seq(Pool(v))
  BY BuildAssumption DEF Pool
<1> QED
  BY <1>1, <1>2

\* A selection consists of distinct adapted records of its domain.
LEMMA SelectionIsOfRecords ==
    ASSUME NEW v \in Version, NEW d, NEW s, Selection(s, v, d)
    PROVE  /\ s \in Seq(Records) /\ s \in Seq(Pool(v)) /\ Distinct(s)
           /\ ToSet(s) \subseteq Pool(v) /\ \A r \in ToSet(s) : r.domain = d
<1>1. DomainPool(v, d) \subseteq Pool(v) /\ Pool(v) \subseteq Records
  BY PoolIs DEF DomainPool
<1>2. s \in Seq(DomainPool(v, d)) /\ Distinct(s)
  BY DEF Selection
<1>3. ToSet(s) \subseteq DomainPool(v, d)
  BY <1>2, InToSet
<1> QED
  BY <1>1, <1>2, <1>3 DEF DomainPool

\* A shuffled selection, and the front of one.
LEMMA ShuffledIs ==
    ASSUME NEW v \in Version, NEW d, NEW s, Selection(s, v, d), Len(s) <= Len(Adapted[v]),
           NEW order \in Shuffles, NEW sh \in {order.first, order.second}
    PROVE  /\ Selection(Ordered(s, sh), v, d) /\ ToSet(Ordered(s, sh)) = ToSet(s)
           /\ Selection(Reverse(Ordered(s, sh)), v, d)
           /\ ToSet(Reverse(Ordered(s, sh))) = ToSet(s)
<1>1. PICK R : R = DomainPool(v, d)
  OBVIOUS
<1>2. s \in Seq(R)
  BY <1>1 DEF Selection
<1>3. PICK o : o = Ordered(s, sh)
  OBVIOUS
<1>4. PartOf(o, s) /\ o \in Seq(R) /\ Len(o) = Len(s)
  BY <1>2, <1>3, OrderedIsPart
<1>5. Selection(o, v, d)
  BY <1>4, PartOfSelection
<1>6. ToSet(o) = ToSet(s)
  BY <1>2, <1>4, WholePart
<1>7. PartOf(Reverse(o), o) /\ Reverse(o) \in Seq(R) /\ Len(Reverse(o)) = Len(o)
  BY <1>4, PartOfReverse
<1>8. Selection(Reverse(o), v, d)
  BY <1>5, <1>7, PartOfSelection
<1>9. ToSet(Reverse(o)) = ToSet(o)
  BY <1>4, <1>7, WholePart
<1> QED
  BY <1>3, <1>5, <1>6, <1>8, <1>9

\* The front of a selection is a selection.
LEMMA FrontIs ==
    ASSUME NEW v \in Version, NEW d, NEW s, Selection(s, v, d), NEW m \in 0..Len(s)
    PROVE  Selection(SubSeq(s, 1, m), v, d) /\ ToSet(SubSeq(s, 1, m)) \subseteq ToSet(s)
<1>1. PICK R : R = DomainPool(v, d)
  OBVIOUS
<1>2. s \in Seq(R) /\ m \in Nat /\ m <= Len(s)
  BY <1>1 DEF Selection
<1>3. PICK p : p = SubSeq(s, 1, m)
  OBVIOUS
<1>4. PartOf(p, s)
  BY <1>2, <1>3, PartOfPrefix
<1>5. Selection(p, v, d)
  BY <1>4, PartOfSelection
<1>6. \A i \in DOMAIN p : p[i] \in {s[j] : j \in 1..Len(s)}
  BY <1>4, PartOfValues
<1>7. ToSet(p) \subseteq ToSet(s)
  <2>1. p \in Seq(R)
    BY <1>1, <1>5 DEF Selection
  <2>2. \A x \in ToSet(p) : \E i \in DOMAIN p : x = p[i]
    BY <2>1, InToSet
  <2>3. \A x \in {s[j] : j \in 1..Len(s)} : x \in ToSet(s)
    BY <1>2 DEF ToSet
  <2> QED
    BY <1>6, <2>2, <2>3
<1> QED
  BY <1>3, <1>5, <1>7

\* A selection without the records of another has none of them
\* (select_holdout).
LEMMA WithoutIs ==
    ASSUME NEW v \in Version, NEW d, NEW s, Selection(s, v, d),
           NEW hold, Selection(hold, v, d)
    PROVE  /\ Selection(Without(s, hold), v, d) /\ Len(Without(s, hold)) <= Len(s)
           /\ ToSet(Without(s, hold)) = ToSet(s) \ ToSet(hold)
           /\ Apart(hold, Without(s, hold))
<1>1. PICK R : R = DomainPool(v, d)
  OBVIOUS
<1>2. s \in Seq(R) /\ hold \in Seq(R)
  BY <1>1 DEF Selection
<1>3. PICK n \in Nat : n = Len(s) /\ DOMAIN s = 1..n
  BY <1>2
<1>4. PICK ids : ids = {hold[i].id : i \in DOMAIN hold}
  OBVIOUS
<1>5. PICK S : S = {i \in DOMAIN s : s[i].id \notin ids}
  OBVIOUS
<1>6. PICK w : w = At(s, S)
  OBVIOUS
<1>7. Without(s, hold) = w
  BY <1>4, <1>5, <1>6 DEF Without, Where
<1>8. PartOf(w, s) /\ w \in Seq(R) /\ Len(w) = Cardinality(S) /\ ToSet(w) = {s[i] : i \in S}
  <2>1. S \subseteq DOMAIN s
    BY <1>5
  <2>2. PartOf(At(s, S), s) /\ At(s, S) \in Seq(R) /\ Len(At(s, S)) = Cardinality(S)
    BY <1>2, <2>1, PartOfAt
  <2>3. ToSet(At(s, S)) = {s[i] : i \in S}
    BY <1>2, <2>1, AtAll
  <2> QED
    BY <1>6, <2>2, <2>3
<1>9. Len(w) <= n
  <2>1. S \subseteq 1..n
    BY <1>3, <1>5
  <2>2. Cardinality(S) <= n
    BY <2>1, NthAll
  <2>3. Len(w) = Cardinality(S)
    BY <1>8
  <2> QED
    BY <2>2, <2>3
<1>10. Selection(w, v, d)
  BY <1>8, PartOfSelection
<1>11. /\ \A x : x \in ToSet(s) <=> \E i \in DOMAIN s : x = s[i]
       /\ \A x : x \in ToSet(hold) <=> \E i \in DOMAIN hold : x = hold[i]
  <2>1. \A x : x \in ToSet(s) <=> \E i \in DOMAIN s : x = s[i]
    BY <1>2, InToSet
  <2>2. \A x : x \in ToSet(hold) <=> \E i \in DOMAIN hold : x = hold[i]
    BY <1>2, InToSet
  <2> QED
    BY <2>1, <2>2
<1>12. PICK A, H, W : A = ToSet(s) /\ H = ToSet(hold) /\ W = ToSet(w)
  OBVIOUS
<1>13. \A x : x \in ids <=> \E q \in H : x = q.id
  BY <1>4, <1>11, <1>12
<1>14. \A x : x \in W <=> x \in A /\ x.id \notin ids
  BY <1>5, <1>8, <1>11, <1>12
<1>15. A \subseteq Pool(v) /\ H \subseteq Pool(v)
  BY <1>12, SelectionIsOfRecords
<1>16. \A r, q \in Pool(v) : r.id = q.id => r = q
  BY PoolIs
<1>17. \A x : x \in W <=> x \in A /\ x \notin H
  BY <1>13, <1>14, <1>15, <1>16
<1>18. W = A \ H
  BY <1>17
<1>19. \A r \in H, q \in W : r.id # q.id
  BY <1>13, <1>14
<1>20. Apart(hold, w)
  BY <1>12, <1>19 DEF Apart
<1> QED
  BY <1>3, <1>7, <1>9, <1>10, <1>12, <1>18, <1>20

\* A budget is met by a front that exceeds it by less than its last record, or
\* all the tokens fall short (_take_to_token_budget).
LEMMA TakenIs ==
    ASSUME NEW v \in Version, NEW d, NEW s, Selection(s, v, d), NEW target \in Nat
    PROVE  \/ TakeToTokenBudget(s, target) = Error /\ TokensOf(s) < target
           \/ /\ Selection(TakeToTokenBudget(s, target), v, d)
              /\ ToSet(TakeToTokenBudget(s, target)) \subseteq ToSet(s)
              /\ TokensOf(TakeToTokenBudget(s, target)) >= target
              /\ \/ TokensOf(TakeToTokenBudget(s, target)) = 0
                 \/ \E r \in ToSet(s) :
                       TokensOf(TakeToTokenBudget(s, target)) < target + Tokens(r)
<1>1. s \in Seq(Records) /\ Distinct(s)
  BY SelectionIsOfRecords
<1>2. PICK n \in Nat : n = Len(s)
  BY <1>1
<1>3. PICK t : t = TakeToTokenBudget(s, target)
  OBVIOUS
<1>4. CASE t = Error /\ \A k \in 0..n : ~(TokensOf(SubSeq(s, 1, k)) >= target)
  <2>1. SubSeq(s, 1, n) = s
    BY <1>1, <1>2
  <2>2. ~(TokensOf(s) >= target)
    <3>1. n \in 0..n
      BY <1>2
    <3>2. ~(TokensOf(SubSeq(s, 1, n)) >= target)
      BY <1>4, <3>1
    <3> QED
      BY <2>1, <3>2
  <2>3. TokensOf(s) \in Nat
    BY <1>1, TokensOfIs
  <2> QED
    BY <1>3, <1>4, <2>2, <2>3
<1>5. ASSUME NEW m \in 0..n, t = SubSeq(s, 1, m), TokensOf(t) >= target,
             \A k \in 0..n : k < m => ~(TokensOf(SubSeq(s, 1, k)) >= target)
      PROVE  /\ Selection(t, v, d) /\ ToSet(t) \subseteq ToSet(s)
             /\ TokensOf(t) = 0 \/ \E r \in ToSet(s) : TokensOf(t) < target + Tokens(r)
  <2>1. Selection(t, v, d) /\ ToSet(t) \subseteq ToSet(s)
    BY <1>2, <1>5, FrontIs
  <2>2. CASE m = 0
    <3>1. t = <<>>
      BY <1>1, <1>5, <2>2
    <3>2. TokensOf(t) = 0
      BY <3>1, SumOfNone DEF TokensOf
    <3> QED
      BY <2>1, <3>2
  <2>3. CASE m # 0
    <3>1. m \in 1..Len(s) /\ m - 1 \in 0..n /\ m - 1 < m
      BY <1>2, <2>3
    <3>2. /\ TokensOf(t) = TokensOf(SubSeq(s, 1, m - 1)) + Tokens(s[m])
          /\ TokensOf(SubSeq(s, 1, m - 1)) \in Nat /\ Tokens(s[m]) \in Nat
      BY <1>1, <1>5, <3>1, TokensOfPrefix
    <3>3. ~(TokensOf(SubSeq(s, 1, m - 1)) >= target)
      BY <1>5, <3>1
    <3>4. TokensOf(t) < target + Tokens(s[m])
      BY ONLY <3>2, <3>3, target \in Nat
    <3>5. s[m] \in ToSet(s)
      BY <1>1, <3>1, InToSet
    <3> QED
      BY <2>1, <3>4, <3>5
  <2> QED
    BY <2>2, <2>3
<1>6. CASE \E m \in 0..n :
              /\ t = SubSeq(s, 1, m) /\ TokensOf(SubSeq(s, 1, m)) >= target
              /\ \A k \in 0..n : k < m => ~(TokensOf(SubSeq(s, 1, k)) >= target)
  <2>1. PICK m \in 0..n :
              /\ t = SubSeq(s, 1, m) /\ TokensOf(SubSeq(s, 1, m)) >= target
              /\ \A k \in 0..n : k < m => ~(TokensOf(SubSeq(s, 1, k)) >= target)
    BY <1>6
  <2>2. TokensOf(t) >= target
    BY <2>1
  <2>3. /\ Selection(t, v, d) /\ ToSet(t) \subseteq ToSet(s)
        /\ TokensOf(t) = 0 \/ \E r \in ToSet(s) : TokensOf(t) < target + Tokens(r)
    BY <1>5, <2>1, <2>2
  <2> QED
    BY <1>3, <2>2, <2>3
<1>7. \/ t = Error /\ \A k \in 0..n : ~(TokensOf(SubSeq(s, 1, k)) >= target)
      \/ \E m \in 0..n :
              /\ t = SubSeq(s, 1, m) /\ TokensOf(SubSeq(s, 1, m)) >= target
              /\ \A k \in 0..n : k < m => ~(TokensOf(SubSeq(s, 1, k)) >= target)
  BY <1>1, <1>2, <1>3, TakeIs
<1> QED
  BY <1>4, <1>6, <1>7

-----------------------------------------------------------------------------
(***************************************************************************)
(* What a domain contributes, or lacks                                     *)
(***************************************************************************)

\* A domain's holdout and calibration records, when there is enough of both.
LEMMA SelectionMade ==
    ASSUME shuffle \in Shuffles, NEW v \in Version, NEW args \in Args, NEW d,
           NEW records, records = InDomain(Adapted[v], d),
           NEW hold, hold = SelectHoldout(records, args), hold # Error,
           NEW selected, selected = SelectToTokenBudget(records, hold, args), selected # Error
    PROVE  Contribution(v, d, args, hold, selected)
<1>1. Selection(records, v, d) /\ Len(records) <= Len(Adapted[v])
  BY InDomainIs
<1>2. args.holdout \in Nat /\ args.target \in Nat
  BY BuildAssumption
<1>3. PICK first : first = Reverse(Ordered(records, shuffle.first))
  OBVIOUS
<1>4. Selection(first, v, d)
  BY <1>1, <1>3, ShuffledIs
<1>5. hold = TakeToTokenBudget(first, args.holdout)
  BY <1>3 DEF SelectHoldout
<1>6. Selection(hold, v, d) /\ TokensOf(hold) >= args.holdout
  BY <1>2, <1>4, <1>5, TakenIs
<1>7. PICK rest : rest = Without(records, hold)
  OBVIOUS
<1>8. Selection(rest, v, d) /\ Len(rest) <= Len(Adapted[v]) /\ Apart(hold, rest)
  <2>1. Selection(rest, v, d) /\ Len(rest) <= Len(records) /\ Apart(hold, rest)
    BY <1>1, <1>6, <1>7, WithoutIs
  <2>2. Len(rest) \in Nat /\ Len(records) \in Nat /\ Len(Adapted[v]) \in Nat
    BY <1>1, <2>1, SelectionIsOfRecords, AdaptedType
  <2> QED
    BY <1>1, <2>1, <2>2
<1>9. PICK second : second = Ordered(rest, shuffle.second)
  OBVIOUS
<1>10. Selection(second, v, d) /\ ToSet(second) = ToSet(rest)
  BY <1>8, <1>9, ShuffledIs
<1>11. selected = TakeToTokenBudget(second, args.target)
  BY <1>7, <1>9 DEF SelectToTokenBudget
<1>12. /\ Selection(selected, v, d) /\ TokensOf(selected) >= args.target
       /\ ToSet(selected) \subseteq ToSet(second)
  BY <1>2, <1>10, <1>11, TakenIs
<1>13. Apart(hold, selected)
  BY <1>8, <1>10, <1>12 DEF Apart
<1> QED
  BY <1>6, <1>12, <1>13 DEF Contribution

\* Tokens of one record of a domain.
LEMMA LargestIs ==
    ASSUME NEW v \in Version, NEW d, NEW s, Selection(s, v, d),
           NEW largest, largest = Max({0} \cup {Tokens(r) : r \in ToSet(s)})
    PROVE  largest \in Nat /\ \A r \in ToSet(s) : Tokens(r) \in Nat /\ Tokens(r) <= largest
<1>1. s \in Seq(Records) /\ Distinct(s)
  BY SelectionIsOfRecords
<1>2. PICK S : S = ToSet(s)
  OBVIOUS
<1>3. IsFiniteSet(S) /\ S \subseteq Records
  BY <1>1, <1>2, ValuesFinite, InToSet
<1>4. \A r \in S : tok[r] \in Nat /\ tok[r] = Tokens(r)
  BY <1>3, TokType DEF tok
<1>5. PICK all \in Nat : all = SumOn(tok, S)
  <2>1. S \in SUBSET S /\ \A r \in S : tok[r] \in Nat
    BY <1>4
  <2> QED
    BY <1>3, <2>1, SumOnNat
<1>6. ASSUME NEW r \in S PROVE Tokens(r) \in Nat /\ Tokens(r) <= all
  <2>1. \A x \in S : tok[x] \in Nat
    BY <1>4
  <2>2. SumOn(tok, S) = tok[r] + SumOn(tok, S \ {r})
    <3>1. S \in SUBSET S
      OBVIOUS
    <3> QED
      BY <1>3, <2>1, <3>1, SumOnAny
  <2>3. SumOn(tok, S \ {r}) \in Nat
    <3>1. S \ {r} \in SUBSET S
      OBVIOUS
    <3> QED
      BY <1>3, <2>1, <3>1, SumOnNat
  <2> QED
    BY <1>4, <1>5, <2>2, <2>3
<1>7. PICK T : T = {0} \cup {Tokens(r) : r \in S}
  OBVIOUS
<1>8. T \subseteq 0..all /\ T # {}
  BY <1>6, <1>7
<1>9. Max(T) \in T /\ \A y \in T : Max(T) >= y
  BY <1>8, MaxIs
<1>10. largest = Max(T)
  BY <1>2, <1>7
<1>11. largest \in Nat
  <2>1. PICK m : m = Max(T)
    OBVIOUS
  <2>2. m \in T
    BY <1>9, <2>1
  <2>3. m \in 0..all
    BY <1>8, <2>2
  <2> QED
    BY <1>10, <2>1, <2>3
<1>12. \A r \in S : Tokens(r) \in Nat /\ Tokens(r) <= largest
  BY <1>6, <1>7, <1>9, <1>10, <1>11
<1> QED
  BY <1>2, <1>11, <1>12

\* Where a domain falls short, there is not enough for both targets and one
\* record more.
LEMMA ShortageMade ==
    ASSUME shuffle \in Shuffles, NEW v \in Version, NEW args \in Args, NEW d,
           NEW records, records = InDomain(Adapted[v], d),
           NEW hold, hold = SelectHoldout(records, args),
           NEW selected, selected = SelectToTokenBudget(records, hold, args),
           hold = Error \/ selected = Error,
           NEW largest, largest = Max({0} \cup {Tokens(r) : r \in ToSet(records)})
    PROVE  TokensOf(records) < args.holdout + args.target + largest
<1>1. Selection(records, v, d) /\ Len(records) <= Len(Adapted[v])
  BY InDomainIs
<1>2. PICK h, t \in Nat : h = args.holdout /\ t = args.target
  BY BuildAssumption
<1>3. largest \in Nat /\ \A r \in ToSet(records) : Tokens(r) \in Nat /\ Tokens(r) <= largest
  BY <1>1, LargestIs
<1>4. /\ records \in Seq(Records) /\ Distinct(records)
      /\ TokensOf(records) = SumOn(tok, ToSet(records)) /\ TokensOf(records) \in Nat
  BY <1>1, SelectionIsOfRecords, TokensOfIs
<1>5. PICK first : first = Reverse(Ordered(records, shuffle.first))
  OBVIOUS
<1>6. Selection(first, v, d) /\ ToSet(first) = ToSet(records)
  BY <1>1, <1>5, ShuffledIs
<1>7. hold = TakeToTokenBudget(first, h)
  BY <1>2, <1>5 DEF SelectHoldout
<1>8. \A s : Selection(s, v, d) => s # Error
  BY NoErrorSelected
<1>9. CASE hold = Error
  <2>1. TokensOf(first) < h
    BY <1>6, <1>7, <1>8, <1>9, TakenIs
  <2>2. TokensOf(first) = SumOn(tok, ToSet(first))
    BY <1>6, SelectionIsOfRecords, TokensOfIs
  <2>3. TokensOf(records) < h
    BY <1>4, <1>6, <2>1, <2>2
  <2> QED
    BY <1>2, <1>3, <1>4, <2>3
<1>10. CASE hold # Error /\ selected = Error
  <2>1. /\ Selection(hold, v, d) /\ ToSet(hold) \subseteq ToSet(records)
        /\ \/ TokensOf(hold) = 0
           \/ \E r \in ToSet(records) : TokensOf(hold) < h + Tokens(r)
    BY <1>6, <1>7, <1>10, TakenIs
  <2>2. TokensOf(hold) = SumOn(tok, ToSet(hold)) /\ TokensOf(hold) \in Nat
    BY <2>1, SelectionIsOfRecords, TokensOfIs
  <2>3. TokensOf(hold) <= h + largest
    BY <1>3, <2>1, <2>2
  <2>4. PICK rest : rest = Without(records, hold)
    OBVIOUS
  <2>5. /\ Selection(rest, v, d) /\ Len(rest) <= Len(records)
        /\ ToSet(rest) = ToSet(records) \ ToSet(hold)
    BY <1>1, <2>1, <2>4, WithoutIs
  <2>6. Len(rest) <= Len(Adapted[v])
    <3>1. Len(rest) \in Nat /\ Len(records) \in Nat /\ Len(Adapted[v]) \in Nat
      BY <1>1, <2>5, SelectionIsOfRecords, AdaptedType
    <3> QED
      BY <1>1, <2>5, <3>1
  <2>7. TokensOf(rest) = SumOn(tok, ToSet(rest)) /\ TokensOf(rest) \in Nat
    BY <2>5, SelectionIsOfRecords, TokensOfIs
  <2>8. PICK second : second = Ordered(rest, shuffle.second)
    OBVIOUS
  <2>9. Selection(second, v, d) /\ ToSet(second) = ToSet(rest)
    BY <2>5, <2>6, <2>8, ShuffledIs
  <2>10. selected = TakeToTokenBudget(second, t)
    BY <1>2, <2>4, <2>8 DEF SelectToTokenBudget
  <2>11. TokensOf(second) < t
    BY <1>8, <1>10, <2>9, <2>10, TakenIs
  <2>12. TokensOf(second) = SumOn(tok, ToSet(second))
    BY <2>9, SelectionIsOfRecords, TokensOfIs
  <2>13. TokensOf(rest) < t
    BY <2>7, <2>9, <2>11, <2>12
  <2>14. TokensOf(records) = TokensOf(hold) + TokensOf(rest)
    <3>1. PICK A, H : A = ToSet(records) /\ H = ToSet(hold)
      OBVIOUS
    <3>2. IsFiniteSet(A) /\ A \subseteq Records /\ H \in SUBSET A
      BY <1>4, <2>1, <3>1, ValuesFinite, InToSet
    <3>3. \A x \in A : tok[x] \in Nat
      BY <3>2, TokType
    <3>4. SumOn(tok, A) = SumOn(tok, H) + SumOn(tok, A \ H)
      BY <3>2, <3>3, SumOnParts
    <3> QED
      BY <1>4, <2>2, <2>5, <2>7, <3>1, <3>4
  <2> QED
    BY <1>2, <1>3, <2>2, <2>3, <2>7, <2>13, <2>14
<1> QED
  BY <1>9, <1>10

-----------------------------------------------------------------------------
(***************************************************************************)
(* What is staged                                                          *)
(***************************************************************************)

\* A list of n entries.
Listed(s, n) == s \in Seq(ToSet(s)) /\ Len(s) = n /\ DOMAIN s = 1..n

\* The first n domains of a build have contributed.
Contributed(b, v, n) ==
    /\ Listed(b.selected, n) /\ Listed(b.holdout, n)
    /\ \A i \in 1..n : Contribution(v, Domains[i], b.args, b.holdout[i], b.selected[i])

Whole(b) ==
    b.held \in Version /\ b.args \in Args /\ Contributed(b, b.held, Len(Domains))

\* The domains and the names of the files.
LEMMA DomainsIs ==
    /\ Len(Domains) \in Nat /\ DOMAIN Domains = 1..Len(Domains)
    /\ \A i, j \in 1..Len(Domains) : Domains[i] = Domains[j] => i = j
    /\ \A d : d \in DomainSet <=> \E i \in 1..Len(Domains) : d = Domains[i]
    /\ "combined" \notin DomainSet /\ "holdout" \notin DomainSet
    /\ DomainSet \subseteq Names /\ "combined" \in Names /\ "holdout" \in Names
<1>1. PICK n \in Nat : n = Len(Domains) /\ DOMAIN Domains = 1..n
  BY BuildAssumption
<1>2. \A i, j \in 1..n : Domains[i] = Domains[j] => i = j
  BY <1>1, BuildAssumption DEF IsInjective
<1>3. \A d : d \in DomainSet <=> \E i \in 1..n : d = Domains[i]
  BY <1>1 DEF DomainSet, ToSet
<1>4. "combined" \notin DomainSet /\ "holdout" \notin DomainSet
  BY BuildAssumption
<1> QED
  BY <1>1, <1>2, <1>3, <1>4 DEF Names

\* A mixed file has the records of all the lists.
LEMMA MixedIs ==
    ASSUME NEW lists, NEW n \in Nat, DOMAIN lists = 1..n
    PROVE  \A r : r \in Mixed(lists) <=> \E i \in 1..n : r \in ToSet(lists[i])
BY DEF Mixed

\* A domain's file has the records selected for it.
LEMMA StagedDomain ==
    ASSUME NEW i \in 1..Len(Domains)
    PROVE  StagedFiles[Domains[i]] = build.selected[i]
<1>1. PICK d : d = Domains[i]
  OBVIOUS
<1>2. d \in Names /\ d # "combined" /\ d # "holdout"
  BY <1>1, DomainsIs
<1>3. PICK k : k = CHOOSE j \in DOMAIN Domains : Domains[j] = d
  OBVIOUS
<1>4. k \in 1..Len(Domains) /\ Domains[k] = d
  BY <1>1, <1>3, DomainsIs
<1>5. k = i
  BY <1>1, <1>4, DomainsIs
<1>6. StagedFiles[d] = build.selected[k]
  BY <1>2, <1>3 DEF StagedFiles
<1> QED
  BY <1>1, <1>5, <1>6

\* The combined file has all that was selected, the holdout file all that was
\* held out.
LEMMA StagedMixed ==
    /\ StagedFiles["combined"] = Mixed(build.selected)
    /\ StagedFiles["holdout"] = Mixed(build.holdout)
<1>1. "combined" \in Names /\ "holdout" \in Names
  BY DomainsIs
<1> QED
  BY <1>1 DEF StagedFiles

\* A selection has as many ids as records.
LEMMA IdsCounted ==
    ASSUME NEW v \in Version, NEW d, NEW s, Selection(s, v, d)
    PROVE  Len(s) = Cardinality({r.id : r \in ToSet(s)})
<1>1. s \in Seq(Pool(v)) /\ Distinct(s)
  BY SelectionIsOfRecords
<1>2. PICK n \in Nat : n = Len(s) /\ DOMAIN s = 1..n
  BY <1>1
<1>3. PICK I, T : I = 1..n /\ T = {r.id : r \in ToSet(s)}
  OBVIOUS
<1>4. PICK f : f = [i \in I |-> s[i].id]
  OBVIOUS
<1>5. \A x : x \in ToSet(s) <=> \E i \in DOMAIN s : x = s[i]
  BY <1>1, InToSet
<1>6. \A x : x \in T <=> \E i \in I : x = f[i]
  BY <1>2, <1>3, <1>4, <1>5
<1>7. \A i, j \in I : f[i] = f[j] => i = j
  <2>1. ASSUME NEW i \in I, NEW j \in I, f[i] = f[j] PROVE i = j
    <3>1. s[i] \in Pool(v) /\ s[j] \in Pool(v) /\ s[i].id = s[j].id
      BY <1>1, <1>2, <1>3, <1>4, <2>1
    <3>2. s[i] = s[j]
      BY <3>1, PoolIs
    <3> QED
      BY <1>1, <1>2, <1>3, <3>2 DEF Distinct
  <2> QED
    BY <2>1
<1>8. f \in Surjection(I, T) /\ f \in Injection(I, T)
  <2>1. f \in [I -> T]
    BY <1>4, <1>6
  <2> QED
    BY <1>4, <1>6, <1>7, <2>1 DEF Surjection, Injection, IsInjective
<1>9. IsFiniteSet(I) /\ Cardinality(I) = n
  BY <1>3, FS_Interval
<1>10. Cardinality(T) = Cardinality(I)
  BY <1>8, <1>9, FS_Surjection
<1> QED
  BY <1>2, <1>3, <1>9, <1>10

\* The tokens of a set of records are those of the sequence that lists them.
LEMMA HeldTokens ==
    ASSUME NEW v \in Version, NEW d, NEW s, Selection(s, v, d), NEW H, H = ToSet(s)
    PROVE  Sum([r \in H |-> Tokens(r)]) = TokensOf(s)
<1>1. s \in Seq(Records) /\ Distinct(s)
  BY SelectionIsOfRecords
<1>2. TokensOf(s) = SumOn(tok, H)
  BY <1>1, TokensOfIs
<1>3. PICK g : g = [r \in H |-> Tokens(r)]
  OBVIOUS
<1>4. Sum(g) = SumOn(g, H)
  BY <1>3, SumIsSumOn
<1>5. IsFiniteSet(H) /\ H \subseteq Records
  BY <1>1, ValuesFinite, InToSet
<1>6. \A r \in H : g[r] = tok[r]
  BY <1>3, <1>5 DEF tok
<1>7. SumOn(g, H) = SumOn(tok, H)
  BY <1>5, <1>6, SumOnSame
<1> QED
  BY <1>2, <1>3, <1>4, <1>7

\* What several domains contribute is adapted, and nothing held out is
\* selected, in whatever domains.
LEMMA ContributionIs ==
    ASSUME NEW v \in Version, NEW b, NEW n \in Nat, n <= Len(Domains), Contributed(b, v, n)
    PROVE  /\ Mixed(b.selected) \subseteq Pool(v) /\ Mixed(b.holdout) \subseteq Pool(v)
           /\ \A h \in Mixed(b.holdout), c \in Mixed(b.selected) : h # c
<1>1. /\ \A r : r \in Mixed(b.selected) <=> \E i \in 1..n : r \in ToSet(b.selected[i])
      /\ \A r : r \in Mixed(b.holdout) <=> \E i \in 1..n : r \in ToSet(b.holdout[i])
  BY MixedIs DEF Contributed, Listed
<1>2. ASSUME NEW i \in 1..n
      PROVE  /\ Selection(b.holdout[i], v, Domains[i]) /\ Selection(b.selected[i], v, Domains[i])
             /\ Apart(b.holdout[i], b.selected[i])
  BY DEF Contributed, Contribution
<1>3. ASSUME NEW i \in 1..n
      PROVE  /\ ToSet(b.holdout[i]) \subseteq Pool(v) /\ ToSet(b.selected[i]) \subseteq Pool(v)
             /\ \A r \in ToSet(b.holdout[i]) : r.domain = Domains[i]
             /\ \A r \in ToSet(b.selected[i]) : r.domain = Domains[i]
  BY <1>2, SelectionIsOfRecords
<1>4. Mixed(b.selected) \subseteq Pool(v) /\ Mixed(b.holdout) \subseteq Pool(v)
  BY <1>1, <1>3
<1>5. ASSUME NEW h \in Mixed(b.holdout), NEW c \in Mixed(b.selected) PROVE h # c
  <2>1. PICK i \in 1..n : h \in ToSet(b.holdout[i])
    BY <1>1
  <2>2. PICK j \in 1..n : c \in ToSet(b.selected[j])
    BY <1>1
  <2>3. CASE i = j
    <3>1. h.id # c.id
      BY <1>2, <2>1, <2>2, <2>3 DEF Apart
    <3> QED
      BY <3>1
  <2>4. CASE i # j
    <3>1. h.domain = Domains[i] /\ c.domain = Domains[j]
      BY <1>3, <2>1, <2>2
    <3>2. i \in 1..Len(Domains) /\ j \in 1..Len(Domains)
      BY DomainsIs
    <3>3. Domains[i] # Domains[j]
      BY <2>4, <3>2, DomainsIs
    <3> QED
      BY <3>1, <3>3
  <2> QED
    BY <2>3, <2>4
<1> QED
  BY <1>4, <1>5

\* The holdout shares no id with the calibration records.
LEMMA NoOverlap ==
    ASSUME NEW v \in Version, NEW b, NEW n \in Nat, n <= Len(Domains), Contributed(b, v, n)
    PROVE  Ids(b.selected) \cap Ids(b.holdout) = {}
<1>1. PICK C, H : C = Mixed(b.selected) /\ H = Mixed(b.holdout)
  OBVIOUS
<1>2. C \subseteq Pool(v) /\ H \subseteq Pool(v) /\ \A h \in H, c \in C : h # c
  BY <1>1, ContributionIs
<1>3. \A h \in H, c \in C : h.id # c.id
  BY <1>2, PoolIs
<1> QED
  BY <1>1, <1>3 DEF Ids

NoneSeen(files) == \A h \in files["holdout"] : files["combined"] \cap Seen[h] = {}

\* Nothing staged as holdout is seen in what is staged as calibration.
LEMMA StagedIsUnseen ==
    ASSUME Whole(build)
    PROVE  NoneSeen(StagedFiles)
<1>1. PICK v \in Version : v = build.held /\ Contributed(build, v, Len(Domains))
  BY DEF Whole
<1>2. PICK C, H : C = Mixed(build.selected) /\ H = Mixed(build.holdout)
  OBVIOUS
<1>3. C \subseteq Pool(v) /\ H \subseteq Pool(v) /\ \A h \in H, c \in C : h # c
  <2>1. Len(Domains) \in Nat /\ Len(Domains) <= Len(Domains)
    BY DomainsIs
  <2> QED
    BY <1>1, <1>2, <2>1, ContributionIs
<1>4. \A h \in H, c \in C : Unseen(h, c)
  <2>1. Pool(v) \subseteq Records /\ \A h \in H, c \in C : ~Similar(h, c)
    BY <1>3, PoolIs
  <2> QED
    BY <1>3, <2>1, DissimilarIsUnseen
<1>5. C \subseteq Candidates /\ H \subseteq Candidates
  <2>1. Pool(v) \subseteq Candidates
    BY DEF Candidates, Pool
  <2> QED
    BY <1>3, <2>1
<1>6. \A h \in H : C \cap Seen[h] = {}
  <2>1. \A h \in H : Seen[h] = {c \in Candidates : ~Unseen(h, c)}
    BY <1>5 DEF Seen
  <2> QED
    BY <1>4, <2>1
<1> QED
  BY <1>2, <1>6, StagedMixed DEF NoneSeen

\* The staged files are a build of the policy in their manifest.
LEMMA StagedIsBuild ==
    ASSUME Whole(build)
    PROVE  IsBuildOf(Policy(build.held, build.args), StagedFiles)
<1>1. PICK v \in Version, args \in Args :
         v = build.held /\ args = build.args /\ Contributed(build, v, Len(Domains))
  BY DEF Whole
<1>2. PICK n \in Nat : n = Len(Domains)
  BY DomainsIs
<1>3. PICK files : files = StagedFiles
  OBVIOUS
<1>4. PICK C, H : C = Mixed(build.selected) /\ H = Mixed(build.holdout)
  OBVIOUS
<1>5. files["combined"] = C /\ files["holdout"] = H
  BY <1>3, <1>4, StagedMixed
<1>6. \A i \in 1..n : files[Domains[i]] = build.selected[i]
  BY <1>2, <1>3, StagedDomain
<1>7. ASSUME NEW i \in 1..n
      PROVE  /\ Selection(build.holdout[i], v, Domains[i])
             /\ Selection(build.selected[i], v, Domains[i])
             /\ TokensOf(build.holdout[i]) >= args.holdout
             /\ TokensOf(build.selected[i]) >= args.target
  BY <1>1, <1>2 DEF Contributed, Contribution
<1>8. /\ \A r : r \in C <=> \E i \in 1..n : r \in ToSet(build.selected[i])
      /\ \A r : r \in H <=> \E i \in 1..n : r \in ToSet(build.holdout[i])
  BY <1>1, <1>2, <1>4, MixedIs DEF Contributed, Listed
<1>9. C = UNION {ToSet(files[d]) : d \in DomainSet}
  <2>1. \A d : d \in DomainSet <=> \E i \in 1..n : d = Domains[i]
    BY <1>2, DomainsIs
  <2>2. \A r : r \in C <=> \E d \in DomainSet : r \in ToSet(files[d])
    BY <1>6, <1>8, <2>1
  <2> QED
    BY <2>2
<1>10. C \cup H \subseteq ToSet(Target[v])
  <2>1. C \subseteq Pool(v) /\ H \subseteq Pool(v)
    BY <1>1, <1>2, <1>4, ContributionIs
  <2> QED
    BY <2>1, PoolIs
<1>11. ASSUME NEW d \in DomainSet
       PROVE  /\ \A r \in ToSet(files[d]) : r.domain = d
              /\ Len(files[d]) = Cardinality({r.id : r \in ToSet(files[d])})
              /\ TokensOf(files[d]) >= args.target
              /\ Sum([r \in {q \in H : q.domain = d} |-> Tokens(r)]) >= args.holdout
  <2>1. PICK i \in 1..n : d = Domains[i]
    BY <1>2, DomainsIs
  <2>2. PICK s, h : s = build.selected[i] /\ h = build.holdout[i]
    OBVIOUS
  <2>3. /\ Selection(s, v, d) /\ Selection(h, v, d) /\ files[d] = s
        /\ TokensOf(h) >= args.holdout /\ TokensOf(s) >= args.target
    BY <1>6, <1>7, <2>1, <2>2
  <2>4. /\ \A r \in ToSet(s) : r.domain = d
        /\ Len(s) = Cardinality({r.id : r \in ToSet(s)})
    BY <2>3, SelectionIsOfRecords, IdsCounted
  <2>5. {q \in H : q.domain = d} = ToSet(h)
    <3>1. ASSUME NEW q \in H, q.domain = d PROVE q \in ToSet(h)
      <4>1. PICK j \in 1..n : q \in ToSet(build.holdout[j])
        BY <1>8
      <4>2. q.domain = Domains[j]
        BY <1>7, <4>1, SelectionIsOfRecords
      <4>3. j = i
        BY <1>2, <2>1, <3>1, <4>2, DomainsIs
      <4> QED
        BY <2>2, <4>1, <4>3
    <3>2. ASSUME NEW q \in ToSet(h) PROVE q \in H /\ q.domain = d
      BY <1>8, <2>2, <2>3, SelectionIsOfRecords
    <3> QED
      BY <3>1, <3>2
  <2>6. Sum([r \in {q \in H : q.domain = d} |-> Tokens(r)]) = TokensOf(h)
    <3>1. PICK S : S = {q \in H : q.domain = d}
      OBVIOUS
    <3>2. Sum([r \in S |-> Tokens(r)]) = TokensOf(h)
      BY <2>3, <2>5, <3>1, HeldTokens
    <3> QED
      BY <3>1, <3>2
  <2> QED
    BY <2>3, <2>4, <2>6
<1>12. PICK policy : policy = Policy(build.held, build.args)
  OBVIOUS
<1>13. policy.corpus = v /\ policy.target = args.target /\ policy.holdout = args.holdout
  BY <1>1, <1>12 DEF Policy
<1>14. IsBuildOf(policy, files)
  BY <1>5, <1>9, <1>10, <1>11, <1>13 DEF IsBuildOf
<1> QED
  BY <1>3, <1>12, <1>14

-----------------------------------------------------------------------------
(***************************************************************************)
(* The inductive invariant                                                 *)
(***************************************************************************)

\* What every directory fulfils, in place or in a backup: its files are a build
\* of the policy in its manifest, as long as that can be read, but for damaged
\* ones; and an unraced report is of those of these files that are undamaged.
Matches(list, n, d) ==
    \A i \in 1..n : d.files[Domains[i]] = d.manifest.files[Domains[i]] =>
                        list[i] = d.manifest.files[Domains[i]]

GoodManifest(manifest) ==
    /\ \A n \in Names : manifest.files[n] # Garbage
    /\ \A d \in DomainSet : manifest.files[d] \in Seq(Candidates)
    /\ IsBuildOf(manifest.policy, manifest.files)
    /\ NoneSeen(manifest.files)

GoodDirectory(d) == d # None =>
    /\ d \in Directory
    /\ d.manifest # Garbage =>
          /\ GoodManifest(d.manifest)
          /\ d.report # None => d.report.raced \/ Matches(d.report.files, Len(Domains), d)

Loaded == {"check", "adapt", "select", "publish", "move in", "current", "built", "shortage",
           "domain without target", "manifest error", "rename failed"}
Steps == Loaded \cup {"idle", "load"}

GoodBuild(b) ==
    /\ b = [pc |-> b.pc, args |-> b.args, held |-> b.held, records |-> b.records, at |-> b.at,
            selected |-> b.selected, holdout |-> b.holdout, found |-> b.found]
    /\ b.pc \in Steps
    /\ b.pc # "idle" => b.args \in Args
    /\ b.pc \in Loaded => b.held \in Version
    /\ b.pc = "select" => /\ b.records = Adapted[b.held]
                          /\ b.at \in 1..(Len(Domains) + 1)
                          /\ Contributed(b, b.held, b.at - 1)
    /\ b.pc \in {"publish", "move in"} => Whole(b)

\* An unraced reader has read the build that is in place, but for damaged files,
\* and nothing yet when there is none.
GoodReader(r, d) ==
    /\ r = [pc |-> r.pc, at |-> r.at, files |-> r.files, raced |-> r.raced]
    /\ r.pc \in {"away", "read"}
    /\ r.pc = "read" =>
          /\ r.at \in 1..(Len(Domains) + 1)
          /\ r.files \in Seq(Content) /\ Listed(r.files, r.at - 1)
          /\ r.raced \in BOOLEAN
          /\ ~r.raced =>
                /\ d = None => r.at = 1
                /\ d # None /\ d.manifest # Garbage => Matches(r.files, r.at - 1, d)

CalInv ==
    /\ shuffle \in Shuffles
    /\ corpus \in Version \cup {None}
    /\ build.pc # "idle" => corpus \in Version
    /\ build.pc = "move in" => directory = None
    /\ GoodBuild(build)
    /\ CurrentIsWhole
    /\ ShortageIsReal
    /\ GoodDirectory(directory)
    /\ GoodDirectory(backup)
    /\ GoodReader(reader, directory)

\* A list of n entries, and one entry more.
Extends(t, s, x, n) == Listed(t, n + 1) /\ t[n + 1] = x /\ \A i \in 1..n : t[i] = s[i]

\* Appending an entry to a list of n.
LEMMA ListedAppend ==
    ASSUME NEW s, NEW n \in Nat, Listed(s, n), NEW x, NEW t, t = Append(s, x)
    PROVE  Extends(t, s, x, n)
<1>1. t = Append(s, x)
  OBVIOUS
<1>2. s \in Seq(ToSet(s)) /\ Len(s) = n /\ DOMAIN s = 1..n
  BY DEF Listed
<1>3. PICK R : R = ToSet(s) \cup {x}
  OBVIOUS
<1>4. s \in Seq(R)
  <2>1. \A i \in 1..n : s[i] \in R
    BY <1>2, <1>3 DEF ToSet
  <2>2. s = [i \in 1..n |-> s[i]]
    BY <1>2
  <2>3. [i \in 1..n |-> s[i]] \in Seq(R)
    BY <2>1
  <2> QED
    BY <2>2, <2>3
<1>5. t \in Seq(R) /\ Len(t) = n + 1 /\ DOMAIN t = 1..(n + 1)
  BY <1>1, <1>2, <1>3, <1>4
<1>6. /\ \A i \in 1..n : t[i] = s[i]
      /\ t[n + 1] = x
  BY <1>1, <1>2, <1>3, <1>4
<1>7. t \in Seq(ToSet(t))
  BY <1>5, InToSet
<1> QED
  BY <1>1, <1>5, <1>6, <1>7 DEF Listed, Extends

\* The empty list.
LEMMA ListedNone == Listed(<<>>, 0)
BY DEF Listed

\* Every staged file has a content.
LEMMA StagedIsTyped ==
    ASSUME Whole(build), NEW n \in Names
    PROVE  StagedFiles[n] \in Content
<1>1. PICK v \in Version : v = build.held /\ Contributed(build, v, Len(Domains))
  BY DEF Whole
<1>2. Pool(v) \subseteq Candidates
  BY DEF Candidates, Pool
<1>3. Mixed(build.selected) \subseteq Candidates /\ Mixed(build.holdout) \subseteq Candidates
  BY <1>1, <1>2, DomainsIs, ContributionIs
<1>4. CASE n \in DomainSet
  <2>1. PICK i \in 1..Len(Domains) : n = Domains[i]
    BY <1>4, DomainsIs
  <2>2. Selection(build.selected[i], v, Domains[i])
    BY <1>1 DEF Contributed, Contribution
  <2>3. build.selected[i] \in Seq(Pool(v))
    BY <2>2, SelectionIsOfRecords
  <2>4. build.selected[i] \in Seq(Candidates)
    BY <1>2, <2>3
  <2> QED
    BY <2>1, <2>4, StagedDomain DEF Content
<1>5. CASE n \notin DomainSet
  BY <1>3, <1>5, StagedMixed DEF Names, Content
<1> QED
  BY <1>4, <1>5

\* None of the staged files is damaged.
LEMMA StagedIsContent ==
    ASSUME Whole(build), NEW n \in Names
    PROVE  StagedFiles[n] # Garbage
<1>1. PICK v \in Version : v = build.held /\ Contributed(build, v, Len(Domains))
  BY DEF Whole
<1>2. Mixed(build.selected) \subseteq Pool(v) /\ Mixed(build.holdout) \subseteq Pool(v)
  BY <1>1, DomainsIs, ContributionIs
<1>3. \A S \in SUBSET Pool(v) : S # Garbage
  BY BuildAssumption DEF Pool
<1>4. CASE n \in DomainSet
  <2>1. PICK i \in 1..Len(Domains) : n = Domains[i]
    BY <1>4, DomainsIs
  <2>2. Selection(build.selected[i], v, Domains[i])
    BY <1>1 DEF Contributed, Contribution
  <2> QED
    BY <2>1, <2>2, StagedDomain, NoErrorSelected
<1>5. CASE n \notin DomainSet
  BY <1>2, <1>3, <1>5, StagedMixed DEF Names
<1> QED
  BY <1>4, <1>5

\* The staged file of a domain is a list of records.
LEMMA StagedIsList ==
    ASSUME Whole(build), NEW d \in DomainSet
    PROVE  StagedFiles[d] \in Seq(Candidates)
<1>1. PICK v \in Version : v = build.held /\ Contributed(build, v, Len(Domains))
  BY DEF Whole
<1>2. PICK i \in 1..Len(Domains) : d = Domains[i]
  BY DomainsIs
<1>3. PICK s : s = build.selected[i]
  OBVIOUS
<1>4. s \in Seq(DomainPool(v, d))
  BY <1>1, <1>2, <1>3 DEF Contributed, Contribution, Selection
<1>5. DomainPool(v, d) \subseteq Candidates
  BY DEF DomainPool, Candidates, Pool
<1>6. s \in Seq(Candidates)
  <2>1. PICK n \in Nat : n = Len(s) /\ s = [k \in 1..n |-> s[k]]
    BY <1>4
  <2>2. \A k \in 1..n : s[k] \in Candidates
    BY <1>4, <1>5, <2>1
  <2>3. [k \in 1..n |-> s[k]] \in Seq(Candidates)
    BY <2>2
  <2> QED
    BY <2>1, <2>3
<1> QED
  BY <1>2, <1>3, <1>6, StagedDomain

\* A staged directory is good.
LEMMA StagedIsGood ==
    ASSUME Whole(build)
    PROVE  GoodDirectory(Staged)
<1> DEFINE policies == [corpus : Version, holdout : Nat, target : Nat]
<1>1. PICK files, manifest :
         /\ files = StagedFiles
         /\ manifest = [policy |-> Policy(build.held, build.args), files |-> files]
  OBVIOUS
<1>2. Staged = [files |-> files, report |-> None, manifest |-> manifest]
  BY <1>1 DEF Staged
<1>3. files \in [Names -> Content]
  <2>1. files = [n \in Names |-> files[n]]
    BY <1>1 DEF StagedFiles
  <2>2. \A n \in Names : files[n] \in Content
    BY <1>1, StagedIsTyped
  <2> QED
    BY <2>1, <2>2
<1>4. GoodManifest(manifest)
  <2>1. \A n \in Names : files[n] # Garbage
    BY <1>1, StagedIsContent
  <2>2. IsBuildOf(manifest.policy, files)
    BY <1>1, StagedIsBuild
  <2>3. NoneSeen(files)
    BY <1>1, StagedIsUnseen
  <2>4. manifest.files = files
    BY <1>1
  <2>5. \A d \in DomainSet : files[d] \in Seq(Candidates)
    BY <1>1, StagedIsList
  <2> QED
    BY <2>1, <2>2, <2>3, <2>4, <2>5 DEF GoodManifest
<1>6. manifest \in [policy : policies, files : [Names -> Content]]
  <2>1. build.held \in Version /\ build.args.holdout \in Nat /\ build.args.target \in Nat
    BY BuildAssumption DEF Whole
  <2>2. Policy(build.held, build.args) \in policies
    BY <2>1 DEF Policy
  <2> QED
    BY <1>1, <1>3, <2>2
<1>7. Staged \in Directory
  BY <1>2, <1>3, <1>6 DEF Directory
<1>8. Staged.files = files /\ Staged.report = None /\ Staged.manifest = manifest
  BY <1>2
<1> QED
  BY <1>4, <1>7, <1>8 DEF GoodDirectory

\* A directory taken for current is whole.
LEMMA CurrentIsBuild ==
    ASSUME GoodDirectory(directory), NEW policy, ValidExistingBuild(policy)
    PROVE  /\ \A n \in Names : directory.files[n] # Garbage
           /\ IsBuildOf(policy, directory.files)
<1>1. /\ directory # None /\ directory.manifest # Garbage
      /\ directory.manifest.policy = policy
      /\ \A n \in Names : directory.files[n] = directory.manifest.files[n]
  BY DEF ValidExistingBuild
<1>2. /\ directory.files \in [Names -> Content]
      /\ directory.manifest.files \in [Names -> Content]
      /\ GoodManifest(directory.manifest)
  BY <1>1 DEF GoodDirectory, Directory
<1>3. PICK f, g : f = directory.files /\ g = directory.manifest.files
  OBVIOUS
<1>4. /\ f = [n \in Names |-> f[n]] /\ g = [n \in Names |-> g[n]]
      /\ \A n \in Names : f[n] = g[n]
  BY <1>1, <1>2, <1>3
<1>5. f = g
  BY <1>4
<1> QED
  BY <1>1, <1>2, <1>3, <1>5 DEF GoodManifest

\* The invariant holds at the start.
LEMMA InitMakesInv == Init => CalInv
<1> SUFFICES ASSUME Init PROVE CalInv
  OBVIOUS
<1>1. shuffle \in Shuffles /\ corpus \in Version \cup {None}
  BY DEF Init
<1>2. build.pc = "idle" /\ directory = None /\ backup = None
  BY DEF Init, Idle
<1>3. GoodBuild(build)
  BY DEF Init, Idle, GoodBuild, Steps, Loaded
<1>4. CurrentIsWhole /\ ShortageIsReal
  BY <1>2 DEF CurrentIsWhole, ShortageIsReal
<1>5. GoodDirectory(directory) /\ GoodDirectory(backup)
  BY <1>2 DEF GoodDirectory
<1>6. GoodReader(reader, directory)
  BY DEF Init, Away, GoodReader
<1> QED
  BY <1>1, <1>2, <1>3, <1>4, <1>5, <1>6 DEF CalInv

\* A step of the builder alone.
LEMMA BuilderStep ==
    ASSUME CalInv, UNCHANGED Others, GoodBuild(build'), CurrentIsWhole', ShortageIsReal',
           build.pc # "idle", build'.pc # "move in"
    PROVE  CalInv'
<1>1. /\ shuffle' = shuffle /\ corpus' = corpus /\ directory' = directory
      /\ backup' = backup /\ reader' = reader
  BY DEF Others
<1>2. /\ shuffle' \in Shuffles /\ corpus' \in Version \cup {None}
      /\ build'.pc # "idle" => corpus' \in Version
  BY <1>1 DEF CalInv
<1>3. GoodDirectory(directory') /\ GoodDirectory(backup') /\ GoodReader(reader', directory')
  BY <1>1 DEF CalInv
<1> QED
  BY <1>2, <1>3 DEF CalInv

\* A step of the builder that only goes on or fails.
LEMMA BuilderGoes ==
    ASSUME NEW step, GoodBuild(build), build' = [build EXCEPT !.pc = step]
    PROVE  /\ build' = [pc |-> build'.pc, args |-> build'.args, held |-> build'.held,
                        records |-> build'.records, at |-> build'.at,
                        selected |-> build'.selected, holdout |-> build'.holdout,
                        found |-> build'.found]
           /\ build'.pc = step /\ build'.args = build.args /\ build'.held = build.held
           /\ build'.records = build.records /\ build'.at = build.at
           /\ build'.selected = build.selected /\ build'.holdout = build.holdout
           /\ build'.found = build.found
<1>1. PICK b : b = build
  OBVIOUS
<1>2. b = [pc |-> b.pc, args |-> b.args, held |-> b.held, records |-> b.records, at |-> b.at,
           selected |-> b.selected, holdout |-> b.holdout, found |-> b.found]
  BY <1>1 DEF GoodBuild
<1>3. PICK c : c = build'
  OBVIOUS
<1>4. c = [pc |-> step, args |-> b.args, held |-> b.held, records |-> b.records, at |-> b.at,
           selected |-> b.selected, holdout |-> b.holdout, found |-> b.found]
  BY <1>1, <1>2, <1>3
<1> QED
  BY <1>1, <1>3, <1>4

\* The surroundings leave the builder alone.
LEMMA BuilderStays ==
    ASSUME CalInv, UNCHANGED build
    PROVE  GoodBuild(build') /\ CurrentIsWhole' /\ ShortageIsReal'
<1>1. GoodBuild(build')
  BY DEF CalInv
<1>2. CurrentIsWhole'
  BY DEF CalInv, CurrentIsWhole
<1>3. ShortageIsReal'
  BY DEF CalInv, ShortageIsReal
<1> QED
  BY <1>1, <1>2, <1>3

-----------------------------------------------------------------------------
(***************************************************************************)
(* Steps of the builder                                                    *)
(***************************************************************************)

\* A builder starts: the parent is in place from then on.
LEMMA StartKeeps == CalInv /\ Start => CalInv'
<1> SUFFICES ASSUME CalInv, Start PROVE CalInv'
  OBVIOUS
<1>1. PICK args \in Args : build' = [Idle EXCEPT !.pc = "load", !.args = args]
  BY DEF Start
<1>2. corpus' \in Version
  BY DEF CalInv, Start
<1>3. /\ shuffle' = shuffle /\ directory' = directory /\ backup' = backup /\ reader' = reader
  BY DEF Start
<1>4. GoodBuild(build') /\ build'.pc = "load"
  BY <1>1 DEF GoodBuild, Idle, Steps, Loaded
<1>5. CurrentIsWhole' /\ ShortageIsReal'
  BY <1>4 DEF CurrentIsWhole, ShortageIsReal
<1>6. shuffle' \in Shuffles /\ GoodDirectory(directory') /\ GoodDirectory(backup')
      /\ GoodReader(reader', directory')
  BY <1>3 DEF CalInv
<1> QED
  BY <1>2, <1>4, <1>5, <1>6 DEF CalInv

\* The loader accepts every parent.
LEMMA LoadCorpusKeeps == CalInv /\ LoadCorpus => CalInv'
<1> SUFFICES ASSUME CalInv, LoadCorpus PROVE CalInv'
  OBVIOUS
<1>1. build.pc = "load" /\ corpus \in Version /\ GoodBuild(build) /\ UNCHANGED Others
  BY DEF CalInv, LoadCorpus
<1>2. \A i \in DOMAIN Parent[corpus] : ValidCorpusRecord(Parent[corpus][i])
  BY <1>1, ParentType
<1>3. build' = [build EXCEPT !.pc = "check", !.held = corpus]
  BY <1>2 DEF LoadCorpus
<1>4. GoodBuild(build') /\ build'.pc = "check"
  BY <1>1, <1>3 DEF GoodBuild, Steps, Loaded
<1>5. CurrentIsWhole' /\ ShortageIsReal'
  BY <1>4 DEF CurrentIsWhole, ShortageIsReal
<1> QED
  BY <1>1, <1>4, <1>5, BuilderStep

\* A manifest that cannot be read ends the builder.
LEMMA CheckBreaksKeeps == CalInv /\ CheckBreaks => CalInv'
<1> SUFFICES ASSUME CalInv, CheckBreaks PROVE CalInv'
  OBVIOUS
<1>1. /\ build.pc = "check" /\ GoodBuild(build) /\ UNCHANGED Others
      /\ build' = [build EXCEPT !.pc = "manifest error"]
  BY DEF CalInv, CheckBreaks, Fail
<1>2. GoodBuild(build') /\ build'.pc = "manifest error"
  BY <1>1 DEF GoodBuild, Steps, Loaded
<1>3. CurrentIsWhole' /\ ShortageIsReal'
  BY <1>2 DEF CurrentIsWhole, ShortageIsReal
<1> QED
  BY <1>1, <1>2, <1>3, BuilderStep

\* A build taken for current is whole.
LEMMA CheckExistingKeeps == CalInv /\ CheckExisting => CalInv'
<1> SUFFICES ASSUME CalInv, CheckExisting PROVE CalInv'
  OBVIOUS
<1>1. build.pc = "check" /\ GoodBuild(build) /\ GoodDirectory(directory) /\ UNCHANGED Others
  BY DEF CalInv, CheckExisting
<1>2. CASE ~build.args.force /\ ValidExistingBuild(Policy(build.held, build.args))
  <2>1. build' = [build EXCEPT !.pc = "current", !.found = directory.files]
    BY <1>2 DEF CheckExisting
  <2>2. GoodBuild(build') /\ build'.pc = "current"
    BY <1>1, <2>1 DEF GoodBuild, Steps, Loaded
  <2>3. /\ build'.found = directory.files
        /\ build'.held = build.held /\ build'.args = build.args
    BY <1>1, <2>1 DEF GoodBuild
  <2>4. /\ \A n \in Names : directory.files[n] # Garbage
        /\ IsBuildOf(Policy(build.held, build.args), directory.files)
    BY <1>1, <1>2, CurrentIsBuild
  <2>5. CurrentIsWhole'
    BY <2>3, <2>4 DEF CurrentIsWhole
  <2>6. ShortageIsReal'
    BY <2>2 DEF ShortageIsReal
  <2> QED
    BY <1>1, <2>2, <2>5, <2>6, BuilderStep
<1>3. CASE ~(~build.args.force /\ ValidExistingBuild(Policy(build.held, build.args)))
  <2>1. build' = [build EXCEPT !.pc = "adapt"]
    BY <1>3 DEF CheckExisting, Goto
  <2>2. GoodBuild(build') /\ build'.pc = "adapt"
    BY <1>1, <2>1 DEF GoodBuild, Steps, Loaded
  <2>3. CurrentIsWhole' /\ ShortageIsReal'
    BY <2>2 DEF CurrentIsWhole, ShortageIsReal
  <2> QED
    BY <1>1, <2>2, <2>3, BuilderStep
<1> QED
  BY <1>2, <1>3

\* The records are adapted, or one has a domain without a target.
LEMMA AdaptKeeps == CalInv /\ Adapt => CalInv'
<1> SUFFICES ASSUME CalInv, Adapt PROVE CalInv'
  OBVIOUS
<1>1. build.pc = "adapt" /\ GoodBuild(build) /\ UNCHANGED Others
  BY DEF CalInv, Adapt
<1>2. PICK records : records = Adapted[build.held]
  OBVIOUS
<1>3. CASE build' = [build EXCEPT !.pc = "select", !.records = records, !.at = 1,
                                 !.selected = <<>>, !.holdout = <<>>]
  <2>1. /\ build'.pc = "select" /\ build'.records = Adapted[build'.held] /\ build'.at = 1
        /\ build'.selected = <<>> /\ build'.holdout = <<>>
        /\ build'.args \in Args /\ build'.held \in Version
        /\ build' = [pc |-> build'.pc, args |-> build'.args, held |-> build'.held,
                     records |-> build'.records, at |-> build'.at,
                     selected |-> build'.selected, holdout |-> build'.holdout,
                     found |-> build'.found]
    BY <1>1, <1>2, <1>3 DEF GoodBuild, Loaded
  <2>2. Contributed(build', build'.held, 0)
    BY <2>1, ListedNone DEF Contributed
  <2>3. Contributed(build', build'.held, build'.at - 1) /\ build'.at \in 1..(Len(Domains) + 1)
    BY <2>1, <2>2, DomainsIs
  <2>4. GoodBuild(build')
    BY <2>1, <2>3 DEF GoodBuild, Steps, Loaded
  <2>5. CurrentIsWhole' /\ ShortageIsReal'
    BY <2>1 DEF CurrentIsWhole, ShortageIsReal
  <2> QED
    BY <1>1, <2>1, <2>4, <2>5, BuilderStep
<1>4. CASE build' = [build EXCEPT !.pc = "domain without target"]
  <2>1. GoodBuild(build') /\ build'.pc = "domain without target"
    BY <1>1, <1>4 DEF GoodBuild, Steps, Loaded
  <2>2. CurrentIsWhole' /\ ShortageIsReal'
    BY <2>1 DEF CurrentIsWhole, ShortageIsReal
  <2> QED
    BY <1>1, <2>1, <2>2, BuilderStep
<1> QED
  BY <1>2, <1>3, <1>4 DEF Adapt, Fail

\* A domain contributes, or is short of tokens.
LEMMA SelectDomainKeeps == CalInv /\ SelectDomain => CalInv'
<1> SUFFICES ASSUME CalInv, SelectDomain PROVE CalInv'
  OBVIOUS
<1>1. /\ build.pc = "select" /\ build.at <= Len(Domains) /\ GoodBuild(build)
      /\ UNCHANGED Others /\ shuffle \in Shuffles
  BY DEF CalInv, SelectDomain
<1>2. PICK v \in Version, args \in Args, k \in Nat :
         v = build.held /\ args = build.args /\ k = build.at - 1
  BY <1>1, DomainsIs DEF GoodBuild, Loaded
<1>3. /\ build.records = Adapted[v] /\ Contributed(build, v, k)
      /\ build.at = k + 1 /\ k + 1 \in 1..Len(Domains)
  BY <1>1, <1>2, DomainsIs DEF GoodBuild
<1>4. PICK d : d = Domains[k + 1]
  OBVIOUS
<1>5. PICK records : records = InDomain(Adapted[v], d)
  OBVIOUS
<1>6. PICK hold : hold = SelectHoldout(records, args)
  OBVIOUS
<1>7. PICK selected : selected = SelectToTokenBudget(records, hold, args)
  OBVIOUS
<1>8. records = InDomain(build.records, Domains[build.at])
  BY <1>3, <1>4, <1>5
<1>9. IF hold = Error \/ selected = Error THEN Goto("shortage")
      ELSE build' = [build EXCEPT !.at = @ + 1, !.holdout = Append(@, hold),
                                  !.selected = Append(@, selected)]
  BY <1>2, <1>6, <1>7, <1>8 DEF SelectDomain
<1>10. CASE hold = Error \/ selected = Error
  <2>1. build' = [build EXCEPT !.pc = "shortage"]
    BY <1>9, <1>10 DEF Goto
  <2>2. /\ build'.pc = "shortage" /\ build'.args = args /\ build'.held = v
        /\ build'.records = build.records /\ build'.at = build.at
        /\ build' = [pc |-> build'.pc, args |-> build'.args, held |-> build'.held,
                     records |-> build'.records, at |-> build'.at,
                     selected |-> build'.selected, holdout |-> build'.holdout,
                     found |-> build'.found]
    BY <1>1, <1>2, <2>1, BuilderGoes
  <2>3. GoodBuild(build')
    BY <1>2, <2>2 DEF GoodBuild, Steps, Loaded
  <2>4. CurrentIsWhole'
    BY <2>2 DEF CurrentIsWhole
  <2>5. PICK largest : largest = Max({0} \cup {Tokens(r) : r \in ToSet(records)})
    OBVIOUS
  <2>6. TokensOf(records) < args.holdout + args.target + largest
    BY <1>1, <1>5, <1>6, <1>7, <1>10, <2>5, ShortageMade
  <2>7. InDomain(build'.records, Domains[build'.at]) = records
    BY <1>8, <2>2
  <2>8. ShortageIsReal'
    BY <2>2, <2>5, <2>6, <2>7 DEF ShortageIsReal
  <2> QED
    BY <1>1, <2>2, <2>3, <2>4, <2>8, BuilderStep
<1>11. CASE ~(hold = Error \/ selected = Error)
  <2>1. build' = [build EXCEPT !.at = @ + 1, !.holdout = Append(@, hold),
                               !.selected = Append(@, selected)]
    BY <1>9, <1>11
  <2>2. /\ build'.pc = "select" /\ build'.args = args /\ build'.held = v
        /\ build'.records = Adapted[v] /\ build'.at = k + 2
        /\ build'.holdout = Append(build.holdout, hold)
        /\ build'.selected = Append(build.selected, selected)
        /\ build' = [pc |-> build'.pc, args |-> build'.args, held |-> build'.held,
                     records |-> build'.records, at |-> build'.at,
                     selected |-> build'.selected, holdout |-> build'.holdout,
                     found |-> build'.found]
    <3>1. PICK b : b = build
      OBVIOUS
    <3>2. b = [pc |-> b.pc, args |-> b.args, held |-> b.held, records |-> b.records,
               at |-> b.at, selected |-> b.selected, holdout |-> b.holdout, found |-> b.found]
      BY <1>1, <3>1 DEF GoodBuild
    <3>3. PICK c : c = build'
      OBVIOUS
    <3>4. c = [b EXCEPT !.at = b.at + 1, !.holdout = Append(b.holdout, hold),
                        !.selected = Append(b.selected, selected)]
      BY <2>1, <3>1, <3>3
    <3>5. c = [pc |-> b.pc, args |-> b.args, held |-> b.held, records |-> b.records,
               at |-> b.at + 1, selected |-> Append(b.selected, selected),
               holdout |-> Append(b.holdout, hold), found |-> b.found]
      BY <3>2, <3>4
    <3>6. b.at + 1 = k + 2
      BY <1>3, <3>1
    <3>7. b.pc = "select" /\ b.args = args /\ b.held = v /\ b.records = Adapted[v]
      BY <1>1, <1>2, <1>3, <3>1
    <3>8. /\ c.pc = "select" /\ c.args = args /\ c.held = v /\ c.records = Adapted[v]
          /\ c.at = k + 2 /\ c.holdout = Append(b.holdout, hold)
          /\ c.selected = Append(b.selected, selected)
      BY <3>5, <3>6, <3>7
    <3>9. c = [pc |-> c.pc, args |-> c.args, held |-> c.held, records |-> c.records,
               at |-> c.at, selected |-> c.selected, holdout |-> c.holdout, found |-> c.found]
      BY <3>5
    <3> QED
      BY <3>1, <3>3, <3>8, <3>9
  <2>3. Contribution(v, d, args, hold, selected)
    BY <1>1, <1>5, <1>6, <1>7, <1>11, SelectionMade
  <2>4. Listed(build.holdout, k) /\ Listed(build.selected, k)
    BY <1>3 DEF Contributed
  <2>5. /\ Listed(build'.holdout, k + 1) /\ build'.holdout[k + 1] = hold
        /\ \A i \in 1..k : build'.holdout[i] = build.holdout[i]
    <3>1. PICK s : s = build.holdout
      OBVIOUS
    <3>2. PICK t : t = Append(s, hold)
      OBVIOUS
    <3>3. Extends(t, s, hold, k)
      <4>1. Listed(s, k)
        BY <2>4, <3>1
      <4> QED
        BY <3>2, <4>1, ListedAppend
    <3>4. t = build'.holdout
      BY <2>2, <3>1, <3>2
    <3> QED
      BY <3>1, <3>3, <3>4 DEF Extends
  <2>6. /\ Listed(build'.selected, k + 1) /\ build'.selected[k + 1] = selected
        /\ \A i \in 1..k : build'.selected[i] = build.selected[i]
    <3>1. PICK s : s = build.selected
      OBVIOUS
    <3>2. PICK t : t = Append(s, selected)
      OBVIOUS
    <3>3. Extends(t, s, selected, k)
      <4>1. Listed(s, k)
        BY <2>4, <3>1
      <4> QED
        BY <3>2, <4>1, ListedAppend
    <3>4. t = build'.selected
      BY <2>2, <3>1, <3>2
    <3> QED
      BY <3>1, <3>3, <3>4 DEF Extends
  <2>7. ASSUME NEW i \in 1..(k + 1)
        PROVE  Contribution(v, Domains[i], build'.args, build'.holdout[i], build'.selected[i])
    <3>1. CASE i = k + 1
      BY <1>4, <2>2, <2>3, <2>5, <2>6, <3>1
    <3>2. CASE i # k + 1
      <4>1. i \in 1..k
        BY <3>2
      <4>2. Contribution(v, Domains[i], args, build.holdout[i], build.selected[i])
        BY <1>2, <1>3, <4>1 DEF Contributed
      <4> QED
        BY <2>2, <2>5, <2>6, <4>1, <4>2
    <3> QED
      BY <3>1, <3>2
  <2>8. Contributed(build', v, k + 1)
    BY <2>5, <2>6, <2>7 DEF Contributed
  <2>9. build'.at - 1 = k + 1 /\ build'.at \in 1..(Len(Domains) + 1)
    BY <1>3, <2>2, DomainsIs
  <2>10. GoodBuild(build')
    <3>1. Contributed(build', build'.held, build'.at - 1)
      BY <2>2, <2>8, <2>9
    <3> QED
      BY <2>2, <2>9, <3>1 DEF GoodBuild, Steps, Loaded
  <2>11. CurrentIsWhole' /\ ShortageIsReal'
    BY <2>2 DEF CurrentIsWhole, ShortageIsReal
  <2> QED
    BY <1>1, <2>2, <2>10, <2>11, BuilderStep
<1> QED
  BY <1>10, <1>11

\* The last check finds nothing in common.
LEMMA CombineKeeps == CalInv /\ Combine => CalInv'
<1> SUFFICES ASSUME CalInv, Combine PROVE CalInv'
  OBVIOUS
<1>1. /\ build.pc = "select" /\ build.at > Len(Domains) /\ GoodBuild(build)
      /\ UNCHANGED Others
  BY DEF CalInv, Combine
<1>2. PICK v \in Version, n \in Nat : v = build.held /\ n = Len(Domains)
  BY <1>1, DomainsIs DEF GoodBuild, Loaded
<1>3. build.at - 1 = n
  BY <1>1, <1>2 DEF GoodBuild
<1>4. build.args \in Args /\ Contributed(build, v, n)
  BY <1>1, <1>2, <1>3 DEF GoodBuild
<1>5. Ids(build.selected) \cap Ids(build.holdout) = {}
  <2>1. n <= Len(Domains)
    BY <1>2
  <2>2. PICK b : b = build
    OBVIOUS
  <2>3. Contributed(b, v, n)
    BY <1>4, <2>2
  <2> QED
    BY <2>1, <2>2, <2>3, NoOverlap
<1>6. build' = [build EXCEPT !.pc = "publish"]
  BY <1>5 DEF Combine, Goto
<1>7. /\ build'.pc = "publish" /\ build'.args = build.args /\ build'.held = v
      /\ build'.selected = build.selected /\ build'.holdout = build.holdout
      /\ build' = [pc |-> build'.pc, args |-> build'.args, held |-> build'.held,
                   records |-> build'.records, at |-> build'.at,
                   selected |-> build'.selected, holdout |-> build'.holdout,
                   found |-> build'.found]
  BY <1>1, <1>2, <1>6, BuilderGoes
<1>8. Contributed(build', v, n)
  BY <1>4, <1>7 DEF Contributed
<1>9. Whole(build')
  BY <1>2, <1>4, <1>7, <1>8 DEF Whole
<1>10. GoodBuild(build')
  BY <1>2, <1>4, <1>7, <1>9 DEF GoodBuild, Steps, Loaded
<1>11. CurrentIsWhole' /\ ShortageIsReal'
  BY <1>7 DEF CurrentIsWhole, ShortageIsReal
<1> QED
  BY <1>1, <1>7, <1>10, <1>11, BuilderStep

\* The builder ends.
LEMMA LeaveKeeps == CalInv /\ Leave => CalInv'
<1> SUFFICES ASSUME CalInv, Leave PROVE CalInv'
  OBVIOUS
<1>1. build.pc # "idle" /\ UNCHANGED Others /\ build' = Idle
  BY DEF Leave, Ended
<1>2. GoodBuild(build') /\ build'.pc = "idle"
  BY <1>1 DEF GoodBuild, Idle, Steps, Loaded
<1>3. CurrentIsWhole' /\ ShortageIsReal'
  BY <1>2 DEF CurrentIsWhole, ShortageIsReal
<1> QED
  BY <1>1, <1>2, <1>3, BuilderStep

\* The builder is killed: its backup is forgotten.
LEMMA KillKeeps == CalInv /\ Kill => CalInv'
<1> SUFFICES ASSUME CalInv, Kill PROVE CalInv'
  OBVIOUS
<1>1. /\ build' = Idle /\ backup' = None
      /\ shuffle' = shuffle /\ corpus' = corpus /\ directory' = directory /\ reader' = reader
  BY DEF Kill
<1>2. GoodBuild(build') /\ build'.pc = "idle"
  BY <1>1 DEF GoodBuild, Idle, Steps, Loaded
<1>3. CurrentIsWhole' /\ ShortageIsReal'
  BY <1>2 DEF CurrentIsWhole, ShortageIsReal
<1>4. /\ shuffle' \in Shuffles /\ corpus' \in Version \cup {None}
      /\ GoodDirectory(directory') /\ GoodReader(reader', directory')
  BY <1>1 DEF CalInv
<1>5. GoodDirectory(backup')
  BY <1>1 DEF GoodDirectory
<1> QED
  BY <1>2, <1>3, <1>4, <1>5 DEF CalInv

-----------------------------------------------------------------------------
(***************************************************************************)
(* Publication, surroundings and reader                                    *)
(***************************************************************************)

\* A directory that is moved away races whoever reads it.
LEMMA MoveAwayKeeps == CalInv /\ MoveAway => CalInv'
<1> SUFFICES ASSUME CalInv, MoveAway PROVE CalInv'
  OBVIOUS
<1>1. /\ build.pc = "publish" /\ GoodBuild(build) /\ build' = [build EXCEPT !.pc = "move in"]
      /\ backup' = directory /\ directory' = None
      /\ shuffle' = shuffle /\ corpus' = corpus /\ corpus \in Version
      /\ reader' = [reader EXCEPT !.raced = reader.pc # "away"]
  BY DEF CalInv, MoveAway, Goto
<1>2. /\ build'.pc = "move in" /\ build'.args = build.args /\ build'.held = build.held
      /\ build'.selected = build.selected /\ build'.holdout = build.holdout
      /\ build' = [pc |-> build'.pc, args |-> build'.args, held |-> build'.held,
                   records |-> build'.records, at |-> build'.at,
                   selected |-> build'.selected, holdout |-> build'.holdout,
                   found |-> build'.found]
  BY <1>1, BuilderGoes
<1>3. GoodBuild(build')
  <2>1. Whole(build) /\ build.args \in Args /\ build.held \in Version
    BY <1>1 DEF GoodBuild, Loaded
  <2>2. Whole(build')
    BY <1>2, <2>1 DEF Whole, Contributed
  <2> QED
    BY <1>2, <2>1, <2>2 DEF GoodBuild, Steps, Loaded
<1>4. CurrentIsWhole' /\ ShortageIsReal'
  BY <1>2 DEF CurrentIsWhole, ShortageIsReal
<1>5. GoodDirectory(directory') /\ GoodDirectory(backup')
  <2>1. GoodDirectory(directory)
    BY DEF CalInv
  <2> QED
    BY <1>1, <2>1 DEF GoodDirectory
<1>6. GoodReader(reader', directory')
  <2>1. GoodReader(reader, directory)
    BY DEF CalInv
  <2>2. PICK r, q : r = reader /\ q = reader'
    OBVIOUS
  <2>3. /\ r = [pc |-> r.pc, at |-> r.at, files |-> r.files, raced |-> r.raced]
        /\ r.pc \in {"away", "read"}
        /\ r.pc = "read" => /\ r.at \in 1..(Len(Domains) + 1)
                            /\ r.files \in Seq(Content) /\ Listed(r.files, r.at - 1)
    BY <2>1, <2>2 DEF GoodReader
  <2>4. q = [pc |-> r.pc, at |-> r.at, files |-> r.files, raced |-> r.pc # "away"]
    BY <1>1, <2>2, <2>3
  <2>5. q.pc = r.pc /\ q.at = r.at /\ q.files = r.files /\ (r.pc = "read" => q.raced = TRUE)
    BY <2>3, <2>4
  <2>6. q = [pc |-> q.pc, at |-> q.at, files |-> q.files, raced |-> q.raced]
    BY <2>4
  <2>7. GoodReader(q, directory')
    BY <2>3, <2>5, <2>6 DEF GoodReader
  <2> QED
    BY <2>2, <2>7
<1>7. shuffle' \in Shuffles /\ corpus' \in Version
  BY <1>1 DEF CalInv
<1> QED
  BY <1>1, <1>2, <1>3, <1>4, <1>5, <1>6, <1>7 DEF CalInv

\* Where a directory is put in place, nothing has been read from another one
\* without being raced.
LEMMA ReaderIsFresh ==
    ASSUME CalInv, directory = None, NEW d, reader' = reader
    PROVE  GoodReader(reader', d)
<1>1. GoodReader(reader, directory)
  BY DEF CalInv
<1>2. PICK r : r = reader
  OBVIOUS
<1>3. r.pc = "read" /\ ~r.raced => 1..(r.at - 1) = {}
  BY <1>1, <1>2 DEF GoodReader
<1>4. GoodReader(r, d)
  BY <1>1, <1>2, <1>3 DEF GoodReader, Matches
<1> QED
  BY <1>2, <1>4

\* The staged directory is put in place.
LEMMA MoveInKeeps == CalInv /\ MoveIn => CalInv'
<1> SUFFICES ASSUME CalInv, MoveIn PROVE CalInv'
  OBVIOUS
<1>1. /\ build.pc \in {"publish", "move in"} /\ GoodBuild(build) /\ directory = None
      /\ build' = [build EXCEPT !.pc = "built"]
      /\ directory' = Staged /\ backup' = None
      /\ shuffle' = shuffle /\ corpus' = corpus /\ corpus \in Version /\ reader' = reader
  BY DEF CalInv, MoveIn, Goto
<1>2. /\ build'.pc = "built" /\ build'.args = build.args /\ build'.held = build.held
      /\ build' = [pc |-> build'.pc, args |-> build'.args, held |-> build'.held,
                   records |-> build'.records, at |-> build'.at,
                   selected |-> build'.selected, holdout |-> build'.holdout,
                   found |-> build'.found]
  BY <1>1, BuilderGoes
<1>3. GoodBuild(build')
  <2>1. build.args \in Args /\ build.held \in Version
    BY <1>1 DEF GoodBuild, Loaded
  <2> QED
    BY <1>2, <2>1 DEF GoodBuild, Steps, Loaded
<1>4. CurrentIsWhole' /\ ShortageIsReal'
  BY <1>2 DEF CurrentIsWhole, ShortageIsReal
<1>5. GoodDirectory(directory')
  <2>1. Whole(build)
    BY <1>1 DEF GoodBuild
  <2> QED
    BY <1>1, <2>1, StagedIsGood
<1>6. GoodDirectory(backup')
  BY <1>1 DEF GoodDirectory
<1>7. GoodReader(reader', directory')
  BY <1>1, ReaderIsFresh
<1>8. shuffle' \in Shuffles /\ corpus' \in Version
  BY <1>1 DEF CalInv
<1> QED
  BY <1>2, <1>3, <1>4, <1>5, <1>6, <1>7, <1>8 DEF CalInv

\* The directory that was moved away is put back.
LEMMA MoveFailsKeeps == CalInv /\ MoveFails => CalInv'
<1> SUFFICES ASSUME CalInv, MoveFails PROVE CalInv'
  OBVIOUS
<1>1. /\ build.pc = "move in" /\ GoodBuild(build) /\ directory = None
      /\ build' = [build EXCEPT !.pc = "rename failed"]
      /\ directory' = backup /\ backup' = None
      /\ shuffle' = shuffle /\ corpus' = corpus /\ corpus \in Version /\ reader' = reader
  BY DEF CalInv, MoveFails, Goto
<1>2. /\ build'.pc = "rename failed" /\ build'.args = build.args /\ build'.held = build.held
      /\ build' = [pc |-> build'.pc, args |-> build'.args, held |-> build'.held,
                   records |-> build'.records, at |-> build'.at,
                   selected |-> build'.selected, holdout |-> build'.holdout,
                   found |-> build'.found]
  BY <1>1, BuilderGoes
<1>3. GoodBuild(build')
  <2>1. build.args \in Args /\ build.held \in Version
    BY <1>1 DEF GoodBuild, Loaded
  <2> QED
    BY <1>2, <2>1 DEF GoodBuild, Steps, Loaded
<1>4. CurrentIsWhole' /\ ShortageIsReal'
  BY <1>2 DEF CurrentIsWhole, ShortageIsReal
<1>5. GoodDirectory(directory')
  BY <1>1 DEF CalInv
<1>6. GoodDirectory(backup')
  BY <1>1 DEF GoodDirectory
<1>7. GoodReader(reader', directory')
  BY <1>1, ReaderIsFresh
<1>8. shuffle' \in Shuffles /\ corpus' \in Version
  BY <1>1 DEF CalInv
<1> QED
  BY <1>2, <1>3, <1>4, <1>5, <1>6, <1>7, <1>8 DEF CalInv

\* The parent is republished: a build still names the one it was made from.
LEMMA RepublishKeeps == CalInv /\ Republish => CalInv'
<1> SUFFICES ASSUME CalInv, Republish PROVE CalInv'
  OBVIOUS
<1>1. /\ corpus' \in Version /\ shuffle' = shuffle /\ directory' = directory
      /\ backup' = backup /\ build' = build /\ reader' = reader
  BY DEF Republish
<1>2. GoodBuild(build') /\ CurrentIsWhole' /\ ShortageIsReal'
  BY <1>1, BuilderStays
<1>3. shuffle' \in Shuffles /\ GoodDirectory(directory') /\ GoodDirectory(backup')
      /\ GoodReader(reader', directory') /\ (build'.pc = "move in" => directory' = None)
  BY <1>1 DEF CalInv
<1> QED
  BY <1>1, <1>2, <1>3 DEF CalInv

\* A damaged file no longer is what the manifest signs, and a damaged manifest
\* signs nothing.
LEMMA DamageKeeps == CalInv /\ Damage => CalInv'
<1> SUFFICES ASSUME CalInv, Damage PROVE CalInv'
  OBVIOUS
<1>1. /\ shuffle' = shuffle /\ corpus' = corpus /\ backup' = backup
      /\ build' = build /\ reader' = reader /\ directory # None
  BY DEF Damage
<1>2. GoodBuild(build') /\ CurrentIsWhole' /\ ShortageIsReal'
  BY <1>1, BuilderStays
<1>3. /\ shuffle' \in Shuffles /\ corpus' \in Version \cup {None}
      /\ build'.pc # "idle" => corpus' \in Version
      /\ build'.pc # "move in"
      /\ GoodDirectory(backup')
  BY <1>1 DEF CalInv
<1>4. PICK d, e : d = directory /\ e = directory'
  OBVIOUS
<1>5. /\ d \in Directory /\ d.manifest # Garbage /\ d.files = d.manifest.files
      /\ GoodManifest(d.manifest)
      /\ d.report # None => d.report.raced \/ Matches(d.report.files, Len(Domains), d)
  BY <1>1, <1>4 DEF CalInv, GoodDirectory, Damage
<1>6. GoodReader(reader, d)
  BY <1>4 DEF CalInv
<1>7. ASSUME NEW m \in Names, NEW x \in Content, e = [d EXCEPT !.files[m] = x]
      PROVE  CalInv'
  <2>1. PICK f : f = [d.files EXCEPT ![m] = x]
    OBVIOUS
  <2>2. e = [files |-> f, report |-> d.report, manifest |-> d.manifest]
    BY <1>5, <1>7, <2>1 DEF Directory
  <2>3. d.files \in [Names -> Content]
    BY <1>5 DEF Directory
  <2>4. f \in [Names -> Content]
    BY <2>1, <2>3
  <2>5. e.files = f /\ e.report = d.report /\ e.manifest = d.manifest
    BY <2>2
  <2>6. e \in Directory
    BY <1>5, <2>2, <2>4 DEF Directory
  <2>7. ASSUME NEW list, NEW n, Matches(list, n, d) PROVE Matches(list, n, e)
    BY <1>5, <2>5, <2>7 DEF Matches
  <2>8. GoodDirectory(e)
    BY <1>5, <2>5, <2>6, <2>7 DEF GoodDirectory
  <2>9. GoodReader(reader, e)
    <3>1. d # None /\ e # None
      BY <1>1, <1>4, <2>6, BuildAssumption
    <3> QED
      BY <1>5, <1>6, <2>5, <2>7, <3>1 DEF GoodReader
  <2> QED
    BY <1>1, <1>2, <1>3, <1>4, <2>8, <2>9 DEF CalInv
<1>8. CASE e = [d EXCEPT !.manifest = Garbage]
  <2>1. e = [files |-> d.files, report |-> d.report, manifest |-> Garbage]
    BY <1>5, <1>8 DEF Directory
  <2>2. e.manifest = Garbage
    BY <2>1
  <2>3. e \in Directory
    BY <1>5, <2>1 DEF Directory
  <2>4. GoodDirectory(e)
    BY <2>2, <2>3 DEF GoodDirectory
  <2>5. GoodReader(reader, e)
    <3>1. d # None /\ e # None
      BY <1>1, <1>4, <2>3, BuildAssumption
    <3> QED
      BY <1>6, <2>2, <3>1 DEF GoodReader
  <2> QED
    BY <1>1, <1>2, <1>3, <1>4, <2>4, <2>5 DEF CalInv
<1>9. Garbage \in Content
  BY DEF Content
<1>10. ASSUME NEW m \in DomainSet, NEW x \in Misplaced(m)
       PROVE  m \in Names /\ x \in Content
  <2>1. m \in Names
    BY DEF Names
  <2>2. PICK file : file = directory.files[m]
    OBVIOUS
  <2>3. file \in Seq(Candidates)
    BY <1>4, <1>5, <2>2 DEF GoodManifest
  <2>4. \/ \E n \in 1..(Len(file) - 1) : x = SubSeq(file, 1, n)
        \/ \E r \in Strays : x = <<r>>
    BY <2>2 DEF Misplaced
  <2>5. x \in Seq(Candidates)
    <3>1. CASE \E n \in 1..(Len(file) - 1) : x = SubSeq(file, 1, n)
      BY <2>3, <3>1
    <3>2. CASE \E r \in Strays : x = <<r>>
      BY <3>2, BuildAssumption
    <3> QED
      BY <2>4, <3>1, <3>2
  <2> QED
    BY <2>1, <2>5 DEF Content
<1> QED
  BY <1>4, <1>7, <1>8, <1>9, <1>10 DEF Damage

\* A reader starts with nothing read.
LEMMA ReaderStartsKeeps == CalInv /\ ReaderStarts => CalInv'
<1> SUFFICES ASSUME CalInv, ReaderStarts PROVE CalInv'
  OBVIOUS
<1>1. /\ shuffle' = shuffle /\ corpus' = corpus /\ directory' = directory
      /\ backup' = backup /\ build' = build /\ reader' = [Away EXCEPT !.pc = "read"]
  BY DEF ReaderStarts
<1>2. GoodBuild(build') /\ CurrentIsWhole' /\ ShortageIsReal'
  BY <1>1, BuilderStays
<1>3. /\ shuffle' \in Shuffles /\ corpus' \in Version \cup {None}
      /\ build'.pc # "idle" => corpus' \in Version
      /\ build'.pc = "move in" => directory' = None
      /\ GoodDirectory(directory') /\ GoodDirectory(backup')
  BY <1>1 DEF CalInv
<1>4. PICK q : q = reader'
  OBVIOUS
<1>5. q = [pc |-> "read", at |-> 1, files |-> <<>>, raced |-> FALSE]
  BY <1>1, <1>4 DEF Away
<1>6. GoodReader(q, directory')
  <2>1. 1 \in 1..(Len(Domains) + 1) /\ <<>> \in Seq(Content)
    BY DomainsIs
  <2>2. q.pc = "read" /\ q.at = 1 /\ q.files = <<>> /\ q.raced = FALSE
    BY <1>5
  <2>3. Listed(q.files, q.at - 1)
    BY <2>2, ListedNone
  <2>4. 1..(q.at - 1) = {}
    BY <2>2
  <2> QED
    BY <1>5, <2>1, <2>2, <2>3, <2>4 DEF GoodReader, Matches
<1> QED
  BY <1>2, <1>3, <1>4, <1>6 DEF CalInv

\* A reader that is away has read nothing.
LEMMA ReaderLeaves ==
    ASSUME NEW d
    PROVE  GoodReader(Away, d)
BY DEF GoodReader, Away

\* A domain is read from the build in place, whole or not at all.
LEMMA ReadDomainKeeps == CalInv /\ ReadDomain => CalInv'
<1> SUFFICES ASSUME CalInv, ReadDomain PROVE CalInv'
  OBVIOUS
<1>1. /\ shuffle' = shuffle /\ corpus' = corpus /\ directory' = directory
      /\ backup' = backup /\ build' = build
  BY DEF ReadDomain
<1>2. GoodBuild(build') /\ CurrentIsWhole' /\ ShortageIsReal'
  BY <1>1, BuilderStays
<1>3. /\ shuffle' \in Shuffles /\ corpus' \in Version \cup {None}
      /\ build'.pc # "idle" => corpus' \in Version
      /\ build'.pc = "move in" => directory' = None
      /\ GoodDirectory(directory') /\ GoodDirectory(backup')
  BY <1>1 DEF CalInv
<1>4. reader.pc = "read" /\ reader.at <= Len(Domains) /\ GoodReader(reader, directory)
  BY DEF ReadDomain, CalInv
<1>5. PICK k \in Nat : reader.at = k + 1 /\ k + 1 \in 1..Len(Domains)
  <2>1. reader.at \in 1..(Len(Domains) + 1)
    BY <1>4 DEF GoodReader
  <2>2. reader.at - 1 \in Nat
    BY <2>1
  <2>3. PICK k \in Nat : k = reader.at - 1
    BY <2>2
  <2>4. reader.at = k + 1 /\ k + 1 \in 1..Len(Domains)
    BY <1>4, <2>1, <2>3, DomainsIs
  <2> QED
    BY <2>4
<1>6. PICK d : d = Domains[k + 1]
  OBVIOUS
<1>7. CASE Sound(d)
  <2>1. reader' = [reader EXCEPT !.at = @ + 1, !.files = Append(@, directory.files[d])]
    BY <1>5, <1>6, <1>7 DEF ReadDomain
  <2>2. PICK r, q, x, t : /\ r = reader /\ q = reader' /\ x = directory.files[d]
                          /\ t = Append(r.files, x)
    OBVIOUS
  <2>3. /\ r = [pc |-> r.pc, at |-> r.at, files |-> r.files, raced |-> r.raced]
        /\ r.files \in Seq(Content) /\ Listed(r.files, k) /\ r.raced \in BOOLEAN
        /\ ~r.raced /\ directory # None /\ directory.manifest # Garbage =>
              Matches(r.files, k, directory)
    <3>1. reader.at - 1 = k
      BY <1>5
    <3> QED
      BY <1>4, <2>2, <3>1 DEF GoodReader
  <2>4. q = [r EXCEPT !.at = r.at + 1, !.files = t]
    BY <2>1, <2>2
  <2>5. q = [pc |-> "read", at |-> k + 2, files |-> t, raced |-> r.raced]
    <3>1. r.pc = "read" /\ r.at + 1 = k + 2
      BY <1>4, <1>5, <2>2
    <3>2. q = [pc |-> r.pc, at |-> r.at + 1, files |-> t, raced |-> r.raced]
      BY <2>3, <2>4
    <3> QED
      BY <3>1, <3>2
  <2>6. q.pc = "read" /\ q.at = k + 2 /\ q.files = t /\ q.raced = r.raced
        /\ q = [pc |-> q.pc, at |-> q.at, files |-> q.files, raced |-> q.raced]
    BY <2>5
  <2>7. Extends(t, r.files, x, k)
    <3>1. PICK s : s = r.files
      OBVIOUS
    <3>2. Listed(s, k) /\ t = Append(s, x)
      BY <2>2, <2>3, <3>1
    <3>3. Extends(t, s, x, k)
      BY <3>2, ListedAppend
    <3> QED
      BY <3>1, <3>3
  <2>8. directory # None /\ d \in Names /\ directory.files[d] # Garbage
    BY <1>5, <1>6, <1>7, DomainsIs DEF Sound
  <2>9. x \in Content
    <3>1. directory.files \in [Names -> Content]
      BY <2>8 DEF CalInv, GoodDirectory, Directory
    <3> QED
      BY <2>2, <2>8, <3>1
  <2>10. t \in Seq(Content)
    BY <2>2, <2>3, <2>9
  <2>11. ASSUME ~r.raced, directory.manifest # Garbage
         PROVE  Matches(t, k + 1, directory)
    <3> SUFFICES ASSUME NEW i \in 1..(k + 1),
                        directory.files[Domains[i]] = directory.manifest.files[Domains[i]]
                 PROVE  t[i] = directory.manifest.files[Domains[i]]
      BY DEF Matches
    <3>1. CASE i = k + 1
      BY <1>6, <2>2, <2>7, <3>1 DEF Extends
    <3>2. CASE i # k + 1
      <4>1. i \in 1..k
        BY <3>2
      <4> QED
        BY <2>3, <2>7, <2>8, <2>11, <4>1 DEF Extends, Matches
    <3> QED
      BY <3>1, <3>2
  <2>12. q.at - 1 = k + 1 /\ q.at \in 1..(Len(Domains) + 1)
    BY <1>5, <2>6, DomainsIs
  <2>13. Listed(q.files, q.at - 1)
    BY <2>6, <2>7, <2>12 DEF Extends
  <2>14. GoodReader(q, directory)
    <3>1. ~q.raced => /\ directory # None
                      /\ directory.manifest # Garbage =>
                            Matches(q.files, q.at - 1, directory)
      BY <2>6, <2>8, <2>11, <2>12
    <3> QED
      BY <2>3, <2>6, <2>10, <2>12, <2>13, <3>1 DEF GoodReader
  <2> QED
    BY <1>1, <1>2, <1>3, <2>2, <2>14 DEF CalInv
<1>8. CASE ~Sound(d)
  <2>1. reader' = Away
    BY <1>5, <1>6, <1>8 DEF ReadDomain
  <2>2. GoodReader(reader', directory')
    BY <2>1, ReaderLeaves
  <2> QED
    BY <1>2, <1>3, <2>2 DEF CalInv
<1> QED
  BY <1>7, <1>8

\* The report of an unraced reader is of the build it lies beside.
LEMMA WriteReportKeeps == CalInv /\ WriteReport => CalInv'
<1> SUFFICES ASSUME CalInv, WriteReport PROVE CalInv'
  OBVIOUS
<1>1. /\ shuffle' = shuffle /\ corpus' = corpus /\ backup' = backup
      /\ build' = build /\ reader' = Away
  BY DEF WriteReport
<1>2. GoodBuild(build') /\ CurrentIsWhole' /\ ShortageIsReal'
  BY <1>1, BuilderStays
<1>3. /\ shuffle' \in Shuffles /\ corpus' \in Version \cup {None}
      /\ build'.pc # "idle" => corpus' \in Version
      /\ build'.pc = "move in" => directory = None
      /\ GoodDirectory(backup')
  BY <1>1 DEF CalInv
<1>4. GoodReader(reader', directory')
  BY <1>1, ReaderLeaves
<1>5. CASE directory = None
  <2>1. directory' = None
    BY <1>5 DEF WriteReport
  <2> QED
    BY <1>2, <1>3, <1>4, <2>1 DEF CalInv, GoodDirectory
<1>6. CASE directory # None
  <2>1. PICK d, e, r : d = directory /\ e = directory' /\ r = reader
    OBVIOUS
  <2>2. PICK report : report = [files |-> r.files, raced |-> r.raced]
    OBVIOUS
  <2>3. e = [d EXCEPT !.report = report]
    BY <1>6, <2>1, <2>2 DEF WriteReport
  <2>4. d \in Directory /\ GoodDirectory(d) /\ GoodReader(r, d)
    BY <1>6, <2>1 DEF CalInv, GoodDirectory
  <2>5. e = [files |-> d.files, report |-> report, manifest |-> d.manifest]
    BY <2>3, <2>4 DEF Directory
  <2>6. e.files = d.files /\ e.report = report /\ e.manifest = d.manifest
    BY <2>5
  <2>7. r.pc = "read" /\ r.at > Len(Domains)
    BY <2>1 DEF WriteReport
  <2>8. r.at - 1 = Len(Domains)
    BY <2>4, <2>7, DomainsIs DEF GoodReader
  <2>9. report \in [files : Seq(Content), raced : BOOLEAN]
    BY <2>2, <2>4, <2>7 DEF GoodReader
  <2>10. e \in Directory
    BY <2>4, <2>5, <2>9 DEF Directory
  <2>11. d.manifest # Garbage => report.raced \/ Matches(report.files, Len(Domains), e)
    <3>1. report.files = r.files /\ report.raced = r.raced
      BY <2>2
    <3>2. ASSUME d.manifest # Garbage, ~r.raced
          PROVE  Matches(r.files, Len(Domains), d)
      BY <1>6, <2>1, <2>4, <2>7, <2>8, <3>2 DEF GoodReader
    <3> QED
      BY <2>6, <3>1, <3>2 DEF Matches
  <2>12. GoodDirectory(e)
    BY <1>6, <2>1, <2>4, <2>6, <2>10, <2>11 DEF GoodDirectory
  <2> QED
    BY <1>2, <1>3, <1>4, <1>6, <2>1, <2>12 DEF CalInv
<1> QED
  BY <1>5, <1>6

\* The inductive invariant of the calibration build.
THEOREM CalibrationInvariant == Spec => []CalInv
<1>1. CalInv /\ UNCHANGED vars => CalInv'
  <2> SUFFICES ASSUME CalInv, UNCHANGED vars PROVE CalInv'
    OBVIOUS
  <2>1. /\ shuffle' = shuffle /\ corpus' = corpus /\ directory' = directory
        /\ backup' = backup /\ build' = build /\ reader' = reader
    BY DEF vars
  <2>2. GoodBuild(build') /\ CurrentIsWhole' /\ ShortageIsReal'
    BY <2>1, BuilderStays
  <2>3. /\ shuffle' \in Shuffles /\ corpus' \in Version \cup {None}
        /\ build'.pc # "idle" => corpus' \in Version
        /\ build'.pc = "move in" => directory' = None
        /\ GoodDirectory(directory') /\ GoodDirectory(backup')
        /\ GoodReader(reader', directory')
    BY <2>1 DEF CalInv
  <2> QED
    BY <2>2, <2>3 DEF CalInv
<1>2. CalInv /\ [Next]_vars => CalInv'
  BY <1>1, StartKeeps, LoadCorpusKeeps, CheckBreaksKeeps, CheckExistingKeeps, AdaptKeeps,
     SelectDomainKeeps, CombineKeeps, MoveAwayKeeps, MoveInKeeps, MoveFailsKeeps, LeaveKeeps, KillKeeps,
     RepublishKeeps, DamageKeeps, ReaderStartsKeeps, ReadDomainKeeps, WriteReportKeeps
     DEF Next
<1> QED
  BY <1>2, InitMakesInv, PTL DEF Spec

\* PublishedIsABuild: the files a manifest signs are a build of its policy,
\* made from the parent whose digest it names (build_calibration).
THEOREM PublishedAlwaysABuild == Spec => []PublishedIsABuild
<1>1. CalInv => PublishedIsABuild
  BY DEF CalInv, GoodDirectory, GoodManifest, PublishedIsABuild
<1> QED
  BY <1>1, CalibrationInvariant, PTL

\* HoldoutIsUnseen: no record a published build holds out says the same as one
\* it calibrates with, or is near one by their sketches, by all their features
\* where the sketches hold them (select_holdout, deduplicate_records).
THEOREM HoldoutAlwaysUnseen == Spec => []HoldoutIsUnseen
<1>1. CalInv => HoldoutIsUnseen
  BY DEF CalInv, GoodDirectory, GoodManifest, NoneSeen, HoldoutIsUnseen
<1> QED
  BY <1>1, CalibrationInvariant, PTL

\* CurrentIsWhole: a build is taken for current only if it is whole and made
\* for this command line and parent (_valid_existing_build).
THEOREM CurrentAlwaysWhole == Spec => []CurrentIsWhole
<1>1. CalInv => CurrentIsWhole
  BY DEF CalInv
<1> QED
  BY <1>1, CalibrationInvariant, PTL

\* ShortageIsReal: a build gives up only where a domain lacks the tokens for
\* both targets and one record more (_take_to_token_budget).
THEOREM ShortageAlwaysReal == Spec => []ShortageIsReal
<1>1. CalInv => ShortageIsReal
  BY DEF CalInv
<1> QED
  BY <1>1, CalibrationInvariant, PTL

\* FailuresAreOfTheInput: neither the loader of the parent nor the last check
\* of a build ever fails (load_corpus, build_calibration).
THEOREM FailuresAlwaysOfTheInput == Spec => []FailuresAreOfTheInput
<1>1. CalInv => FailuresAreOfTheInput
  BY DEF CalInv, GoodBuild, Steps, Loaded, FailuresAreOfTheInput
<1> QED
  BY <1>1, CalibrationInvariant, PTL

\* ReportOfItsBuild: an unraced coverage report is of the records it lies
\* beside, in every domain whose file still is the one the manifest signs
\* (load_calibration_records, measure_expert_coverage).
THEOREM ReportAlwaysOfItsBuild == Spec => []ReportOfItsBuild
<1>1. CalInv => ReportOfItsBuild
  BY DomainsIs DEF CalInv, GoodDirectory, Matches, ReportOfItsBuild
<1> QED
  BY <1>1, CalibrationInvariant, PTL
=============================================================================
