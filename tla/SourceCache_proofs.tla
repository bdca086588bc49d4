-------------------------- MODULE SourceCache_proofs --------------------------
(***************************************************************************)
(* Proofs about SourceCache, for any runs, sources, seeds, defaults and    *)
(* data sets: what becomes of temporary files, what load_source returns,   *)
(* and what costs a source its finished cache entry.                       *)
(***************************************************************************)
EXTENDS SourceCache, FiniteSetTheorems, FunctionTheorems, WellFoundedInduction, TLAPS

Steps == {"enter", "data?", "manifest?", "load", "rows", "enough?", "data", "data!",
          "manifest", "manifest!"} \union Ended

\* A run is at one of its steps, and its temporary files are of two kinds.
Shape ==
    /\ pc \in [Run -> Steps]
    /\ temps \subseteq Run \X {"data", "manifest"}

IInv == Shape /\ TempsAccounted

\* Whose temporary files a step leaves alone, and whose place in the program.
LEMMA StepTemps ==
    ASSUME IInv, NEW r \in Run, NEW step \in Steps,
           pc' = [pc EXCEPT ![r] = step],
           \A t \in temps' : t \in temps \/ t \in {r} \X {"data", "manifest"},
           \A which \in {"data", "manifest"} : <<r, which>> \in temps' =>
                \/ step \in {"crashed", "leaked"}
                \/ step = "data!" /\ which = "data"
                \/ step = "manifest!" /\ which = "manifest"
    PROVE  IInv'
<1>1. Shape'
  BY DEF IInv, Shape
<1>2. ASSUME NEW t \in temps'
      PROVE  pc'[t[1]] \in {"crashed", "leaked"}
                \/ (pc'[t[1]] = "data!" /\ t[2] = "data")
                \/ (pc'[t[1]] = "manifest!" /\ t[2] = "manifest")
  <2>1. CASE t[1] = r
    <3>1. t = <<r, t[2]>> /\ t[2] \in {"data", "manifest"}
      BY <1>1, <2>1 DEF Shape
    <3> QED
      BY <2>1, <3>1 DEF IInv, Shape
  <2>2. CASE t[1] # r
    <3>1. t \in temps /\ t[1] \in Run
      BY <2>2 DEF IInv, Shape
    <3> QED
      BY <2>2, <3>1 DEF IInv, Shape, TempsAccounted
  <2> QED
    BY <2>1, <2>2
<1> QED
  BY <1>1, <1>2 DEF IInv, TempsAccounted

LEMMA Inductive == IInv /\ [Next]_vars => IInv'
<1> SUFFICES ASSUME IInv, [Next]_vars PROVE IInv'
  OBVIOUS
<1>0. ASSUME NEW r \in Run, NEW which \in {"data", "manifest"}, <<r, which>> \in temps
      PROVE  \/ pc[r] \in {"crashed", "leaked"}
             \/ pc[r] = "data!" /\ which = "data"
             \/ pc[r] = "manifest!" /\ which = "manifest"
  BY <1>0 DEF IInv, TempsAccounted
<1>1. ASSUME NEW r \in Run, Lookup(r) \/ Extract(r) \/ Crash(r) PROVE IInv'
  <2>1. PICK step \in Steps :
           /\ pc' = [pc EXCEPT ![r] = step] /\ temps' = temps
           /\ \/ step = "crashed"
              \/ pc[r] \notin {"data!", "manifest!", "crashed", "leaked"}
    <3>1. CASE Lookup(r)
      BY <3>1 DEF Lookup, Enter, ReadData, Hit, Miss, Return, Goto, cache, Steps, Ended
    <3>2. CASE Extract(r) /\ ~ReadRow(r)
      BY <3>2 DEF Extract, Load, LoadFails, EndOfRows, RowsFail, CheckMinimum, Goto, cache,
                  Steps, Ended
    <3>3. CASE ReadRow(r)
      <4>1. [pc EXCEPT ![r] = "rows"] = pc
        BY <3>3 DEF ReadRow, IInv, Shape
      <4> QED
        BY <3>3, <4>1 DEF ReadRow, Goto, cache, Steps, Ended
    <3>4. CASE Crash(r)
      BY <3>4 DEF Crash, Goto, cache, Steps, Ended
    <3> QED
      BY <1>1, <3>1, <3>2, <3>3, <3>4
  <2>2. \A which \in {"data", "manifest"} : <<r, which>> \in temps' => step = "crashed"
    <3> SUFFICES ASSUME NEW which \in {"data", "manifest"}, <<r, which>> \in temps
                 PROVE  step = "crashed"
      BY <2>1
    <3>1. pc[r] \in {"data!", "manifest!", "crashed", "leaked"}
      BY <1>0
    <3> QED
      BY <2>1, <3>1
  <2> QED
    BY <2>1, <2>2, StepTemps
<1>2. ASSUME NEW r \in Run, Write(r) PROVE IInv'
  <2>1. PICK step \in Steps :
           /\ pc' = [pc EXCEPT ![r] = step]
           /\ \/ step = "data!" /\ pc[r] = "data" /\ temps' = temps \union {<<r, "data">>}
              \/ step = "manifest!" /\ pc[r] = "manifest"
                   /\ temps' = temps \union {<<r, "manifest">>}
              \/ pc[r] = "data!" /\ temps' = temps \ {<<r, "data">>}
              \/ pc[r] = "manifest!" /\ temps' = temps \ {<<r, "manifest">>}
              \/ /\ step = "leaked" /\ pc[r] \in {"data", "manifest"}
                 /\ temps' = temps \union {<<r, pc[r]>>}
              \/ temps' = {t \in temps : t[1] # r}
    BY <1>2 DEF Write, StageData, StageManifest, SwapData, SwapManifest, StageFails, SwapFails,
                Return, Goto, Steps, Ended
  <2>2. \A t \in temps' : t \in temps \/ t \in {r} \X {"data", "manifest"}
    BY <2>1
  <2>3. ASSUME NEW which \in {"data", "manifest"}, <<r, which>> \in temps'
        PROVE  \/ step \in {"crashed", "leaked"}
               \/ step = "data!" /\ which = "data"
               \/ step = "manifest!" /\ which = "manifest"
    <3>1. CASE <<r, which>> \in temps
      <4>1. \/ pc[r] \in {"crashed", "leaked"}
            \/ pc[r] = "data!" /\ which = "data"
            \/ pc[r] = "manifest!" /\ which = "manifest"
        BY <1>0, <3>1
      <4>2. <<r, which>>[1] = r
        OBVIOUS
      <4> QED
        BY <2>1, <2>3, <4>1, <4>2
    <3>2. CASE <<r, which>> \notin temps
      BY <2>1, <2>3, <3>2
    <3> QED
      BY <3>1, <3>2
  <2> QED
    BY <2>1, <2>2, <2>3, StepTemps
<1>3. CASE UNCHANGED vars \/ \E k \in Key : Damage(k)
  BY <1>3 DEF vars, Damage, IInv, Shape, TempsAccounted
<1> QED
  BY <1>1, <1>2, <1>3 DEF Next, Step, Quiet

\* A temporary file is about to be renamed by its run, or its run died, or its
\* write failed before the code knew the file's name: no other way through
\* _write_source_cache leaves one behind.
THEOREM TempsAlwaysAccounted == Spec => []TempsAccounted
<1>1. Init => IInv
  BY DEF Init, IInv, Shape, TempsAccounted, Steps
<1>2. IInv => TempsAccounted
  BY DEF IInv
<1> QED
  BY <1>1, <1>2, Inductive, PTL DEF Spec

-----------------------------------------------------------------------------
(***************************************************************************)
(* Positions, good rows and prefixes                                       *)
(***************************************************************************)
LEMMA OrderInjective ==
    \A i, j \in 1..Len(Order) : Order[i] = Order[j] => i = j
<1> DEFINE D == 1..Len(Order)
<1>1. Len(Order) \in Nat /\ Order \in [D -> Source] /\ \A s \in Source : \E i \in D : Order[i] = s
  BY OrderAssumption
<1>2. IsFiniteSet(D) /\ Cardinality(D) = Len(Order)
  BY <1>1, FS_Interval
<1>3. Order \in Surjection(D, Source)
  BY <1>1, Fun_IsSurj
<1>4. Order \in Injection(D, Source)
  BY <1>2, <1>3, OrderAssumption, FS_SurjSameCardinalityImpliesInj
<1> QED
  BY <1>4 DEF Injection, IsInjective

LEMMA SmallestExists ==
    ASSUME NEW T, T \subseteq Nat, T # {}
    PROVE  \E x \in T : \A y \in T : x <= y
<1>1. PICK R : R = OpToRel(<, Nat)
  OBVIOUS
<1>2. IsWellFoundedOn(R, Nat)
  BY <1>1, NatLessThanWellFounded
<1>3. \A x, y \in Nat : <<x, y>> \in R <=> x < y
  BY <1>1 DEF OpToRel
<1>4. PICK x \in T : \A y \in T : ~ (<<y, x>> \in R)
  BY <1>2, WFMin
<1>5. \A y \in T : x \in Nat /\ y \in Nat /\ ~(y < x)
  BY <1>3, <1>4
<1> QED
  BY <1>5

\* A set of positions up to n has finitely many elements, and up to n + 1 one
\* more or none.
LEMMA UpTo ==
    ASSUME NEW S, NEW n \in Nat
    PROVE  /\ IsFiniteSet(S \cap (1..n)) /\ Cardinality(S \cap (1..n)) \in Nat
           /\ Cardinality(S \cap (1..n)) <= n
           /\ S \cap (1..0) = {} /\ Cardinality(S \cap (1..0)) = 0
           /\ n + 1 \notin S => S \cap (1..(n + 1)) = S \cap (1..n)
           /\ n + 1 \in S => /\ S \cap (1..(n + 1)) = (S \cap (1..n)) \union {n + 1}
                             /\ Cardinality(S \cap (1..(n + 1))) = Cardinality(S \cap (1..n)) + 1
<1>1. IsFiniteSet(1..n) /\ Cardinality(1..n) = n
  BY FS_Interval
<1>2. /\ IsFiniteSet(S \cap (1..n)) /\ Cardinality(S \cap (1..n)) \in Nat
      /\ Cardinality(S \cap (1..n)) <= n
  <2>1. S \cap (1..n) \in SUBSET (1..n)
    OBVIOUS
  <2> QED
    BY <1>1, <2>1, FS_Subset, FS_CardinalityType
<1>3. S \cap (1..0) = {} /\ Cardinality(S \cap (1..0)) = 0
  <2>1. S \cap (1..0) = {}
    OBVIOUS
  <2> QED
    BY <2>1, FS_EmptySet
<1>4. n + 1 \notin S \cap (1..n)
  OBVIOUS
<1>5. n + 1 \notin S => S \cap (1..(n + 1)) = S \cap (1..n)
  OBVIOUS
<1>6. n + 1 \in S => S \cap (1..(n + 1)) = (S \cap (1..n)) \union {n + 1}
  OBVIOUS
<1>7. Cardinality((S \cap (1..n)) \union {n + 1}) = Cardinality(S \cap (1..n)) + 1
  BY <1>2, <1>4, FS_AddElement
<1> QED
  BY <1>2, <1>3, <1>5, <1>6, <1>7

\* Of two positions of a set the later one has more of them up to itself.
LEMMA MoreUpTo ==
    ASSUME NEW S, NEW i \in Nat, NEW j \in Nat, j \in S, i < j
    PROVE  Cardinality(S \cap (1..i)) < Cardinality(S \cap (1..j))
<1>1. S \cap (1..i) \in SUBSET (S \cap (1..j)) /\ j \in S \cap (1..j) /\ j \notin S \cap (1..i)
  OBVIOUS
<1>2. IsFiniteSet(S \cap (1..j)) /\ Cardinality(S \cap (1..i)) \in Nat
      /\ Cardinality(S \cap (1..j)) \in Nat
  BY UpTo
<1> QED
  BY <1>1, <1>2, FS_Subset

LEMMA NthExists ==
    ASSUME NEW S
    PROVE  \A n \in Nat : \A k \in 1..Cardinality(S \cap (1..n)) :
              \E i \in S \cap (1..n) : Cardinality(S \cap (1..i)) = k
<1> DEFINE Fine(n) == \A k \in 1..Cardinality(S \cap (1..n)) :
                         \E i \in S \cap (1..n) : Cardinality(S \cap (1..i)) = k
           Bad == {n \in Nat : ~Fine(n)}
<1> SUFFICES ASSUME Bad # {} PROVE FALSE
  OBVIOUS
<1>1. PICK n \in Bad : \A m \in Bad : n <= m
  <2> HIDE DEF Fine
  <2>1. Bad \subseteq Nat
    OBVIOUS
  <2> QED
    BY <2>1, SmallestExists
<1>2. Fine(0)
  BY UpTo
<1>3. PICK m \in Nat : n = m + 1
  <2>1. n \in Nat /\ n # 0
    BY <1>1, <1>2
  <2> QED
    BY <2>1
<1>4. Fine(m) /\ ~Fine(m + 1)
  <2>1. m \notin Bad
    <3>1. ~(n <= m)
      BY <1>3
    <3> QED
      BY <1>1, <3>1
  <2>2. ~Fine(n)
    BY <1>1
  <2> QED
    BY <1>3, <2>1, <2>2
<1> HIDE DEF Bad
<1>5. /\ Cardinality(S \cap (1..m)) \in Nat
      /\ m + 1 \notin S => S \cap (1..(m + 1)) = S \cap (1..m)
      /\ m + 1 \in S => /\ S \cap (1..(m + 1)) = (S \cap (1..m)) \union {m + 1}
                        /\ Cardinality(S \cap (1..(m + 1))) = Cardinality(S \cap (1..m)) + 1
  BY UpTo
<1>6. ASSUME NEW k \in 1..Cardinality(S \cap (1..(m + 1)))
      PROVE  \E i \in S \cap (1..(m + 1)) : Cardinality(S \cap (1..i)) = k
  <2>1. CASE k \in 1..Cardinality(S \cap (1..m))
    <3>1. \E i \in S \cap (1..m) : Cardinality(S \cap (1..i)) = k
      BY <1>4, <2>1
    <3> QED
      BY <1>5, <3>1
  <2>2. CASE k \notin 1..Cardinality(S \cap (1..m))
    <3>1. m + 1 \in S /\ k = Cardinality(S \cap (1..(m + 1)))
      BY <1>5, <2>2
    <3>2. m + 1 \in S \cap (1..(m + 1))
      BY <3>1
    <3> QED
      BY <3>1, <3>2
  <2> QED
    BY <2>1, <2>2
<1> QED
  BY <1>4, <1>6

LEMMA NthIs ==
    ASSUME NEW n \in Nat, NEW S, S \subseteq 1..n, NEW k \in 1..Cardinality(S)
    PROVE  Nth(S, k) \in S /\ Cardinality(S \cap (1..Nth(S, k))) = k
<1>1. S \cap (1..n) = S
  OBVIOUS
<1>2. \E i \in S \cap (1..n) : Cardinality(S \cap (1..i)) = k
  BY <1>1, NthExists
<1>3. \E i \in S : Cardinality(S \cap (1..i)) = k
  BY <1>2
<1> QED
  BY <1>3 DEF Nth

\* One position more, behind the others, changes none of theirs.
LEMMA NthOfMore ==
    ASSUME NEW n \in Nat, NEW S, S \subseteq 1..n
    PROVE  /\ Cardinality(S) \in Nat
           /\ Cardinality(S \union {n + 1}) = Cardinality(S) + 1
           /\ \A k \in 1..Cardinality(S) : Nth(S \union {n + 1}, k) = Nth(S, k)
           /\ Nth(S \union {n + 1}, Cardinality(S) + 1) = n + 1
<1>0. PICK T : T = S \union {n + 1}
  OBVIOUS
<1>1. /\ S \cap (1..n) = S /\ T \cap (1..(n + 1)) = T /\ T \cap (1..n) = S
      /\ T \subseteq 1..(n + 1) /\ n + 1 \in T
  <2>1. S \cap (1..n) = S
    OBVIOUS
  <2>2. T \subseteq 1..(n + 1) /\ n + 1 \in T
    BY <1>0
  <2>3. T \cap (1..(n + 1)) = T
    BY <2>2
  <2>4. T \cap (1..n) = S
    <3>1. n + 1 \notin 1..n
      OBVIOUS
    <3>2. \A x : x \in T \cap (1..n) <=> x \in S
      BY <1>0, <3>1
    <3> QED
      BY <3>2
  <2> QED
    BY <2>1, <2>2, <2>3, <2>4
<1>2. Cardinality(S) \in Nat /\ Cardinality(T) = Cardinality(S) + 1
  <2>1. Cardinality(S \cap (1..n)) \in Nat
    BY UpTo
  <2>2. Cardinality(T \cap (1..(n + 1))) = Cardinality(T \cap (1..n)) + 1
    BY <1>1, UpTo
  <2> QED
    BY <1>1, <2>1, <2>2
<1>3. ASSUME NEW k \in 1..Cardinality(S) PROVE Nth(T, k) = Nth(S, k)
  <2>1. Nth(S, k) \in S /\ Cardinality(S \cap (1..Nth(S, k))) = k
    BY NthIs
  <2>2. Nth(T, k) \in T /\ Cardinality(T \cap (1..Nth(T, k))) = k
    BY <1>1, <1>2, NthIs
  <2>3. T \cap (1..Nth(S, k)) = S \cap (1..Nth(S, k))
    BY <1>1, <2>1
  <2>4. Nth(S, k) \in Nat /\ Nth(T, k) \in Nat /\ Nth(S, k) \in T
    BY <1>1, <2>1, <2>2
  <2>5. ~(Nth(S, k) < Nth(T, k)) /\ ~(Nth(T, k) < Nth(S, k))
    BY <2>1, <2>2, <2>3, <2>4, MoreUpTo
  <2> QED
    BY <2>4, <2>5
<1>4. Nth(T, Cardinality(S) + 1) = n + 1
  <2> DEFINE i == Nth(T, Cardinality(S) + 1)
  <2>1. i \in T /\ Cardinality(T \cap (1..i)) = Cardinality(S) + 1
    <3>1. n + 1 \in Nat /\ Cardinality(S) + 1 \in 1..Cardinality(T)
      BY <1>2
    <3> QED
      BY <1>1, <3>1, NthIs
  <2>2. i \in Nat /\ i <= n + 1
    BY <1>1, <2>1
  <2>3. ~(i < n + 1)
    <3> SUFFICES ASSUME i < n + 1 PROVE FALSE
      OBVIOUS
    <3>1. T \cap (1..i) = S \cap (1..i)
      BY <1>0, <2>2
    <3>2. Cardinality(S \cap (1..i)) <= Cardinality(S)
      <4>1. IsFiniteSet(S) /\ S \cap (1..i) \in SUBSET S
        BY <1>1, UpTo
      <4> QED
        BY <4>1, FS_Subset
    <3> QED
      BY <1>2, <2>1, <3>1, <3>2
  <2> QED
    BY <2>2, <2>3
<1> QED
  BY <1>0, <1>2, <1>3, <1>4

\* The good rows of a data set are rows of it, and not more than it has.
LEMMA GoodIs ==
    ASSUME NEW rows \in Seq(Row)
    PROVE  Good(rows) \in Seq(Row) /\ Len(Good(rows)) <= Len(rows)
<1>1. PICK hits : hits = {i \in DOMAIN rows : Kind[rows[i]] = "good"}
  OBVIOUS
<1>2. PICK n \in Nat : n = Len(rows)
  OBVIOUS
<1>3. hits \subseteq 1..n /\ hits \cap (1..n) = hits
  BY <1>1, <1>2
<1>4. Cardinality(hits) \in Nat /\ Cardinality(hits) <= n
  <2>1. Cardinality(hits \cap (1..n)) \in Nat /\ Cardinality(hits \cap (1..n)) <= n
    BY UpTo
  <2> QED
    BY <1>3, <2>1
<1>5. Good(rows) = [k \in 1..Cardinality(hits) |-> rows[Nth(hits, k)]]
  BY <1>1 DEF Good
<1>6. ASSUME NEW k \in 1..Cardinality(hits) PROVE rows[Nth(hits, k)] \in Row
  <2>1. Nth(hits, k) \in hits
    BY <1>3, NthIs
  <2>2. Nth(hits, k) \in 1..Len(rows)
    BY <1>2, <1>3, <2>1
  <2> QED
    BY <2>2
<1> QED
  BY <1>2, <1>4, <1>5, <1>6

\* A good row more is kept, behind the others; no other row is.
LEMMA GoodStep ==
    ASSUME NEW rows \in Seq(Row), NEW n \in Nat, n < Len(rows)
    PROVE  Good(SubSeq(rows, 1, n + 1)) =
               IF Kind[rows[n + 1]] = "good" THEN Append(Good(SubSeq(rows, 1, n)), rows[n + 1])
               ELSE Good(SubSeq(rows, 1, n))
<1> DEFINE Hits(t) == {i \in DOMAIN t : Kind[t[i]] = "good"}
<1>1. PICK t, u : t = SubSeq(rows, 1, n) /\ u = SubSeq(rows, 1, n + 1)
  OBVIOUS
<1>2. /\ DOMAIN t = 1..n /\ DOMAIN u = 1..(n + 1)
      /\ (\A i \in 1..n : t[i] = u[i]) /\ u[n + 1] = rows[n + 1]
  BY <1>1
<1>3. PICK S, T : S = Hits(t) /\ T = Hits(u)
  OBVIOUS
<1>4. S \subseteq 1..n /\ T = IF Kind[rows[n + 1]] = "good" THEN S \union {n + 1} ELSE S
  BY <1>2, <1>3
<1>5. /\ Good(t) = [k \in 1..Cardinality(S) |-> t[Nth(S, k)]]
      /\ Good(u) = [k \in 1..Cardinality(T) |-> u[Nth(T, k)]]
  BY <1>3 DEF Good
<1> HIDE DEF Hits
<1>6. Cardinality(S) \in Nat
  BY <1>4, NthOfMore
<1>7. \A k \in 1..Cardinality(S) : t[Nth(S, k)] = u[Nth(S, k)]
  BY <1>2, <1>4, NthIs
<1>8. CASE Kind[rows[n + 1]] # "good"
  BY <1>1, <1>4, <1>5, <1>7, <1>8
<1>9. CASE Kind[rows[n + 1]] = "good"
  <2>1. /\ Cardinality(T) = Cardinality(S) + 1
        /\ \A k \in 1..Cardinality(S) : Nth(T, k) = Nth(S, k)
        /\ Nth(T, Cardinality(S) + 1) = n + 1
    BY <1>4, <1>9, NthOfMore
  <2>2. Good(u) = [k \in 1..(Cardinality(S) + 1) |->
                     IF k = Cardinality(S) + 1 THEN rows[n + 1] ELSE t[Nth(S, k)]]
    BY <1>2, <1>5, <1>6, <1>7, <2>1
  <2>3. Good(u) = Append(Good(t), rows[n + 1])
    <3>1. t \in Seq(Row) /\ rows[n + 1] \in Row
      BY <1>1
    <3>2. PICK g \in Seq(Row) : g = Good(t)
      BY <3>1, GoodIs
    <3>3. /\ Len(g) = Cardinality(S)
          /\ \A k \in 1..Cardinality(S) : g[k] = t[Nth(S, k)]
      BY <1>5, <1>6, <3>2
    <3>4. Append(g, rows[n + 1]) = [k \in 1..(Len(g) + 1) |->
                                     IF k = Len(g) + 1 THEN rows[n + 1] ELSE g[k]]
      BY <3>1, <3>2
    <3>5. Good(u) = [k \in 1..(Len(g) + 1) |->
                       IF k = Len(g) + 1 THEN rows[n + 1] ELSE g[k]]
      BY <1>6, <2>2, <3>3
    <3> QED
      BY <3>2, <3>4, <3>5
  <2> QED
    BY <1>1, <1>9, <2>3
<1> QED
  BY <1>8, <1>9

LEMMA GoodOfNone == ASSUME NEW rows \in Seq(Row) PROVE Good(SubSeq(rows, 1, 0)) = <<>>
<1>1. PICK t : t = SubSeq(rows, 1, 0)
  OBVIOUS
<1>2. {i \in DOMAIN t : Kind[t[i]] = "good"} = {}
  BY <1>1
<1>3. Good(t) = [k \in 1..0 |-> t[Nth({}, k)]]
  BY <1>2, FS_EmptySet DEF Good
<1> QED
  BY <1>1, <1>3

\* A first part of a data set that has not reached the cap before is the whole
\* prefix as soon as it does, or as soon as there are no more rows.
LEMMA PrefixIs ==
    ASSUME NEW rows \in Seq(Row), NEW cap \in Nat, NEW n \in Nat, n <= Len(rows),
           cap # 0 => \A m \in 0..n : m # n => Len(Good(SubSeq(rows, 1, m))) < cap,
           \/ cap # 0 /\ Len(Good(SubSeq(rows, 1, n))) = cap
           \/ n = Len(rows) /\ (cap # 0 => Len(Good(SubSeq(rows, 1, n))) < cap)
    PROVE  SubSeq(rows, 1, n) = Prefix(rows, cap)
<1> DEFINE Has(m) == Len(Good(SubSeq(rows, 1, m)))
<1>1. PICK full : full = {m \in 0..Len(rows) : cap # 0 /\ Has(m) = cap}
  OBVIOUS
<1>2. Prefix(rows, cap) = IF full = {} THEN rows
            ELSE SubSeq(rows, 1, CHOOSE m \in full : \A k \in full : m <= k)
  BY <1>1 DEF Prefix
<1>3. CASE cap # 0 /\ Has(n) = cap
  <2>1. n \in full
    BY <1>1, <1>3
  <2>2. \A m \in full : n <= m
    <3> SUFFICES ASSUME NEW m \in full, m < n PROVE FALSE
      BY <1>1
    <3>1. m \in 0..n /\ m # n /\ Has(m) = cap /\ cap # 0
      BY <1>1
    <3>2. Has(m) < cap
      BY <3>1
    <3> QED
      BY <3>1, <3>2
  <2>3. (CHOOSE m \in full : \A k \in full : m <= k) = n
    <3> HIDE DEF Has
    <3>1. PICK x : x = CHOOSE m \in full : \A k \in full : m <= k
      OBVIOUS
    <3>2. x \in full /\ \A k \in full : x <= k
      BY <2>1, <2>2, <3>1
    <3>3. x \in Nat /\ x <= n /\ n <= x
      BY <1>1, <2>1, <2>2, <3>2
    <3> QED
      BY <3>1, <3>3
  <2> QED
    BY <1>2, <2>1, <2>3
<1>4. CASE ~(cap # 0 /\ Has(n) = cap)
  <2>1. n = Len(rows) /\ (cap # 0 => Has(n) < cap)
    BY <1>4
  <2>2. full = {}
    <3> SUFFICES ASSUME NEW m \in full PROVE FALSE
      OBVIOUS
    <3>1. m \in 0..n /\ cap # 0 /\ Has(m) = cap
      BY <1>1, <2>1
    <3>2. Has(m) < cap
      BY <2>1, <3>1
    <3> QED
      BY <3>1, <3>2
  <2>3. SubSeq(rows, 1, Len(rows)) = rows
    OBVIOUS
  <2> QED
    BY <1>2, <2>1, <2>2, <2>3
<1> QED
  BY <1>3, <1>4

-----------------------------------------------------------------------------
(***************************************************************************)
(* What load_source returns                                                *)
(***************************************************************************)
Extracting == {"rows", "enough?", "data", "data!", "manifest", "manifest!"}
Kept == {"data", "data!", "manifest", "manifest!"}

\* The defaults an entry of the cache may have been made with.
Makers == {b[3] : b \in Before} \union {config[q] : q \in Run}

IsManifestOf(m, k, d) ==
    /\ Yields(k[1], k[2], d)
    /\ m = [sha |-> Extraction(k[1], k[2], d).records,
            stats |-> Extraction(k[1], k[2], d).stats]

Typed ==
    /\ data = [k \in Key |-> data[k]]
    /\ manifest = [k \in Key |-> manifest[k]]
    /\ seed \in [Run -> Seed] /\ config \in [Run -> Defaults]
    /\ pc \in [Run -> Steps]
    /\ at \in [Run -> 1..Len(Order)]
    /\ held = [r \in Run |-> held[r]]
    /\ work \in [Run -> [records : Seq(Row), rows : Nat, empty : Nat]]
    /\ got = [r \in Run |-> got[r]] /\ \A r \in Run : got[r] = [s \in Source |-> got[r][s]]
    /\ loaded = [r \in Run |-> loaded[r]]

\* The cache: a manifest that can be read describes one whole extraction.
Entries ==
    \A k \in Key : manifest[k] \notin {None, Garbage} =>
        \E d \in Makers : IsManifestOf(manifest[k], k, d)

\* The extraction of a run, so far: it has counted the rows it has read, has
\* kept the good ones, and has met no bad one.
Counted(r) ==
    LET w == work[r] IN
    /\ w.rows <= Len(Rows(r))
    /\ w.records = Good(SubSeq(Rows(r), 1, w.rows))
    /\ w.empty = w.rows - Len(w.records)
    /\ \A i \in 1..w.rows : Kind[Rows(r)[i]] # "bad"

\* What a run has read agrees with the step it is at.
Works(r) ==
    /\ pc[r] \in {"enter", "data?", "manifest?", "load"} => work[r] = Nothing
    /\ pc[r] \in Extracting => Counted(r)
    /\ pc[r] = "rows" /\ Cap(r) # 0 =>
          \A n \in 0..work[r].rows : Len(Good(SubSeq(Rows(r), 1, n))) < Cap(r)
    /\ pc[r] \in Extracting \ {"rows"} =>
          SubSeq(Rows(r), 1, work[r].rows) = Prefix(Rows(r), Cap(r))
    /\ pc[r] \in Kept => Len(work[r].records) >= Least(r)

\* A run goes through the sources in order: it has answers for those behind it
\* only, and has read the dataset of no source ahead.
InOrder(r) ==
    /\ loaded[r] \subseteq {Order[i] : i \in 1..at[r]}
    /\ pc[r] \in {"enter", "data?", "manifest?", "load"} => Current(r) \notin loaded[r]
    /\ pc[r] # "built" => \A i \in at[r]..Len(Order) : got[r][Order[i]] = None

Answered(r) ==
    \A s \in Source : got[r][s] # None =>
        \E d \in IF s \in loaded[r] THEN {config[r]} ELSE Makers :
            Yields(s, seed[r], d) /\ got[r][s] = Extraction(s, seed[r], d)

OfRun(r) == Works(r) /\ InOrder(r) /\ Answered(r)

AInv == Typed /\ Entries /\ \A r \in Run : OfRun(r)

\* What a run works on has the types of the constants.
LEMMA TypesOfRun ==
    ASSUME Typed, NEW r \in Run
    PROVE  /\ Current(r) \in Source /\ KeyOf(r) \in Key
           /\ KeyOf(r)[1] = Current(r) /\ KeyOf(r)[2] = seed[r]
           /\ seed[r] \in Seed /\ config[r] \in Defaults
           /\ Cap(r) \in Nat /\ Least(r) \in Nat /\ Rows(r) \in Seq(Row)
<1>1. at[r] \in 1..Len(Order) /\ seed[r] \in Seed /\ config[r] \in Defaults
  BY DEF Typed
<1>2. Current(r) \in Source
  BY <1>1, OrderAssumption DEF Current
<1>3. KeyOf(r) \in Key /\ KeyOf(r)[1] = Current(r) /\ KeyOf(r)[2] = seed[r]
  BY <1>1, <1>2 DEF KeyOf, Key
<1>4. Cap(r) \in Nat /\ Least(r) \in Nat
  BY <1>1, <1>2, SourcesAssumption DEF Cap, Least
<1>5. Rows(r) \in Seq(Row)
  BY <1>1, <1>2, SourcesAssumption DEF Rows
<1> QED
  BY <1>1, <1>2, <1>3, <1>4, <1>5

LEMMA OtherRun ==
    ASSUME NEW q \in Run, OfRun(q), UNCHANGED args,
           pc'[q] = pc[q], at'[q] = at[q], work'[q] = work[q], got'[q] = got[q],
           loaded'[q] = loaded[q]
    PROVE  OfRun(q)'
<1>1. Works(q)'
  BY DEF OfRun, Works, Counted, Cap, Least, Rows, Current, args
<1>2. InOrder(q)'
  BY DEF OfRun, InOrder, Current
<1>3. Answered(q)'
  BY DEF OfRun, Answered, Makers, args
<1> QED
  BY <1>1, <1>2, <1>3 DEF OfRun

\* A step of one run leaves what the others have done as it is.
LEMMA StepOfOne ==
    ASSUME AInv, NEW r \in Run, UNCHANGED args, Typed', Entries', OfRun(r)',
           \A q \in Run \ {r} : /\ pc'[q] = pc[q] /\ at'[q] = at[q] /\ work'[q] = work[q]
                                /\ got'[q] = got[q] /\ loaded'[q] = loaded[q]
    PROVE  AInv'
<1>1. ASSUME NEW q \in Run \ {r} PROVE OfRun(q)'
  BY OtherRun DEF AInv
<1> QED
  BY <1>1 DEF AInv

\* The records a run keeps are an extraction of its source, and a good one.
LEMMA WorkIsExtraction ==
    ASSUME AInv, NEW r \in Run, pc[r] \in Kept
    PROVE  /\ Yields(Current(r), seed[r], config[r])
           /\ [records |-> work[r].records, stats |-> StatsOf(work[r])]
                 = Extraction(Current(r), seed[r], config[r])
<1>1. PICK rows \in Seq(Row) : rows = Rows(r)
  <2>1. Typed
    BY DEF AInv
  <2>2. Rows(r) \in Seq(Row)
    BY <2>1, TypesOfRun
  <2> QED
    BY <2>2
<1>2. /\ Works(r) /\ Counted(r) /\ work[r] \in [records : Seq(Row), rows : Nat, empty : Nat]
      /\ SubSeq(rows, 1, work[r].rows) = Prefix(rows, Cap(r))
      /\ Len(work[r].records) >= Least(r)
  BY <1>1 DEF AInv, OfRun, Works, Kept, Extracting, Typed
<1>3. PICK taken : taken = SubSeq(rows, 1, work[r].rows)
  OBVIOUS
<1>4. /\ Len(taken) = work[r].rows /\ work[r].records = Good(taken)
      /\ work[r].empty = work[r].rows - Len(work[r].records)
      /\ \A i \in 1..Len(taken) : Kind[taken[i]] # "bad"
  BY <1>1, <1>2, <1>3 DEF Counted
<1>5. /\ Stream[<<Current(r), seed[r], Setting(Current(r), config[r], "buffer")>>] = rows
      /\ Prefix(rows, Setting(Current(r), config[r], "cap")) = taken
      /\ Setting(Current(r), config[r], "least") = Least(r)
  <2>1. Stream[<<Current(r), seed[r], Setting(Current(r), config[r], "buffer")>>] = rows
    BY <1>1 DEF Rows
  <2>2. Cap(r) = Setting(Current(r), config[r], "cap")
        /\ Setting(Current(r), config[r], "least") = Least(r)
    BY DEF Cap, Least
  <2>3. Prefix(rows, Cap(r)) = taken
    BY <1>2, <1>3
  <2> QED
    BY <2>1, <2>2, <2>3
<1>6. Yields(Current(r), seed[r], config[r])
  BY <1>2, <1>4, <1>5 DEF Yields
<1>7. Extraction(Current(r), seed[r], config[r]) =
        [records |-> Good(taken),
         stats |-> [rows |-> Len(taken), empty |-> Len(taken) - Len(Good(taken)),
                    records |-> Len(Good(taken))]]
  BY <1>5 DEF Extraction
<1> QED
  BY <1>4, <1>6, <1>7 DEF StatsOf

\* load_source returns an extraction for the current source, and the run goes
\* on to the next one with nothing read.
LEMMA ReturnKeeps ==
    ASSUME AInv, NEW r \in Run, pc[r] # "built", NEW answer, Return(r, answer),
           UNCHANGED <<args, loaded>>,
           \E d \in Makers : /\ Current(r) \in loaded[r] => d = config[r]
                             /\ Yields(Current(r), seed[r], d)
                             /\ answer = Extraction(Current(r), seed[r], d),
           data' = [k \in Key |-> data'[k]], manifest' = [k \in Key |-> manifest'[k]], Entries'
    PROVE  AInv'
<1>1. Typed /\ OfRun(r) /\ at[r] \in 1..Len(Order) /\ Current(r) \in Source /\ Len(Order) \in Nat
  <2>1. Typed /\ OfRun(r) /\ at[r] \in 1..Len(Order)
    BY DEF AInv, Typed
  <2> QED
    BY <2>1, TypesOfRun, OrderAssumption
<1>2. PICK step : /\ pc' = [pc EXCEPT ![r] = step] /\ step \in {"built", "enter"}
                  /\ step = "enter" => at' = [at EXCEPT ![r] = at[r] + 1] /\ at[r] # Len(Order)
                  /\ step = "built" => at' = at
  BY DEF Return, Goto
<1>3. Typed'
  <2>1. step \in Steps
    BY <1>2 DEF Steps, Ended
  <2>2. pc' \in [Run -> Steps]
    BY <1>1, <1>2, <2>1 DEF Typed
  <2>3. at' \in [Run -> 1..Len(Order)]
    <3>1. CASE step = "built"
      BY <1>1, <1>2, <3>1 DEF Typed
    <3>2. CASE step = "enter"
      <4>1. at[r] + 1 \in 1..Len(Order)
        BY <1>1, <1>2, <3>2
      <4> QED
        BY <1>1, <1>2, <3>2, <4>1 DEF Typed
    <3> QED
      BY <1>2, <3>1, <3>2
  <2>4. work' \in [Run -> [records : Seq(Row), rows : Nat, empty : Nat]]
    <3>1. Nothing \in [records : Seq(Row), rows : Nat, empty : Nat]
      BY DEF Nothing
    <3> QED
      BY <1>1, <3>1 DEF Return, Typed
  <2>5. /\ got' = [q \in Run |-> got'[q]]
        /\ \A q \in Run : got'[q] = [s \in Source |-> got'[q][s]]
    BY <1>1 DEF Return, Typed
  <2>6. held' = [q \in Run |-> held'[q]]
    BY <1>1 DEF Return, Typed
  <2> QED
    BY <1>1, <2>2, <2>3, <2>4, <2>5, <2>6 DEF Typed, args
<1>4. pc'[r] = step /\ work'[r] = Nothing
  BY <1>1, <1>2 DEF Return, Typed
<1>5. /\ got'[r][Current(r)] = answer
      /\ \A s \in Source \ {Current(r)} : got'[r][s] = got[r][s]
  BY <1>1 DEF Return, Typed
<1>6. Works(r)'
  BY <1>2, <1>4 DEF Works, Extracting, Kept
<1>7. InOrder(r)'
  <2>1. CASE step = "built"
    BY <1>1, <1>2, <1>4, <2>1 DEF OfRun, InOrder
  <2>2. CASE step = "enter"
    <3>1. at'[r] = at[r] + 1 /\ at[r] + 1 \in 1..Len(Order)
      BY <1>1, <1>2, <2>2 DEF Typed
    <3>2. loaded[r] \subseteq {Order[i] : i \in 1..at[r]}
      BY <1>1 DEF OfRun, InOrder
    <3>3. {Order[i] : i \in 1..at[r]} \subseteq {Order[i] : i \in 1..at'[r]}
      BY <1>1, <3>1
    <3>4. Order[at[r] + 1] \notin {Order[i] : i \in 1..at[r]}
      <4> SUFFICES ASSUME NEW i \in 1..at[r], Order[i] = Order[at[r] + 1] PROVE FALSE
        OBVIOUS
      <4>1. i \in 1..Len(Order) /\ i # at[r] + 1
        BY <1>1
      <4> QED
        BY <3>1, <4>1, OrderInjective
    <3>5. ASSUME NEW i \in (at[r] + 1)..Len(Order) PROVE got'[r][Order[i]] = None
      <4>1. i \in 1..Len(Order) /\ i # at[r] /\ i \in at[r]..Len(Order)
        BY <1>1, <3>1
      <4>2. Order[i] # Order[at[r]] /\ Order[i] \in Source
        BY <1>1, <4>1, OrderInjective, OrderAssumption
      <4>3. got[r][Order[i]] = None
        BY <1>1, <4>1 DEF OfRun, InOrder
      <4> QED
        BY <1>5, <4>2, <4>3 DEF Current
    <3> QED
      BY <1>4, <3>1, <3>2, <3>3, <3>4, <3>5 DEF InOrder, Current
  <2> QED
    BY <1>2, <2>1, <2>2
<1>8. Answered(r)'
  BY <1>1, <1>5 DEF OfRun, Answered, Makers, args
<1>9. \A q \in Run \ {r} : /\ pc'[q] = pc[q] /\ at'[q] = at[q] /\ work'[q] = work[q]
                           /\ got'[q] = got[q] /\ loaded'[q] = loaded[q]
  BY <1>1, <1>2 DEF Return, Typed
<1> QED
  BY <1>3, <1>6, <1>7, <1>8, <1>9, StepOfOne DEF OfRun

\* A step that changes nothing of its run but its place, and leaves the
\* manifests alone.
LEMMA StepKeeps ==
    ASSUME AInv, NEW r \in Run, NEW step \in Steps, pc' = [pc EXCEPT ![r] = step],
           data' = [k \in Key |-> data'[k]], held' = [q \in Run |-> held'[q]],
           UNCHANGED <<manifest, args, at, work, got, loaded>>,
           \/ step \in Ended /\ pc[r] # "built"
           \/ pc[r] \in {"enter", "data?", "manifest?"} /\ step \in {"data?", "manifest?", "load"}
           \/ pc[r] = "enough?" /\ step = "data" /\ Len(work[r].records) >= Least(r)
           \/ pc[r] \in Kept /\ step \in Kept
    PROVE  AInv'
<1>1. Typed /\ OfRun(r) /\ pc'[r] = step /\ at[r] \in 1..Len(Order)
  BY DEF AInv, Typed
<1>2. Typed'
  <2>1. pc' \in [Run -> Steps]
    BY <1>1 DEF Typed
  <2> QED
    BY <1>1, <2>1 DEF Typed, args
<1>3. Entries'
  BY DEF AInv, Entries, Makers, args
<1>4. Works(r)'
  <2>1. Works(r)
    BY <1>1 DEF OfRun
  <2>2. Counted(r) => Counted(r)'
    BY DEF Counted, Rows, Current, args
  <2>3. Cap(r)' = Cap(r) /\ Least(r)' = Least(r) /\ Rows(r)' = Rows(r) /\ work' = work
    BY DEF Cap, Least, Rows, Current, args
  <2>4. CASE step \in Ended
    BY <1>1, <2>4 DEF Works, Extracting, Kept, Ended
  <2>5. CASE step \in {"data?", "manifest?", "load"} /\ pc[r] \in {"enter", "data?", "manifest?"}
    BY <1>1, <2>1, <2>3, <2>5 DEF Works, Extracting, Kept
  <2>6. CASE step = "data" /\ pc[r] = "enough?" /\ Len(work[r].records) >= Least(r)
    BY <1>1, <2>1, <2>2, <2>3, <2>6 DEF Works, Extracting, Kept
  <2>7. CASE step \in Kept /\ pc[r] \in Kept
    BY <1>1, <2>1, <2>2, <2>3, <2>7 DEF Works, Extracting, Kept
  <2> QED
    BY <2>4, <2>5, <2>6, <2>7
<1>5. InOrder(r)'
  BY <1>1 DEF OfRun, InOrder, Current, Kept, Ended
<1>6. Answered(r)'
  BY <1>1 DEF OfRun, Answered, Makers, args
<1>7. \A q \in Run \ {r} : pc'[q] = pc[q]
  BY <1>1 DEF Typed
<1> QED
  BY <1>2, <1>3, <1>4, <1>5, <1>6, <1>7, StepOfOne DEF OfRun

LEMMA LoadKeeps == ASSUME AInv, NEW r \in Run, Load(r) PROVE AInv'
<1>1. Typed /\ OfRun(r) /\ at[r] \in 1..Len(Order) /\ Current(r) \in Source
      /\ pc[r] = "load" /\ pc'[r] = "rows" /\ work[r] = Nothing
      /\ loaded'[r] = loaded[r] \union {Current(r)}
      /\ UNCHANGED <<cache, args, at, held, work, got>>
  BY TypesOfRun DEF AInv, Typed, Load, Goto, OfRun, Works
<1>2. Typed'
  <2>1. pc' \in [Run -> Steps]
    BY <1>1 DEF Typed, Load, Goto, Steps
  <2>2. loaded' = [q \in Run |-> loaded'[q]]
    BY <1>1 DEF Typed, Load
  <2> QED
    BY <1>1, <2>1, <2>2 DEF Typed, args, cache
<1>3. Entries'
  BY <1>1 DEF AInv, Entries, Makers, args, cache
<1>4. Works(r)'
  <2>1. PICK rows \in Seq(Row) : rows = Rows(r)
    <3>1. Rows(r) \in Seq(Row)
      BY <1>1, TypesOfRun
    <3> QED
      BY <3>1
  <2>2. Rows(r)' = rows /\ work'[r] = Nothing /\ Cap(r)' = Cap(r) /\ Cap(r) \in Nat
    BY <1>1, <2>1, TypesOfRun DEF Rows, Cap, Current, args
  <2>3. Good(SubSeq(rows, 1, 0)) = <<>>
    BY GoodOfNone
  <2>4. Counted(r)'
    BY <2>2, <2>3 DEF Counted, Nothing
  <2>5. Cap(r) # 0 => \A n \in 0..0 : Len(Good(SubSeq(rows, 1, n))) < Cap(r)
    <3>1. \A n \in 0..0 : n = 0
      OBVIOUS
    <3> QED
      BY <2>2, <2>3, <3>1
  <2>6. work'[r].rows = 0
    BY <2>2 DEF Nothing
  <2> QED
    BY <1>1, <2>2, <2>4, <2>5, <2>6 DEF Works, Extracting, Kept
<1>5. InOrder(r)'
  <2>1. Current(r) = Order[at[r]] /\ at[r] \in 1..at[r]
    BY <1>1, OrderAssumption DEF Current
  <2>2. \A i \in at[r]..Len(Order) : got[r][Order[i]] = None
    BY <1>1 DEF OfRun, InOrder
  <2>3. loaded[r] \subseteq {Order[i] : i \in 1..at[r]}
    BY <1>1 DEF OfRun, InOrder
  <2> QED
    BY <1>1, <2>1, <2>2, <2>3 DEF InOrder
<1>6. Answered(r)'
  <2>1. got[r][Current(r)] = None
    <3>1. at[r] \in at[r]..Len(Order)
      BY <1>1, OrderAssumption
    <3> QED
      BY <1>1, <3>1 DEF OfRun, InOrder, Current
  <2>2. Answered(r) /\ Makers' = Makers
    BY <1>1 DEF OfRun, Makers, args
  <2> QED
    BY <1>1, <2>1, <2>2 DEF Answered, args
<1>7. \A q \in Run \ {r} : pc'[q] = pc[q] /\ loaded'[q] = loaded[q]
  BY <1>1 DEF Typed, Load, Goto
<1> QED
  BY <1>1, <1>2, <1>3, <1>4, <1>5, <1>6, <1>7, StepOfOne DEF OfRun

LEMMA EndOfRowsKeeps == ASSUME AInv, NEW r \in Run, EndOfRows(r) PROVE AInv'
<1>1. Typed /\ OfRun(r) /\ pc[r] = "rows" /\ pc' = [pc EXCEPT ![r] = "enough?"]
      /\ work[r].rows = Len(Rows(r)) /\ UNCHANGED <<cache, args, at, held, work, got, loaded>>
  BY DEF AInv, EndOfRows, Goto
<1>2. pc'[r] = "enough?"
  BY <1>1 DEF Typed
<1>3. Typed' /\ Entries'
  <2>1. pc' \in [Run -> Steps]
    BY <1>1 DEF Typed, Steps
  <2>2. Typed'
    BY <1>1, <2>1 DEF Typed, args, cache
  <2>3. Entries'
    BY <1>1 DEF AInv, Entries, Makers, args, cache
  <2> QED
    BY <2>2, <2>3
<1>4. Works(r)'
  <2>1. PICK rows \in Seq(Row) : rows = Rows(r)
    <3>1. Rows(r) \in Seq(Row)
      BY <1>1, TypesOfRun
    <3> QED
      BY <3>1
  <2>2. Rows(r)' = rows /\ work' = work /\ Cap(r)' = Cap(r) /\ Cap(r) \in Nat /\ Len(rows) \in Nat
    <3>1. Cap(r) \in Nat /\ Len(rows) \in Nat
      BY <1>1, TypesOfRun
    <3> QED
      BY <1>1, <2>1, <3>1 DEF Rows, Cap, Current, args
  <2>3. Works(r) /\ Counted(r)
    BY <1>1 DEF OfRun, Works, Extracting
  <2>4. Counted(r)'
    BY <2>1, <2>2, <2>3 DEF Counted
  <2>5. Cap(r) # 0 => \A n \in 0..Len(rows) : Len(Good(SubSeq(rows, 1, n))) < Cap(r)
    BY <1>1, <2>1, <2>3 DEF Works
  <2>6. SubSeq(rows, 1, Len(rows)) = Prefix(rows, Cap(r))
    <3>1. PICK cap \in Nat, n \in Nat : cap = Cap(r) /\ n = Len(rows)
      BY <2>2
    <3>2. /\ n <= Len(rows)
          /\ cap # 0 => \A m \in 0..n : m # n => Len(Good(SubSeq(rows, 1, m))) < cap
          /\ cap # 0 => Len(Good(SubSeq(rows, 1, n))) < cap
      BY <2>5, <3>1
    <3>3. SubSeq(rows, 1, n) = Prefix(rows, cap)
      BY <3>1, <3>2, PrefixIs
    <3> QED
      BY <3>1, <3>3
  <2> QED
    BY <1>1, <1>2, <2>1, <2>2, <2>4, <2>6 DEF Works, Extracting, Kept
<1>5. InOrder(r)'
  BY <1>1, <1>2 DEF OfRun, InOrder, Current
<1>6. Answered(r)'
  BY <1>1 DEF OfRun, Answered, Makers, args
<1>7. \A q \in Run \ {r} : pc'[q] = pc[q]
  BY <1>1 DEF Typed
<1> QED
  BY <1>1, <1>3, <1>4, <1>5, <1>6, <1>7, StepOfOne DEF OfRun

LEMMA ReadRowKeeps == ASSUME AInv, NEW r \in Run, ReadRow(r) PROVE AInv'
<1>1. Typed /\ OfRun(r) /\ pc[r] = "rows" /\ Works(r) /\ Counted(r)
      /\ work[r] \in [records : Seq(Row), rows : Nat, empty : Nat]
      /\ UNCHANGED <<cache, args, at, held, got, loaded>>
  BY DEF AInv, Typed, ReadRow, OfRun, Works, Extracting
<1>2. PICK rows \in Seq(Row), n \in Nat, cap \in Nat, records \in Seq(Row) :
         rows = Rows(r) /\ n = work[r].rows /\ cap = Cap(r) /\ records = work[r].records
  <2>1. Rows(r) \in Seq(Row) /\ Cap(r) \in Nat
    BY <1>1, TypesOfRun
  <2>2. work[r].rows \in Nat /\ work[r].records \in Seq(Row)
    BY <1>1
  <2> QED
    BY <2>1, <2>2
<1>3. /\ n < Len(rows) /\ records = Good(SubSeq(rows, 1, n)) /\ Len(records) \in Nat
      /\ work[r].empty = n - Len(records) /\ work[r].empty \in Nat
      /\ \A i \in 1..n : Kind[rows[i]] # "bad"
      /\ cap # 0 => \A m \in 0..n : Len(Good(SubSeq(rows, 1, m))) < cap
  BY <1>1, <1>2 DEF ReadRow, Counted, Works
<1>4. Rows(r)' = rows /\ Cap(r)' = cap /\ Least(r)' = Least(r)
  BY <1>1, <1>2 DEF Rows, Cap, Least, Current, args
<1>5. rows[n + 1] \in Row
  BY <1>3
<1>6. PICK step \in {"rows", "enough?", "failed"},
           w \in [records : Seq(Row), rows : Nat, empty : Nat] :
         /\ pc' = [pc EXCEPT ![r] = step] /\ work' = [work EXCEPT ![r] = w]
         /\ \/ step = "failed"
            \/ /\ Kind[rows[n + 1]] = "good"
               /\ w = [records |-> Append(records, rows[n + 1]), rows |-> n + 1,
                       empty |-> work[r].empty]
               /\ step = IF cap # 0 /\ Len(records) + 1 >= cap THEN "enough?" ELSE "rows"
            \/ /\ Kind[rows[n + 1]] = "empty" /\ step = "rows"
               /\ w = [records |-> records, rows |-> n + 1, empty |-> work[r].empty + 1]
  <2>1. CASE Kind[rows[n + 1]] = "good"
    <3>1. work' = [work EXCEPT ![r] = [records |-> Append(records, rows[n + 1]), rows |-> n + 1,
                       empty |-> work[r].empty]]
      BY <1>1, <1>2, <2>1 DEF ReadRow, Typed
    <3>2. pc' = [pc EXCEPT ![r] = IF cap # 0 /\ Len(records) + 1 >= cap THEN "enough?" ELSE "rows"]
      BY <1>2, <2>1 DEF ReadRow, Goto
    <3>3. PICK w \in [records : Seq(Row), rows : Nat, empty : Nat] :
             w = [records |-> Append(records, rows[n + 1]), rows |-> n + 1,
                  empty |-> work[r].empty]
      <4>1. Append(records, rows[n + 1]) \in Seq(Row) /\ n + 1 \in Nat /\ work[r].empty \in Nat
        BY <1>3, <1>5
      <4>2. [records |-> Append(records, rows[n + 1]), rows |-> n + 1, empty |-> work[r].empty]
              \in [records : Seq(Row), rows : Nat, empty : Nat]
        BY <4>1
      <4> QED
        BY <4>2
    <3>4. PICK step \in {"rows", "enough?", "failed"} :
             step = IF cap # 0 /\ Len(records) + 1 >= cap THEN "enough?" ELSE "rows"
      OBVIOUS
    <3>5. work' = [work EXCEPT ![r] = w] /\ pc' = [pc EXCEPT ![r] = step]
      BY <3>1, <3>2, <3>3, <3>4
    <3> QED
      BY <2>1, <3>3, <3>4, <3>5
  <2>2. CASE Kind[rows[n + 1]] = "empty"
    <3>1. work' = [work EXCEPT ![r] = [records |-> records, rows |-> n + 1,
                       empty |-> work[r].empty + 1]]
      BY <1>1, <1>2, <2>2 DEF ReadRow, Typed
    <3>2. pc' = [pc EXCEPT ![r] = "rows"]
      BY <1>1, <1>2, <2>2 DEF ReadRow, Typed
    <3>3. PICK w \in [records : Seq(Row), rows : Nat, empty : Nat] :
             w = [records |-> records, rows |-> n + 1, empty |-> work[r].empty + 1]
      <4>1. n + 1 \in Nat /\ work[r].empty + 1 \in Nat
        BY <1>3
      <4>2. [records |-> records, rows |-> n + 1, empty |-> work[r].empty + 1]
              \in [records : Seq(Row), rows : Nat, empty : Nat]
        BY <4>1
      <4> QED
        BY <4>2
    <3>4. PICK step \in {"rows", "enough?", "failed"} : step = "rows"
      OBVIOUS
    <3>5. work' = [work EXCEPT ![r] = w] /\ pc' = [pc EXCEPT ![r] = step]
      BY <3>1, <3>2, <3>3, <3>4
    <3> QED
      BY <2>2, <3>3, <3>4, <3>5
  <2>3. CASE Kind[rows[n + 1]] \notin {"good", "empty"}
    <3>1. pc' = [pc EXCEPT ![r] = "failed"] /\ work' = work
      BY <1>2, <2>3 DEF ReadRow, Goto
    <3>2. work = [work EXCEPT ![r] = work[r]]
      BY <1>1 DEF Typed
    <3> QED
      BY <1>1, <3>1, <3>2
  <2> QED
    BY <2>1, <2>2, <2>3
<1>7. pc'[r] = step /\ work'[r] = w
  BY <1>1, <1>6 DEF Typed
<1>8. Typed' /\ Entries'
  <2>1. pc' \in [Run -> Steps] /\ work' \in [Run -> [records : Seq(Row), rows : Nat, empty : Nat]]
    BY <1>1, <1>6 DEF Typed, Steps, Ended
  <2>2. Typed'
    BY <1>1, <2>1 DEF Typed, args, cache
  <2>3. Entries'
    BY <1>1 DEF AInv, Entries, Makers, args, cache
  <2> QED
    BY <2>2, <2>3
<1>9. Works(r)'
  <2>1. CASE step = "failed"
    BY <1>7, <2>1 DEF Works, Extracting, Kept
  <2>2. CASE step # "failed"
    <3>1. w.rows = n + 1 /\ w.records = Good(SubSeq(rows, 1, n + 1))
          /\ w.empty = n + 1 - Len(w.records) /\ Kind[rows[n + 1]] # "bad"
          /\ Len(w.records) <= Len(records) + 1
      <4>1. Good(SubSeq(rows, 1, n + 1)) =
               IF Kind[rows[n + 1]] = "good" THEN Append(Good(SubSeq(rows, 1, n)), rows[n + 1])
               ELSE Good(SubSeq(rows, 1, n))
        BY <1>3, GoodStep
      <4>2. Len(Append(records, rows[n + 1])) = Len(records) + 1
        BY <1>5
      <4>3. CASE Kind[rows[n + 1]] = "good"
        <5>1. w.rows = n + 1 /\ w.records = Append(records, rows[n + 1])
              /\ w.empty = work[r].empty
          BY <1>6, <2>2, <4>3
        <5> QED
          BY <1>3, <4>1, <4>2, <4>3, <5>1
      <4>4. CASE Kind[rows[n + 1]] # "good"
        <5>1. w.rows = n + 1 /\ w.records = records /\ w.empty = work[r].empty + 1
              /\ Kind[rows[n + 1]] = "empty"
          BY <1>6, <2>2, <4>4
        <5> QED
          BY <1>3, <4>1, <4>4, <5>1
      <4> QED
        BY <4>3, <4>4
    <3>2. Counted(r)'
      <4>1. ASSUME NEW i \in 1..(n + 1) PROVE Kind[rows[i]] # "bad"
        <5>1. CASE i = n + 1
          BY <3>1, <5>1
        <5>2. CASE i # n + 1
          <6>1. i \in 1..n
            BY <5>2
          <6> QED
            BY <1>3, <6>1
        <5> QED
          BY <5>1, <5>2
      <4>2. n + 1 <= Len(rows)
        BY <1>3
      <4>3. PICK m \in Nat : m = n + 1
        OBVIOUS
      <4>4. /\ w.rows = m /\ m <= Len(rows) /\ w.records = Good(SubSeq(rows, 1, m))
            /\ w.empty = m - Len(w.records) /\ \A i \in 1..m : Kind[rows[i]] # "bad"
        BY <3>1, <4>1, <4>2, <4>3
      <4> QED
        BY <1>4, <1>7, <4>4 DEF Counted
    <3>3. step = "rows" /\ cap # 0 =>
             \A m \in 0..(n + 1) : Len(Good(SubSeq(rows, 1, m))) < cap
      <4> SUFFICES ASSUME step = "rows", cap # 0, NEW m \in 0..(n + 1)
                   PROVE  Len(Good(SubSeq(rows, 1, m))) < cap
        OBVIOUS
      <4>1. CASE m \in 0..n
        BY <1>3, <4>1
      <4>2. CASE m = n + 1
        <5>1. Len(w.records) < cap
          <6>1. Len(records) < cap
            BY <1>3
          <6>2. CASE Kind[rows[n + 1]] = "good"
            <7>1. Len(w.records) = Len(records) + 1
              BY <1>5, <1>6, <2>2, <6>2
            <7> QED
              BY <1>3, <1>6, <2>2, <6>2, <7>1
          <6>3. CASE Kind[rows[n + 1]] # "good"
            BY <1>6, <2>2, <6>1, <6>3
          <6> QED
            BY <6>2, <6>3
        <5> QED
          BY <3>1, <4>2, <5>1
      <4> QED
        BY <4>1, <4>2
    <3>4. step = "enough?" => SubSeq(rows, 1, n + 1) = Prefix(rows, cap)
      <4> SUFFICES ASSUME step = "enough?" PROVE SubSeq(rows, 1, n + 1) = Prefix(rows, cap)
        OBVIOUS
      <4>1. PICK m \in Nat : m = n + 1
        OBVIOUS
      <4>2. cap # 0 /\ Len(w.records) = Len(records) + 1 /\ Len(records) + 1 >= cap
        BY <1>3, <1>5, <1>6
      <4>3. Len(records) < cap
        BY <1>3, <4>2
      <4>4. Len(Good(SubSeq(rows, 1, m))) = cap
        BY <1>3, <3>1, <4>1, <4>2, <4>3
      <4>5. m <= Len(rows) /\ \A k \in 0..m : k # m => Len(Good(SubSeq(rows, 1, k))) < cap
        BY <1>3, <4>1, <4>2
      <4>6. SubSeq(rows, 1, m) = Prefix(rows, cap)
        BY <4>2, <4>4, <4>5, PrefixIs
      <4> QED
        BY <4>1, <4>6
    <3> QED
      BY <1>4, <1>6, <1>7, <2>2, <3>1, <3>2, <3>3, <3>4 DEF Works, Extracting, Kept
  <2> QED
    BY <2>1, <2>2
<1>10. InOrder(r)'
  BY <1>1, <1>6, <1>7 DEF OfRun, InOrder, Current
<1>11. Answered(r)'
  BY <1>1 DEF OfRun, Answered, Makers, args
<1>12. \A q \in Run \ {r} : pc'[q] = pc[q] /\ work'[q] = work[q]
  BY <1>1, <1>6 DEF Typed
<1> QED
  BY <1>1, <1>8, <1>9, <1>10, <1>11, <1>12, StepOfOne DEF OfRun

\* The sources, seed and makers of a step are those of the state before it.
LEMMA EntriesKeep ==
    ASSUME AInv, UNCHANGED args,
           \A k \in Key : \/ manifest'[k] = manifest[k] \/ manifest'[k] = Garbage
                          \/ \E d \in Makers : IsManifestOf(manifest'[k], k, d)
    PROVE  Entries'
<1>1. Makers' = Makers
  BY DEF Makers, args
<1>2. ASSUME NEW k \in Key, manifest'[k] \notin {None, Garbage}
      PROVE  \E d \in Makers : IsManifestOf(manifest'[k], k, d)
  BY <1>2 DEF AInv, Entries
<1>3. \A k \in Key, d \in Makers : IsManifestOf(manifest[k], k, d)' = IsManifestOf(manifest'[k], k, d)
  BY DEF IsManifestOf
<1> QED
  BY <1>1, <1>2, <1>3 DEF Entries

LEMMA HitKeeps == ASSUME AInv, NEW r \in Run, Hit(r) PROVE AInv'
<1>1. Typed /\ Entries /\ OfRun(r) /\ pc[r] = "manifest?" /\ KeyOf(r) \in Key
      /\ KeyOf(r)[1] = Current(r) /\ KeyOf(r)[2] = seed[r] /\ Current(r) \notin loaded[r]
  BY TypesOfRun DEF AInv, Hit, OfRun, InOrder
<1>2. PICK m : m = manifest[KeyOf(r)]
  OBVIOUS
<1>3. m \notin {None, Garbage} /\ m.sha = held[r]
      /\ Return(r, [records |-> held[r], stats |-> m.stats])
      /\ UNCHANGED <<cache, args, loaded>>
  BY <1>2 DEF Hit, Matches
<1>4. PICK d \in Makers : IsManifestOf(m, KeyOf(r), d)
  BY <1>1, <1>2, <1>3 DEF Entries
<1>5. PICK x : x = Extraction(Current(r), seed[r], d)
  OBVIOUS
<1>6. Yields(Current(r), seed[r], d) /\ m = [sha |-> x.records, stats |-> x.stats]
  BY <1>1, <1>4, <1>5 DEF IsManifestOf
<1>7. x = [records |-> x.records, stats |-> x.stats]
  BY <1>5 DEF Extraction
<1>8. [records |-> held[r], stats |-> m.stats] = x
  BY <1>3, <1>6, <1>7
<1>9. Entries' /\ data' = [k \in Key |-> data'[k]] /\ manifest' = [k \in Key |-> manifest'[k]]
  <2>1. Entries'
    BY <1>3, EntriesKeep DEF cache
  <2> QED
    BY <1>1, <1>3, <2>1 DEF cache, Typed
<1>10. Return(r, x) /\ pc[r] # "built"
  BY <1>1, <1>3, <1>8
<1>11. Current(r) \in loaded[r] => d = config[r]
  BY <1>1
<1> QED
  BY <1>3, <1>5, <1>6, <1>9, <1>10, <1>11, ReturnKeeps

LEMMA SwapManifestKeeps == ASSUME AInv, NEW r \in Run, SwapManifest(r) PROVE AInv'
<1>1. Typed /\ pc[r] = "manifest!" /\ KeyOf(r) \in Key
      /\ KeyOf(r)[1] = Current(r) /\ KeyOf(r)[2] = seed[r]
      /\ UNCHANGED <<data, args, loaded>>
  BY TypesOfRun DEF AInv, SwapManifest
<1>2. PICK x, w : /\ x = Extraction(Current(r), seed[r], config[r])
                  /\ w = [records |-> work[r].records, stats |-> StatsOf(work[r])]
  OBVIOUS
<1>3. Yields(Current(r), seed[r], config[r]) /\ w = x
  BY <1>1, <1>2, WorkIsExtraction DEF Kept
<1>4. Return(r, x)
  BY <1>2, <1>3 DEF SwapManifest
<1>5. manifest' = [manifest EXCEPT ![KeyOf(r)] = [sha |-> x.records, stats |-> x.stats]]
  <2>1. x.records = work[r].records /\ x.stats = StatsOf(work[r])
    BY <1>2, <1>3
  <2> QED
    BY <2>1 DEF SwapManifest
<1>6. config[r] \in Makers
  BY DEF Makers
<1>7. Entries'
  <2>1. ASSUME NEW k \in Key
        PROVE  \/ manifest'[k] = manifest[k]
               \/ \E d \in Makers : IsManifestOf(manifest'[k], k, d)
    <3>1. CASE k = KeyOf(r)
      <4>1. manifest'[k] = [sha |-> x.records, stats |-> x.stats]
        BY <1>1, <1>5, <3>1 DEF Typed
      <4>2. IsManifestOf(manifest'[k], k, config[r])
        BY <1>1, <1>2, <1>3, <3>1, <4>1 DEF IsManifestOf
      <4> QED
        BY <1>6, <4>2
    <3>2. CASE k # KeyOf(r)
      BY <1>1, <1>5, <3>2 DEF Typed
    <3> QED
      BY <3>1, <3>2
  <2> QED
    BY <1>1, <2>1, EntriesKeep
<1>8. data' = [k \in Key |-> data'[k]] /\ manifest' = [k \in Key |-> manifest'[k]]
  BY <1>1, <1>5 DEF Typed
<1> QED
  BY <1>1, <1>2, <1>3, <1>4, <1>6, <1>7, <1>8, ReturnKeeps

LEMMA AnswersInductive == AInv /\ [Next]_vars => AInv'
<1> SUFFICES ASSUME AInv, [Next]_vars PROVE AInv'
  OBVIOUS
<1>0. Typed
  BY DEF AInv
<1>1. ASSUME NEW r \in Run, Lookup(r) PROVE AInv'
  <2>1. CASE Enter(r)
    <3>1. PICK step \in {"failed", "data?"} : pc' = [pc EXCEPT ![r] = step]
      BY <2>1 DEF Enter, Goto
    <3> QED
      BY <1>0, <2>1, <3>1, StepKeeps DEF Enter, Steps, Ended, cache, Typed
  <2>2. CASE ReadData(r)
    <3>1. PICK step \in {"load", "manifest?"} : pc' = [pc EXCEPT ![r] = step]
      BY <2>2 DEF ReadData, Goto
    <3> QED
      BY <1>0, <2>2, <3>1, StepKeeps DEF ReadData, Steps, Ended, cache, Typed
  <2>3. CASE Hit(r)
    BY <2>3, HitKeeps
  <2>4. CASE Miss(r)
    <3>1. PICK step \in {"load"} : pc' = [pc EXCEPT ![r] = step]
      BY <2>4 DEF Miss, Goto
    <3> QED
      BY <1>0, <2>4, <3>1, StepKeeps DEF Miss, Steps, Ended, cache, Typed
  <2> QED
    BY <1>1, <2>1, <2>2, <2>3, <2>4 DEF Lookup
<1>2. ASSUME NEW r \in Run, Extract(r) PROVE AInv'
  <2>1. CASE LoadFails(r) \/ RowsFail(r)
    <3>1. PICK step \in {"failed"} : pc' = [pc EXCEPT ![r] = step]
      BY <2>1 DEF LoadFails, RowsFail, Goto
    <3> QED
      BY <1>0, <2>1, <3>1, StepKeeps DEF LoadFails, RowsFail, Steps, Ended, cache, Typed
  <2>2. CASE CheckMinimum(r)
    <3>1. PICK step \in {"failed", "data"} :
             /\ pc' = [pc EXCEPT ![r] = step]
             /\ step = "data" => ~(Len(work[r].records) < Least(r))
      BY <2>2 DEF CheckMinimum, Goto
    <3>2. Len(work[r].records) \in Nat /\ Least(r) \in Nat
      <4>1. work[r].records \in Seq(Row)
        BY <1>0 DEF Typed
      <4> QED
        BY <1>0, <4>1, TypesOfRun
    <3>3. \/ step \in Ended /\ pc[r] # "built"
          \/ pc[r] = "enough?" /\ step = "data" /\ Len(work[r].records) >= Least(r)
      BY <2>2, <3>1, <3>2 DEF CheckMinimum, Ended
    <3> QED
      BY <1>0, <2>2, <3>1, <3>3, StepKeeps DEF CheckMinimum, Steps, Ended, cache, Typed
  <2> QED
    BY <1>2, <2>1, <2>2, LoadKeeps, ReadRowKeeps, EndOfRowsKeeps DEF Extract
<1>3. ASSUME NEW r \in Run, Write(r) PROVE AInv'
  <2>1. CASE SwapManifest(r)
    BY <2>1, SwapManifestKeeps
  <2>2. CASE ~SwapManifest(r)
    <3>1. PICK step \in {"data!", "manifest", "manifest!", "failed", "leaked"} :
             pc' = [pc EXCEPT ![r] = step]
      BY <1>3, <2>2 DEF Write, StageData, SwapData, StageManifest, StageFails, SwapFails, Goto
    <3>2. pc[r] \in Kept /\ UNCHANGED <<manifest, args, at, held, work, got, loaded>>
      BY <1>3, <2>2 DEF Write, StageData, SwapData, StageManifest, StageFails, SwapFails, Kept
    <3>3. data' = [k \in Key |-> data'[k]]
      BY <1>0, <1>3, <2>2 DEF Write, StageData, SwapData, StageManifest, StageFails, SwapFails, Typed
    <3>4. step \in Ended \/ step \in Kept
      BY <3>1 DEF Ended, Kept
    <3> QED
      BY <1>0, <3>1, <3>2, <3>3, <3>4, StepKeeps DEF Steps, Ended, Kept, Typed
  <2> QED
    BY <2>1, <2>2
<1>4. ASSUME NEW r \in Run, Crash(r) PROVE AInv'
  <2>1. PICK step \in {"crashed"} : pc' = [pc EXCEPT ![r] = step]
    BY <1>4 DEF Crash, Goto
  <2> QED
    BY <1>0, <1>4, <2>1, StepKeeps DEF Crash, Steps, Ended, cache, Typed
<1>5. ASSUME NEW k \in Key, Damage(k) PROVE AInv'
  <2>1. Typed'
    BY <1>0, <1>5 DEF Damage, Typed, args
  <2>2. Entries'
    <3>1. \A x \in Key : manifest'[x] = manifest[x] \/ manifest'[x] = Garbage
      BY <1>0, <1>5 DEF Damage, Typed
    <3> QED
      BY <1>5, <3>1, EntriesKeep DEF Damage
  <2>3. ASSUME NEW r \in Run PROVE OfRun(r)'
    BY <1>5, OtherRun DEF Damage, AInv
  <2> QED
    BY <2>1, <2>2, <2>3 DEF AInv
<1>6. CASE UNCHANGED vars
  <2>1. Typed' /\ Entries'
    BY <1>6 DEF vars, AInv, Typed, Entries, IsManifestOf, Makers
  <2>2. ASSUME NEW r \in Run PROVE OfRun(r)'
    BY <1>6, OtherRun DEF vars, AInv, args
  <2> QED
    BY <2>1, <2>2 DEF AInv
<1> QED
  BY <1>1, <1>2, <1>3, <1>4, <1>5, <1>6 DEF Next, Step, Quiet

LEMMA AnswersStart == Init => AInv
<1> SUFFICES ASSUME Init PROVE AInv
  OBVIOUS
<1>1. Typed
  <2>1. 1 \in 1..Len(Order)
    BY OrderAssumption
  <2>2. Nothing \in [records : Seq(Row), rows : Nat, empty : Nat]
    BY DEF Nothing
  <2> QED
    BY <2>1, <2>2 DEF Init, Typed, Steps
<1>2. Entries
  <2>1. CASE manifest = [k \in Key |-> None]
    BY <2>1 DEF Entries
  <2>2. CASE manifest # [k \in Key |-> None]
    <3>1. PICK b \in Before :
             /\ Yields(b[1], b[2], b[3])
             /\ manifest = [k \in Key |-> IF k = <<b[1], b[2]>>
                              THEN [sha |-> Extraction(b[1], b[2], b[3]).records,
                                    stats |-> Extraction(b[1], b[2], b[3]).stats] ELSE None]
      BY <2>2 DEF Init
    <3>2. b[3] \in Makers
      BY DEF Makers
    <3>3. ASSUME NEW k \in Key, manifest[k] \notin {None, Garbage}
          PROVE  IsManifestOf(manifest[k], k, b[3])
      <4>1. k = <<b[1], b[2]>>
        BY <3>1, <3>3
      <4> QED
        BY <3>1, <4>1 DEF IsManifestOf
    <3> QED
      BY <3>2, <3>3 DEF Entries
  <2> QED
    BY <2>1, <2>2
<1>3. ASSUME NEW r \in Run PROVE OfRun(r)
  <2>1. Works(r)
    BY DEF Init, Works, Extracting, Kept
  <2>2. InOrder(r)
    BY OrderAssumption DEF Init, InOrder
  <2>3. Answered(r)
    BY DEF Init, Answered
  <2> QED
    BY <2>1, <2>2, <2>3 DEF OfRun
<1> QED
  BY <1>1, <1>2, <1>3 DEF AInv

\* Whatever other runs write into the cache meanwhile, and whatever a crash or
\* a power loss leaves of it, load_source returns one whole extraction of the
\* source and seed it was asked for, with the statistics of that extraction.
THEOREM AnswersAlwaysExtractions == Spec => []AnswersAreExtractions
<1>1. AInv => AnswersAreExtractions
  BY DEF AInv, OfRun, Answered, AnswersAreExtractions, Makers
<1> QED
  BY <1>1, AnswersStart, AnswersInductive, PTL DEF Spec

LEMMA EntryStays ==
    ASSUME AInv, Next, NEW k \in Key, Valid(k), ~Valid(k)'
    PROVE  \/ Damage(k)
           \/ \E r \in Run : /\ SwapData(r) \/ SwapManifest(r)
                             /\ Extraction(k[1], k[2], config[r]).records # data[k]
<1>0. Typed
  BY DEF AInv
<1>1. data'[k] # data[k] \/ manifest'[k] # manifest[k]
  BY DEF Valid
<1>2. ASSUME NEW r \in Run, SwapData(r) \/ SwapManifest(r)
      PROVE  Extraction(k[1], k[2], config[r]).records # data[k]
  <2>1. k = KeyOf(r) /\ pc[r] \in Kept
    BY <1>0, <1>1, <1>2 DEF SwapData, SwapManifest, Typed, Kept
  <2>2. Extraction(k[1], k[2], config[r]).records = work[r].records
    <3>1. [records |-> work[r].records, stats |-> StatsOf(work[r])]
            = Extraction(Current(r), seed[r], config[r])
      BY <2>1, WorkIsExtraction
    <3>2. k[1] = Current(r) /\ k[2] = seed[r]
      BY <1>0, <2>1, TypesOfRun
    <3>3. [records |-> work[r].records, stats |-> StatsOf(work[r])].records = work[r].records
      OBVIOUS
    <3> QED
      BY <3>1, <3>2, <3>3
  <2> SUFFICES ASSUME work[r].records = data[k] PROVE FALSE
    BY <2>2
  <2>3. CASE SwapData(r)
    <3>1. data'[k] = data[k] /\ manifest' = manifest
      BY <1>0, <2>1, <2>3 DEF SwapData, Typed
    <3> QED
      BY <1>1, <3>1
  <2>4. CASE SwapManifest(r)
    <3>1. PICK m : m = [sha |-> work[r].records, stats |-> StatsOf(work[r])]
      OBVIOUS
    <3>2. data' = data /\ manifest'[k] = m
      BY <1>0, <2>1, <2>4, <3>1 DEF SwapManifest, Typed
    <3>3. m \in Manifest
      <4>1. work[r].records \in Seq(Row) /\ work[r].rows \in Nat /\ work[r].empty \in Nat
        BY <1>0 DEF Typed
      <4> QED
        BY <3>1, <4>1 DEF Manifest, StatsOf
    <3>4. m \notin {None, Garbage}
      BY <3>3, SourcesAssumption
    <3>5. m.sha = data[k] /\ m.stats.records = Len(data[k])
      BY <3>1 DEF StatsOf
    <3> QED
      BY <3>2, <3>4, <3>5 DEF Valid, Matches
  <2> QED
    BY <1>2, <2>3, <2>4
<1>3. ASSUME NEW r \in Run, Step(r) \/ Crash(r), ~SwapData(r), ~SwapManifest(r) PROVE FALSE
  <2>1. data' = data /\ manifest' = manifest
    <3>1. CASE Lookup(r)
      BY <3>1 DEF Lookup, Enter, ReadData, Hit, Miss, cache
    <3>2. CASE Extract(r)
      BY <3>2 DEF Extract, Load, LoadFails, ReadRow, EndOfRows, RowsFail, CheckMinimum, cache
    <3>3. CASE Write(r)
      BY <1>3, <3>3 DEF Write, StageData, StageManifest, StageFails, SwapFails
    <3>4. CASE Crash(r)
      BY <3>4 DEF Crash, cache
    <3> QED
      BY <1>3, <3>1, <3>2, <3>3, <3>4 DEF Step
  <2> QED
    BY <1>1, <2>1
<1>4. ASSUME NEW x \in Key, Damage(x) PROVE x = k
  BY <1>0, <1>1, <1>4 DEF Damage, Typed
<1>5. ~Quiet
  BY <1>1 DEF Quiet, vars
<1> QED
  BY <1>2, <1>3, <1>4, <1>5 DEF Next

\* A finished entry of the cache is lost to damage on the disk, or to a run
\* whose defaults extract other records from the source: interrupted, failed
\* and repeated builds of one checkout never lose one.
THEOREM FinishedEntriesAlwaysStay == Spec => FinishedEntriesStay
<1> DEFINE Lost(k) == \/ Damage(k)
                      \/ \E r \in Run : /\ SwapData(r) \/ SwapManifest(r)
                                        /\ Extraction(k[1], k[2], config[r]).records # data[k]
<1>1. AInv /\ [Next]_vars =>
         [\A k \in Key : Valid(k) /\ ~Valid(k)' => Lost(k)]_vars
  BY EntryStays
<1> QED
  BY <1>1, AnswersStart, AnswersInductive, PTL DEF Spec, FinishedEntriesStay

=============================================================================
