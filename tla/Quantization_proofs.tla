------------------------ MODULE Quantization_proofs -------------------------
(***************************************************************************)
(* The safety properties of the two programs that measure a model before   *)
(* it is quantized, for every model, text and set of weights.              *)
(*                                                                         *)
(* QuantizeCheckpoint: what is saved has passed its gates, what was        *)
(* measured is what the routers did, and a report tells it.  The invariant *)
(* QInv says which gates lie behind a place in the program, where in the   *)
(* records a measurement is and that only there are hooks set, and that a  *)
(* report is the verdict on what was routed.  The counts are exact by one  *)
(* fact on sums, that a last row adds what is picked in it (RowSumStep),   *)
(* and the gate is fair by another, that a sum over the domains is one     *)
(* over their places (SumReindexed).                                       *)
(*                                                                         *)
(* ImatrixPipeline: a whole matrix is the statistic of one text of its     *)
(* job, at most one matrix is stale, and what is merged is the blend.  The *)
(* invariant ImInv says how far the current text was fed, in whole chunks  *)
(* (Feeding), and that a text which is not of the build of now was         *)
(* replaced together with every file (Read).  Chunks are taken away by     *)
(* EndsAre and LimitedIs, and the fractions of the blend by ShareMore.     *)
(*                                                                         *)
(* Sums are folds in both; what the proofs need of them comes first.       *)
(***************************************************************************)
EXTENDS QuantizeCheckpoint, ImatrixPipeline, FiniteSetTheorems,
        WellFoundedInduction, TLAPS

(***************************************************************************)
(* Sums over a finite set do not depend on the order they are taken in     *)
(***************************************************************************)
\* The sum of a function over a part of its domain, as the folds take it.
Chosen(S) == CHOOSE x \in S : TRUE
SumIter(it, f, S) ==
    it = [s \in SUBSET S |-> IF s = {} THEN 0 ELSE f[Chosen(s)] + it[s \ {Chosen(s)}]]
SumOn(f, S) == FoldFunctionOnSet(+, 0, f, S)

\* A sum is the fold over the whole domain.
LEMMA SumIsSumOn == \A f : Sum(f) = SumOn(f, DOMAIN f)
BY DEF Sum, SumOn, FoldFunction

\* The fold is a function of the parts of a set, chosen by its recursion.
LEMMA SumOnIs == \A f, S : SumOn(f, S) = (CHOOSE it : SumIter(it, f, S))[S]
BY DEF SumOn, FoldFunctionOnSet, MapThenFoldSet, SumIter, Chosen

\* The recursion takes an element that is there.
LEMMA ChosenIn == \A S : S # {} => Chosen(S) \in S
BY DEF Chosen

\* A set of numbers has a smallest one: induction by smallest counterexample.
LEMMA SmallestExists ==
    ASSUME NEW T, T \subseteq Nat, T # {}
    PROVE  \E x \in T : \A y \in T : x <= y
<1>1. PICK R : R = OpToRel(<, Nat)
  OBVIOUS
<1>2. IsWellFoundedOn(R, Nat)
  BY <1>1, NatLessThanWellFounded
<1>3. \A x, y \in Nat : <<x, y>> \in R <=> x < y
  BY <1>1 DEF OpToRel
<1>4. PICK x \in T : \A y \in T : ~ (<<y, x>> \in R)
  BY <1>2, WFMin
<1>5. \A y \in T : x \in Nat /\ y \in Nat /\ ~(y < x)
  BY <1>3, <1>4
<1> QED
  BY <1>5

\* A set without its chosen element is smaller.
LEMMA Rest ==
    ASSUME NEW S, IsFiniteSet(S), NEW s, s \subseteq S, s # {}
    PROVE  /\ IsFiniteSet(s) /\ Cardinality(s) \in Nat /\ Chosen(s) \in s
           /\ s \ {Chosen(s)} \subseteq S /\ IsFiniteSet(s \ {Chosen(s)})
           /\ Cardinality(s \ {Chosen(s)}) \in Nat
           /\ Cardinality(s) = Cardinality(s \ {Chosen(s)}) + 1
<1>1. IsFiniteSet(s) /\ Cardinality(s) \in Nat /\ Chosen(s) \in s
  BY FS_Subset, FS_CardinalityType, ChosenIn
<1>2. IsFiniteSet(s \ {Chosen(s)}) /\ Cardinality(s \ {Chosen(s)}) = Cardinality(s) - 1
  BY <1>1, FS_RemoveElement
<1>3. Cardinality(s \ {Chosen(s)}) \in Nat
  BY <1>2, FS_CardinalityType
<1> QED
  BY <1>1, <1>2, <1>3

\* Such a function exists: it is put together by the size of the sets.
LEMMA SumIterExists ==
    ASSUME NEW S, IsFiniteSet(S), NEW f
    PROVE  \E it : SumIter(it, f, S)
<1> DEFINE Upto(n) == {s \in SUBSET S : Cardinality(s) <= n}
           Fine(n) == \E it : it = [s \in Upto(n) |->
                          IF s = {} THEN 0 ELSE f[Chosen(s)] + it[s \ {Chosen(s)}]]
           Bad == {n \in Nat : ~Fine(n)}
<1>0. Fine(0)
  <2>1. PICK it : it = [s \in Upto(0) |-> 0]
    OBVIOUS
  <2>2. \A s \in Upto(0) : s = {}
    <3> SUFFICES ASSUME NEW s \in SUBSET S, Cardinality(s) <= 0, s # {} PROVE FALSE
      OBVIOUS
    <3>1. s \subseteq S
      OBVIOUS
    <3>2. /\ Cardinality(s \ {Chosen(s)}) \in Nat
          /\ Cardinality(s) = Cardinality(s \ {Chosen(s)}) + 1
      BY <3>1, Rest
    <3> QED
      BY <3>2
  <2>3. it = [s \in Upto(0) |-> IF s = {} THEN 0 ELSE f[Chosen(s)] + it[s \ {Chosen(s)}]]
    BY <2>1, <2>2
  <2> QED
    BY <2>3
<1>1. ASSUME NEW n \in Nat, Fine(n) PROVE Fine(n + 1)
  <2>1. PICK it : it = [s \in Upto(n) |->
                          IF s = {} THEN 0 ELSE f[Chosen(s)] + it[s \ {Chosen(s)}]]
    BY <1>1
  <2>2. PICK new : new = [s \in Upto(n + 1) |->
                            IF s = {} THEN 0 ELSE f[Chosen(s)] + it[s \ {Chosen(s)}]]
    OBVIOUS
  <2>3. ASSUME NEW s \in Upto(n) PROVE s \in Upto(n + 1) /\ new[s] = it[s]
    <3>1. IsFiniteSet(s) /\ Cardinality(s) \in Nat
      BY FS_Subset, FS_CardinalityType
    <3>2. s \in Upto(n + 1)
      BY <3>1
    <3> QED
      BY <2>1, <2>2, <3>2
  <2>4. ASSUME NEW s \in Upto(n + 1), s # {} PROVE s \ {Chosen(s)} \in Upto(n)
    <3>1. /\ Cardinality(s \ {Chosen(s)}) \in Nat /\ Cardinality(s) <= n + 1
          /\ Cardinality(s) = Cardinality(s \ {Chosen(s)}) + 1 /\ s \ {Chosen(s)} \subseteq S
      BY <2>4, Rest
    <3> QED
      BY <3>1
  <2> HIDE DEF Upto
  <2>5. new = [s \in Upto(n + 1) |-> IF s = {} THEN 0 ELSE f[Chosen(s)] + new[s \ {Chosen(s)}]]
    BY <2>2, <2>3, <2>4
  <2> QED
    BY <2>5
<1>2. \A n \in Nat : Fine(n)
  <2> HIDE DEF Fine
  <2> SUFFICES ASSUME Bad # {} PROVE FALSE
    OBVIOUS
  <2>1. PICK n \in Bad : \A m \in Bad : n <= m
    <3>1. Bad \subseteq Nat
      OBVIOUS
    <3> HIDE DEF Bad
    <3> QED
      BY <3>1, SmallestExists
  <2>2. n \in Nat /\ ~Fine(n)
    OBVIOUS
  <2>3. PICK m \in Nat : n = m + 1
    BY <1>0, <2>2
  <2>4. m \notin Bad
    <3>1. ~(n <= m)
      BY <2>3
    <3> HIDE DEF Bad
    <3> QED
      BY <2>1, <3>1
  <2>5. Fine(m)
    BY <2>4
  <2> QED
    BY <1>1, <2>2, <2>3, <2>5
<1> HIDE DEF Upto
<1>3. Fine(Cardinality(S))
  BY <1>2, FS_CardinalityType
<1>4. Upto(Cardinality(S)) = SUBSET S
  <2>1. \A s \in SUBSET S : Cardinality(s) <= Cardinality(S)
    BY FS_Subset
  <2> QED
    BY <2>1 DEF Upto
<1> QED
  BY <1>3, <1>4 DEF SumIter

\* Induction over the numbers, for a set in place of a predicate.
LEMMA NatSetInduction ==
    ASSUME NEW P, 0 \in P, \A n \in Nat : n \in P => n + 1 \in P
    PROVE  Nat \subseteq P
<1> DEFINE Bad == Nat \ P
<1> SUFFICES ASSUME Bad # {} PROVE FALSE
  OBVIOUS
<1>1. PICK n \in Bad : \A m \in Bad : n <= m
  BY SmallestExists
<1>2. PICK m \in Nat : n = m + 1
  <2>1. n \in Nat /\ n # 0
    OBVIOUS
  <2> QED
    BY <2>1
<1>3. m \notin Bad
  <2>1. ~(n <= m)
    BY <1>2
  <2> HIDE DEF Bad
  <2> QED
    BY <1>1, <2>1
<1> QED
  BY <1>2, <1>3

\* Induction over the parts of a finite set, by their size.
LEMMA SubsetInduction ==
    ASSUME NEW S, IsFiniteSet(S), NEW P,
           \A s \in SUBSET S :
              (\A t \in SUBSET S : Cardinality(t) < Cardinality(s) => t \in P) => s \in P
    PROVE  SUBSET S \subseteq P
<1> DEFINE Bad == {Cardinality(s) : s \in (SUBSET S) \ P}
<1> SUFFICES ASSUME NEW bad \in (SUBSET S) \ P PROVE FALSE
  OBVIOUS
<1>1. ASSUME NEW s \in SUBSET S PROVE Cardinality(s) \in Nat
  BY FS_Subset, FS_CardinalityType
<1>2. Bad \subseteq Nat /\ Bad # {}
  BY <1>1
<1>3. PICK n \in Bad : \A m \in Bad : n <= m
  <2> HIDE DEF Bad
  <2> QED
    BY <1>2, SmallestExists
<1>4. PICK s \in (SUBSET S) \ P : Cardinality(s) = n
  OBVIOUS
<1>5. ASSUME NEW t \in SUBSET S, Cardinality(t) < Cardinality(s) PROVE t \in P
  <2> SUFFICES ASSUME t \notin P PROVE FALSE
    OBVIOUS
  <2>1. Cardinality(t) \in Bad /\ Cardinality(t) \in Nat /\ n \in Nat
    BY <1>1, <1>4
  <2>2. n <= Cardinality(t)
    BY <1>3, <2>1
  <2> QED
    BY <1>4, <1>5, <2>1, <2>2
<1> QED
  BY <1>4, <1>5

\* Two such functions agree where both are defined.
LEMMA SumIterAgree ==
    ASSUME NEW S, IsFiniteSet(S), NEW T, T \subseteq S, NEW f,
           NEW i, SumIter(i, f, S), NEW j, SumIter(j, f, T)
    PROVE  \A s \in SUBSET T : i[s] = j[s]
<1> DEFINE P == {s \in SUBSET T : i[s] = j[s]}
<1>1. IsFiniteSet(T)
  BY FS_Subset
<1>2. ASSUME NEW s \in SUBSET T, \A t \in SUBSET T : Cardinality(t) < Cardinality(s) => t \in P
      PROVE  s \in P
  <2>1. CASE s = {}
    BY <2>1 DEF SumIter
  <2>2. CASE s # {}
    <3>1. PICK t \in SUBSET T : t = s \ {Chosen(s)}
      BY <2>2
    <3>2. Cardinality(t) \in Nat /\ Cardinality(s) = Cardinality(t) + 1
      BY <1>1, <2>2, <3>1, Rest
    <3>3. i[t] = j[t]
      BY <1>2, <3>2
    <3>4. i[s] = f[Chosen(s)] + i[t] /\ j[s] = f[Chosen(s)] + j[t]
      BY <2>2, <3>1 DEF SumIter
    <3> QED
      BY <3>3, <3>4
  <2> QED
    BY <2>1, <2>2
<1>3. SUBSET T \subseteq P
  <2> HIDE DEF P
  <2> QED
    BY <1>1, <1>2, SubsetInduction
<1> QED
  BY <1>3

\* A sum is the chosen summand and the sum of the rest.
LEMMA SumOnRest ==
    ASSUME NEW S, IsFiniteSet(S), NEW f
    PROVE  SumOn(f, S) = IF S = {} THEN 0 ELSE f[Chosen(S)] + SumOn(f, S \ {Chosen(S)})
<1>1. PICK i : i = CHOOSE it : SumIter(it, f, S)
  OBVIOUS
<1>2. SumIter(i, f, S)
  BY <1>1, SumIterExists
<1>3. SumOn(f, S) = i[S]
  BY <1>1, SumOnIs
<1>4. CASE S = {}
  BY <1>2, <1>3, <1>4 DEF SumIter
<1>5. CASE S # {}
  <2>1. PICK T : T = S \ {Chosen(S)}
    OBVIOUS
  <2>2. T \subseteq S /\ IsFiniteSet(T)
    BY <2>1, FS_Subset
  <2>3. PICK j : j = CHOOSE it : SumIter(it, f, T)
    OBVIOUS
  <2>4. SumIter(j, f, T) /\ SumOn(f, T) = j[T]
    BY <2>2, <2>3, SumIterExists, SumOnIs
  <2>5. i[T] = j[T]
    BY <1>2, <2>2, <2>4, SumIterAgree
  <2>6. i[S] = f[Chosen(S)] + i[T]
    BY <1>2, <1>5, <2>1 DEF SumIter
  <2> QED
    BY <1>3, <1>5, <2>1, <2>4, <2>5, <2>6
<1> QED
  BY <1>4, <1>5

\* Sums of numbers are numbers.
LEMMA SumOnNat ==
    ASSUME NEW S, IsFiniteSet(S), NEW f, \A x \in S : f[x] \in Nat
    PROVE  \A s \in SUBSET S : SumOn(f, s) \in Nat
<1> DEFINE P == {s \in SUBSET S : SumOn(f, s) \in Nat}
<1>1. ASSUME NEW s \in SUBSET S, \A t \in SUBSET S : Cardinality(t) < Cardinality(s) => t \in P
      PROVE  s \in P
  <2>1. IsFiniteSet(s)
    BY FS_Subset
  <2>2. CASE s = {}
    <3>1. SumOn(f, s) = 0
      BY <2>1, <2>2, SumOnRest
    <3> QED
      BY <3>1
  <2>3. CASE s # {}
    <3>1. PICK t \in SUBSET S : t = s \ {Chosen(s)}
      BY <2>3
    <3>2. Cardinality(t) \in Nat /\ Cardinality(s) = Cardinality(t) + 1 /\ Chosen(s) \in s
      BY <2>3, <3>1, Rest
    <3>3. SumOn(f, t) \in Nat /\ f[Chosen(s)] \in Nat
      BY <1>1, <3>2
    <3>4. SumOn(f, s) = f[Chosen(s)] + SumOn(f, t)
      BY <2>1, <2>3, <3>1, SumOnRest
    <3> QED
      BY <3>3, <3>4
  <2> QED
    BY <2>2, <2>3
<1>2. SUBSET S \subseteq P
  <2> HIDE DEF P
  <2> QED
    BY <1>1, SubsetInduction
<1> QED
  BY <1>2

\* The order in which the summands are taken does not matter.
LEMMA SumOnAny ==
    ASSUME NEW S, IsFiniteSet(S), NEW f, \A x \in S : f[x] \in Nat
    PROVE  \A s \in SUBSET S : \A x \in s : SumOn(f, s) = f[x] + SumOn(f, s \ {x})
<1> DEFINE P == {s \in SUBSET S : \A x \in s : SumOn(f, s) = f[x] + SumOn(f, s \ {x})}
<1>1. ASSUME NEW s \in SUBSET S, \A t \in SUBSET S : Cardinality(t) < Cardinality(s) => t \in P,
             NEW x \in s
      PROVE  SumOn(f, s) = f[x] + SumOn(f, s \ {x})
  <2>1. PICK c : c = Chosen(s)
    OBVIOUS
  <2>2. PICK t \in SUBSET S, u \in SUBSET S, v \in SUBSET S :
           t = s \ {c} /\ u = s \ {x} /\ v = s \ {c, x}
    OBVIOUS
  <2>3. c \in s /\ IsFiniteSet(s) /\ IsFiniteSet(u) /\ Cardinality(t) < Cardinality(s)
        /\ SumOn(f, s) = f[c] + SumOn(f, t)
    <3>1. IsFiniteSet(s) /\ IsFiniteSet(u)
      BY <2>2, FS_Subset
    <3>2. c \in s /\ Cardinality(t) \in Nat /\ Cardinality(s) = Cardinality(t) + 1
      BY <2>1, <2>2, Rest
    <3>3. SumOn(f, s) = f[c] + SumOn(f, t)
      BY <2>1, <2>2, <3>1, SumOnRest
    <3> QED
      BY <3>1, <3>2, <3>3
  <2>4. Cardinality(u) < Cardinality(s)
    <3>1. Cardinality(u) = Cardinality(s) - 1 /\ Cardinality(s) \in Nat
      BY <2>2, <2>3, FS_RemoveElement, FS_CardinalityType
    <3> QED
      BY <3>1
  <2>5. CASE x = c
    BY <2>2, <2>3, <2>5
  <2>6. CASE x # c
    <3>1. t \in P /\ u \in P /\ x \in t /\ c \in u /\ t \ {x} = v /\ u \ {c} = v
      BY <1>1, <2>2, <2>3, <2>4, <2>6
    <3>2. SumOn(f, t) = f[x] + SumOn(f, v) /\ SumOn(f, u) = f[c] + SumOn(f, v)
      BY <3>1
    <3>3. f[x] \in Nat /\ f[c] \in Nat /\ SumOn(f, v) \in Nat
      BY <2>3, SumOnNat
    <3> QED
      BY <2>2, <2>3, <3>2, <3>3
  <2> QED
    BY <2>5, <2>6
<1>2. SUBSET S \subseteq P
  <2>1. \A s \in SUBSET S :
           (\A t \in SUBSET S : Cardinality(t) < Cardinality(s) => t \in P) => s \in P
    BY <1>1
  <2> HIDE DEF P
  <2> QED
    BY <2>1, SubsetInduction
<1> QED
  BY <1>2

\* With one more element, a sum grows by its summand.
LEMMA SumOnMore ==
    ASSUME NEW S, IsFiniteSet(S), NEW x, x \notin S, NEW f, \A y \in S \union {x} : f[y] \in Nat
    PROVE  SumOn(f, S \union {x}) = SumOn(f, S) + f[x]
<1>1. PICK T : T = S \union {x}
  OBVIOUS
<1>2. IsFiniteSet(T) /\ S \subseteq T /\ T \ {x} = S /\ x \in T
  BY <1>1, FS_AddElement
<1>3. SumOn(f, T) = f[x] + SumOn(f, T \ {x})
  BY <1>1, <1>2, SumOnAny
<1>4. SumOn(f, S) \in Nat /\ f[x] \in Nat
  BY <1>1, <1>2, SumOnNat
<1> QED
  BY <1>1, <1>2, <1>3, <1>4

\* A sum depends on its summands only.
LEMMA SumOnSame ==
    ASSUME NEW S, IsFiniteSet(S), NEW f, NEW g, \A x \in S : f[x] = g[x]
    PROVE  SumOn(f, S) = SumOn(g, S)
<1> DEFINE P == {s \in SUBSET S : SumOn(f, s) = SumOn(g, s)}
<1>1. ASSUME NEW s \in SUBSET S, \A t \in SUBSET S : Cardinality(t) < Cardinality(s) => t \in P
      PROVE  s \in P
  <2>1. IsFiniteSet(s)
    BY FS_Subset
  <2>2. CASE s = {}
    BY <2>1, <2>2, SumOnRest
  <2>3. CASE s # {}
    <3>1. PICK t \in SUBSET S : t = s \ {Chosen(s)}
      BY <2>3
    <3>2. Cardinality(t) \in Nat /\ Cardinality(s) = Cardinality(t) + 1 /\ Chosen(s) \in s
      BY <2>3, <3>1, Rest
    <3>3. SumOn(f, t) = SumOn(g, t) /\ f[Chosen(s)] = g[Chosen(s)]
      BY <1>1, <3>2
    <3>4. /\ SumOn(f, s) = f[Chosen(s)] + SumOn(f, t)
          /\ SumOn(g, s) = g[Chosen(s)] + SumOn(g, t)
      BY <2>1, <2>3, <3>1, SumOnRest
    <3> QED
      BY <3>3, <3>4
  <2> QED
    BY <2>2, <2>3
<1>2. SUBSET S \subseteq P
  <2> HIDE DEF P
  <2> QED
    BY <1>1, SubsetInduction
<1> QED
  BY <1>2

(***************************************************************************)
(* The inductive invariant                                                 *)
(***************************************************************************)
Before == {"recipe", "data", "model", "mappings", "targets"}
Measuring == {"routers", "domain", "rows", "temp", "replace"}
After == {"calibrate", "kv data", "strip", "verify", "save", "done"}
Steps == Before \union Measuring \union After \union {"failed", "hooked", "leaked", "killed"}

Covered == tool = "nvfp4" /\ recipe.coverage # None
Disjoint == \A i, j \in DOMAIN Groups : i # j =>
                GroupModules(Groups[i]) \cap GroupModules(Groups[j]) = {}

Typed ==
    /\ tool \in Tools /\ recipe \in Recipes /\ model \in Models /\ pc \in Steps
    /\ at \in Nat \ {0} /\ row \in Nat \ {0}
    /\ counts \in [Layer -> [ToSet(recipe.weight.domains) -> [Expert -> Nat]]]
    /\ temp \in BOOLEAN /\ saved \in BOOLEAN

\* A program has passed the gates that lie behind it.
Gates ==
    /\ pc \in (Before \ {"recipe"}) \union Measuring \union After => ValidRecipe(recipe)
    /\ pc \in {"mappings", "targets"} \union Measuring \union After => ~model.quantized
    /\ pc \in Measuring \union After => Disjoint
    /\ pc \in Measuring => Covered
    /\ saved => pc = "done"
    /\ pc \in {"strip", "verify"} => tool = "awq"
    /\ pc = "kv data" => tool = "nvfp4"
    /\ pc = "verify" => artifacts \subseteq {"scheme", "scales", "dtype"}
    /\ pc \in {"save", "done"} /\ tool = "awq" => artifacts = {}

\* Where in the records a measurement is, and that it has hooks only there, or
\* where it could not begin.
Place ==
    /\ pc \in {"domain", "rows"} => hooks = Routers
    /\ pc \notin {"domain", "rows"} => context = None
    /\ pc \notin {"domain", "rows", "hooked"} => hooks = {}
    /\ pc \in Before \union {"routers"} => at = 1 /\ counts = NoCounts(recipe)
    /\ pc \in {"domain", "rows"} => at <= Len(CoverageDomains) + 1
    /\ pc = "rows" => /\ at <= Len(CoverageDomains)
                      /\ context.domain = CoverageDomains[at]
                      /\ row <= Len(DomainRows) + 1
    /\ pc \in {"temp", "replace"} => at > Len(CoverageDomains)

Fails(l) == \/ \E e \in Expert : Routed(l, e) < recipe.coverage.minimum
            \/ Cardinality({e \in Expert : Routed(l, e) = 0}) > recipe.coverage.uncovered

\* What is left behind by then.
Outcome ==
    /\ report # None => \A l \in Routers : report[l] = Fails(l)
    /\ pc \in After /\ Covered => report # None /\ \A l \in Routers : ~Fails(l)
    /\ temp => pc \in {"replace", "leaked", "killed"}

QInv == Typed /\ Gates /\ Place /\ MeasurementIsExact /\ Outcome

(***************************************************************************)
(* Counts of rows and what no step changes                                 *)
(***************************************************************************)
\* What a router picks can be counted.
LEMMA PicksNat ==
    ASSUME NEW l, NEW tokens, NEW n \in Nat, NEW e
    PROVE  Picks(l, tokens, n, e) \in Nat
<1>1. IsFiniteSet(1..n) /\ IsFiniteSet(1..TopK)
  BY QuantizeAssumption, FS_Interval
<1>2. IsFiniteSet((1..n) \X (1..TopK))
  BY <1>1, FS_Product
<1>3. {p \in (1..n) \X (1..TopK) : model.route[l][tokens[p[1]]][p[2]] = e}
         \subseteq (1..n) \X (1..TopK)
  OBVIOUS
<1> QED
  BY <1>2, <1>3, FS_Subset, FS_CardinalityType DEF Picks

\* The sum of a function to numbers is a number.
LEMMA SumIsNat ==
    ASSUME NEW S, IsFiniteSet(S), NEW f \in [S -> Nat]
    PROVE  Sum(f) \in Nat
<1>1. Sum(f) = SumOn(f, S)
  BY SumIsSumOn
<1>2. S \in SUBSET S /\ \A x \in S : f[x] \in Nat
  OBVIOUS
<1> QED
  BY <1>1, <1>2, SumOnNat

\* A sequence of counts with one more is their sum and that one.
LEMMA SumStep ==
    ASSUME NEW n \in Nat, NEW f \in [1..(n + 1) -> Nat]
    PROVE  Sum(f) = Sum([i \in 1..n |-> f[i]]) + f[n + 1]
<1>1. PICK g : g = [i \in 1..n |-> f[i]]
  OBVIOUS
<1>2. Sum(f) = SumOn(f, 1..(n + 1)) /\ Sum(g) = SumOn(g, 1..n)
  BY <1>1, SumIsSumOn
<1>3. IsFiniteSet(1..n) /\ n + 1 \notin 1..n /\ 1..(n + 1) = (1..n) \union {n + 1}
  <2>1. IsFiniteSet(1..n)
    BY FS_Interval
  <2>2. n + 1 \notin 1..n /\ \A i : i \in 1..(n + 1) <=> i \in (1..n) \union {n + 1}
    OBVIOUS
  <2> QED
    BY <2>1, <2>2
<1>4. \A i \in (1..n) \union {n + 1} : f[i] \in Nat
  BY <1>3
<1>5. SumOn(f, (1..n) \union {n + 1}) = SumOn(f, 1..n) + f[n + 1]
  BY <1>3, <1>4, SumOnMore
<1>6. SumOn(f, 1..n) = SumOn(g, 1..n)
  BY <1>1, <1>3, SumOnSame
<1> QED
  BY <1>1, <1>2, <1>3, <1>5, <1>6

\* An empty sum.
LEMMA SumOfNone == ASSUME NEW f, DOMAIN f = {} PROVE Sum(f) = 0
<1>1. SumOn(f, {}) = 0
  BY SumOnRest, FS_EmptySet
<1> QED
  BY <1>1, SumIsSumOn

\* What the rows of a domain give an expert: nothing before the first of them,
\* and with every row what the router picks among its real tokens.
LEMMA RowSumStep ==
    ASSUME NEW l, NEW d \in DOMAIN Rows, NEW e
    PROVE  /\ RowSum(l, d, e, 0) = 0
           /\ \A n \in Nat : n <= Len(Rows[d]) => RowSum(l, d, e, n) \in Nat
           /\ \A n \in Nat : n < Len(Rows[d]) =>
                RowSum(l, d, e, n + 1) = RowSum(l, d, e, n)
                    + Picks(l, Rows[d][n + 1].tokens, Rows[d][n + 1].real, e)
<1> DEFINE pick(i) == Picks(l, Rows[d][i].tokens, Rows[d][i].real, e)
           f(n) == [i \in 1..n |-> pick(i)]
<1>1. \A n : RowSum(l, d, e, n) = Sum(f(n))
  BY DEF RowSum, Picks
<1>2. \A i \in 1..Len(Rows[d]) : pick(i) \in Nat
  BY QuantizeAssumption, PicksNat
<1> HIDE DEF pick
<1>3. RowSum(l, d, e, 0) = 0
  <2>1. DOMAIN f(0) = {}
    OBVIOUS
  <2> QED
    BY <1>1, <2>1, SumOfNone
<1>4. ASSUME NEW n \in Nat, n <= Len(Rows[d]) PROVE RowSum(l, d, e, n) \in Nat
  <2>1. f(n) \in [1..n -> Nat] /\ IsFiniteSet(1..n)
    <3>1. \A i \in 1..n : i \in 1..Len(Rows[d])
      BY <1>4, QuantizeAssumption
    <3> QED
      BY <1>2, <3>1, FS_Interval
  <2> HIDE DEF f
  <2> QED
    BY <1>1, <2>1, SumIsNat
<1>5. ASSUME NEW n \in Nat, n < Len(Rows[d])
      PROVE  RowSum(l, d, e, n + 1) = RowSum(l, d, e, n) + pick(n + 1)
  <2>1. f(n + 1) \in [1..(n + 1) -> Nat]
    <3>1. \A i \in 1..(n + 1) : i \in 1..Len(Rows[d])
      BY <1>5, QuantizeAssumption
    <3> QED
      BY <1>2, <3>1
  <2>2. [i \in 1..n |-> f(n + 1)[i]] = f(n) /\ f(n + 1)[n + 1] = pick(n + 1)
    OBVIOUS
  <2> HIDE DEF f
  <2>3. Sum(f(n + 1)) = Sum([i \in 1..n |-> f(n + 1)[i]]) + f(n + 1)[n + 1]
    BY <2>1, SumStep
  <2> QED
    BY <1>1, <2>2, <2>3
<1> QED
  BY <1>3, <1>4, <1>5 DEF pick

\* The recipe, the model and the program are given.
LEMMA InputsKeep ==
    ASSUME UNCHANGED inputs
    PROVE  /\ Routers' = Routers /\ CoverageDomains' = CoverageDomains
           /\ Disjoint' <=> Disjoint
           /\ Covered' <=> Covered
           /\ ValidRecipe(recipe)' <=> ValidRecipe(recipe)
           /\ NoCounts(recipe)' = NoCounts(recipe)
           /\ \A l, d, e, n : RowSum(l, d, e, n)' = RowSum(l, d, e, n)
           /\ \A l : Fails(l)' = Fails(l)
<1>1. tool' = tool /\ recipe' = recipe /\ model' = model
  BY DEF inputs
<1>2. Routers' = Routers /\ CoverageDomains' = CoverageDomains /\ (Covered' <=> Covered)
  BY <1>1 DEF Routers, Matched, CoverageDomains, Covered
<1>3. Disjoint' <=> Disjoint
  BY <1>1 DEF Disjoint, Groups, GroupModules, Matched
<1>4. (ValidRecipe(recipe)' <=> ValidRecipe(recipe)) /\ NoCounts(recipe)' = NoCounts(recipe)
  BY <1>1
<1>5. \A l, d, e, n : RowSum(l, d, e, n)' = RowSum(l, d, e, n)
  BY <1>1 DEF RowSum
<1>6. \A l, e : Routed(l, e)' = Routed(l, e)
  BY <1>1, <1>2, <1>5 DEF Routed
<1>7. \A l : Fails(l)' = Fails(l)
  BY <1>1, <1>6 DEF Fails
<1> QED
  BY <1>2, <1>3, <1>4, <1>5, <1>7

(***************************************************************************)
(* The steps outside the measurement                                       *)
(***************************************************************************)
Exact ==
    pc \in {"domain", "rows", "temp", "replace"} =>
        \A l \in Routers, i \in DOMAIN CoverageDomains, e \in Expert :
            counts[l][CoverageDomains[i]][e] =
                RowSum(l, CoverageDomains[i], e,
                       IF i < at THEN Len(Rows[CoverageDomains[i]])
                       ELSE IF i = at /\ pc = "rows" THEN row - 1 ELSE 0)

\* The invariant with the counts as a part of their own.
LEMMA ExactIs == QInv <=> Typed /\ Gates /\ Place /\ Exact /\ Outcome
BY DEF QInv, Exact, MeasurementIsExact, Place

\* A step outside the measuring loop keeps its counts.
LEMMA Aside ==
    ASSUME QInv, UNCHANGED <<inputs, at, row, counts>>, pc' \in Steps, temp' \in BOOLEAN,
           saved' \in BOOLEAN, pc' \notin {"domain", "rows"},
           pc' \in {"temp", "replace"} => pc \in {"temp", "replace"},
           Gates', Place', Outcome'
    PROVE  QInv'
<1>1. Typed'
  BY DEF QInv, Typed, inputs
<1>2. Exact'
  BY ExactIs, InputsKeep DEF Exact
<1>3. MeasurementIsExact'
  BY <1>2 DEF Exact, MeasurementIsExact, Place
<1> QED
  BY <1>1, <1>3 DEF QInv

\* The steps that only go on, or fail: the gates before the calibration, the
\* packing of the KV-cache records, the check after the strip.
LEMMA StepKeeps ==
    ASSUME QInv, UNCHANGED <<inputs, measure, artifacts, files>>,
           pc' \in Before \union {"routers", "calibrate", "save", "failed"},
           pc \in Before \union {"kv data", "verify"},
           Gates',
           pc' \in Before \union {"routers"} => pc \in Before,
           pc' \in After /\ Covered => pc \in After
    PROVE  QInv'
<1>1. UNCHANGED <<inputs, at, row, hooks, context, counts, artifacts, temp, report, saved>>
      /\ pc' \in Steps
  BY DEF measure, files, Steps, Before, Measuring, After
<1>2. Place'
  BY <1>1, InputsKeep DEF QInv, Place, Before
<1>3. Outcome'
  BY <1>1, InputsKeep DEF QInv, Outcome, Before, After
<1> QED
  BY <1>1, <1>2, <1>3, Aside DEF QInv, Typed, Before

\* The gates before the calibration.
LEMMA GatesKeep ==
    ASSUME QInv,
           \/ LoadRecipe \/ PackData \/ LoadModel \/ CheckMappings \/ CheckTargets
           \/ PackKvData \/ VerifyClean
    PROVE  QInv'
<1>1. UNCHANGED <<inputs, measure, artifacts, files>> /\ UNCHANGED saved
  BY DEF LoadRecipe, PackData, LoadModel, CheckMappings, CheckTargets, PackKvData, VerifyClean,
         Step, files
<1>2. CASE LoadRecipe
  <2>1. pc = "recipe" /\ pc' = IF ValidRecipe(recipe) THEN "data" ELSE "failed"
    BY <1>2 DEF LoadRecipe, Step
  <2>2. Gates'
    BY <1>1, <2>1, InputsKeep DEF QInv, Gates, Before, Measuring, After
  <2> QED
    BY <1>1, <2>1, <2>2, StepKeeps DEF Before, After
<1>3. CASE PackData
  <2>1. pc = "data" /\ pc' \in {"model", "failed"}
    BY <1>3 DEF PackData, Step
  <2>2. Gates'
    BY <1>1, <2>1, InputsKeep DEF QInv, Gates, Before, Measuring, After
  <2> QED
    BY <1>1, <2>1, <2>2, StepKeeps DEF Before, After
<1>4. CASE LoadModel
  <2>1. pc = "model" /\ pc' = IF ~model.quantized THEN "mappings" ELSE "failed"
    BY <1>4 DEF LoadModel, Step
  <2>2. model' = model
    BY <1>1 DEF inputs
  <2>3. Gates'
    BY <1>1, <2>1, <2>2, InputsKeep DEF QInv, Gates, Before, Measuring, After
  <2> QED
    BY <1>1, <2>1, <2>3, StepKeeps DEF Before, After
<1>5. CASE CheckMappings
  <2>1. pc = "mappings" /\ pc' \in {"targets", "failed"}
    BY <1>5 DEF CheckMappings, Step
  <2>2. model' = model
    BY <1>1 DEF inputs
  <2>3. Gates'
    BY <1>1, <2>1, <2>2, InputsKeep DEF QInv, Gates, Before, Measuring, After
  <2> QED
    BY <1>1, <2>1, <2>3, StepKeeps DEF Before, After
<1>6. CASE CheckTargets
  <2>1. /\ pc = "targets" /\ pc' \in {"routers", "calibrate", "failed"}
        /\ pc' # "failed" => Disjoint
        /\ pc' = "routers" => Covered
        /\ pc' = "calibrate" => ~Covered
    BY <1>6 DEF CheckTargets, Step, Disjoint, Covered
  <2>2. model' = model
    BY <1>1 DEF inputs
  <2>3. Gates'
    BY <1>1, <2>1, <2>2, InputsKeep DEF QInv, Gates, Before, Measuring, After
  <2> QED
    BY <1>1, <2>1, <2>3, StepKeeps DEF Before, After
<1>7. CASE PackKvData
  <2>1. pc = "kv data" /\ pc' \in {"save", "failed"}
    BY <1>7 DEF PackKvData, Step
  <2>2. model' = model /\ tool' = tool
    BY <1>1 DEF inputs
  <2>3. Gates'
    BY <1>1, <2>1, <2>2, InputsKeep DEF QInv, Gates, Before, Measuring, After
  <2> QED
    BY <1>1, <2>1, <2>3, StepKeeps DEF Before, After
<1>8. CASE VerifyClean
  <2>1. /\ pc = "verify" /\ pc' \in {"save", "failed"}
        /\ pc' = "save" => artifacts \cap {"scheme", "scales", "dtype"} = {}
    BY <1>8 DEF VerifyClean, Step
  <2>2. model' = model /\ tool' = tool
    BY <1>1 DEF inputs
  <2>3. pc' = "save" => artifacts = {}
    BY <2>1 DEF QInv, Gates
  <2>4. Gates'
    BY <1>1, <2>1, <2>2, <2>3, InputsKeep DEF QInv, Gates, Before, Measuring, After
  <2> QED
    BY <1>1, <2>1, <2>4, StepKeeps DEF Before, After
<1> QED
  BY <1>2, <1>3, <1>4, <1>5, <1>6, <1>7, <1>8

\* The passes themselves, the save, and being killed.
LEMMA PassesKeep ==
    ASSUME QInv, Calibrate \/ Strip \/ Save \/ Kill
    PROVE  QInv'
<1>1. /\ UNCHANGED <<inputs, at, row, counts, temp, report>> /\ saved' \in BOOLEAN
      /\ tool' = tool /\ model' = model /\ recipe' = recipe /\ temp' \in BOOLEAN
  BY DEF QInv, Typed, Calibrate, Strip, Save, Kill, measure, files, inputs
<1>2. CASE Calibrate
  <2>1. /\ pc = "calibrate" /\ pc' \in {"strip", "kv data", "save", "failed"}
        /\ pc' = "strip" => tool = "awq"
        /\ pc' \in {"kv data", "save"} => tool = "nvfp4"
        /\ UNCHANGED <<hooks, context, saved>>
    BY <1>2 DEF Calibrate, QInv, Typed, Tools, measure, files
  <2>2. Gates'
    BY <1>1, <2>1, InputsKeep DEF QInv, Gates, Before, Measuring, After
  <2>3. Place' /\ Outcome'
    BY <1>1, <2>1, InputsKeep DEF QInv, Place, Outcome, Before, After
  <2> QED
    BY <1>1, <2>1, <2>2, <2>3, Aside DEF Steps, After
<1>3. CASE Strip
  <2>1. /\ pc = "strip" /\ pc' = "verify" /\ UNCHANGED <<hooks, context, saved>>
        /\ artifacts' \subseteq {"scheme", "scales", "dtype"}
    BY <1>3 DEF Strip, measure, files
  <2>2. Gates'
    BY <1>1, <2>1, InputsKeep DEF QInv, Gates, Before, Measuring, After
  <2>3. Place' /\ Outcome'
    BY <1>1, <2>1, InputsKeep DEF QInv, Place, Outcome, Before, After
  <2> QED
    BY <1>1, <2>1, <2>2, <2>3, Aside DEF Steps, After
<1>4. CASE Save
  <2>1. pc = "save" /\ pc' = "done" /\ UNCHANGED <<hooks, context, artifacts>>
    BY <1>4 DEF Save, measure
  <2>2. Gates'
    BY <1>1, <2>1, InputsKeep DEF QInv, Gates, Before, Measuring, After
  <2>3. Place' /\ Outcome'
    BY <1>1, <2>1, InputsKeep DEF QInv, Place, Outcome, Before, After
  <2> QED
    BY <1>1, <2>1, <2>2, <2>3, Aside DEF Steps, After
<1>5. CASE Kill
  <2>1. /\ pc \notin {"done", "failed", "hooked", "leaked", "killed"} /\ pc' = "killed"
        /\ hooks' = {} /\ context' = None /\ UNCHANGED <<artifacts, saved>>
    BY <1>5 DEF Kill, files
  <2>2. Gates'
    BY <1>1, <2>1, InputsKeep DEF QInv, Gates, Before, Measuring, After
  <2>3. Place' /\ Outcome'
    BY <1>1, <2>1, InputsKeep DEF QInv, Place, Outcome, Before, After
  <2> QED
    BY <1>1, <2>1, <2>2, <2>3, Aside DEF Steps
<1> QED
  BY <1>2, <1>3, <1>4, <1>5

(***************************************************************************)
(* The measurement, but for a forward pass                                 *)
(***************************************************************************)
\* The state after a step, part by part.
LEMMA Together ==
    ASSUME Typed', Gates', Place', Exact', Outcome'
    PROVE  QInv'
<1>1. MeasurementIsExact'
  BY DEF Exact, MeasurementIsExact, Place
<1> QED
  BY <1>1 DEF QInv

\* The routers are layers with counts, and the domains of a valid recipe are
\* domains of records that each occur once.
LEMMA RoutersAreLayers ==
    ASSUME QInv, Covered
    PROVE  Routers \subseteq Layer
BY QuantizeAssumption DEF QInv, Typed, Covered, Routers, Matched

LEMMA DomainsAre ==
    ASSUME QInv
    PROVE  /\ CoverageDomains \in Seq(DOMAIN Rows)
           /\ DOMAIN CoverageDomains = 1..Len(CoverageDomains)
           /\ Len(CoverageDomains) \in Nat
           /\ \A i \in DOMAIN CoverageDomains :
                 /\ CoverageDomains[i] \in DOMAIN Rows
                 /\ CoverageDomains[i] \in ToSet(recipe.weight.domains)
                 /\ Len(Rows[CoverageDomains[i]]) \in Nat
<1>1. recipe.weight.domains \in Seq(DOMAIN Rows)
  BY QuantizeAssumption DEF QInv, Typed
<1>2. PICK s \in Seq(DOMAIN Rows) : s = recipe.weight.domains
  BY <1>1
<1>3. DOMAIN s = 1..Len(s) /\ Len(s) \in Nat /\ \A i \in DOMAIN s : s[i] \in DOMAIN Rows
  OBVIOUS
<1>4. \A i \in DOMAIN s : s[i] \in ToSet(s)
  BY DEF ToSet
<1> QED
  BY <1>2, <1>3, <1>4, QuantizeAssumption DEF CoverageDomains

\* A valid recipe names no domain twice.
LEMMA DomainsOnce ==
    ASSUME QInv, ValidRecipe(recipe)
    PROVE  \A i, j \in DOMAIN CoverageDomains :
              CoverageDomains[i] = CoverageDomains[j] => i = j
BY DEF ValidRecipe, ValidCalibration, IsInjective, CoverageDomains

\* Hooks are set on every router, with no count taken yet.
LEMMA RegisterHooksKeeps == ASSUME QInv, RegisterHooks PROVE QInv'
<1>1. /\ UNCHANGED <<at, row, counts, artifacts, temp, report, saved, context, inputs>>
      /\ tool' = tool /\ model' = model /\ recipe' = recipe
      /\ pc = "routers"
      /\ \/ pc' = "failed" /\ hooks' = hooks
         \/ pc' \in {"domain", "hooked"} /\ hooks' = Routers
  BY DEF RegisterHooks, files, inputs
<1>2. Covered /\ at = 1 /\ counts = NoCounts(recipe)
  BY <1>1 DEF QInv, Gates, Place, Measuring
<1>3. Typed' /\ Gates'
  BY <1>1, InputsKeep DEF QInv, Typed, Gates, Before, Measuring, After, Steps
<1>4. Place'
  BY <1>1, <1>2, InputsKeep, DomainsAre DEF QInv, Place, Before
<1>5. Outcome'
  BY <1>1, <1>2, InputsKeep DEF QInv, Outcome, After
<1>6. Exact'
  <2> SUFFICES ASSUME pc' = "domain",
                      NEW l \in Routers, NEW i \in DOMAIN CoverageDomains, NEW e \in Expert
               PROVE  counts[l][CoverageDomains[i]][e] = RowSum(l, CoverageDomains[i], e, 0)
    BY <1>1, <1>2, InputsKeep, DomainsAre DEF Exact
  <2>1. RowSum(l, CoverageDomains[i], e, 0) = 0
    BY DomainsAre, RowSumStep
  <2>2. l \in Layer /\ CoverageDomains[i] \in ToSet(recipe.weight.domains)
    BY <1>2, RoutersAreLayers, DomainsAre
  <2> QED
    BY <1>2, <2>1, <2>2 DEF NoCounts
<1> QED
  BY <1>3, <1>4, <1>5, <1>6, Together

\* The measurement is left, for a failure or for the gate: no hook remains.
LEMMA StartDomainKeeps == ASSUME QInv, StartDomain PROVE QInv'
<1>1. /\ UNCHANGED <<at, counts, artifacts, temp, report, saved, inputs>>
      /\ tool' = tool /\ model' = model /\ recipe' = recipe
      /\ pc = "domain" /\ at <= Len(CoverageDomains)
      /\ \/ /\ pc' = "rows" /\ row' = 1 /\ hooks' = hooks
            /\ context' = [domain |-> CoverageDomains[at], real |-> 0]
         \/ /\ pc' = "failed" /\ hooks' = {} /\ context' = None /\ row' = row
  BY DEF StartDomain, Unhooked, files, inputs
<1>2. Typed' /\ Gates'
  <2>1. row' \in Nat \ {0} /\ pc' \in {"rows", "failed"}
    BY <1>1 DEF QInv, Typed
  <2>2. Typed'
    BY <1>1, <2>1 DEF QInv, Typed, Measuring, Steps
  <2>3. Gates'
    BY <1>1, <2>1, InputsKeep DEF QInv, Gates, Before, Measuring, After
  <2> QED
    BY <2>2, <2>3
<1>3. at \in DOMAIN CoverageDomains /\ DomainRows' = DomainRows /\ Len(DomainRows) \in Nat
  BY <1>1, InputsKeep, DomainsAre DEF QInv, Typed, DomainRows
<1>4. Place'
  BY <1>1, <1>3, InputsKeep, DomainsAre DEF QInv, Place, Before
<1>5. Outcome'
  BY <1>1, InputsKeep DEF QInv, Outcome, After
<1>6. Exact'
  BY <1>1, ExactIs, InputsKeep DEF Exact
<1> QED
  BY <1>2, <1>4, <1>5, <1>6, Together

\* The rows of the domain are all counted when it ends.
LEMMA EndDomainKeeps == ASSUME QInv, EndDomain PROVE QInv'
<1>1. /\ UNCHANGED <<row, hooks, counts, artifacts, temp, report, saved, inputs>>
      /\ tool' = tool /\ model' = model /\ recipe' = recipe
      /\ pc = "rows" /\ pc' = "domain" /\ at' = at + 1 /\ context' = None
      /\ row > Len(DomainRows)
  BY DEF EndDomain, files, inputs
<1>2. Typed' /\ Gates'
  BY <1>1, InputsKeep DEF QInv, Typed, Gates, Before, Measuring, After, Steps
<1>3. /\ at <= Len(CoverageDomains) /\ at \in Nat \ {0} /\ row \in Nat
      /\ at \in DOMAIN CoverageDomains /\ Len(DomainRows) \in Nat
      /\ row <= Len(DomainRows) + 1
  BY <1>1, DomainsAre DEF QInv, Typed, Place, DomainRows
<1>4. Place'
  BY <1>1, <1>3, InputsKeep, DomainsAre DEF QInv, Place, Before
<1>5. Outcome'
  BY <1>1, InputsKeep DEF QInv, Outcome, After
<1>6. Exact'
  <2>1. row - 1 = Len(Rows[CoverageDomains[at]])
    BY <1>1, <1>3 DEF DomainRows
  <2> SUFFICES ASSUME NEW l \in Routers, NEW i \in DOMAIN CoverageDomains, NEW e \in Expert
               PROVE  counts[l][CoverageDomains[i]][e] =
                         RowSum(l, CoverageDomains[i], e,
                                IF i < at + 1 THEN Len(Rows[CoverageDomains[i]]) ELSE 0)
    BY <1>1, InputsKeep DEF Exact
  <2>2. counts[l][CoverageDomains[i]][e] =
           RowSum(l, CoverageDomains[i], e,
                  IF i < at THEN Len(Rows[CoverageDomains[i]])
                  ELSE IF i = at THEN row - 1 ELSE 0)
    BY <1>1, ExactIs DEF Exact
  <2>3. i \in Nat
    BY DomainsAre
  <2> QED
    BY <1>3, <2>1, <2>2, <2>3
<1> QED
  BY <1>2, <1>4, <1>5, <1>6, Together

\* The domains are all counted when the hooks are removed.
LEMMA EndMeasurementKeeps == ASSUME QInv, EndMeasurement PROVE QInv'
<1>1. /\ UNCHANGED <<at, row, counts, artifacts, temp, report, saved, inputs>>
      /\ tool' = tool /\ model' = model /\ recipe' = recipe
      /\ pc = "domain" /\ pc' = "temp" /\ hooks' = {} /\ context' = None
      /\ at > Len(CoverageDomains)
  BY DEF EndMeasurement, Unhooked, files, inputs
<1>2. Typed' /\ Gates'
  BY <1>1, InputsKeep DEF QInv, Typed, Gates, Before, Measuring, After, Steps
<1>3. Place' /\ Outcome'
  BY <1>1, InputsKeep DEF QInv, Place, Outcome, Before, After
<1>4. Exact'
  BY <1>1, ExactIs, InputsKeep DEF Exact
<1> QED
  BY <1>2, <1>3, <1>4, Together

(***************************************************************************)
(* A forward pass, and what the counts add up to                           *)
(***************************************************************************)
\* h takes the places 1..n to what g says of the values of s, which make up S.
Reindexed(n, s, S, g, h) ==
    /\ \A x : x \in S <=> \E i \in 1..n : x = s[i]
    /\ \A i, j \in 1..n : s[i] = s[j] => i = j
    /\ \A i \in 1..n : g[s[i]] \in Nat /\ h[i] = g[s[i]]

\* The sum over the values of a sequence without repetitions is the sum over
\* its places.
LEMMA SumReindexed ==
    ASSUME NEW n \in Nat, NEW s, NEW S, NEW g, NEW h, Reindexed(n, s, S, g, h)
    PROVE  SumOn(g, S) = SumOn(h, 1..n)
<1> USE DEF Reindexed
<1> DEFINE V(k) == {s[i] : i \in 1..k}
           P == {k \in Nat : k <= n => IsFiniteSet(V(k)) /\ SumOn(g, V(k)) = SumOn(h, 1..k)}
<1>1. 0 \in P
  <2>1. V(0) = {} /\ 1..0 = {}
    OBVIOUS
  <2>2. SumOn(g, {}) = 0 /\ SumOn(h, {}) = 0 /\ IsFiniteSet({})
    BY FS_EmptySet, SumOnRest
  <2> QED
    BY <2>1, <2>2
<1>2. ASSUME NEW k \in Nat, k \in P PROVE k + 1 \in P
  <2> SUFFICES ASSUME k + 1 <= n
               PROVE  IsFiniteSet(V(k + 1)) /\ SumOn(g, V(k + 1)) = SumOn(h, 1..(k + 1))
    OBVIOUS
  <2>1. PICK m \in Nat : m = k + 1
    OBVIOUS
  <2>2. /\ V(m) = V(k) \union {s[m]} /\ s[m] \notin V(k)
        /\ 1..m = (1..k) \union {m} /\ m \notin 1..k
    BY <2>1
  <2>3. PICK A : A = V(k)
    OBVIOUS
  <2>4. IsFiniteSet(A) /\ SumOn(g, A) = SumOn(h, 1..k)
    BY <1>2, <2>3, <2>1
  <2>5. IsFiniteSet(1..k)
    BY FS_Interval
  <2>6. \A y \in A \union {s[m]} : g[y] \in Nat
    BY <2>1, <2>3
  <2>7. \A y \in (1..k) \union {m} : h[y] \in Nat
    BY <2>1
  <2>8. SumOn(g, A \union {s[m]}) = SumOn(g, A) + g[s[m]] /\ IsFiniteSet(A \union {s[m]})
    <3>1. PICK x : x = s[m]
      OBVIOUS
    <3>2. x \notin A
      BY <2>2, <2>3, <3>1
    <3>3. \A y \in A \union {x} : g[y] \in Nat
      BY <2>6, <3>1
    <3>4. SumOn(g, A \union {x}) = SumOn(g, A) + g[x]
      <4>1. IsFiniteSet(A)
        BY <2>4
      <4> HIDE DEF V, P
      <4> QED
        BY ONLY <4>1, <3>2, <3>3, SumOnMore
    <3>5. IsFiniteSet(A \union {x})
      BY <2>4, FS_AddElement
    <3> QED
      BY <3>1, <3>4, <3>5
  <2>9. SumOn(h, (1..k) \union {m}) = SumOn(h, 1..k) + h[m]
    <3>1. PICK B : B = 1..k
      OBVIOUS
    <3>2. IsFiniteSet(B) /\ m \notin B /\ \A y \in B \union {m} : h[y] \in Nat
      BY <2>2, <2>5, <2>7, <3>1
    <3> HIDE DEF V, P
    <3>3. SumOn(h, B \union {m}) = SumOn(h, B) + h[m]
      BY ONLY <3>2, SumOnMore
    <3> QED
      BY <3>1, <3>3
  <2>10. g[s[m]] = h[m]
    BY <2>1
  <2>11. V(m) = A \union {s[m]}
    BY <2>2, <2>3
  <2> HIDE DEF V
  <2> QED
    BY <2>1, <2>2, <2>4, <2>8, <2>9, <2>10, <2>11
<1> HIDE DEF P
<1>3. n \in P
  BY <1>1, <1>2, NatSetInduction
<1>4. \A x : x \in S <=> x \in V(n)
  OBVIOUS
<1>5. S = V(n)
  BY <1>4
<1> QED
  BY <1>3, <1>5 DEF P

\* After the last domain the counts of a router add up to what it routed.
LEMMA TotalIsRouted ==
    ASSUME QInv, pc = "replace", NEW l \in Routers, NEW e \in Expert
    PROVE  Total(l, e) = Routed(l, e)
<1>1. ValidRecipe(recipe) /\ Covered /\ at > Len(CoverageDomains) /\ at \in Nat
  BY DEF QInv, Typed, Gates, Place, Measuring
<1>2. PICK s : s = CoverageDomains
  OBVIOUS
<1>3. PICK n \in Nat : n = Len(s)
  BY <1>2, DomainsAre
<1>4. DOMAIN s = 1..n /\ DOMAIN CoverageDomains = 1..n
  BY <1>2, <1>3, DomainsAre
<1>5. PICK g : g = [d \in DOMAIN counts[l] |-> counts[l][d][e]]
  OBVIOUS
<1>6. PICK h : h = [i \in DOMAIN CoverageDomains |->
                      RowSum(l, CoverageDomains[i], e, Len(Rows[CoverageDomains[i]]))]
  OBVIOUS
<1>7. \A x : x \in DOMAIN counts[l] <=> \E i \in 1..n : x = s[i]
  <2>1. l \in Layer
    BY <1>1, RoutersAreLayers
  <2>2. DOMAIN counts[l] = ToSet(recipe.weight.domains)
    BY <2>1 DEF QInv, Typed
  <2> QED
    BY <1>2, <1>4, <2>2 DEF ToSet, CoverageDomains
<1>8. \A i, j \in 1..n : s[i] = s[j] => i = j
  BY <1>1, <1>2, <1>4, DomainsOnce
<1>9. ASSUME NEW i \in 1..n PROVE g[s[i]] \in Nat /\ h[i] = g[s[i]]
  <2>1. s[i] \in DOMAIN counts[l]
    BY <1>7
  <2>2. g[s[i]] = counts[l][s[i]][e]
    BY <1>5, <2>1
  <2>3. i < at
    BY <1>1, <1>2, <1>3
  <2>4. counts[l][s[i]][e] = RowSum(l, s[i], e, Len(Rows[s[i]]))
    BY <1>2, <1>4, <2>3, ExactIs DEF Exact
  <2>5. RowSum(l, s[i], e, Len(Rows[s[i]])) \in Nat
    <3>1. s[i] \in DOMAIN Rows /\ Len(Rows[s[i]]) \in Nat
      BY <1>2, <1>4, DomainsAre
    <3>2. PICK d \in DOMAIN Rows, m \in Nat : d = s[i] /\ m = Len(Rows[d])
      BY <3>1
    <3>3. m <= Len(Rows[d])
      BY <3>2
    <3>4. RowSum(l, d, e, m) \in Nat
      BY <3>3, RowSumStep
    <3> QED
      BY <3>2, <3>4
  <2> QED
    BY <1>2, <1>4, <1>6, <2>2, <2>4, <2>5
<1>10. SumOn(g, DOMAIN counts[l]) = SumOn(h, 1..n)
  <2>1. PICK S : S = DOMAIN counts[l]
    OBVIOUS
  <2>2. SumOn(g, S) = SumOn(h, 1..n)
    <3>1. \A x : x \in S <=> \E i \in 1..n : x = s[i]
      BY <1>7, <2>1
    <3>2. \A i \in 1..n : g[s[i]] \in Nat /\ h[i] = g[s[i]]
      BY <1>9
    <3>3. Reindexed(n, s, S, g, h)
      BY <1>8, <3>1, <3>2 DEF Reindexed
    <3> QED
      BY <3>3, SumReindexed
  <2> QED
    BY <2>1, <2>2
<1>11. Total(l, e) = SumOn(g, DOMAIN counts[l])
  BY <1>5, SumIsSumOn DEF Total
<1>12. Routed(l, e) = SumOn(h, 1..n)
  BY <1>4, <1>6, SumIsSumOn DEF Routed
<1> QED
  BY <1>10, <1>11, <1>12

\* A forward pass counts one row more, or removes the hooks.
LEMMA ForwardKeeps == ASSUME QInv, Forward PROVE QInv'
<1>1. /\ UNCHANGED <<at, artifacts, temp, report, saved, inputs>>
      /\ tool' = tool /\ model' = model /\ recipe' = recipe
      /\ pc = "rows" /\ row <= Len(DomainRows)
  BY DEF Forward, files, inputs
<1>2. /\ Covered /\ ValidRecipe(recipe)
      /\ hooks = Routers /\ context.domain = CoverageDomains[at]
      /\ at \in DOMAIN CoverageDomains /\ at \in Nat /\ row \in Nat \ {0}
      /\ row <= Len(DomainRows) + 1
      /\ counts \in [Layer -> [ToSet(recipe.weight.domains) -> [Expert -> Nat]]]
  BY <1>1, DomainsAre DEF QInv, Typed, Gates, Place, Measuring
<1>3. CASE /\ pc' = "failed" /\ hooks' = {} /\ context' = None /\ counts' = counts /\ row' = row
  <2>1. Typed' /\ Gates'
    BY <1>1, <1>3, InputsKeep DEF QInv, Typed, Gates, Before, Measuring, After, Steps
  <2>2. Place' /\ Outcome'
    BY <1>1, <1>3, InputsKeep DEF QInv, Place, Outcome, Before, After
  <2>3. Exact'
    BY <1>3 DEF Exact
  <2> QED
    BY <2>1, <2>2, <2>3, Together
<1>4. CASE /\ row' = row + 1 /\ UNCHANGED <<pc, hooks, context>>
           /\ counts' = [l \in Layer |-> IF l \notin hooks THEN counts[l] ELSE
                  [counts[l] EXCEPT ![context.domain] =
                     [e \in Expert |-> @[e] + Picks(l, DomainRows[row].tokens,
                                                    DomainRows[row].real, e)]]]
  <2>1. PICK d : d = CoverageDomains[at]
    OBVIOUS
  <2>2. d \in ToSet(recipe.weight.domains) /\ d \in DOMAIN Rows /\ DomainRows = Rows[d]
        /\ Len(Rows[d]) \in Nat
    BY <1>2, <2>1, DomainsAre DEF DomainRows
  <2>3. DomainRows[row].real \in Nat
    BY <1>1, <1>2, <2>2, QuantizeAssumption
  <2>4. \A l \in Layer, e \in Expert :
           Picks(l, DomainRows[row].tokens, DomainRows[row].real, e) \in Nat
    BY <2>3, PicksNat
  <2>5. counts' \in [Layer -> [ToSet(recipe.weight.domains) -> [Expert -> Nat]]]
    <3>1. ASSUME NEW l \in Layer
          PROVE  [e \in Expert |-> counts[l][d][e] + Picks(l, DomainRows[row].tokens,
                                                           DomainRows[row].real, e)]
                    \in [Expert -> Nat]
      BY <1>2, <2>2, <2>4
    <3>2. ASSUME NEW l \in Layer
          PROVE  counts'[l] \in [ToSet(recipe.weight.domains) -> [Expert -> Nat]]
      BY <1>2, <1>4, <2>1, <2>2, <3>1
    <3> QED
      BY <1>4, <3>2
  <2>6. Typed' /\ Gates'
    <3>1. row' \in Nat \ {0}
      BY <1>2, <1>4
    <3>2. Typed'
      BY <1>1, <1>4, <2>5, <3>1 DEF QInv, Typed
    <3>3. Gates'
      BY <1>1, <1>4, InputsKeep DEF QInv, Gates
    <3> QED
      BY <3>2, <3>3
  <2>7. Place'
    <3>1. DomainRows' = DomainRows
      BY <1>1, InputsKeep DEF DomainRows
    <3>2. row + 1 <= Len(DomainRows) + 1
      BY <1>1, <1>2, <2>2
    <3> QED
      BY <1>1, <1>4, <3>1, <3>2, InputsKeep DEF QInv, Place, Before
  <2>8. Outcome'
    BY <1>1, <1>4, InputsKeep DEF QInv, Outcome
  <2>9. Exact'
    <3> SUFFICES ASSUME NEW l \in Routers, NEW i \in DOMAIN CoverageDomains, NEW e \in Expert
                 PROVE  counts'[l][CoverageDomains[i]][e] =
                           RowSum(l, CoverageDomains[i], e,
                                  IF i < at THEN Len(Rows[CoverageDomains[i]])
                                  ELSE IF i = at THEN row' - 1 ELSE 0)
      <4>1. pc' = "rows" /\ at' = at
        BY <1>1, <1>4
      <4> QED
        BY <1>1, <4>1, InputsKeep DEF Exact
    <3>1. l \in Layer /\ CoverageDomains[i] \in ToSet(recipe.weight.domains) /\ i \in Nat
      BY <1>2, RoutersAreLayers, DomainsAre
    <3>2. counts[l][CoverageDomains[i]][e] =
             RowSum(l, CoverageDomains[i], e,
                    IF i < at THEN Len(Rows[CoverageDomains[i]])
                    ELSE IF i = at THEN row - 1 ELSE 0)
      BY <1>1, ExactIs DEF Exact
    <3>3. CASE i = at
      <4>1. counts'[l][d][e] = counts[l][d][e] + Picks(l, Rows[d][row].tokens, Rows[d][row].real, e)
        BY <1>2, <1>4, <2>1, <2>2, <3>1
      <4>2. PICK n \in Nat : n = row - 1
        BY <1>2
      <4>3. n < Len(Rows[d]) /\ n + 1 = row
        BY <1>1, <1>2, <2>2, <4>2
      <4>4. RowSum(l, d, e, n + 1) = RowSum(l, d, e, n)
               + Picks(l, Rows[d][n + 1].tokens, Rows[d][n + 1].real, e)
        BY <2>2, <4>3, RowSumStep
      <4>5. RowSum(l, d, e, row) = RowSum(l, d, e, row - 1)
               + Picks(l, Rows[d][row].tokens, Rows[d][row].real, e)
        BY <4>2, <4>3, <4>4
      <4>6. counts[l][d][e] = RowSum(l, d, e, row - 1)
        BY <1>2, <2>1, <3>2, <3>3
      <4>7. row' - 1 = row
        BY <1>2, <1>4
      <4>8. counts'[l][d][e] = RowSum(l, d, e, row)
        BY <4>1, <4>5, <4>6
      <4> QED
        BY <1>2, <2>1, <3>3, <4>7, <4>8
    <3>4. CASE i # at
      <4>1. CoverageDomains[i] # d
        BY <1>2, <2>1, <3>4, DomainsOnce
      <4>2. counts'[l][CoverageDomains[i]] = counts[l][CoverageDomains[i]]
        BY <1>2, <1>4, <2>1, <3>1, <4>1
      <4> QED
        BY <3>2, <3>4, <4>2
    <3> QED
      BY <3>3, <3>4
  <2> QED
    BY <2>6, <2>7, <2>8, <2>9, Together
<1> QED
  BY <1>3, <1>4 DEF Forward, Unhooked

(***************************************************************************)
(* The report and the theorems                                             *)
(***************************************************************************)
\* The report is written aside, or the write fails.
LEMMA WritesKeep == ASSUME QInv, WriteTemp \/ WriteFails \/ ReplaceFails PROVE QInv'
<1>1. /\ UNCHANGED <<inputs, at, row, counts, hooks, context, artifacts, report, saved>>
      /\ tool' = tool /\ model' = model /\ recipe' = recipe
      /\ pc \in {"temp", "replace"} /\ temp' \in BOOLEAN
      /\ \/ pc' \in {"replace", "leaked"}
         \/ pc' = "failed" /\ ~temp'
  BY DEF WriteTemp, WriteFails, ReplaceFails, measure, inputs
<1>2. Gates'
  BY <1>1, InputsKeep DEF QInv, Gates, Before, Measuring, After
<1>3. Place' /\ Outcome'
  BY <1>1, InputsKeep DEF QInv, Place, Outcome, Before, After
<1> QED
  BY <1>1, <1>2, <1>3, Aside DEF QInv, Typed, Steps, Measuring

\* The gate judges the routers by what they did.
LEMMA GateIsFair ==
    ASSUME QInv, pc = "replace", NEW l \in Routers
    PROVE  LayerFails(l) = Fails(l)
<1>1. \A e \in Expert : Total(l, e) = Routed(l, e)
  BY TotalIsRouted
<1>2. {e \in Expert : Total(l, e) = 0} = {e \in Expert : Routed(l, e) = 0}
  BY <1>1
<1>3. (\E e \in Expert : Total(l, e) < recipe.coverage.minimum)
         = (\E e \in Expert : Routed(l, e) < recipe.coverage.minimum)
  BY <1>1
<1> QED
  BY <1>2, <1>3 DEF LayerFails, Fails

\* The report is the verdict on what was routed.
LEMMA ReplaceReportKeeps == ASSUME QInv, ReplaceReport PROVE QInv'
<1>1. /\ UNCHANGED <<inputs, at, row, counts, hooks, context, artifacts, saved>>
      /\ tool' = tool /\ model' = model /\ recipe' = recipe
      /\ pc = "replace" /\ temp' = FALSE
      /\ report' = [l \in Routers |-> LayerFails(l)]
      /\ pc' \in {"failed", "calibrate"}
      /\ pc' = "calibrate" => \A l \in Routers : ~LayerFails(l)
  BY DEF ReplaceReport, Verdict, measure, inputs
<1>2. Covered
  BY <1>1 DEF QInv, Gates, Measuring
<1>3. Gates'
  BY <1>1, InputsKeep DEF QInv, Gates, Before, Measuring, After
<1>4. Place'
  BY <1>1, InputsKeep DEF QInv, Place, Before
<1>5. \A l \in Routers : LayerFails(l) = Fails(l)
  BY <1>1, GateIsFair
<1>6. report' # None
  <2>1. \A l \in Routers : LayerFails(l) \in BOOLEAN
    BY DEF LayerFails
  <2>2. report' \in [Routers -> BOOLEAN]
    BY <1>1, <2>1
  <2>3. Routers \in SUBSET Layer
    BY <1>2, RoutersAreLayers
  <2>4. None \notin [Routers -> BOOLEAN]
    BY <2>3, QuantizeAssumption
  <2> QED
    BY <2>2, <2>4
<1>7. \A l \in Routers : report'[l] = Fails(l)
  BY <1>1, <1>5
<1>8. pc' = "calibrate" => \A l \in Routers : ~Fails(l)
  BY <1>1, <1>5
<1>9. Outcome'
  <2>1. Routers' = Routers /\ Covered' = Covered /\ \A l : Fails(l)' = Fails(l)
    BY <1>1, InputsKeep DEF Covered
  <2>2. \A l \in Routers' : report'[l] = Fails(l)'
    BY <1>7, <2>1
  <2>3. pc' \in After => pc' = "calibrate"
    BY <1>1 DEF After
  <2>4. pc' = "calibrate" => \A l \in Routers' : ~Fails(l)'
    BY <1>8, <2>1
  <2>5. ~temp'
    BY <1>1
  <2> QED
    BY <1>6, <2>2, <2>3, <2>4, <2>5 DEF Outcome
<1> QED
  BY <1>1, <1>3, <1>4, <1>9, Aside DEF QInv, Typed, Steps, After

\* Every step keeps the invariant.
LEMMA QInvStep == ASSUME QInv, [Next]_vars PROVE QInv'
<1>1. CASE UNCHANGED vars
  <2>1. UNCHANGED <<inputs, tool, recipe, model, pc, at, row, hooks, context, counts, artifacts,
                    temp, report, saved>>
    BY <1>1 DEF vars, inputs, measure, files
  <2>2. DomainRows' = DomainRows
    BY <2>1, InputsKeep DEF DomainRows
  <2>3. Typed' /\ Gates'
    BY <2>1, InputsKeep DEF QInv, Typed, Gates
  <2>4. Place' /\ Outcome'
    BY <2>1, <2>2, InputsKeep DEF QInv, Place, Outcome
  <2>5. Exact'
    BY <2>1, InputsKeep, ExactIs DEF Exact
  <2> QED
    BY <2>3, <2>4, <2>5, Together
<1>2. CASE Next
  BY <1>2, GatesKeep, PassesKeep, RegisterHooksKeeps, StartDomainKeeps, ForwardKeeps,
     EndDomainKeeps, EndMeasurementKeeps, WritesKeep, ReplaceReportKeeps DEF Next
<1> QED
  BY <1>1, <1>2

\* It holds at the start.
LEMMA InitQInv == ASSUME Init PROVE QInv
<1>1. Typed
  <2>1. counts \in [Layer -> [ToSet(recipe.weight.domains) -> [Expert -> Nat]]]
    BY DEF Init, NoCounts
  <2>2. pc = "recipe" /\ at = 1 /\ row = 1 /\ ~temp /\ ~saved
    BY DEF Init
  <2>3. tool \in Tools /\ recipe \in Recipes /\ model \in Models
    BY DEF Init
  <2>4. temp \in BOOLEAN /\ saved \in BOOLEAN
    BY DEF Init
  <2> QED
    BY <2>1, <2>2, <2>3, <2>4 DEF Typed, Steps, Before
<1>2. Gates
  BY DEF Init, Gates, Before, Measuring, After
<1>3. Place
  BY DEF Init, Place, Before
<1>4. Outcome
  BY DEF Init, Outcome, After
<1>5. MeasurementIsExact
  BY DEF Init, MeasurementIsExact
<1> QED
  BY <1>1, <1>2, <1>3, <1>4, <1>5 DEF QInv

\* What was routed can be compared with what is demanded.
LEMMA RoutedIsNat == ASSUME QInv, NEW l, NEW e PROVE Routed(l, e) \in Nat
<1>1. PICK n \in Nat : DOMAIN CoverageDomains = 1..n
  BY DomainsAre
<1>2. PICK h : h = [i \in DOMAIN CoverageDomains |->
                      RowSum(l, CoverageDomains[i], e, Len(Rows[CoverageDomains[i]]))]
  OBVIOUS
<1>3. ASSUME NEW i \in DOMAIN CoverageDomains
      PROVE  RowSum(l, CoverageDomains[i], e, Len(Rows[CoverageDomains[i]])) \in Nat
  <2>1. PICK d \in DOMAIN Rows, m \in Nat : d = CoverageDomains[i] /\ m = Len(Rows[d])
    BY DomainsAre
  <2>2. m <= Len(Rows[d])
    BY <2>1
  <2>3. RowSum(l, d, e, m) \in Nat
    BY <2>2, RowSumStep
  <2> QED
    BY <2>1, <2>3
<1>4. h \in [1..n -> Nat] /\ IsFiniteSet(1..n)
  <2>1. \A i \in DOMAIN CoverageDomains : h[i] \in Nat
    BY <1>2, <1>3
  <2>2. DOMAIN h = 1..n /\ h = [i \in DOMAIN h |-> h[i]]
    BY <1>1, <1>2
  <2> QED
    BY <1>1, <2>1, <2>2, FS_Interval
<1>5. Sum(h) \in Nat
  BY <1>4, SumIsNat
<1> QED
  BY <1>2, <1>5 DEF Routed

\* The gates lie behind, the counts are exact, the report is the verdict: of
\* every state of the two programs.
THEOREM QuantizeInvariant == Spec => []QInv
<1>1. Init => QInv
  BY InitQInv
<1>2. QInv /\ [Next]_vars => QInv'
  BY QInvStep
<1> QED
  BY <1>1, <1>2, PTL DEF Spec

\* Whatever is saved has passed its gates, in the sense of what the routers
\* did with the tokens and not of what was counted.
THEOREM SavedAlwaysPassedItsGates == Spec => []SavedPassedItsGates
<1>1. ASSUME QInv, saved PROVE SavedPassedItsGates
  <2>1. pc = "done" /\ ValidRecipe(recipe) /\ ~model.quantized /\ Disjoint
        /\ (tool = "awq" => artifacts = {})
    BY <1>1 DEF QInv, Gates, After
  <2>2. ASSUME Covered, NEW l \in Routers
        PROVE  /\ \A e \in Expert : Routed(l, e) >= recipe.coverage.minimum
               /\ Cardinality({e \in Expert : Routed(l, e) = 0}) <= recipe.coverage.uncovered
    <3>1. ~Fails(l)
      BY <1>1, <2>1, <2>2 DEF QInv, Outcome, After
    <3>2. recipe.coverage.minimum \in Int /\ recipe.coverage.uncovered \in Int
      BY <1>1, <2>2, QuantizeAssumption DEF QInv, Typed, Covered
    <3>3. \A e \in Expert : Routed(l, e) \in Int
      BY <1>1, RoutedIsNat
    <3>4. Cardinality({e \in Expert : Routed(l, e) = 0}) \in Int
      <4>1. {e \in Expert : Routed(l, e) = 0} \subseteq Expert
        OBVIOUS
      <4> QED
        BY <4>1, QuantizeAssumption, FS_Subset, FS_CardinalityType
    <3>5. \A e \in Expert : Routed(l, e) >= recipe.coverage.minimum
      BY <3>1, <3>2, <3>3 DEF Fails
    <3>6. Cardinality({e \in Expert : Routed(l, e) = 0}) <= recipe.coverage.uncovered
      BY <3>1, <3>2, <3>4 DEF Fails
    <3> QED
      BY <3>5, <3>6
  <2> QED
    BY <2>1, <2>2 DEF SavedPassedItsGates, Disjoint, Covered
<1>2. QInv => SavedPassedItsGates
  BY <1>1 DEF SavedPassedItsGates
<1> QED
  BY <1>2, QuantizeInvariant, PTL

\* The hooks count every real token once, and a measurement that began takes
\* them along when it ends.
THEOREM MeasurementAlwaysExact == Spec => []MeasurementIsExact
<1>1. QInv => MeasurementIsExact
  BY DEF QInv
<1> QED
  BY <1>1, QuantizeInvariant, PTL

\* A report tells what the routers did, also of a measurement that fails, and
\* the checkpoint that asked for one is not finished without it.
THEOREM ReportAlwaysExplains == Spec => []ReportExplains
<1>1. ASSUME QInv PROVE ReportExplains
  <2>1. pc \in {"failed", "done"} => ~temp
    BY <1>1 DEF QInv, Outcome
  <2>2. ASSUME report # None, NEW l \in Routers
        PROVE  report[l] = (\/ \E e \in Expert : Routed(l, e) < recipe.coverage.minimum
                            \/ Cardinality({e \in Expert : Routed(l, e) = 0})
                                 > recipe.coverage.uncovered)
    BY <1>1, <2>2 DEF QInv, Outcome, Fails
  <2>3. pc = "done" /\ tool = "nvfp4" /\ recipe.coverage # None => report # None
    BY <1>1 DEF QInv, Outcome, After, Covered
  <2> QED
    BY <2>1, <2>2, <2>3 DEF ReportExplains
<1>2. QInv => ReportExplains
  BY <1>1
<1> QED
  BY <1>2, QuantizeInvariant, PTL

-----------------------------------------------------------------------------
(***************************************************************************)
(* ImatrixPipeline: what is fed of a text                                  *)
(***************************************************************************)

\* Rounding up to whole chunks.
LEMMA RoundUp ==
    ASSUME NEW a \in Nat, NEW c \in Nat \ {0}
    PROVE  LET q == (a + c - 1) \div c
           IN  q \in Nat /\ q * c >= a /\ q * c < a + c
<1>1. PICK b \in Nat : b = a + c - 1
  OBVIOUS
<1>2. PICK q \in Int : q = b \div c
  BY <1>1
<1>3. q * c <= b /\ b < (q + 1) * c
  BY <1>2, Z3
<1>4. (q + 1) * c = q * c + c
  BY <1>2, Z3
<1>5. q * c \in Int
  BY <1>2
<1>6. q * c >= a /\ q * c < a + c
  BY <1>1, <1>3, <1>4, <1>5
<1>7. q >= 0
  <2> SUFFICES ASSUME q <= -1 PROVE FALSE
    BY <1>2
  <2>1. q * c <= (-1) * c
    BY <1>2, Z3
  <2>2. (-1) * c = -c
    BY Z3
  <2> QED
    BY <1>5, <1>6, <2>1, <2>2
<1> QED
  BY <1>1, <1>2, <1>6, <1>7

LEMMA TimesGrows ==
    ASSUME NEW a \in Nat, NEW b \in Nat, NEW c \in Nat, a <= b
    PROVE  a * c <= b * c /\ a * c \in Nat /\ b * c \in Nat
<1>1. PICK d \in Nat : b = a + d
  <2>1. b - a \in Nat /\ b = a + (b - a)
    OBVIOUS
  <2> QED
    BY <2>1
<1>2. a * c \in Nat /\ d * c \in Nat /\ b * c \in Nat
  BY Z3
<1>3. b * c = a * c + d * c
  BY <1>1, Z3
<1> QED
  BY <1>2, <1>3

LEMMA TimesNext ==
    ASSUME NEW a \in Nat, NEW c \in Nat
    PROVE  (a + 1) * c = a * c + c /\ a * c \in Nat
BY Z3

\* Where the first k chunks of a text of a length end.
EndOf(k, length) == IF k * Context < length THEN k * Context ELSE length
ChunksOf(length) == (length + Context - 1) \div Context

LEMMA EndsAre ==
    ASSUME NEW n \in Nat
    PROVE  /\ ChunksOf(n) \in Nat /\ EndOf(0, n) = 0 /\ EndOf(ChunksOf(n), n) = n
           /\ \A k \in Nat : EndOf(k, n) \in 0..n
           /\ \A k \in 1..ChunksOf(n) :
                 /\ (k - 1) * Context < n /\ EndOf(k - 1, n) = (k - 1) * Context
                 /\ EndOf(k - 1, n) < EndOf(k, n)
<1>0. Context \in Nat \ {0}
  BY ImatrixAssumption
<1>1. PICK m : m = ChunksOf(n)
  OBVIOUS
<1>2. m \in Nat /\ m * Context >= n /\ m * Context < n + Context
  BY <1>0, <1>1, RoundUp DEF ChunksOf
<1>3. EndOf(0, n) = 0
  <2>1. 0 * Context = 0
    BY <1>0, Z3
  <2> QED
    BY <2>1 DEF EndOf
<1>4. EndOf(m, n) = n
  <2>1. m * Context \in Int
    BY <1>0, <1>2
  <2> QED
    BY <1>2, <2>1 DEF EndOf
<1>5. ASSUME NEW k \in Nat PROVE EndOf(k, n) \in 0..n
  <2>1. k * Context \in Nat
    BY <1>0, TimesNext
  <2> QED
    BY <2>1 DEF EndOf
<1>6. ASSUME NEW k \in 1..m
      PROVE  /\ (k - 1) * Context < n /\ EndOf(k - 1, n) = (k - 1) * Context
             /\ EndOf(k - 1, n) < EndOf(k, n)
  <2>1. PICK j \in Nat : j = k - 1 /\ j + 1 = k
    OBVIOUS
  <2>2. j + 1 <= m
    BY <1>2, <2>1
  <2>3. (j + 1) * Context <= m * Context
    BY <1>0, <1>2, <2>2, TimesGrows
  <2>4. (j + 1) * Context = j * Context + Context /\ j * Context \in Nat
    BY <1>0, TimesNext
  <2>5. m * Context \in Nat
    BY <1>0, <1>2, TimesNext
  <2>6. j * Context < n
    BY <1>0, <1>2, <2>3, <2>4, <2>5
  <2>7. EndOf(j, n) = j * Context
    BY <2>6 DEF EndOf
  <2>8. EndOf(j, n) < EndOf(j + 1, n)
    BY <1>0, <2>4, <2>6, <2>7 DEF EndOf
  <2> QED
    BY <2>1, <2>6, <2>7, <2>8
<1> QED
  BY <1>1, <1>2, <1>3, <1>4, <1>5, <1>6

\* The chunks of a text.
LEMMA ChunksAre ==
    ASSUME NEW T, NEW x \in Seq(T)
    PROVE  /\ Len(Chunked(x)) = ChunksOf(Len(x))
           /\ DOMAIN Chunked(x) = 1..ChunksOf(Len(x))
           /\ Chunked(x) \in Seq(Seq(T))
           /\ \A k \in 1..ChunksOf(Len(x)) :
                 /\ Len(Chunked(x)[k]) = EndOf(k, Len(x)) - EndOf(k - 1, Len(x))
                 /\ \A i \in 1..Len(Chunked(x)[k]) : Chunked(x)[k][i] = x[EndOf(k - 1, Len(x)) + i]
<1>1. PICK n \in Nat : n = Len(x)
  OBVIOUS
<1>2. PICK m \in Nat : m = ChunksOf(n)
  BY EndsAre
<1>3. Chunked(x) = [k \in 1..m |-> SubSeq(x, (k - 1) * Context + 1, EndOf(k, n))]
  BY <1>1, <1>2 DEF Chunked, ChunksOf, EndOf
<1>4. ASSUME NEW k \in 1..m
      PROVE  /\ Chunked(x)[k] \in Seq(T)
             /\ Len(Chunked(x)[k]) = EndOf(k, n) - EndOf(k - 1, n)
             /\ \A i \in 1..Len(Chunked(x)[k]) : Chunked(x)[k][i] = x[EndOf(k - 1, n) + i]
  <2>1. PICK p : p = EndOf(k - 1, n)
    OBVIOUS
  <2>2. PICK q : q = EndOf(k, n)
    OBVIOUS
  <2>3. p \in 0..n /\ q \in 0..n /\ p < q /\ (k - 1) * Context = p
    <3>1. k \in Nat /\ k - 1 \in Nat
      OBVIOUS
    <3> QED
      BY <1>2, <2>1, <2>2, <3>1, EndsAre
  <2>4. Chunked(x)[k] = SubSeq(x, p + 1, q)
    BY <1>3, <2>2, <2>3
  <2>5. /\ SubSeq(x, p + 1, q) \in Seq(T) /\ Len(SubSeq(x, p + 1, q)) = q - p
        /\ \A i \in 1..(q - p) : SubSeq(x, p + 1, q)[i] = x[p + i]
    <3>1. PICK s : s = SubSeq(x, p + 1, q)
      OBVIOUS
    <3>2. p + 1 \in 1..n /\ q \in 1..n
      BY <2>3
    <3>3. s \in Seq(T) /\ Len(s) = q - p
      BY <1>1, <2>3, <3>1, <3>2
    <3>4. \A i \in 1..(q - p) : s[i] = x[(p + 1) + i - 1]
      BY <1>1, <2>3, <3>1, <3>2
    <3>5. \A i \in 1..(q - p) : (p + 1) + i - 1 = p + i
      BY <2>3
    <3> QED
      BY <3>1, <3>3, <3>4, <3>5
  <2> QED
    BY <2>1, <2>2, <2>4, <2>5
<1>5. DOMAIN Chunked(x) = 1..m
  BY <1>3
<1>6. Chunked(x) \in [1..m -> Seq(T)]
  BY <1>3, <1>4
<1>7. Chunked(x) \in Seq(Seq(T)) /\ Len(Chunked(x)) = m
  BY <1>6, <1>5
<1> QED
  BY <1>1, <1>2, <1>4, <1>5, <1>7

\* A total is a sum over the whole domain.
LEMMA AddedIs == \A f : Added(f) = SumOn(f, DOMAIN f)
BY DEF Added, SumOn, FoldFunction

\* The total of a function over a set that is given by a rule.
LEMMA AddedOver ==
    ASSUME NEW S, IsFiniteSet(S), NEW f, DOMAIN f = S, NEW g, \A i \in S : f[i] = g[i]
    PROVE  Added(f) = SumOn(g, S)
<1>1. Added(f) = SumOn(f, S)
  BY AddedIs
<1> QED
  BY <1>1, SumOnSame

\* The first chunks are as long as the text up to their end.
LEMMA LengthsAre ==
    ASSUME NEW n \in Nat, NEW lens,
           \A k \in 1..ChunksOf(n) : lens[k] = EndOf(k, n) - EndOf(k - 1, n)
    PROVE  \A k \in 0..ChunksOf(n) : SumOn(lens, 1..k) = EndOf(k, n)
<1>1. PICK m \in Nat : m = ChunksOf(n)
  BY EndsAre
<1>2. \A k \in 0..m : EndOf(k, n) \in Nat
  BY EndsAre
<1>3. \A k \in 1..m : lens[k] \in Nat
  <2>1. ASSUME NEW k \in 1..m PROVE lens[k] \in Nat
    <3>1. EndOf(k - 1, n) < EndOf(k, n)
      BY <1>1, EndsAre
    <3>2. EndOf(k - 1, n) \in Nat /\ EndOf(k, n) \in Nat
      BY <1>2
    <3>3. lens[k] = EndOf(k, n) - EndOf(k - 1, n)
      BY <1>1
    <3> QED
      BY <3>1, <3>2, <3>3
  <2> QED
    BY <2>1
<1> DEFINE P == {k \in Nat : k <= m => SumOn(lens, 1..k) = EndOf(k, n)}
<1>4. 0 \in P
  <2>1. SumOn(lens, {}) = 0 /\ 1..0 = {}
    BY FS_EmptySet, SumOnRest
  <2> QED
    BY <2>1, EndsAre
<1>5. ASSUME NEW k \in Nat, k \in P PROVE k + 1 \in P
  <2> SUFFICES ASSUME k + 1 <= m PROVE SumOn(lens, 1..(k + 1)) = EndOf(k + 1, n)
    OBVIOUS
  <2>1. PICK S : S = 1..k
    OBVIOUS
  <2>2. IsFiniteSet(S) /\ k + 1 \notin S /\ 1..(k + 1) = S \union {k + 1}
    <3>1. IsFiniteSet(1..k)
      BY FS_Interval
    <3>2. k + 1 \notin 1..k /\ 1..(k + 1) = (1..k) \union {k + 1}
      OBVIOUS
    <3> QED
      BY <2>1, <3>1, <3>2
  <2>3. \A y \in S \union {k + 1} : lens[y] \in Nat
    BY <1>3, <2>1, <1>1
  <2>4. SumOn(lens, S \union {k + 1}) = SumOn(lens, S) + lens[k + 1]
    <3> HIDE DEF P
    <3>1. PICK x : x = k + 1
      OBVIOUS
    <3>2. x \notin S /\ \A y \in S \union {x} : lens[y] \in Nat
      BY <2>2, <2>3, <3>1
    <3>3. SumOn(lens, S \union {x}) = SumOn(lens, S) + lens[x]
      BY ONLY <2>2, <3>2, SumOnMore
    <3> QED
      BY <3>1, <3>3
  <2>5. SumOn(lens, S) = EndOf(k, n)
    BY <1>5, <2>1
  <2>6. lens[k + 1] = EndOf(k + 1, n) - EndOf(k, n)
    <3>1. k + 1 \in 1..m /\ (k + 1) - 1 = k
      BY <1>1
    <3> QED
      BY <1>1, <3>1
  <2>7. EndOf(k, n) \in Nat /\ EndOf(k + 1, n) \in Nat
    <3>1. k \in 0..m /\ k + 1 \in 0..m
      BY <1>1
    <3> QED
      BY <1>2, <3>1
  <2>8. SumOn(lens, 1..(k + 1)) = EndOf(k, n) + (EndOf(k + 1, n) - EndOf(k, n))
    BY <2>2, <2>4, <2>5, <2>6
  <2> QED
    BY ONLY <2>7, <2>8
<1>6. Nat \subseteq P
  <2> HIDE DEF P
  <2> QED
    BY <1>4, <1>5, NatSetInduction
<1> QED
  BY <1>1, <1>6

\* Limited takes whole chunks until the limit is reached.
LEMMA LimitedIs ==
    ASSUME NEW T, NEW x \in Seq(T)
    PROVE  \E m \in 0..ChunksOf(Len(x)) :
              /\ Limited(Chunked(x)) = SubSeq(Chunked(x), 1, m)
              /\ EndOf(m, Len(x)) = Fed(x)
<1>0. Context \in Nat \ {0} /\ Limit \in Nat
  BY ImatrixAssumption
<1>1. PICK n \in Nat : n = Len(x)
  OBVIOUS
<1>2. PICK c \in Nat : c = ChunksOf(n)
  BY EndsAre
<1>3. PICK cs : cs = Chunked(x)
  OBVIOUS
<1>4. cs \in Seq(Seq(T)) /\ Len(cs) = c /\ DOMAIN cs = 1..c
  BY <1>1, <1>2, <1>3, ChunksAre
<1>5. ASSUME NEW k \in 0..c PROVE Added([i \in 1..k |-> Len(cs[i])]) = EndOf(k, n)
  <2>1. PICK lens : lens = [i \in 1..c |-> Len(cs[i])]
    OBVIOUS
  <2>2. \A i \in 1..c : lens[i] = EndOf(i, n) - EndOf(i - 1, n)
    BY <1>1, <1>2, <1>3, <2>1, ChunksAre
  <2>3. SumOn(lens, 1..k) = EndOf(k, n)
    BY <1>2, <2>2, LengthsAre
  <2>4. PICK f, S : f = [i \in 1..k |-> Len(cs[i])] /\ S = 1..k
    OBVIOUS
  <2>5. IsFiniteSet(S) /\ DOMAIN f = S /\ \A i \in S : f[i] = lens[i]
    BY <2>1, <2>4, FS_Interval
  <2>6. Added(f) = SumOn(lens, S)
    BY ONLY <2>5, AddedOver
  <2> QED
    BY <2>3, <2>4, <2>6
<1> DEFINE reaches(k) == Added([i \in 1..k |-> Len(cs[i])]) >= Limit
           least(k) == reaches(k) /\ \A j \in 1..(k - 1) : ~reaches(j)
<1>6. Limited(cs) = IF Limit = 0 \/ \A k \in DOMAIN cs : ~reaches(k) THEN cs
                    ELSE SubSeq(cs, 1, CHOOSE k \in DOMAIN cs : least(k))
  BY DEF Limited
<1>7. \A k \in 0..c : reaches(k) <=> EndOf(k, n) >= Limit
  BY <1>5
<1> HIDE DEF reaches
<1>8. SubSeq(cs, 1, c) = cs
  BY <1>4
<1>9. PICK q \in Nat : /\ q = (Limit + Context - 1) \div Context
                       /\ q * Context >= Limit /\ q * Context < Limit + Context
  BY <1>0, RoundUp
<1>10. Fed(x) = IF Limit = 0 \/ q * Context > n THEN n ELSE q * Context
  BY <1>1, <1>9 DEF Fed
<1>11. EndOf(c, n) = n /\ c \in 0..c
  BY <1>2, EndsAre
<1>12. q * Context \in Nat
  BY <1>0, TimesNext
<1>13. CASE Limit = 0
  BY <1>1, <1>2, <1>3, <1>6, <1>8, <1>10, <1>11, <1>13
<1>14. CASE Limit # 0 /\ \A k \in DOMAIN cs : ~reaches(k)
  <2>1. n < Limit
    <3>1. CASE c = 0
      BY <1>0, <1>11, <1>14, <3>1, EndsAre
    <3>2. CASE c # 0
      <4>1. c \in DOMAIN cs /\ c \in 0..c
        BY <1>4, <3>2
      <4> QED
        BY <1>0, <1>7, <1>11, <1>14, <4>1
    <3> QED
      BY <3>1, <3>2
  <2>2. Fed(x) = n
    BY <1>0, <1>9, <1>10, <1>12, <2>1
  <2> QED
    BY <1>1, <1>2, <1>3, <1>6, <1>8, <1>11, <1>14, <2>2
<1>15. CASE Limit # 0 /\ \E k \in DOMAIN cs : reaches(k)
  <2>1. PICK R : R = {k \in 1..c : reaches(k)}
    OBVIOUS
  <2>2. PICK k \in R : \A j \in R : k <= j
    <3>1. R \subseteq Nat /\ R # {}
      BY <1>4, <1>15, <2>1
    <3> QED
      BY <3>1, SmallestExists
  <2>3. \E i \in DOMAIN cs : least(i)
    <3>1. ASSUME NEW j \in 1..(k - 1) PROVE ~reaches(j)
      <4>1. k \in 1..c
        BY <2>1
      <4>2. j \in 1..c /\ ~(k <= j)
        BY <4>1
      <4> QED
        BY <2>1, <2>2, <4>2
    <3> QED
      BY <1>4, <2>1, <3>1
  <2>4. PICK m : m = CHOOSE i \in DOMAIN cs : least(i)
    OBVIOUS
  <2>5. m \in 1..c /\ least(m)
    BY <1>4, <2>3, <2>4
  <2>6. EndOf(m, n) >= Limit /\ \A j \in 1..(m - 1) : ~(EndOf(j, n) >= Limit)
    <3>1. \A j \in 1..(m - 1) : j \in 0..c
      BY <2>5
    <3> QED
      BY <1>7, <2>5, <3>1
  <2>7. Limited(cs) = SubSeq(cs, 1, m)
    BY <1>6, <1>15, <2>4
  <2>8. m * Context \in Nat /\ m \in Nat
    BY <1>0, <2>5, TimesNext
  <2>9. m * Context >= Limit
    BY <1>0, <2>6, <2>8 DEF EndOf
  <2>10. m >= q
    <3> SUFFICES ASSUME m < q PROVE FALSE
      BY <2>8
    <3>1. m + 1 <= q
      BY <2>8
    <3>2. (m + 1) * Context <= q * Context
      BY <1>0, <2>8, <3>1, TimesGrows
    <3>3. (m + 1) * Context = m * Context + Context
      BY <1>0, <2>8, TimesNext
    <3> QED
      BY <1>0, <1>9, <1>12, <2>8, <2>9, <3>2, <3>3
  <2>11. EndOf(m, n) = Fed(x)
    <3>1. CASE q * Context > n
      <4>1. q * Context <= m * Context
        BY <1>0, <2>8, <2>10, TimesGrows
      <4>2. EndOf(m, n) = n
        BY <1>12, <2>8, <3>1, <4>1 DEF EndOf
      <4> QED
        BY <1>10, <3>1, <4>2
    <3>2. CASE q * Context <= n
      <4>1. EndOf(q, n) = q * Context
        BY <1>12, <3>2 DEF EndOf
      <4>2. EndOf(q, n) >= Limit
        BY <1>9, <4>1
      <4>3. q >= 1
        <5>1. q # 0
          <6>1. 0 * Context = 0
            BY <1>0, Z3
          <6> QED
            BY <1>0, <1>9, <1>15, <6>1
        <5> QED
          BY <5>1
      <4>4. ~(q < m)
        <5> SUFFICES ASSUME q < m PROVE FALSE
          OBVIOUS
        <5>1. q \in 1..(m - 1)
          BY <2>8, <4>3
        <5> QED
          BY <2>6, <4>2, <5>1
      <4>5. m = q
        BY <2>8, <2>10, <4>4
      <4> QED
        BY <1>10, <1>12, <1>15, <3>2, <4>1, <4>5
    <3> QED
      BY <1>12, <3>1, <3>2
  <2> QED
    BY <1>1, <1>2, <1>3, <2>5, <2>7, <2>11
<1> QED
  BY <1>13, <1>14, <1>15

-----------------------------------------------------------------------------
(***************************************************************************)
(* What is accumulated                                                     *)
(***************************************************************************)

\* The first q places at which there is a value.
Marked(f, q) == {i \in 1..q : f[i] # Absent}

LEMMA MarkedIs ==
    ASSUME NEW f, NEW q \in Nat
    PROVE  /\ IsFiniteSet(Marked(f, q)) /\ Cardinality(Marked(f, q)) \in Nat
           /\ Marked(f, q) \subseteq 1..q
<1>1. IsFiniteSet(1..q) /\ Marked(f, q) \subseteq 1..q
  BY FS_Interval DEF Marked
<1>2. IsFiniteSet(Marked(f, q))
  BY <1>1, FS_Subset
<1> QED
  BY <1>1, <1>2, FS_CardinalityType

LEMMA MarkedNext ==
    ASSUME NEW f, NEW q \in Nat
    PROVE  /\ f[q + 1] = Absent => Marked(f, q + 1) = Marked(f, q)
           /\ f[q + 1] # Absent => /\ Marked(f, q + 1) = Marked(f, q) \union {q + 1}
                                   /\ q + 1 \notin Marked(f, q)
                                   /\ Cardinality(Marked(f, q + 1)) = Cardinality(Marked(f, q)) + 1
<1>1. \A i : i \in 1..(q + 1) <=> i \in 1..q \/ i = q + 1
  OBVIOUS
<1>2. q + 1 \notin 1..q
  OBVIOUS
<1>3. f[q + 1] = Absent => Marked(f, q + 1) = Marked(f, q)
  BY <1>1 DEF Marked
<1>4. f[q + 1] # Absent => Marked(f, q + 1) = Marked(f, q) \union {q + 1}
  BY <1>1 DEF Marked
<1>5. q + 1 \notin Marked(f, q)
  BY <1>2 DEF Marked
<1>6. Cardinality(Marked(f, q) \union {q + 1}) = Cardinality(Marked(f, q)) + 1
  BY <1>5, MarkedIs, FS_AddElement
<1> QED
  BY <1>3, <1>4, <1>5, <1>6

\* What is added by the part of a sequence that g is.
LEMMA SegmentAdds ==
    ASSUME NEW f, NEW g, NEW p \in Nat, NEW l \in Nat,
           \A i \in 1..(p + l) : f[i] \in Nat \cup {Absent},
           \A i \in 1..l : g[i] = f[p + i]
    PROVE  /\ Cardinality(Marked(f, p + l)) = Cardinality(Marked(f, p)) + Cardinality(Marked(g, l))
           /\ SumOn(f, Marked(f, p + l)) = SumOn(f, Marked(f, p)) + SumOn(g, Marked(g, l))
<1> DEFINE Adds(m) ==
              /\ Cardinality(Marked(f, p + m)) =
                    Cardinality(Marked(f, p)) + Cardinality(Marked(g, m))
              /\ SumOn(f, Marked(f, p + m)) = SumOn(f, Marked(f, p)) + SumOn(g, Marked(g, m))
           P == {m \in Nat : m <= l => Adds(m)}
<1>1. ASSUME NEW q \in Nat, q <= p + l
      PROVE  \A i \in Marked(f, q) : f[i] \in Nat
  BY <1>1 DEF Marked
<1>2. ASSUME NEW q \in Nat, q <= l PROVE \A i \in Marked(g, q) : g[i] \in Nat
  <2>1. ASSUME NEW i \in Marked(g, q) PROVE g[i] \in Nat
    <3>1. i \in 1..l /\ g[i] # Absent
      BY <1>2 DEF Marked
    <3>2. p + i \in 1..(p + l)
      BY <3>1
    <3> QED
      BY <3>1, <3>2
  <2> QED
    BY <2>1
<1>3. ASSUME NEW q \in Nat, q <= p + l PROVE SumOn(f, Marked(f, q)) \in Nat
  <2>1. PICK S : S = Marked(f, q)
    OBVIOUS
  <2>2. IsFiniteSet(S) /\ \A i \in S : f[i] \in Nat
    BY <1>1, <1>3, <2>1, MarkedIs
  <2>3. SumOn(f, S) \in Nat
    BY ONLY <2>2, SumOnNat
  <2> QED
    BY <2>1, <2>3
<1>4. ASSUME NEW q \in Nat, q <= l PROVE SumOn(g, Marked(g, q)) \in Nat
  <2>1. PICK S : S = Marked(g, q)
    OBVIOUS
  <2>2. IsFiniteSet(S) /\ \A i \in S : g[i] \in Nat
    BY <1>2, <1>4, <2>1, MarkedIs
  <2>3. SumOn(g, S) \in Nat
    BY ONLY <2>2, SumOnNat
  <2> QED
    BY <2>1, <2>3
<1>5. 0 \in P
  <2>1. Marked(g, 0) = {} /\ p + 0 = p
    BY DEF Marked
  <2>2. Cardinality({}) = 0 /\ SumOn(g, {}) = 0
    BY FS_EmptySet, SumOnRest
  <2>3. Cardinality(Marked(f, p)) \in Nat /\ SumOn(f, Marked(f, p)) \in Nat
    BY <1>3, MarkedIs
  <2> QED
    BY <2>1, <2>2, <2>3
<1>6. ASSUME NEW m \in Nat, m \in P PROVE m + 1 \in P
  <2> SUFFICES ASSUME m + 1 <= l PROVE Adds(m + 1)
    OBVIOUS
  <2>1. Adds(m)
    BY <1>6
  <2>2. PICK q \in Nat : q = p + m /\ q + 1 = p + (m + 1) /\ q + 1 \in 1..(p + l)
    OBVIOUS
  <2>3. g[m + 1] = f[q + 1]
    BY <2>2
  <2>4. CASE f[q + 1] = Absent
    <3>1. Marked(f, q + 1) = Marked(f, q) /\ Marked(g, m + 1) = Marked(g, m)
      BY <2>3, <2>4, MarkedNext
    <3> QED
      BY <2>1, <2>2, <3>1
  <2>5. CASE f[q + 1] # Absent
    <3>1. PICK A, B : A = Marked(f, q) /\ B = Marked(g, m)
      OBVIOUS
    <3>2. PICK x, y : x = q + 1 /\ y = m + 1
      OBVIOUS
    <3>3. /\ Marked(f, x) = A \union {x} /\ x \notin A
          /\ Cardinality(Marked(f, x)) = Cardinality(A) + 1
          /\ Marked(g, y) = B \union {y} /\ y \notin B
          /\ Cardinality(Marked(g, y)) = Cardinality(B) + 1
      BY <2>3, <2>5, <3>1, <3>2, MarkedNext
    <3>4. IsFiniteSet(A) /\ IsFiniteSet(B)
      BY <3>1, MarkedIs
    <3>5. \A i \in A \union {x} : f[i] \in Nat
      BY <1>1, <2>2, <3>2, <3>3
    <3>6. \A i \in B \union {y} : g[i] \in Nat
      BY <1>2, <3>2, <3>3
    <3>7. SumOn(f, A \union {x}) = SumOn(f, A) + f[x]
      BY ONLY <3>3, <3>4, <3>5, SumOnMore
    <3>8. SumOn(g, B \union {y}) = SumOn(g, B) + g[y]
      BY ONLY <3>3, <3>4, <3>6, SumOnMore
    <3>9. f[x] = g[y] /\ f[x] \in Nat
      BY <2>3, <3>2, <3>3, <3>5
    <3>10. /\ Cardinality(A) \in Nat /\ Cardinality(B) \in Nat
           /\ Cardinality(Marked(f, p)) \in Nat /\ SumOn(f, Marked(f, p)) \in Nat
           /\ SumOn(f, A) \in Nat /\ SumOn(g, B) \in Nat
      BY <1>3, <1>4, <2>2, <3>1, MarkedIs
    <3>11. /\ Cardinality(A) = Cardinality(Marked(f, p)) + Cardinality(B)
           /\ SumOn(f, A) = SumOn(f, Marked(f, p)) + SumOn(g, B)
      BY <2>1, <2>2, <3>1
    <3>12. Cardinality(Marked(f, x)) = Cardinality(Marked(f, p)) + Cardinality(Marked(g, y))
      BY ONLY <3>3, <3>10, <3>11
    <3>13. SumOn(f, Marked(f, x)) = SumOn(f, Marked(f, p)) + SumOn(g, Marked(g, y))
      BY ONLY <3>3, <3>7, <3>8, <3>9, <3>10, <3>11
    <3> QED
      BY <2>2, <3>2, <3>12, <3>13
  <2> QED
    BY <2>4, <2>5
<1>7. Nat \subseteq P
  <2> HIDE DEF P
  <2> QED
    BY <1>5, <1>6, NatSetInduction
<1> QED
  BY <1>7

\* What each token of a text leaves in a tensor.
Values(t, x) == [i \in DOMAIN x |-> Activation(t, x[i])]

\* The accumulator after the first q tokens of a text.
State(x, q) ==
    [t \in Tensors |-> [n |-> Cardinality(Marked(Values(t, x), q)),
                        sum |-> SumOn(Values(t, x), Marked(Values(t, x), q))]]

IsText(x) ==
    /\ \E T : x \in Seq(T)
    /\ \A t \in Tensors : \A i \in 1..Len(x) : Activation(t, x[i]) \in Nat \cup {Absent}

LEMMA ZeroIs == \A x : Zero = State(x, 0)
<1>1. \A f : Marked(f, 0) = {}
  BY DEF Marked
<1>2. \A f : Cardinality({}) = 0 /\ SumOn(f, {}) = 0
  BY FS_EmptySet, SumOnRest
<1> QED
  BY <1>1, <1>2 DEF Zero, State

\* A chunk that goes on where the accumulator stands takes it to its end.
LEMMA AccumulateIs ==
    ASSUME NEW x, IsText(x), NEW T, NEW c \in Seq(T), NEW p \in Nat,
           p + Len(c) <= Len(x), \A i \in 1..Len(c) : c[i] = x[p + i]
    PROVE  Accumulate(State(x, p), c) = State(x, p + Len(c))
<1>1. PICK l \in Nat : l = Len(c) /\ DOMAIN c = 1..l
  OBVIOUS
<1>2. Len(x) \in Nat /\ DOMAIN x = 1..Len(x)
  BY DEF IsText
<1>3. ASSUME NEW t \in Tensors
      PROVE  LET seen == {i \in DOMAIN c : Activation(t, c[i]) # Absent}
             IN  /\ Cardinality(Marked(Values(t, x), p + l)) =
                       Cardinality(Marked(Values(t, x), p)) + Cardinality(seen)
                 /\ SumOn(Values(t, x), Marked(Values(t, x), p + l)) =
                       SumOn(Values(t, x), Marked(Values(t, x), p))
                       + Added([i \in seen |-> Activation(t, c[i])])
  <2>1. PICK f, g : f = Values(t, x) /\ g = Values(t, c)
    OBVIOUS
  <2>2. \A i \in 1..(p + l) : f[i] \in Nat \cup {Absent}
    <3>1. \A i \in 1..(p + l) : i \in 1..Len(x)
      BY <1>1, <1>2
    <3> QED
      BY <1>2, <2>1, <3>1 DEF Values, IsText
  <2>3. \A i \in 1..l : g[i] = f[p + i]
    <3>1. \A i \in 1..l : p + i \in 1..Len(x)
      BY <1>1, <1>2
    <3> QED
      BY <1>1, <1>2, <2>1, <3>1 DEF Values
  <2>4. PICK seen : seen = {i \in DOMAIN c : Activation(t, c[i]) # Absent}
    OBVIOUS
  <2>5. seen = Marked(g, l)
    BY <1>1, <2>1, <2>4 DEF Marked, Values
  <2>6. PICK h : h = [i \in seen |-> Activation(t, c[i])]
    OBVIOUS
  <2>7. Added(h) = SumOn(g, seen)
    <3>1. IsFiniteSet(seen) /\ DOMAIN h = seen
      BY <2>5, <2>6, MarkedIs
    <3>2. \A i \in seen : h[i] = g[i]
      BY <2>1, <2>4, <2>6 DEF Values
    <3> QED
      BY ONLY <3>1, <3>2, AddedOver
  <2>8. /\ Cardinality(Marked(f, p + l)) = Cardinality(Marked(f, p)) + Cardinality(Marked(g, l))
        /\ SumOn(f, Marked(f, p + l)) = SumOn(f, Marked(f, p)) + SumOn(g, Marked(g, l))
    <3>1. p \in Nat /\ l \in Nat
      OBVIOUS
    <3> QED
      BY ONLY <3>1, <2>2, <2>3, SegmentAdds
  <2> QED
    BY <2>1, <2>4, <2>5, <2>6, <2>7, <2>8
<1>4. PICK a : a = State(x, p)
  OBVIOUS
<1>5. \A t \in Tensors : /\ a[t].n = Cardinality(Marked(Values(t, x), p))
                         /\ a[t].sum = SumOn(Values(t, x), Marked(Values(t, x), p))
  BY <1>4 DEF State
<1>6. Accumulate(a, c) = State(x, p + l)
  BY <1>3, <1>5 DEF Accumulate, State
<1> QED
  BY <1>1, <1>4, <1>6

\* The matrix of what was fed of a text is its statistic.
LEMMA EntriesAre ==
    ASSUME NEW x, IsText(x), Fed(x) \in 0..Len(x)
    PROVE  IsStatisticOf(Entries(State(x, Fed(x))), x)
<1>1. PICK q \in Nat : q = Fed(x) /\ q <= Len(x) /\ Len(x) \in Nat /\ DOMAIN x = 1..Len(x)
  BY DEF IsText
<1>2. PICK a : a = State(x, q)
  OBVIOUS
<1>3. ASSUME NEW t \in Tensors
      PROVE  /\ Reached(t, x) = Marked(Values(t, x), q)
             /\ a[t].n = Cardinality(Reached(t, x)) /\ a[t].sum = SumReached(t, x)
             /\ a[t].n > 0 <=> Reached(t, x) # {}
  <2>1. \A i \in 1..q : i \in DOMAIN x
    BY <1>1
  <2>2. Reached(t, x) = Marked(Values(t, x), q)
    BY <1>1, <2>1 DEF Reached, Marked, Values
  <2>3. PICK S, f : S = Marked(Values(t, x), q) /\ f = [i \in S |-> Activation(t, x[i])]
    OBVIOUS
  <2>4. IsFiniteSet(S) /\ S \subseteq 1..q
    BY <2>3, MarkedIs
  <2>5. Added(f) = SumOn(Values(t, x), S)
    <3>1. PICK g : g = Values(t, x)
      OBVIOUS
    <3>2. DOMAIN f = S /\ \A i \in S : f[i] = g[i]
      BY <2>1, <2>3, <2>4, <3>1 DEF Values
    <3>3. Added(f) = SumOn(g, S)
      BY ONLY <2>4, <3>2, AddedOver
    <3> QED
      BY <3>1, <3>3
  <2>6. a[t].n = Cardinality(S) /\ a[t].sum = SumOn(Values(t, x), S)
    BY <1>2, <2>3 DEF State
  <2>7. Cardinality(S) \in Nat /\ (Cardinality(S) = 0 <=> S = {})
    BY <2>4, FS_CardinalityType, FS_EmptySet
  <2>8. a[t].n > 0 <=> S # {}
    BY <2>6, <2>7
  <2> QED
    BY <2>2, <2>3, <2>5, <2>6, <2>8 DEF SumReached
<1>4. PICK e : e = Entries(a)
  OBVIOUS
<1>5. /\ DOMAIN e = {t \in Tensors : a[t].n > 0}
      /\ \A t \in DOMAIN e : e[t] = a[t]
  BY <1>4 DEF Entries
<1>6. DOMAIN e = {t \in Tensors : Reached(t, x) # {}}
  BY <1>3, <1>5
<1> QED
  BY <1>1, <1>2, <1>3, <1>4, <1>5, <1>6 DEF IsStatisticOf

\* A bounded set of numbers has a largest one.
LEMMA LargestExists ==
    ASSUME NEW n \in Nat, NEW T, T \subseteq 0..n, T # {}
    PROVE  \E x \in T : \A y \in T : x >= y
<1> DEFINE B == {b \in Nat : \A y \in T : b >= y}
<1>1. n \in B
  OBVIOUS
<1>2. PICK b \in B : \A c \in B : b <= c
  <2>1. B \subseteq Nat /\ B # {}
    BY <1>1
  <2> HIDE DEF B
  <2> QED
    BY <2>1, SmallestExists
<1>3. b \in T
  <2> SUFFICES ASSUME b \notin T PROVE FALSE
    OBVIOUS
  <2>1. \A y \in T : y \in Nat /\ b > y
    BY <1>2
  <2>2. PICK y \in T : TRUE
    OBVIOUS
  <2>3. PICK c \in Nat : b = c + 1
    <3>1. b \in Nat /\ b # 0
      BY <2>1, <2>2
    <3> QED
      BY <3>1
  <2>4. c \in B
    BY <2>1, <2>3
  <2>5. b <= c
    BY <1>2, <2>4
  <2> QED
    BY <2>3, <2>5
<1> QED
  BY <1>2, <1>3

\* Max is the largest element of such a set.
LEMMA MaxIs ==
    ASSUME NEW n \in Nat, NEW T, T \subseteq 0..n, T # {}
    PROVE  Max(T) \in T /\ \A y \in T : Max(T) >= y
<1>1. \E x \in T : \A y \in T : x >= y
  BY LargestExists
<1> QED
  BY <1>1 DEF Max

\* A tensor is hooked on a module of its name.
LEMMA HookedIs == ASSUME NEW t \in Tensors PROVE Hooked(t) \in DOMAIN Modules
<1>1. PICK n \in Nat : n = Len(Modules) /\ DOMAIN Modules = 1..n
  BY ImatrixAssumption
<1>2. PICK T : T = {i \in 1..n : Modules[i].tensor = t}
  OBVIOUS
<1>3. T \subseteq 0..n /\ T # {} /\ T \subseteq 1..n
  BY <1>1, <1>2 DEF Tensors
<1>4. Max(T) \in T
  BY <1>3, MaxIs
<1>5. Hooked(t) = Max(T)
  BY <1>1, <1>2, <1>3 DEF Hooked, SelectLastInSeq
<1> QED
  BY <1>1, <1>3, <1>4, <1>5

\* The texts of the builds are such texts.
LEMMA TextsAre ==
    ASSUME NEW b \in Builds, NEW j \in ToSet(Jobs)
    PROVE  IsText(Text[b][j])
<1>1. PICK x : x = Text[b][j]
  OBVIOUS
<1>2. x \in Seq(ToSet(x)) /\ \A m \in ToSet(Modules), y \in ToSet(x) : m.sees[y] \in Nat \cup {Absent}
  BY <1>1, ImatrixAssumption
<1>3. ASSUME NEW t \in Tensors, NEW i \in 1..Len(x)
      PROVE  Activation(t, x[i]) \in Nat \cup {Absent}
  <2>1. x[i] \in ToSet(x)
    BY <1>2 DEF ToSet
  <2>2. Modules[Hooked(t)] \in ToSet(Modules)
    BY HookedIs DEF ToSet
  <2> QED
    BY <1>2, <2>1, <2>2 DEF Activation
<1> QED
  BY <1>1, <1>2, <1>3 DEF IsText

-----------------------------------------------------------------------------
(***************************************************************************)
(* What is blended                                                         *)
(***************************************************************************)

\* A common factor of a sum.
LEMMA SumScaled ==
    ASSUME NEW S, IsFiniteSet(S), NEW d \in Nat, NEW f, NEW g,
           \A x \in S : f[x] \in Nat /\ g[x] = f[x] * d
    PROVE  SumOn(g, S) = SumOn(f, S) * d
<1> DEFINE P == {s \in SUBSET S : SumOn(g, s) = SumOn(f, s) * d}
<1>1. ASSUME NEW s \in SUBSET S, \A t \in SUBSET S : Cardinality(t) < Cardinality(s) => t \in P
      PROVE  s \in P
  <2>1. IsFiniteSet(s)
    BY FS_Subset
  <2>2. CASE s = {}
    <3>1. SumOn(f, s) = 0 /\ SumOn(g, s) = 0
      BY <2>1, <2>2, SumOnRest
    <3>2. 0 * d = 0
      BY Z3
    <3> QED
      BY <3>1, <3>2
  <2>3. CASE s # {}
    <3>1. PICK r \in SUBSET S : r = s \ {Chosen(s)}
      BY <2>3
    <3>2. PICK x \in s : x = Chosen(s)
      BY <2>3, Rest
    <3>3. Cardinality(r) \in Nat /\ Cardinality(s) = Cardinality(r) + 1
      BY <2>3, <3>1, Rest
    <3>4. SumOn(g, r) = SumOn(f, r) * d
      BY <1>1, <3>3
    <3>5. SumOn(f, s) = f[x] + SumOn(f, r) /\ SumOn(g, s) = g[x] + SumOn(g, r)
      BY <2>1, <2>3, <3>1, <3>2, SumOnRest
    <3>6. SumOn(f, r) \in Nat /\ f[x] \in Nat /\ g[x] = f[x] * d
      BY SumOnNat
    <3>7. \A a, b \in Nat : a * d + b * d = (a + b) * d
      BY Z3
    <3> QED
      BY <3>4, <3>5, <3>6, <3>7
  <2> QED
    BY <2>2, <2>3
<1>2. SUBSET S \subseteq P
  <2> HIDE DEF P
  <2> QED
    BY <1>1, SubsetInduction
<1> QED
  BY <1>2

\* Division of a multiple.
LEMMA DivideTimes ==
    ASSUME NEW q \in Nat, NEW e \in Nat \ {0}
    PROVE  (q * e) % e = 0 /\ (q * e) \div e = q
<1>1. PICK x \in Nat : x = q * e
  BY Z3
<1>2. x \div e \in Int /\ x % e \in 0..(e - 1) /\ x = (e * (x \div e)) + (x % e)
  BY <1>1, Z3
<1>3. PICK r \in Int, y \in Int : r = x \div e /\ y = x % e
  BY <1>2
<1>4. e * (q - r) = y /\ 0 <= y /\ y < e
  BY <1>1, <1>2, <1>3, Z3
<1>5. q = r
  BY <1>3, <1>4, Z3
<1> QED
  BY <1>1, <1>3, <1>4, <1>5, Z3

DividesMore(x, e, d) ==
    /\ x \div e \in Nat
    /\ (x * d) % e = 0 /\ (x * d) \div e = (x \div e) * d

\* A multiple of a number stays one.
LEMMA DivideMore ==
    ASSUME NEW x \in Nat, NEW e \in Nat \ {0}, NEW d \in Nat, x % e = 0
    PROVE  DividesMore(x, e, d)
<1>1. PICK q \in Nat : q = x \div e /\ x = q * e
  BY Z3
<1>2. PICK r \in Nat : r = q * d
  BY Z3
<1>3. x * d = r * e
  BY <1>1, <1>2, Z3
<1>4. (r * e) % e = 0 /\ (r * e) \div e = r
  BY <1>2, DivideTimes
<1> QED
  BY <1>1, <1>2, <1>3, <1>4 DEF DividesMore

\* One step of the blend of a tensor.
BlendStep(p, ims, t, k) ==
    IF t \in DOMAIN ims[k]
    THEN Plus(p, [num |-> Weights[k] * ims[k][t].sum, den |-> TotalWeight * ims[k][t].n])
    ELSE p

Blending(f, ims, t, n) ==
    f = [k \in 0..n |-> IF k = 0 THEN [num |-> 0, den |-> 1]
                        ELSE BlendStep(f[k - 1], ims, t, k)]

LEMMA BlendingExists ==
    ASSUME NEW ims, NEW t, NEW n \in Nat
    PROVE  \E f : Blending(f, ims, t, n)
<1> DEFINE P == {m \in Nat : \E f : Blending(f, ims, t, m)}
<1>1. 0 \in P
  <2>1. PICK f : f = [k \in 0..0 |-> [num |-> 0, den |-> 1]]
    OBVIOUS
  <2>2. f = [k \in 0..0 |-> IF k = 0 THEN [num |-> 0, den |-> 1]
                            ELSE BlendStep(f[k - 1], ims, t, k)]
    <3>1. \A k \in 0..0 : k = 0
      OBVIOUS
    <3> QED
      BY <2>1, <3>1
  <2> QED
    BY <2>2 DEF Blending
<1>2. ASSUME NEW m \in Nat, m \in P PROVE m + 1 \in P
  <2>1. PICK f : Blending(f, ims, t, m)
    BY <1>2
  <2>2. \A k \in 0..m : f[k] = IF k = 0 THEN [num |-> 0, den |-> 1]
                               ELSE BlendStep(f[k - 1], ims, t, k)
    BY <2>1 DEF Blending
  <2>3. PICK g : g = [k \in 0..(m + 1) |-> IF k <= m THEN f[k] ELSE BlendStep(f[m], ims, t, m + 1)]
    OBVIOUS
  <2>4. ASSUME NEW k \in 0..(m + 1)
        PROVE  g[k] = IF k = 0 THEN [num |-> 0, den |-> 1] ELSE BlendStep(g[k - 1], ims, t, k)
    <3>1. CASE k = 0
      BY <2>2, <2>3, <3>1
    <3>2. CASE k # 0 /\ k <= m
      <4>1. k \in 0..m /\ k - 1 \in 0..(m + 1) /\ k - 1 <= m
        BY <3>2
      <4>2. g[k] = f[k] /\ g[k - 1] = f[k - 1]
        BY <2>3, <3>2, <4>1
      <4> QED
        BY <2>2, <3>2, <4>1, <4>2
    <3>3. CASE k = m + 1
      <4>1. k # 0 /\ k - 1 = m /\ m \in 0..(m + 1) /\ ~(k <= m)
        BY <3>3
      <4>2. g[k] = BlendStep(f[m], ims, t, m + 1) /\ g[k - 1] = f[m]
        BY <2>3, <4>1
      <4> QED
        BY <3>3, <4>1, <4>2
    <3> QED
      BY <3>1, <3>2, <3>3
  <2>5. g = [k \in 0..(m + 1) |-> IF k = 0 THEN [num |-> 0, den |-> 1]
                                 ELSE BlendStep(g[k - 1], ims, t, k)]
    BY <2>3, <2>4
  <2> QED
    BY <2>5 DEF Blending
<1>3. Nat \subseteq P
  <2> HIDE DEF P
  <2> QED
    BY <1>1, <1>2, NatSetInduction
<1> QED
  BY <1>3

LEMMA BlendedIs ==
    ASSUME NEW T, NEW ims \in Seq(T), NEW t
    PROVE  \E f : Blending(f, ims, t, Len(ims)) /\ Blended(ims, t) = f[Len(ims)]
<1>1. PICK n \in Nat : n = Len(ims)
  OBVIOUS
<1>2. Blended(ims, t) = (CHOOSE f : Blending(f, ims, t, n))[n]
  BY <1>1 DEF Blended, Blending, BlendStep
<1>3. \E f : Blending(f, ims, t, n)
  BY BlendingExists
<1> QED
  BY <1>1, <1>2, <1>3

\* Weights are not all nothing.
LEMMA WeightIsThere ==
    /\ TotalWeight \in Nat \ {0}
    /\ \A i \in DOMAIN Domains : Weights[i] \in Nat \ {0}
<1>1. PICK n \in Nat : n = Len(Domains) /\ DOMAIN Domains = 1..n /\ n >= 1
  BY ImatrixAssumption
<1>2. \A i \in 1..n : Weights[i] \in Nat \ {0}
  BY <1>1, ImatrixAssumption
<1>3. PICK S : S = 1..n
  OBVIOUS
<1>4. IsFiniteSet(S) /\ 1 \in S /\ \A i \in S : Weights[i] \in Nat
  <2>1. IsFiniteSet(1..n)
    BY FS_Interval
  <2>2. 1 \in 1..n
    BY <1>1
  <2> QED
    BY <1>2, <1>3, <2>1, <2>2
<1>5. TotalWeight = SumOn(Weights, S)
  <2>1. DOMAIN Weights = S
    BY <1>1, <1>3, ImatrixAssumption
  <2> QED
    BY <2>1, AddedIs DEF TotalWeight
<1>6. SumOn(Weights, S) = Weights[1] + SumOn(Weights, S \ {1})
  BY ONLY <1>4, SumOnAny
<1>7. SumOn(Weights, S \ {1}) \in Nat
  BY ONLY <1>4, SumOnNat
<1>8. Weights[1] \in Nat \ {0}
  BY <1>1, <1>2
<1> QED
  BY <1>1, <1>2, <1>5, <1>6, <1>7, <1>8

\* The weighted sums over a common denominator.
Shares(w, d, den) == [i \in DOMAIN w |-> w[i] * (den \div d[i])]

SharesGrow(S, x, w, d, den) ==
    /\ den * d[x] \in Nat \ {0}
    /\ \A i \in S \union {x} : (den * d[x]) % d[i] = 0
    /\ SumOn(Shares(w, d, den * d[x]), S \union {x}) =
          SumOn(Shares(w, d, den), S) * d[x] + w[x] * den

\* One more summand makes the denominator larger, and every share with it.
LEMMA ShareMore ==
    ASSUME NEW S, IsFiniteSet(S), NEW x, x \notin S,
           NEW w \in [S \union {x} -> Nat], NEW d \in [S \union {x} -> Nat \ {0}],
           NEW den \in Nat \ {0}, \A i \in S : den % d[i] = 0
    PROVE  SharesGrow(S, x, w, d, den)
<1>1. PICK dx \in Nat \ {0} : dx = d[x]
  OBVIOUS
<1>2. PICK e \in Nat \ {0} : e = den * dx
  BY Z3
<1>3. PICK old, new : old = Shares(w, d, den) /\ new = Shares(w, d, e)
  OBVIOUS
<1>4. ASSUME NEW i \in S
      PROVE  e % d[i] = 0 /\ old[i] \in Nat /\ new[i] = old[i] * dx
  <2>1. PICK di \in Nat \ {0}, wi \in Nat : di = d[i] /\ wi = w[i]
    OBVIOUS
  <2>2. den % di = 0
    BY <2>1
  <2>3. /\ den \div di \in Nat
        /\ (den * dx) % di = 0 /\ (den * dx) \div di = (den \div di) * dx
    <3>1. DividesMore(den, di, dx)
      BY ONLY <2>2, DivideMore
    <3> QED
      BY <3>1 DEF DividesMore
  <2>4. PICK q, r : q = den \div di /\ r = e \div di /\ q \in Nat /\ r = q * dx /\ e % di = 0
    BY <1>2, <2>3
  <2>5. old[i] = wi * q /\ new[i] = wi * r
    BY <1>3, <2>1, <2>4 DEF Shares
  <2>6. wi * q \in Nat /\ wi * (q * dx) = (wi * q) * dx
    BY <2>4, Z3
  <2> QED
    BY <2>1, <2>4, <2>5, <2>6
<1>5. e % dx = 0 /\ new[x] = w[x] * den
  <2>1. e % dx = 0 /\ e \div dx = den
    BY <1>2, DivideTimes
  <2> QED
    BY <1>1, <1>3, <2>1 DEF Shares
<1>6. SumOn(new, S) = SumOn(old, S) * dx
  BY ONLY IsFiniteSet(S), <1>1, <1>4, SumScaled
<1>7. \A i \in S \union {x} : new[i] \in Nat
  <2>1. \A a, b \in Nat : a * b \in Nat
    BY Z3
  <2>2. \A i \in S : new[i] \in Nat
    BY <1>4, <2>1
  <2>3. w[x] \in Nat /\ new[x] \in Nat
    BY <1>5, <2>1
  <2> QED
    BY <2>2, <2>3
<1>8. SumOn(new, S \union {x}) = SumOn(new, S) + new[x]
  BY <1>7, SumOnMore
<1>9. \A i \in S \union {x} : e % d[i] = 0
  BY <1>1, <1>4, <1>5
<1> QED
  BY <1>1, <1>2, <1>3, <1>5, <1>6, <1>8, <1>9 DEF SharesGrow

\* The first k inputs that hold a tensor, and what each of them weighs.
Holding(ims, t, k) == {i \in 1..k : t \in DOMAIN ims[i]}
Weighted(ims, t) == [i \in Holding(ims, t, Len(ims)) |-> Weights[i] * ims[i][t].sum]
Divisors(ims, t) == [i \in Holding(ims, t, Len(ims)) |-> TotalWeight * ims[i][t].n]

Blends(v, ims, t, S) ==
    /\ v.den \in Nat \ {0}
    /\ \A i \in S : v.den % Divisors(ims, t)[i] = 0
    /\ v.num = SumOn(Shares(Weighted(ims, t), Divisors(ims, t), v.den), S)

\* A fraction added up from the inputs that hold a tensor is their blend.
LEMMA BlendIs ==
    ASSUME NEW T, NEW ims \in Seq(T), Len(ims) = Len(Domains), NEW t,
           \A i \in Holding(ims, t, Len(ims)) : ims[i][t].n \in Nat \ {0} /\ ims[i][t].sum \in Nat
    PROVE  Blends(Blended(ims, t), ims, t, Holding(ims, t, Len(ims)))
<1>1. PICK n \in Nat : n = Len(ims) /\ DOMAIN Domains = 1..n
  BY ImatrixAssumption
<1>2. PICK f : Blending(f, ims, t, n) /\ Blended(ims, t) = f[n]
  BY <1>1, BlendedIs
<1>3. \A k \in 0..n : f[k] = IF k = 0 THEN [num |-> 0, den |-> 1]
                             ELSE BlendStep(f[k - 1], ims, t, k)
  BY <1>2 DEF Blending
<1>4. ASSUME NEW i \in Holding(ims, t, n)
      PROVE  Weighted(ims, t)[i] \in Nat /\ Divisors(ims, t)[i] \in Nat \ {0}
  <2>1. PICK c \in Nat \ {0}, s \in Nat : c = ims[i][t].n /\ s = ims[i][t].sum
    BY <1>1
  <2>2. PICK w \in Nat \ {0}, u \in Nat \ {0} : w = Weights[i] /\ u = TotalWeight
    <3>1. i \in DOMAIN Domains
      BY <1>1 DEF Holding
    <3> QED
      BY <3>1, WeightIsThere
  <2>3. w * s \in Nat /\ u * c \in Nat \ {0}
    BY Z3
  <2> QED
    BY <1>1, <2>1, <2>2, <2>3 DEF Weighted, Divisors
<1>5. DOMAIN Weighted(ims, t) = Holding(ims, t, n)
  BY <1>1 DEF Weighted
<1> DEFINE P == {k \in Nat : k <= n => Blends(f[k], ims, t, Holding(ims, t, k))}
<1>6. 0 \in P
  <2>1. f[0] = [num |-> 0, den |-> 1]
    BY <1>3
  <2>2. Holding(ims, t, 0) = {}
    BY DEF Holding
  <2>3. SumOn(Shares(Weighted(ims, t), Divisors(ims, t), 1), {}) = 0
    BY SumOnRest, FS_EmptySet
  <2>4. PICK v : v = f[0]
    OBVIOUS
  <2>5. Blends(v, ims, t, {})
    BY <2>1, <2>3, <2>4 DEF Blends
  <2> QED
    BY <2>2, <2>4, <2>5
<1>7. ASSUME NEW k \in Nat, k \in P PROVE k + 1 \in P
  <2> SUFFICES ASSUME k + 1 <= n PROVE Blends(f[k + 1], ims, t, Holding(ims, t, k + 1))
    OBVIOUS
  <2>1. PICK S : S = Holding(ims, t, k)
    OBVIOUS
  <2>2. PICK p : p = f[k]
    OBVIOUS
  <2>3. Blends(p, ims, t, S)
    BY <1>7, <2>1, <2>2
  <2>4. PICK x \in 1..n : x = k + 1
    OBVIOUS
  <2>5. f[x] = BlendStep(p, ims, t, x)
    <3>1. x \in 0..n /\ x # 0 /\ x - 1 = k
      BY <2>4
    <3> QED
      BY <1>3, <2>2, <3>1
  <2>6. \A i : i \in 1..x <=> i \in 1..k \/ i = x
    BY <2>4
  <2>7. x \notin S /\ IsFiniteSet(S) /\ S \subseteq Holding(ims, t, n)
    <3>1. x \notin 1..k /\ \A i \in 1..k : i \in 1..n
      BY <2>4
    <3>2. IsFiniteSet(1..k) /\ S \subseteq 1..k
      BY <2>1, FS_Interval DEF Holding
    <3> QED
      BY <2>1, <3>1, <3>2, FS_Subset DEF Holding
  <2>8. CASE t \notin DOMAIN ims[x]
    <3>1. Holding(ims, t, x) = S /\ f[x] = p
      BY <2>1, <2>5, <2>6, <2>8 DEF Holding, BlendStep
    <3> QED
      BY <2>3, <2>4, <3>1
  <2>9. CASE t \in DOMAIN ims[x]
    <3>1. Holding(ims, t, x) = S \union {x}
      BY <2>1, <2>6, <2>9 DEF Holding
    <3>2. S \union {x} \subseteq Holding(ims, t, n)
      BY <2>7, <2>9 DEF Holding
    <3>3. PICK w, d : w = Weighted(ims, t) /\ d = Divisors(ims, t)
      OBVIOUS
    <3>4. PICK v, c : v = [i \in S \union {x} |-> w[i]] /\ c = [i \in S \union {x} |-> d[i]]
      OBVIOUS
    <3>5. v \in [S \union {x} -> Nat] /\ c \in [S \union {x} -> Nat \ {0}]
      BY <1>4, <3>2, <3>3, <3>4
    <3>6. PICK den \in Nat \ {0} : den = p.den
      BY <2>3 DEF Blends
    <3>7. \A i \in S : den % c[i] = 0
      BY <2>3, <3>3, <3>4, <3>6 DEF Blends
    <3>8. /\ den * c[x] \in Nat \ {0}
          /\ \A i \in S \union {x} : (den * c[x]) % c[i] = 0
          /\ SumOn(Shares(v, c, den * c[x]), S \union {x}) =
                SumOn(Shares(v, c, den), S) * c[x] + v[x] * den
      <4>1. SharesGrow(S, x, v, c, den)
        BY ONLY <2>7, <3>5, <3>7, ShareMore
      <4> QED
        BY <4>1 DEF SharesGrow
    <3>9. \A z, W : W \subseteq S \union {x} =>
             SumOn(Shares(v, c, z), W) = SumOn(Shares(w, d, z), W)
      <4> SUFFICES ASSUME NEW z, NEW W, W \subseteq S \union {x}
                   PROVE  SumOn(Shares(v, c, z), W) = SumOn(Shares(w, d, z), W)
        OBVIOUS
      <4>1. PICK g, h : g = Shares(v, c, z) /\ h = Shares(w, d, z)
        OBVIOUS
      <4>2. \A i \in W : g[i] = h[i]
        BY <1>5, <3>2, <3>3, <3>4, <4>1 DEF Shares
      <4>3. IsFiniteSet(W)
        BY <2>7, FS_AddElement, FS_Subset
      <4>4. SumOn(g, W) = SumOn(h, W)
        BY ONLY <4>2, <4>3, SumOnSame
      <4> QED
        BY <4>1, <4>4
    <3>10. p.num = SumOn(Shares(w, d, den), S)
      BY <2>3, <3>3, <3>6 DEF Blends
    <3>11. f[x] = [num |-> p.num * d[x] + w[x] * p.den, den |-> p.den * d[x]]
      <4>1. x \in Holding(ims, t, n)
        BY <3>2
      <4>2. w[x] = Weights[x] * ims[x][t].sum /\ d[x] = TotalWeight * ims[x][t].n
        BY <1>1, <3>3, <4>1 DEF Weighted, Divisors
      <4> QED
        BY <2>5, <2>9, <4>2 DEF BlendStep, Plus
    <3>12. c[x] = d[x] /\ v[x] = w[x] /\ \A i \in S \union {x} : c[i] = d[i]
      BY <3>4
    <3>13. f[x].den = den * c[x]
      BY <3>6, <3>11, <3>12
    <3>14. f[x].num = SumOn(Shares(w, d, den * c[x]), S \union {x})
      <4>1. S \subseteq S \union {x} /\ S \union {x} \subseteq S \union {x}
        OBVIOUS
      <4>2. SumOn(Shares(v, c, den), S) = SumOn(Shares(w, d, den), S)
        BY <3>9, <4>1
      <4>3. SumOn(Shares(v, c, den * c[x]), S \union {x}) = SumOn(Shares(w, d, den * c[x]), S \union {x})
        BY <3>9, <4>1
      <4>4. f[x].num = p.num * c[x] + v[x] * den
        BY <3>6, <3>11, <3>12
      <4> QED
        BY <3>8, <3>10, <4>2, <4>3, <4>4
    <3>15. Blends(f[x], ims, t, S \union {x})
      BY <3>3, <3>8, <3>12, <3>13, <3>14 DEF Blends
    <3> QED
      BY <2>4, <3>1, <3>15
  <2> QED
    BY <2>8, <2>9
<1>8. Nat \subseteq P
  <2> HIDE DEF P
  <2> QED
    BY <1>6, <1>7, NatSetInduction
<1> QED
  BY <1>1, <1>2, <1>8

(***************************************************************************)
(* The inductive invariant of the imatrix pipeline                         *)
(***************************************************************************)
Stages == {"idle", "job", "feed", "write", "merge", "write merged", "done", "failed", "killed"}

\* What is fed of a text and what is not yet, in whole chunks.
Feeding(cs, acc, x) ==
    \E m \in 0..ChunksOf(Len(x)) : \E k \in 0..m :
        /\ EndOf(m, Len(x)) = Fed(x)
        /\ cs = SubSeq(Chunked(x), k + 1, m)
        /\ acc = State(x, EndOf(k, Len(x)))

IsOf(f, x) == f # Absent /\ f.whole => IsStatisticOf(f.entries, x)

\* The jobs whose matrix is not of the text of a build.
Stale(f, b) == {j \in ToSet(Jobs) : ~IsOf(f[j], Text[b][j])}

\* A text that is not the one of now was replaced, and all the files with it.
Read(b) == b \in Builds /\ b <= build /\ (b = build \/ Stale(file, build) = {})

PlacesOk ==
    /\ build \in Builds
    /\ DOMAIN file = ToSet(Jobs)
    /\ stage \in Stages
    /\ pending \subseteq DOMAIN Jobs
    /\ stage \in {"job", "feed", "write"} => pending # {}

FilesOk ==
    /\ \A j \in ToSet(Jobs) : \E b \in Builds : b <= build /\ IsOf(file[j], Text[b][j])
    /\ \E j : Stale(file, build) \subseteq {j}

FeedOk ==
    stage = "feed" => \E b : Read(b) /\ Feeding(chunks, accumulator, Text[b][Job])

WriteOk ==
    stage = "write" => \E b : /\ Read(b)
                              /\ accumulator = State(Text[b][Job], Fed(Text[b][Job]))

MatricesOk ==
    /\ Len(matrices) <= Len(Domains) /\ \E T : matrices \in Seq(T)
    /\ \A i \in 1..Len(matrices) : \E b \in Builds : IsStatisticOf(matrices[i], Text[b][Domains[i]])
    /\ stage = "write merged" => Len(matrices) = Len(Domains)

ImInv == PlacesOk /\ FilesOk /\ FeedOk /\ WriteOk /\ MatricesOk /\ MergedIsTheBlend

LEMMA FedIs == ASSUME NEW x, IsText(x) PROVE Fed(x) \in 0..Len(x)
<1>1. PICK T : x \in Seq(T)
  BY DEF IsText
<1>2. PICK m \in 0..ChunksOf(Len(x)) : EndOf(m, Len(x)) = Fed(x)
  BY <1>1, LimitedIs
<1>3. Len(x) \in Nat /\ m \in Nat
  BY <1>1, EndsAre
<1> QED
  BY <1>2, <1>3, EndsAre

\* Feeding begins with nothing fed,
LEMMA FeedBegins ==
    ASSUME NEW x, IsText(x)
    PROVE  Feeding(Limited(Chunked(x)), Zero, x)
<1>1. PICK T : x \in Seq(T)
  BY DEF IsText
<1>2. PICK m \in 0..ChunksOf(Len(x)) :
         Limited(Chunked(x)) = SubSeq(Chunked(x), 1, m) /\ EndOf(m, Len(x)) = Fed(x)
  BY <1>1, LimitedIs
<1>3. PICK n \in Nat : n = Len(x)
  BY <1>1
<1>4. ChunksOf(n) \in Nat /\ EndOf(0, n) = 0
  BY EndsAre
<1>5. 0 \in 0..m /\ 0 + 1 = 1
  BY <1>2, <1>3, <1>4
<1>6. Zero = State(x, EndOf(0, Len(x)))
  BY <1>3, <1>4, ZeroIs
<1> QED
  BY <1>2, <1>5, <1>6 DEF Feeding

\* A part of a sequence without its first element is a part of it.
LEMMA PartGoesOn ==
    ASSUME NEW T, NEW all \in Seq(T), NEW m \in 1..Len(all), NEW j \in 1..m,
           NEW s, s = SubSeq(all, j, m)
    PROVE  Head(s) = all[j] /\ Tail(s) = SubSeq(all, j + 1, m)
<1>1. PICK n \in Nat : n = m - j /\ n + 1 = (m - j) + 1
  OBVIOUS
<1>2. s \in Seq(T) /\ Len(s) = n + 1 /\ \A i \in 1..(n + 1) : s[i] = all[j + i - 1]
  BY <1>1
<1>3. Head(s) = all[j]
  <2>1. 1 \in 1..(n + 1) /\ j + 1 - 1 = j
    OBVIOUS
  <2> QED
    BY <1>2, <2>1
<1>4. PICK r : r = SubSeq(all, j + 1, m)
  OBVIOUS
<1>5. r \in Seq(T) /\ Len(r) = n /\ \A i \in 1..n : r[i] = all[(j + 1) + i - 1]
  BY <1>1, <1>4
<1>6. PICK u : u = Tail(s)
  OBVIOUS
<1>7. u \in Seq(T) /\ Len(u) = n /\ \A i \in 1..n : u[i] = s[i + 1]
  <2>1. s # <<>>
    BY <1>2
  <2>2. u \in Seq(T) /\ Len(u) = n
    BY <1>2, <1>6, <2>1
  <2>3. \A i \in 1..n : u[i] = s[i + 1]
    BY <1>2, <1>6, <2>1
  <2> QED
    BY <2>2, <2>3
<1>8. \A i \in 1..n : u[i] = r[i]
  <2>1. ASSUME NEW i \in 1..n PROVE u[i] = r[i]
    <3>1. i + 1 \in 1..(n + 1) /\ j + (i + 1) - 1 = (j + 1) + i - 1
      OBVIOUS
    <3> QED
      BY <1>2, <1>5, <1>7, <3>1
  <2> QED
    BY <2>1
<1>9. u \in [1..n -> T] /\ r \in [1..n -> T]
  BY <1>5, <1>7
<1> QED
  BY <1>3, <1>4, <1>6, <1>8, <1>9

\* takes one chunk after the other,
LEMMA FeedGoesOn ==
    ASSUME NEW x, IsText(x), NEW cs, NEW acc, Feeding(cs, acc, x), cs # <<>>
    PROVE  Feeding(Tail(cs), Accumulate(acc, Head(cs)), x)
<1>1. PICK T : x \in Seq(T)
  BY DEF IsText
<1>2. PICK n \in Nat : n = Len(x)
  BY <1>1
<1>3. PICK c \in Nat : c = ChunksOf(n)
  BY EndsAre
<1> DEFINE At(k, m) == /\ EndOf(m, n) = Fed(x) /\ cs = SubSeq(Chunked(x), k + 1, m)
                       /\ acc = State(x, EndOf(k, n))
<1>4a. PICK m \in 0..c : \E k \in 0..m : At(k, m)
  BY <1>2, <1>3 DEF Feeding
<1>4. PICK k \in 0..m : At(k, m)
  BY <1>4a
<1>5. PICK all : all = Chunked(x)
  OBVIOUS
<1>6. all \in Seq(Seq(T)) /\ Len(all) = c /\ DOMAIN all = 1..c
  BY <1>1, <1>2, <1>3, <1>5, ChunksAre
<1>7. k < m
  <2> SUFFICES ASSUME k = m PROVE FALSE
    BY <1>4
  <2>1. SubSeq(all, k + 1, m) = <<>>
    BY <1>4, <1>6
  <2> QED
    BY <1>4, <1>5, <2>1
<1>8. PICK j \in 1..c : j = k + 1
  BY <1>4, <1>7
<1>9. Head(cs) = all[j] /\ Tail(cs) = SubSeq(all, j + 1, m)
  <2>1. cs = SubSeq(all, j, m) /\ j <= m /\ m \in 1..Len(all)
    BY <1>4, <1>5, <1>6, <1>7, <1>8
  <2> QED
    BY ONLY <1>6, <2>1, PartGoesOn
<1>10. PICK p \in Nat, q \in Nat : p = EndOf(k, n) /\ q = EndOf(j, n) /\ p < q /\ q <= n
  <2>1. j - 1 = k /\ k \in Nat /\ j \in Nat
    BY <1>8
  <2>2. EndOf(j - 1, n) < EndOf(j, n)
    BY <1>3, EndsAre
  <2>3. EndOf(k, n) \in 0..n /\ EndOf(j, n) \in 0..n
    BY <2>1, EndsAre
  <2> QED
    BY <2>1, <2>2, <2>3
<1>11. PICK h : h = Head(cs)
  OBVIOUS
<1>12. h \in Seq(T) /\ Len(h) = q - p /\ \A i \in 1..Len(h) : h[i] = x[p + i]
  <2>1. j - 1 = k
    BY <1>8
  <2>2. /\ Len(all[j]) = EndOf(j, n) - EndOf(j - 1, n)
        /\ \A i \in 1..Len(all[j]) : all[j][i] = x[EndOf(j - 1, n) + i]
    BY <1>1, <1>2, <1>3, <1>5, <1>8, ChunksAre
  <2>3. all[j] \in Seq(T)
    BY <1>6, <1>8
  <2> QED
    BY <1>9, <1>10, <1>11, <2>1, <2>2, <2>3
<1>13. p + Len(h) = q
  BY <1>10, <1>12
<1>14. Accumulate(State(x, p), h) = State(x, p + Len(h))
  BY <1>2, <1>10, <1>12, <1>13, AccumulateIs
<1>15. Accumulate(acc, Head(cs)) = State(x, EndOf(j, n))
  BY <1>4, <1>10, <1>11, <1>13, <1>14
<1>16. j \in 0..m
  BY <1>4, <1>7, <1>8
<1> QED
  BY <1>2, <1>3, <1>4, <1>5, <1>9, <1>15, <1>16 DEF Feeding

\* and ends where the limit is.
LEMMA FeedEnds ==
    ASSUME NEW x, IsText(x), NEW acc, Feeding(<<>>, acc, x)
    PROVE  acc = State(x, Fed(x))
<1>1. PICK T : x \in Seq(T)
  BY DEF IsText
<1>2. PICK n \in Nat : n = Len(x)
  BY <1>1
<1>3. PICK c \in Nat : c = ChunksOf(n)
  BY EndsAre
<1> DEFINE At(k, m) == /\ EndOf(m, n) = Fed(x) /\ <<>> = SubSeq(Chunked(x), k + 1, m)
                       /\ acc = State(x, EndOf(k, n))
<1>4a. PICK m \in 0..c : \E k \in 0..m : At(k, m)
  BY <1>2, <1>3 DEF Feeding
<1>4. PICK k \in 0..m : At(k, m)
  BY <1>4a
<1>5. PICK all : all = Chunked(x)
  OBVIOUS
<1>6. all \in Seq(Seq(T)) /\ Len(all) = c
  BY <1>1, <1>2, <1>3, <1>5, ChunksAre
<1>7. k = m
  <2> SUFFICES ASSUME k < m PROVE FALSE
    BY <1>4
  <2>1. Len(SubSeq(all, k + 1, m)) = m - k
    BY <1>4, <1>6
  <2>2. Len(<<>>) = 0
    OBVIOUS
  <2> QED
    BY <1>4, <1>5, <2>1, <2>2
<1> QED
  BY <1>4, <1>7

(***************************************************************************)
(* What is merged                                                          *)
(***************************************************************************)
\* What a text leaves in a tensor is finite, and nothing where no token reaches it.
LEMMA ReachedIs ==
    ASSUME NEW x, IsText(x), NEW t \in Tensors
    PROVE  /\ IsFiniteSet(Reached(t, x)) /\ Cardinality(Reached(t, x)) \in Nat
           /\ Reached(t, x) # {} => Cardinality(Reached(t, x)) # 0
           /\ SumReached(t, x) \in Nat
<1>1. PICK q \in Nat : q = Fed(x) /\ q <= Len(x) /\ Len(x) \in Nat
  BY FedIs DEF IsText
<1>2. PICK S : S = Reached(t, x)
  OBVIOUS
<1>3. PICK f : f = [i \in S |-> Activation(t, x[i])]
  OBVIOUS
<1>4. S \subseteq 1..q /\ \A i \in S : f[i] \in Nat
  <2>1. \A i \in 1..q : i \in 1..Len(x)
    BY <1>1
  <2> QED
    BY <1>1, <1>2, <1>3, <2>1 DEF Reached, IsText
<1>5. IsFiniteSet(S)
  <2>1. IsFiniteSet(1..q)
    BY FS_Interval
  <2> QED
    BY <1>4, <2>1, FS_Subset
<1>6. Cardinality(S) \in Nat /\ (Cardinality(S) = 0 <=> S = {})
  BY <1>5, FS_CardinalityType, FS_EmptySet
<1>7. SumOn(f, S) \in Nat
  BY ONLY <1>4, <1>5, SumOnNat
<1>8. SumReached(t, x) = SumOn(f, S)
  BY <1>2, <1>3, AddedIs DEF SumReached
<1> QED
  BY <1>2, <1>5, <1>6, <1>7, <1>8

\* What merged entries are to be.
BlendOf(e, of) ==
    LET tokens == [i \in DOMAIN Domains |-> Text[of[i]][Domains[i]]]
        by(t) == {i \in DOMAIN Domains : Reached(t, tokens[i]) # {}}
    IN  /\ DOMAIN e = {t \in Tensors : by(t) # {}}
        /\ \A t \in DOMAIN e :
              /\ e[t].n = Added([i \in by(t) |-> Cardinality(Reached(t, tokens[i]))])
              /\ IsBlend(e[t].value, t, tokens, by(t))

BlendOk(m) ==
    m # Absent /\ m.whole => \E of \in [DOMAIN Domains -> Builds] : BlendOf(m.entries, of)

LEMMA MergedIs == MergedIsTheBlend <=> BlendOk(merged)
BY DEF MergedIsTheBlend, BlendOk, BlendOf

LEMMA JoinLength ==
    ASSUME NEW A, NEW s \in Seq(A), NEW r \in Seq(A)
    PROVE  Len(s \o r) = Len(s) + Len(r)
OBVIOUS

LEMMA DomainsAreJobs == \A i \in DOMAIN Domains : Domains[i] \in ToSet(Jobs)
<1>1. PICK D : D = ToSet(Domains) /\ Domains \in Seq(D)
  BY ImatrixAssumption
<1>2. PICK n \in Nat : n = Len(Domains) /\ DOMAIN Domains = 1..n
  BY <1>1
<1>3. PICK c, one : c = Combined /\ one = <<c>>
  OBVIOUS
<1>4. DOMAIN Jobs = 1..(n + 1) /\ \A i \in 1..n : Jobs[i] = Domains[i]
  <2>1. PICK A : A = D \union {c}
    OBVIOUS
  <2>2. one \in Seq(A) /\ Len(one) = 1
    BY <1>3, <2>1
  <2>3. Domains \in Seq(A)
    BY <1>1, <2>1
  <2>4. PICK all : all = Domains \o one
    OBVIOUS
  <2>5. DOMAIN all = 1..(n + 1)
    <3>1. Len(all) = n + 1
      <4>1. Len(all) = Len(Domains) + Len(one)
        BY <2>2, <2>3, <2>4, JoinLength
      <4> QED
        BY <1>2, <2>2, <4>1
    <3>2. all \in Seq(A)
      BY <2>2, <2>3, <2>4
    <3> QED
      BY <3>1, <3>2
  <2>6. \A i \in 1..n : all[i] = Domains[i]
    BY <1>2, <2>2, <2>3, <2>4
  <2>7. Jobs = all
    BY <1>3, <2>4 DEF Jobs
  <2> QED
    BY <2>5, <2>6, <2>7
<1>5. ASSUME NEW i \in DOMAIN Domains PROVE Domains[i] \in ToSet(Jobs)
  <2>1. i \in 1..(n + 1) /\ i \in 1..n
    BY <1>2
  <2> QED
    BY <1>4, <2>1 DEF ToSet
<1> QED
  BY <1>5

\* Merging statistics of the domains' texts blends them.
LEMMA MergeIs ==
    ASSUME NEW T, NEW ims \in Seq(T), Len(ims) = Len(Domains),
           NEW of \in [DOMAIN Domains -> Builds],
           \A i \in 1..Len(ims) : IsStatisticOf(ims[i], Text[of[i]][Domains[i]])
    PROVE  BlendOf(Merge(ims), of)
<1>1. PICK n \in Nat : n = Len(ims) /\ DOMAIN Domains = 1..n /\ DOMAIN ims = 1..n
  BY ImatrixAssumption
<1>2. PICK tokens : tokens = [i \in DOMAIN Domains |-> Text[of[i]][Domains[i]]]
  OBVIOUS
<1>3. \A i \in 1..n : IsText(tokens[i]) /\ IsStatisticOf(ims[i], tokens[i])
  BY <1>1, <1>2, DomainsAreJobs, TextsAre
<1> DEFINE by(t) == {i \in DOMAIN Domains : Reached(t, tokens[i]) # {}}
<1>4. ASSUME NEW t \in Tensors
      PROVE  /\ Holding(ims, t, n) = by(t)
             /\ \A i \in by(t) : /\ ims[i][t].n = Cardinality(Reached(t, tokens[i]))
                                 /\ ims[i][t].sum = SumReached(t, tokens[i])
                                 /\ ims[i][t].n \in Nat \ {0} /\ ims[i][t].sum \in Nat
  <2>1. \A i \in 1..n : t \in DOMAIN ims[i] <=> Reached(t, tokens[i]) # {}
    BY <1>3 DEF IsStatisticOf
  <2>2. Holding(ims, t, n) = by(t)
    BY <1>1, <2>1 DEF Holding
  <2>3. ASSUME NEW i \in by(t)
        PROVE  /\ ims[i][t].n = Cardinality(Reached(t, tokens[i]))
               /\ ims[i][t].sum = SumReached(t, tokens[i])
    BY <1>1, <1>3, <2>1 DEF IsStatisticOf
  <2>4. ASSUME NEW i \in by(t)
        PROVE  /\ Cardinality(Reached(t, tokens[i])) \in Nat \ {0}
               /\ SumReached(t, tokens[i]) \in Nat
    BY <1>1, <1>3, ReachedIs
  <2> QED
    BY <2>2, <2>3, <2>4
<1>5. PICK e : e = Merge(ims)
  OBVIOUS
<1>6. /\ DOMAIN e = UNION {DOMAIN ims[i] : i \in 1..n}
      /\ \A t \in DOMAIN e :
            /\ e[t].n = Added([i \in Holding(ims, t, n) |-> ims[i][t].n])
            /\ e[t].value = Blended(ims, t)
  BY <1>1, <1>5 DEF Merge, Holding
<1>7. DOMAIN e = {t \in Tensors : by(t) # {}}
  <2>1. \A i \in 1..n : DOMAIN ims[i] = {t \in Tensors : Reached(t, tokens[i]) # {}}
    BY <1>3 DEF IsStatisticOf
  <2>2. \A t : t \in DOMAIN e <=> \E i \in 1..n : t \in DOMAIN ims[i]
    BY <1>6
  <2>3. \A t : t \in DOMAIN e <=> t \in Tensors /\ \E i \in 1..n : Reached(t, tokens[i]) # {}
    <3>1. \A t : \A i \in 1..n :
             t \in DOMAIN ims[i] <=> t \in Tensors /\ Reached(t, tokens[i]) # {}
      BY <2>1
    <3> QED
      BY <2>2, <3>1
  <2>4. \A t : by(t) # {} <=> \E i \in 1..n : Reached(t, tokens[i]) # {}
    BY <1>1
  <2> HIDE DEF by
  <2> QED
    BY <2>3, <2>4
<1>8. ASSUME NEW t \in DOMAIN e
      PROVE  /\ e[t].n = Added([i \in by(t) |-> Cardinality(Reached(t, tokens[i]))])
             /\ IsBlend(e[t].value, t, tokens, by(t))
  <2>1. t \in Tensors
    BY <1>7
  <2>2. PICK S : S = by(t)
    OBVIOUS
  <2>3. S = Holding(ims, t, n) /\ S \subseteq 1..n
    BY <1>1, <1>4, <2>1, <2>2
  <2>4. [i \in S |-> ims[i][t].n] = [i \in S |-> Cardinality(Reached(t, tokens[i]))]
    BY <1>4, <2>1, <2>2
  <2>5. PICK v : v = Blended(ims, t)
    OBVIOUS
  <2>6. Blends(v, ims, t, S)
    <3>1. \A i \in Holding(ims, t, Len(ims)) : ims[i][t].n \in Nat \ {0} /\ ims[i][t].sum \in Nat
      BY <1>1, <1>4, <2>1
    <3> QED
      BY <1>1, <2>3, <2>5, <3>1, BlendIs
  <2>7. PICK w, d : w = Weighted(ims, t) /\ d = Divisors(ims, t)
    OBVIOUS
  <2>8. /\ DOMAIN w = S
        /\ \A i \in S : /\ w[i] = Weights[i] * SumReached(t, tokens[i])
                        /\ d[i] = TotalWeight * Cardinality(Reached(t, tokens[i]))
    BY <1>1, <1>4, <2>1, <2>2, <2>3, <2>7 DEF Weighted, Divisors
  <2>9. PICK h : h = [i \in S |-> Weights[i] * SumReached(t, tokens[i])
                                    * (v.den \div (TotalWeight * Cardinality(Reached(t, tokens[i]))))]
    OBVIOUS
  <2>10. Added(h) = SumOn(Shares(w, d, v.den), S)
    <3>1. PICK g : g = Shares(w, d, v.den)
      OBVIOUS
    <3>2. IsFiniteSet(S) /\ DOMAIN h = S
      <4>1. IsFiniteSet(1..n)
        BY FS_Interval
      <4> QED
        BY <2>3, <2>9, <4>1, FS_Subset
    <3>3. \A i \in S : h[i] = g[i]
      BY <2>8, <2>9, <3>1 DEF Shares
    <3>4. Added(h) = SumOn(g, S)
      BY ONLY <3>2, <3>3, AddedOver
    <3> QED
      BY <3>1, <3>4
  <2>11. v.den \in Nat \ {0} /\ v.num = Added(h) /\ \A i \in S : v.den % d[i] = 0
    BY <2>6, <2>7, <2>10 DEF Blends
  <2>12. v.den > 0
    BY <2>11
  <2>13. IsBlend(v, t, tokens, S)
    BY <2>8, <2>9, <2>11, <2>12 DEF IsBlend
  <2> QED
    BY <1>6, <2>2, <2>3, <2>4, <2>5, <2>13
<1> QED
  BY <1>2, <1>5, <1>7, <1>8 DEF BlendOf

(***************************************************************************)
(* Every step keeps the invariant                                          *)
(***************************************************************************)
\* The job that is at hand, and its texts.
LEMMA JobIs ==
    ASSUME PlacesOk, pending # {}
    PROVE  /\ Job \in ToSet(Jobs) /\ Min(pending) \in pending
           /\ \A b \in Builds : IsText(Text[b][Job])
<1>1. PICK n \in Nat : DOMAIN Jobs = 1..n
  <2>1. PICK D : D = ToSet(Domains) /\ Domains \in Seq(D)
    BY ImatrixAssumption
  <2>2. PICK A, c, one : c = Combined /\ one = <<c>> /\ A = D \union {c}
    OBVIOUS
  <2>3. Domains \in Seq(A) /\ one \in Seq(A)
    BY <2>1, <2>2
  <2>4. Domains \o one \in Seq(A)
    BY <2>3
  <2> QED
    BY <2>2, <2>4 DEF Jobs
<1>2. pending \subseteq Nat
  BY <1>1 DEF PlacesOk
<1>3. Min(pending) \in pending
  <2>1. PICK T : T = pending
    OBVIOUS
  <2>2. \E x \in T : \A y \in T : x <= y
    BY <1>2, <2>1, SmallestExists
  <2> QED
    BY <2>1, <2>2 DEF Min
<1>4. Job \in ToSet(Jobs)
  BY <1>3 DEF Job, PlacesOk, ToSet
<1> QED
  BY <1>3, <1>4, TextsAre

\* What was merged stays the blend while it stays, or is cut or gone.
LEMMA MergedStays ==
    ASSUME MergedIsTheBlend, merged' \in {merged, Partial, Absent}
    PROVE  MergedIsTheBlend'
<1>1. BlendOk(merged)
  BY MergedIs
<1>2. BlendOk(Partial) /\ BlendOk(Absent)
  BY DEF BlendOk, Partial
<1>3. BlendOk(merged')
  BY <1>1, <1>2
<1>4. MergedIsTheBlend' <=> BlendOk(merged')
  BY DEF MergedIsTheBlend, BlendOk, BlendOf
<1> QED
  BY <1>3, <1>4

LEMMA DomainsLength == \E n \in Nat : n = Len(Domains) /\ DOMAIN Domains = 1..n
BY ImatrixAssumption

\* Builds are numbered.
LEMMA BuildsAre == 1 \in Builds /\ \A b \in Builds : b \in Nat
<1>1. PICK n \in Nat : n = Len(Text) /\ DOMAIN Text = 1..n
  <2>1. PICK T : Text \in Seq(T)
    BY ImatrixAssumption
  <2> QED
    BY <2>1
<1>2. n # 0
  BY <1>1, ImatrixAssumption
<1> QED
  BY <1>1, <1>2 DEF Builds

LEMMA EmptySequence ==
    /\ <<>> \in Seq({}) /\ \A n \in Nat : Len(<<>>) <= n
    /\ \A i \in 1..Len(<<>>) : FALSE
<1>1. <<>> \in Seq({}) /\ Len(<<>>) = 0
  OBVIOUS
<1>2. 1..0 = {}
  OBVIOUS
<1> QED
  BY <1>1, <1>2

\* A step outside the jobs and the merge.
LEMMA ImAside ==
    ASSUME ImInv, UNCHANGED <<build, file>>, merged' = merged, matrices' \in {matrices, <<>>},
           stage' \in Stages \ {"feed", "write", "write merged"},
           pending' \subseteq DOMAIN Jobs, stage' = "job" => pending' # {}
    PROVE  ImInv'
<1>1. PlacesOk'
  BY DEF ImInv, PlacesOk
<1>2. FilesOk'
  BY DEF ImInv, FilesOk, Stale
<1>3. FeedOk' /\ WriteOk'
  BY DEF FeedOk, WriteOk, Stages
<1>4. MatricesOk'
  <2>1. CASE matrices' = matrices
    BY <2>1 DEF ImInv, MatricesOk, Stages
  <2>2. CASE matrices' = <<>>
    <3>1. PICK n \in Nat : n = Len(Domains)
      BY DomainsLength
    <3>2. PICK ms : ms = <<>>
      OBVIOUS
    <3>3. /\ Len(ms) <= n /\ \E T : ms \in Seq(T)
          /\ \A i \in 1..Len(ms) : FALSE
      BY <3>1, <3>2, EmptySequence
    <3>4. stage' # "write merged"
      BY DEF Stages
    <3> QED
      BY <2>2, <3>1, <3>2, <3>3, <3>4 DEF MatricesOk
  <2> QED
    BY <2>1, <2>2
<1>5. MergedIsTheBlend'
  BY MergedStays DEF ImInv
<1> QED
  BY <1>1, <1>2, <1>3, <1>4, <1>5 DEF ImInv

LEMMA StartRunKeeps == ASSUME ImInv, NEW force \in BOOLEAN, StartRun(force) PROVE ImInv'
<1>1. /\ UNCHANGED <<build, file>> /\ merged' = merged /\ matrices' = matrices
      /\ pending' \subseteq DOMAIN Jobs
      /\ stage' = IF pending' = {} THEN "merge" ELSE "job"
  BY DEF StartRun
<1> QED
  BY <1>1, ImAside DEF Stages

LEMMA KillScriptKeeps == ASSUME ImInv, KillScript PROVE ImInv'
<1>1. /\ UNCHANGED <<build, file>> /\ merged' = merged /\ matrices' = <<>>
      /\ pending' = {} /\ stage' = "killed"
  BY DEF KillScript, Stop
<1> QED
  BY <1>1, ImAside DEF Stages

LEMMA ReadInputKeeps == ASSUME ImInv, ReadInput PROVE ImInv'
<1>1. CASE matrices' = <<>> /\ stage' = "failed"
  <2>1. UNCHANGED <<build, file>> /\ merged' = merged /\ pending' \in {pending, {}}
    BY DEF ReadInput, Stop
  <2>2. pending' \subseteq DOMAIN Jobs
    BY <2>1 DEF ImInv, PlacesOk
  <2> QED
    BY <1>1, <2>1, <2>2, ImAside DEF Stages
<1>2. CASE ~(matrices' = <<>> /\ stage' = "failed")
  <2>1. PICK i, j, e : i = Len(matrices) + 1 /\ j = Domains[i] /\ e = file[j].entries
    OBVIOUS
  <2>2. /\ UNCHANGED <<build, file, merged, stage, pending, chunks, accumulator, handle>>
        /\ stage = "merge" /\ Len(matrices) < Len(Domains)
        /\ file[j] # Absent /\ file[j].whole /\ matrices' = Append(matrices, e)
    <3>1. /\ UNCHANGED <<build, file, merged>>
          /\ stage = "merge" /\ Len(matrices) < Len(Domains)
      BY DEF ReadInput
    <3>2. /\ file[j] # Absent /\ file[j].whole /\ matrices' = Append(matrices, e)
          /\ UNCHANGED <<stage, pending, chunks, accumulator, handle>>
      BY <1>2, <2>1 DEF ReadInput, Stop
    <3> QED
      BY <3>1, <3>2
  <2>3. PICK n \in Nat : n = Len(Domains) /\ DOMAIN Domains = 1..n
    BY ImatrixAssumption
  <2>4. PICK T : matrices \in Seq(T)
    BY DEF ImInv, MatricesOk
  <2>5. PICK m \in Nat : m = Len(matrices) /\ i = m + 1 /\ m + 1 <= n /\ i \in 1..n
    BY <2>1, <2>2, <2>3, <2>4
  <2>6. PICK b \in Builds : IsStatisticOf(e, Text[b][Domains[i]])
    <3>1. j \in ToSet(Jobs)
      BY <2>1, <2>3, <2>5, DomainsAreJobs
    <3> QED
      BY <2>1, <2>2, <3>1 DEF ImInv, FilesOk, IsOf
  <2>7. PICK ms : ms = matrices'
    OBVIOUS
  <2>8. /\ ms \in Seq(T \union {e}) /\ Len(ms) = m + 1
        /\ ms[m + 1] = e /\ \A k \in 1..m : ms[k] = matrices[k]
    <3>1. PICK A : A = T \union {e}
      OBVIOUS
    <3>2. matrices \in Seq(A) /\ e \in A
      BY <2>4, <3>1
    <3>3. ms \in Seq(A) /\ Len(ms) = m + 1
      BY <2>2, <2>5, <2>7, <3>2
    <3>4. ms[m + 1] = e /\ \A k \in 1..m : ms[k] = matrices[k]
      BY <2>2, <2>5, <2>7, <3>2
    <3> QED
      BY <3>1, <3>3, <3>4
  <2>9. \A k \in 1..(m + 1) : \E c \in Builds : IsStatisticOf(ms[k], Text[c][Domains[k]])
    <3>1. ASSUME NEW k \in 1..(m + 1)
          PROVE  \E c \in Builds : IsStatisticOf(ms[k], Text[c][Domains[k]])
      <4>1. CASE k = m + 1
        BY <2>5, <2>6, <2>8, <4>1
      <4>2. CASE k # m + 1
        <5>1. k \in 1..m
          BY <4>2
        <5>2. \E c \in Builds : IsStatisticOf(matrices[k], Text[c][Domains[k]])
          BY <2>5, <5>1 DEF ImInv, MatricesOk
        <5> QED
          BY <2>8, <5>1, <5>2
      <4> QED
        BY <4>1, <4>2
    <3> QED
      BY <3>1
  <2>10. MatricesOk'
    BY <2>2, <2>3, <2>5, <2>7, <2>8, <2>9 DEF MatricesOk
  <2>11. PlacesOk' /\ FilesOk' /\ FeedOk' /\ WriteOk'
    BY <2>2 DEF ImInv, PlacesOk, FilesOk, FeedOk, WriteOk, Stale
  <2>12. MergedIsTheBlend'
    BY <2>2, MergedStays DEF ImInv
  <2> QED
    BY <2>10, <2>11, <2>12 DEF ImInv
<1> QED
  BY <1>1, <1>2

LEMMA BeginJobKeeps == ASSUME ImInv, BeginJob PROVE ImInv'
<1>1. /\ UNCHANGED <<build, file, merged, pending, matrices>>
      /\ stage = "job" /\ pending # {} /\ stage' = "feed"
      /\ accumulator' = Zero /\ chunks' = Limited(Chunked(Text[build][Job]))
  BY DEF BeginJob
<1>2. PICK j : j = Job /\ Job' = j
  BY <1>1 DEF Job
<1>3. build \in Builds /\ IsText(Text[build][j])
  BY <1>1, <1>2, JobIs DEF ImInv, PlacesOk
<1>4. Feeding(chunks', accumulator', Text[build][j])
  BY <1>1, <1>2, <1>3, FeedBegins
<1>5. build \in Int /\ build <= build
  <2>1. build \in Nat
    BY <1>3, BuildsAre
  <2> QED
    BY <2>1
<1>6. FeedOk'
  BY <1>1, <1>2, <1>3, <1>4, <1>5 DEF FeedOk, Read
<1>7. PlacesOk' /\ FilesOk' /\ WriteOk' /\ MatricesOk'
  BY <1>1 DEF ImInv, PlacesOk, FilesOk, WriteOk, MatricesOk, Stale, Stages
<1> QED
  BY <1>1, <1>6, <1>7, MergedStays DEF ImInv

LEMMA FeedKeeps == ASSUME ImInv, Feed PROVE ImInv'
<1>1. /\ UNCHANGED <<build, file, merged, stage, pending, matrices>>
      /\ stage = "feed" /\ chunks # <<>>
      /\ accumulator' = Accumulate(accumulator, Head(chunks)) /\ chunks' = Tail(chunks)
  BY DEF Feed
<1>2. PICK j : j = Job /\ Job' = j
  BY <1>1 DEF Job
<1>3. PICK b : Read(b) /\ Feeding(chunks, accumulator, Text[b][j])
  BY <1>1, <1>2 DEF ImInv, FeedOk
<1>4. IsText(Text[b][j])
  BY <1>1, <1>2, <1>3, JobIs DEF ImInv, PlacesOk, Read
<1>5. Feeding(chunks', accumulator', Text[b][j])
  BY <1>1, <1>3, <1>4, FeedGoesOn
<1>6. FeedOk'
  BY <1>1, <1>2, <1>3, <1>5 DEF FeedOk, Read, Stale
<1>7. PlacesOk' /\ FilesOk' /\ WriteOk' /\ MatricesOk'
  BY <1>1 DEF ImInv, PlacesOk, FilesOk, WriteOk, MatricesOk, Stale
<1> QED
  BY <1>1, <1>6, <1>7, MergedStays DEF ImInv

\* A file that is opened is no matrix any more.
LEMMA OpenOutputKeeps == ASSUME ImInv, OpenOutput PROVE ImInv'
<1>1. /\ UNCHANGED <<build, merged, pending, accumulator, matrices>>
      /\ stage = "feed" /\ chunks = <<>> /\ stage' = "write"
      /\ file' = [file EXCEPT ![Job] = Partial]
  BY DEF OpenOutput
<1>2. PICK j : j = Job /\ Job' = j
  BY <1>1 DEF Job
<1>3. PICK b : Read(b) /\ Feeding(<<>>, accumulator, Text[b][j])
  BY <1>1, <1>2 DEF ImInv, FeedOk
<1>4. j \in ToSet(Jobs) /\ IsText(Text[b][j])
  BY <1>1, <1>2, <1>3, JobIs DEF ImInv, PlacesOk, Read
<1>5. accumulator = State(Text[b][j], Fed(Text[b][j]))
  BY <1>3, <1>4, FeedEnds
<1>6. \A i \in ToSet(Jobs) : file'[i] = IF i = j THEN Partial ELSE file[i]
  BY <1>1, <1>2 DEF ImInv, PlacesOk
<1>7. \A x : IsOf(Partial, x)
  BY DEF IsOf, Partial
<1>8. \A c : Stale(file', c) \subseteq Stale(file, c)
  BY <1>6, <1>7 DEF Stale
<1>9. WriteOk'
  <2>1. Stale(file, build) = {} => Stale(file', build) = {}
    BY <1>8
  <2> QED
    BY <1>1, <1>2, <1>3, <1>5, <2>1 DEF WriteOk, Read
<1>10. FilesOk'
  <2>1. ASSUME NEW i \in ToSet(Jobs)
        PROVE  \E c \in Builds : c <= build /\ IsOf(file'[i], Text[c][i])
    <3>1. PICK c \in Builds : c <= build /\ IsOf(file[i], Text[c][i])
      BY DEF ImInv, FilesOk
    <3> QED
      BY <1>6, <1>7, <3>1
  <2>2. PICK i : Stale(file, build) \subseteq {i}
    BY DEF ImInv, FilesOk
  <2>3. Stale(file', build) \subseteq {i}
    BY <1>8, <2>2
  <2> QED
    BY <1>1, <2>1, <2>3 DEF FilesOk
<1>11. PlacesOk' /\ FeedOk' /\ MatricesOk'
  BY <1>1 DEF ImInv, PlacesOk, FeedOk, MatricesOk, Stages
<1> QED
  BY <1>1, <1>9, <1>10, <1>11, MergedStays DEF ImInv

\* A matrix that is whole is the statistic of the text it was made from.
LEMMA CloseOutputKeeps == ASSUME ImInv, CloseOutput PROVE ImInv'
<1>1. CASE handle # build
  <2>1. /\ UNCHANGED <<build, file>> /\ merged' = merged /\ matrices' = <<>>
        /\ pending' = {} /\ stage' = "failed"
    BY <1>1 DEF CloseOutput, Stop
  <2> QED
    BY <2>1, ImAside DEF Stages
<1>2. CASE handle = build
  <2>1. /\ UNCHANGED <<build, merged, matrices>>
        /\ stage = "write" /\ pending' \subseteq pending
        /\ file' = [file EXCEPT ![Job] = Whole(Entries(accumulator))]
        /\ stage' = IF pending' = {} THEN "merge" ELSE "job"
    BY <1>2 DEF CloseOutput
  <2>2. PICK j : j = Job
    OBVIOUS
  <2>3. PICK b : Read(b) /\ accumulator = State(Text[b][j], Fed(Text[b][j]))
    BY <2>1, <2>2 DEF ImInv, WriteOk
  <2>4. j \in ToSet(Jobs) /\ IsText(Text[b][j])
    BY <2>1, <2>2, <2>3, JobIs DEF ImInv, PlacesOk, Read
  <2>5. PICK new : new = Whole(Entries(accumulator))
    OBVIOUS
  <2>6. IsOf(new, Text[b][j])
    <3>1. IsStatisticOf(Entries(accumulator), Text[b][j])
      BY <2>3, <2>4, FedIs, EntriesAre
    <3> QED
      BY <2>5, <3>1 DEF IsOf, Whole
  <2>7. \A i \in ToSet(Jobs) : file'[i] = IF i = j THEN new ELSE file[i]
    BY <2>1, <2>2, <2>5 DEF ImInv, PlacesOk
  <2>8. ASSUME NEW i \in ToSet(Jobs)
        PROVE  \E c \in Builds : c <= build /\ IsOf(file'[i], Text[c][i])
    <3>1. PICK c \in Builds : c <= build /\ IsOf(file[i], Text[c][i])
      BY DEF ImInv, FilesOk
    <3>2. b \in Builds /\ b <= build
      BY <2>3 DEF Read
    <3> QED
      BY <2>6, <2>7, <3>1, <3>2
  <2>9. \E i : Stale(file', build) \subseteq {i}
    <3>1. CASE b = build
      <4>1. PICK i : Stale(file, build) \subseteq {i}
        BY DEF ImInv, FilesOk
      <4>2. Stale(file', build) \subseteq Stale(file, build)
        BY <2>6, <2>7, <3>1 DEF Stale
      <4> QED
        BY <4>1, <4>2
    <3>2. CASE Stale(file, build) = {}
      <4>1. Stale(file', build) \subseteq {j}
        BY <2>7, <3>2 DEF Stale
      <4> QED
        BY <4>1
    <3> QED
      BY <2>3, <3>1, <3>2 DEF Read
  <2>10. FilesOk'
    BY <2>1, <2>8, <2>9 DEF FilesOk
  <2>11. PlacesOk' /\ FeedOk' /\ WriteOk' /\ MatricesOk'
    BY <2>1 DEF ImInv, PlacesOk, FeedOk, WriteOk, MatricesOk, Stages
  <2> QED
    BY <2>1, <2>10, <2>11, MergedStays DEF ImInv
<1> QED
  BY <1>1, <1>2

LEMMA OpenMergedKeeps == ASSUME ImInv, OpenMerged PROVE ImInv'
<1>1. /\ UNCHANGED <<build, file, pending, matrices>>
      /\ Len(matrices) = Len(Domains) /\ stage' = "write merged" /\ merged' = Partial
  BY DEF OpenMerged
<1>2. PlacesOk' /\ FilesOk' /\ FeedOk' /\ WriteOk' /\ MatricesOk'
  BY <1>1 DEF ImInv, PlacesOk, FilesOk, FeedOk, WriteOk, MatricesOk, Stale, Stages
<1> QED
  BY <1>1, <1>2, MergedStays DEF ImInv

LEMMA CloseMergedKeeps == ASSUME ImInv, CloseMerged PROVE ImInv'
<1>1. CASE handle # build
  <2>1. /\ UNCHANGED <<build, file>> /\ merged' = merged /\ matrices' = <<>>
        /\ pending' = {} /\ stage' = "failed"
    BY <1>1 DEF CloseMerged, Stop
  <2> QED
    BY <2>1, ImAside DEF Stages
<1>2. CASE handle = build
  <2>1. PICK ims : ims = matrices
    OBVIOUS
  <2>2. /\ UNCHANGED <<build, file>> /\ merged' = Whole(Merge(ims)) /\ matrices' = <<>>
        /\ pending' = {} /\ stage' = "done" /\ stage = "write merged"
    BY <1>2, <2>1 DEF CloseMerged, Stop
  <2>3. Len(ims) = Len(Domains)
    BY <2>1, <2>2 DEF ImInv, MatricesOk
  <2>4. PICK T : ims \in Seq(T)
    BY <2>1 DEF ImInv, MatricesOk
  <2>5. PICK n \in Nat : n = Len(Domains) /\ DOMAIN Domains = 1..n
    BY DomainsLength
  <2>6. \A i \in 1..n : \E b \in Builds : IsStatisticOf(ims[i], Text[b][Domains[i]])
    BY <2>1, <2>3, <2>5 DEF ImInv, MatricesOk
  <2>7. PICK of : of = [i \in 1..n |->
                          CHOOSE b \in Builds : IsStatisticOf(ims[i], Text[b][Domains[i]])]
    OBVIOUS
  <2>8. /\ of \in [DOMAIN Domains -> Builds]
        /\ \A i \in 1..Len(ims) : IsStatisticOf(ims[i], Text[of[i]][Domains[i]])
    BY <2>3, <2>5, <2>6, <2>7
  <2>9. BlendOf(Merge(ims), of)
    BY <2>3, <2>4, <2>8, MergeIs
  <2>10. MergedIsTheBlend'
    <3>1. merged'.entries = Merge(ims)
      BY <2>2 DEF Whole
    <3>2. BlendOk(merged')
      BY <2>8, <2>9, <3>1 DEF BlendOk
    <3>3. MergedIsTheBlend' <=> BlendOk(merged')
      BY DEF MergedIsTheBlend, BlendOk, BlendOf
    <3> QED
      BY <3>2, <3>3
  <2>11. PlacesOk' /\ FilesOk' /\ FeedOk' /\ WriteOk'
    BY <2>2 DEF ImInv, PlacesOk, FilesOk, FeedOk, WriteOk, Stale, Stages
  <2>12. MatricesOk'
    BY <2>2, <2>5, EmptySequence DEF MatricesOk
  <2> QED
    BY <2>10, <2>11, <2>12 DEF ImInv
<1> QED
  BY <1>1, <1>2

\* Another build takes every file with it.
LEMMA PublishKeeps == ASSUME ImInv, Publish PROVE ImInv'
<1>1. /\ UNCHANGED <<stage, pending, chunks, accumulator, matrices>>
      /\ build + 1 \in Builds /\ build' = build + 1 /\ merged' = Absent
      /\ file' = [j \in ToSet(Jobs) |-> Absent]
  BY DEF Publish, work
<1>2. PICK j : j = Job /\ Job' = j
  BY <1>1 DEF Job
<1>3. \A i \in ToSet(Jobs) : \A x : IsOf(file'[i], x)
  BY <1>1 DEF IsOf
<1>4. Stale(file', build') = {}
  BY <1>3 DEF Stale
<1>5. build \in Builds /\ build \in Nat
  BY BuildsAre DEF ImInv, PlacesOk
<1>6. \A b : Read(b) => Read(b)'
  <2>1. ASSUME NEW b, Read(b) PROVE Read(b)'
    <3>1. b \in Nat /\ b <= build
      BY <2>1, BuildsAre DEF Read
    <3>2. b <= build'
      BY <1>1, <1>5, <3>1
    <3> QED
      BY <1>4, <2>1, <3>2 DEF Read
  <2> QED
    BY <2>1
<1>7. FeedOk' /\ WriteOk'
  BY <1>1, <1>2, <1>6 DEF ImInv, FeedOk, WriteOk
<1>8. FilesOk'
  <2>1. build' \in Builds /\ build' <= build'
    BY <1>1, <1>5
  <2> QED
    BY <1>3, <1>4, <2>1 DEF FilesOk
<1>9. PlacesOk' /\ MatricesOk'
  BY <1>1 DEF ImInv, PlacesOk, MatricesOk
<1> QED
  BY <1>1, <1>7, <1>8, <1>9, MergedStays DEF ImInv

LEMMA ImInvStep == ASSUME ImInv, [ImatrixNext]_imatrix PROVE ImInv'
<1>1. CASE UNCHANGED imatrix
  <2>1. UNCHANGED <<build, file, merged, stage, pending, chunks, accumulator, matrices>>
    BY <1>1 DEF imatrix, work
  <2>2. PlacesOk' /\ FilesOk' /\ FeedOk' /\ WriteOk' /\ MatricesOk'
    BY <2>1 DEF ImInv, PlacesOk, FilesOk, FeedOk, WriteOk, MatricesOk, Stale, Read, Job
  <2> QED
    BY <2>1, <2>2, MergedStays DEF ImInv
<1>2. ASSUME NEW force \in BOOLEAN, StartRun(force) PROVE ImInv'
  BY <1>2, StartRunKeeps
<1>3. CASE BeginJob
  BY <1>3, BeginJobKeeps
<1>4. CASE Feed
  BY <1>4, FeedKeeps
<1>5. CASE OpenOutput
  BY <1>5, OpenOutputKeeps
<1>6. CASE CloseOutput
  BY <1>6, CloseOutputKeeps
<1>7. CASE ReadInput
  BY <1>7, ReadInputKeeps
<1>8. CASE OpenMerged
  BY <1>8, OpenMergedKeeps
<1>9. CASE CloseMerged
  BY <1>9, CloseMergedKeeps
<1>10. CASE KillScript
  BY <1>10, KillScriptKeeps
<1>11. CASE Publish
  BY <1>11, PublishKeeps
<1> QED
  BY <1>1, <1>2, <1>3, <1>4, <1>5, <1>6, <1>7, <1>8, <1>9, <1>10, <1>11 DEF ImatrixNext

LEMMA ImInvInit == ASSUME ImatrixInit PROVE ImInv
<1>1. /\ build = 1 /\ file = [j \in ToSet(Jobs) |-> Absent] /\ merged = Absent
      /\ stage = "idle" /\ pending = {} /\ matrices = <<>>
  BY DEF ImatrixInit
<1>2. 1 \in Builds /\ 1 <= 1
  BY BuildsAre
<1>3. \A j \in ToSet(Jobs) : \A x : IsOf(file[j], x)
  BY <1>1 DEF IsOf
<1>4. Stale(file, build) = {}
  BY <1>3 DEF Stale
<1>5. FilesOk
  BY <1>1, <1>2, <1>3, <1>4 DEF FilesOk
<1>6. PlacesOk /\ FeedOk /\ WriteOk
  BY <1>1, <1>2 DEF PlacesOk, FeedOk, WriteOk, Stages
<1>7. MatricesOk
  BY <1>1, DomainsLength, EmptySequence DEF MatricesOk
<1>8. MergedIsTheBlend
  BY <1>1 DEF MergedIsTheBlend
<1> QED
  BY <1>5, <1>6, <1>7, <1>8 DEF ImInv

\* What the pipeline holds at every moment.
THEOREM ImatrixInvariant == ImatrixSpec => []ImInv
<1>1. ImatrixInit => ImInv
  BY ImInvInit
<1>2. ImInv /\ [ImatrixNext]_imatrix => ImInv'
  BY ImInvStep
<1> QED
  BY <1>1, <1>2, PTL DEF ImatrixSpec

\* A whole matrix of generate_imatrix.py is always the statistic of one text
\* of its own domain, whatever was killed, forced or replaced in between.
THEOREM MatricesAlwaysOfOneText == ImatrixSpec => []MatricesAreOfOneText
<1>1. ImInv => MatricesAreOfOneText
  BY DEF ImInv, FilesOk, IsOf, MatricesAreOfOneText
<1> QED
  BY <1>1, ImatrixInvariant, PTL

\* Skipping the outputs that exist never takes over more than one matrix of a
\* text that a calibration build replaced.
THEOREM AlwaysAtMostOneStale == ImatrixSpec => []AtMostOneIsStale
<1>1. ImInv => AtMostOneIsStale
  <2> SUFFICES ASSUME ImInv PROVE AtMostOneIsStale
    OBVIOUS
  <2>1. PICK j : Stale(file, build) \subseteq {j}
    BY DEF ImInv, FilesOk
  <2>2. PICK S : S = Stale(file, build)
    OBVIOUS
  <2>3. Cardinality({}) = 0 /\ Cardinality({j}) = 1
    BY FS_EmptySet, FS_Singleton
  <2>4. S = {} \/ S = {j}
    BY <2>1, <2>2
  <2>5. Cardinality(S) <= 1
    BY <2>3, <2>4
  <2>6. S = {i \in ToSet(Jobs) : /\ file[i] # Absent /\ file[i].whole
                                 /\ ~IsStatisticOf(file[i].entries, Text[build][i])}
    BY <2>2 DEF Stale, IsOf
  <2> QED
    BY <2>5, <2>6 DEF AtMostOneIsStale
<1> QED
  BY <1>1, ImatrixInvariant, PTL

\* What merge_imatrix.py leaves whole is always the blend of the domains'
\* statistics by their weights.
THEOREM MergedAlwaysTheBlend == ImatrixSpec => []MergedIsTheBlend
<1>1. ImInv => MergedIsTheBlend
  BY DEF ImInv
<1> QED
  BY <1>1, ImatrixInvariant, PTL

=============================================================================
