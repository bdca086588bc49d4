------------------------- MODULE PackDataset_proofs --------------------------
(***************************************************************************)
(* Proofs about PackDataset for any records, pools and recipes.  No        *)
(* property is inductive as it stands.                                     *)
(*                                                                         *)
(* RowsFit: a row is short because the units are, and a unit is short      *)
(* because the open segment is.  Short says so for every place a unit      *)
(* passes through on its way into a row.                                   *)
(*                                                                         *)
(* BudgetMet: QuotasShape says how much of the budget is left while the    *)
(* quotas are assigned, so that the last one is positive although the      *)
(* shares may be rounded either way.  Filling says that a domain is short  *)
(* of its quota when a unit is added to it.                                *)
(*                                                                         *)
(* TextIsKept: Cut says that the units and the open segment hold the text  *)
(* read so far, Kept that what is chosen or packed is what was reported.   *)
(*                                                                         *)
(* ReuseComesLast: Fair says that the units selected are in step with the  *)
(* laps of the cursor over the candidates.                                 *)
(*                                                                         *)
(* Folds are defined by a CHOOSE of the function that iterates them.  The  *)
(* lemmas on sums and flattening show that this function exists and what   *)
(* it computes, by induction over the naturals as a smallest element of a  *)
(* set.                                                                    *)
(***************************************************************************)
EXTENDS PackDataset, FiniteSetTheorems, WellFoundedInduction, TLAPS

Short(us) == \A i \in DOMAIN us : us[i].len <= Limit

AllShort ==
    /\ seg.len <= Limit
    /\ Short(units) /\ Short(picked) /\ Short(chosen)
    /\ row.len <= Limit /\ Short(rows)

\* There is a candidate to read, and the cursor is on one or behind the last.
Reading ==
    phase \in {"records", "chat", "paragraphs", "units"} =>
        at <= N /\ Len(line) > 0 /\ cursor <= Len(line) + 1

QuotasDone ==
    /\ phase = "quotas" => Len(quota) < N /\ at = 1
    /\ phase # "quotas" => Len(quota) = N

IInv == TypeOK /\ QuotasDone /\ Reading /\ AllShort

-----------------------------------------------------------------------------
LEMMA PieceType ==
    ASSUME NEW p \in Nat, NEW m \in Nat, NEW n \in Nat
    PROVE  <<p, m, n>> \in Piece
BY DEF Piece

LEMMA OnePieceType ==
    ASSUME NEW p \in Nat, NEW m \in Nat, NEW n \in Nat
    PROVE  <<<<p, m, n>>>> \in Seq(Piece)
BY PieceType

\* A recipe's row length and the paragraphs of a record are positive.
LEMMA Positives ==
    ASSUME TypeOK
    PROVE  /\ Limit \in Positive
           /\ Sizes[rec] \in Seq(Positive) /\ Len(Sizes[rec]) >= 1
           /\ \A i \in 1..Len(Sizes[rec]) : Sizes[rec][i] \in Positive
<1>1. Limit \in Positive
  BY RecipesAssumption DEF TypeOK, Limit
<1>2. Sizes[rec] \in Seq(Positive) /\ Sizes[rec] # <<>>
  BY RecordsAssumption DEF TypeOK
<1>3. Len(Sizes[rec]) >= 1
  BY <1>2
<1> QED
  BY <1>1, <1>2, <1>3

\* Appending units to a sequence of short ones.
LEMMA AppendShort ==
    ASSUME NEW us \in Seq(Units), NEW u \in Units, Short(us), u.len <= Limit
    PROVE  Append(us, u) \in Seq(Units) /\ Short(Append(us, u))
BY DEF Short

LEMMA ConcatShort ==
    ASSUME NEW us \in Seq(Units), NEW vs \in Seq(Units), Short(us), Short(vs)
    PROVE  us \o vs \in Seq(Units) /\ Short(us \o vs)
<1>1. us \o vs \in Seq(Units)
  OBVIOUS
<1>2. \A i \in DOMAIN (us \o vs) :
         (us \o vs)[i] = IF i <= Len(us) THEN us[i] ELSE vs[i - Len(us)]
  OBVIOUS
<1>3. \A i \in DOMAIN (us \o vs) : i <= Len(us) \/ i - Len(us) \in DOMAIN vs
  OBVIOUS
<1> QED
  BY <1>1, <1>2, <1>3 DEF Short

LEMMA RemoveShort ==
    ASSUME NEW us \in Seq(Units), NEW i \in 1..Len(us), Short(us)
    PROVE  RemoveAt(us, i) \in Seq(Units) /\ Short(RemoveAt(us, i))
<1> DEFINE a == SubSeq(us, 1, i - 1)
           b == SubSeq(us, i + 1, Len(us))
<1>1. a \in Seq(Units) /\ b \in Seq(Units)
  OBVIOUS
<1>2. Short(a)
  <2>1. \A j \in DOMAIN a : j \in DOMAIN us /\ a[j] = us[j]
    OBVIOUS
  <2> QED
    BY <2>1 DEF Short
<1>3. Short(b)
  <2>1. Len(us) \in Nat /\ i \in Nat /\ i + 1 <= Len(us) + 1
    OBVIOUS
  <2>2. DOMAIN b = 1..(Len(us) - i)
    BY <2>1
  <2>3. ASSUME NEW j \in 1..(Len(us) - i) PROVE b[j] = us[j + i]
    BY <2>1
  <2> QED
    BY <2>1, <2>2, <2>3 DEF Short
<1> QED
  BY <1>1, <1>2, <1>3, ConcatShort DEF RemoveAt

\* Segments that fit become units that fit.
LEMMA YieldShort ==
    ASSUME TypeOK, Short(units), NEW ss \in Seq(Segments), Short(ss)
    PROVE  Yield(ss) \in Seq(Units) /\ Short(Yield(ss))
<1> DEFINE new == [i \in 1..Len(ss) |-> Unit(Len(units) + i - 1, ss[i])]
<1>1. Len(units) \in Nat /\ Len(ss) \in Nat /\ rec \in Record /\ units \in Seq(Units)
  BY DEF TypeOK
<1>2. ASSUME NEW i \in 1..Len(ss)
      PROVE  new[i] \in Units /\ new[i].len <= Limit
  <2>1. ss[i] \in Segments /\ ss[i].len <= Limit
    BY <1>2 DEF Short
  <2>2. Len(units) + i - 1 \in Nat
    BY <1>1
  <2> QED
    BY <1>1, <2>1, <2>2 DEF Unit, Units, Segments
<1>3. new \in Seq(Units) /\ Len(new) = Len(ss)
  BY <1>1, <1>2
<1>4. Short(new)
  BY <1>2, <1>3 DEF Short
<1> QED
  BY <1>1, <1>3, <1>4, ConcatShort DEF Yield

LEMMA FlushShort ==
    ASSUME TypeOK, AllShort
    PROVE  Flush \in Seq(Segments) /\ Short(Flush)
BY DEF TypeOK, AllShort, Flush, Short

\* A long paragraph is cut into stretches of at most Limit tokens.
LEMMA ChunksShort ==
    ASSUME TypeOK, NEW p \in Positive, NEW n \in Positive
    PROVE  Chunks(p, n) \in Seq(Segments) /\ Short(Chunks(p, n))
<1> DEFINE k == (n + Limit - 1) \div Limit
           from(i) == (i - 1) * Limit + 1
           upto(i) == IF i * Limit < n THEN i * Limit ELSE n
<1>1. Limit \in Positive
  BY Positives
<1>2. k \in Nat /\ k * Limit <= n + Limit - 1
  BY <1>1 DEF Positive
<1>3. ASSUME NEW i \in 1..k
      PROVE  /\ from(i) \in Nat /\ upto(i) \in Nat
             /\ upto(i) - from(i) + 1 \in Nat
             /\ upto(i) - from(i) + 1 <= Limit
  <2>1. i * Limit \in Nat /\ (i - 1) * Limit \in Nat /\ (i - 1) * Limit = i * Limit - Limit
    BY <1>1 DEF Positive
  <2>2. i * Limit <= k * Limit
    <3>1. k * Limit = i * Limit + (k - i) * Limit
      BY <1>1, <1>2 DEF Positive
    <3>2. (k - i) * Limit \in Nat
      BY <1>1, <1>2 DEF Positive
    <3> QED
      BY <1>1, <1>2, <2>1, <3>1, <3>2 DEF Positive
  <2>3. (i - 1) * Limit <= n - 1
    BY <1>1, <1>2, <2>1, <2>2 DEF Positive
  <2> HIDE DEF k
  <2> QED
    BY <1>1, <2>1, <2>3 DEF Positive
<1>4. ASSUME NEW i \in 1..k
      PROVE  Chunks(p, n)[i] \in Segments /\ Chunks(p, n)[i].len <= Limit
  <2>1. Chunks(p, n)[i] = [pieces |-> <<<<p, from(i), upto(i)>>>>,
                           len |-> upto(i) - from(i) + 1]
    BY <1>4 DEF Chunks
  <2>2. <<<<p, from(i), upto(i)>>>> \in Seq(Piece)
    BY <1>3, OnePieceType DEF Positive
  <2> HIDE DEF from, upto
  <2> QED
    BY <1>3, <2>1, <2>2 DEF Segments
<1>5. Chunks(p, n) \in Seq(Segments) /\ Len(Chunks(p, n)) = k
  <2>1. Chunks(p, n) \in [1..k -> Segments]
    BY <1>4 DEF Chunks
  <2> HIDE DEF k
  <2> QED
    BY <1>2, <2>1
<1> QED
  BY <1>4, <1>5 DEF Short

-----------------------------------------------------------------------------
LEMMA InitIInv == Init => IInv
<1> SUFFICES ASSUME Init PROVE IInv
  OBVIOUS
<1>1. N \in Nat /\ N >= 1 /\ Pool[1] \in (SUBSET Record) \ {{}}
  BY RecordsAssumption DEF Positive
<1>2. rec \in Record
  BY <1>1 DEF Init
<1>3. recipe \in Recipes /\ Limit \in Nat
  BY RecipesAssumption DEF Init, Limit, Positive
<1>4. TypeOK
  BY <1>1, <1>2, <1>3 DEF Init, TypeOK, Segments, Units, Rows, Blank, NoUnits, Positive
<1> QED
  BY <1>1, <1>3, <1>4
     DEF Init, IInv, QuotasDone, Reading, AllShort, Short, Blank, NoUnits

\* A shuffle of a pool is a non-empty sequence of its records.
LEMMA ShuffleType ==
    ASSUME NEW i \in 1..N, NEW s \in SetToSeqs(Pool[i])
    PROVE  s \in Seq(Record) /\ Len(s) > 0
<1>1. Pool[i] \subseteq Record /\ Pool[i] # {} /\ IsFiniteSet(Pool[i])
  BY RecordsAssumption
<1>2. Cardinality(Pool[i]) \in Nat /\ Cardinality(Pool[i]) # 0
  BY <1>1, FS_CardinalityType, FS_EmptySet
<1>3. s \in [1..Cardinality(Pool[i]) -> Pool[i]]
  BY DEF SetToSeqs
<1> QED
  BY <1>1, <1>2, <1>3

LEMMA QuotaStep == ASSUME IInv, AssignQuota PROVE IInv'
<1> USE DEF IInv, AssignQuota, queue, text, selection, packing
<1>1. recipe.budget \in Nat /\ recipe.weight \in [1..N -> Positive]
        /\ recipe.whole \in Positive /\ N \in Positive /\ N \in Nat
  BY RecipesAssumption, RecordsAssumption DEF TypeOK, Positive
<1>2. PICK q \in IF Len(quota) + 1 < N THEN {1 + x : x \in Share(Len(quota) + 1)}
                                     ELSE {recipe.budget - spent} :
          quota' = Append(quota, q) /\ spent' = spent + q
  OBVIOUS
<1>3. q \in Int
  <2>1. CASE Len(quota) + 1 < N
    <3>1. Len(quota) + 1 \in 1..N
      BY <1>1, <2>1 DEF TypeOK
    <3>2. recipe.weight[Len(quota) + 1] \in Nat
      BY <1>1, <3>1 DEF Positive
    <3> DEFINE parts == (recipe.budget - N) * recipe.weight[Len(quota) + 1]
    <3>3. parts \in Int
      BY <1>1, <3>2
    <3>4. parts \div recipe.whole \in Int
      BY <1>1, <3>3 DEF Positive
    <3>5. Share(Len(quota) + 1) \subseteq Int
      BY <3>4 DEF Share
    <3> QED
      BY <1>2, <2>1, <3>5
  <2>2. CASE ~(Len(quota) + 1 < N)
    <3>1. q = recipe.budget - spent
      BY <1>2, <2>2
    <3>2. recipe.budget \in Int /\ spent \in Int
      BY <1>1 DEF TypeOK
    <3> QED
      BY <3>1, <3>2
  <2> QED
    BY <2>1, <2>2
<1>4. quota' \in Seq(Int) /\ spent' \in Int /\ Len(quota') = Len(quota) + 1
  BY <1>2, <1>3 DEF TypeOK
<1>5. TypeOK'
  BY <1>4 DEF TypeOK
<1>6. QuotasDone' /\ Reading'
  BY <1>1, <1>4 DEF QuotasDone, Reading, TypeOK
<1>7. AllShort'
  BY DEF AllShort, Short, Limit
<1> QED
  BY <1>5, <1>6, <1>7

LEMMA StartStep == ASSUME IInv, StartDomain PROVE IInv'
<1> USE DEF IInv, StartDomain, plan, text, packing
<1>1. at \in 1..N /\ N \in Nat
  BY RecordsAssumption DEF TypeOK, Positive
<1>2. line' \in Seq(Record) /\ Len(line') > 0
  BY <1>1, ShuffleType
<1>3. TypeOK'
  BY <1>2 DEF TypeOK, Positive
<1>4. QuotasDone' /\ Reading'
  BY <1>1, <1>2 DEF QuotasDone, Reading
<1>5. AllShort'
  BY DEF AllShort, Short, Limit
<1> QED
  BY <1>3, <1>4, <1>5

LEMMA NextRecordStep == ASSUME IInv, NextRecord PROVE IInv'
<1> USE DEF IInv, NextRecord, plan, selection, packing
<1>1. line \in Seq(Record) /\ Len(line) \in Nat /\ Len(line) > 0
        /\ cursor \in Positive /\ cursor <= Len(line) + 1 /\ wraps \in 0..1
  BY DEF TypeOK, Reading, More
<1> DEFINE i == IF cursor > Len(line) THEN 1 ELSE cursor
<1>2. i \in 1..Len(line)
  BY <1>1 DEF Positive
<1>3. rec' = line[i] /\ cursor' = i + 1 /\ wraps' \in 0..2
  BY <1>1 DEF Advance
<1>4. rec' \in Record /\ cursor' \in Positive /\ cursor' <= Len(line) + 1
  BY <1>1, <1>2, <1>3 DEF Positive
<1>5. TypeOK'
  BY <1>3, <1>4 DEF TypeOK, Positive, Segments, Blank
<1>6. QuotasDone' /\ Reading'
  BY <1>1, <1>4 DEF QuotasDone, Reading
<1>7. AllShort'
  <2>1. Limit \in Nat
    BY Positives DEF Positive
  <2> QED
    BY <2>1 DEF AllShort, Short, Limit, Blank
<1> QED
  BY <1>5, <1>6, <1>7

LEMMA ChatStep == ASSUME IInv, Chat PROVE IInv'
<1> USE DEF IInv, Chat, plan, queue, text, selection, packing
<1> DEFINE n == Sizes[rec][1]
           s == [pieces |-> <<<<1, 1, n>>>>, len |-> n]
<1>1. n \in Positive /\ Limit \in Positive
  BY Positives
<1>2. units' \in Seq(Units) /\ Short(units')
  <2>1. CASE n > Limit
    BY <2>1 DEF TypeOK, AllShort
  <2>2. CASE ~(n > Limit)
    <3>1. s \in Segments
      BY <1>1, OnePieceType DEF Segments, Positive
    <3>2. <<s>> \in Seq(Segments) /\ Short(<<s>>)
      BY <1>1, <2>2, <3>1 DEF Short, Positive
    <3>3. units' = Yield(<<s>>)
      BY <2>2
    <3> QED
      BY <3>2, <3>3, YieldShort DEF AllShort
  <2> QED
    BY <2>1, <2>2
<1>3. phase' \in {"records", "units"}
  OBVIOUS
<1>4. TypeOK'
  BY <1>2, <1>3 DEF TypeOK
<1>5. QuotasDone' /\ Reading'
  BY <1>3 DEF QuotasDone, Reading
<1>6. AllShort'
  BY <1>2 DEF AllShort, Short, Limit
<1> QED
  BY <1>4, <1>5, <1>6

\* The open segment grows only as long as it fits a row.
LEMMA ExtendedType ==
    ASSUME TypeOK, NEW n \in Positive
    PROVE  /\ Extended(para, n) \in Segments
           /\ seg = Blank => Extended(para, n).len = n
<1>1. para \in Nat /\ seg.pieces \in Seq(Piece) /\ seg.len \in Nat
  BY DEF TypeOK, Segments, Positive
<1>2. <<para, 1, n>> \in Piece
  BY <1>1, PieceType DEF Positive
<1>3. Append(seg.pieces, <<para, 1, n>>) \in Seq(Piece)
  BY <1>1, <1>2
<1>4. SepTokens \in Nat
  BY RecordsAssumption
<1> QED
  BY <1>1, <1>3, <1>4 DEF Extended, Segments, Positive

LEMMA ParagraphStep == ASSUME IInv, Paragraph PROVE IInv'
<1> USE DEF IInv, plan, queue, selection, packing
<1> DEFINE n == Sizes[rec][para]
<1>1. n \in Positive /\ Limit \in Positive /\ para \in Positive
  BY Positives DEF TypeOK, Paragraph, Positive
<1>2. /\ units' \in Seq(Units) /\ Short(units')
      /\ seg' \in Segments /\ seg'.len <= Limit
  <2>1. CASE /\ n > Limit
             /\ units' = Yield(Flush \o Chunks(para, n))
             /\ seg' = Blank
    <3>1. Flush \o Chunks(para, n) \in Seq(Segments)
      BY <1>1, FlushShort, ChunksShort
    <3>2. Short(Flush \o Chunks(para, n))
      <4>1. Flush \in Seq(Segments) /\ Short(Flush)
        BY FlushShort
      <4>2. Chunks(para, n) \in Seq(Segments) /\ Short(Chunks(para, n))
        BY <1>1, ChunksShort
      <4> DEFINE c == Chunks(para, n)
      <4>3. \A i \in DOMAIN (Flush \o c) :
               \/ i \in DOMAIN Flush /\ (Flush \o c)[i] = Flush[i]
               \/ i - Len(Flush) \in DOMAIN c /\ (Flush \o c)[i] = c[i - Len(Flush)]
        <5> HIDE DEF c
        <5>1. Flush \in Seq(Segments) /\ c \in Seq(Segments)
          BY <4>1, <4>2 DEF c
        <5> QED
          BY <5>1
      <4> QED
        BY <4>1, <4>2, <4>3 DEF Short
    <3>3. Blank \in Segments /\ Blank.len <= Limit
      BY <1>1 DEF Blank, Segments, Positive
    <3> QED
      BY <2>1, <3>1, <3>2, <3>3, YieldShort DEF AllShort
  <2>2. CASE /\ n <= Limit
             /\ units' = Yield(Flush)
             /\ seg' = [pieces |-> <<<<para, 1, n>>>>, len |-> n]
    <3>1. seg' \in Segments /\ seg'.len <= Limit
      BY <1>1, <2>2, OnePieceType DEF Segments, Positive
    <3> QED
      BY <2>2, <3>1, FlushShort, YieldShort DEF AllShort
  <2>3. CASE /\ n <= Limit /\ (seg = Blank \/ Extended(para, n).len <= Limit)
             /\ seg' = Extended(para, n)
             /\ UNCHANGED units
    BY <1>1, <2>3, ExtendedType DEF TypeOK, AllShort
  <2> QED
    BY <2>1, <2>2, <2>3 DEF Paragraph
<1>3. TypeOK'
  BY <1>2 DEF TypeOK, Paragraph, Positive
<1>4. QuotasDone' /\ Reading'
  BY DEF QuotasDone, Reading, Paragraph
<1>5. AllShort'
  BY <1>2 DEF AllShort, Short, Limit, Paragraph
<1> QED
  BY <1>3, <1>4, <1>5

LEMMA EndDocumentStep == ASSUME IInv, EndDocument PROVE IInv'
<1> USE DEF IInv, EndDocument, plan, queue, selection, packing
<1>1. units' \in Seq(Units) /\ Short(units')
  BY FlushShort, YieldShort DEF AllShort
<1>2. Blank \in Segments /\ Blank.len <= Limit
  BY Positives DEF Blank, Segments, Positive
<1>3. TypeOK'
  BY <1>1, <1>2 DEF TypeOK
<1>4. QuotasDone' /\ Reading'
  BY DEF QuotasDone, Reading
<1>5. AllShort'
  BY <1>1, <1>2 DEF AllShort, Short, Limit
<1> QED
  BY <1>3, <1>4, <1>5

LEMMA TakeUnitStep == ASSUME IInv, TakeUnit PROVE IInv'
<1> USE DEF IInv, TakeUnit, plan, queue, text, packing
<1>1. next \in 1..Len(units) /\ units \in Seq(Units)
  BY DEF TypeOK, Positive
<1>2. units[next] \in Units /\ units[next].len <= Limit /\ units[next].len \in Nat
  <2>1. units[next] \in Units
    BY <1>1
  <2>2. next \in DOMAIN units
    BY <1>1
  <2> QED
    BY <2>1, <2>2 DEF AllShort, Short, Units
<1>3. picked' \in Seq(Units) /\ Short(picked')
  BY <1>2, AppendShort DEF TypeOK, AllShort
<1>4. total' \in Nat /\ next' \in Positive /\ phase' \in {"records", "units"}
  <2>1. total' = total + units[next].len /\ next' = next + 1
    OBVIOUS
  <2>2. total \in Nat /\ next \in Nat
    BY DEF TypeOK, Positive
  <2>3. phase' \in {"records", "units"}
    OBVIOUS
  <2> QED
    BY <1>2, <2>1, <2>2, <2>3 DEF Positive
<1>5. TypeOK'
  BY <1>3, <1>4 DEF TypeOK
<1>6. QuotasDone' /\ Reading'
  BY <1>4 DEF QuotasDone, Reading
<1>7. AllShort'
  BY <1>3 DEF AllShort, Short, Limit
<1> QED
  BY <1>5, <1>6, <1>7

LEMMA GateStep == ASSUME IInv, Gate PROVE IInv'
<1> USE DEF IInv, Gate, plan, text, selection
<1>1. at \in 1..N /\ N \in Nat
  BY RecordsAssumption DEF TypeOK, Reading, Positive
<1>2. /\ chosen' \in Seq(Units) /\ Short(chosen')
      /\ report' \in Seq([tokens : Nat, wraps : 0..2])
      /\ at' \in 1..N + 1
      /\ phase' \in {"failed", "pack", "domain"}
  <2>1. chosen \o picked \in Seq(Units) /\ Short(chosen \o picked)
    BY ConcatShort DEF TypeOK, AllShort
  <2>2. Append(report, [tokens |-> total, wraps |-> wraps])
           \in Seq([tokens : Nat, wraps : 0..2])
    <3>1. [tokens |-> total, wraps |-> wraps] \in [tokens : Nat, wraps : 0..2]
      BY DEF TypeOK
    <3> QED
      BY <3>1 DEF TypeOK
  <2>3. CASE total * recipe.outOf < recipe.atLeast * quota[at]
    BY <1>1, <2>3 DEF TypeOK, AllShort
  <2>4. CASE ~(total * recipe.outOf < recipe.atLeast * quota[at])
    <3>1. /\ chosen' = chosen \o picked
          /\ report' = Append(report, [tokens |-> total, wraps |-> wraps])
          /\ at' = at + 1
          /\ phase' \in {"pack", "domain"}
      BY <2>4
    <3>2. at' \in 1..N + 1
      BY <1>1, <3>1
    <3> QED
      BY <2>1, <2>2, <3>1, <3>2
  <2> QED
    BY <2>3, <2>4
<1>3. TypeOK'
  BY <1>2 DEF TypeOK
<1>4. QuotasDone' /\ Reading'
  BY <1>2 DEF QuotasDone, Reading
<1>5. AllShort'
  BY <1>2 DEF AllShort, Short, Limit
<1> QED
  BY <1>3, <1>4, <1>5

LEMMA PackUnitStep == ASSUME IInv, PackUnit PROVE IInv'
<1> USE DEF IInv, plan, queue, text, selection
<1>1. PICK i \in 1..Len(chosen) :
          /\ chosen' = RemoveAt(chosen, i)
          /\ IF row # NoUnits /\ row.len + 1 + chosen[i].len > Limit
               THEN /\ rows' = Append(rows, row)
                    /\ row' = [units |-> <<chosen[i]>>, len |-> chosen[i].len]
               ELSE /\ row' = [units |-> Append(row.units, chosen[i]),
                               len |-> IF row = NoUnits THEN chosen[i].len
                                       ELSE row.len + 1 + chosen[i].len]
                    /\ UNCHANGED rows
  BY DEF PackUnit
<1> DEFINE u == chosen[i]
<1>2. chosen \in Seq(Units) /\ u \in Units /\ u.len \in Nat /\ u.len <= Limit
  <2>1. chosen \in Seq(Units)
    BY DEF TypeOK
  <2>2. u \in Units /\ i \in DOMAIN chosen
    BY <2>1
  <2> QED
    BY <2>1, <2>2 DEF AllShort, Short, Units
<1>3. chosen' \in Seq(Units) /\ Short(chosen')
  BY <1>1, <1>2, RemoveShort DEF AllShort
<1>4. row \in Rows /\ row.len \in Nat /\ row.units \in Seq(Units) /\ row.len <= Limit
        /\ rows \in Seq(Rows) /\ Limit \in Nat
  BY Positives DEF TypeOK, AllShort, Rows, Positive
<1>5. /\ row' \in Rows /\ row'.len <= Limit
      /\ rows' \in Seq(Rows) /\ Short(rows')
  <2>1. CASE row # NoUnits /\ row.len + 1 + u.len > Limit
    <3>1. row' = [units |-> <<u>>, len |-> u.len] /\ rows' = Append(rows, row)
      BY <1>1, <2>1
    <3>2. row' \in Rows /\ row'.len <= Limit
      BY <1>2, <3>1 DEF Rows
    <3>3. rows' \in Seq(Rows) /\ Short(rows')
      BY <1>4, <3>1 DEF Short, AllShort
    <3> QED
      BY <3>2, <3>3
  <2>2. CASE ~(row # NoUnits /\ row.len + 1 + u.len > Limit)
    <3> DEFINE l == IF row = NoUnits THEN u.len ELSE row.len + 1 + u.len
    <3>1. row' = [units |-> Append(row.units, u), len |-> l] /\ rows' = rows
      BY <1>1, <2>2
    <3>2. l \in Nat /\ l <= Limit
      BY <1>2, <1>4, <2>2
    <3>3. Append(row.units, u) \in Seq(Units)
      BY <1>2, <1>4
    <3> HIDE DEF l, u
    <3>4. row' \in Rows /\ row'.len <= Limit
      BY <3>1, <3>2, <3>3 DEF Rows
    <3> QED
      BY <1>4, <3>1, <3>4 DEF AllShort
  <2> QED
    BY <2>1, <2>2
<1>6. TypeOK'
  BY <1>3, <1>5 DEF TypeOK, PackUnit
<1>7. QuotasDone' /\ Reading'
  BY DEF QuotasDone, Reading, PackUnit
<1>8. AllShort'
  BY <1>3, <1>5 DEF AllShort, Short, Limit, PackUnit
<1> QED
  BY <1>6, <1>7, <1>8

LEMMA LastRowStep == ASSUME IInv, LastRow PROVE IInv'
<1> USE DEF IInv, LastRow, plan, queue, text, selection
<1>1. NoUnits \in Rows /\ NoUnits.len <= Limit
  BY Positives DEF NoUnits, Rows, Positive
<1>2. rows' \in Seq(Rows) /\ Short(rows')
  BY DEF TypeOK, AllShort, Short
<1>3. TypeOK'
  BY <1>1, <1>2 DEF TypeOK
<1>4. QuotasDone' /\ Reading'
  BY DEF QuotasDone, Reading
<1>5. AllShort'
  BY <1>1, <1>2 DEF AllShort, Short, Limit
<1> QED
  BY <1>3, <1>4, <1>5

LEMMA Inductive == IInv /\ [Next]_vars => IInv'
<1> SUFFICES ASSUME IInv, [Next]_vars PROVE IInv'
  OBVIOUS
<1>1. CASE AssignQuota
  BY <1>1, QuotaStep
<1>2. CASE StartDomain
  BY <1>2, StartStep
<1>3. CASE NextRecord
  BY <1>3, NextRecordStep
<1>4. CASE Chat
  BY <1>4, ChatStep
<1>5. CASE Paragraph
  BY <1>5, ParagraphStep
<1>6. CASE EndDocument
  BY <1>6, EndDocumentStep
<1>7. CASE TakeUnit
  BY <1>7, TakeUnitStep
<1>8. CASE Gate
  BY <1>8, GateStep
<1>9. CASE PackUnit
  BY <1>9, PackUnitStep
<1>10. CASE LastRow
  BY <1>10, LastRowStep
<1>11. CASE UNCHANGED vars
  BY <1>11 DEF vars, IInv, TypeOK, QuotasDone, Reading, AllShort, Short, Limit
<1> QED
  BY <1>1, <1>2, <1>3, <1>4, <1>5, <1>6, <1>7, <1>8, <1>9, <1>10, <1>11
     DEF Next, Select, Pack, Quiet

LEMMA Invariance == Spec => []IInv
BY InitIInv, Inductive, PTL DEF Spec

\* Every variable of build_calibration_dataset keeps its type, the cursor stays
\* on the candidates and there are never more than two laps over them, for any
\* records and any recipe.
THEOREM TypeCorrect == Spec => []TypeOK
<1>1. IInv => TypeOK
  BY DEF IInv
<1> QED
  BY <1>1, Invariance, PTL

\* No unit and no row of a dataset is longer than the sequence length of its
\* recipe, separators counted, whatever the records: nothing is truncated.
THEOREM RowsAlwaysFit == Spec => []RowsFit
<1>1. IInv => RowsFit
  BY DEF IInv, AllShort, Short, RowsFit
<1> QED
  BY <1>1, Invariance, PTL

-----------------------------------------------------------------------------
(***************************************************************************)
(* Induction, folds and sums                                               *)
(***************************************************************************)

\* Every non-empty set of naturals has a smallest element.
LEMMA SmallestExists ==
    ASSUME NEW T, T \subseteq Nat, T # {}
    PROVE  \E x \in T : \A y \in T : x <= y
<1>1. PICK R : R = OpToRel(<, Nat)
  OBVIOUS
<1>2. IsWellFoundedOn(R, Nat)
  BY <1>1, NatLessThanWellFounded
<1>3. \A x, y \in Nat : <<x, y>> \in R <=> x < y
  BY <1>1 DEF OpToRel
<1>4. PICK x \in T : \A y \in T : ~ (<<y, x>> \in R)
  BY <1>2, WFMin
<1>5. \A y \in T : x \in Nat /\ y \in Nat /\ ~(y < x)
  BY <1>3, <1>4
<1> QED
  BY <1>5

\* Induction over the naturals, for a set.
LEMMA NatSetInduction ==
    ASSUME NEW P, 0 \in P, \A n \in Nat : n \in P => n + 1 \in P
    PROVE  Nat \subseteq P
<1> DEFINE Bad == Nat \ P
<1> SUFFICES ASSUME Bad # {} PROVE FALSE
  OBVIOUS
<1>1. PICK n \in Bad : \A m \in Bad : n <= m
  BY SmallestExists
<1>2. PICK m \in Nat : n = m + 1
  <2>1. n \in Nat /\ n # 0
    OBVIOUS
  <2> QED
    BY <2>1
<1>3. m \notin Bad
  <2>1. ~(n <= m)
    BY <1>2
  <2> HIDE DEF Bad
  <2> QED
    BY <1>1, <2>1
<1> QED
  BY <1>2, <1>3

\* Every non-empty set of bounded naturals has a largest element.
LEMMA LargestExists ==
    ASSUME NEW n \in Nat, NEW T, T \subseteq 0..n, T # {}
    PROVE  \E x \in T : \A y \in T : x >= y
<1> DEFINE B == {b \in Nat : \A y \in T : b >= y}
<1>1. n \in B
  OBVIOUS
<1>2. PICK b \in B : \A c \in B : b <= c
  <2>1. B \subseteq Nat /\ B # {}
    BY <1>1
  <2> HIDE DEF B
  <2> QED
    BY <2>1, SmallestExists
<1>3. b \in T
  <2> SUFFICES ASSUME b \notin T PROVE FALSE
    OBVIOUS
  <2>1. \A y \in T : y \in Nat /\ b > y
    BY <1>2
  <2>2. PICK y \in T : TRUE
    OBVIOUS
  <2>3. PICK c \in Nat : b = c + 1
    <3>1. b \in Nat /\ b # 0
      BY <2>1, <2>2
    <3> QED
      BY <3>1
  <2>4. c \in B
    BY <2>1, <2>3
  <2>5. b <= c
    BY <1>2, <2>4
  <2> QED
    BY <2>3, <2>5
<1> QED
  BY <1>2, <1>3

\* Max is the largest element of such a set.
LEMMA MaxIs ==
    ASSUME NEW n \in Nat, NEW T, T \subseteq 0..n, T # {}
    PROVE  Max(T) \in T /\ \A y \in T : Max(T) >= y
<1>1. \E x \in T : \A y \in T : x >= y
  BY LargestExists
<1> QED
  BY <1>1 DEF Max

\* A set of positions is finite.
LEMMA PositionsFinite ==
    ASSUME NEW n \in Nat, NEW S, S \subseteq 1..n
    PROVE  IsFiniteSet(S) /\ Cardinality(S) \in Nat /\ Cardinality(S) <= n
<1>1. IsFiniteSet(1..n) /\ Cardinality(1..n) = n
  BY FS_Interval
<1> QED
  BY <1>1, FS_Subset, FS_CardinalityType

\* A set of positions without its last one is smaller.
LEMMA RestOfPositions ==
    ASSUME NEW n \in Nat, NEW s, s \subseteq 1..n, s # {}
    PROVE  /\ Max(s) \in s /\ s \ {Max(s)} \subseteq 1..n
           /\ Cardinality(s) \in Nat /\ Cardinality(s \ {Max(s)}) \in Nat
           /\ Cardinality(s) = Cardinality(s \ {Max(s)}) + 1
<1>1. Max(s) \in s
  <2>1. s \subseteq 0..n
    OBVIOUS
  <2> QED
    BY <2>1, MaxIs
<1>2. IsFiniteSet(s) /\ Cardinality(s) \in Nat
  BY PositionsFinite
<1>3. IsFiniteSet(s \ {Max(s)}) /\ Cardinality(s \ {Max(s)}) = Cardinality(s) - 1
  BY <1>1, <1>2, FS_RemoveElement
<1>4. Cardinality(s \ {Max(s)}) \in Nat
  BY <1>3, FS_CardinalityType
<1>5. Cardinality(s) = Cardinality(s \ {Max(s)}) + 1
  BY ONLY <1>2, <1>3, <1>4
<1>6. s \ {Max(s)} \subseteq 1..n
  OBVIOUS
<1> QED
  BY ONLY <1>1, <1>2, <1>4, <1>5, <1>6

\* The last of the first k positions is k.
LEMMA PrefixOfPositions ==
    ASSUME NEW n \in Nat, NEW k \in 1..n
    PROVE  /\ 1..k \in SUBSET (1..n) /\ 1..k # {} /\ Max(1..k) = k
           /\ (1..k) \ {k} = 1..(k - 1)
<1>1. k \in Nat /\ 1..k \subseteq 0..k /\ 1..k # {} /\ 1..k \in SUBSET (1..n)
  OBVIOUS
<1>2. Max(1..k) \in 1..k /\ \A y \in 1..k : Max(1..k) >= y
  <2>1. PICK T : T = 1..k
    OBVIOUS
  <2>2. Max(T) \in T /\ \A y \in T : Max(T) >= y
    BY <1>1, <2>1, MaxIs
  <2> QED
    BY <2>1, <2>2
<1>3. Max(1..k) = k
  <2>1. PICK m : m = Max(1..k)
    OBVIOUS
  <2>2. m \in 1..k /\ m >= k
    BY <1>1, <1>2, <2>1
  <2> QED
    BY <2>1, <2>2
<1> QED
  BY <1>1, <1>3

\* The iteration of a fold over the positions 1..n: step says what the last of
\* some positions does to the value of the others.
StepOn(step, n, A) == step \in [A \X (1..n) -> A]
Folds(it, n, A, base, step) ==
    /\ it \in [SUBSET (1..n) -> A]
    /\ \A s \in SUBSET (1..n) :
          it[s] = IF s = {} THEN base ELSE step[<<it[s \ {Max(s)}], Max(s)>>]

\* The function that a left fold over n entries is defined by exists.
LEMMA FoldExists ==
    ASSUME NEW n \in Nat, NEW A, NEW base \in A, NEW step, StepOn(step, n, A)
    PROVE  \E it : Folds(it, n, A, base, step)
<1> USE DEF StepOn
<1> DEFINE Upto(m) == {s \in SUBSET (1..n) : Cardinality(s) <= m}
           goOn(it, s) == IF s = {} THEN base ELSE step[<<it[s \ {Max(s)}], Max(s)>>]
           Fine(m) == \E it \in [Upto(m) -> A] : \A s \in Upto(m) : it[s] = goOn(it, s)
           P == {m \in Nat : Fine(m)}
<1>0. ASSUME NEW s \in SUBSET (1..n)
      PROVE  /\ Cardinality(s) \in Nat /\ Cardinality(s) <= n
             /\ s # {} => /\ Max(s) \in 1..n /\ s \ {Max(s)} \in SUBSET (1..n)
                          /\ Cardinality(s \ {Max(s)}) \in Nat
                          /\ Cardinality(s) = Cardinality(s \ {Max(s)}) + 1
  <2>1. Cardinality(s) \in Nat /\ Cardinality(s) <= n
    BY PositionsFinite
  <2> QED
    BY <2>1, RestOfPositions
<1>1. 0 \in P
  <2>1. ASSUME NEW s \in Upto(0) PROVE s = {}
    <3>1. s \in SUBSET (1..n) /\ Cardinality(s) <= 0
      OBVIOUS
    <3>2. s # {} => /\ Cardinality(s \ {Max(s)}) \in Nat
                    /\ Cardinality(s) = Cardinality(s \ {Max(s)}) + 1
      BY <1>0, <3>1
    <3> QED
      BY <3>1, <3>2
  <2>2. PICK it : it = [s \in Upto(0) |-> base]
    OBVIOUS
  <2>3. it \in [Upto(0) -> A] /\ \A s \in Upto(0) : it[s] = goOn(it, s)
    BY <2>1, <2>2
  <2> QED
    BY <2>3
<1>2. ASSUME NEW m \in Nat, m \in P PROVE m + 1 \in P
  <2>1. PICK it \in [Upto(m) -> A] : \A s \in Upto(m) : it[s] = goOn(it, s)
    BY <1>2
  <2>2. PICK new : new = [s \in Upto(m + 1) |-> goOn(it, s)]
    OBVIOUS
  <2>3. ASSUME NEW s \in Upto(m + 1), s # {} PROVE s \ {Max(s)} \in Upto(m) /\ Max(s) \in 1..n
    BY <1>0, <2>3
  <2>4. ASSUME NEW s \in Upto(m) PROVE s \in Upto(m + 1) /\ new[s] = it[s]
    <3>1. s \in SUBSET (1..n) /\ Cardinality(s) <= m
      OBVIOUS
    <3>2. Cardinality(s) \in Nat
      BY <1>0, <3>1
    <3>3. s \in Upto(m + 1)
      BY <3>1, <3>2
    <3> QED
      BY <2>1, <2>2, <3>3
  <2> HIDE DEF Upto
  <2>5. ASSUME NEW s \in Upto(m + 1) PROVE new[s] = goOn(new, s) /\ new[s] \in A
    <3>1. CASE s = {}
      BY <2>2, <3>1
    <3>2. CASE s # {}
      <4>1. PICK t : t = s \ {Max(s)}
        OBVIOUS
      <4>2. t \in Upto(m) /\ Max(s) \in 1..n
        BY <2>3, <3>2, <4>1
      <4>3. new[t] = it[t] /\ it[t] \in A
        BY <2>4, <4>2
      <4>4. <<it[t], Max(s)>> \in A \X (1..n)
        BY <4>2, <4>3
      <4>5. new[s] = step[<<it[t], Max(s)>>]
        BY <2>2, <3>2, <4>1
      <4> QED
        BY <3>2, <4>1, <4>3, <4>4, <4>5
    <3> QED
      BY <3>1, <3>2
  <2>6. new \in [Upto(m + 1) -> A]
    BY <2>2, <2>5
  <2>7. Fine(m + 1)
    BY <2>5, <2>6
  <2> HIDE DEF Fine
  <2> QED
    BY <2>7
<1>3. n \in P
  <2> HIDE DEF P
  <2> QED
    BY <1>1, <1>2, NatSetInduction
<1>4. Upto(n) = SUBSET (1..n)
  BY <1>0
<1> QED
  BY <1>3, <1>4 DEF Folds

\* The values a step by step computation goes through.
Goes(p, n, A, base, step) ==
    /\ p \in [0..n -> A]
    /\ p[0] = base
    /\ \A k \in 1..n : p[k] = step[<<p[k - 1], k>>]

\* So do the intermediate results of a left fold, one after another.
LEMMA StepsExist ==
    ASSUME NEW n \in Nat, NEW A, NEW base \in A, NEW step, StepOn(step, n, A)
    PROVE  \E p : Goes(p, n, A, base, step)
<1>1. PICK it : Folds(it, n, A, base, step)
  BY FoldExists
<1>2. PICK p : p = [k \in 0..n |-> it[1..k]]
  OBVIOUS
<1>3. p \in [0..n -> A]
  <2>1. \A k \in 0..n : 1..k \in SUBSET (1..n)
    OBVIOUS
  <2> QED
    BY <1>1, <1>2, <2>1 DEF Folds
<1>4. p[0] = base
  <2>1. 1..0 = {} /\ {} \in SUBSET (1..n)
    OBVIOUS
  <2>2. it[{}] = base
    BY <1>1, <2>1 DEF Folds
  <2> QED
    BY <1>2, <2>1, <2>2
<1>5. ASSUME NEW k \in 1..n PROVE p[k] = step[<<p[k - 1], k>>]
  <2>1. it[1..k] = step[<<it[(1..k) \ {Max(1..k)}], Max(1..k)>>]
    BY <1>1, PrefixOfPositions DEF Folds
  <2>2. it[1..k] = step[<<it[1..(k - 1)], k>>]
    BY <2>1, PrefixOfPositions
  <2>3. k \in 0..n /\ k - 1 \in 0..n
    OBVIOUS
  <2> QED
    BY <1>2, <2>2, <2>3
<1> QED
  BY <1>3, <1>4, <1>5 DEF Goes
\* A fold from left to right takes the prefixes one after the other.
LEMMA FoldOfPrefixes ==
    ASSUME NEW n \in Nat, NEW base, NEW h,
           NEW j, j = [s \in SUBSET (1..n) |-> IF s = {} THEN base ELSE h[s]]
    PROVE  j[1..0] = base /\ \A k \in 1..n : j[1..k] = h[1..k] /\ 1..k \in SUBSET (1..n)
<1>1. 1..0 = {} /\ {} \in SUBSET (1..n)
  OBVIOUS
<1>2. \A k \in 1..n : 1..k \in SUBSET (1..n) /\ 1..k # {}
  BY PrefixOfPositions
<1> QED
  BY <1>1, <1>2
-----------------------------------------------------------------------------
(***************************************************************************)
(* Sums                                                                    *)
(***************************************************************************)

SumIter(it, s) ==
    it = [t \in SUBSET DOMAIN s |-> IF t = {} THEN 0 ELSE it[t \ {Max(t)}] + s[Max(t)]]

\* The sums of the prefixes of a sequence.
Sums(p, s) ==
    /\ p \in [0..Len(s) -> Int]
    /\ p[0] = 0
    /\ \A k \in 1..Len(s) : p[k] = p[k - 1] + s[k]

\* SumOf, by the function that defines its fold.
LEMMA SumIs == \A s : SumOf(s) = (CHOOSE it : SumIter(it, s))[DOMAIN s]
BY DEF SumOf, FoldLeft, MapThenFoldSet, SumIter

\* SumOf adds the entries one by one.
LEMMA SumSteps ==
    ASSUME NEW s \in Seq(Int)
    PROVE  \E p : Sums(p, s) /\ SumOf(s) = p[Len(s)]
<1>1. PICK n \in Nat : n = Len(s) /\ DOMAIN s = 1..n
  OBVIOUS
<1>2. PICK step : step = [x \in Int \X (1..n) |-> x[1] + s[x[2]]]
  OBVIOUS
<1>3. StepOn(step, n, Int)
  <2>1. \A x \in Int \X (1..n) : x[1] \in Int /\ s[x[2]] \in Int
    BY <1>1
  <2>2. \A x \in Int \X (1..n) : x[1] + s[x[2]] \in Int
    BY <2>1
  <2> QED
    BY <1>2, <2>2 DEF StepOn
<1>4. PICK it : Folds(it, n, Int, 0, step)
  <2>1. PICK base : base = 0
    OBVIOUS
  <2>2. base \in Int
    BY <2>1
  <2>3. PICK A : A = Int
    OBVIOUS
  <2> QED
    BY <1>3, <2>1, <2>2, <2>3, FoldExists
<1>5. SumIter(it, s)
  <2>1. ASSUME NEW t \in SUBSET (1..n), t # {}
        PROVE  it[t] = it[t \ {Max(t)}] + s[Max(t)]
    <3>1. PICK r : r = t \ {Max(t)}
      OBVIOUS
    <3>2. PICK k : k = Max(t)
      OBVIOUS
    <3>3. r \in SUBSET (1..n) /\ k \in 1..n
      BY <2>1, <3>1, <3>2, RestOfPositions
    <3>4. it[r] \in Int /\ it[t] = step[<<it[r], k>>]
      BY <1>4, <2>1, <3>1, <3>2, <3>3 DEF Folds
    <3>5. <<it[r], k>> \in Int \X (1..n)
      BY <3>3, <3>4
    <3>6. step[<<it[r], k>>] = it[r] + s[k]
      BY <1>2, <3>5
    <3> QED
      BY <3>1, <3>2, <3>4, <3>6
  <2>2. it[{}] = 0 /\ it \in [SUBSET (1..n) -> Int]
    BY <1>4 DEF Folds
  <2>3. it = [t \in SUBSET (1..n) |-> IF t = {} THEN 0 ELSE it[t \ {Max(t)}] + s[Max(t)]]
    BY <2>1, <2>2
  <2> QED
    BY <1>1, <2>3 DEF SumIter
<1>6. PICK j : j = CHOOSE f : SumIter(f, s)
  OBVIOUS
<1>7. SumIter(j, s)
  BY <1>5, <1>6
<1>8. j[1..0] = 0
  <2>1. 1..0 = {} /\ {} \in SUBSET (1..n)
    OBVIOUS
  <2> QED
    BY <1>1, <1>7, <2>1 DEF SumIter
<1>9. ASSUME NEW k \in 1..n PROVE j[1..k] = j[1..(k - 1)] + s[k]
  <2>1. /\ 1..k \in SUBSET (1..n) /\ 1..k # {} /\ Max(1..k) = k
        /\ (1..k) \ {k} = 1..(k - 1)
    BY PrefixOfPositions
  <2>2. PICK t : t = 1..k
    OBVIOUS
  <2>3. j[t] = j[t \ {Max(t)}] + s[Max(t)]
    BY <1>1, <1>7, <2>1, <2>2 DEF SumIter
  <2> QED
    BY <2>1, <2>2, <2>3
<1>10. PICK p : p = [k \in 0..n |-> j[1..k]]
  OBVIOUS
<1>11. p[0] = 0 /\ \A k \in 1..n : p[k] = p[k - 1] + s[k]
  <2>1. \A k \in 1..n : k \in 0..n /\ k - 1 \in 0..n
    OBVIOUS
  <2> QED
    BY <1>8, <1>9, <1>10, <2>1
<1>12. p \in [0..n -> Int]
  <2> DEFINE P == {k \in Nat : k \in 0..n => p[k] \in Int}
  <2>1. 0 \in P
    BY <1>11
  <2>2. ASSUME NEW k \in Nat, k \in P PROVE k + 1 \in P
    <3> SUFFICES ASSUME k + 1 \in 0..n PROVE p[k + 1] \in Int
      OBVIOUS
    <3>1. PICK m \in 1..n : m = k + 1 /\ m - 1 = k
      OBVIOUS
    <3>2. p[k] \in Int /\ s[m] \in Int /\ p[m] = p[k] + s[m]
      BY <1>1, <1>11, <2>2, <3>1
    <3> QED
      BY <3>1, <3>2
  <2>3. Nat \subseteq P
    <3> HIDE DEF P
    <3> QED
      BY <2>1, <2>2, NatSetInduction
  <2> QED
    BY <1>10, <2>3
<1>13. Sums(p, s)
  BY <1>1, <1>11, <1>12 DEF Sums
<1>14. SumOf(s) = p[n]
  BY <1>1, <1>6, <1>10, SumIs
<1> QED
  BY <1>1, <1>13, <1>14

\* The entries of t are those of s behind the first m.
Behind(s, m, t) == m + Len(t) <= Len(s) /\ \A k \in 1..Len(t) : s[m + k] = t[k]

\* Where the entries are the same, the sums of the prefixes run in parallel.
LEMMA SumsShift ==
    ASSUME NEW s \in Seq(Int), NEW t \in Seq(Int), NEW p, NEW q, Sums(p, s), Sums(q, t),
           NEW m \in Nat, Behind(s, m, t)
    PROVE  p[m] \in Int /\ q[Len(t)] \in Int /\ p[m + Len(t)] = p[m] + q[Len(t)]
<1> USE DEF Behind
<1>1. PICK l \in Nat : l = Len(s)
  OBVIOUS
<1>2. PICK n \in Nat : n = Len(t) /\ m + n <= l
  BY <1>1
<1>3. /\ p \in [0..l -> Int] /\ \A k \in 1..l : p[k] = p[k - 1] + s[k]
      /\ q \in [0..n -> Int] /\ q[0] = 0 /\ \A k \in 1..n : q[k] = q[k - 1] + t[k]
  BY <1>1, <1>2 DEF Sums
<1> DEFINE P == {k \in Nat : k <= n => p[m + k] = p[m] + q[k]}
<1>4. p[m] \in Int
  <2>1. m \in 0..l
    BY <1>2
  <2> QED
    BY <1>3, <2>1
<1>5. 0 \in P
  BY <1>3, <1>4
<1>6. ASSUME NEW k \in Nat, k \in P PROVE k + 1 \in P
  <2> SUFFICES ASSUME k + 1 <= n PROVE p[m + (k + 1)] = p[m] + q[k + 1]
    OBVIOUS
  <2>1. PICK j \in 1..n : j = k + 1 /\ j - 1 = k
    BY <1>2
  <2>2. PICK i \in 1..l : i = m + j /\ i - 1 = m + k
    BY <1>1, <1>2, <2>1
  <2>3. p[i] = p[m + k] + s[i] /\ q[j] = q[k] + t[j] /\ s[i] = t[j]
    BY <1>2, <1>3, <2>1, <2>2
  <2>4. p[m + k] = p[m] + q[k] /\ q[k] \in Int /\ t[j] \in Int
    <3>1. k \in 0..n /\ k <= n /\ j \in 1..Len(t)
      BY <1>2, <2>1
    <3>2. p[m + k] = p[m] + q[k]
      BY <1>6, <3>1
    <3>3. q[k] \in Int
      BY ONLY <1>3, <3>1
    <3>4. t[j] \in Int
      BY <3>1
    <3> QED
      BY <3>2, <3>3, <3>4
  <2>5. PICK a, b, c \in Int : a = p[m] /\ b = q[k] /\ c = t[j]
    BY <1>4, <2>4
  <2>6. (a + b) + c = a + (b + c)
    OBVIOUS
  <2>7. p[i] = p[m] + q[j]
    BY ONLY <2>3, <2>4, <2>5, <2>6
  <2> QED
    BY <2>1, <2>2, <2>7
<1>7. Nat \subseteq P
  <2> HIDE DEF P
  <2> QED
    BY <1>5, <1>6, NatSetInduction
<1>8. n \in 0..n /\ n \in P
  BY <1>7
<1>9. q[n] \in Int /\ p[m + n] = p[m] + q[n]
  BY <1>3, <1>8
<1> QED
  BY <1>2, <1>4, <1>9

\* A sum of integers is one, the sum of nothing is zero.
LEMMA SumType == \A s \in Seq(Int) : SumOf(s) \in Int
<1> SUFFICES ASSUME NEW s \in Seq(Int) PROVE SumOf(s) \in Int
  OBVIOUS
<1>1. PICK p : Sums(p, s) /\ SumOf(s) = p[Len(s)]
  BY SumSteps
<1>2. Len(s) \in 0..Len(s)
  OBVIOUS
<1> QED
  BY <1>1, <1>2 DEF Sums

LEMMA SumNone == SumOf(<<>>) = 0
<1>1. PICK s : s = <<>>
  OBVIOUS
<1>2. s \in Seq(Int) /\ Len(s) = 0
  BY <1>1
<1>3. PICK p : Sums(p, s) /\ SumOf(s) = p[Len(s)]
  BY <1>2, SumSteps
<1> QED
  BY <1>1, <1>2, <1>3 DEF Sums

LEMMA SumOne == \A x \in Int : SumOf(<<x>>) = x
<1> SUFFICES ASSUME NEW x \in Int PROVE SumOf(<<x>>) = x
  OBVIOUS
<1>1. PICK s : s = <<x>>
  OBVIOUS
<1>2. s \in Seq(Int) /\ Len(s) = 1 /\ s[1] = x
  BY <1>1
<1>3. PICK p : Sums(p, s) /\ SumOf(s) = p[Len(s)]
  BY <1>2, SumSteps
<1>4. 1 \in 1..Len(s) /\ 1 - 1 = 0
  BY <1>2
<1>5. p[1] = p[0] + s[1] /\ p[0] = 0
  BY <1>3, <1>4 DEF Sums
<1> QED
  BY <1>1, <1>2, <1>3, <1>5

\* The sum of two sequences is that of the first and that of the second.
LEMMA SumConcat ==
    ASSUME NEW s \in Seq(Int), NEW t \in Seq(Int)
    PROVE  s \o t \in Seq(Int) /\ SumOf(s \o t) = SumOf(s) + SumOf(t)
<1>1. PICK c : c = s \o t
  OBVIOUS
<1>2. c \in Seq(Int) /\ Len(c) = Len(s) + Len(t) /\ Len(s) \in Nat /\ Len(t) \in Nat
  BY <1>1
<1>3. /\ \A k \in 1..Len(s) : c[k] = s[k]
      /\ \A k \in 1..Len(t) : c[Len(s) + k] = t[k]
  BY <1>1
<1>4. PICK pc : Sums(pc, c) /\ SumOf(c) = pc[Len(c)]
  BY <1>2, SumSteps
<1>5. PICK ps : Sums(ps, s) /\ SumOf(s) = ps[Len(s)]
  BY SumSteps
<1>6. PICK pt : Sums(pt, t) /\ SumOf(t) = pt[Len(t)]
  BY SumSteps
<1>7. pc[Len(s)] = SumOf(s) /\ SumOf(s) \in Int
  <2>1. Behind(c, 0, s)
    BY <1>2, <1>3 DEF Behind
  <2>2. PICK m \in Nat : m = 0
    OBVIOUS
  <2>3. pc[m] \in Int /\ ps[Len(s)] \in Int /\ pc[m + Len(s)] = pc[m] + ps[Len(s)]
    BY <1>2, <1>4, <1>5, <2>1, <2>2, SumsShift
  <2>4. pc[0] = 0
    BY <1>4 DEF Sums
  <2> QED
    BY <1>2, <1>5, <2>2, <2>3, <2>4
<1>8. pc[Len(s) + Len(t)] = pc[Len(s)] + pt[Len(t)]
  <2>1. Behind(c, Len(s), t)
    BY <1>2, <1>3 DEF Behind
  <2>2. PICK m \in Nat : m = Len(s)
    BY <1>2
  <2>3. pc[m + Len(t)] = pc[m] + pt[Len(t)]
    <3>1. Behind(c, m, t)
      BY <2>1, <2>2
    <3> QED
      BY <1>2, <1>4, <1>6, <3>1, SumsShift
  <2> QED
    BY <2>2, <2>3
<1> QED
  BY <1>1, <1>2, <1>4, <1>6, <1>7, <1>8

\* The sum with one more entry.
LEMMA SumAppend ==
    ASSUME NEW s \in Seq(Int), NEW x \in Int
    PROVE  Append(s, x) \in Seq(Int) /\ SumOf(Append(s, x)) = SumOf(s) + x
<1>1. <<x>> \in Seq(Int) /\ Append(s, x) = s \o <<x>>
  OBVIOUS
<1> QED
  BY <1>1, SumConcat, SumOne

-----------------------------------------------------------------------------
(***************************************************************************)
(* The budget                                                              *)
(***************************************************************************)

\* The weights of the first k domains.
Weights(k) == SumOf(SubSeq(recipe.weight, 1, k))

\* Every quota is positive and the rounded shares leave enough for the last.
QuotasShape ==
    /\ spent = SumOf(quota)
    /\ \A i \in DOMAIN quota : quota[i] >= 1
    /\ phase = "quotas" =>
          spent * recipe.whole
             <= Len(quota) * recipe.whole + (recipe.budget - N) * Weights(Len(quota))
    /\ phase # "quotas" => spent = recipe.budget

Working == {"chat", "paragraphs", "units"}

Met(i) ==
    /\ report[i].tokens * recipe.outOf >= recipe.atLeast * quota[i]
    /\ report[i].tokens < quota[i] + Limit

\* A domain works only on a quota that is not met yet, and is reported when it is.
Filling ==
    /\ phase = "records" => total < quota[at] + Limit
    /\ phase \in Working => total < quota[at]
    /\ Len(report) = at - 1
    /\ \A i \in DOMAIN report : Met(i)
    /\ phase \in {"pack", "done"} => at = N + 1
    /\ phase = "domain" => at <= N

BudgetInv == QuotasShape /\ Filling

\* What is demanded of the recipe that is used.
LEMMA RecipeType ==
    ASSUME TypeOK
    PROVE  /\ N \in Nat /\ N >= 1
           /\ recipe.budget \in Nat /\ recipe.budget >= N
           /\ recipe.weight \in [1..N -> Positive] /\ recipe.weight \in Seq(Int)
           /\ Len(recipe.weight) = N
           /\ recipe.whole = SumOf(recipe.weight)
           /\ recipe.whole \in Nat /\ recipe.whole >= 1
           /\ recipe.atLeast \in Nat /\ recipe.atLeast >= 1
           /\ recipe.outOf \in Nat /\ recipe.outOf >= 1
           /\ Limit \in Nat /\ Limit >= 1
<1>1. recipe \in Recipes /\ N \in Nat /\ N >= 1
  BY RecordsAssumption DEF TypeOK, Positive
<1>2. recipe.weight \in [1..N -> Positive]
  BY <1>1, RecipesAssumption
<1>3. recipe.weight \in Seq(Int) /\ Len(recipe.weight) = N
  BY <1>1, <1>2 DEF Positive
<1> QED
  BY <1>1, <1>2, <1>3, RecipesAssumption DEF Positive, Limit

\* The weights add up one by one.
LEMMA WeightsStep ==
    ASSUME TypeOK
    PROVE  /\ Weights(0) = 0
           /\ Weights(N) = recipe.whole
           /\ \A k \in 0..N : Weights(k) \in Nat
           /\ \A k \in 0..N - 1 : Weights(k + 1) = Weights(k) + recipe.weight[k + 1]
<1> PICK w : w = recipe.weight
  OBVIOUS
<1>1. N \in Nat /\ N >= 1 /\ w \in [1..N -> Positive] /\ w \in Seq(Int) /\ Len(w) = N
        /\ recipe.whole = SumOf(w)
  BY RecipeType
<1>2. Weights(0) = 0
  <2>1. SubSeq(w, 1, 0) = <<>>
    BY <1>1
  <2> QED
    BY <2>1, SumNone DEF Weights
<1>3. Weights(N) = recipe.whole
  <2>1. SubSeq(w, 1, N) = w
    BY <1>1
  <2> QED
    BY <1>1, <2>1 DEF Weights
<1>4. ASSUME NEW k \in 0..N - 1 PROVE Weights(k + 1) = Weights(k) + w[k + 1]
  <2>1. k \in Nat /\ k + 1 \in 1..N
    BY <1>1
  <2>2. SubSeq(w, 1, k) \in Seq(Int) /\ w[k + 1] \in Int
    BY <1>1, <2>1 DEF Positive
  <2>3. SubSeq(w, 1, k + 1) = Append(SubSeq(w, 1, k), w[k + 1])
    BY <1>1, <2>1
  <2> QED
    BY <2>2, <2>3, SumAppend DEF Weights
<1>5. \A k \in 0..N : Weights(k) \in Nat
  <2> DEFINE P == {k \in Nat : k <= N => Weights(k) \in Nat}
  <2>1. 0 \in P
    BY <1>2
  <2>2. ASSUME NEW k \in Nat, k \in P PROVE k + 1 \in P
    <3> SUFFICES ASSUME k + 1 <= N PROVE Weights(k + 1) \in Nat
      OBVIOUS
    <3>1. k \in 0..N - 1 /\ k + 1 \in 1..N /\ k <= N
      BY <1>1
    <3>2. Weights(k + 1) = Weights(k) + w[k + 1] /\ w[k + 1] \in Nat /\ Weights(k) \in Nat
      BY <1>1, <1>4, <2>2, <3>1 DEF Positive
    <3> QED
      BY <3>2
  <2>3. Nat \subseteq P
    <3> HIDE DEF P
    <3> QED
      BY <2>1, <2>2, NatSetInduction
  <2> QED
    BY <1>1, <2>3
<1> QED
  BY <1>2, <1>3, <1>4, <1>5

\* A rounded share is no more than the exact one.
LEMMA ShareIs ==
    ASSUME TypeOK, NEW i \in 1..N, NEW s \in Share(i)
    PROVE  s \in Nat /\ s * recipe.whole <= (recipe.budget - N) * recipe.weight[i]
<1> PICK parts, whole : parts = (recipe.budget - N) * recipe.weight[i] /\ whole = recipe.whole
  OBVIOUS
<1>1. parts \in Nat /\ whole \in Nat /\ whole >= 1
  <2>1. PICK a \in Nat : a = recipe.budget - N
    BY RecipeType
  <2>2. PICK b \in Nat : b = recipe.weight[i]
    BY RecipeType DEF Positive
  <2>3. a * b \in Nat
    OBVIOUS
  <2> QED
    BY <2>1, <2>2, <2>3, RecipeType
<1> PICK exact : exact = parts \div whole
  OBVIOUS
<1>2. exact \in Nat /\ exact * whole <= parts
  BY <1>1
<1>3. s = exact \/ (exact > 0 /\ s = exact - 1)
  BY DEF Share
<1>4. CASE s = exact
  BY <1>2, <1>4
<1>5. CASE exact > 0 /\ s = exact - 1
  <2>1. s \in Nat /\ s * whole = exact * whole - whole
    BY <1>1, <1>2, <1>5
  <2> QED
    BY <1>1, <1>2, <2>1
<1> QED
  BY <1>3, <1>4, <1>5

\* A product does not shrink with its factor.
LEMMA ProductGrows ==
    ASSUME NEW a \in Int, NEW b \in Int, NEW c \in Nat, a <= b
    PROVE  a * c <= b * c
<1>1. PICK d \in Nat : d = b - a
  OBVIOUS
<1>2. b = a + d /\ (a + d) * c = a * c + d * c /\ d * c \in Nat /\ a * c \in Int
  BY <1>1
<1> QED
  BY <1>2

LEMMA ProductOrder ==
    ASSUME NEW a \in Int, NEW b \in Int, NEW c \in Nat, c >= 1, a * c <= b * c
    PROVE  a <= b
<1> SUFFICES ASSUME b + 1 <= a PROVE FALSE
  OBVIOUS
<1>1. (b + 1) * c <= a * c
  BY ProductGrows
<1>2. (b + 1) * c = b * c + c /\ b * c \in Int /\ a * c \in Int
  OBVIOUS
<1> QED
  BY <1>1, <1>2

\* A rounded share leaves enough for those that follow.
LEMMA ShareLeaves ==
    ASSUME NEW sum \in Int, NEW k \in Nat, NEW whole \in Nat, NEW rest \in Nat,
           NEW all \in Nat, NEW w \in Nat, NEW s \in Nat,
           sum * whole <= k * whole + rest * all, s * whole <= rest * w
    PROVE  (sum + (1 + s)) * whole <= (k + 1) * whole + rest * (all + w)
<1>1. (sum + (1 + s)) * whole = sum * whole + whole + s * whole
  OBVIOUS
<1>2. (k + 1) * whole = k * whole + whole
  OBVIOUS
<1>3. rest * (all + w) = rest * all + rest * w
  OBVIOUS
<1>4. sum * whole \in Int /\ s * whole \in Int /\ k * whole \in Int
  OBVIOUS
<1>5. rest * all \in Int /\ rest * w \in Int
  OBVIOUS
<1> QED
  BY <1>1, <1>2, <1>3, <1>4, <1>5

\* What is left for the last share is at least one token.
LEMMA LastIsPositive ==
    ASSUME NEW sum \in Int, NEW k \in Nat, NEW whole \in Nat, NEW rest \in Nat,
           NEW all \in Nat, all <= whole, whole >= 1,
           sum * whole <= k * whole + rest * all
    PROVE  sum <= k + rest
<1>1. all * rest <= whole * rest
  BY ProductGrows
<1>2. rest * all = all * rest /\ rest * whole = whole * rest
  OBVIOUS
<1>3. (k + rest) * whole = k * whole + rest * whole
  OBVIOUS
<1>4. sum * whole \in Int /\ k * whole \in Int /\ rest * whole \in Int /\ rest * all \in Int
  OBVIOUS
<1>5. sum * whole <= (k + rest) * whole
  BY <1>1, <1>2, <1>3, <1>4
<1>6. k + rest \in Int
  OBVIOUS
<1> QED
  BY <1>5, <1>6, ProductOrder

LEMMA QuotaBudget ==
    ASSUME IInv, IInv', BudgetInv, AssignQuota
    PROVE  BudgetInv'
<1> USE DEF BudgetInv
<1>1. TypeOK /\ phase = "quotas" /\ Len(quota) < N /\ at = 1
        /\ quota \in Seq(Int) /\ spent \in Int
  BY DEF IInv, TypeOK, QuotasDone, AssignQuota
<1> PICK k, whole, rest : k = Len(quota) /\ whole = recipe.whole /\ rest = recipe.budget - N
  OBVIOUS
<1>2. k \in 0..N - 1 /\ k \in Nat /\ N \in Nat /\ whole \in Nat /\ whole >= 1 /\ rest \in Nat
        /\ recipe.budget \in Nat
  BY <1>1, RecipeType
<1>3. PICK q : /\ q \in IF k + 1 < N THEN {1 + x : x \in Share(k + 1)} ELSE {recipe.budget - spent}
               /\ quota' = Append(quota, q) /\ spent' = spent + q
  BY DEF AssignQuota
<1>4. PICK w, all : w = recipe.weight[k + 1] /\ all = Weights(k)
  OBVIOUS
<1>5. w \in Nat /\ w >= 1 /\ all \in Nat /\ Weights(k + 1) = all + w /\ Weights(N) = whole
  <2>1. k + 1 \in 1..N /\ k \in 0..N
    BY <1>2
  <2>2. w \in Nat /\ w >= 1
    <3>1. recipe.weight \in [1..N -> Positive]
      BY <1>1, RecipeType
    <3>2. w \in Positive
      BY <1>4, <2>1, <3>1
    <3> QED
      BY <3>2 DEF Positive
  <2>3. all \in Nat /\ Weights(k + 1) = all + w /\ Weights(N) = whole
    BY <1>1, <1>2, <1>4, <2>1, WeightsStep
  <2> QED
    BY <2>2, <2>3
<1>6. spent * whole <= k * whole + rest * all
  BY <1>1, <1>4 DEF QuotasShape
<1>7. /\ q \in Int /\ q >= 1
      /\ k + 1 < N => (spent + q) * whole <= (k + 1) * whole + rest * (all + w)
      /\ k + 1 = N => spent + q = recipe.budget
  <2>1. CASE k + 1 < N
    <3>1. PICK s \in Share(k + 1) : q = 1 + s
      BY <1>3, <2>1
    <3>2. k + 1 \in 1..N
      BY <1>2
    <3>3. s \in Nat /\ s * whole <= rest * w
      BY <1>1, <1>4, <3>1, <3>2, ShareIs
    <3>4. q \in Int /\ q >= 1
      BY <3>1, <3>3
    <3>5. (spent + (1 + s)) * whole <= (k + 1) * whole + rest * (all + w)
      BY <1>1, <1>2, <1>5, <1>6, <3>3, ShareLeaves
    <3> QED
      BY <2>1, <3>1, <3>4, <3>5
  <2>2. CASE k + 1 = N
    <3>1. q = recipe.budget - spent
      BY <1>3, <2>2
    <3>2. all <= whole
      BY <1>2, <1>5, <2>2
    <3>6. k + rest \in Int /\ k + rest = recipe.budget - 1
      BY <1>2, <2>2
    <3>7. spent <= k + rest
      BY <1>1, <1>2, <1>5, <1>6, <3>2, LastIsPositive
    <3> QED
      <4>1. PICK b, x \in Int : b = recipe.budget /\ x = spent
        BY <1>1, <1>2
      <4>2. q = b - x /\ x <= b - 1
        BY <3>1, <3>6, <3>7, <4>1
      <4>3. q \in Int /\ q >= 1 /\ x + q = b
        BY ONLY <4>1, <4>2
      <4>4. q \in Int /\ q >= 1 /\ spent + q = recipe.budget
        BY <4>1, <4>3
      <4> QED
        BY <1>2, <2>2, <4>4
  <2> QED
    BY <1>2, <2>1, <2>2
<1>8. /\ quota' \in Seq(Int) /\ Len(quota') = k + 1
      /\ \A i \in DOMAIN quota' : quota'[i] >= 1
      /\ SumOf(quota)' = spent + q
  <2>1. SumOf(quota) = spent /\ \A i \in DOMAIN quota : quota[i] >= 1
    BY DEF QuotasShape
  <2>2. PICK s, x : s = quota /\ x = q
    OBVIOUS
  <2>3. s \in Seq(Int) /\ x \in Int /\ Len(s) = k /\ x >= 1 /\ \A i \in DOMAIN s : s[i] >= 1
    BY <1>1, <1>7, <2>1, <2>2
  <2>4. /\ Append(s, x) \in Seq(Int) /\ Len(Append(s, x)) = k + 1
        /\ \A i \in DOMAIN Append(s, x) : Append(s, x)[i] >= 1
    BY ONLY <2>3
  <2>5. SumOf(Append(s, x)) = SumOf(s) + x
    BY <2>3, SumAppend
  <2>6. quota' = Append(s, x)
    BY <1>3, <2>2
  <2>7. SumOf(quota)' = SumOf(Append(s, x))
    BY <2>6
  <2> QED
    BY <2>1, <2>2, <2>4, <2>5, <2>6, <2>7
<1>9. phase' = (IF k + 1 = N THEN "domain" ELSE "quotas")
        /\ recipe' = recipe /\ at' = at /\ report' = report
  BY DEF AssignQuota, queue
<1>10. Weights(k + 1)' = Weights(k + 1)
  BY <1>9 DEF Weights
<1>11. QuotasShape'
  <2>1. spent' = SumOf(quota)'
    BY <1>3, <1>8
  <2>2. CASE k + 1 = N
    <3>1. phase' = "domain" /\ spent' = recipe'.budget
      BY <1>3, <1>7, <1>9, <2>2
    <3> QED
      BY <1>8, <2>1, <3>1 DEF QuotasShape
  <2>3. CASE k + 1 < N
    <3>1. phase' = "quotas"
      BY <1>2, <1>9, <2>3
    <3>2. PICK j : j = k + 1
      OBVIOUS
    <3>3. Len(quota') = j /\ Weights(j)' = all + w
      BY <1>5, <1>8, <1>10, <3>2
    <3>4. Weights(Len(quota))' = all + w
      BY <3>3 DEF Weights
    <3>5. recipe'.whole = whole /\ recipe'.budget - N = rest /\ Len(quota)' = k + 1
      BY <1>8, <1>9
    <3>6. (spent + q) * whole <= (k + 1) * whole + rest * (all + w)
      BY <1>7, <2>3
    <3>7. spent' * recipe'.whole
             <= Len(quota)' * recipe'.whole + (recipe'.budget - N) * Weights(Len(quota))'
      BY ONLY <1>3, <3>4, <3>5, <3>6
    <3> QED
      BY <1>8, <2>1, <3>1, <3>7 DEF QuotasShape
  <2> QED
    BY <1>2, <2>2, <2>3
<1>12. Filling'
  <2>1. Len(report) = 0 /\ 1 <= N
    BY <1>1, RecipeType DEF Filling
  <2> QED
    BY <1>1, <1>9, <2>1 DEF Filling, Working, IInv, TypeOK
<1> QED
  BY <1>11, <1>12

\* Quotas stay once they are assigned.
LEMMA QuotasStay ==
    ASSUME QuotasShape, phase # "quotas", phase' # "quotas", UNCHANGED plan
    PROVE  QuotasShape'
BY DEF QuotasShape, plan

LEMMA StartBudget ==
    ASSUME IInv, BudgetInv, StartDomain
    PROVE  BudgetInv'
<1> USE DEF BudgetInv
<1>1. phase = "domain" /\ phase' = "records" /\ at' = at /\ total' = 0 /\ report' = report
        /\ UNCHANGED plan
  BY DEF StartDomain
<1>2. QuotasShape'
  BY <1>1, QuotasStay
<1>3. at \in 1..N /\ Len(quota) = N /\ quota \in Seq(Int) /\ N \in Nat
  BY RecipeType DEF IInv, TypeOK, StartDomain, QuotasDone
<1>4. quota[at] \in Int /\ quota[at] >= 1 /\ Limit \in Nat
  <2>1. at \in 1..Len(quota)
    BY <1>3
  <2>2. quota[at] \in Int
    BY <1>3, <2>1
  <2>3. quota[at] >= 1
    BY <2>1 DEF QuotasShape
  <2>4. Limit \in Nat
    BY RecipeType DEF IInv
  <2> QED
    BY <2>2, <2>3, <2>4
<1>5. quota' = quota /\ recipe' = recipe /\ Limit' = Limit
  BY <1>1 DEF plan, Limit
<1> QED
  BY <1>1, <1>2, <1>4, <1>5 DEF Filling, Working, Met

\* A step that reads or cuts leaves the count of the domain alone.
LEMMA QuietBudget ==
    ASSUME IInv, BudgetInv, UNCHANGED <<plan, at, total, report>>,
           phase \in {"records"} \cup Working,
           phase' \in {"records"} \cup Working,
           phase = "records" => More
    PROVE  BudgetInv'
<1> USE DEF BudgetInv
<1>1. QuotasShape'
  BY QuotasStay DEF Working
<1>2. quota' = quota /\ recipe' = recipe /\ Limit' = Limit
  BY DEF plan, Limit
<1>3. at \in 1..N /\ Len(quota) = N /\ quota \in Seq(Int) /\ N \in Nat
  BY RecipeType DEF IInv, TypeOK, Reading, QuotasDone, Working
<1>4. quota[at] \in Int /\ Limit \in Nat /\ total \in Nat /\ Limit >= 1
  BY <1>3, RecipeType DEF IInv, TypeOK
<1>5. total < quota[at]
  BY DEF Filling, More, Working
<1> QED
  BY <1>1, <1>2, <1>4, <1>5 DEF Filling, Working, Met

LEMMA TakeBudget ==
    ASSUME IInv, BudgetInv, TakeUnit
    PROVE  BudgetInv'
<1> USE DEF BudgetInv
<1>1. /\ phase = "units" /\ phase' = (IF total' >= quota[at] \/ next = Len(units)
                                        THEN "records" ELSE "units")
      /\ total' = total + units[next].len /\ next <= Len(units)
      /\ at' = at /\ report' = report /\ UNCHANGED plan
  BY DEF TakeUnit, queue
<1>2. QuotasShape'
  BY <1>1, QuotasStay
<1>3. quota' = quota /\ recipe' = recipe /\ Limit' = Limit
  BY <1>1 DEF plan, Limit
<1>4. at \in 1..N /\ Len(quota) = N /\ quota \in Seq(Int) /\ N \in Nat
  BY <1>1, RecipeType DEF IInv, TypeOK, Reading, QuotasDone
<1>5. quota[at] \in Int /\ Limit \in Nat /\ total \in Nat /\ total < quota[at]
  BY <1>1, <1>4, RecipeType DEF IInv, TypeOK, Filling, Working
<1>6. next \in DOMAIN units /\ units[next].len \in Nat
  <2>1. next \in 1..Len(units) /\ units \in Seq(Units)
    BY <1>1 DEF IInv, TypeOK, Positive
  <2>2. units[next] \in Units
    BY <2>1
  <2> QED
    BY <2>1, <2>2 DEF Units
<1>7. units[next].len <= Limit
  BY <1>6 DEF IInv, AllShort, Short
<1>8. total' < quota[at] + Limit
  BY <1>1, <1>5, <1>6, <1>7
<1>9. phase' = "units" => total' < quota[at]
  BY <1>1, <1>5, <1>6
<1> QED
  BY <1>1, <1>2, <1>3, <1>8, <1>9 DEF Filling, Working, Met

LEMMA GateBudget ==
    ASSUME IInv, BudgetInv, Gate
    PROVE  BudgetInv'
<1> USE DEF BudgetInv
<1>1. phase = "records" /\ UNCHANGED plan /\ phase' # "quotas"
  BY DEF Gate
<1>2. QuotasShape'
  BY <1>1, QuotasStay
<1>3. quota' = quota /\ recipe' = recipe /\ Limit' = Limit
  BY <1>1 DEF plan, Limit
<1>4. at \in 1..N /\ N \in Nat
  BY <1>1, RecipeType DEF IInv, TypeOK, Reading
<1>5. /\ Len(report) = at - 1 /\ total < quota[at] + Limit
      /\ \A i \in DOMAIN report : Met(i)
      /\ report \in Seq([tokens : Nat, wraps : 0..2])
  BY <1>1 DEF Filling, IInv, TypeOK
<1>6. CASE total * recipe.outOf < recipe.atLeast * quota[at]
  <2>1. phase' = "failed" /\ at' = at /\ report' = report
    BY <1>6 DEF Gate
  <2> QED
    BY <1>2, <1>3, <1>5, <2>1 DEF Filling, Working, Met
<1>7. CASE ~(total * recipe.outOf < recipe.atLeast * quota[at])
  <2>1. PICK r : r = [tokens |-> total, wraps |-> wraps]
    OBVIOUS
  <2>2. report' = Append(report, r) /\ at' = at + 1
        /\ phase' = (IF at = N THEN "pack" ELSE "domain")
    BY <1>7, <2>1 DEF Gate
  <2>3. r \in [tokens : Nat, wraps : 0..2] /\ r.tokens = total
    BY <2>1 DEF IInv, TypeOK
  <2>4. Len(report') = at /\ report'[at] = r
        /\ \A i \in 1..at - 1 : i \in DOMAIN report /\ report'[i] = report[i]
    BY <1>4, <1>5, <2>2, <2>3
  <2>5. total * recipe.outOf >= recipe.atLeast * quota[at]
    <3>1. quota \in Seq(Int) /\ Len(quota) = N
      BY <1>1 DEF IInv, TypeOK, QuotasDone
    <3>2. total \in Int /\ recipe.outOf \in Int /\ recipe.atLeast \in Int /\ quota[at] \in Int
      BY <1>4, <3>1, RecipeType DEF IInv, TypeOK
    <3>3. total * recipe.outOf \in Int /\ recipe.atLeast * quota[at] \in Int
      BY <3>2
    <3> QED
      BY <1>7, <3>3
  <2>6. ASSUME NEW i \in DOMAIN report' PROVE Met(i)'
    <3>1. CASE i = at
      BY <1>3, <1>5, <2>3, <2>4, <2>5, <3>1 DEF Met
    <3>2. CASE i # at
      <4>1. DOMAIN report' = 1..at
        BY <2>2, <2>3, <2>4, <1>5
      <4>2. i \in 1..at - 1
        BY <1>4, <3>2, <4>1
      <4> QED
        BY <1>3, <1>5, <2>4, <4>2 DEF Met
    <3> QED
      BY <3>1, <3>2
  <2> QED
    BY <1>2, <1>4, <2>2, <2>4, <2>6 DEF Filling, Working
<1> QED
  BY <1>6, <1>7

LEMMA PackBudget ==
    ASSUME IInv, BudgetInv, UNCHANGED <<plan, at, report>>,
           phase = "pack", phase' \in {"pack", "done"}
    PROVE  BudgetInv'
<1> USE DEF BudgetInv
<1>1. QuotasShape'
  BY QuotasStay
<1> QED
  BY <1>1 DEF Filling, Working, Met, plan, Limit

LEMMA BudgetInductive == IInv /\ IInv' /\ BudgetInv /\ [Next]_vars => BudgetInv'
<1> SUFFICES ASSUME IInv, IInv', BudgetInv, [Next]_vars PROVE BudgetInv'
  OBVIOUS
<1>1. CASE AssignQuota
  BY <1>1, QuotaBudget
<1>2. CASE StartDomain
  BY <1>2, StartBudget
<1>3. CASE NextRecord
  BY <1>3, QuietBudget DEF NextRecord, selection, Working
<1>4. CASE Chat
  BY <1>4, QuietBudget DEF Chat, queue, selection, Working
<1>5. CASE Paragraph
  BY <1>5, QuietBudget DEF Paragraph, queue, selection, Working
<1>6. CASE EndDocument
  BY <1>6, QuietBudget DEF EndDocument, queue, selection, Working
<1>7. CASE TakeUnit
  BY <1>7, TakeBudget
<1>8. CASE Gate
  BY <1>8, GateBudget
<1>9. CASE PackUnit
  BY <1>9, PackBudget DEF PackUnit, queue
<1>10. CASE LastRow
  BY <1>10, PackBudget DEF LastRow, queue
<1>11. CASE UNCHANGED vars
  BY <1>11 DEF vars, BudgetInv, QuotasShape, Weights, Filling, Met, Working, Limit
<1> QED
  BY <1>1, <1>2, <1>3, <1>4, <1>5, <1>6, <1>7, <1>8, <1>9, <1>10, <1>11
     DEF Next, Select, Pack, Quiet

LEMMA InitBudget == Init => BudgetInv
<1> SUFFICES ASSUME Init PROVE BudgetInv
  OBVIOUS
<1>1. TypeOK
  BY InitIInv DEF IInv
<1>2. Weights(0) = 0 /\ recipe.budget - N \in Int /\ recipe.whole \in Int
  BY <1>1, WeightsStep, RecipeType
<1>3. 0 * recipe.whole <= 0 * recipe.whole + (recipe.budget - N) * 0
  BY <1>2
<1>4. quota = <<>> /\ spent = 0 /\ Len(quota) = 0 /\ phase = "quotas"
  BY DEF Init
<1>5. QuotasShape
  BY <1>2, <1>3, <1>4, SumNone DEF QuotasShape
<1>6. Filling
  BY <1>1 DEF Init, Filling, Working
<1> QED
  BY <1>5, <1>6 DEF BudgetInv

\* A dataset is built of quotas that split the token budget and that every
\* domain has met in the required share, overshooting by less than one unit,
\* for any recipe and however the shares are rounded.
THEOREM BudgetAlwaysMet == Spec => []BudgetMet
<1>1. IInv /\ BudgetInv => BudgetMet
  <2> SUFFICES ASSUME IInv, BudgetInv, phase \in {"pack", "done"}
               PROVE  /\ SumOf(quota) = recipe.budget
                      /\ \A i \in 1..N :
                            /\ quota[i] >= 1
                            /\ report[i].tokens * recipe.outOf >= recipe.atLeast * quota[i]
                            /\ report[i].tokens < quota[i] + Limit
    BY DEF BudgetMet
  <2>1. Len(quota) = N /\ Len(report) = N /\ N \in Nat
        /\ quota \in Seq(Int) /\ report \in Seq([tokens : Nat, wraps : 0..2])
    BY RecipeType DEF IInv, TypeOK, QuotasDone, BudgetInv, Filling
  <2>2. \A i \in 1..N : i \in DOMAIN quota /\ i \in DOMAIN report
    BY <2>1
  <2> QED
    BY <2>2 DEF BudgetInv, QuotasShape, Filling, Met
<1> QED
  BY <1>1, Invariance, InitBudget, BudgetInductive, PTL DEF Spec

-----------------------------------------------------------------------------
(***************************************************************************)
(* Sums over the units, the rows and the report                            *)
(***************************************************************************)

\* Two sequences with the same entries are the same.
LEMMA SameSeq ==
    ASSUME NEW A, NEW s \in Seq(A), NEW t \in Seq(A), Len(s) = Len(t),
           \A i \in 1..Len(s) : s[i] = t[i]
    PROVE  s = t
OBVIOUS

\* The entries of a concatenation are those of its parts.
Concats(c, s, t) ==
    /\ Len(s) \in Nat /\ Len(t) \in Nat /\ Len(c) = Len(s) + Len(t)
    /\ \A i \in 1..Len(s) : c[i] = s[i]
    /\ \A i \in 1..Len(t) : c[Len(s) + i] = t[i]
    /\ \A i \in 1..Len(c) : i \in 1..Len(s) \/ \E j \in 1..Len(t) : i = Len(s) + j

LEMMA ConcatAt ==
    ASSUME NEW A, NEW s \in Seq(A), NEW t \in Seq(A), NEW c, c = s \o t
    PROVE  c \in Seq(A) /\ Concats(c, s, t)
<1>1. c \in Seq(A) /\ Len(s) \in Nat /\ Len(t) \in Nat /\ Len(c) = Len(s) + Len(t)
  OBVIOUS
<1>2. \A i \in 1..Len(s) : c[i] = s[i]
  OBVIOUS
<1>3. \A i \in 1..Len(t) : c[Len(s) + i] = t[i]
  OBVIOUS
<1>4. ASSUME NEW i \in 1..Len(c)
      PROVE  i \in 1..Len(s) \/ \E j \in 1..Len(t) : i = Len(s) + j
  <2>1. CASE i <= Len(s)
    BY <1>1, <2>1
  <2>2. CASE i > Len(s)
    <3>1. i - Len(s) \in 1..Len(t) /\ i = Len(s) + (i - Len(s))
      BY <1>1, <2>2
    <3> QED
      BY <3>1
  <2> QED
    BY <1>1, <2>1, <2>2
<1> QED
  BY <1>1, <1>2, <1>3, <1>4 DEF Concats

\* What the entries of s are worth by f.
Worth(f, s) == [i \in DOMAIN s |-> f[s[i]]]

IsWorth(w, f, s) == Len(w) = Len(s) /\ \A i \in 1..Len(s) : w[i] = f[s[i]]

LEMMA WorthIs ==
    ASSUME NEW A, NEW f, NEW s \in Seq(A), NEW w, w = Worth(f, s)
    PROVE  w \in Seq({f[x] : x \in A}) /\ IsWorth(w, f, s)
<1>1. \A i \in 1..Len(s) : f[s[i]] \in {f[x] : x \in A}
  OBVIOUS
<1> QED
  BY <1>1 DEF Worth, IsWorth

LEMMA WorthAt ==
    ASSUME NEW A, NEW B, NEW f \in [A -> B], NEW s \in Seq(A), NEW w, w = Worth(f, s)
    PROVE  w \in Seq(B)
<1>1. \A i \in 1..Len(s) : f[s[i]] \in B
  OBVIOUS
<1> QED
  BY <1>1 DEF Worth

\* The worth of two sequences is that of the first and that of the second.
LEMMA WorthConcat ==
    ASSUME NEW A, NEW f, NEW s \in Seq(A), NEW t \in Seq(A)
    PROVE  Worth(f, s \o t) = Worth(f, s) \o Worth(f, t)
<1>1. PICK c : c = s \o t
  OBVIOUS
<1>2. PICK ws, wt, d : ws = Worth(f, s) /\ wt = Worth(f, t) /\ d = ws \o wt
  OBVIOUS
<1>3. c \in Seq(A) /\ Len(c) = Len(s) + Len(t)
  BY <1>1
<1> PICK B : B = {f[x] : x \in A}
  OBVIOUS
<1>4. ws \in Seq(B) /\ wt \in Seq(B) /\ IsWorth(ws, f, s) /\ IsWorth(wt, f, t)
  BY <1>2, WorthIs
<1>5. PICK wc : wc = Worth(f, c)
  OBVIOUS
<1>6. wc \in Seq(B) /\ IsWorth(wc, f, c)
  BY <1>3, <1>5, WorthIs
<1>7. d \in Seq(B) /\ Concats(d, ws, wt) /\ Concats(c, s, t)
  BY <1>1, <1>2, <1>4, ConcatAt
<1>8. ASSUME NEW i \in 1..Len(c) PROVE wc[i] = d[i]
  <2>1. i \in 1..Len(s) \/ \E j \in 1..Len(t) : i = Len(s) + j
    BY <1>7 DEF Concats
  <2>2. CASE i \in 1..Len(s)
    <3>1. c[i] = s[i]
      BY <1>7, <2>2 DEF Concats
    <3>2. d[i] = f[s[i]]
      BY <1>4, <1>7, <2>2 DEF Concats, IsWorth
    <3> QED
      BY <1>6, <3>1, <3>2 DEF IsWorth
  <2>3. ASSUME NEW j \in 1..Len(t), i = Len(s) + j PROVE wc[i] = d[i]
    <3>1. c[i] = t[j]
      BY <1>7, <2>3 DEF Concats
    <3>2. d[i] = f[t[j]]
      BY <1>4, <1>7, <2>3 DEF Concats, IsWorth
    <3> QED
      BY <1>6, <3>1, <3>2 DEF IsWorth
  <2> QED
    BY <2>1, <2>2, <2>3
<1>9. wc = d
  <2>1. Len(wc) = Len(c) /\ Len(d) = Len(c)
    BY <1>3, <1>4, <1>6, <1>7 DEF Concats, IsWorth
  <2> QED
    BY <1>6, <1>7, <1>8, <2>1, SameSeq
<1> QED
  BY <1>1, <1>2, <1>5, <1>9

\* So sums over two sequences add up.
LEMMA WorthSum ==
    ASSUME NEW A, NEW f \in [A -> Int], NEW s \in Seq(A), NEW t \in Seq(A)
    PROVE  /\ SumOf(Worth(f, s)) \in Int
           /\ SumOf(Worth(f, s \o t)) = SumOf(Worth(f, s)) + SumOf(Worth(f, t))
<1>1. Worth(f, s) \in Seq(Int) /\ Worth(f, t) \in Seq(Int)
  BY WorthAt
<1>2. Worth(f, s \o t) = Worth(f, s) \o Worth(f, t)
  BY WorthConcat
<1> QED
  BY <1>1, <1>2, SumConcat, SumType

LEMMA WorthOne ==
    ASSUME NEW A, NEW f \in [A -> Int], NEW x \in A
    PROVE  SumOf(Worth(f, <<x>>)) = f[x]
<1>1. Worth(f, <<x>>) = <<f[x]>>
  BY DEF Worth
<1> QED
  BY <1>1, SumOne

LEMMA WorthNone == \A f : SumOf(Worth(f, <<>>)) = 0
<1>1. \A f : Worth(f, <<>>) = <<>>
  BY DEF Worth
<1> QED
  BY <1>1, SumNone

\* The tokens of units.
TokensOf == [u \in Units |-> u.len]

LEMMA TokensIs ==
    /\ TokensOf \in [Units -> Int]
    /\ \A us \in Seq(Units) : Tokens(us) = SumOf(Worth(TokensOf, us))
<1>1. TokensOf \in [Units -> Int]
  BY DEF TokensOf, Units
<1>2. ASSUME NEW us \in Seq(Units) PROVE Tokens(us) = SumOf(Worth(TokensOf, us))
  <2>1. \A i \in DOMAIN us : TokensOf[us[i]] = us[i].len
    BY DEF TokensOf
  <2>2. Worth(TokensOf, us) = [i \in DOMAIN us |-> us[i].len]
    BY <2>1 DEF Worth
  <2> QED
    BY <2>2 DEF Tokens
<1> QED
  BY <1>1, <1>2

LEMMA TokensConcat ==
    ASSUME NEW us \in Seq(Units), NEW vs \in Seq(Units)
    PROVE  Tokens(us) \in Int /\ Tokens(us \o vs) = Tokens(us) + Tokens(vs)
<1>1. us \o vs \in Seq(Units)
  OBVIOUS
<1>2. PICK A, f : A = Units /\ f = TokensOf
  OBVIOUS
<1>3. /\ SumOf(Worth(f, us)) \in Int
      /\ SumOf(Worth(f, us \o vs)) = SumOf(Worth(f, us)) + SumOf(Worth(f, vs))
  <2>1. f \in [A -> Int] /\ us \in Seq(A) /\ vs \in Seq(A)
    BY <1>2, TokensIs
  <2> QED
    BY ONLY <2>1, WorthSum
<1> QED
  BY <1>1, <1>2, <1>3, TokensIs

LEMMA TokensNone == Tokens(<<>>) = 0
<1>1. <<>> \in Seq(Units)
  OBVIOUS
<1> QED
  BY <1>1, TokensIs, WorthNone

LEMMA TokensOne == \A u \in Units : u.len \in Nat /\ Tokens(<<u>>) = u.len
<1> SUFFICES ASSUME NEW u \in Units PROVE u.len \in Nat /\ Tokens(<<u>>) = u.len
  OBVIOUS
<1>1. <<u>> \in Seq(Units) /\ u.len \in Nat /\ TokensOf[u] = u.len
  BY DEF Units, TokensOf
<1> QED
  BY <1>1, TokensIs, WorthOne

LEMMA TokensAppend ==
    ASSUME NEW us \in Seq(Units), NEW u \in Units
    PROVE  Tokens(Append(us, u)) = Tokens(us) + u.len
<1>1. <<u>> \in Seq(Units) /\ Append(us, u) = us \o <<u>>
  OBVIOUS
<1> QED
  BY <1>1, TokensConcat, TokensOne

\* A unit that is taken out takes its tokens with it.
LEMMA TokensRemoved ==
    ASSUME NEW us \in Seq(Units), NEW i \in 1..Len(us)
    PROVE  Tokens(us) = Tokens(RemoveAt(us, i)) + us[i].len
<1>1. PICK a, b, u : a = SubSeq(us, 1, i - 1) /\ b = SubSeq(us, i + 1, Len(us)) /\ u = us[i]
  OBVIOUS
<1>2. Len(us) \in Nat /\ i \in Nat /\ u \in Units
  BY <1>1
<1>3. a \in Seq(Units) /\ Len(a) = i - 1 /\ \A j \in 1..i - 1 : a[j] = us[j]
  BY <1>1, <1>2
<1>4. PICK m \in Nat : m = Len(us) - i /\ Len(us) = i + m
  BY <1>2
<1>5. b \in Seq(Units) /\ Len(b) = m /\ \A j \in 1..m : b[j] = us[i + j]
  <2>1. i + 1 <= Len(us) + 1 /\ Len(us) - (i + 1) + 1 = m
    BY <1>2, <1>4
  <2>2. b \in Seq(Units)
    BY <1>1, <1>2
  <2>3. Len(b) = m
    BY <1>1, <1>2, <2>1
  <2>4. ASSUME NEW j \in 1..m PROVE b[j] = us[i + j]
    <3>1. b[j] = us[(i + 1) + j - 1]
      BY <1>1, <1>2, <1>4, <2>1
    <3>2. (i + 1) + j - 1 = i + j
      BY <1>2
    <3> QED
      BY <3>1, <3>2
  <2> QED
    BY <2>2, <2>3, <2>4
<1>6. PICK c : c = a \o <<u>>
  OBVIOUS
<1>7. c \o b = us
  <2>1. PICK one : one = <<u>>
    OBVIOUS
  <2>2. one \in Seq(Units) /\ Len(one) = 1 /\ one[1] = u
    BY <1>2, <2>1
  <2>3. /\ c \in Seq(Units) /\ Len(c) = i
        /\ \A j \in 1..i - 1 : c[j] = a[j]
        /\ c[i] = u
    <3>1. c \in Seq(Units) /\ Concats(c, a, one)
      <4>1. c = a \o one
        BY <1>6, <2>1
      <4> QED
        BY <1>3, <2>2, <4>1, ConcatAt
    <3>2. 1 \in 1..Len(one) /\ Len(a) + 1 = i
      BY <1>2, <1>3, <2>2
    <3>3. c[i] = u
      BY <2>2, <3>1, <3>2 DEF Concats
    <3> QED
      BY <1>2, <1>3, <2>2, <3>1, <3>2, <3>3 DEF Concats
  <2>4. PICK d : d = c \o b
    OBVIOUS
  <2>5. /\ d \in Seq(Units) /\ Len(d) = i + m
        /\ \A j \in 1..i : d[j] = c[j]
        /\ \A j \in 1..m : d[i + j] = b[j]
        /\ \A j \in 1..Len(d) : j \in 1..i \/ \E k \in 1..m : j = i + k
    <3>1. d \in Seq(Units) /\ Concats(d, c, b)
      BY <1>5, <2>3, <2>4, ConcatAt
    <3> QED
      BY <1>5, <2>3, <3>1 DEF Concats
  <2>6. ASSUME NEW j \in 1..Len(d) PROVE d[j] = us[j]
    <3>1. CASE j \in 1..i - 1
      BY <1>2, <1>3, <2>3, <2>5, <3>1
    <3>2. CASE j = i
      BY <1>1, <1>2, <2>3, <2>5, <3>2
    <3>3. ASSUME NEW k \in 1..m, j = i + k PROVE d[j] = us[j]
      BY <1>5, <2>5, <3>3
    <3>4. j \in 1..i - 1 \/ j = i \/ \E k \in 1..m : j = i + k
      BY <1>2, <2>5
    <3> QED
      BY <3>1, <3>2, <3>3, <3>4
  <2>7. d = us
    <3>1. Len(d) = Len(us)
      BY <1>4, <2>5
    <3> QED
      BY <2>5, <2>6, <3>1, SameSeq
  <2> QED
    BY <2>4, <2>7
<1>8. <<u>> \in Seq(Units) /\ c \in Seq(Units)
  BY <1>2, <1>3, <1>6
<1>9. Tokens(us) = (Tokens(a) + u.len) + Tokens(b)
  <2>1. Tokens(c \o b) = Tokens(c) + Tokens(b)
    BY <1>5, <1>8, TokensConcat
  <2>2. Tokens(a \o <<u>>) = Tokens(a) + Tokens(<<u>>) /\ Tokens(<<u>>) = u.len
    BY <1>2, <1>3, <1>8, TokensConcat, TokensOne
  <2> QED
    BY <1>6, <1>7, <2>1, <2>2
<1>10. Tokens(RemoveAt(us, i)) = Tokens(a) + Tokens(b)
  <2>1. RemoveAt(us, i) = a \o b
    BY <1>1 DEF RemoveAt
  <2> QED
    BY <1>3, <1>5, <2>1, TokensConcat
<1>11. Tokens(a) \in Int /\ Tokens(b) \in Int
  <2>1. a \in Seq(Units) /\ b \in Seq(Units)
    BY <1>3, <1>5
  <2> QED
    BY <2>1, TokensConcat
<1>12. u.len \in Int
  <2>1. u \in Units
    BY <1>2
  <2>2. u.len \in Nat
    BY <2>1, TokensOne
  <2> QED
    BY <2>2
<1> QED
  BY <1>1, <1>9, <1>10, <1>11, <1>12

\* The tokens in rows, without the separators.
Held(rs) == SumOf([i \in DOMAIN rs |-> Tokens(rs[i].units)])
HeldBy == [r \in Rows |-> Tokens(r.units)]

LEMMA HeldAppend ==
    ASSUME NEW rs \in Seq(Rows), NEW r \in Rows
    PROVE  /\ Held(rs) \in Int /\ Held(<<>>) = 0
           /\ Held(Append(rs, r)) = Held(rs) + Tokens(r.units)
<1>1. HeldBy \in [Rows -> Int]
  <2>1. \A x \in Rows : x.units \in Seq(Units)
    BY DEF Rows
  <2>2. \A x \in Rows : Tokens(x.units) \in Int
    BY <2>1, TokensConcat
  <2> QED
    BY <2>2 DEF HeldBy
<1>2. ASSUME NEW x \in Seq(Rows) PROVE Held(x) = SumOf(Worth(HeldBy, x))
  <2>1. \A i \in DOMAIN x : HeldBy[x[i]] = Tokens(x[i].units)
    BY DEF HeldBy
  <2>2. Worth(HeldBy, x) = [i \in DOMAIN x |-> Tokens(x[i].units)]
    BY <2>1 DEF Worth
  <2> QED
    BY <2>2 DEF Held
<1>3. <<r>> \in Seq(Rows) /\ Append(rs, r) = rs \o <<r>> /\ Append(rs, r) \in Seq(Rows)
        /\ <<>> \in Seq(Rows)
  OBVIOUS
<1>4. HeldBy[r] = Tokens(r.units)
  BY DEF HeldBy
<1>5. /\ SumOf(Worth(HeldBy, rs)) \in Int
      /\ SumOf(Worth(HeldBy, rs \o <<r>>)) = SumOf(Worth(HeldBy, rs)) + Tokens(r.units)
  <2>1. PICK A, f, one : A = Rows /\ f = HeldBy /\ one = <<r>>
    OBVIOUS
  <2>2. f \in [A -> Int] /\ rs \in Seq(A) /\ one \in Seq(A) /\ r \in A
    BY <1>1, <1>3, <2>1
  <2>3. /\ SumOf(Worth(f, rs)) \in Int
        /\ SumOf(Worth(f, rs \o one)) = SumOf(Worth(f, rs)) + SumOf(Worth(f, one))
    BY ONLY <2>2, WorthSum
  <2>4. SumOf(Worth(f, <<r>>)) = f[r]
    BY ONLY <2>2, WorthOne
  <2> QED
    BY <1>4, <2>1, <2>3, <2>4
<1> QED
  BY <1>2, <1>3, <1>5, WorthNone

\* The tokens the domains report.
ReportedOf(rs) == SumOf([i \in DOMAIN rs |-> rs[i].tokens])
Reports == [tokens : Nat, wraps : 0..2]
ReportedBy == [r \in Reports |-> r.tokens]

LEMMA ReportedAppend ==
    ASSUME NEW rs \in Seq(Reports), NEW r \in Reports
    PROVE  /\ ReportedOf(rs) \in Int /\ ReportedOf(<<>>) = 0
           /\ ReportedOf(Append(rs, r)) = ReportedOf(rs) + r.tokens
<1>1. ReportedBy \in [Reports -> Int]
  BY DEF ReportedBy, Reports
<1>2. ASSUME NEW x \in Seq(Reports) PROVE ReportedOf(x) = SumOf(Worth(ReportedBy, x))
  <2>1. \A i \in DOMAIN x : ReportedBy[x[i]] = x[i].tokens
    BY DEF ReportedBy
  <2>2. Worth(ReportedBy, x) = [i \in DOMAIN x |-> x[i].tokens]
    BY <2>1 DEF Worth
  <2> QED
    BY <2>2 DEF ReportedOf
<1>3. <<r>> \in Seq(Reports) /\ Append(rs, r) = rs \o <<r>> /\ Append(rs, r) \in Seq(Reports)
        /\ <<>> \in Seq(Reports)
  OBVIOUS
<1>4. ReportedBy[r] = r.tokens
  BY DEF ReportedBy
<1>5. /\ SumOf(Worth(ReportedBy, rs)) \in Int
      /\ SumOf(Worth(ReportedBy, rs \o <<r>>)) = SumOf(Worth(ReportedBy, rs)) + r.tokens
  <2>1. PICK A, f, one : A = Reports /\ f = ReportedBy /\ one = <<r>>
    OBVIOUS
  <2>2. f \in [A -> Int] /\ rs \in Seq(A) /\ one \in Seq(A) /\ r \in A
    BY <1>1, <1>3, <2>1
  <2>3. /\ SumOf(Worth(f, rs)) \in Int
        /\ SumOf(Worth(f, rs \o one)) = SumOf(Worth(f, rs)) + SumOf(Worth(f, one))
    BY ONLY <2>2, WorthSum
  <2>4. SumOf(Worth(f, <<r>>)) = f[r]
    BY ONLY <2>2, WorthOne
  <2> QED
    BY <1>4, <2>1, <2>3, <2>4
<1> QED
  BY <1>2, <1>3, <1>5, WorthNone

-----------------------------------------------------------------------------
(***************************************************************************)
(* Packing keeps the tokens                                                *)
(***************************************************************************)

\* One separator between two units of a row.
Spaced(r) == r.len = Tokens(r.units) + Len(r.units) - 1

\* What is chosen or packed is what the domains reported, and the domain at
\* hand counts what it has picked.
Kept ==
    /\ Tokens(chosen) + Tokens(row.units) + Held(rows) = ReportedOf(report)
    /\ phase \in {"records"} \cup Working => total = Tokens(picked)
    /\ row = NoUnits \/ Spaced(row)
    /\ \A i \in DOMAIN rows : Spaced(rows[i])

\* A step that leaves the selection and the rows alone.
LEMMA QuietKept ==
    ASSUME Kept, UNCHANGED <<chosen, row, rows, report, picked, total>>,
           phase' \in {"records"} \cup Working => phase \in {"records"} \cup Working
    PROVE  Kept'
BY DEF Kept, Held, ReportedOf, Spaced, Tokens

LEMMA StartKept == ASSUME Kept, StartDomain PROVE Kept'
<1>1. UNCHANGED <<chosen, row, rows, report>> /\ picked' = <<>> /\ total' = 0
  BY DEF StartDomain, packing
<1>2. Tokens(picked)' = 0
  BY <1>1, TokensNone DEF Tokens
<1> QED
  BY <1>1, <1>2 DEF Kept, Held, ReportedOf, Spaced, Tokens

LEMMA TakeKept == ASSUME IInv, Kept, TakeUnit PROVE Kept'
<1>1. /\ UNCHANGED <<chosen, row, rows, report>> /\ phase = "units"
      /\ picked' = Append(picked, units[next]) /\ total' = total + units[next].len
      /\ next <= Len(units)
  BY DEF TakeUnit, packing
<1>2. units[next] \in Units /\ picked \in Seq(Units)
  <2>1. next \in 1..Len(units) /\ units \in Seq(Units) /\ picked \in Seq(Units)
    BY <1>1 DEF IInv, TypeOK, Positive
  <2> QED
    BY <2>1
<1>3. Tokens(Append(picked, units[next])) = Tokens(picked) + units[next].len
  BY <1>2, TokensAppend
<1>4. total = Tokens(picked)
  BY <1>1 DEF Kept, Working
<1>5. Tokens(picked)' = Tokens(Append(picked, units[next]))
  BY <1>1 DEF Tokens
<1>6. total' = Tokens(picked)'
  BY <1>1, <1>3, <1>4, <1>5
<1> QED
  BY <1>1, <1>6 DEF Kept, Held, ReportedOf, Spaced, Tokens

LEMMA GateKept == ASSUME IInv, Kept, Gate PROVE Kept'
<1>1. phase = "records" /\ UNCHANGED <<row, rows, picked, total>>
        /\ phase' \notin {"records"} \cup Working
  BY DEF Gate, selection, Working
<1>2. CASE UNCHANGED <<chosen, report>>
  BY <1>1, <1>2, QuietKept
<1>3. CASE /\ chosen' = chosen \o picked
           /\ report' = Append(report, [tokens |-> total, wraps |-> wraps])
  <2>1. PICK r : r = [tokens |-> total, wraps |-> wraps]
    OBVIOUS
  <2>2. r \in Reports /\ r.tokens = total /\ report \in Seq(Reports)
    BY <2>1 DEF IInv, TypeOK, Reports
  <2>3. ReportedOf(Append(report, r)) = ReportedOf(report) + total
          /\ ReportedOf(report) \in Int
    BY <2>2, ReportedAppend
  <2>4. chosen \in Seq(Units) /\ picked \in Seq(Units) /\ row.units \in Seq(Units)
          /\ rows \in Seq(Rows) /\ row \in Rows
    BY DEF IInv, TypeOK, Rows
  <2>5. Tokens(chosen \o picked) = Tokens(chosen) + Tokens(picked)
          /\ Tokens(chosen) \in Int /\ Tokens(picked) \in Int /\ Tokens(row.units) \in Int
    BY <2>4, TokensConcat
  <2>6. Held(rows) \in Int
    BY <2>4, HeldAppend
  <2>7. total = Tokens(picked)
    BY <1>1 DEF Kept
  <2>8. Tokens(chosen) + Tokens(row.units) + Held(rows) = ReportedOf(report)
    BY DEF Kept
  <2>9. Tokens(chosen \o picked) + Tokens(row.units) + Held(rows)
           = ReportedOf(Append(report, r))
    BY <2>3, <2>5, <2>6, <2>7, <2>8
  <2>10. Tokens(chosen)' + Tokens(row.units)' + Held(rows)' = ReportedOf(report)'
    BY <1>1, <1>3, <2>1, <2>9 DEF Tokens, Held, ReportedOf
  <2> QED
    BY <1>1, <2>10 DEF Kept, Spaced, Tokens
<1> QED
  BY <1>2, <1>3 DEF Gate

LEMMA PackKept == ASSUME IInv, Kept, PackUnit PROVE Kept'
<1>1. PICK i \in 1..Len(chosen) :
          /\ chosen' = RemoveAt(chosen, i)
          /\ IF row # NoUnits /\ row.len + 1 + chosen[i].len > Limit
               THEN /\ rows' = Append(rows, row)
                    /\ row' = [units |-> <<chosen[i]>>, len |-> chosen[i].len]
               ELSE /\ row' = [units |-> Append(row.units, chosen[i]),
                               len |-> IF row = NoUnits THEN chosen[i].len
                                       ELSE row.len + 1 + chosen[i].len]
                    /\ UNCHANGED rows
  BY DEF PackUnit
<1> PICK u, rest : u = chosen[i] /\ rest = RemoveAt(chosen, i)
  OBVIOUS
<1>2. chosen \in Seq(Units) /\ u \in Units /\ row \in Rows /\ rows \in Seq(Rows)
        /\ row.units \in Seq(Units) /\ row.len \in Nat
  <2>1. chosen \in Seq(Units) /\ row \in Rows /\ rows \in Seq(Rows)
    BY DEF IInv, TypeOK
  <2> QED
    BY <2>1 DEF Rows
<1>3. rest \in Seq(Units) /\ chosen' = rest
  BY <1>1, <1>2 DEF RemoveAt
<1>4. Tokens(chosen) = Tokens(rest) + u.len /\ u.len \in Nat /\ Tokens(<<u>>) = u.len
        /\ Tokens(rest) \in Int /\ Tokens(row.units) \in Int
        /\ Tokens(Append(row.units, u)) = Tokens(row.units) + u.len
  <2>1. u.len \in Nat /\ Tokens(<<u>>) = u.len
    BY <1>2, TokensOne
  <2>2. Tokens(chosen) = Tokens(rest) + u.len
    BY <1>2, TokensRemoved
  <2>3. Tokens(rest) \in Int /\ Tokens(row.units) \in Int
    BY <1>2, <1>3, TokensConcat
  <2>4. Tokens(Append(row.units, u)) = Tokens(row.units) + u.len
    BY <1>2, TokensAppend
  <2> QED
    BY <2>1, <2>2, <2>3, <2>4
<1>5. Held(rows) \in Int /\ Held(Append(rows, row)) = Held(rows) + Tokens(row.units)
  BY <1>2, HeldAppend
<1>6. report' = report /\ phase = "pack" /\ phase' = phase
  BY DEF PackUnit
<1>7. Tokens(chosen) + Tokens(row.units) + Held(rows) = ReportedOf(report)
        /\ (row = NoUnits \/ Spaced(row)) /\ \A j \in DOMAIN rows : Spaced(rows[j])
  BY DEF Kept
<1>8. ReportedOf(report)' = ReportedOf(report) /\ Tokens(chosen)' = Tokens(rest)
  BY <1>3, <1>6 DEF ReportedOf, Tokens
<1>9. CASE row # NoUnits /\ row.len + 1 + u.len > Limit
  <2>1. rows' = Append(rows, row) /\ row' = [units |-> <<u>>, len |-> u.len]
    BY <1>1, <1>9
  <2>2. Tokens(row.units)' = u.len /\ Held(rows)' = Held(rows) + Tokens(row.units)
    <3>1. row'.units = <<u>>
      BY <2>1
    <3>2. Tokens(row.units)' = Tokens(<<u>>)
      BY <3>1 DEF Tokens
    <3>3. Held(rows)' = Held(Append(rows, row))
      BY <2>1 DEF Held, Tokens
    <3> QED
      BY <1>4, <1>5, <3>2, <3>3
  <2>3. Tokens(chosen)' + Tokens(row.units)' + Held(rows)' = ReportedOf(report)'
    BY <1>4, <1>5, <1>7, <1>8, <2>2
  <2>4. Spaced(row)'
    <3>1. row'.len = u.len /\ Len(row'.units) = 1
      BY <2>1
    <3> QED
      BY <1>4, <2>2, <3>1 DEF Spaced
  <2>5. \A j \in DOMAIN rows' : Spaced(rows[j])'
    <3>1. \A j \in DOMAIN rows' : rows'[j] = row \/ (j \in DOMAIN rows /\ rows'[j] = rows[j])
      BY <1>2, <2>1
    <3>2. Spaced(row)
      BY <1>7, <1>9
    <3> QED
      BY <1>7, <3>1, <3>2 DEF Spaced, Tokens
  <2> QED
    BY <1>6, <2>3, <2>4, <2>5 DEF Kept, Working
<1>10. CASE ~(row # NoUnits /\ row.len + 1 + u.len > Limit)
  <2> PICK l : l = IF row = NoUnits THEN u.len ELSE row.len + 1 + u.len
    OBVIOUS
  <2>1. rows' = rows /\ row' = [units |-> Append(row.units, u), len |-> l]
    BY <1>1, <1>10
  <2>2. Tokens(row.units)' = Tokens(row.units) + u.len /\ Held(rows)' = Held(rows)
    <3>1. row'.units = Append(row.units, u)
      BY <2>1
    <3>2. Tokens(row.units)' = Tokens(Append(row.units, u))
      BY <3>1 DEF Tokens
    <3> QED
      BY <1>4, <2>1, <3>2 DEF Held, Tokens
  <2>3. Tokens(chosen)' + Tokens(row.units)' + Held(rows)' = ReportedOf(report)'
    BY <1>4, <1>5, <1>7, <1>8, <2>2
  <2>4. Spaced(row)'
    <3>1. row'.len = l /\ row'.units = Append(row.units, u)
      BY <2>1
    <3>2. Len(row'.units) = Len(row.units) + 1 /\ Len(row.units) \in Nat
      BY <1>2, <3>1
    <3>3. CASE row = NoUnits
      <4>1. row.units = <<>> /\ Len(row.units) = 0 /\ l = u.len
        BY <3>3 DEF NoUnits
      <4>2. Tokens(row.units) = 0
        BY <4>1, TokensNone
      <4> QED
        BY <1>4, <2>2, <3>1, <3>2, <4>1, <4>2 DEF Spaced
    <3>4. CASE row # NoUnits
      <4>1. l = row.len + 1 + u.len /\ row.len = Tokens(row.units) + Len(row.units) - 1
        BY <1>7, <3>4 DEF Spaced
      <4>2. PICK held, n \in Int : held = Tokens(row.units) /\ n = Len(row.units)
        BY <1>4, <3>2
      <4>3. l = (held + u.len) + (n + 1) - 1
        <5>1. PICK len \in Int : len = u.len
          BY <1>4
        <5>2. l = (held + n - 1) + 1 + len
          BY <4>1, <4>2, <5>1
        <5> QED
          BY <4>2, <5>1, <5>2
      <4>4. Tokens(row.units)' = held + u.len /\ Len(row'.units) = n + 1
        BY <2>2, <3>2, <4>2
      <4> QED
        BY <3>1, <4>3, <4>4 DEF Spaced
    <3> QED
      BY <3>3, <3>4
  <2>5. \A j \in DOMAIN rows' : Spaced(rows[j])'
    BY <1>7, <2>1 DEF Spaced, Tokens
  <2> QED
    BY <1>6, <2>3, <2>4, <2>5 DEF Kept, Working
<1> QED
  BY <1>9, <1>10

LEMMA LastKept == ASSUME IInv, Kept, LastRow PROVE Kept'
<1>1. /\ rows' = IF row # NoUnits THEN Append(rows, row) ELSE rows
      /\ row' = NoUnits /\ chosen' = chosen /\ report' = report
      /\ phase' \notin {"records"} \cup Working
  BY DEF LastRow, Working
<1>2. row \in Rows /\ rows \in Seq(Rows) /\ row.units \in Seq(Units) /\ chosen \in Seq(Units)
  <2>1. row \in Rows /\ rows \in Seq(Rows) /\ chosen \in Seq(Units)
    BY DEF IInv, TypeOK
  <2> QED
    BY <2>1 DEF Rows
<1>3. Tokens(NoUnits.units) = 0
  BY TokensNone DEF NoUnits
<1>4. Tokens(row.units) \in Int /\ Tokens(chosen) \in Int /\ Held(rows) \in Int
        /\ Held(Append(rows, row)) = Held(rows) + Tokens(row.units)
  BY <1>2, TokensConcat, HeldAppend
<1>5. Held(rows)' = Held(rows) + Tokens(row.units)
  <2>1. CASE row # NoUnits
    <3>1. Held(rows)' = Held(Append(rows, row))
      BY <1>1, <2>1 DEF Held, Tokens
    <3> QED
      BY <1>4, <3>1
  <2>2. CASE row = NoUnits
    <3>1. Held(rows)' = Held(rows)
      BY <1>1, <2>2 DEF Held, Tokens
    <3> QED
      BY <1>3, <1>4, <2>2, <3>1
  <2> QED
    BY <2>1, <2>2
<1>6. Tokens(row.units)' = 0 /\ Tokens(chosen)' = Tokens(chosen)
        /\ ReportedOf(report)' = ReportedOf(report)
  BY <1>1, <1>3 DEF Tokens, ReportedOf
<1>7. Tokens(chosen) + Tokens(row.units) + Held(rows) = ReportedOf(report)
  BY DEF Kept
<1>8. Tokens(chosen)' + Tokens(row.units)' + Held(rows)' = ReportedOf(report)'
  BY <1>4, <1>5, <1>6, <1>7
<1>9. \A j \in DOMAIN rows' : Spaced(rows[j])'
  <2>1. \A j \in DOMAIN rows' : \/ row # NoUnits /\ rows'[j] = row
                                \/ j \in DOMAIN rows /\ rows'[j] = rows[j]
    BY <1>1, <1>2
  <2> QED
    BY <2>1 DEF Kept, Spaced, Tokens
<1> QED
  BY <1>1, <1>8, <1>9 DEF Kept

LEMMA InitKept == Init => Kept
<1> SUFFICES ASSUME Init PROVE Kept
  OBVIOUS
<1>1. chosen = <<>> /\ row = NoUnits /\ rows = <<>> /\ report = <<>> /\ phase = "quotas"
  BY DEF Init
<1>2. Held(<<>>) = 0 /\ ReportedOf(<<>>) = 0
  BY SumNone DEF Held, ReportedOf
<1>3. Tokens(row.units) = 0 /\ Tokens(chosen) = 0
  BY <1>1, TokensNone DEF NoUnits
<1> QED
  BY <1>1, <1>2, <1>3 DEF Kept, Working

LEMMA KeptInductive == IInv /\ Kept /\ [Next]_vars => Kept'
<1> SUFFICES ASSUME IInv, Kept, [Next]_vars PROVE Kept'
  OBVIOUS
<1>1. CASE AssignQuota
  BY <1>1, QuietKept DEF AssignQuota, selection, packing, Working
<1>2. CASE StartDomain
  BY <1>2, StartKept
<1>3. CASE NextRecord
  BY <1>3, QuietKept DEF NextRecord, selection, packing
<1>4. CASE Chat
  BY <1>4, QuietKept DEF Chat, selection, packing, Working
<1>5. CASE Paragraph
  BY <1>5, QuietKept DEF Paragraph, selection, packing, Working
<1>6. CASE EndDocument
  BY <1>6, QuietKept DEF EndDocument, selection, packing, Working
<1>7. CASE TakeUnit
  BY <1>7, TakeKept
<1>8. CASE Gate
  BY <1>8, GateKept
<1>9. CASE PackUnit
  BY <1>9, PackKept
<1>10. CASE LastRow
  BY <1>10, LastKept
<1>11. CASE UNCHANGED vars
  BY <1>11, QuietKept DEF vars
<1> QED
  BY <1>1, <1>2, <1>3, <1>4, <1>5, <1>6, <1>7, <1>8, <1>9, <1>10, <1>11
     DEF Next, Select, Pack, Quiet

-----------------------------------------------------------------------------
(***************************************************************************)
(* Flattening                                                              *)
(***************************************************************************)

FlattenIter(it, seqs) ==
    it = [i \in 1..Len(seqs) |-> IF i = 1 THEN seqs[i] ELSE it[i - 1] \o seqs[i]]

\* The concatenations of the first sequences.
Flattens(p, seqs, R) ==
    /\ p \in [0..Len(seqs) -> Seq(R)]
    /\ p[0] = <<>>
    /\ \A k \in 1..Len(seqs) : p[k] = p[k - 1] \o seqs[k]

\* FlattenSeq, by the function that defines it.
LEMMA FlattenIs ==
    \A seqs : FlattenSeq(seqs) =
        IF Len(seqs) = 0 THEN seqs ELSE (CHOOSE it : FlattenIter(it, seqs))[Len(seqs)]
BY DEF FlattenSeq, FlattenIter

\* FlattenSeq appends the sequences one by one.
LEMMA FlattenSteps ==
    ASSUME NEW R, NEW seqs \in Seq(Seq(R))
    PROVE  \E p : Flattens(p, seqs, R) /\ FlattenSeq(seqs) = p[Len(seqs)]
<1>1. PICK n \in Nat : n = Len(seqs) /\ DOMAIN seqs = 1..n
  OBVIOUS
<1>2. PICK step : step = [x \in Seq(R) \X (1..n) |-> x[1] \o seqs[x[2]]]
  OBVIOUS
<1>3. step \in [Seq(R) \X (1..n) -> Seq(R)]
  <2>1. \A x \in Seq(R) \X (1..n) : x[1] \in Seq(R) /\ seqs[x[2]] \in Seq(R)
    BY <1>1
  <2>2. \A x \in Seq(R) \X (1..n) : x[1] \o seqs[x[2]] \in Seq(R)
    BY <2>1
  <2> QED
    BY <1>2, <2>2
<1>4. PICK p \in [0..n -> Seq(R)] :
         p[0] = <<>> /\ \A k \in 1..n : p[k] = step[<<p[k - 1], k>>]
  <2>1. PICK A : A = Seq(R)
    OBVIOUS
  <2>2. PICK base : base = <<>>
    OBVIOUS
  <2>3. base \in A /\ StepOn(step, n, A)
    BY <1>3, <2>1, <2>2 DEF StepOn
  <2>4. PICK p : Goes(p, n, A, base, step)
    BY <2>3, StepsExist
  <2> QED
    BY <2>1, <2>2, <2>4 DEF Goes
<1>5. ASSUME NEW k \in 1..n PROVE p[k] = p[k - 1] \o seqs[k] /\ p[k - 1] \in Seq(R)
  <2>1. k - 1 \in 0..n
    OBVIOUS
  <2>2. <<p[k - 1], k>> \in Seq(R) \X (1..n)
    BY <2>1
  <2> QED
    BY <1>2, <1>4, <2>1, <2>2
<1>6. PICK it : it = [i \in 1..n |-> p[i]]
  OBVIOUS
<1>7. FlattenIter(it, seqs)
  <2>1. ASSUME NEW i \in 1..n
        PROVE  p[i] = IF i = 1 THEN seqs[i] ELSE it[i - 1] \o seqs[i]
    <3>1. CASE i = 1
      <4>1. p[i] = <<>> \o seqs[i] /\ seqs[i] \in Seq(R)
        <5>1. i - 1 = 0
          BY <3>1
        <5>2. p[i] = p[0] \o seqs[i]
          BY <1>5, <5>1
        <5> QED
          BY <1>1, <1>4, <5>2
      <4> QED
        BY <3>1, <4>1
    <3>2. CASE i # 1
      <4>1. i - 1 \in 1..n
        BY <3>2
      <4> QED
        BY <1>5, <1>6, <3>2, <4>1
    <3> QED
      BY <3>1, <3>2
  <2> QED
    BY <1>1, <1>6, <2>1 DEF FlattenIter
<1>8. PICK j : j = CHOOSE f : FlattenIter(f, seqs)
  OBVIOUS
<1>9. FlattenIter(j, seqs)
  BY <1>7, <1>8
<1>10. \A k \in 1..n : j[k] = IF k = 1 THEN seqs[k] ELSE j[k - 1] \o seqs[k]
  BY <1>1, <1>9 DEF FlattenIter
<1> DEFINE P == {k \in Nat : k \in 1..n => j[k] = p[k]}
<1>11. 0 \in P
  OBVIOUS
<1>12. ASSUME NEW k \in Nat, k \in P PROVE k + 1 \in P
  <2> SUFFICES ASSUME k + 1 \in 1..n PROVE j[k + 1] = p[k + 1]
    OBVIOUS
  <2>1. PICK m \in 1..n : m = k + 1
    OBVIOUS
  <2>2. CASE k = 0
    <3>1. m = 1 /\ seqs[m] \in Seq(R) /\ m - 1 = 0
      BY <1>1, <2>1, <2>2
    <3>2. p[m] = <<>> \o seqs[m]
      BY <1>4, <1>5, <3>1
    <3>3. j[m] = seqs[m]
      BY <1>10, <3>1
    <3> QED
      BY <2>1, <3>1, <3>2, <3>3
  <2>3. CASE k # 0
    <3>1. k \in 1..n /\ m # 1 /\ m - 1 = k
      BY <2>1, <2>3
    <3>2. j[k] = p[k]
      BY <1>12, <3>1
    <3>3. j[m] = j[k] \o seqs[m]
      BY <1>10, <3>1
    <3> QED
      BY <1>5, <2>1, <3>1, <3>2, <3>3
  <2> QED
    BY <2>2, <2>3
<1>13. n \in P
  <2> HIDE DEF P
  <2> QED
    BY <1>11, <1>12, NatSetInduction
<1>14. FlattenSeq(seqs) = p[n]
  <2>1. CASE n = 0
    <3>1. FlattenSeq(seqs) = seqs /\ seqs = <<>>
      BY <1>1, <2>1, FlattenIs
    <3> QED
      BY <1>4, <2>1, <3>1
  <2>2. CASE n # 0
    <3>1. FlattenSeq(seqs) = j[n] /\ n \in 1..n
      BY <1>1, <1>8, <2>2, FlattenIs
    <3> QED
      BY <1>13, <3>1
  <2> QED
    BY <2>1, <2>2
<1>15. Flattens(p, seqs, R)
  BY <1>1, <1>4, <1>5 DEF Flattens
<1> QED
  BY <1>1, <1>14, <1>15

LEMMA ConcatAssociates ==
    ASSUME NEW R, NEW a \in Seq(R), NEW b \in Seq(R), NEW c \in Seq(R)
    PROVE  (a \o b) \o c = a \o (b \o c)
<1>1. PICK l, r : l = (a \o b) \o c /\ r = a \o (b \o c)
  OBVIOUS
<1>2. l \in Seq(R) /\ r \in Seq(R) /\ Len(l) = Len(r)
  BY <1>1
<1>3. \A i \in 1..Len(l) : l[i] = r[i]
  BY <1>1
<1> QED
  BY <1>1, <1>2, <1>3, SameSeq

\* Two runs of concatenations, the second of which starts m entries into the first.
InStep(p, q, m, k) == p[m + k] = p[m] \o q[k]

\* Where the sequences are the same, the concatenations run in parallel.
LEMMA FlattenShift ==
    ASSUME NEW R, NEW s \in Seq(Seq(R)), NEW t \in Seq(Seq(R)),
           NEW p, NEW q, Flattens(p, s, R), Flattens(q, t, R),
           NEW m \in Nat, Behind(s, m, t)
    PROVE  p[m] \in Seq(R) /\ q[Len(t)] \in Seq(R) /\ InStep(p, q, m, Len(t))
<1>1. PICK l \in Nat : l = Len(s)
  OBVIOUS
<1>2. PICK n \in Nat : n = Len(t) /\ m + n <= l
  BY <1>1 DEF Behind
<1>3. /\ p \in [0..l -> Seq(R)] /\ \A k \in 1..l : p[k] = p[k - 1] \o s[k]
      /\ q \in [0..n -> Seq(R)] /\ q[0] = <<>> /\ \A k \in 1..n : q[k] = q[k - 1] \o t[k]
  BY <1>1, <1>2 DEF Flattens
<1> DEFINE P == {k \in Nat : k <= n => InStep(p, q, m, k)}
<1>4. p[m] \in Seq(R)
  <2>1. m \in 0..l
    BY <1>2
  <2> QED
    BY <1>3, <2>1
<1>5. 0 \in P
  <2>1. p[m] \o <<>> = p[m] /\ m + 0 = m
    BY <1>4
  <2>2. InStep(p, q, m, 0)
    BY <1>3, <2>1 DEF InStep
  <2> QED
    BY <2>2
<1>6. ASSUME NEW k \in Nat, k \in P, k + 1 <= n PROVE InStep(p, q, m, k + 1)
  <2>1. PICK j \in 1..n : j = k + 1 /\ j - 1 = k
    BY <1>2, <1>6
  <2>2. PICK i \in 1..l : i = m + j /\ i - 1 = m + k
    BY <1>1, <1>2, <2>1
  <2>3. p[i] = p[m + k] \o s[i] /\ q[j] = q[k] \o t[j] /\ s[i] = t[j]
    BY <1>2, <1>3, <2>1, <2>2 DEF Behind
  <2>4. p[m + k] = p[m] \o q[k]
    <3>1. k <= n
      BY <1>2, <2>1
    <3> QED
      BY <1>6, <3>1 DEF InStep
  <2>5. q[k] \in Seq(R) /\ t[j] \in Seq(R)
    <3>1. k \in 0..n /\ j \in 1..Len(t)
      BY <1>2, <2>1
    <3>2. q[k] \in Seq(R)
      BY ONLY <1>3, <3>1
    <3>3. t[j] \in Seq(R)
      BY <3>1
    <3> QED
      BY <3>2, <3>3
  <2>6. PICK a, b, c \in Seq(R) : a = p[m] /\ b = q[k] /\ c = t[j]
    BY <1>4, <2>5
  <2>7. (a \o b) \o c = a \o (b \o c)
    BY ONLY a \in Seq(R), b \in Seq(R), c \in Seq(R), ConcatAssociates
  <2>8. p[i] = p[m] \o q[j]
    BY ONLY <2>3, <2>4, <2>6, <2>7
  <2> QED
    BY ONLY <2>1, <2>2, <2>8 DEF InStep
<1>7. Nat \subseteq P
  <2>1. \A k \in Nat : k \in P => k + 1 \in P
    <3> SUFFICES ASSUME NEW k \in Nat, k \in P PROVE k + 1 \in P
      OBVIOUS
    <3>1. k + 1 <= n => InStep(p, q, m, k + 1)
      BY <1>6
    <3> QED
      BY <3>1
  <2> HIDE DEF P
  <2> QED
    BY <1>5, <2>1, NatSetInduction
<1>8. InStep(p, q, m, n)
  BY <1>7
<1>9. q[n] \in Seq(R)
  <2>1. n \in 0..n
    OBVIOUS
  <2> QED
    BY <1>3, <2>1
<1> QED
  BY <1>2, <1>4, <1>8, <1>9

LEMMA FlattenNone == FlattenSeq(<<>>) = <<>>
<1>1. Len(<<>>) = 0
  OBVIOUS
<1> QED
  BY <1>1, FlattenIs

LEMMA FlattenOne ==
    ASSUME NEW R, NEW x \in Seq(R)
    PROVE  FlattenSeq(<<x>>) = x
<1>1. PICK s : s = <<x>>
  OBVIOUS
<1>2. s \in Seq(Seq(R)) /\ Len(s) = 1 /\ s[1] = x
  BY <1>1
<1>3. PICK p : Flattens(p, s, R) /\ FlattenSeq(s) = p[Len(s)]
  BY <1>2, FlattenSteps
<1>4. 1 \in 1..Len(s) /\ 1 - 1 = 0
  BY <1>2
<1>5. p[1] = p[0] \o s[1] /\ p[0] = <<>>
  BY <1>3, <1>4 DEF Flattens
<1>6. <<>> \o x = x
  OBVIOUS
<1> QED
  BY <1>1, <1>2, <1>3, <1>5, <1>6

\* Two sequences of sequences flattened.
LEMMA FlattenConcat ==
    ASSUME NEW R, NEW s \in Seq(Seq(R)), NEW t \in Seq(Seq(R))
    PROVE  /\ FlattenSeq(s) \in Seq(R)
           /\ FlattenSeq(s \o t) = FlattenSeq(s) \o FlattenSeq(t)
<1>1. PICK A, c : A = Seq(R) /\ c = s \o t
  OBVIOUS
<1>2. c \in Seq(A) /\ Concats(c, s, t) /\ s \in Seq(A) /\ t \in Seq(A)
  <2>1. s \in Seq(A) /\ t \in Seq(A)
    BY <1>1
  <2> QED
    BY <1>1, <2>1, ConcatAt
<1>3. PICK pc : Flattens(pc, c, R) /\ FlattenSeq(c) = pc[Len(c)]
  BY <1>1, <1>2, FlattenSteps
<1>4. PICK ps : Flattens(ps, s, R) /\ FlattenSeq(s) = ps[Len(s)]
  BY FlattenSteps
<1>5. PICK pt : Flattens(pt, t, R) /\ FlattenSeq(t) = pt[Len(t)]
  BY FlattenSteps
<1>6. pc[Len(s)] = FlattenSeq(s) /\ FlattenSeq(s) \in Seq(R)
  <2>1. PICK m \in Nat : m = 0
    OBVIOUS
  <2>2. Behind(c, m, s)
    BY <1>2, <2>1 DEF Behind, Concats
  <2>3. ps[Len(s)] \in Seq(R) /\ InStep(pc, ps, m, Len(s))
    <3>1. c \in Seq(Seq(R))
      BY <1>1, <1>2
    <3> QED
      BY <1>3, <1>4, <2>2, <3>1, FlattenShift
  <2>4. pc[0] = <<>>
    BY <1>3 DEF Flattens
  <2>5. m + Len(s) = Len(s)
    BY <1>2, <2>1 DEF Concats
  <2>6. PICK x \in Seq(R) : x = ps[Len(s)]
    BY <2>3
  <2>7. <<>> \o x = x
    OBVIOUS
  <2>8. pc[Len(s)] = <<>> \o x
    BY <2>1, <2>3, <2>4, <2>5, <2>6 DEF InStep
  <2> QED
    BY <1>4, <2>6, <2>7, <2>8
<1>7. pc[Len(s) + Len(t)] = pc[Len(s)] \o pt[Len(t)]
  <2>1. PICK m \in Nat : m = Len(s)
    BY <1>2 DEF Concats
  <2>2. Behind(c, m, t)
    BY <1>2, <2>1 DEF Behind, Concats
  <2>3. InStep(pc, pt, m, Len(t))
    <3>1. c \in Seq(Seq(R))
      BY <1>1, <1>2
    <3> QED
      BY <1>3, <1>5, <2>2, <3>1, FlattenShift
  <2> QED
    BY <2>1, <2>3 DEF InStep
<1>8. Len(c) = Len(s) + Len(t)
  BY <1>2 DEF Concats
<1> QED
  BY <1>1, <1>3, <1>5, <1>6, <1>7, <1>8

\* A sequence of sequences of one entry each.
LEMMA FlattenSingles ==
    ASSUME NEW R, NEW s \in Seq(R), NEW t, t = [i \in 1..Len(s) |-> <<s[i]>>]
    PROVE  t \in Seq(Seq(R)) /\ FlattenSeq(t) = s
<1>1. PICK n \in Nat : n = Len(s)
  OBVIOUS
<1>2. t \in Seq(Seq(R)) /\ Len(t) = n /\ \A i \in 1..n : t[i] = <<s[i]>> /\ s[i] \in R
  <2>1. \A i \in 1..n : s[i] \in R
    BY <1>1
  <2>2. \A i \in 1..n : <<s[i]>> \in Seq(R)
    BY <2>1
  <2> QED
    BY <1>1, <2>1, <2>2
<1>3. PICK p : Flattens(p, t, R) /\ FlattenSeq(t) = p[Len(t)]
  BY <1>2, FlattenSteps
<1>4. p \in [0..n -> Seq(R)] /\ p[0] = <<>> /\ \A k \in 1..n : p[k] = p[k - 1] \o <<s[k]>>
  BY <1>2, <1>3 DEF Flattens
<1> DEFINE P == {k \in Nat : k <= n => p[k] = SubSeq(s, 1, k)}
<1>5. 0 \in P
  BY <1>4
<1>6. ASSUME NEW k \in Nat, k \in P PROVE k + 1 \in P
  <2> SUFFICES ASSUME k + 1 <= n PROVE p[k + 1] = SubSeq(s, 1, k + 1)
    OBVIOUS
  <2>1. PICK j \in 1..n : j = k + 1 /\ j - 1 = k
    BY <1>1
  <2>2. p[k] = SubSeq(s, 1, k)
    <3>1. k <= n
      BY <2>1
    <3> QED
      BY <1>6, <3>1
  <2>3. p[j] = SubSeq(s, 1, k) \o <<s[j]>>
    BY <1>4, <2>1, <2>2
  <2>4. SubSeq(s, 1, j) = SubSeq(s, 1, k) \o <<s[j]>>
    BY <1>1, <2>1
  <2> QED
    BY <2>1, <2>3, <2>4
<1>7. Nat \subseteq P
  <2> HIDE DEF P
  <2> QED
    BY <1>5, <1>6, NatSetInduction
<1>8. p[n] = SubSeq(s, 1, n) /\ SubSeq(s, 1, n) = s
  BY <1>1, <1>7
<1> QED
  BY <1>2, <1>3, <1>8

-----------------------------------------------------------------------------
(***************************************************************************)
(* Cutting keeps the text                                                  *)
(***************************************************************************)

\* The tokens of a piece.
Span == [p \in Piece |-> p[3] - p[2] + 1]

LEMMA SpanType ==
    /\ Span \in [Piece -> Int]
    /\ \A p \in Piece : /\ p[1] \in Nat /\ p[2] \in Nat /\ p[3] \in Nat
                        /\ Span[p] = p[3] - p[2] + 1
<1>1. \A p \in Piece : p[1] \in Nat /\ p[2] \in Nat /\ p[3] \in Nat
  BY DEF Piece
<1> QED
  BY <1>1 DEF Span

LEMMA LengthIs ==
    ASSUME NEW ps \in Seq(Piece)
    PROVE  /\ LengthOf(ps) = SumOf(Worth(Span, ps)) + SepTokens * (Len(ps) - 1)
           /\ SumOf(Worth(Span, ps)) \in Int
<1>1. \A i \in DOMAIN ps : Span[ps[i]] = ps[i][3] - ps[i][2] + 1
  <2>1. \A i \in DOMAIN ps : ps[i] \in Piece
    OBVIOUS
  <2> QED
    BY <2>1, SpanType
<1>2. Worth(Span, ps) = [i \in DOMAIN ps |-> ps[i][3] - ps[i][2] + 1]
  BY <1>1 DEF Worth
<1>3. Worth(Span, ps) \in Seq(Int)
  BY SpanType, WorthAt
<1> QED
  BY <1>2, <1>3, SumType DEF LengthOf

LEMMA LengthOne == \A p \in Piece : LengthOf(<<p>>) = p[3] - p[2] + 1
<1> SUFFICES ASSUME NEW p \in Piece PROVE LengthOf(<<p>>) = p[3] - p[2] + 1
  OBVIOUS
<1>1. PICK ps : ps = <<p>>
  OBVIOUS
<1>2. ps \in Seq(Piece) /\ Len(ps) - 1 = 0
  BY <1>1
<1>3. SumOf(Worth(Span, ps)) = p[3] - p[2] + 1
  BY <1>1, SpanType, WorthOne
<1>4. SepTokens * 0 = 0
  BY RecordsAssumption
<1>5. p[3] - p[2] + 1 \in Int
  BY SpanType
<1>6. LengthOf(ps) = SumOf(Worth(Span, ps)) + SepTokens * (Len(ps) - 1)
  BY <1>2, LengthIs
<1>7. LengthOf(ps) = SumOf(Worth(Span, ps)) + SepTokens * 0
  BY <1>2, <1>6
<1>8. LengthOf(ps) = (p[3] - p[2] + 1) + 0
  BY <1>3, <1>4, <1>7
<1> QED
  BY <1>1, <1>5, <1>8

LEMMA OneMore == \A a \in Nat, n \in Nat : a * ((n + 1) - 1) = a * (n - 1) + a
OBVIOUS

\* A paragraph more is a blank line and the paragraph longer.
LEMMA LengthAppend ==
    ASSUME NEW ps \in Seq(Piece), NEW p \in Piece
    PROVE  LengthOf(Append(ps, p)) = LengthOf(ps) + SepTokens + (p[3] - p[2] + 1)
<1>1. PICK one, qs : one = <<p>> /\ qs = ps \o one
  OBVIOUS
<1>2. one \in Seq(Piece) /\ qs \in Seq(Piece) /\ Append(ps, p) = qs /\ Len(qs) = Len(ps) + 1
  BY <1>1
<1>3. PICK A, f : A = Piece /\ f = Span
  OBVIOUS
<1>4. SumOf(Worth(f, ps \o one)) = SumOf(Worth(f, ps)) + SumOf(Worth(f, one))
  <2>1. f \in [A -> Int] /\ ps \in Seq(A) /\ one \in Seq(A)
    BY <1>2, <1>3, SpanType
  <2> QED
    BY ONLY <2>1, WorthSum
<1>5. SumOf(Worth(Span, one)) = p[3] - p[2] + 1 /\ p[3] - p[2] + 1 \in Int
  BY <1>1, SpanType, WorthOne
<1>6. PICK n \in Nat : n = Len(ps)
  OBVIOUS
<1>7. SepTokens * (Len(qs) - 1) = SepTokens * (Len(ps) - 1) + SepTokens
        /\ SepTokens \in Nat /\ SepTokens * (Len(ps) - 1) \in Int
  BY <1>2, <1>6, OneMore, RecordsAssumption
<1>8. /\ LengthOf(qs) = SumOf(Worth(Span, qs)) + SepTokens * (Len(qs) - 1)
      /\ LengthOf(ps) = SumOf(Worth(Span, ps)) + SepTokens * (Len(ps) - 1)
      /\ SumOf(Worth(Span, ps)) \in Int
  BY <1>2, LengthIs
<1> QED
  BY <1>1, <1>2, <1>3, <1>4, <1>5, <1>7, <1>8

-----------------------------------------------------------------------------
\* q is what the text goes on with behind p.
Continues(sizes, p, q) ==
    \/ q[1] = p[1] /\ q[2] = p[3] + 1
    \/ p[3] = sizes[p[1]] /\ q[1] = p[1] + 1 /\ q[2] = 1

\* The pieces are the paragraphs from first to upto without a gap.
Stretch(sizes, ps, first, upto) ==
    /\ ps # <<>> /\ ps[1][1] = first /\ ps[1][2] = 1
    /\ ps[Len(ps)][1] = upto /\ ps[Len(ps)][3] = sizes[upto]
    /\ \A i \in 1..Len(ps) - 1 : Continues(sizes, ps[i], ps[i + 1])

IsRead(sizes, ps, upto) ==
    \/ ps = <<>> /\ upto = 0
    \/ Stretch(sizes, ps, 1, upto)

LEMMA ReadsIs == \A ps, k : IsRead(Sizes[rec], ps, k) => Reads(ps, k)
BY DEF IsRead, Stretch, Continues, Reads, Last

\* The next paragraph behind the ones read so far.
LEMMA ReadsOn ==
    ASSUME NEW sizes, NEW a \in Seq(Piece), NEW b \in Seq(Piece), NEW k \in Nat,
           IsRead(sizes, a, k), Stretch(sizes, b, k + 1, k + 1)
    PROVE  IsRead(sizes, a \o b, k + 1)
<1>1. CASE a = <<>> /\ k = 0
  <2>1. a \o b = b /\ k + 1 = 1
    BY <1>1
  <2>2. Stretch(sizes, b, 1, 1)
    BY <2>1
  <2>3. IsRead(sizes, b, 1)
    BY <2>2 DEF IsRead
  <2> QED
    BY <2>1, <2>3
<1>2. CASE Stretch(sizes, a, 1, k)
  <2>1. PICK c : c = a \o b
    OBVIOUS
  <2>2. PICK m, n \in Nat : m = Len(a) /\ n = Len(b)
    OBVIOUS
  <2>3. m >= 1 /\ n >= 1
    BY <1>2, <2>2 DEF Stretch
  <2>4. c \in Seq(Piece) /\ Concats(c, a, b)
    BY <2>1, ConcatAt
  <2>5. Len(c) = m + n /\ (\A i \in 1..m : c[i] = a[i]) /\ (\A i \in 1..n : c[m + i] = b[i])
    BY <2>2, <2>4 DEF Concats
  <2>6. c # <<>> /\ c[1] = a[1] /\ c[Len(c)] = b[n] /\ c[m] = a[m] /\ c[m + 1] = b[1]
    <3>1. 1 \in 1..m /\ m \in 1..m /\ 1 \in 1..n /\ n \in 1..n
      BY <2>3
    <3> QED
      BY <2>3, <2>5, <3>1
  <2>7. ASSUME NEW i \in 1..Len(c) - 1 PROVE Continues(sizes, c[i], c[i + 1])
    <3>1. CASE i < m
      <4>1. i \in 1..Len(a) - 1 /\ i \in 1..m /\ i + 1 \in 1..m
        BY <2>2, <2>3, <3>1
      <4>2. c[i] = a[i] /\ c[i + 1] = a[i + 1]
        BY <2>5, <4>1
      <4> QED
        BY <1>2, <4>1, <4>2 DEF Stretch
    <3>2. CASE i = m
      <4>1. a[m][1] = k /\ a[m][3] = sizes[k] /\ b[1][1] = k + 1 /\ b[1][2] = 1
        BY <1>2, <2>2 DEF Stretch
      <4> QED
        BY <2>6, <3>2, <4>1 DEF Continues
    <3>3. CASE i > m
      <4>1. PICK j \in 1..Len(b) - 1 : i = m + j /\ j \in 1..n /\ j + 1 \in 1..n
                                       /\ i + 1 = m + (j + 1)
        <5>1. i - m \in 1..Len(b) - 1 /\ i - m \in 1..n /\ (i - m) + 1 \in 1..n
                /\ i = m + (i - m) /\ i + 1 = m + ((i - m) + 1)
          BY <2>2, <2>3, <2>5, <3>3
        <5> QED
          BY <5>1
      <4>2. c[i] = b[j] /\ c[i + 1] = b[j + 1]
        BY <2>5, <4>1
      <4> QED
        BY <4>1, <4>2 DEF Stretch
    <3> QED
      BY <2>2, <2>5, <3>1, <3>2, <3>3
  <2>8. Stretch(sizes, c, 1, k + 1)
    BY <1>2, <2>2, <2>6, <2>7 DEF Stretch
  <2> QED
    BY <2>1, <2>8 DEF IsRead
<1> QED
  BY <1>1, <1>2 DEF IsRead

-----------------------------------------------------------------------------
\* The stretches of text that units or segments hold.
Parts(us) == [i \in DOMAIN us |-> us[i].pieces]
TextOf(us) == FlattenSeq(Parts(us))
HoldText(A) == \A x \in A : x.pieces \in Seq(Piece)

LEMMA TextConcat ==
    ASSUME NEW A, HoldText(A), NEW us \in Seq(A), NEW vs \in Seq(A)
    PROVE  TextOf(us) \in Seq(Piece) /\ TextOf(us \o vs) = TextOf(us) \o TextOf(vs)
<1>1. PICK B, f : B = Seq(Piece) /\ f = [x \in A |-> x.pieces]
  OBVIOUS
<1>2. f \in [A -> B]
  BY <1>1 DEF HoldText
<1>3. ASSUME NEW x \in Seq(A) PROVE Parts(x) = Worth(f, x)
  <2>1. \A i \in DOMAIN x : x[i] \in A
    OBVIOUS
  <2>2. \A i \in DOMAIN x : f[x[i]] = x[i].pieces
    BY <1>1, <2>1
  <2> QED
    BY <2>2 DEF Parts, Worth
<1>4. PICK c, pu, pv : c = us \o vs /\ pu = Parts(us) /\ pv = Parts(vs)
  OBVIOUS
<1>5. c \in Seq(A)
  BY <1>4
<1>6. pu = Worth(f, us) /\ pv = Worth(f, vs) /\ Parts(c) = Worth(f, c)
  BY <1>3, <1>4, <1>5
<1>7. pu \in Seq(B) /\ pv \in Seq(B)
  BY <1>2, <1>6, WorthAt
<1>8. Parts(c) = pu \o pv
  <2>1. Worth(f, us \o vs) = Worth(f, us) \o Worth(f, vs)
    BY WorthConcat
  <2> QED
    BY <1>4, <1>6, <2>1
<1>9. pu \in Seq(Seq(Piece)) /\ pv \in Seq(Seq(Piece))
  BY <1>1, <1>7
<1>10. FlattenSeq(pu) \in Seq(Piece) /\ FlattenSeq(pu \o pv) = FlattenSeq(pu) \o FlattenSeq(pv)
  BY <1>9, FlattenConcat
<1> QED
  BY <1>4, <1>8, <1>10 DEF TextOf

LEMMA TextNone == TextOf(<<>>) = <<>>
<1>1. Parts(<<>>) = <<>>
  BY DEF Parts
<1> QED
  BY <1>1, FlattenNone DEF TextOf

LEMMA TextOne == \A x : x.pieces \in Seq(Piece) => TextOf(<<x>>) = x.pieces
<1> SUFFICES ASSUME NEW x, x.pieces \in Seq(Piece) PROVE TextOf(<<x>>) = x.pieces
  OBVIOUS
<1>1. Parts(<<x>>) = <<x.pieces>>
  BY DEF Parts
<1> QED
  BY <1>1, FlattenOne DEF TextOf

\* Units and segments that hold something are as long as what they hold.
Shaped(u) == u.pieces # <<>> /\ u.len = LengthOf(u.pieces)
UnitsCut(us, r) ==
    \A i \in 1..Len(us) : us[i].part = i - 1 /\ us[i].rec = r /\ Shaped(us[i])
AllShaped(ss) == \A i \in 1..Len(ss) : Shaped(ss[i])

LEMMA Holders == HoldText(Units) /\ HoldText(Segments)
BY DEF HoldText, Units, Segments

\* The units of the record at hand go on where they ended.
LEMMA YieldCut ==
    ASSUME TypeOK, UnitsCut(units, rec), NEW ss \in Seq(Segments), AllShaped(ss)
    PROVE  /\ Yield(ss) \in Seq(Units) /\ UnitsCut(Yield(ss), rec)
           /\ TextOf(Yield(ss)) = TextOf(units) \o TextOf(ss)
<1>1. PICK n, m \in Nat : n = Len(units) /\ m = Len(ss)
  BY DEF TypeOK
<1>2. PICK new : new = [i \in 1..m |-> Unit(n + i - 1, ss[i])]
  OBVIOUS
<1>3. ASSUME NEW i \in 1..m
      PROVE  /\ new[i] \in Units /\ new[i].part = n + i - 1 /\ new[i].rec = rec
             /\ new[i].pieces = ss[i].pieces /\ Shaped(new[i])
  <2>1. ss[i] \in Segments /\ Shaped(ss[i])
    BY <1>1 DEF AllShaped
  <2>2. n + i - 1 \in Nat /\ rec \in Record
    BY DEF TypeOK
  <2>3. new[i] = [rec |-> rec, part |-> n + i - 1, pieces |-> ss[i].pieces, len |-> ss[i].len]
    BY <1>2 DEF Unit
  <2>4. new[i] \in Units
    BY <2>1, <2>2, <2>3 DEF Segments, Units
  <2> QED
    BY <2>1, <2>3, <2>4 DEF Shaped
<1>4. new \in Seq(Units) /\ Len(new) = m
  BY <1>2, <1>3
<1>5. units \in Seq(Units) /\ Yield(ss) = units \o new
  BY <1>1, <1>2 DEF TypeOK, Yield
<1>6. PICK c : c = units \o new
  OBVIOUS
<1>7. c \in Seq(Units) /\ Concats(c, units, new)
  BY <1>4, <1>5, <1>6, ConcatAt
<1>8. UnitsCut(c, rec)
  <2> SUFFICES ASSUME NEW i \in 1..Len(c)
               PROVE  c[i].part = i - 1 /\ c[i].rec = rec /\ Shaped(c[i])
    BY DEF UnitsCut
  <2>1. i \in 1..n \/ \E j \in 1..m : i = n + j
    BY <1>1, <1>4, <1>7 DEF Concats
  <2>2. CASE i \in 1..n
    <3>1. c[i] = units[i]
      BY <1>1, <1>7, <2>2 DEF Concats
    <3> QED
      BY <1>1, <2>2, <3>1 DEF UnitsCut
  <2>3. ASSUME NEW j \in 1..m, i = n + j
        PROVE  c[i].part = i - 1 /\ c[i].rec = rec /\ Shaped(c[i])
    <3>1. c[i] = new[j]
      BY <1>1, <1>4, <1>7, <2>3 DEF Concats
    <3> QED
      BY <1>3, <2>3, <3>1
  <2> QED
    BY <2>1, <2>2, <2>3
<1>9. TextOf(new) = TextOf(ss)
  <2>1. DOMAIN new = 1..m /\ DOMAIN ss = 1..m
    BY <1>1, <1>2
  <2>2. Parts(new) = Parts(ss)
    BY <1>3, <2>1 DEF Parts
  <2> QED
    BY <2>2 DEF TextOf
<1>10. TextOf(units \o new) = TextOf(units) \o TextOf(new)
  BY <1>4, <1>5, Holders, TextConcat
<1> QED
  BY <1>5, <1>6, <1>7, <1>8, <1>9, <1>10

-----------------------------------------------------------------------------
\* The text of the record at hand is in its units and its open segment.
Cut ==
    /\ UnitsCut(units, rec)
    /\ seg = Blank \/ Shaped(seg)
    /\ phase \in {"paragraphs", "units"} =>
          IsRead(Sizes[rec], TextOf(units) \o seg.pieces,
                 IF Kind[rec] = "document" THEN para - 1 ELSE 1)
    /\ phase = "chat" => Kind[rec] # "document" /\ para = 1 /\ seg = Blank /\ units = <<>>
    /\ phase = "paragraphs" => Kind[rec] = "document"

\* A whole paragraph in one piece.
LEMMA WholeParagraph ==
    ASSUME NEW sizes, NEW p \in Positive, NEW n \in Positive, n = sizes[p],
           NEW ps, ps = <<<<p, 1, n>>>>
    PROVE  /\ <<p, 1, n>> \in Piece /\ ps \in Seq(Piece) /\ LengthOf(ps) = n
           /\ Stretch(sizes, ps, p, p)
<1>1. p \in Nat /\ 1 \in Nat /\ n \in Nat
  BY DEF Positive
<1>2. PICK x \in Piece : x = <<p, 1, n>>
  BY <1>1, PieceType
<1>3. ps \in Seq(Piece) /\ ps = <<x>> /\ Len(ps) = 1 /\ ps[1] = x
  BY <1>2
<1>4. x[1] = p /\ x[2] = 1 /\ x[3] = n
  BY <1>2
<1>5. LengthOf(<<x>>) = n - 1 + 1
  BY <1>4, LengthOne
<1> QED
  BY <1>1, <1>2, <1>3, <1>4, <1>5 DEF Stretch

\* What is flushed is the open segment.
LEMMA FlushCut ==
    ASSUME TypeOK, seg = Blank \/ Shaped(seg)
    PROVE  /\ Flush \in Seq(Segments) /\ AllShaped(Flush)
           /\ TextOf(Flush) = seg.pieces /\ seg.pieces \in Seq(Piece)
<1>1. seg \in Segments /\ seg.pieces \in Seq(Piece)
  BY DEF TypeOK, Segments
<1>2. CASE seg = Blank
  <2>1. Flush = <<>> /\ seg.pieces = <<>>
    BY <1>2 DEF Flush, Blank
  <2> QED
    BY <1>1, <2>1, TextNone DEF AllShaped
<1>3. CASE seg # Blank
  <2>1. Flush = <<seg>>
    BY <1>3 DEF Flush
  <2>2. TextOf(<<seg>>) = seg.pieces
    BY <1>1, TextOne
  <2> QED
    BY <1>1, <1>3, <2>1, <2>2 DEF AllShaped
<1> QED
  BY <1>2, <1>3

\* Multiples of the row length around the tokens of a paragraph.
LEMMA Multiples ==
    ASSUME NEW l \in Positive, NEW n \in Positive, NEW k, k = (n + l - 1) \div l
    PROVE  /\ k \in Nat /\ k >= 1 /\ n <= k * l /\ (k - 1) * l < n
           /\ \A i \in 1..k - 1 : i * l < n
<1>1. l \in Nat /\ n \in Nat /\ l >= 1 /\ n >= 1
  BY DEF Positive
<1>2. k \in Nat /\ k * l <= n + l - 1 /\ n + l - 1 < (k + 1) * l
  BY <1>1
<1>3. (k + 1) * l = k * l + l /\ (k - 1) * l = k * l - l /\ k * l \in Nat
  BY <1>1, <1>2
<1>4. k # 0
  BY <1>1, <1>2
<1>5. n <= k * l /\ (k - 1) * l < n
  BY <1>1, <1>2, <1>3
<1>6. ASSUME NEW i \in 1..k - 1 PROVE i * l < n
  <2>1. i <= k - 1 /\ i \in Nat /\ k - 1 \in Int /\ l \in Nat
    BY <1>1, <1>2
  <2>2. PICK a, b \in Int : a = i /\ b = k - 1 /\ a <= b
    BY <2>1
  <2>3. i * l <= (k - 1) * l
    BY <2>1, <2>2, ProductGrows
  <2>4. i * l \in Int /\ (k - 1) * l \in Int
    BY <2>1
  <2> QED
    BY <1>1, <1>5, <2>3, <2>4
<1> QED
  BY <1>2, <1>4, <1>5, <1>6

\* The chunks of a paragraph are the paragraph, token after token.
LEMMA ChunksCut ==
    ASSUME TypeOK, NEW sizes, NEW p \in Positive, NEW n \in Positive, n = sizes[p],
           NEW ch, ch = Chunks(p, n)
    PROVE  /\ ch \in Seq(Segments) /\ AllShaped(ch)
           /\ TextOf(ch) \in Seq(Piece) /\ Stretch(sizes, TextOf(ch), p, p)
<1>1. PICK l \in Positive : l = Limit
  BY Positives
<1>2. PICK k \in Nat : /\ k = (n + l - 1) \div l
                       /\ k >= 1 /\ n <= k * l /\ (k - 1) * l < n
                       /\ \A i \in 1..k - 1 : i * l < n
  BY Multiples
<1>3. PICK from : from = [i \in 1..k |-> (i - 1) * l + 1]
  OBVIOUS
<1>4. PICK upto : upto = [i \in 1..k |-> IF i * l < n THEN i * l ELSE n]
  OBVIOUS
<1>5. PICK at0 : at0 = [i \in 1..k |-> <<p, from[i], upto[i]>>]
  OBVIOUS
<1>6. ch \in Seq(Segments)
  BY ChunksShort
<1>7. Len(ch) = k /\ \A i \in 1..k : /\ ch[i].pieces = <<at0[i]>>
                                     /\ ch[i].len = upto[i] - from[i] + 1
  <2>1. ch = [i \in 1..k |-> [pieces |-> <<at0[i]>>, len |-> upto[i] - from[i] + 1]]
    BY <1>1, <1>2, <1>3, <1>4, <1>5 DEF Chunks
  <2> QED
    BY <2>1
<1>8. ASSUME NEW i \in 1..k PROVE from[i] \in Nat /\ upto[i] \in Nat /\ at0[i] \in Piece
  <2>1. i - 1 \in Nat /\ i \in Nat /\ l \in Nat /\ n \in Nat /\ p \in Nat
    BY DEF Positive
  <2>2. (i - 1) * l \in Nat /\ i * l \in Nat
    BY <2>1
  <2>3. from[i] \in Nat /\ upto[i] \in Nat
    <3>1. from[i] = (i - 1) * l + 1
      BY <1>3
    <3>2. upto[i] = i * l \/ upto[i] = n
      BY <1>4
    <3> QED
      BY <2>1, <2>2, <3>1, <3>2
  <2> QED
    BY <1>5, <2>1, <2>3, PieceType
<1>9. at0 \in Seq(Piece) /\ Len(at0) = k
  BY <1>5, <1>8
<1>10. AllShaped(ch)
  <2> SUFFICES ASSUME NEW i \in 1..k PROVE Shaped(ch[i])
    BY <1>7 DEF AllShaped
  <2>1. PICK x \in Piece : x = at0[i]
    BY <1>8
  <2>2. x[2] = from[i] /\ x[3] = upto[i]
    BY <1>5, <2>1
  <2>3. LengthOf(<<x>>) = upto[i] - from[i] + 1
    BY <2>2, LengthOne
  <2>4. <<x>> # <<>>
    OBVIOUS
  <2> QED
    BY <1>7, <2>1, <2>3, <2>4 DEF Shaped
<1>11. TextOf(ch) = at0
  <2>1. PICK t : t = [i \in 1..Len(at0) |-> <<at0[i]>>]
    OBVIOUS
  <2>2. DOMAIN ch = 1..k
    BY <1>6, <1>7
  <2>3. Parts(ch) = t
    BY <1>7, <1>9, <2>1, <2>2 DEF Parts
  <2>4. FlattenSeq(t) = at0
    BY <1>9, <2>1, FlattenSingles
  <2> QED
    BY <2>3, <2>4 DEF TextOf
<1>12. \A i \in 1..k : at0[i][1] = p /\ at0[i][2] = from[i] /\ at0[i][3] = upto[i]
  BY <1>5
<1>13. from[1] = 1 /\ upto[k] = n
  <2>1. 1 \in 1..k /\ k \in 1..k
    BY <1>2
  <2>2. l \in Nat /\ k * l \in Nat /\ n \in Nat
    BY DEF Positive
  <2>3. (1 - 1) * l + 1 = 1
    BY <2>2
  <2>4. ~(k * l < n)
    BY <1>2, <2>2
  <2> QED
    BY <1>3, <1>4, <2>1, <2>3, <2>4
<1>14. ASSUME NEW i \in 1..k - 1 PROVE Continues(sizes, at0[i], at0[i + 1])
  <2>1. i \in 1..k /\ i + 1 \in 1..k /\ (i + 1) - 1 = i
    BY <1>2
  <2>2. upto[i] = i * l
    BY <1>2, <1>4, <2>1
  <2>3. from[i + 1] = i * l + 1
    BY <1>3, <2>1
  <2> QED
    BY <1>12, <2>1, <2>2, <2>3 DEF Continues
<1>15. Stretch(sizes, at0, p, p)
  <2>1. 1 \in 1..k /\ k \in 1..k /\ at0 # <<>>
    BY <1>2, <1>9
  <2> QED
    BY <1>9, <1>12, <1>13, <1>14, <2>1 DEF Stretch
<1> QED
  BY <1>6, <1>9, <1>10, <1>11, <1>15

\* A text that goes on.
LEMMA GoesOn ==
    \A a, b, c \in Seq(Piece) : /\ (a \o b) \o c = a \o (b \o c) /\ a \o <<>> = a
                                /\ <<>> \o a = a
                                /\ a \o b \in Seq(Piece)
                                /\ \A x \in Piece : Append(a, x) = a \o <<x>>
<1> SUFFICES ASSUME NEW a \in Seq(Piece), NEW b \in Seq(Piece), NEW c \in Seq(Piece)
             PROVE  /\ (a \o b) \o c = a \o (b \o c) /\ a \o <<>> = a
                    /\ <<>> \o a = a
                    /\ a \o b \in Seq(Piece)
                    /\ \A x \in Piece : Append(a, x) = a \o <<x>>
  OBVIOUS
<1>1. (a \o b) \o c = a \o (b \o c)
  BY ConcatAssociates
<1>2. a \o <<>> = a /\ <<>> \o a = a /\ a \o b \in Seq(Piece)
  OBVIOUS
<1>3. \A x \in Piece : Append(a, x) = a \o <<x>>
  OBVIOUS
<1> QED
  BY <1>1, <1>2, <1>3

LEMMA QuietCut ==
    ASSUME Cut, UNCHANGED <<rec, para, seg, units>>,
           phase' \in {"chat", "paragraphs", "units"} => phase' = phase
    PROVE  Cut'
<1>1. UnitsCut(units', rec') /\ (seg' = Blank \/ Shaped(seg'))
  BY DEF Cut
<1>2. phase' \in {"paragraphs", "units"} =>
         IsRead(Sizes[rec'], TextOf(units') \o seg'.pieces,
                IF Kind[rec'] = "document" THEN para' - 1 ELSE 1)
  BY DEF Cut
<1>3. /\ phase' = "chat" => Kind[rec'] # "document" /\ para' = 1 /\ seg' = Blank /\ units' = <<>>
      /\ phase' = "paragraphs" => Kind[rec'] = "document"
  BY DEF Cut
<1> QED
  BY <1>1, <1>2, <1>3 DEF Cut

LEMMA NextRecordCut == ASSUME NextRecord PROVE Cut'
<1>1. /\ para' = 1 /\ seg' = Blank /\ units' = <<>>
      /\ phase' = IF Kind[rec'] = "document" THEN "paragraphs" ELSE "chat"
  BY DEF NextRecord
<1>2. UnitsCut(units', rec')
  BY <1>1 DEF UnitsCut
<1>3. TextOf(units') \o seg'.pieces = <<>>
  BY <1>1, TextNone DEF Blank
<1>4. IsRead(Sizes[rec'], TextOf(units') \o seg'.pieces, 0)
  BY <1>3 DEF IsRead
<1> QED
  BY <1>1, <1>2, <1>4 DEF Cut

LEMMA ChatCut == ASSUME IInv, Cut, Chat PROVE Cut'
<1>1. PICK n : n = Sizes[rec][1]
  OBVIOUS
<1>2. rec' = rec /\ para' = para /\ seg' = seg /\ phase = "chat"
  BY DEF Chat, text
<1>3. Kind[rec] # "document" /\ seg = Blank /\ units = <<>>
  BY <1>2 DEF Cut
<1>4. CASE n > Limit
  <2>1. phase' = "records" /\ units' = units
    BY <1>1, <1>4 DEF Chat
  <2> QED
    BY <1>2, <2>1, QuietCut
<1>5. CASE ~(n > Limit)
  <2>1. PICK ps, s : ps = <<<<1, 1, n>>>> /\ s = [pieces |-> ps, len |-> n]
    OBVIOUS
  <2>2. n \in Positive /\ 1 \in Positive /\ TypeOK
    BY <1>1, Positives DEF IInv, Positive
  <2>3. ps \in Seq(Piece) /\ LengthOf(ps) = n /\ Stretch(Sizes[rec], ps, 1, 1)
    BY <1>1, <2>1, <2>2, WholeParagraph
  <2>4. <<s>> \in Seq(Segments) /\ Shaped(s) /\ AllShaped(<<s>>)
    <3>1. s \in Segments
      BY <2>1, <2>2, <2>3 DEF Segments, Positive
    <3>2. Shaped(s)
      BY <2>1, <2>3 DEF Shaped
    <3> QED
      BY <3>1, <3>2 DEF AllShaped
  <2>5. units' = Yield(<<s>>) /\ phase' = "units"
    BY <1>1, <1>5, <2>1 DEF Chat
  <2>6. UnitsCut(units', rec) /\ TextOf(units') = TextOf(units) \o TextOf(<<s>>)
    BY <2>2, <2>4, <2>5, YieldCut DEF Cut
  <2>7. TextOf(units') = ps
    <3>1. s.pieces = ps
      BY <2>1
    <3>2. TextOf(<<s>>) = ps /\ TextOf(units) = <<>>
      BY <1>3, <2>3, <3>1, TextNone, TextOne
    <3> QED
      BY <2>3, <2>6, <3>2, GoesOn
  <2>8. TextOf(units') \o seg'.pieces = ps
    BY <1>2, <1>3, <2>3, <2>7, GoesOn DEF Blank
  <2>9. IsRead(Sizes[rec'], TextOf(units') \o seg'.pieces, 1)
    BY <1>2, <2>3, <2>8 DEF IsRead
  <2>10. UnitsCut(units', rec')
    BY <1>2, <2>6
  <2> QED
    BY <1>2, <1>3, <2>5, <2>9, <2>10 DEF Cut
<1> QED
  BY <1>4, <1>5

LEMMA ParagraphCut == ASSUME IInv, Cut, Paragraph PROVE Cut'
<1>1. PICK n, sizes, k, x : /\ n = Sizes[rec][para] /\ sizes = Sizes[rec] /\ k = para - 1
                            /\ x = <<para, 1, n>>
  OBVIOUS
<1>2. /\ phase = "paragraphs" /\ phase' = phase /\ rec' = rec /\ para' = para + 1
      /\ para <= Len(Sizes[rec])
  BY DEF Paragraph
<1>3. TypeOK /\ UnitsCut(units, rec) /\ (seg = Blank \/ Shaped(seg)) /\ Kind[rec] = "document"
  BY <1>2 DEF IInv, Cut
<1>4. para \in Positive /\ k \in Nat /\ k + 1 = para /\ n \in Positive /\ n = sizes[para]
  <2>1. para \in Positive
    BY <1>3 DEF TypeOK
  <2>2. para \in 1..Len(Sizes[rec])
    BY <1>2, <2>1 DEF Positive
  <2> QED
    BY <1>1, <1>3, <2>1, <2>2, Positives DEF Positive
<1>5. PICK F, S : F = TextOf(units) /\ S = seg.pieces
  OBVIOUS
<1>6. F \in Seq(Piece) /\ S \in Seq(Piece) /\ F \o S \in Seq(Piece)
  <2>1. units \in Seq(Units) /\ <<>> \in Seq(Units) /\ seg \in Segments
    BY <1>3 DEF TypeOK
  <2>2. F \in Seq(Piece)
    BY <1>5, <2>1, Holders, TextConcat
  <2> QED
    BY <1>5, <2>1, <2>2 DEF Segments
<1>7. IsRead(sizes, F \o S, k)
  BY <1>1, <1>2, <1>3, <1>5 DEF Cut
<1>8. x \in Piece /\ <<x>> \in Seq(Piece) /\ LengthOf(<<x>>) = n /\ Stretch(sizes, <<x>>, para, para)
  <2>1. PICK ps : ps = <<<<para, 1, n>>>>
    OBVIOUS
  <2> QED
    BY <1>1, <1>4, <2>1, WholeParagraph
<1>9. Flush \in Seq(Segments) /\ AllShaped(Flush) /\ TextOf(Flush) = S
  BY <1>3, <1>5, FlushCut
<1>10. ASSUME NEW b \in Seq(Piece), Stretch(sizes, b, para, para)
       PROVE  IsRead(sizes, (F \o S) \o b, para)
  BY <1>4, <1>6, <1>7, <1>10, ReadsOn
<1>11. ASSUME UnitsCut(units', rec), seg' = Blank \/ Shaped(seg'),
              IsRead(sizes, TextOf(units') \o seg'.pieces, para)
       PROVE  Cut'
  <2>1. para' - 1 = para /\ UnitsCut(units', rec') /\ sizes = Sizes[rec']
    BY <1>1, <1>2, <1>4, <1>11 DEF Positive
  <2>2. IsRead(Sizes[rec'], TextOf(units') \o seg'.pieces, para' - 1)
    BY <1>11, <2>1
  <2> QED
    BY <1>2, <1>3, <1>11, <2>1, <2>2 DEF Cut
<1>12. CASE n > Limit /\ units' = Yield(Flush \o Chunks(para, n)) /\ seg' = Blank
  <2>1. PICK ch, ss : ch = Chunks(para, n) /\ ss = Flush \o ch
    OBVIOUS
  <2>2. ch \in Seq(Segments) /\ AllShaped(ch) /\ TextOf(ch) \in Seq(Piece)
          /\ Stretch(sizes, TextOf(ch), para, para)
    BY <1>3, <1>4, <2>1, ChunksCut
  <2>3. ss \in Seq(Segments) /\ Concats(ss, Flush, ch)
    BY <1>9, <2>1, <2>2, ConcatAt
  <2>4. AllShaped(ss)
    <3> SUFFICES ASSUME NEW i \in 1..Len(ss) PROVE Shaped(ss[i])
      BY DEF AllShaped
    <3>1. i \in 1..Len(Flush) \/ \E j \in 1..Len(ch) : i = Len(Flush) + j
      BY <2>3 DEF Concats
    <3>2. CASE i \in 1..Len(Flush)
      BY <1>9, <2>3, <3>2 DEF Concats, AllShaped
    <3>3. ASSUME NEW j \in 1..Len(ch), i = Len(Flush) + j PROVE Shaped(ss[i])
      BY <2>2, <2>3, <3>3 DEF Concats, AllShaped
    <3> QED
      BY <3>1, <3>2, <3>3
  <2>5. TextOf(ss) = S \o TextOf(ch)
    BY <1>9, <2>1, <2>2, Holders, TextConcat
  <2>6. UnitsCut(units', rec) /\ TextOf(units') = F \o (S \o TextOf(ch))
    <3>1. units' = Yield(ss)
      BY <1>12, <2>1
    <3> QED
      BY <1>3, <1>5, <2>3, <2>4, <2>5, <3>1, YieldCut
  <2>7. PICK C \in Seq(Piece) : C = TextOf(ch)
    BY <2>2
  <2>8. TextOf(units') \o seg'.pieces = (F \o S) \o C
    <3>1. TextOf(units') = (F \o S) \o C /\ (F \o S) \o C \in Seq(Piece)
      BY <1>6, <2>6, <2>7, GoesOn
    <3>2. seg'.pieces = <<>>
      BY <1>12 DEF Blank
    <3> QED
      BY <3>1, <3>2, GoesOn
  <2>9. IsRead(sizes, TextOf(units') \o seg'.pieces, para)
    BY <1>10, <2>2, <2>7, <2>8
  <2> QED
    BY <1>11, <1>12, <2>6, <2>9
<1>13. CASE units' = Yield(Flush) /\ seg' = [pieces |-> <<<<para, 1, n>>>>, len |-> n]
  <2>1. UnitsCut(units', rec) /\ TextOf(units') = F \o S
    BY <1>3, <1>5, <1>9, <1>13, YieldCut
  <2>2. seg'.pieces = <<x>> /\ Shaped(seg')
    <3>1. seg'.pieces = <<x>> /\ seg'.len = n
      BY <1>1, <1>13
    <3>2. <<x>> # <<>>
      OBVIOUS
    <3> QED
      BY <1>8, <3>1, <3>2 DEF Shaped
  <2>3. IsRead(sizes, TextOf(units') \o seg'.pieces, para)
    BY <1>8, <1>10, <2>1, <2>2
  <2> QED
    BY <1>11, <2>1, <2>2, <2>3
<1>14. CASE seg' = Extended(para, n) /\ units' = units
  <2>1. PICK l : l = IF seg = Blank THEN n ELSE seg.len + SepTokens + n
    OBVIOUS
  <2>2. seg' = [pieces |-> Append(S, x), len |-> l]
    BY <1>1, <1>5, <1>14, <2>1 DEF Extended
  <2>3. seg'.pieces = Append(S, x) /\ seg'.len = l /\ Append(S, x) # <<>>
    BY <1>6, <2>2
  <2>4. LengthOf(Append(S, x)) = l
    <3>1. CASE seg = Blank
      <4>1. S = <<>> /\ Append(S, x) = <<x>>
        BY <1>5, <3>1 DEF Blank
      <4> QED
        BY <1>8, <2>1, <3>1, <4>1
    <3>2. CASE seg # Blank
      <4>1. seg.len = LengthOf(S)
        BY <1>3, <1>5, <3>2 DEF Shaped
      <4>2. LengthOf(Append(S, x)) = LengthOf(S) + SepTokens + (x[3] - x[2] + 1)
        BY <1>6, <1>8, LengthAppend
      <4>3. x[3] = n /\ x[2] = 1 /\ n - 1 + 1 = n
        BY <1>1, <1>4 DEF Positive
      <4> QED
        BY <2>1, <3>2, <4>1, <4>2, <4>3
    <3> QED
      BY <3>1, <3>2
  <2>5. Shaped(seg')
    BY <2>3, <2>4 DEF Shaped
  <2>6. TextOf(units') \o seg'.pieces = (F \o S) \o <<x>>
    <3>1. Append(S, x) = S \o <<x>>
      BY <1>6, <1>8, GoesOn
    <3>2. (F \o S) \o <<x>> = F \o (S \o <<x>>)
      BY <1>6, <1>8, GoesOn
    <3> QED
      BY <1>5, <1>14, <2>3, <3>1, <3>2
  <2>7. IsRead(sizes, TextOf(units') \o seg'.pieces, para)
    BY <1>8, <1>10, <2>6
  <2>8. UnitsCut(units', rec)
    BY <1>3, <1>14
  <2> QED
    BY <1>11, <2>5, <2>7, <2>8
<1> QED
  BY <1>1, <1>12, <1>13, <1>14 DEF Paragraph

LEMMA EndDocumentCut == ASSUME IInv, Cut, EndDocument PROVE Cut'
<1>1. /\ phase = "paragraphs" /\ phase' = "units" /\ rec' = rec /\ para' = para
      /\ units' = Yield(Flush) /\ seg' = Blank
  BY DEF EndDocument
<1>2. TypeOK /\ UnitsCut(units, rec) /\ (seg = Blank \/ Shaped(seg)) /\ Kind[rec] = "document"
        /\ IsRead(Sizes[rec], TextOf(units) \o seg.pieces, para - 1)
  BY <1>1 DEF IInv, Cut
<1>3. /\ Flush \in Seq(Segments) /\ AllShaped(Flush) /\ TextOf(Flush) = seg.pieces
      /\ seg.pieces \in Seq(Piece)
  BY <1>2, FlushCut
<1>4. UnitsCut(units', rec) /\ TextOf(units') = TextOf(units) \o seg.pieces
  BY <1>1, <1>2, <1>3, YieldCut
<1>5. TextOf(units) \in Seq(Piece)
  <2>1. units \in Seq(Units) /\ <<>> \in Seq(Units)
    BY <1>2 DEF TypeOK
  <2> QED
    BY <2>1, Holders, TextConcat
<1>6. TextOf(units') \o seg'.pieces = TextOf(units) \o seg.pieces
  <2>1. PICK T \in Seq(Piece) : T = TextOf(units) \o seg.pieces
    BY <1>3, <1>5, GoesOn
  <2>2. T \o <<>> = T /\ seg'.pieces = <<>>
    BY <1>1, GoesOn DEF Blank
  <2> QED
    BY <1>4, <2>1, <2>2
<1>7. UnitsCut(units', rec')
  BY <1>1, <1>4
<1>8. IsRead(Sizes[rec'], TextOf(units') \o seg'.pieces, para' - 1)
  BY <1>1, <1>2, <1>6
<1> QED
  BY <1>1, <1>2, <1>7, <1>8 DEF Cut

LEMMA CutInductive == IInv /\ Cut /\ [Next]_vars => Cut'
<1> SUFFICES ASSUME IInv, Cut, [Next]_vars PROVE Cut'
  OBVIOUS
<1>1. CASE AssignQuota
  BY <1>1, QuietCut DEF AssignQuota, text
<1>2. CASE StartDomain
  BY <1>2, QuietCut DEF StartDomain, text
<1>3. CASE NextRecord
  BY <1>3, NextRecordCut
<1>4. CASE Chat
  BY <1>4, ChatCut
<1>5. CASE Paragraph
  BY <1>5, ParagraphCut
<1>6. CASE EndDocument
  BY <1>6, EndDocumentCut
<1>7. CASE TakeUnit
  BY <1>7, QuietCut DEF TakeUnit, text
<1>8. CASE Gate
  BY <1>8, QuietCut DEF Gate, text
<1>9. CASE PackUnit
  BY <1>9, QuietCut DEF PackUnit, text
<1>10. CASE LastRow
  BY <1>10, QuietCut DEF LastRow, text
<1>11. CASE UNCHANGED vars
  BY <1>11, QuietCut DEF vars
<1> QED
  BY <1>1, <1>2, <1>3, <1>4, <1>5, <1>6, <1>7, <1>8, <1>9, <1>10, <1>11
     DEF Next, Select, Pack, Quiet

LEMMA InitCut == Init => Cut
<1> SUFFICES ASSUME Init PROVE Cut
  OBVIOUS
<1>1. units = <<>> /\ seg = Blank /\ phase = "quotas"
  BY DEF Init
<1> QED
  BY <1>1 DEF Cut, UnitsCut

LEMMA CutAndKept == Spec => [](IInv /\ Cut /\ Kept)
<1>1. Init => IInv /\ Cut /\ Kept
  BY InitIInv, InitCut, InitKept
<1>2. IInv /\ Cut /\ Kept /\ [Next]_vars => (IInv /\ Cut /\ Kept)'
  BY Inductive, CutInductive, KeptInductive
<1> QED
  BY <1>1, <1>2, PTL DEF Spec

\* From the records to the rows no token is lost, repeated or moved, and the
\* reported tokens add up, for any texts, row length and separator
\* (_document_token_segments, _calibration_units, _pack_calibration_units).
THEOREM TextAlwaysKept == Spec => []TextIsKept
<1>1. IInv /\ Cut /\ Kept => TextIsKept
  <2> SUFFICES ASSUME IInv, Cut, Kept PROVE CutsKeepTheText /\ PackingKeepsTokens
    BY DEF TextIsKept
  <2>1. CutsKeepTheText
    <3>1. phase \in {"paragraphs", "units"} =>
             Reads(TextOf(units) \o seg.pieces, IF Kind[rec] = "document" THEN para - 1 ELSE 1)
      BY ReadsIs DEF Cut
    <3>2. TextOf(units) = FlattenSeq([i \in DOMAIN units |-> units[i].pieces])
      BY DEF TextOf, Parts
    <3>3. \A i \in DOMAIN units : units[i].part = i - 1 /\ units[i].len = LengthOf(units[i].pieces)
      <4>1. DOMAIN units = 1..Len(units)
        BY DEF IInv, TypeOK
      <4> QED
        BY <4>1 DEF Cut, UnitsCut, Shaped
    <3> QED
      BY <3>1, <3>2, <3>3 DEF CutsKeepTheText
  <2>2. PackingKeepsTokens
    BY DEF Kept, Held, ReportedOf, Spaced, PackingKeepsTokens
  <2> QED
    BY <2>1, <2>2
<1> QED
  BY <1>1, CutAndKept, PTL

-----------------------------------------------------------------------------
(***************************************************************************)
(* Reuse comes last                                                        *)
(***************************************************************************)

\* How often a part of a record is among some units.
Uses(us, r, p) == {i \in 1..Len(us) : us[i].rec = r /\ us[i].part = p}
Count(us, r, p) == Cardinality(Uses(us, r, p))

LEMMA CountNone == \A r, p : Count(<<>>, r, p) = 0
<1>1. \A r, p : Uses(<<>>, r, p) = {}
  BY DEF Uses
<1> QED
  BY <1>1, FS_EmptySet DEF Count

LEMMA CountAppend ==
    ASSUME NEW us \in Seq(Units), NEW u \in Units, NEW r, NEW p
    PROVE  /\ Count(us, r, p) \in Nat
           /\ Count(Append(us, u), r, p)
                 = IF u.rec = r /\ u.part = p THEN Count(us, r, p) + 1 ELSE Count(us, r, p)
<1>1. PICK n \in Nat : n = Len(us)
  OBVIOUS
<1>2. PICK vs : vs = Append(us, u)
  OBVIOUS
<1>3. Len(vs) = n + 1 /\ vs[n + 1] = u /\ \A i \in 1..n : vs[i] = us[i]
  BY <1>1, <1>2
<1>4. PICK S : S = Uses(us, r, p)
  OBVIOUS
<1>5. S \subseteq 1..n /\ n + 1 \notin S
  BY <1>1, <1>4 DEF Uses
<1>6. IsFiniteSet(S) /\ Cardinality(S) \in Nat
  BY <1>5, PositionsFinite
<1>7. CASE u.rec = r /\ u.part = p
  <2>1. Uses(vs, r, p) = S \cup {n + 1}
    BY <1>1, <1>3, <1>4, <1>7 DEF Uses
  <2>2. Cardinality(S \cup {n + 1}) = Cardinality(S) + 1
    BY <1>5, <1>6, FS_AddElement
  <2> QED
    BY <1>2, <1>4, <1>6, <1>7, <2>1, <2>2 DEF Count
<1>8. CASE ~(u.rec = r /\ u.part = p)
  <2>1. Uses(vs, r, p) = S
    BY <1>1, <1>3, <1>4, <1>8 DEF Uses
  <2> QED
    BY <1>2, <1>4, <1>6, <1>8, <2>1 DEF Count
<1> QED
  BY <1>7, <1>8

LEMMA TimesIs == picked \in Seq(Units) => \A r, p : Times(r, p) = Count(picked, r, p)
<1> SUFFICES ASSUME picked \in Seq(Units) PROVE \A r, p : Times(r, p) = Count(picked, r, p)
  OBVIOUS
<1>1. DOMAIN picked = 1..Len(picked)
  OBVIOUS
<1> QED
  BY <1>1 DEF Times, Count, Uses

\* A unit of the record at hand may still be selected for the first time.
Entered == phase \in {"chat", "paragraphs"} \/ (phase = "units" /\ next = 1)

\* How often the cursor has come by the j-th candidate.
Visited(j) == wraps + (IF j < cursor THEN 1 ELSE 0)
Fits(l, r) == Kind[r] = "document" \/ Sizes[r][1] <= l

\* What has been selected is in step with the laps over the candidates.
InLine ==
    /\ \A i \in 1..Len(picked) : \E j \in 1..Len(line) : picked[i].rec = line[j]
    /\ \A i, j \in 1..Len(line) : i # j => line[i] # line[j]
    /\ phase \in Working => cursor > 1 /\ rec = line[cursor - 1]
    /\ phase \in {"chat", "paragraphs"} => next = 1
NotAhead ==
    /\ \A j \in 1..Len(line), p \in Nat : Count(picked, line[j], p) <= Visited(j)
    /\ phase \in Working => \A p \in Nat : p >= next - 1 => Count(picked, rec, p) <= wraps
NotBehind ==
    \A j \in 1..Len(line) : Fits(Limit, line[j]) =>
        Count(picked, line[j], 0) >= IF Entered /\ j = cursor - 1 THEN wraps ELSE Visited(j)
Fair == InLine /\ NotAhead /\ NotBehind

\* A step that reads no record and selects no unit.
LEMMA QuietFair ==
    ASSUME Fair, UNCHANGED <<picked, line, cursor, wraps, rec, next, recipe>>,
           phase' \in Working => phase \in Working,
           phase' \in {"chat", "paragraphs"} => phase \in {"chat", "paragraphs"},
           Entered' = Entered
    PROVE  Fair'
<1>1. InLine'
  BY DEF Fair, InLine
<1>2. \A j : Visited(j)' = Visited(j)
  BY DEF Visited
<1>3. NotAhead'
  <2>1. \A j \in 1..Len(line'), p \in Nat : Count(picked', line'[j], p) <= Visited(j)'
    BY <1>2 DEF Fair, NotAhead
  <2>2. phase' \in Working => \A p \in Nat : p >= next' - 1 => Count(picked', rec', p) <= wraps'
    BY DEF Fair, NotAhead
  <2> QED
    BY <2>1, <2>2 DEF NotAhead
<1>4. NotBehind'
  <2>1. \A j \in 1..Len(line') : Fits(Limit', line'[j]) => Fits(Limit, line[j])
    BY DEF Limit
  <2>2. \A j \in 1..Len(line') : Fits(Limit', line'[j]) =>
           Count(picked', line'[j], 0)
              >= IF Entered' /\ j = cursor' - 1 THEN wraps' ELSE Visited(j)'
    BY <1>2, <2>1 DEF Fair, NotBehind
  <2> QED
    BY <2>2 DEF NotBehind
<1> QED
  BY <1>1, <1>3, <1>4 DEF Fair

LEMMA StartFair == ASSUME IInv, StartDomain PROVE Fair'
<1>1. /\ line' \in SetToSeqs(Pool[at]) /\ cursor' = 1 /\ wraps' = 0 /\ picked' = <<>>
      /\ phase' = "records" /\ at \in 1..N
  <2>1. at \in 1..N
    BY RecordsAssumption DEF StartDomain, IInv, TypeOK, Positive
  <2> QED
    BY <2>1 DEF StartDomain
<1>2. line' \in Seq(Record)
  BY <1>1, ShuffleType
<1>3. \A i, j \in 1..Len(line') : i # j => line'[i] # line'[j]
  <2>1. PICK n : n = Cardinality(Pool[at])
    OBVIOUS
  <2>2. /\ line' \in [1..n -> Pool[at]]
        /\ \A i, j \in 1..n : i # j => line'[i] # line'[j]
    BY <1>1, <2>1 DEF SetToSeqs
  <2>3. DOMAIN line' = 1..n /\ DOMAIN line' = 1..Len(line')
    BY <1>2, <2>2
  <2> QED
    BY <2>2, <2>3
<1>4. InLine'
  BY <1>1, <1>3 DEF InLine, Working
<1>5. \A j \in 1..Len(line') : Visited(j)' = 0
  BY <1>1 DEF Visited
<1>6. \A r, p : Count(picked', r, p) = 0
  BY <1>1, CountNone
<1>7. NotAhead'
  BY <1>1, <1>5, <1>6 DEF NotAhead, Working
<1>8. NotBehind'
  BY <1>1, <1>5, <1>6 DEF NotBehind
<1> QED
  BY <1>4, <1>7, <1>8 DEF Fair

LEMMA NextRecordFair == ASSUME IInv, Fair, NextRecord PROVE Fair'
<1>1. PICK l, c, w \in Nat :
         /\ l = Len(line) /\ l > 0 /\ c = cursor /\ c >= 1 /\ c <= l + 1 /\ w = wraps
  <2>1. line \in Seq(Record) /\ cursor \in Positive /\ wraps \in 0..2
    BY DEF IInv, TypeOK
  <2>2. phase = "records"
    BY DEF NextRecord
  <2> QED
    BY <2>1, <2>2 DEF IInv, Reading, Positive
<1>2. PICK i \in 1..l : i = IF c > l THEN 1 ELSE c
  BY <1>1
<1>3. /\ rec' = line[i] /\ cursor' = i + 1 /\ wraps' = IF c > l THEN w + 1 ELSE w
      /\ UNCHANGED <<picked, line, recipe>> /\ next' = 1 /\ phase = "records"
      /\ phase' \in {"chat", "paragraphs"}
  BY <1>1, <1>2 DEF NextRecord, Advance, plan, selection
<1>4. picked \in Seq(Units)
  BY DEF IInv, TypeOK
<1>5. \A j \in 1..l : Visited(j) = IF j < c THEN w + 1 ELSE w
  BY <1>1 DEF Visited
<1>6. \A j \in 1..l : Visited(j)' = IF j < i + 1 THEN wraps' + 1 ELSE wraps'
  BY <1>1, <1>3 DEF Visited
<1>7. \A j \in 1..l : /\ Visited(j) <= Visited(j)'
                      /\ j # i => Visited(j)' = Visited(j)
                      /\ j = i => Visited(j) = wraps'
                      /\ Visited(j) \in Nat /\ Visited(j)' \in Nat
  BY <1>1, <1>2, <1>3, <1>5, <1>6
<1>8. InLine'
  BY <1>1, <1>3 DEF Fair, InLine
<1>9. \A r, p : Count(picked, r, p) \in Nat
  <2> SUFFICES ASSUME NEW r, NEW p PROVE Count(picked, r, p) \in Nat
    OBVIOUS
  <2>1. Uses(picked, r, p) \subseteq 1..Len(picked) /\ Len(picked) \in Nat
    BY <1>4 DEF Uses
  <2> QED
    BY <2>1, PositionsFinite DEF Count
<1>10. NotAhead'
  <2>1. ASSUME NEW j \in 1..l, NEW p \in Nat PROVE Count(picked, line[j], p) <= Visited(j)'
    <3>1. Count(picked, line[j], p) <= Visited(j)
      BY <1>1 DEF Fair, NotAhead
    <3> QED
      BY <1>7, <1>9, <3>1
  <2>2. ASSUME NEW p \in Nat PROVE Count(picked, line[i], p) <= wraps'
    <3>1. Count(picked, line[i], p) <= Visited(i)
      BY <1>1 DEF Fair, NotAhead
    <3> QED
      BY <1>7, <3>1
  <2> QED
    BY <1>1, <1>3, <2>1, <2>2 DEF NotAhead
<1>11. NotBehind'
  <2> SUFFICES ASSUME NEW j \in 1..l, Fits(Limit, line[j])
               PROVE  Count(picked, line[j], 0) >= IF j = i THEN wraps' ELSE Visited(j)'
    BY <1>1, <1>2, <1>3 DEF NotBehind, Entered, Limit
  <2>1. ~Entered
    BY <1>3 DEF Entered
  <2>2. Count(picked, line[j], 0) >= Visited(j)
    BY <1>1, <2>1 DEF Fair, NotBehind
  <2> QED
    BY <1>7, <2>2
<1> QED
  BY <1>8, <1>10, <1>11 DEF Fair

\* A chat that is too long is the only record that is read and not selected from.
LEMMA ChatFair == ASSUME IInv, Cut, Fair, Chat PROVE Fair'
<1>1. UNCHANGED <<picked, line, cursor, wraps, rec, next, recipe>> /\ phase = "chat"
  BY DEF Chat, plan, queue, text, selection
<1>2. next = 1 /\ Kind[rec] # "document" /\ cursor > 1 /\ rec = line[cursor - 1]
  BY <1>1 DEF Fair, InLine, Working, Cut
<1>3. CASE phase' = "units"
  BY <1>1, <1>2, <1>3, QuietFair DEF Working, Entered
<1>4. CASE phase' = "records" /\ Sizes[rec][1] > Limit
  <2>1. ~Fits(Limit, rec)
    <3>1. Sizes[rec][1] \in Nat /\ Limit \in Nat
      BY Positives DEF IInv, Positive
    <3> QED
      BY <1>2, <1>4, <3>1 DEF Fits
  <2>2. InLine'
    BY <1>1, <1>4 DEF Fair, InLine, Working
  <2>3. \A j : Visited(j)' = Visited(j)
    BY <1>1 DEF Visited
  <2>4. NotAhead'
    <3>1. \A j \in 1..Len(line'), p \in Nat : Count(picked', line'[j], p) <= Visited(j)'
      BY <1>1, <2>3 DEF Fair, NotAhead
    <3> QED
      BY <1>4, <3>1 DEF NotAhead, Working
  <2>5. NotBehind'
    <3> SUFFICES ASSUME NEW j \in 1..Len(line), Fits(Limit, line[j])
                 PROVE  Count(picked, line[j], 0) >= Visited(j)
      BY <1>1, <1>4, <2>3 DEF NotBehind, Entered, Limit
    <3>1. j # cursor - 1
      BY <1>2, <2>1
    <3> QED
      BY <3>1 DEF Fair, NotBehind
  <2> QED
    BY <2>2, <2>4, <2>5 DEF Fair
<1> QED
  BY <1>3, <1>4 DEF Chat

LEMMA TakeFair == ASSUME IInv, Cut, Fair, TakeUnit PROVE Fair'
<1>1. PICK u : u = units[next]
  OBVIOUS
<1>2. /\ UNCHANGED <<line, cursor, wraps, rec, recipe>> /\ phase = "units"
      /\ picked' = Append(picked, u) /\ next' = next + 1 /\ next <= Len(units)
      /\ phase' \in {"records", "units"}
  BY <1>1 DEF TakeUnit, plan, queue, text
<1>3. PICK n, c, w, l \in Nat : /\ n = next /\ n >= 1 /\ c = cursor /\ w = wraps /\ l = Len(line)
                                /\ c > 1 /\ c <= l + 1
  <2>1. next \in Positive /\ cursor \in Positive /\ wraps \in 0..2 /\ line \in Seq(Record)
    BY DEF IInv, TypeOK
  <2>2. cursor > 1 /\ cursor <= Len(line) + 1
    BY <1>2 DEF IInv, Reading, Fair, InLine, Working
  <2>3. next \in Nat /\ next >= 1 /\ cursor \in Nat /\ wraps \in Nat /\ Len(line) \in Nat
    BY <2>1 DEF Positive
  <2> QED
    BY <2>2, <2>3
<1>4. picked \in Seq(Units) /\ u \in Units /\ u.rec = rec /\ u.part = n - 1
  <2>1. next \in 1..Len(units) /\ units \in Seq(Units) /\ picked \in Seq(Units)
    BY <1>2, <1>3 DEF IInv, TypeOK
  <2> QED
    BY <1>1, <1>3, <2>1 DEF Cut, UnitsCut
<1>5. PICK k \in 1..l : k = c - 1 /\ rec = line[k]
  <2>1. c - 1 \in 1..l /\ rec = line[c - 1]
    BY <1>2, <1>3 DEF Fair, InLine, Working
  <2> QED
    BY <2>1
<1>6. \A r, p : /\ Count(picked, r, p) \in Nat
                /\ Count(picked', r, p) = IF r = rec /\ p = n - 1 THEN Count(picked, r, p) + 1
                                                                ELSE Count(picked, r, p)
  BY <1>2, <1>4, CountAppend
<1>7. \A i, j \in 1..l : i # j => line[i] # line[j]
  BY <1>3 DEF Fair, InLine
<1>8. \A j \in 1..l : /\ Visited(j)' = Visited(j)
                      /\ Visited(j) = (IF j < c THEN w + 1 ELSE w) /\ Visited(j) \in Nat
  BY <1>2, <1>3 DEF Visited
<1>9. InLine'
  <2>1. ASSUME NEW i \in 1..Len(picked')
        PROVE  \E j \in 1..l : picked'[i].rec = line[j]
    <3>1. \/ i \in 1..Len(picked) /\ picked'[i] = picked[i]
          \/ picked'[i] = u
      BY <1>2, <1>4
    <3>2. CASE i \in 1..Len(picked) /\ picked'[i] = picked[i]
      BY <1>3, <3>2 DEF Fair, InLine
    <3>3. CASE picked'[i] = u
      BY <1>4, <1>5, <3>3
    <3> QED
      BY <3>1, <3>2, <3>3
  <2>2. /\ phase' \in Working => cursor' > 1 /\ rec' = line'[cursor' - 1]
        /\ phase' \notin {"chat", "paragraphs"}
    BY <1>2 DEF Fair, InLine, Working
  <2> QED
    BY <1>2, <1>3, <1>7, <2>1, <2>2 DEF InLine
<1>10. \A p \in Nat : p >= n - 1 => Count(picked, rec, p) <= w
  BY <1>2, <1>3 DEF Fair, NotAhead, Working
<1>11. NotAhead'
  <2>1. ASSUME NEW j \in 1..l, NEW p \in Nat PROVE Count(picked', line[j], p) <= Visited(j)
    <3>1. Count(picked, line[j], p) <= Visited(j)
      BY <1>3 DEF Fair, NotAhead
    <3>2. CASE line[j] = rec /\ p = n - 1
      <4>1. j = k
        BY <1>5, <1>7, <3>2
      <4>2. Visited(j) = w + 1
        BY <1>5, <1>8, <4>1
      <4>3. Count(picked, rec, p) <= w
        BY <1>10, <3>2
      <4> QED
        BY <1>6, <3>2, <4>2, <4>3
    <3>3. CASE ~(line[j] = rec /\ p = n - 1)
      BY <1>6, <3>1, <3>3
    <3> QED
      BY <3>2, <3>3
  <2>2. ASSUME NEW p \in Nat, p >= next' - 1 PROVE Count(picked', rec, p) <= w
    <3>1. p >= n - 1 /\ p # n - 1
      BY <1>2, <1>3, <2>2
    <3> QED
      BY <1>6, <1>10, <3>1
  <2> QED
    BY <1>2, <1>3, <1>8, <2>1, <2>2 DEF NotAhead
<1>12. NotBehind'
  <2>1. ~Entered'
    BY <1>2, <1>3 DEF Entered
  <2> SUFFICES ASSUME NEW j \in 1..l, Fits(Limit, line[j])
               PROVE  Count(picked', line[j], 0) >= Visited(j)
    BY <1>2, <1>3, <1>8, <2>1 DEF NotBehind, Limit
  <2>2. Count(picked, line[j], 0) >= IF Entered /\ j = c - 1 THEN w ELSE Visited(j)
    BY <1>3 DEF Fair, NotBehind
  <2>3. CASE Entered /\ j = c - 1
    <3>1. n = 1 /\ line[j] = rec
      BY <1>2, <1>3, <1>5, <2>3 DEF Entered
    <3>2. Count(picked', line[j], 0) = Count(picked, line[j], 0) + 1
      BY <1>6, <3>1
    <3>3. Visited(j) = w + 1
      BY <1>3, <1>8, <2>3
    <3> QED
      BY <1>6, <2>2, <2>3, <3>2, <3>3
  <2>4. CASE ~(Entered /\ j = c - 1)
    <3>1. Count(picked', line[j], 0) >= Count(picked, line[j], 0)
      BY <1>6
    <3> QED
      BY <1>6, <1>8, <2>2, <2>4, <3>1
  <2> QED
    BY <2>3, <2>4
<1> QED
  BY <1>9, <1>11, <1>12 DEF Fair

LEMMA FairInductive == IInv /\ Cut /\ Fair /\ [Next]_vars => Fair'
<1> SUFFICES ASSUME IInv, Cut, Fair, [Next]_vars PROVE Fair'
  OBVIOUS
<1>1. CASE AssignQuota
  BY <1>1, QuietFair DEF AssignQuota, queue, text, selection, Working, Entered
<1>2. CASE StartDomain
  BY <1>2, StartFair
<1>3. CASE NextRecord
  BY <1>3, NextRecordFair
<1>4. CASE Chat
  BY <1>4, ChatFair
<1>5. CASE Paragraph
  BY <1>5, QuietFair DEF Paragraph, plan, queue, selection, Working, Entered
<1>6. CASE EndDocument
  <2>1. next = 1
    BY <1>6 DEF EndDocument, Fair, InLine
  <2> QED
    BY <1>6, <2>1, QuietFair DEF EndDocument, plan, queue, selection, Working, Entered
<1>7. CASE TakeUnit
  BY <1>7, TakeFair
<1>8. CASE Gate
  BY <1>8, QuietFair DEF Gate, plan, text, selection, Working, Entered
<1>9. CASE PackUnit
  BY <1>9, QuietFair DEF PackUnit, plan, queue, text, selection, Working, Entered
<1>10. CASE LastRow
  BY <1>10, QuietFair DEF LastRow, plan, queue, text, selection, Working, Entered
<1>11. CASE UNCHANGED vars
  BY <1>11, QuietFair DEF vars, Entered
<1> QED
  BY <1>1, <1>2, <1>3, <1>4, <1>5, <1>6, <1>7, <1>8, <1>9, <1>10, <1>11
     DEF Next, Select, Pack, Quiet

LEMMA InitFair == Init => Fair
<1> SUFFICES ASSUME Init PROVE Fair
  OBVIOUS
<1>1. picked = <<>> /\ line = <<>> /\ phase = "quotas" /\ Len(picked) = 0 /\ Len(line) = 0
  BY DEF Init
<1> QED
  BY <1>1 DEF Fair, InLine, NotAhead, NotBehind, Working

\* A unit is used again only after every record that can be packed has been
\* used as often, for any pool and whatever order the records are shuffled into
\* (the wrap-around of build_calibration_dataset).
THEOREM ReuseAlwaysLast == Spec => []ReuseComesLast
<1>1. Init => IInv /\ Cut /\ Fair
  BY InitIInv, InitCut, InitFair
<1>2. IInv /\ Cut /\ Fair /\ [Next]_vars => (IInv /\ Cut /\ Fair)'
  BY Inductive, CutInductive, FairInductive
<1>3. IInv /\ Fair => ReuseComesLast
  <2> SUFFICES ASSUME IInv, Fair, NEW i \in DOMAIN picked, NEW r \in Packable
               PROVE  Times(r, 0) >= Times(picked[i].rec, picked[i].part) - 1
    BY DEF ReuseComesLast
  <2>1. /\ picked \in Seq(Units) /\ line \in Seq(Record) /\ cursor \in Int /\ wraps \in Int
        /\ i \in 1..Len(picked) /\ picked[i] \in Units
    BY DEF IInv, TypeOK, Positive
  <2>2. PICK j \in 1..Len(line) : r = line[j] /\ Fits(Limit, r)
    BY <2>1 DEF Packable, ToSet, Fits
  <2>3. PICK k \in 1..Len(line) : picked[i].rec = line[k]
    BY <2>1 DEF Fair, InLine
  <2>4. picked[i].part \in Nat
    BY <2>1 DEF Units
  <2>5. Count(picked, line[k], picked[i].part) <= wraps + 1
    <3>1. Count(picked, line[k], picked[i].part) <= Visited(k)
      BY <2>4 DEF Fair, NotAhead
    <3>2. Visited(k) = wraps \/ Visited(k) = wraps + 1
      BY <2>1 DEF Visited
    <3>3. Count(picked, line[k], picked[i].part) \in Nat
      BY <2>1, CountAppend
    <3> QED
      BY <2>1, <3>1, <3>2, <3>3
  <2>6. Count(picked, line[j], 0) >= wraps
    <3>1. Count(picked, line[j], 0) >= wraps \/ Count(picked, line[j], 0) >= Visited(j)
      BY <2>2 DEF Fair, NotBehind
    <3>2. Visited(j) = wraps \/ Visited(j) = wraps + 1
      BY <2>1 DEF Visited
    <3>3. Count(picked, line[j], 0) \in Nat
      BY <2>1, CountAppend
    <3> QED
      BY <2>1, <3>1, <3>2, <3>3
  <2>7. Count(picked, line[k], picked[i].part) \in Nat /\ Count(picked, line[j], 0) \in Nat
    BY <2>1, CountAppend
  <2> QED
    BY <2>1, <2>2, <2>3, <2>5, <2>6, <2>7, TimesIs
<1> QED
  BY <1>1, <1>2, <1>3, PTL DEF Spec

=============================================================================
