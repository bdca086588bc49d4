----------------------------- MODULE PackDataset -----------------------------
(***************************************************************************)
(* build_calibration_dataset: from the structured records of each domain   *)
(* to fixed-length rows for AWQ, GPTQ and KV-cache calibration, with the   *)
(* helpers it is made of: _domain_token_quotas, _document_token_segments,  *)
(* _calibration_units and _pack_calibration_units.                         *)
(*                                                                         *)
(* A text is the sequence of its paragraphs' token counts, and a stretch   *)
(* of text is a sequence of pieces <<paragraph, first, last>>.  Which      *)
(* order a seeded shuffle makes is left open.  The long_sequences branch   *)
(* is left out: no recipe that load_quantization_recipe accepts has it.    *)
(***************************************************************************)
EXTENDS Integers, Sequences, SequencesExt

CONSTANTS
    Record,     \* calibration records
    N,          \* the number of domains
    Pool,       \* Pool[i]: the records of the i-th domain
    Kind,       \* Kind[r]: "messages" or "document"
    Sizes,      \* Sizes[r]: tokens of each paragraph; of the whole chat
    SepTokens,  \* tokens of the blank line between two paragraphs
    Recipes     \* [budget, length, weight, whole, atLeast, outOf]: a domain's
                \* share is weight[i] / whole, the minimum ratio atLeast / outOf

Positive == Nat \ {0}
SumOf(s) == FoldLeft(LAMBDA a, b : a + b, 0, s)

\* load_calibration_records refuses an empty domain and an empty record.
ASSUME RecordsAssumption ==
    /\ N \in Positive
    /\ Pool \in [1..N -> (SUBSET Record) \ {{}}]
    /\ \A i \in 1..N : IsFiniteSet(Pool[i])
    /\ Kind \in [Record -> {"messages", "document"}]
    /\ Sizes \in [Record -> (Seq(Positive)) \ {<<>>}]
    /\ SepTokens \in Nat

\* What _validate_calibration demands of a recipe, the shares taken as exact.
ASSUME RecipesAssumption ==
    \A c \in Recipes :
        /\ c.budget \in Nat /\ c.budget >= N
        /\ c.length \in Positive
        /\ c.weight \in [1..N -> Positive] /\ c.whole = SumOf(c.weight)
        /\ c.whole \in Positive
        /\ c.atLeast \in Positive /\ c.outOf \in Positive

VARIABLES
    recipe,     \* the calibration section of the recipe
    phase,      \* the loop the program is in
    quota,      \* quota[i]: tokens wanted from the i-th domain
    spent,      \* the sum of the quotas so far
    at,         \* the domain being selected from
    line,       \* candidates: its records, shuffled
    cursor,     \* index into line of the next record
    wraps,      \* how often the candidates were started again
    rec,        \* the record at hand
    para,       \* its next paragraph
    seg,        \* its open segment
    units,      \* its units so far
    next,       \* index into units of the next one to select
    picked,     \* selected: the units this domain contributes
    total,      \* selected_tokens
    chosen,     \* selected_units: units of all domains, not yet packed
    row,        \* the row being filled
    rows,       \* the finished rows
    report      \* report[i]: tokens and wraps of the i-th domain

vars == <<recipe, phase, quota, spent, at, line, cursor, wraps, rec, para, seg,
          units, next, picked, total, chosen, row, rows, report>>
plan == <<recipe, quota, spent>>
queue == <<at, line, cursor, wraps>>
text == <<rec, para, seg>>
selection == <<picked, total>>
packing == <<chosen, row, rows>>

Limit == recipe.length
Blank == [pieces |-> <<>>, len |-> 0]
NoUnits == [units |-> <<>>, len |-> 0]

\* rec means nothing before the first record is read.
Init ==
    /\ recipe \in Recipes
    /\ phase = "quotas" /\ quota = <<>> /\ spent = 0
    /\ at = 1 /\ line = <<>> /\ cursor = 1 /\ wraps = 0
    /\ rec = (CHOOSE r \in Record : TRUE) /\ para = 1 /\ seg = Blank
    /\ units = <<>> /\ next = 1
    /\ picked = <<>> /\ total = 0
    /\ chosen = <<>> /\ row = NoUnits /\ rows = <<>>
    /\ report = <<>>

(***************************************************************************)
(* _domain_token_quotas                                                    *)
(***************************************************************************)
\* int(remaining * weight): the product of two floats that should be a whole
\* number may come out just below it.
Share(i) ==
    LET parts == (recipe.budget - N) * recipe.weight[i]
        exact == parts \div recipe.whole
    IN  IF parts % recipe.whole = 0 /\ exact > 0 THEN {exact, exact - 1} ELSE {exact}

AssignQuota ==
    /\ phase = "quotas"
    /\ \E q \in IF Len(quota) + 1 < N THEN {1 + s : s \in Share(Len(quota) + 1)}
                                      ELSE {recipe.budget - spent} :
          /\ quota' = Append(quota, q)
          /\ spent' = spent + q
    /\ phase' = IF Len(quota) + 1 = N THEN "domain" ELSE "quotas"
    /\ UNCHANGED <<recipe, queue, text, units, next, selection, packing, report>>

(***************************************************************************)
(* One domain after another: shuffled candidates, read until the quota is  *)
(* met or the candidates have run out twice                                *)
(***************************************************************************)
StartDomain ==
    /\ phase = "domain" /\ at <= N
    /\ line' \in SetToSeqs(Pool[at])
    /\ cursor' = 1 /\ wraps' = 0
    /\ picked' = <<>> /\ total' = 0
    /\ phase' = "records"
    /\ UNCHANGED <<plan, at, text, units, next, packing, report>>

More == total < quota[at] /\ wraps < 2

\* Fault: the candidates start again one record early.
AdvanceEarly ==
    LET again == cursor >= Len(line)
        i == IF again THEN 1 ELSE cursor
    IN  /\ rec' = line[i]
        /\ cursor' = i + 1
        /\ wraps' = IF again THEN wraps + 1 ELSE wraps

\* Fault: the second lap over the candidates is not counted.
AdvanceUncounted ==
    LET again == cursor > Len(line)
        i == IF again THEN 1 ELSE cursor
    IN  /\ rec' = line[i]
        /\ cursor' = i + 1
        /\ wraps' = wraps

\* The next record; after the last one the first again.
Advance ==
    LET again == cursor > Len(line)
        i == IF again THEN 1 ELSE cursor
    IN  /\ rec' = line[i]
        /\ cursor' = i + 1
        /\ wraps' = IF again THEN wraps + 1 ELSE wraps

NextRecord ==
    /\ phase = "records" /\ More
    /\ Advance
    /\ para' = 1 /\ seg' = Blank
    /\ units' = <<>> /\ next' = 1
    /\ phase' = IF Kind[rec'] = "document" THEN "paragraphs" ELSE "chat"
    /\ UNCHANGED <<plan, at, line, selection, packing, report>>

(***************************************************************************)
(* _calibration_units: a chat is one unit or is skipped, a document is cut *)
(* into segments at its blank lines                                        *)
(***************************************************************************)
Unit(part, s) == [rec |-> rec, part |-> part, pieces |-> s.pieces, len |-> s.len]

\* Appends segments to the units of the record at hand.
Yield(segments) ==
    units \o [i \in 1..Len(segments) |-> Unit(Len(units) + i - 1, segments[i])]

Chat ==
    /\ phase = "chat"
    /\ LET n == Sizes[rec][1] IN
         IF n > Limit
           THEN phase' = "records" /\ UNCHANGED units
           ELSE /\ units' = Yield(<<[pieces |-> <<<<1, 1, n>>>>, len |-> n]>>)
                /\ phase' = "units"
    /\ UNCHANGED <<plan, queue, text, next, selection, packing, report>>

Flush == IF seg = Blank THEN <<>> ELSE <<seg>>

\* A paragraph of n tokens that fits no row, cut every Limit tokens.
Chunks(p, n) ==
    [i \in 1..(n + Limit - 1) \div Limit |->
        LET from == (i - 1) * Limit + 1
            upto == IF i * Limit < n THEN i * Limit ELSE n
        IN  [pieces |-> <<<<p, from, upto>>>>, len |-> upto - from + 1]]

Extended(p, n) ==
    [pieces |-> Append(seg.pieces, <<p, 1, n>>),
     len |-> IF seg = Blank THEN n ELSE seg.len + SepTokens + n]

\* Fault: the open segment is not yielded before a paragraph that is cut.
ParagraphDropsOpen ==
    LET n == Sizes[rec][para] IN
    /\ phase = "paragraphs" /\ para <= Len(Sizes[rec])
    /\ para' = para + 1
    /\ \/ /\ n > Limit
          /\ units' = Yield(Chunks(para, n))
          /\ seg' = Blank
       \/ /\ n <= Limit /\ seg # Blank /\ Extended(para, n).len > Limit
          /\ units' = Yield(Flush)
          /\ seg' = [pieces |-> <<<<para, 1, n>>>>, len |-> n]
       \/ /\ n <= Limit /\ (seg = Blank \/ Extended(para, n).len <= Limit)
          /\ seg' = Extended(para, n)
          /\ UNCHANGED units
    /\ UNCHANGED <<plan, phase, queue, rec, next, selection, packing, report>>

Paragraph ==
    LET n == Sizes[rec][para] IN
    /\ phase = "paragraphs" /\ para <= Len(Sizes[rec])
    /\ para' = para + 1
    /\ \/ /\ n > Limit
          /\ units' = Yield(Flush \o Chunks(para, n))
          /\ seg' = Blank
       \/ /\ n <= Limit /\ seg # Blank /\ Extended(para, n).len > Limit
          /\ units' = Yield(Flush)
          /\ seg' = [pieces |-> <<<<para, 1, n>>>>, len |-> n]
       \/ /\ n <= Limit /\ (seg = Blank \/ Extended(para, n).len <= Limit)
          /\ seg' = Extended(para, n)
          /\ UNCHANGED units
    /\ UNCHANGED <<plan, phase, queue, rec, next, selection, packing, report>>

EndDocument ==
    /\ phase = "paragraphs" /\ para > Len(Sizes[rec])
    /\ units' = Yield(Flush)
    /\ seg' = Blank
    /\ phase' = "units"
    /\ UNCHANGED <<plan, queue, rec, para, next, selection, packing, report>>

\* Fault: all units of a record are taken, whatever the quota.
TakeUnitOfAll ==
    /\ phase = "units" /\ next <= Len(units)
    /\ picked' = Append(picked, units[next])
    /\ total' = total + units[next].len
    /\ next' = next + 1
    /\ phase' = IF next = Len(units) THEN "records" ELSE "units"
    /\ UNCHANGED <<plan, queue, text, units, packing, report>>

\* One unit; the rest of the record is left as soon as the quota is met.
TakeUnit ==
    /\ phase = "units" /\ next <= Len(units)
    /\ picked' = Append(picked, units[next])
    /\ total' = total + units[next].len
    /\ next' = next + 1
    /\ phase' = IF total' >= quota[at] \/ next = Len(units) THEN "records" ELSE "units"
    /\ UNCHANGED <<plan, queue, text, units, packing, report>>

\* The domain is done: too small a share of its quota is an error.
Gate ==
    /\ phase = "records" /\ ~More
    /\ IF total * recipe.outOf < recipe.atLeast * quota[at]
         THEN phase' = "failed" /\ UNCHANGED <<at, chosen, report>>
         ELSE /\ chosen' = chosen \o picked
              /\ report' = Append(report, [tokens |-> total, wraps |-> wraps])
              /\ at' = at + 1
              /\ phase' = IF at = N THEN "pack" ELSE "domain"
    /\ UNCHANGED <<plan, line, cursor, wraps, text, units, next, selection, row, rows>>

(***************************************************************************)
(* _pack_calibration_units, over the units in a shuffled order             *)
(***************************************************************************)
\* Fault: the separator is not counted against the row.
PackUnitTight ==
    /\ phase = "pack"
    /\ \E i \in 1..Len(chosen) :
          /\ chosen' = RemoveAt(chosen, i)
          /\ IF row # NoUnits /\ row.len + chosen[i].len > Limit
               THEN /\ rows' = Append(rows, row)
                    /\ row' = [units |-> <<chosen[i]>>, len |-> chosen[i].len]
               ELSE /\ row' = [units |-> Append(row.units, chosen[i]),
                               len |-> IF row = NoUnits THEN chosen[i].len
                                       ELSE row.len + 1 + chosen[i].len]
                    /\ UNCHANGED rows
    /\ UNCHANGED <<plan, phase, queue, text, units, next, selection, report>>

\* Units of one row are kept apart by one separator token.
PackUnit ==
    /\ phase = "pack"
    /\ \E i \in 1..Len(chosen) :
          /\ chosen' = RemoveAt(chosen, i)
          /\ IF row # NoUnits /\ row.len + 1 + chosen[i].len > Limit
               THEN /\ rows' = Append(rows, row)
                    /\ row' = [units |-> <<chosen[i]>>, len |-> chosen[i].len]
               ELSE /\ row' = [units |-> Append(row.units, chosen[i]),
                               len |-> IF row = NoUnits THEN chosen[i].len
                                       ELSE row.len + 1 + chosen[i].len]
                    /\ UNCHANGED rows
    /\ UNCHANGED <<plan, phase, queue, text, units, next, selection, report>>

\* Fault: the row that is being filled when the units end is lost.
LastRowLost ==
    /\ phase = "pack" /\ chosen = <<>>
    /\ row' = NoUnits
    /\ phase' = "done"
    /\ UNCHANGED <<plan, queue, text, units, next, selection, chosen, rows, report>>

LastRow ==
    /\ phase = "pack" /\ chosen = <<>>
    /\ rows' = IF row # NoUnits THEN Append(rows, row) ELSE rows
    /\ row' = NoUnits
    /\ phase' = "done"
    /\ UNCHANGED <<plan, queue, text, units, next, selection, chosen, report>>

Select == StartDomain \/ NextRecord \/ Chat \/ Paragraph \/ EndDocument \/ TakeUnit \/ Gate
Pack == PackUnit \/ LastRow

Quiet == phase \in {"done", "failed"} /\ UNCHANGED vars

Next == AssignQuota \/ Select \/ Pack \/ Quiet

\* One program that nothing waits for: it runs as long as it can take a step.
Spec == Init /\ [][Next]_vars
FairSpec == Spec /\ WF_vars(AssignQuota \/ Select \/ Pack)

-----------------------------------------------------------------------------
(***************************************************************************)
(* Properties                                                              *)
(***************************************************************************)
Piece == Nat \X Nat \X Nat
Segments == [pieces : Seq(Piece), len : Nat]
Units == [rec : Record, part : Nat, pieces : Seq(Piece), len : Nat]
Rows == [units : Seq(Units), len : Nat]

\* Every variable holds a value of the program.
TypeOK ==
    /\ recipe \in Recipes
    /\ phase \in {"quotas", "domain", "records", "chat", "paragraphs", "units",
                  "pack", "done", "failed"}
    /\ quota \in Seq(Int) /\ spent \in Int
    /\ at \in 1..N + 1 /\ line \in Seq(Record) /\ cursor \in Positive /\ wraps \in 0..2
    /\ rec \in Record /\ para \in Positive /\ seg \in Segments
    /\ units \in Seq(Units) /\ next \in Positive
    /\ picked \in Seq(Units) /\ total \in Nat
    /\ chosen \in Seq(Units) /\ row \in Rows /\ rows \in Seq(Rows)
    /\ report \in Seq([tokens : Nat, wraps : 0..2])

Tokens(us) == SumOf([i \in DOMAIN us |-> us[i].len])

\* The pieces are paragraphs 1 to upto of the record at hand, token after
\* token, without a gap and without a repetition.
Reads(pieces, upto) ==
    IF pieces = <<>> THEN upto = 0 ELSE
      /\ pieces[1][1] = 1 /\ pieces[1][2] = 1
      /\ Last(pieces)[1] = upto /\ Last(pieces)[3] = Sizes[rec][upto]
      /\ \A i \in 1..Len(pieces) - 1 :
            LET p == pieces[i]
                q == pieces[i + 1]
            IN  \/ q[1] = p[1] /\ q[2] = p[3] + 1
                \/ p[3] = Sizes[rec][p[1]] /\ q[1] = p[1] + 1 /\ q[2] = 1

LengthOf(pieces) ==
    SumOf([i \in DOMAIN pieces |-> pieces[i][3] - pieces[i][2] + 1])
      + SepTokens * (Len(pieces) - 1)

\* Cutting a record into units loses no token, repeats none and keeps their
\* order, and a unit is as long as its paragraphs and the blank lines between
\* them (_document_token_segments, _calibration_units).
CutsKeepTheText ==
    /\ phase \in {"paragraphs", "units"} =>
          Reads(FlattenSeq([i \in DOMAIN units |-> units[i].pieces]) \o seg.pieces,
                IF Kind[rec] = "document" THEN para - 1 ELSE 1)
    /\ \A i \in DOMAIN units : /\ units[i].part = i - 1
                               /\ units[i].len = LengthOf(units[i].pieces)

\* Packing neither loses nor repeats a token of the selection, and what a row
\* holds besides its units is one separator between two of them: the reported
\* packed, separator and padding tokens add up (_pack_calibration_units).
PackingKeepsTokens ==
    /\ phase \in {"pack", "done"} =>
          Tokens(chosen) + Tokens(row.units) + SumOf([i \in DOMAIN rows |-> Tokens(rows[i].units)])
            = SumOf([i \in DOMAIN report |-> report[i].tokens])
    /\ \A i \in DOMAIN rows : rows[i].len = Tokens(rows[i].units) + Len(rows[i].units) - 1

\* From the records to the rows no token is lost, repeated or moved, and the
\* reported packed, separator and padding tokens add up.
TextIsKept == CutsKeepTheText /\ PackingKeepsTokens

\* No row and no unit is longer than the sequence length, separators counted:
\* nothing is ever truncated (_calibration_units, _pack_calibration_units).
RowsFit ==
    /\ \A i \in DOMAIN units : units[i].len <= Limit
    /\ row.len <= Limit
    /\ \A i \in DOMAIN rows : rows[i].len <= Limit

\* The quotas are a split of the token budget, and a dataset is only built
\* when every domain has met the required share of its quota and has overshot
\* it by less than one unit (_domain_token_quotas, build_calibration_dataset).
BudgetMet ==
    phase \in {"pack", "done"} =>
        /\ SumOf(quota) = recipe.budget
        /\ \A i \in 1..N :
              /\ quota[i] >= 1
              /\ report[i].tokens * recipe.outOf >= recipe.atLeast * quota[i]
              /\ report[i].tokens < quota[i] + Limit

Packable == {r \in ToSet(line) : Kind[r] = "document" \/ Sizes[r][1] <= Limit}

Times(r, part) ==
    Cardinality({i \in DOMAIN picked : picked[i].rec = r /\ picked[i].part = part})

\* A unit is used again only after every record that can be packed has been
\* used as often: the calibration set of a domain is as diverse as its
\* candidates allow (the wrap-around of build_calibration_dataset).
ReuseComesLast ==
    \A i \in DOMAIN picked, r \in Packable :
        Times(r, 0) >= Times(picked[i].rec, picked[i].part) - 1

\* The selection ends, even when no candidate fits into a row.
Terminates == <>(phase \in {"done", "failed"})

=============================================================================
