-------------------------- MODULE CalibrationRecords --------------------------
(***************************************************************************)
(* The life of one calibration record: extracted from a dataset row,       *)
(* validated as part of the parent corpus, stripped, segmented and         *)
(* deduplicated for a target tokenizer, and read back by a quantizer.      *)
(*                                                                         *)
(* A text is a sequence of symbols: words, Special (a special token of the *)
(* target tokenizer), Para (the white space between paragraphs or          *)
(* sentences) and Line (a Unicode line separator).  Every symbol is one    *)
(* token and one character, as in the fake tokenizer of the tests.         *)
(***************************************************************************)
EXTENDS Naturals, Sequences, SequencesExt, FiniteSetsExt

CONSTANTS
    Word, Special, Para, Line,
    Role,           \* ROLE_ALIASES: Role[name] is the normalized role
    MinContent,     \* MIN_CONTENT_CHARS
    MaxTokens,      \* --max-document-tokens
    Shingle,        \* words in a fingerprint feature
    Samples,        \* positions of a text a fingerprint looks at, at most
    Sketch,         \* digests a fingerprint keeps, at most
    Hash(_),        \* the digest of a feature, a number
    Schema,         \* Schema[source]: [domain, extractor, merge] of SOURCES
    None, Error     \* no record; an exception

Text == Seq(Word \cup {Special, Para, Line})
Extractors == {"messages", "prompt_response", "document", "tagged_tool_chat"}

ASSUME RecordAssumption ==
    /\ MaxTokens \in Nat \ {0} /\ Shingle \in Nat \ {0}
    /\ Samples \in Nat \ {0, 1} /\ Sketch \in Nat \ {0}
    /\ \A s \in DOMAIN Schema : Schema[s].extractor \in Extractors

\* The rows a corpus is made of: an extractor raises on any other one, and
\* the extraction it is part of fails.
IsChat(row) ==
    row.messages # None /\ row.messages \in Seq([role : DOMAIN Role, content : Text])
GoodRow(row, source) ==
    CASE Schema[source].extractor = "document" -> row.text \in Text
      [] Schema[source].extractor = "messages" -> row.system \in Seq(Text) /\ IsChat(row)
      [] Schema[source].extractor = "tagged_tool_chat" ->
            row.system \in Seq(Text) /\ IsChat(row) /\ row.messages # <<>>
      [] Schema[source].extractor = "prompt_response" ->
            /\ row.system \in Seq(Text) /\ row.prompts \in Seq(Text)
            /\ row.responses \in Seq(Text)

(***************************************************************************)
(* Parts of sequences, and sums                                            *)
(***************************************************************************)
\* The k-th of a set of positions, and what a sequence has at those.
Nth(S, k) == CHOOSE i \in S : Cardinality(S \cap (1..i)) = k
At(s, S) == [k \in 1..Cardinality(S) |-> s[Nth(S, k)]]
Where(s, Holds(_)) == At(s, {i \in DOMAIN s : Holds(s[i])})

Sum(f) == FoldFunction(+, 0, f)

Strip(text) ==
    LET ink == {i \in DOMAIN text : text[i] \notin {Para, Line}}
    IN  IF ink = {} THEN <<>> ELSE SubSeq(text, Min(ink), Max(ink))

Inked(text) == Strip(text) # <<>>

Join(texts) ==
    FoldLeft(LAMBDA all, text : IF all = <<>> THEN text ELSE all \o <<Para>> \o text,
             <<>>, texts)

Texts(fields) == LET inked == Where(fields, Inked)
                 IN  [i \in DOMAIN inked |-> Strip(inked[i])]

(***************************************************************************)
(* Extraction                                                              *)
(***************************************************************************)
Message(role, text) == [role |-> role, content |-> Strip(text)]
Conversation(body) == IF body = <<>> THEN None ELSE [kind |-> "messages", body |-> body]

SystemMessages(row) ==
    IF Texts(row.system) = <<>> THEN <<>>
    ELSE <<Message("system", Join(Texts(row.system)))>>

\* One system message for the leading ones.
MergeLeadingSystem(body) ==
    LET others == {i \in DOMAIN body : body[i].role # "system"}
        count == IF others = {} THEN Len(body) ELSE Min(others) - 1
    IN  IF count <= 1 THEN body
        ELSE <<Message("system", Join([i \in 1..count |-> body[i].content]))>>
             \o SubSeq(body, count + 1, Len(body))

\* The messages said, each with its normalized role; unknown roles raise.
Said(row) == Where(row.messages, LAMBDA m : Inked(m.content))
Normalized(said) == [i \in DOMAIN said |-> Message(Role[said[i].role], said[i].content)]

ExtractMessages(row, merge) ==
    LET body == SystemMessages(row) \o Normalized(Said(row))
    IN  IF row.messages = None \/ \E i \in DOMAIN Said(row) : Said(row)[i].role \notin DOMAIN Role
        THEN Error
        ELSE Conversation(IF merge THEN MergeLeadingSystem(body) ELSE body)

ExtractPromptResponse(row) ==
    IF Texts(row.prompts) = <<>> \/ Texts(row.responses) = <<>> THEN None
    ELSE Conversation(SystemMessages(row)
             \o <<Message("user", Join(Texts(row.prompts))),
                  Message("assistant", Head(Texts(row.responses)))>>)

ExtractDocument(row) ==
    IF Inked(row.text) THEN [kind |-> "document", body |-> <<Message(None, row.text)>>]
    ELSE None

\* The chat is cut at its role markers; one without any raises.
ExtractTaggedToolChat(row) ==
    IF row.messages = <<>> THEN Error
    ELSE Conversation(SystemMessages(row) \o Normalized(Said(row)))

Extract(row, source) ==
    CASE Schema[source].extractor = "messages"         -> ExtractMessages(row, Schema[source].merge)
      [] Schema[source].extractor = "prompt_response"  -> ExtractPromptResponse(row)
      [] Schema[source].extractor = "document"         -> ExtractDocument(row)
      [] Schema[source].extractor = "tagged_tool_chat" -> ExtractTaggedToolChat(row)

(***************************************************************************)
(* Identity: the payload is what is left of white space at both ends, and  *)
(* an id names the source, the segment and the payload.                    *)
(***************************************************************************)
Payload(record) == [i \in DOMAIN record.body |->
    [record.body[i] EXCEPT !.content = IF record.kind = "document" THEN Strip(@) ELSE @]]

\* Characters of the payload; a role counts as one.
PayloadLength(record) ==
    Sum([i \in DOMAIN record.body |-> Len(Payload(record)[i].content)
                                      + IF record.kind = "document" THEN 0 ELSE 1])

Identified(record, segment) ==
    [record EXCEPT !.id = <<record.source, segment, Payload(record)>>]

RecordOf(row, source) ==
    Identified([source |-> source, domain |-> Schema[source].domain, id |-> None,
                kind |-> Extract(row, source).kind, body |-> Extract(row, source).body], 0)

\* The records of a corpus in source order: rows without text are left out.
ParentRecords(rows) ==
    LET good == Where(rows, LAMBDA r : Extract(r.row, r.source) # None)
        records == [i \in DOMAIN good |-> RecordOf(good[i].row, good[i].source)]
    IN  Where(records, LAMBDA r : PayloadLength(r) >= MinContent)

\* The validation a corpus passes whenever it is loaded.
ValidCorpusRecord(record) ==
    /\ record.domain = Schema[record.source].domain
    /\ record.body # <<>>
    /\ \A i \in DOMAIN record.body : record.body[i].content # <<>>
    /\ record.id = Identified(record, 0).id

(***************************************************************************)
(* Adapting the records to the target tokenizer                            *)
(***************************************************************************)
StripSpecialTokens(record) ==
    LET clean(text) == Strip(Where(text, LAMBDA s : s # Special))
        cleaned == [i \in DOMAIN record.body |->
                       [record.body[i] EXCEPT !.content = clean(@)]]
    IN  [record EXCEPT !.body = cleaned]

SplitUnits(text) ==
    LET cut == FoldLeft(LAMBDA units, s : IF s = Para THEN Append(units, <<>>)
                            ELSE Append(Front(units), Append(Last(units), s)),
                        <<(<<>>)>>, text)
    IN  Texts(cut)

Chunks(unit) ==
    [i \in 1..((Len(unit) + MaxTokens - 1) \div MaxTokens) |->
        Strip(SubSeq(unit, (i - 1) * MaxTokens + 1, Min({i * MaxTokens, Len(unit)})))]

\* Units gathered greedily into segments of at most MaxTokens tokens.
Segments(text) ==
    LET flush(acc) == IF acc.current = <<>> THEN acc.done ELSE Append(acc.done, acc.current)
        take(acc, unit) ==
            IF Len(unit) > MaxTokens
            THEN [done |-> flush(acc) \o Chunks(unit), current |-> <<>>]
            ELSE IF acc.current # <<>> /\ Len(acc.current) + 1 + Len(unit) > MaxTokens
            THEN [done |-> flush(acc), current |-> unit]
            ELSE [acc EXCEPT !.current = Join(<<@, unit>>)]
    IN  flush(FoldLeft(take, [done |-> <<>>, current |-> <<>>], SplitUnits(text)))

SegmentDocument(record) ==
    LET text == record.body[1].content
        child(i) == [record EXCEPT !.body = <<Message(None, Segments(text)[i])>>]
    IN  IF record.kind # "document" \/ Len(text) <= MaxTokens THEN <<Identified(record, 0)>>
        ELSE [i \in DOMAIN Segments(text) |-> Identified(child(i), i - 1)]

TargetRecords(parents) ==
    LET stripped == [i \in DOMAIN parents |-> StripSpecialTokens(parents[i])]
        kept == Where(stripped, LAMBDA r : PayloadLength(r) >= MinContent)
    IN  FlattenSeq([i \in DOMAIN kept |-> SegmentDocument(kept[i])])

\* Rendered tokens; a role heading counts as one.
Tokens(record) == PayloadLength(record)
TokensOf(records) == Sum([i \in DOMAIN records |-> Tokens(records[i])])

(***************************************************************************)
(* Deduplication: a record is dropped when its fingerprint shares four     *)
(* fifths of the smaller one with a record accepted before it.  (Equal     *)
(* texts have equal fingerprints.)  A fingerprint is a sketch: of the      *)
(* features, Shingle words in a row, those at Samples places spread over   *)
(* the text are digested and the Sketch smallest digests kept, so only     *)
(* texts small enough are compared by all their features.                  *)
(***************************************************************************)
NearKey(record) ==
    LET said == Payload(record)
    IN  FlattenSeq([i \in DOMAIN said |->
            (IF record.kind = "document" THEN <<>> ELSE <<said[i].role>>)
            \o Where(said[i].content, LAMBDA s : s \notin {Para, Line})])

\* Where the features of a text of so many words begin, and where those begin
\* that are looked at.
Starts(words) == 1..Max({1, words - Shingle + 1})
Sampled(words) ==
    IF Max(Starts(words)) <= Samples THEN Starts(words)
    ELSE {1 + (((i - 1) * (Max(Starts(words)) - 1)) \div (Samples - 1)) : i \in 1..Samples}

Digests(key, starts) ==
    {Hash(SubSeq(key, i, Min({i + Shingle - 1, Len(key)}))) : i \in starts}
Smallest(hashes) == {h \in hashes : Cardinality({k \in hashes : k <= h}) <= Sketch}

AllDigests(record) == Digests(NearKey(record), Starts(Len(NearKey(record))))
Fingerprint(record) == Smallest(Digests(NearKey(record), Sampled(Len(NearKey(record)))))

Alike(fa, fb) == 5 * Cardinality(fa \cap fb) >= 4 * Min({Cardinality(fa), Cardinality(fb)})
Similar(a, b) == Alike(Fingerprint(a), Fingerprint(b))

Deduplicate(records) ==
    FoldLeft(LAMBDA accepted, r :
                 IF \E i \in DOMAIN accepted : Similar(r, accepted[i]) THEN accepted
                 ELSE Append(accepted, r),
             <<>>, records)

(***************************************************************************)
(* Token budgets: the shortest prefix that reaches the target.             *)
(***************************************************************************)
\* Fault: the target has to be met exactly.
TakeExactly(records, target) ==
    LET enough == {n \in 0..Len(records) : TokensOf(SubSeq(records, 1, n)) = target}
    IN  IF enough = {} THEN Error ELSE SubSeq(records, 1, Min(enough))

TakeToTokenBudget(records, target) ==
    LET enough == {n \in 0..Len(records) : TokensOf(SubSeq(records, 1, n)) >= target}
    IN  IF enough = {} THEN Error ELSE SubSeq(records, 1, Min(enough))

Without(records, others) == Where(records, LAMBDA r :
    r.id \notin {others[i].id : i \in DOMAIN others})

(***************************************************************************)
(* load_calibration_records: one line per record.  str.splitlines cuts a   *)
(* line at Line too, which JSON does not escape, and a cut line is no JSON.*)
(***************************************************************************)
ReadableLine(record) ==
    \A i \in DOMAIN record.body : \A j \in DOMAIN record.body[i].content :
        record.body[i].content[j] # Line

ValidPayload(record) ==
    record.body # <<>> /\ \A i \in DOMAIN record.body : Inked(record.body[i].content)

LoadableRecords(files, domains) ==
    /\ \A d \in domains : files[d] # <<>> /\ \A i \in DOMAIN files[d] :
        /\ ReadableLine(files[d][i])
        /\ files[d][i].domain = d
        /\ ValidPayload(files[d][i])
    /\ \A d, e \in domains : \A i \in DOMAIN files[d], j \in DOMAIN files[e] :
        files[d][i].id = files[e][j].id => d = e /\ i = j

===============================================================================
