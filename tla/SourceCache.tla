----------------------------- MODULE SourceCache -----------------------------
(***************************************************************************)
(* The extraction loop of build_corpus: load_source for every pinned       *)
(* source in turn, and the per-source cache beneath it that survives an    *)
(* interrupted build and is shared by every run on the machine.            *)
(*                                                                         *)
(* A cache entry is two files, the records and a manifest, each replaced   *)
(* atomically but one after the other and without a lock.  Its key is the  *)
(* source definition and the seed.  The caps, minimums and shuffle buffer  *)
(* a source does not define for itself are constants of the module, and    *)
(* two runs started from two checkouts may have different ones.            *)
(*                                                                         *)
(* A pinned revision and the shuffle seeds decide the rows a run reads     *)
(* (Stream); SHA-256 tells record files apart by their contents.           *)
(***************************************************************************)
EXTENDS Naturals, Sequences, FiniteSets

CONSTANTS
    Run,        \* build_corpus calls that have to extract
    Source,     \* the entries of SOURCES, in the order of Order
    Order,
    Seed,       \* --seed values
    Defaults,   \* values of the DEFAULT_* constants: [cap, least, buffer]
    Own,        \* Own[s]: what source s defines for itself, None where not
    Row,        \* dataset rows
    Kind,       \* Kind[row]: "good", "empty" (or too short), "bad" (mismatch)
    Stream,     \* Stream[s, seed, buffer]: the shuffled rows of a source
    Before,     \* entries an earlier build may have left: <<source, seed, defaults>>
    None,
    Garbage     \* file contents cut short or overwritten

ASSUME OrderAssumption ==
    /\ Order \in Seq(Source)
    /\ Source = {Order[i] : i \in 1..Len(Order)}
    /\ Len(Order) = Cardinality(Source)
    /\ Len(Order) > 0

Key == Source \X Seed

VARIABLES
    data,       \* data[k]: <key>.jsonl
    manifest,   \* manifest[k]: <key>.manifest.json
    temps,      \* temporary files in the cache directory: <<run, which>>
    seed,       \* seed[r]: the --seed of run r
    config,     \* config[r]: the defaults of the checkout r was started from
    pc,         \* pc[r]: the next step of r
    at,         \* at[r]: the position in Order of the source r is loading
    held,       \* held[r]: the record file as r read it from the cache
    work,       \* work[r]: what r has extracted from the dataset so far
    got,        \* got[r][s]: what load_source returned to r for s, or None
    loaded      \* history: loaded[r], the sources r read from their dataset

vars == <<data, manifest, temps, seed, config, pc, at, held, work, got, loaded>>
cache == <<data, manifest, temps>>
args == <<seed, config>>

Ended == {"built", "failed", "leaked", "crashed"}
Goto(r, step) == pc' = [pc EXCEPT ![r] = step]

Current(r) == Order[at[r]]
KeyOf(r) == <<Current(r), seed[r]>>

\* source.get(field, DEFAULT_...)
Setting(s, d, field) == IF Own[s][field] # None THEN Own[s][field] ELSE d[field]

\* Caps and minimums are counts (the constants and SOURCES), and what is read
\* of a broken file is neither the records nor the manifest of an entry.
Manifest == [sha : Seq(Row), stats : [rows : Nat, empty : Nat, records : Nat]]

ASSUME SourcesAssumption ==
    /\ \A s \in Source, d \in Defaults :
          /\ Setting(s, d, "cap") \in Nat /\ Setting(s, d, "least") \in Nat
          /\ \A sd \in Seed : Stream[<<s, sd, Setting(s, d, "buffer")>>] \in Seq(Row)
    /\ Before \subseteq Source \X Seed \X Defaults
    /\ {None, Garbage} \cap Seq(Row) = {} /\ {None, Garbage} \cap Manifest = {}

Cap(r) == Setting(Current(r), config[r], "cap")
Least(r) == Setting(Current(r), config[r], "least")
Rows(r) == Stream[<<Current(r), seed[r], Setting(Current(r), config[r], "buffer")>>]

(***************************************************************************)
(* What an extraction is, by definition: the shortest run of rows that     *)
(* holds cap good ones, or all rows, and the good ones among them.         *)
(***************************************************************************)
\* The n-th of a set of positions.
Nth(hits, n) == CHOOSE i \in hits : Cardinality(hits \cap (1..i)) = n

Good(rows) ==
    LET hits == {i \in DOMAIN rows : Kind[rows[i]] = "good"}
    IN  [n \in 1..Cardinality(hits) |-> rows[Nth(hits, n)]]

Prefix(rows, cap) ==
    LET full == {n \in 0..Len(rows) :
                    cap # 0 /\ Len(Good(SubSeq(rows, 1, n))) = cap}
    IN  IF full = {} THEN rows
        ELSE SubSeq(rows, 1, CHOOSE n \in full : \A m \in full : n <= m)

Extraction(s, sd, d) ==
    LET taken == Prefix(Stream[<<s, sd, Setting(s, d, "buffer")>>], Setting(s, d, "cap"))
        good == Good(taken)
    IN  [records |-> good,
         stats |-> [rows |-> Len(taken), empty |-> Len(taken) - Len(good),
                    records |-> Len(good)]]

\* The extraction of s under sd and d succeeds.
Yields(s, sd, d) ==
    LET rows == Stream[<<s, sd, Setting(s, d, "buffer")>>]
        taken == Prefix(rows, Setting(s, d, "cap"))
    IN  /\ \A i \in 1..Len(taken) : Kind[taken[i]] # "bad"
        /\ Len(Good(taken)) >= Setting(s, d, "least")

(***************************************************************************)
(* The state and the steps                                                 *)
(***************************************************************************)
Nothing == [records |-> <<>>, rows |-> 0, empty |-> 0]
StatsOf(w) == [rows |-> w.rows, empty |-> w.empty, records |-> Len(w.records)]

\* The cache starts empty, or with an entry that an earlier build finished.
Init ==
    /\ \/ /\ data = [k \in Key |-> None]
          /\ manifest = [k \in Key |-> None]
       \/ \E b \in Before : LET x == Extraction(b[1], b[2], b[3]) IN
          /\ Yields(b[1], b[2], b[3])
          /\ data = [k \in Key |-> IF k = <<b[1], b[2]>> THEN x.records ELSE None]
          /\ manifest = [k \in Key |-> IF k = <<b[1], b[2]>>
                            THEN [sha |-> x.records, stats |-> x.stats] ELSE None]
    /\ temps = {}
    /\ seed \in [Run -> Seed]
    /\ config \in [Run -> Defaults]
    /\ pc = [r \in Run |-> "enter"]
    /\ at = [r \in Run |-> 1]
    /\ held = [r \in Run |-> None]
    /\ work = [r \in Run |-> Nothing]
    /\ got = [r \in Run |-> [s \in Source |-> None]]
    /\ loaded = [r \in Run |-> {}]

\* load_source refuses a cap below the minimum before it looks at the cache.
Enter(r) ==
    /\ pc[r] = "enter"
    /\ Goto(r, IF Cap(r) # 0 /\ Cap(r) < Least(r) THEN "failed" ELSE "data?")
    /\ UNCHANGED <<cache, args, at, held, work, got, loaded>>

(***************************************************************************)
(* _load_source_cache                                                      *)
(***************************************************************************)
ReadData(r) ==
    /\ pc[r] = "data?"
    /\ held' = [held EXCEPT ![r] = data[KeyOf(r)]]
    /\ Goto(r, IF data[KeyOf(r)] = None THEN "load" ELSE "manifest?")
    /\ UNCHANGED <<cache, args, at, work, got, loaded>>

\* Fault: the hash in the manifest is not compared with the records read.
MatchesPolicyOnly(m, records) == m \notin {None, Garbage} /\ records # Garbage

\* Does a manifest describe these records?
Matches(m, records) ==
    /\ m \notin {None, Garbage}
    /\ m.sha = records
    /\ m.stats.records = Len(records)

\* load_source returns answer for the current source, and the loop of
\* build_corpus goes on to the next one.
Return(r, answer) ==
    /\ got' = [got EXCEPT ![r][Current(r)] = answer]
    /\ IF at[r] = Len(Order)
         THEN Goto(r, "built") /\ UNCHANGED at
         ELSE Goto(r, "enter") /\ at' = [at EXCEPT ![r] = at[r] + 1]
    /\ held' = [held EXCEPT ![r] = None]
    /\ work' = [work EXCEPT ![r] = Nothing]

Hit(r) ==
    /\ pc[r] = "manifest?"
    /\ Matches(manifest[KeyOf(r)], held[r])
    /\ Return(r, [records |-> held[r], stats |-> manifest[KeyOf(r)].stats])
    /\ UNCHANGED <<cache, args, loaded>>

\* A missing, malformed or different manifest: the entry is not used.
Miss(r) ==
    /\ pc[r] = "manifest?"
    /\ ~Matches(manifest[KeyOf(r)], held[r])
    /\ held' = [held EXCEPT ![r] = None]
    /\ Goto(r, "load")
    /\ UNCHANGED <<cache, args, at, work, got, loaded>>

(***************************************************************************)
(* The extraction loop of load_source                                      *)
(***************************************************************************)
Load(r) ==
    /\ pc[r] = "load"
    /\ loaded' = [loaded EXCEPT ![r] = @ \union {Current(r)}]
    /\ Goto(r, "rows")
    /\ UNCHANGED <<cache, args, at, held, work, got>>

LoadFails(r) ==
    /\ pc[r] = "load"
    /\ Goto(r, "failed")
    /\ UNCHANGED <<cache, args, at, held, work, got, loaded>>

\* One row: counted as empty, or appended; the loop ends at the cap.
ReadRow(r) ==
    LET w == work[r]
        row == Rows(r)[w.rows + 1]
        full == Cap(r) # 0 /\ Len(w.records) + 1 >= Cap(r)
    IN  /\ pc[r] = "rows"
        /\ w.rows < Len(Rows(r))
        /\ \/ /\ Kind[row] = "good"
              /\ work' = [work EXCEPT ![r].rows = @ + 1, ![r].records = Append(@, row)]
              /\ Goto(r, IF full THEN "enough?" ELSE "rows")
           \/ /\ Kind[row] = "empty"
              /\ work' = [work EXCEPT ![r].rows = @ + 1, ![r].empty = @ + 1]
              /\ UNCHANGED pc
           \/ /\ Kind[row] = "bad"
              /\ Goto(r, "failed")
              /\ UNCHANGED work
        /\ UNCHANGED <<cache, args, at, held, got, loaded>>

EndOfRows(r) ==
    /\ pc[r] = "rows"
    /\ work[r].rows = Len(Rows(r))
    /\ Goto(r, "enough?")
    /\ UNCHANGED <<cache, args, at, held, work, got, loaded>>

\* The stream breaks in the middle: the exception ends the build.
RowsFail(r) ==
    /\ pc[r] = "rows"
    /\ Goto(r, "failed")
    /\ UNCHANGED <<cache, args, at, held, work, got, loaded>>

CheckMinimum(r) ==
    /\ pc[r] = "enough?"
    /\ Goto(r, IF Len(work[r].records) < Least(r) THEN "failed" ELSE "data")
    /\ UNCHANGED <<cache, args, at, held, work, got, loaded>>

(***************************************************************************)
(* _write_source_cache                                                     *)
(***************************************************************************)
\* Fault: the record file is written in place instead of beside it.
StageDataInPlace(r) ==
    /\ pc[r] = "data"
    /\ data' = [data EXCEPT ![KeyOf(r)] = Garbage]
    /\ temps' = temps \union {<<r, "data">>}
    /\ Goto(r, "data!")
    /\ UNCHANGED <<manifest, args, at, held, work, got, loaded>>

\* A temporary file with the records, and then its rename over the entry's.
StageData(r) ==
    /\ pc[r] = "data"
    /\ temps' = temps \union {<<r, "data">>}
    /\ Goto(r, "data!")
    /\ UNCHANGED <<data, manifest, args, at, held, work, got, loaded>>

SwapData(r) ==
    /\ pc[r] = "data!"
    /\ data' = [data EXCEPT ![KeyOf(r)] = work[r].records]
    /\ temps' = temps \ {<<r, "data">>}
    /\ Goto(r, "manifest")
    /\ UNCHANGED <<manifest, args, at, held, work, got, loaded>>

StageManifest(r) ==
    /\ pc[r] = "manifest"
    /\ temps' = temps \union {<<r, "manifest">>}
    /\ Goto(r, "manifest!")
    /\ UNCHANGED <<data, manifest, args, at, held, work, got, loaded>>

SwapManifest(r) ==
    /\ pc[r] = "manifest!"
    /\ manifest' = [manifest EXCEPT ![KeyOf(r)] =
            [sha |-> work[r].records, stats |-> StatsOf(work[r])]]
    /\ temps' = temps \ {<<r, "manifest">>}
    /\ Return(r, [records |-> work[r].records, stats |-> StatsOf(work[r])])
    /\ UNCHANGED <<data, args, loaded>>

\* The write into a temporary file fails before the code has noted its name:
\* the finally clause does not know the file, and it stays.
StageFails(r) ==
    /\ pc[r] \in {"data", "manifest"}
    /\ temps' = temps \union {<<r, pc[r]>>}
    /\ Goto(r, "leaked")
    /\ UNCHANGED <<data, manifest, args, at, held, work, got, loaded>>

\* Fault: a rename that fails leaves its temporary file behind.
SwapFailsKeepsTemp(r) ==
    /\ pc[r] \in {"data!", "manifest!"}
    /\ Goto(r, "failed")
    /\ UNCHANGED <<cache, args, at, held, work, got, loaded>>

\* The directory, a temporary file or the rename is refused: nothing stays.
SwapFails(r) ==
    /\ pc[r] \in {"data", "data!", "manifest", "manifest!"}
    /\ temps' = {t \in temps : t[1] # r}
    /\ Goto(r, "failed")
    /\ UNCHANGED <<data, manifest, args, at, held, work, got, loaded>>

Crash(r) ==
    /\ pc[r] \notin Ended
    /\ Goto(r, "crashed")
    /\ UNCHANGED <<cache, args, at, held, work, got, loaded>>

\* The code never syncs the cache: a power loss, or a disk error, leaves a
\* file of an entry empty or cut short.
Damage(k) ==
    /\ \/ data[k] \notin {None, Garbage} /\ data' = [data EXCEPT ![k] = Garbage]
                                         /\ UNCHANGED manifest
       \/ manifest[k] \notin {None, Garbage}
            /\ manifest' = [manifest EXCEPT ![k] = Garbage]
            /\ UNCHANGED data
    /\ UNCHANGED <<temps, args, pc, at, held, work, got, loaded>>

Lookup(r) == Enter(r) \/ ReadData(r) \/ Hit(r) \/ Miss(r)

Extract(r) ==
    \/ Load(r) \/ LoadFails(r)
    \/ ReadRow(r) \/ EndOfRows(r) \/ RowsFail(r)
    \/ CheckMinimum(r)

Write(r) ==
    \/ StageData(r) \/ SwapData(r)
    \/ StageManifest(r) \/ SwapManifest(r)
    \/ StageFails(r) \/ SwapFails(r)

Step(r) == Lookup(r) \/ Extract(r) \/ Write(r)

Quiet ==
    /\ \A r \in Run : pc[r] \in Ended
    /\ UNCHANGED vars

Next ==
    \/ \E r \in Run : Step(r) \/ Crash(r)
    \/ \E k \in Key : Damage(k)
    \/ Quiet

Spec == Init /\ [][Next]_vars

-----------------------------------------------------------------------------
(***************************************************************************)
(* Properties                                                              *)
(***************************************************************************)
\* What load_source returns is one whole extraction of the run's own source
\* and seed, with the statistics of that extraction: by the run's own caps,
\* minimums and shuffle when it read the dataset, and by those of some build
\* when it came from a cache that other runs are writing, that a crash left
\* half written or that lost a file (_load_source_cache, _write_source_cache
\* and the loop of load_source).
AnswersAreExtractions ==
    \A r \in Run, s \in Source : got[r][s] # None =>
        \E d \in IF s \in loaded[r] THEN {config[r]}
                 ELSE {b[3] : b \in Before} \union {config[q] : q \in Run} :
            /\ Yields(s, seed[r], d)
            /\ got[r][s] = Extraction(s, seed[r], d)

\* A temporary file belongs to a run that is about to rename it, to one that
\* died, or to one whose write into it failed (the finally of
\* _write_source_cache; the last case is the one it does not cover).
TempsAccounted ==
    \A t \in temps : pc[t[1]] \in {"crashed", "leaked"}
                        \/ (pc[t[1]] = "data!" /\ t[2] = "data")
                        \/ (pc[t[1]] = "manifest!" /\ t[2] = "manifest")

Valid(k) == data[k] # None /\ Matches(manifest[k], data[k])

\* A finished entry is not lost: it stops being valid only when a file of it
\* is damaged or a run with other defaults replaces it.  Interrupted, failed
\* and repeated builds of one checkout never cost a source a second download.
FinishedEntriesStay ==
    [][\A k \in Key : Valid(k) /\ ~Valid(k)' =>
            \/ Damage(k)
            \/ \E r \in Run : /\ SwapData(r) \/ SwapManifest(r)
                              /\ Extraction(k[1], k[2], config[r]).records # data[k]]_vars

=============================================================================
