--------------------------- MODULE ImatrixPipeline ---------------------------
(***************************************************************************)
(* 03_generate_imatrix_gpu.sh: generate_imatrix.py makes one importance    *)
(* matrix per calibration text, merge_imatrix.py blends those of the       *)
(* domains.  Texts and matrices lie in one directory, which a calibration  *)
(* build replaces whole, at any time; an output that exists is not made    *)
(* again unless the run is forced; the outputs are written in place.       *)
(*                                                                         *)
(* Of a tensor's columns one is kept.  Its activation is a number per      *)
(* token, Absent where the token does not reach the module (an expert).    *)
(***************************************************************************)
EXTENDS Integers, Sequences, SequencesExt, FiniteSetsExt

CONSTANTS
    Domains,    \* CALIBRATION_DOMAINS, a sequence
    Weights,    \* IMATRIX_WEIGHTS, one per domain
    Text,       \* Text[b][d]: the tokens of <d>.txt in the b-th build
    Modules,    \* linear modules in model order: [tensor, sees]
    Context,    \* tokens per chunk
    Limit,      \* --limit-tokens, 0 for none
    MaxRuns,    \* bound on the runs of the script
    Absent

Combined == "combined"
Jobs == Domains \o <<Combined>>
Builds == DOMAIN Text

\* Texts are of tokens every module has an activation for, or none.
ASSUME ImatrixAssumption ==
    /\ Domains \in Seq(ToSet(Domains)) /\ Domains # <<>>
    /\ Weights \in [DOMAIN Domains -> Nat \ {0}]
    /\ Context \in Nat \ {0} /\ Limit \in Nat
    /\ Text \in Seq(ToSet(Text)) /\ Text # <<>>
    /\ Modules \in Seq(ToSet(Modules))
    /\ \A b \in Builds, j \in ToSet(Jobs) :
          /\ Text[b][j] \in Seq(ToSet(Text[b][j]))
          /\ \A m \in ToSet(Modules), x \in ToSet(Text[b][j]) : m.sees[x] \in Nat \cup {Absent}
    /\ Absent \notin Nat

VARIABLES
    build,      \* the build whose texts are in the directory
    file,       \* file[j]: the matrix of job j: [whole, entries], or Absent
    merged,     \* imatrix_merged.dat, or Absent
    stage,
    pending,    \* places in Jobs of those still to do, the current one first
    chunks,     \* chunks of its text not fed yet
    accumulator,\* per tensor [n, sum] on the GPU
    handle,     \* the build whose directory holds the file being written
    matrices,   \* those merge_imatrix has read
    runs

work == <<pending, chunks, accumulator, handle, matrices>>
imatrix == <<build, file, merged, stage, work, runs>>

(***************************************************************************)
(* tokenize_and_chunk, and the chunks that --limit-tokens leaves           *)
(***************************************************************************)
Chunked(tokens) ==
    [i \in 1..((Len(tokens) + Context - 1) \div Context) |->
        SubSeq(tokens, (i - 1) * Context + 1,
               IF i * Context < Len(tokens) THEN i * Context ELSE Len(tokens))]

Added(f) == FoldFunction(+, 0, f)

Limited(cs) ==
    LET reaches(n) == Added([k \in 1..n |-> Len(cs[k])]) >= Limit
    IN  IF Limit = 0 \/ \A n \in DOMAIN cs : ~reaches(n) THEN cs
        ELSE SubSeq(cs, 1, CHOOSE n \in DOMAIN cs :
                              reaches(n) /\ \A k \in 1..(n - 1) : ~reaches(k))

\* discover_linear_modules: of two modules of one name the later one stays.
Tensors == {Modules[i].tensor : i \in DOMAIN Modules}
Hooked(t) == SelectLastInSeq(Modules, LAMBDA m : m.tensor = t)
Activation(t, token) == Modules[Hooked(t)].sees[token]

(***************************************************************************)
(* The accumulator                                                         *)
(***************************************************************************)
Zero == [t \in Tensors |-> [n |-> 0, sum |-> 0]]

Accumulate(acc, chunk) ==
    LET seen(t) == {i \in DOMAIN chunk : Activation(t, chunk[i]) # Absent}
    IN  [t \in Tensors |->
            [n |-> acc[t].n + Cardinality(seen(t)),
             sum |-> acc[t].sum + Added([i \in seen(t) |-> Activation(t, chunk[i])])]]

\* get_entries: tensors no token reached are left out.
Entries(acc) == [t \in {u \in Tensors : acc[u].n > 0} |-> acc[t]]

Whole(entries) == [whole |-> TRUE, entries |-> entries]
Partial == [whole |-> FALSE, entries |-> <<>>]

ImatrixInit ==
    /\ build = 1
    /\ file = [j \in ToSet(Jobs) |-> Absent] /\ merged = Absent
    /\ stage = "idle"
    /\ pending = {} /\ chunks = <<>> /\ accumulator = Zero
    /\ handle = Absent /\ matrices = <<>>
    /\ runs = 0

Job == Jobs[Min(pending)]

Stop(outcome) ==
    /\ stage' = outcome
    /\ pending' = {} /\ chunks' = <<>> /\ accumulator' = Zero
    /\ handle' = Absent /\ matrices' = <<>>

(***************************************************************************)
(* generate_imatrix.main                                                   *)
(***************************************************************************)
StartRun(force) ==
    /\ stage \in {"idle", "done", "failed", "killed"} /\ runs < MaxRuns
    /\ runs' = runs + 1
    /\ pending' = {i \in DOMAIN Jobs : force \/ file[Jobs[i]] = Absent}
    /\ stage' = IF pending' = {} THEN "merge" ELSE "job"
    /\ UNCHANGED <<build, file, merged, chunks, accumulator, handle, matrices>>

\* Fault: one accumulator for all jobs of a run.
BeginJobWithoutReset ==
    /\ stage = "job" /\ pending # {}
    /\ chunks' = Limited(Chunked(Text[build][Job]))
    /\ stage' = "feed"
    /\ UNCHANGED <<build, file, merged, pending, accumulator, handle, matrices, runs>>

\* reset(), then the whole text is read.
BeginJob ==
    /\ stage = "job" /\ pending # {}
    /\ accumulator' = Zero
    /\ chunks' = Limited(Chunked(Text[build][Job]))
    /\ stage' = "feed"
    /\ UNCHANGED <<build, file, merged, pending, handle, matrices, runs>>

Feed ==
    /\ stage = "feed" /\ chunks # <<>>
    /\ accumulator' = Accumulate(accumulator, Head(chunks))
    /\ chunks' = Tail(chunks)
    /\ UNCHANGED <<build, file, merged, stage, pending, handle, matrices, runs>>

\* write_imatrix_dat opens, and empties, the output in the directory of now.
OpenOutput ==
    /\ stage = "feed" /\ chunks = <<>>
    /\ file' = [file EXCEPT ![Job] = Partial]
    /\ handle' = build
    /\ stage' = "write"
    /\ UNCHANGED <<build, merged, pending, chunks, accumulator, matrices, runs>>

\* The size is asked by name: where the directory has been replaced since,
\* the file is gone and the script fails.
CloseOutput ==
    /\ stage = "write"
    /\ IF handle = build
       THEN /\ file' = [file EXCEPT ![Job] = Whole(Entries(accumulator))]
            /\ pending' = pending \ {Min(pending)}
            /\ stage' = IF pending' = {} THEN "merge" ELSE "job"
            /\ handle' = Absent
            /\ UNCHANGED <<chunks, accumulator, matrices>>
       ELSE Stop("failed") /\ UNCHANGED file
    /\ UNCHANGED <<build, merged, runs>>

(***************************************************************************)
(* merge_imatrix                                                           *)
(***************************************************************************)
\* Fault: what could be read of a cut file is taken for the file.
ReadInputLeniently ==
    LET f == file[Domains[Len(matrices) + 1]]
    IN  /\ stage = "merge" /\ Len(matrices) < Len(Domains)
        /\ IF f # Absent
           THEN matrices' = Append(matrices, f.entries)
                /\ UNCHANGED <<stage, pending, chunks, accumulator, handle>>
           ELSE Stop("failed")
        /\ UNCHANGED <<build, file, merged, runs>>

\* read_imatrix: a missing or a cut file raises.
ReadInput ==
    LET f == file[Domains[Len(matrices) + 1]]
    IN  /\ stage = "merge" /\ Len(matrices) < Len(Domains)
        /\ IF f # Absent /\ f.whole
           THEN matrices' = Append(matrices, f.entries)
                /\ UNCHANGED <<stage, pending, chunks, accumulator, handle>>
           ELSE Stop("failed")
        /\ UNCHANGED <<build, file, merged, runs>>

OpenMerged ==
    /\ stage = "merge" /\ Len(matrices) = Len(Domains)
    /\ merged' = Partial
    /\ handle' = build
    /\ stage' = "write merged"
    /\ UNCHANGED <<build, file, pending, chunks, accumulator, matrices, runs>>

TotalWeight == Added(Weights)
Plus(p, q) == [num |-> p.num * q.den + q.num * p.den, den |-> p.den * q.den]

\* One tensor of the merge: its share of every input that holds it is added.
Blended(ims, t) ==
    LET blended[k \in 0..Len(ims)] ==
            IF k = 0 THEN [num |-> 0, den |-> 1]
            ELSE IF t \in DOMAIN ims[k]
            THEN Plus(blended[k - 1], [num |-> Weights[k] * ims[k][t].sum,
                                       den |-> TotalWeight * ims[k][t].n])
            ELSE blended[k - 1]
    IN  blended[Len(ims)]

\* merge_imatrices: weights are shares of all inputs, also for a tensor that
\* only some of them hold.
Merge(ims) ==
    LET present(t) == {i \in DOMAIN ims : t \in DOMAIN ims[i]}
    IN  [t \in UNION {DOMAIN ims[i] : i \in DOMAIN ims} |->
            [n |-> Added([i \in present(t) |-> ims[i][t].n]), value |-> Blended(ims, t)]]

CloseMerged ==
    /\ stage = "write merged"
    /\ IF handle = build
       THEN merged' = Whole(Merge(matrices)) /\ Stop("done")
       ELSE Stop("failed") /\ UNCHANGED merged
    /\ UNCHANGED <<build, file, runs>>

(***************************************************************************)
(* The surroundings                                                        *)
(***************************************************************************)
\* The script or the machine is killed; files stay as they are.
KillScript ==
    /\ stage \notin {"idle", "done", "failed", "killed"}
    /\ Stop("killed")
    /\ UNCHANGED <<build, file, merged, runs>>

\* Fault: a build writes its texts into the directory there is.
PublishInPlace ==
    /\ build + 1 \in Builds
    /\ build' = build + 1
    /\ UNCHANGED <<file, merged, stage, work, runs>>

\* prepare_calibration publishes another build: the directory is replaced.
Publish ==
    /\ build + 1 \in Builds
    /\ build' = build + 1
    /\ file' = [j \in ToSet(Jobs) |-> Absent]
    /\ merged' = Absent
    /\ UNCHANGED <<stage, work, runs>>

ImatrixNext ==
    \/ \E force \in BOOLEAN : StartRun(force)
    \/ BeginJob \/ Feed \/ OpenOutput \/ CloseOutput
    \/ ReadInput \/ OpenMerged \/ CloseMerged
    \/ KillScript \/ Publish

ImatrixSpec == ImatrixInit /\ [][ImatrixNext]_imatrix

(***************************************************************************)
(* Properties                                                              *)
(***************************************************************************)
\* The number of tokens of a text that are fed, counted without chunks.
Fed(tokens) ==
    LET up == ((Limit + Context - 1) \div Context) * Context
    IN  IF Limit = 0 \/ up > Len(tokens) THEN Len(tokens) ELSE up

\* The tokens of a text that reach a tensor, and the sum of what they leave there.
Reached(t, tokens) == {i \in 1..Fed(tokens) : Activation(t, tokens[i]) # Absent}
SumReached(t, tokens) == Added([i \in Reached(t, tokens) |-> Activation(t, tokens[i])])

\* A matrix holds exactly the tensors that tokens of the text reached.
IsStatisticOf(entries, tokens) ==
    /\ DOMAIN entries = {t \in Tensors : Reached(t, tokens) # {}}
    /\ \A t \in DOMAIN entries : /\ entries[t].n = Cardinality(Reached(t, tokens))
                                 /\ entries[t].sum = SumReached(t, tokens)

\* A whole matrix is the statistic of one text of its own job, of no other
\* job and of no mixture, whichever runs were killed, forced or overtaken by a
\* calibration build.
MatricesAreOfOneText ==
    \A j \in ToSet(Jobs) :
        file[j] # Absent /\ file[j].whole =>
            \E b \in Builds : b <= build /\ IsStatisticOf(file[j].entries, Text[b][j])

\* Of the whole matrices at most one, that of the job a calibration build
\* overtook, is not of the text that lies beside it: a run that skips what
\* exists never takes more than that over from another build.
AtMostOneIsStale ==
    Cardinality({j \in ToSet(Jobs) : /\ file[j] # Absent /\ file[j].whole
                                     /\ ~IsStatisticOf(file[j].entries, Text[build][j])}) <= 1

\* A fraction is the blend of a tensor's means over the texts by is about: its
\* numerator is the sum of the weighted ones over the common denominator.
IsBlend(value, t, tokens, by) ==
    LET den(i) == TotalWeight * Cardinality(Reached(t, tokens[i]))
    IN  /\ value.den > 0 /\ \A i \in by : value.den % den(i) = 0
        /\ value.num = Added([i \in by |-> Weights[i] * SumReached(t, tokens[i])
                                              * (value.den \div den(i))])

\* A whole merged matrix is the blend of whole matrices, one per domain: each
\* tensor some domain reached has the weighted sum of its means over all
\* domains, a domain that did not reach it counting as zero.
MergedIsTheBlend ==
    merged # Absent /\ merged.whole =>
        \E of \in [DOMAIN Domains -> Builds] :
            LET tokens == [i \in DOMAIN Domains |-> Text[of[i]][Domains[i]]]
                by(t) == {i \in DOMAIN Domains : Reached(t, tokens[i]) # {}}
            IN  /\ DOMAIN merged.entries = {t \in Tensors : by(t) # {}}
                /\ \A t \in DOMAIN merged.entries :
                      /\ merged.entries[t].n =
                            Added([i \in by(t) |-> Cardinality(Reached(t, tokens[i]))])
                      /\ IsBlend(merged.entries[t].value, t, tokens, by(t))

=============================================================================
