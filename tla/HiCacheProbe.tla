----------------------------- MODULE HiCacheProbe -----------------------------
(***************************************************************************)
(* The HiCache correctness phase of 11_bench_sglang.sh for one probe, with *)
(* the client of bench_sglang_request.py and the verdict it reaches with   *)
(* hicache_digest_check.py.  A probe is asked cold, asked again, and, when *)
(* the upper tiers have been flushed, read back from storage.  A run that  *)
(* leaves markers out may be excused by a later one, but only with digests *)
(* that show the cached state to be exact.                                 *)
(*                                                                         *)
(* The server is external: what it answers and the digests it logs.        *)
(***************************************************************************)
EXTENDS Integers, Sequences, SequencesExt, FiniteSets, Functions

CONSTANTS
    Expected,   \* the markers of the prompt, in order
    Responses,  \* the markers of an answer, as far as they can be told apart
    ColdLogs,   \* digest lines until the flush and after it: records of a set
    WarmLogs,   \* storage of [direction, key, digest] and a set transfers of
                \* [component, host, device, exact]
    Required,   \* components whose transfers must be seen
    Absent

Markers == ToSet(Expected) \cup UNION {ToSet(r) : r \in Responses}
Outcomes == {"missing", "order", "mismatch", "cache", "client", Absent}
Measured == [ok : BOOLEAN, expected : Seq(Markers), reported : Seq(Markers),
             matched : BOOLEAN \cup {Absent}, cached : BOOLEAN, error : Outcomes]

\* A log is finite; Absent is nothing the program measures or decides.
ASSUME ProbeAssumption ==
    /\ Expected # <<>> /\ IsInjective(Expected)
    /\ Expected \in Seq(Markers) /\ Responses \subseteq Seq(Markers)
    /\ \A log \in ColdLogs \cup WarmLogs :
          IsFiniteSet(log.storage) /\ \A t \in log.transfers : t.exact \in BOOLEAN
    /\ Absent \notin Measured \cup BOOLEAN
    /\ Absent \notin {"missing", "mismatch", "passed", "failed"}

Kinds == {"single", "concurrent"}

VARIABLES
    kind,       \* a probe alone, or one of a concurrent batch
    digests,    \* CORRECT_DIGESTS
    stage,
    cold, restored, \* the two copies of the server's log
    files,      \* metrics file of each step done
    check,      \* hicache_digest_check.json, or Absent
    excused,    \* variance_files
    verdict

probe == <<kind, digests, stage, cold, restored, files, check, excused, verdict>>

(***************************************************************************)
(* bench_sglang_request.py                                                 *)
(***************************************************************************)
\* response_marker_sequence stops at the expected number of markers.
Reported(response) == SubSeq(response, 1, IF Len(response) < Len(Expected) THEN Len(response)
                                          ELSE Len(Expected))

FirstAt(response, marker) == SelectInSeq(response, LAMBDA m : m = marker)

\* cached: the share of cached tokens is what the run demands; completed: the
\* server reports tokens.  One defect is named: a marker error hides the rest.
Metrics(response, must, cached, completed) ==
    LET missing == ToSet(Expected) \ ToSet(response)
        ordered == \A i, j \in DOMAIN Expected :
                      i < j => FirstAt(response, Expected[i]) < FirstAt(response, Expected[j])
        valid == missing = {} /\ ordered
        matched == IF must THEN Reported(response) = Expected ELSE Absent
    IN  [ok |-> completed /\ valid /\ cached /\ matched # FALSE,
         expected |-> Expected,
         reported |-> Reported(response),
         matched |-> matched,
         cached |-> cached,
         error |-> CASE missing # {} -> "missing"
                     [] missing = {} /\ ~ordered -> "order"
                     [] valid /\ matched = FALSE -> "mismatch"
                     [] valid /\ matched # FALSE /\ ~cached -> "cache"
                     [] OTHER -> Absent]

\* run_one: a client that fails leaves its error in place of the metrics.
ClientFailed == [ok |-> FALSE, expected |-> <<>>, reported |-> <<>>, matched |-> Absent,
                 cached |-> FALSE, error |-> "client"]

(***************************************************************************)
(* hicache_digest_check.py                                                 *)
(***************************************************************************)
Digests(log, direction, key) ==
    {r.digest : r \in {s \in log.storage : s.direction = direction /\ s.key = key}}
Keys(log, direction) == {r.key : r \in {s \in log.storage : s.direction = direction}}

\* Fault: what was read is compared, not whether it was written once.
DigestCheckOfReads(c, r) ==
    LET paired == Keys(c, "write") \cap Keys(r, "read")
    IN  /\ paired # {}
        /\ \A k \in paired : Digests(c, "write", k) \cap Digests(r, "read", k) # {}
        /\ \A t \in c.transfers \cup r.transfers : t.exact /\ (t.host = t.device) = t.exact
        /\ Required \subseteq {t.component : t \in c.transfers \cup r.transfers}

DigestCheck(c, r) ==
    LET paired == Keys(c, "write") \cap Keys(r, "read")
        transfers == c.transfers \cup r.transfers
    IN  /\ paired # {}
        /\ \A k \in Keys(c, "write") : Cardinality(Digests(c, "write", k)) = 1
        /\ \A k \in Keys(r, "read") : Cardinality(Digests(r, "read", k)) = 1
        /\ \A k \in paired : Digests(c, "write", k) = Digests(r, "read", k)
        /\ \A t \in transfers : t.exact /\ (t.host = t.device) = t.exact
        /\ Required \subseteq {t.component : t \in transfers}

\* Fault: any selection of the expected markers counts as an omission.
OmissionAnyOrder(m) == ToSet(m.reported) \subseteq ToSet(m.expected)
                       /\ ToSet(m.reported) # ToSet(m.expected)

\* Fault: a marker that comes again counts as foreign.
OmissionWithoutRepeats(m) ==
    /\ IsInjective(m.reported) /\ IsInjective(m.expected)
    /\ OmissionAnyOrder(m)

\* omission_only, along the reported markers: the next expected marker may be
\* any later one, a marker seen before may come again, all else is foreign.
OmissionStep(expected, s, marker) ==
    LET rest == SubSeq(expected, s.pos + 1, Len(expected))
    IN  IF Contains(rest, marker)
        THEN [s EXCEPT !.pos = @ + SelectInSeq(rest, LAMBDA e : e = marker),
                       !.seen = @ \cup {marker}]
        ELSE [s EXCEPT !.inOrder = @ /\ marker \in s.seen]

OmissionEnd(expected, reported) ==
    FoldLeft(LAMBDA s, marker : OmissionStep(expected, s, marker),
             [pos |-> 0, seen |-> {}, inOrder |-> TRUE], reported)

OmissionOnly(m) ==
    LET end == OmissionEnd(m.expected, m.reported)
    IN  m.expected # <<>> /\ end.inOrder /\ Cardinality(end.seen) < Len(m.expected)

MarkerError(m) == m.error \in {"missing", "mismatch"}
NeedsReplay(m) == ~m.ok /\ MarkerError(m) /\ OmissionOnly(m)

ReplayIsComplete(m, replay) ==
    replay # Absent /\ replay.ok /\ replay.matched = TRUE /\ replay.expected = m.expected

Variance(m, replay) ==
    /\ m # Absent /\ NeedsReplay(m)
    /\ check = TRUE
    /\ ReplayIsComplete(m, replay)

(***************************************************************************)
(* correctness_bench                                                       *)
(***************************************************************************)
Steps == {"cold", "revisit", "restore", "hit", "replay"}

ProbeInit ==
    /\ kind \in Kinds /\ digests \in BOOLEAN
    /\ stage = "cold"
    /\ cold = Absent /\ restored = Absent
    /\ files = [s \in Steps |-> Absent]
    /\ check = Absent /\ excused = {} /\ verdict = Absent

\* One request; only the steps after the flush demand cached tokens.
Ask(step, must, ratio, next) ==
    /\ stage = step
    /\ \/ \E response \in Responses, cached, completed \in BOOLEAN :
             files' = [files EXCEPT ![step] =
                          Metrics(response, must, cached \/ ~ratio, completed)]
       \/ files' = [files EXCEPT ![step] = ClientFailed]
    /\ stage' = next
    /\ UNCHANGED <<kind, digests, cold, restored, check, excused, verdict>>

AskCold == Ask("cold", FALSE, FALSE, "revisit")
Revisit == Ask("revisit", TRUE, FALSE, "flush")
Restore == Ask("restore", TRUE, TRUE, IF kind = "single" THEN "hit" ELSE "replay?")
Hit     == Ask("hit", TRUE, TRUE, "replay?")
Replay  == Ask("replay", TRUE, TRUE, "check")

\* The log is copied when the flush has shown storage idle; a flush that
\* fails ends the script.
Flush ==
    /\ stage = "flush"
    /\ \/ /\ stage' = "restore"
          /\ IF digests THEN cold' \in ColdLogs ELSE UNCHANGED cold
       \/ stage' = "aborted" /\ UNCHANGED cold
    /\ UNCHANGED <<kind, digests, restored, files, check, excused, verdict>>

MaybeReplay ==
    /\ stage = "replay?"
    /\ stage' = IF NeedsReplay(files[IF kind = "single" THEN "hit" ELSE "restore"])
             THEN "replay" ELSE "check"
    /\ UNCHANGED <<kind, digests, cold, restored, files, check, excused, verdict>>

\* The second copy holds what the first holds: it is the log of one server.  A
\* checker that dies leaves no file, which the script only warns of.
CheckDigests ==
    /\ stage = "check"
    /\ IF digests
       THEN \E log \in WarmLogs :
               /\ restored' = [storage |-> cold.storage \cup log.storage,
                               transfers |-> cold.transfers \cup log.transfers]
               /\ check' \in {DigestCheck(cold, restored'), Absent}
       ELSE UNCHANGED <<restored, check>>
    /\ stage' = "verdict"
    /\ UNCHANGED <<kind, digests, cold, files, excused, verdict>>

Complete(m) == m # Absent /\ m.ok /\ m.matched = TRUE

\* Which runs the others excuse, and whether every other file is ok.
Judge ==
    /\ stage = "verdict"
    /\ LET witness == IF kind = "single" THEN files["hit"] ELSE files["replay"]
       IN  excused' =
              {s \in {"revisit"} : Variance(files["revisit"], files["restore"])}
              \cup {s \in {"cold"} : /\ Complete(files["revisit"]) /\ Complete(files["restore"])
                                     /\ Variance(files["cold"], files["revisit"])}
              \cup {s \in {"restore"} : Variance(files["restore"], witness)}
    /\ verdict' = IF /\ \A s \in Steps \ excused' : files[s] # Absent => files[s].ok
                     /\ check # FALSE
                  THEN "passed" ELSE "failed"
    /\ stage' = "judged"
    /\ UNCHANGED <<kind, digests, cold, restored, files, check>>

ProbeNext ==
    \/ AskCold \/ Revisit \/ Flush \/ Restore \/ Hit \/ MaybeReplay \/ Replay
    \/ CheckDigests \/ Judge

ProbeSpec == ProbeInit /\ [][ProbeNext]_probe

(***************************************************************************)
(* Properties                                                              *)
(***************************************************************************)
\* What may be left out and told again: the first occurrences are expected
\* markers in their order, and at least one is missing.
LeavesOut(m) ==
    LET at(x) == SelectInSeq(Expected, LAMBDA e : e = x)
        first(i) == \A j \in 1..(i - 1) : m.reported[j] # m.reported[i]
    IN  /\ ToSet(m.reported) \subseteq ToSet(Expected)
        /\ ToSet(m.reported) # ToSet(Expected)
        /\ \A i, j \in DOMAIN m.reported :
              i < j /\ first(i) /\ first(j) => at(m.reported[i]) < at(m.reported[j])

\* The digests of a checked run are exact: no page was written or read back
\* with two contents, none was read back other than written, and at least one
\* was both; every transfer between host and device was exact.
Exact ==
    LET written == {x \in cold.storage : x.direction = "write"}
        read == {x \in restored.storage : x.direction = "read"}
    IN  /\ \A x, y \in written \cup read :
              x.key = y.key => x.digest = y.digest
        /\ \E x \in written, y \in read : x.key = y.key
        /\ \A t \in restored.transfers : t.exact /\ t.host = t.device

\* A probe passes only with every run complete, or with the runs it was
\* excused for made good later: a restored one by the next run on restored
\* state, one before the flush by a run after it, which reports every marker
\* and read as much from the cache as was demanded.  The text of what is
\* excused is an omission in order, and the digests were checked and exact (how
\* much it read from the cache is not asked).  Digests that the checker judged
\* fail the probe unless they are exact; a checker that died says nothing, so
\* nothing is excused, but runs that are all complete pass without it.
VerdictIsEarned ==
    verdict = "passed" =>
        /\ check # Absent => Exact
        /\ \A s \in {"cold", "revisit", "restore", "hit"} : files[s] # Absent /\ ~files[s].ok =>
              /\ check # Absent
              /\ LeavesOut(files[s])
              /\ s # "hit"
              /\ LET after == IF s # "restore" THEN {"restore"}
                              ELSE IF kind = "single" THEN {"hit"} ELSE {"replay"}
                 IN  \A w \in after : /\ files[w] # Absent /\ files[w].ok /\ files[w].cached
                                       /\ files[w].reported = Expected

\* Excuses are not withheld either: when all runs report their markers but for
\* one omission that a later run on restored state makes good, and the digests
\* are exact, the probe passes.
OmissionIsExcused ==
    verdict = "failed" /\ check = TRUE =>
        ~ \E s \in {"revisit", "restore"} :
              /\ files[s].error \in {"missing", "mismatch"} /\ LeavesOut(files[s])
              /\ \A w \in Steps \ {s} : files[w] # Absent => files[w].ok
              /\ s = "restore" /\ kind = "concurrent" => files["replay"] # Absent

===============================================================================
