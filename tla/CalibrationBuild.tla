--------------------------- MODULE CalibrationBuild ---------------------------
(***************************************************************************)
(* build_calibration: the model-scoped calibration directory, selected     *)
(* from the shared parent corpus with the target tokenizer.  Beside one    *)
(* builder at a time the parent may be republished, files of the directory *)
(* may be damaged, and a quantizer reads the directory, domain by domain,  *)
(* and later leaves its expert coverage report in it.                      *)
(*                                                                         *)
(* What the builder does with the records is in CalibrationRecords.  A     *)
(* .jsonl file and its .txt render stand and fall together here, and the   *)
(* hash in the manifest is the content it was taken from.                  *)
(***************************************************************************)
EXTENDS CalibrationRecords

CONSTANTS
    Rows,       \* Rows[v]: the [source, row] pairs of parent version v
    Domains,    \* the keys of the token targets, in sorted order
    Args,       \* command lines: [force, holdout, target]
    Shuffles,   \* what the seed makes of n candidates: [first, second][n]
    Strays,     \* records a domain's file may be overwritten with
    Garbage     \* a file cut short or overwritten

VARIABLES
    shuffle,    \* what the seed makes of sorted candidates; never changes
    corpus,     \* the version of the parent corpus in place, None if absent
    directory,  \* the calibration directory, or None
    backup,     \* the directory a publication has moved away, or None
    build,      \* the builder
    reader      \* the quantizer that reads the directory

vars == <<shuffle, corpus, directory, backup, build, reader>>

DomainSet == ToSet(Domains)
Names == DomainSet \cup {"combined", "holdout"}
Version == DOMAIN Rows
Parent == [v \in Version |-> ParentRecords(Rows[v])]
Target == [v \in Version |-> TargetRecords(Parent[v])]
Policy(version, args) == [corpus |-> version, holdout |-> args.holdout, target |-> args.target]

Idle == [pc |-> "idle", args |-> None, held |-> None, records |-> <<>>, at |-> 1,
         selected |-> <<>>, holdout |-> <<>>, found |-> None]
Away == [pc |-> "away", at |-> 1, files |-> <<>>, raced |-> FALSE]

Init ==
    /\ shuffle \in Shuffles
    /\ corpus \in Version \cup {None}
    /\ directory = None
    /\ backup = None
    /\ build = Idle
    /\ reader = Away

Goto(step) == build' = [build EXCEPT !.pc = step]
Fail(reason) == build' = [build EXCEPT !.pc = reason]
Others == <<shuffle, corpus, directory, backup, reader>>

\* main: a command line; the parent is rebuilt first under --force-corpus,
\* and by build_calibration when it is absent.
Start ==
    /\ build.pc = "idle"
    /\ \E args \in Args : build' = [Idle EXCEPT !.pc = "load", !.args = args]
    /\ corpus' \in IF corpus = None THEN Version ELSE {corpus}
    /\ UNCHANGED <<shuffle, directory, backup, reader>>

\* load_corpus: the records of every domain and the digest come from one load.
LoadCorpus ==
    /\ build.pc = "load"
    /\ IF \A i \in DOMAIN Parent[corpus] : ValidCorpusRecord(Parent[corpus][i])
       THEN build' = [build EXCEPT !.pc = "check", !.held = corpus]
       ELSE Fail("corpus error")
    /\ UNCHANGED Others

\* Fault: the hashes in the manifest are not compared with the files.
PolicyIsEnough(policy) ==
    directory # None /\ directory.manifest # Garbage /\ directory.manifest.policy = policy

ValidExistingBuild(policy) ==
    /\ directory # None
    /\ directory.manifest # Garbage
    /\ directory.manifest.policy = policy
    /\ \A n \in Names : directory.files[n] = directory.manifest.files[n]

\* A damaged manifest is told from a current one where json.loads refuses it or
\* it lacks a key; bytes that are no UTF-8 or another JSON value end the program.
CheckBreaks ==
    /\ build.pc = "check"
    /\ ~build.args.force /\ directory # None /\ directory.manifest = Garbage
    /\ Fail("manifest error")
    /\ UNCHANGED Others

CheckExisting ==
    /\ build.pc = "check"
    /\ IF ~build.args.force /\ ValidExistingBuild(Policy(build.held, build.args))
       THEN build' = [build EXCEPT !.pc = "current", !.found = directory.files]
       ELSE Goto("adapt")
    /\ UNCHANGED Others

\* Fault: duplicates are looked for before the texts are stripped.
AdaptedLate == [v \in Version |-> TargetRecords(Deduplicate(Parent[v]))]

\* The records for the target tokenizer.
Adapted == [v \in Version |-> Deduplicate(Target[v])]

\* What a file may hold: a list of records, a mixed file's set of them, or
\* damage.  What a directory may be.
Candidates == UNION {ToSet(Adapted[v]) : v \in Version}
Content == Seq(Candidates) \cup (SUBSET Candidates) \cup {Garbage}
Directory ==
    LET contents == [Names -> Content]
    IN  [files    : contents,
         report   : [files : Seq(Content), raced : BOOLEAN] \cup {None},
         manifest : [policy : [corpus : Version, holdout : Nat, target : Nat],
                     files  : contents] \cup {Garbage}]

\* Rows are rows of sources, a shuffle moves every candidate somewhere, the
\* two mixed files have names of their own, no content is garbage, and a
\* missing directory is none.
ASSUME BuildAssumption ==
    /\ \A v \in Version : /\ Rows[v] \in Seq(ToSet(Rows[v]))
                          /\ \A i \in DOMAIN Rows[v] :
                                /\ Rows[v][i].source \in DOMAIN Schema
                                /\ GoodRow(Rows[v][i].row, Rows[v][i].source)
    /\ Domains \in Seq(DomainSet) /\ IsInjective(Domains)
    /\ {"combined", "holdout"} \cap DomainSet = {}
    /\ \A args \in Args : args.holdout \in Nat /\ args.target \in Nat
    /\ \A v \in Version : \A n \in 0..Len(Adapted[v]) : \A s \in Shuffles :
          \A f \in {s.first[n], s.second[n]} : f \in [1..n -> 1..n] /\ IsInjective(f)
    /\ \A v \in Version :
          /\ {Garbage, Error} \cap Seq(ToSet(Adapted[v])) = {}
          /\ \A S \in SUBSET ToSet(Adapted[v]) : S # Garbage
    /\ Strays \subseteq Candidates
    /\ None \notin Directory

InDomain(records, d) == Where(records, LAMBDA r : r.domain = d)

Adapt ==
    /\ build.pc = "adapt"
    /\ LET records == Adapted[build.held]
       IN  IF \A i \in DOMAIN records : records[i].domain \in DomainSet
           THEN build' = [build EXCEPT !.pc = "select", !.records = records, !.at = 1,
                                       !.selected = <<>>, !.holdout = <<>>]
           ELSE Fail("domain without target")
    /\ UNCHANGED Others

\* The candidates in the order the seed shuffles that many to.
Ordered(records, shuffled) ==
    [i \in DOMAIN records |-> records[shuffled[Len(records)][i]]]

\* What a domain contributes: its holdout from the end of a first shuffle,
\* its calibration records from a second shuffle of the rest.
SelectHoldout(records, args) ==
    TakeToTokenBudget(Reverse(Ordered(records, shuffle.first)), args.holdout)

\* Fault: the rest is not told apart from the holdout.
SelectFromAll(records, hold, args) ==
    TakeToTokenBudget(Ordered(records, shuffle.second), args.target)

SelectToTokenBudget(records, hold, args) ==
    TakeToTokenBudget(Ordered(Without(records, hold), shuffle.second), args.target)

SelectDomain ==
    /\ build.pc = "select"
    /\ build.at <= Len(Domains)
    /\ LET records == InDomain(build.records, Domains[build.at])
           hold == SelectHoldout(records, build.args)
           selected == SelectToTokenBudget(records, hold, build.args)
       IN  IF hold = Error \/ selected = Error THEN Goto("shortage")
           ELSE build' = [build EXCEPT !.at = @ + 1, !.holdout = Append(@, hold),
                                       !.selected = Append(@, selected)]
    /\ UNCHANGED Others

Mixed(lists) == UNION {ToSet(lists[i]) : i \in DOMAIN lists}
Ids(lists) == {r.id : r \in Mixed(lists)}

\* The last check before the artifacts are made.
Combine ==
    /\ build.pc = "select"
    /\ build.at > Len(Domains)
    /\ Goto(IF Ids(build.selected) \cap Ids(build.holdout) # {} THEN "overlap" ELSE "publish")
    /\ UNCHANGED Others

\* The staged artifacts; the two mixed files are shuffled, so only their
\* records are known.
StagedFiles ==
    [n \in Names |->
        CASE n = "combined" -> Mixed(build.selected)
          [] n = "holdout"  -> Mixed(build.holdout)
          [] OTHER          -> build.selected[CHOOSE i \in DOMAIN Domains : Domains[i] = n]]

\* Fault: the digest is taken from the parent that is in place by now.
StagedWithLatest ==
    [files |-> StagedFiles, report |-> None,
     manifest |-> [policy |-> Policy(corpus, build.args), files |-> StagedFiles]]

\* Fault: the new files are copied over the old ones.
StagedInPlace ==
    [files |-> StagedFiles, report |-> IF backup = None THEN None ELSE backup.report,
     manifest |-> [policy |-> Policy(build.held, build.args), files |-> StagedFiles]]

Staged ==
    [files |-> StagedFiles, report |-> None,
     manifest |-> [policy |-> Policy(build.held, build.args), files |-> StagedFiles]]

\* _publish_directory, for a destination that exists and one that does not.
MoveAway ==
    /\ build.pc = "publish"
    /\ directory # None
    /\ backup' = directory
    /\ directory' = None
    /\ reader' = [reader EXCEPT !.raced = reader.pc # "away"]
    /\ Goto("move in")
    /\ UNCHANGED <<shuffle, corpus>>

MoveIn ==
    /\ \/ build.pc = "move in"
       \/ build.pc = "publish" /\ directory = None
    /\ directory' = Staged
    /\ backup' = None
    /\ Goto("built")
    /\ UNCHANGED <<shuffle, corpus, reader>>

\* The second rename fails: the old directory is put back.
MoveFails ==
    /\ build.pc = "move in"
    /\ directory' = backup
    /\ backup' = None
    /\ Goto("rename failed")
    /\ UNCHANGED <<shuffle, corpus, reader>>

Ended == {"current", "built", "shortage", "overlap", "corpus error", "manifest error",
          "domain without target", "rename failed"}

\* The builder ends, or is killed wherever it is; a killed publication
\* leaves the old directory in its backup, where nothing looks for it.
Leave ==
    /\ build.pc \in Ended
    /\ build' = Idle
    /\ UNCHANGED Others

Kill ==
    /\ build.pc \notin Ended \cup {"idle"}
    /\ build' = Idle
    /\ backup' = None
    /\ UNCHANGED <<shuffle, corpus, directory, reader>>

(***************************************************************************)
(* The surroundings                                                        *)
(***************************************************************************)
Republish ==
    /\ corpus # None
    /\ corpus' \in Version \ {corpus}
    /\ UNCHANGED <<shuffle, directory, backup, build, reader>>

\* At most one file at a time.  A domain's records may also be cut between two
\* lines or overwritten by others: a readable file nobody put there.
Misplaced(d) ==
    {SubSeq(directory.files[d], 1, n) : n \in 1..(Len(directory.files[d]) - 1)}
        \cup {<<r>> : r \in {s \in Strays : s.domain = d}}

Damage ==
    /\ directory # None
    /\ directory.manifest # Garbage
    /\ directory.files = directory.manifest.files
    /\ \/ \E n \in Names : directory' = [directory EXCEPT !.files[n] = Garbage]
       \/ \E d \in DomainSet : \E file \in Misplaced(d) :
              directory' = [directory EXCEPT !.files[d] = file]
       \/ directory' = [directory EXCEPT !.manifest = Garbage]
    /\ UNCHANGED <<shuffle, corpus, backup, build, reader>>

\* The quantizer starts, reads one domain after another, works for hours, and
\* replaces the report.  Nothing tells it which build a file belongs to: it
\* looks at the records, at no manifest, and takes every list that can be read
\* after those it has read.
Sound(d) ==
    /\ directory # None
    /\ directory.files[d] # Garbage
    /\ LET read == ToSet(SubSeq(Domains, 1, reader.at - 1))
           place(e) == CHOOSE i \in DOMAIN Domains : Domains[i] = e
       IN  LoadableRecords([e \in read \cup {d} |-> IF e = d THEN directory.files[d]
                                                    ELSE reader.files[place(e)]],
                           read \cup {d})

ReaderStarts ==
    /\ reader.pc = "away"
    /\ reader' = [Away EXCEPT !.pc = "read"]
    /\ UNCHANGED <<shuffle, corpus, directory, backup, build>>

ReadDomain ==
    /\ reader.pc = "read"
    /\ reader.at <= Len(Domains)
    /\ LET d == Domains[reader.at]
       IN  IF Sound(d)
           THEN reader' = [reader EXCEPT !.at = @ + 1, !.files = Append(@, directory.files[d])]
           ELSE reader' = Away
    /\ UNCHANGED <<shuffle, corpus, directory, backup, build>>

WriteReport ==
    /\ reader.pc = "read"
    /\ reader.at > Len(Domains)
    /\ directory' = IF directory = None THEN None
                    ELSE [directory EXCEPT !.report =
                             [files |-> reader.files, raced |-> reader.raced]]
    /\ reader' = Away
    /\ UNCHANGED <<shuffle, corpus, backup, build>>

Next ==
    \/ Start \/ LoadCorpus \/ CheckBreaks \/ CheckExisting \/ Adapt \/ SelectDomain \/ Combine
    \/ MoveAway \/ MoveIn \/ MoveFails \/ Leave \/ Kill
    \/ Republish \/ Damage
    \/ ReaderStarts \/ ReadDomain \/ WriteReport

Spec == Init /\ [][Next]_vars

-----------------------------------------------------------------------------
(***************************************************************************)
(* Properties                                                              *)
(***************************************************************************)
\* What a calibration build of a policy is: per domain, distinct records of
\* the stripped and segmented parent it names that reach the target, beside
\* a holdout that reaches its own, and the mixed file holds all of them.
IsBuildOf(policy, files) ==
    LET available == ToSet(Target[policy.corpus])
        ids(records) == {r.id : r \in records}
        held(d) == {r \in files["holdout"] : r.domain = d}
    IN  /\ files["combined"] = UNION {ToSet(files[d]) : d \in DomainSet}
        /\ files["combined"] \cup files["holdout"] \subseteq available
        /\ \A d \in DomainSet :
              /\ \A r \in ToSet(files[d]) : r.domain = d
              /\ Len(files[d]) = Cardinality(ids(ToSet(files[d])))
              /\ TokensOf(files[d]) >= policy.target
              /\ Sum([r \in held(d) |-> Tokens(r)]) >= policy.holdout

\* Whatever the parent, the directory and the reader did meanwhile, the files
\* a manifest signs are a build of the policy it states: of the parent whose
\* digest it names, not of the one in place at the publication.
PublishedIsABuild ==
    directory # None /\ directory.manifest # Garbage =>
        IsBuildOf(directory.manifest.policy, directory.manifest.files)

\* No record kept back for measuring says the same as a record the model is
\* calibrated with, in whatever domains and forms the two come, and none is a
\* near duplicate of one by their fingerprints; texts of so few features that
\* the fingerprints hold them all are none by their features either.  (Near
\* duplicates among longer texts, which the sketches miss, do remain.)
Small(record) ==
    /\ Cardinality(Starts(Len(NearKey(record)))) <= Samples
    /\ Cardinality(AllDigests(record)) <= Sketch
Unseen(h, c) ==
    /\ NearKey(h) # NearKey(c)
    /\ ~Similar(h, c)
    /\ Small(h) /\ Small(c) => ~Alike(AllDigests(h), AllDigests(c))

Seen == [h \in Candidates |-> {c \in Candidates : ~Unseen(h, c)}]

HoldoutIsUnseen ==
    directory # None /\ directory.manifest # Garbage =>
        \A h \in directory.manifest.files["holdout"] :
            directory.manifest.files["combined"] \cap Seen[h] = {}

\* A build that is taken for current is whole and made for this command line
\* and for the parent just loaded, whatever was damaged before.
CurrentIsWhole ==
    build.pc = "current" =>
        /\ \A n \in Names : build.found[n] # Garbage
        /\ IsBuildOf(Policy(build.held, build.args), build.found)

\* A build gives up for lack of tokens only where a domain is short of both
\* targets and one record more, whatever the shuffles.
ShortageIsReal ==
    build.pc = "shortage" =>
        LET records == InDomain(build.records, Domains[build.at])
            largest == Max({0} \cup {Tokens(r) : r \in ToSet(records)})
        IN  TokensOf(records) < build.args.holdout + build.args.target + largest

\* What the extractors let through, the loader of the parent accepts, and the
\* holdout never has to be refused for sharing a record with the calibration.
FailuresAreOfTheInput == build.pc \notin {"corpus error", "overlap"}

\* The coverage report beside a build was measured on the records of that
\* build, unless a publication ran between its measurement's start and end.
\* (The quantizer compares no hash, so a domain cut short or overwritten by
\* other records is measured as it lies; but then it does not match the
\* manifest beside it, where a check of the build shows it.)
ReportOfItsBuild ==
    directory # None /\ directory.report # None /\ directory.manifest # Garbage =>
        \/ directory.report.raced
        \/ \A i \in DOMAIN Domains :
               LET signed == directory.manifest.files[Domains[i]]
               IN  directory.files[Domains[i]] = signed => directory.report.files[i] = signed

\* A calibration build can be read by the quantizers it is made for: each of
\* its records is one readable line with a valid payload.
BuiltIsLoadable ==
    directory # None /\ directory.manifest # Garbage =>
        LoadableRecords(directory.manifest.files, DomainSet)

===============================================================================
