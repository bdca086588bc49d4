---------------------------- MODULE CorpusPublish ----------------------------
(***************************************************************************)
(* The shared parent corpus directory of src/prepare_calibration.py and    *)
(* the programs that race on it: `make calibrate-corpus` and               *)
(* `make recalibrate-corpus` (build_corpus), `make calibrate`              *)
(* (build_calibration, which builds an absent corpus and then loads it)    *)
(* and `make package-calibration-corpus` (package_corpus, which loads it). *)
(* No lock orders them: each step below is one file system call and the    *)
(* local computation up to the next one.                                   *)
(*                                                                         *)
(* A directory is a function from file names to versions, a version being  *)
(* the run that extracted the file and the seed of its policy; a file that *)
(* is missing, cut short or unreadable is None.  Two versions differ in    *)
(* the bytes of every file and SHA-256 tells them apart, so "the hash      *)
(* matches the manifest" is equality of versions.                          *)
(***************************************************************************)
CONSTANTS
    Run,        \* invocations; each runs main() once and its process ends
    Domain,     \* corpus domains: one <domain>.jsonl each
    Seed,       \* --seed values; corpora of two seeds differ in policy
    Job,        \* what an invocation may be asked to do
    Manifest,   \* the file manifest.json
    Release,    \* the author of a corpus unpacked from a release archive
    None,       \* an absent directory, file or value
    Inherited   \* directories that may be in place before the first run

File == Domain \union {Manifest}
Version == [by : Run \union {Release}, seed : Seed]
Directory == [File -> Version \union {None}]
Whole(v) == [f \in File |-> v]
Empty == [f \in File |-> None]

ASSUME NamesAssumption ==
    /\ Manifest \notin Domain
    /\ None \notin Version
    /\ None \notin Directory
    /\ Release \notin Run

ASSUME JobAssumption ==
    Job \subseteq [task : {"corpus", "calibrate", "package"},
                   force : BOOLEAN, seed : Seed]

\* rename(2) replaces an empty directory; corpus_dir is not one.
ASSUME InheritedAssumption == Inherited \subseteq Directory \ {Empty}

VARIABLES
    dest,       \* the directory at corpus_dir, or None
    stage,      \* stage[r]: r's staging directory, or None
    backup,     \* backup[r]: the directory r moved aside, or None
    root,       \* the runs whose backup_root directory exists
    job,        \* job[r]: the arguments of r
    leg,        \* leg[r]: which part of main() r is in
    pc,         \* pc[r]: the next file system call of r
    seen,       \* seen[r]: the version of the manifest r read, or None
    blob,       \* blob[r][d]: the version r read for domain d, or None
    temp,       \* the runs whose temporary archive file exists
    archive,    \* the release archive: the files in it, or None
    newest      \* history: the directory last installed at dest, or None

vars == <<dest, stage, backup, root, job, leg, pc, seen, blob, temp, archive, newest>>
disk == <<dest, stage, backup, root, newest>>
packing == <<temp, archive>>
loading == <<seen, blob, temp, archive>>

Ended == {"done", "failed", "stranded", "crashed"}
Pc == {"build", "calibrate", "package", "extract", "write", "move", "install",
       "installed", "restore", "purge", "fresh", "manifest", "files", "pack", "archive"}
        \union Ended

\* The corpora a reader may ever find: those in place at the start and whole
\* builds of some run.
Corpora == Inherited \union {Whole(v) : v \in Version}

\* The bytes run r extracts: a function of its pinned sources and its seed.
Build(r) == [by |-> r, seed |-> job[r].seed]

\* build_corpus's `force`: only main()'s own call passes --force-corpus on.
Forced(r) == leg[r] = "corpus" /\ job[r].force

Goto(r, step) == pc' = [pc EXCEPT ![r] = step]

(***************************************************************************)
(* main() and the entry points it calls                                    *)
(***************************************************************************)
FirstStep(j) ==
    IF j.task = "package" THEN "package"
    ELSE IF j.task = "corpus" \/ j.force THEN "build" ELSE "calibrate"

Init ==
    /\ dest \in Inherited \union {None}
    /\ stage = [r \in Run |-> None]
    /\ backup = [r \in Run |-> None]
    /\ root = {}
    /\ job \in [Run -> Job]
    /\ leg = [r \in Run |-> "corpus"]
    /\ pc = [r \in Run |-> FirstStep(job[r])]
    /\ seen = [r \in Run |-> None]
    /\ blob = [r \in Run |-> [d \in Domain |-> None]]
    /\ temp = {}
    /\ archive = None
    /\ newest = dest

\* build_corpus: a corpus that is present is validated, not rebuilt.
CheckBuild(r) ==
    /\ pc[r] = "build"
    /\ Goto(r, IF dest # None /\ ~Forced(r) THEN "manifest" ELSE "extract")
    /\ UNCHANGED <<disk, job, leg, loading>>

\* build_calibration: only an absent corpus is built first.
CheckCalibrate(r) ==
    /\ pc[r] = "calibrate"
    /\ leg' = [leg EXCEPT ![r] = IF dest = None THEN "ensure" ELSE "use"]
    /\ Goto(r, IF dest = None THEN "build" ELSE "manifest")
    /\ UNCHANGED <<disk, job, loading>>

\* package_corpus: a corpus that is not a directory is refused.
CheckPackage(r) ==
    /\ pc[r] = "package"
    /\ leg' = [leg EXCEPT ![r] = "use"]
    /\ Goto(r, IF dest = None THEN "failed" ELSE "manifest")
    /\ UNCHANGED <<disk, job, loading>>

\* Where a run goes when its build_corpus call returns.
AfterBuild(r) ==
    IF leg[r] = "ensure" THEN "manifest"
    ELSE IF job[r].task = "corpus" THEN "done" ELSE "calibrate"

ReturnFromBuild(r) ==
    /\ Goto(r, AfterBuild(r))
    /\ leg' = [leg EXCEPT ![r] = IF leg[r] = "ensure" THEN "use" ELSE leg[r]]

(***************************************************************************)
(* build_corpus, _stage_and_publish and _publish_directory                 *)
(***************************************************************************)
\* An exception leaves _stage_and_publish: its finally removes the stage.
Abort(r, end) ==
    /\ stage' = [stage EXCEPT ![r] = None]
    /\ Goto(r, end)

\* Every source is extracted, then the staging directory is created.
Extract(r) ==
    /\ pc[r] = "extract"
    /\ stage' = [stage EXCEPT ![r] = Empty]
    /\ Goto(r, "write")
    /\ UNCHANGED <<dest, backup, root, newest, job, leg, loading>>

\* A source cannot be loaded, is malformed or yields too few records.
ExtractFails(r) ==
    /\ pc[r] = "extract"
    /\ Goto(r, "failed")
    /\ UNCHANGED <<disk, job, leg, loading>>

\* The domain files are written first, the manifest last.
WriteFile(r) ==
    /\ pc[r] = "write"
    /\ \E f \in File :
        /\ stage[r][f] = None
        /\ f = Manifest => \A d \in Domain : stage[r][d] # None
        /\ stage' = [stage EXCEPT ![r][f] = Build(r)]
    /\ UNCHANGED <<dest, backup, root, newest, job, leg, pc, loading>>

WriteFails(r) ==
    /\ pc[r] = "write"
    /\ Abort(r, "failed")
    /\ UNCHANGED <<dest, backup, root, newest, job, leg, loading>>

\* Fault: the stage is published before the last file is in it.
CheckDestinationEarly(r) ==
    /\ pc[r] = "write"
    /\ \A d \in Domain : stage[r][d] # None
    /\ root' = IF dest = None THEN root ELSE root \union {r}
    /\ Goto(r, IF dest = None THEN "fresh" ELSE "move")
    /\ UNCHANGED <<dest, stage, backup, newest, job, leg, loading>>

\* `destination.exists()` of _publish_directory, and mkdtemp of backup_root.
CheckDestination(r) ==
    /\ pc[r] = "write"
    /\ \A f \in File : stage[r][f] # None
    /\ root' = IF dest = None THEN root ELSE root \union {r}
    /\ Goto(r, IF dest = None THEN "fresh" ELSE "move")
    /\ UNCHANGED <<dest, stage, backup, newest, job, leg, loading>>

\* destination.replace(backup)
MoveAside(r) ==
    /\ pc[r] = "move"
    /\ dest # None
    /\ backup' = [backup EXCEPT ![r] = dest]
    /\ dest' = None
    /\ Goto(r, "install")
    /\ UNCHANGED <<stage, root, newest, job, leg, loading>>

\* The rename fails, for one because another run has moved the directory.
\* backup_root was created outside the try and stays behind.
MoveFails(r) ==
    /\ pc[r] = "move"
    /\ Abort(r, "failed")
    /\ UNCHANGED <<dest, backup, root, newest, job, leg, loading>>

\* A signal handler raises after the rename and before the try: nothing
\* moves the old directory back.
InterruptBeforeTry(r) ==
    /\ pc[r] = "install"
    /\ Abort(r, "stranded")
    /\ UNCHANGED <<dest, backup, root, newest, job, leg, loading>>

\* rename(2) of the stage onto a name that is free.
Occupy(r) ==
    /\ dest = None
    /\ dest' = stage[r]
    /\ newest' = stage[r]
    /\ stage' = [stage EXCEPT ![r] = None]

\* stage.replace(destination) inside the try
Install(r) ==
    /\ pc[r] = "install"
    /\ Occupy(r)
    /\ Goto(r, "installed")
    /\ UNCHANGED <<backup, root, job, leg, loading>>

\* Fault: the except clause does not move the old directory back.
InstallFailsNoRestore(r) ==
    /\ pc[r] = "install"
    /\ Abort(r, "failed")
    /\ UNCHANGED <<dest, backup, root, newest, job, leg, loading>>

\* It fails: ENOTEMPTY when another run has filled the name, or an I/O error.
InstallFails(r) ==
    /\ pc[r] = "install"
    /\ Goto(r, "restore")
    /\ UNCHANGED <<disk, job, leg, loading>>

\* `except BaseException` also catches a signal that arrives in the rename.
InterruptInTry(r) ==
    /\ pc[r] = "installed"
    /\ Goto(r, "restore")
    /\ UNCHANGED <<disk, job, leg, loading>>

\* backup.replace(destination), then rmtree of the emptied backup_root
Restore(r) ==
    /\ pc[r] = "restore"
    /\ dest = None
    /\ dest' = backup[r]
    /\ backup' = [backup EXCEPT ![r] = None]
    /\ root' = root \ {r}
    /\ Abort(r, "failed")
    /\ UNCHANGED <<newest, job, leg, loading>>

\* ENOTEMPTY: the name is taken, and the old directory stays in backup_root.
RestoreBlocked(r) ==
    /\ pc[r] = "restore"
    /\ dest # None
    /\ Abort(r, "failed")
    /\ UNCHANGED <<dest, backup, root, newest, job, leg, loading>>

\* Fault: backup_root is removed in a finally, even when the rename back failed.
RestoreFailsAndPurges(r) ==
    /\ pc[r] = "restore"
    /\ Abort(r, "stranded")
    /\ backup' = [backup EXCEPT ![r] = None]
    /\ root' = root \ {r}
    /\ UNCHANGED <<dest, newest, job, leg, loading>>

\* The rename back fails for another reason, or a second signal arrives.
RestoreFails(r) ==
    /\ pc[r] = "restore"
    /\ Abort(r, "stranded")
    /\ UNCHANGED <<dest, backup, root, newest, job, leg, loading>>

\* shutil.rmtree(backup_root) removes one file at a time.
PurgeFile(r) ==
    /\ pc[r] \in {"installed", "purge"}
    /\ \E f \in File :
        /\ backup[r][f] # None
        /\ backup' = [backup EXCEPT ![r][f] = None]
    /\ Goto(r, "purge")
    /\ UNCHANGED <<dest, stage, root, newest, job, leg, loading>>

\* Fault: the moved directory is removed, its backup_root is not.
PurgeDoneKeepsRoot(r) ==
    /\ pc[r] \in {"installed", "purge"}
    /\ backup[r] = Empty
    /\ backup' = [backup EXCEPT ![r] = None]
    /\ ReturnFromBuild(r)
    /\ UNCHANGED <<dest, stage, root, newest, job, loading>>

PurgeDone(r) ==
    /\ pc[r] \in {"installed", "purge"}
    /\ backup[r] = Empty
    /\ backup' = [backup EXCEPT ![r] = None]
    /\ root' = root \ {r}
    /\ ReturnFromBuild(r)
    /\ UNCHANGED <<dest, stage, newest, job, loading>>

\* rmtree raises: the run fails although its build is in place.
PurgeFails(r) ==
    /\ pc[r] = "purge"
    /\ Goto(r, "failed")
    /\ UNCHANGED <<disk, job, leg, loading>>

\* The else branch: stage.replace(destination) onto an absent destination
FreshInstall(r) ==
    /\ pc[r] = "fresh"
    /\ Occupy(r)
    /\ ReturnFromBuild(r)
    /\ UNCHANGED <<backup, root, job, loading>>

FreshFails(r) ==
    /\ pc[r] = "fresh"
    /\ Abort(r, "failed")
    /\ UNCHANGED <<dest, backup, root, newest, job, leg, loading>>

(***************************************************************************)
(* load_corpus and load_corpus_artifacts                                   *)
(***************************************************************************)
\* Fault: the policy in the manifest is not compared.
ReadManifestAnyPolicy(r) ==
    /\ pc[r] = "manifest"
    /\ dest # None
    /\ dest[Manifest] # None
    /\ seen' = [seen EXCEPT ![r] = dest[Manifest]]
    /\ blob' = [blob EXCEPT ![r] = [d \in Domain |-> None]]
    /\ Goto(r, "files")
    /\ UNCHANGED <<disk, job, leg, packing>>

\* manifest.json is read, and its policy must be the policy of r's seed.
ReadManifest(r) ==
    /\ pc[r] = "manifest"
    /\ dest # None
    /\ dest[Manifest] # None
    /\ dest[Manifest].seed = job[r].seed
    /\ seen' = [seen EXCEPT ![r] = dest[Manifest]]
    /\ blob' = [blob EXCEPT ![r] = [d \in Domain |-> None]]
    /\ Goto(r, "files")
    /\ UNCHANGED <<disk, job, leg, packing>>

\* Fault: size and hash are not compared with the manifest's.
ReadFileUnchecked(r) ==
    /\ pc[r] = "files"
    /\ dest # None
    /\ \E d \in Domain :
        /\ blob[r][d] = None
        /\ dest[d] # None
        /\ blob' = [blob EXCEPT ![r][d] = dest[d]]
    /\ UNCHANGED <<disk, job, leg, pc, seen, packing>>

\* A domain file is opened by its path, under whatever directory now bears
\* the name, and must have the size and hash the manifest gives.
ReadFile(r) ==
    /\ pc[r] = "files"
    /\ dest # None
    /\ \E d \in Domain :
        /\ blob[r][d] = None
        /\ dest[d] = seen[r]
        /\ blob' = [blob EXCEPT ![r][d] = dest[d]]
    /\ UNCHANGED <<disk, job, leg, pc, seen, packing>>

\* CorpusError: missing directory or file, wrong policy, size or hash.
LoadFails(r) ==
    /\ pc[r] \in {"manifest", "files"}
    /\ Goto(r, "failed")
    /\ UNCHANGED <<disk, job, leg, loading>>

\* Every file is verified: build_corpus finds the corpus current, and
\* build_calibration and package_corpus get the records or the payload.
Loaded(r) ==
    /\ pc[r] = "files"
    /\ \A d \in Domain : blob[r][d] # None
    /\ IF leg[r] = "use"
         THEN Goto(r, IF job[r].task = "package" THEN "pack" ELSE "done") /\ UNCHANGED leg
         ELSE ReturnFromBuild(r)
    /\ UNCHANGED <<disk, job, loading>>

(***************************************************************************)
(* package_corpus: the archive is made of the bytes that were verified,    *)
(* written to a temporary file beside the output, and renamed.             *)
(***************************************************************************)
Packed(r) == [f \in File |-> IF f = Manifest THEN seen[r] ELSE blob[r][f]]

\* Fault: the archive is written under its own name.
WriteArchiveInPlace(r) ==
    /\ pc[r] = "pack"
    /\ archive' = Empty
    /\ temp' = temp \union {r}
    /\ Goto(r, "archive")
    /\ UNCHANGED <<disk, job, leg, seen, blob>>

WriteArchive(r) ==
    /\ pc[r] = "pack"
    /\ temp' = temp \union {r}
    /\ Goto(r, "archive")
    /\ UNCHANGED <<disk, job, leg, seen, blob, archive>>

\* The output lies in the corpus or is a directory, or the write fails: the
\* temporary file, whose name is known before the write, is unlinked.
WriteArchiveFails(r) ==
    /\ pc[r] = "pack"
    /\ Goto(r, "failed")
    /\ UNCHANGED <<disk, job, leg, loading>>

InstallArchive(r) ==
    /\ pc[r] = "archive"
    /\ archive' = Packed(r)
    /\ temp' = temp \ {r}
    /\ Goto(r, "done")
    /\ UNCHANGED <<disk, job, leg, seen, blob>>

\* Fault: only a write that failed is cleaned up after.
InstallArchiveFailsWithTemp(r) ==
    /\ pc[r] = "archive"
    /\ Goto(r, "failed")
    /\ UNCHANGED <<disk, job, leg, loading>>

InstallArchiveFails(r) ==
    /\ pc[r] = "archive"
    /\ temp' = temp \ {r}
    /\ Goto(r, "failed")
    /\ UNCHANGED <<disk, job, leg, seen, blob, archive>>

(***************************************************************************)
(* A process dies: its directories stay where they are, for good.          *)
(***************************************************************************)
Crash(r) ==
    /\ pc[r] \notin Ended
    /\ Goto(r, "crashed")
    /\ UNCHANGED <<disk, job, leg, loading>>

Enter(r) == CheckBuild(r) \/ CheckCalibrate(r) \/ CheckPackage(r)

Staging(r) ==
    \/ Extract(r) \/ ExtractFails(r)
    \/ WriteFile(r) \/ WriteFails(r)
    \/ CheckDestination(r)

Swap(r) ==
    \/ MoveAside(r) \/ MoveFails(r) \/ InterruptBeforeTry(r)
    \/ Install(r) \/ InstallFails(r) \/ InterruptInTry(r)

Undo(r) == Restore(r) \/ RestoreBlocked(r) \/ RestoreFails(r)

Purge(r) == PurgeFile(r) \/ PurgeDone(r) \/ PurgeFails(r)

Fresh(r) == FreshInstall(r) \/ FreshFails(r)

Load(r) == ReadManifest(r) \/ ReadFile(r) \/ LoadFails(r) \/ Loaded(r)

Pack(r) ==
    \/ WriteArchive(r) \/ WriteArchiveFails(r)
    \/ InstallArchive(r) \/ InstallArchiveFails(r)

Step(r) ==
    \/ Enter(r)
    \/ Staging(r)
    \/ Swap(r)
    \/ Undo(r)
    \/ Purge(r)
    \/ Fresh(r)
    \/ Load(r)
    \/ Pack(r)

\* Every process has ended and the directories stay as they are.
Quiet ==
    /\ \A r \in Run : pc[r] \in Ended
    /\ UNCHANGED vars

Next ==
    \/ \E r \in Run : Step(r) \/ Crash(r)
    \/ Quiet

Spec == Init /\ [][Next]_vars

\* The operating system runs every process that has not ended.
FairSpec == Spec /\ \A r \in Run : WF_vars(Step(r))

-----------------------------------------------------------------------------
(***************************************************************************)
(* Properties                                                              *)
(***************************************************************************)
\* Every variable holds a value of the program: names of steps, directories,
\* versions, and for each run what it has read.
TypeOK ==
    /\ dest \in Directory \union {None}
    /\ stage \in [Run -> Directory \union {None}]
    /\ backup \in [Run -> Directory \union {None}]
    /\ root \subseteq Run
    /\ job \in [Run -> Job]
    /\ leg \in [Run -> {"corpus", "ensure", "use"}]
    /\ pc \in [Run -> Pc]
    /\ seen \in [Run -> Version \union {None}]
    /\ blob \in [Run -> [Domain -> Version \union {None}]]
    /\ temp \subseteq Run
    /\ archive \in Directory \union {None}
    /\ newest \in Directory \union {None}

\* The destination only ever bears a directory that was there before or a
\* whole build: staging, failed writes, crashes and the removal of backups
\* never show a partial corpus under corpus_dir (_stage_and_publish writes
\* everything before it renames, _publish_directory removes only what it
\* moved away).
DestinationIsWhole == dest # None => dest \in Corpora

\* The build installed last survives every race of publishers, every failed
\* rename and every crash: it is at the destination or lies whole in a backup
\* that nobody is removing (the order of _publish_directory: rmtree of
\* backup_root only after the run's own build took the name).
NewestSurvives ==
    newest # None =>
        \/ dest = newest
        \/ \E r \in Run : backup[r] = newest /\ pc[r] \notin {"installed", "purge"}

\* Once a corpus was there, its absence is always somebody's doing: a run in
\* the middle of the swap, one that crashed there, or one that was
\* interrupted or refused while it put the old corpus back.  In particular,
\* when every run has ended as done or failed, the corpus is in place (the
\* except clause of _publish_directory).
AbsentMeansHeld ==
    dest = None /\ newest # None =>
        \E r \in Run : /\ backup[r] \in Corpora
                      /\ pc[r] \in {"install", "restore", "crashed", "stranded"}

\* A load that succeeds hands out one build, whole and of the caller's own
\* policy, although each file is opened by path while other runs swap the
\* directory beneath it (the hash checks of _validated_corpus_manifest).  So
\* is the release archive, wherever the packagers that write it are stopped.
LoadsAreSnapshots ==
    /\ \A r \in Run : pc[r] = "done" /\ leg[r] = "use" =>
          \E v \in Version : /\ v.seed = job[r].seed
                            /\ blob[r] = [d \in Domain |-> v]
    /\ archive # None => \E v \in Version : archive = Whole(v)

\* A run that reports success leaves no staging or backup directory behind:
\* the finally of _stage_and_publish and the rmtree calls of
\* _publish_directory cover every way to "done".  A packager leaves no
\* temporary file behind, whether it succeeds or fails.
LeavesNoLitter ==
    \A r \in Run :
        /\ pc[r] = "done" => stage[r] = None /\ backup[r] = None /\ r \notin root
        /\ pc[r] \in {"done", "failed"} => r \notin temp

\* The time without a corpus ends: some run puts one back, unless a run died
\* or was stopped in the middle of its swap.
GapCloses ==
    dest = None /\ newest # None
        ~> dest # None \/ \E r \in Run : pc[r] \in {"crashed", "stranded"}

\* What the load of run r has returned to its caller, or a packager packed.
Answer(r) == IF pc[r] = "done" /\ leg[r] = "use" THEN blob[r] ELSE None

\* The directory as the register its callers take it for.
Store == INSTANCE CorpusStore WITH
    corpus <- dest,
    want <- [r \in Run |-> job[r].seed],
    candidate <- seen,
    answer <- [r \in Run |-> Answer(r)]

\* The publishing and loading code implements that register: the destination
\* never changes in place, and an answer is what the destination was at the
\* moment the manifest was read (_publish_directory, load_corpus).
ImplementsStore == Store!Spec

=============================================================================
