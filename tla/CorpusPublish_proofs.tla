------------------------ MODULE CorpusPublish_proofs -------------------------
(***************************************************************************)
(* Proofs about CorpusPublish for any set of runs, domains, seeds and jobs *)
(* and any directories found in place at the start.                        *)
(*                                                                         *)
(* The properties speak of the destination, but what keeps them true is    *)
(* what each run holds while it is between two calls: StageShape and       *)
(* BackupShape say so for its directories and LoadShape for what it has    *)
(* read.  With the three of them the properties are inductive.             *)
(***************************************************************************)
EXTENDS CorpusPublish, TLAPS

Building == {"build", "extract", "write", "move", "install", "installed",
             "restore", "purge", "fresh"}

\* build_corpus runs in the first two legs only.
LegShape == \A r \in Run : pc[r] \in Building => leg[r] \in {"corpus", "ensure"}

\* A run owns a stage while it writes it, whole once it is to be renamed.
StageShape ==
    \A r \in Run :
        /\ pc[r] = "write" =>
              /\ stage[r] \in Directory
              /\ \A f \in File : stage[r][f] \in {None, Build(r)}
        /\ pc[r] \in {"move", "install", "fresh"} => stage[r] = Whole(Build(r))
        /\ pc[r] \in {"build", "calibrate", "package", "extract", "installed",
                      "purge", "manifest", "files", "pack", "archive", "done"} => stage[r] = None

\* A run has moved a directory aside exactly while it is swapping, and until
\* it purges it the directory is as it was.
BackupShape ==
    \A r \in Run :
        /\ pc[r] \in {"install", "installed", "restore"} => backup[r] \in Corpora
        /\ pc[r] = "purge" => backup[r] \in Directory
        /\ pc[r] \in {"build", "calibrate", "package", "extract", "write", "move",
                      "fresh", "manifest", "files", "pack", "archive", "done"} => backup[r] = None
        /\ pc[r] \in {"build", "calibrate", "package", "extract", "write",
                      "fresh", "manifest", "files", "pack", "archive", "done"} => r \notin root

\* What a run has read agrees with the manifest it read.
LoadShape ==
    \A r \in Run :
        /\ pc[r] \in {"files", "pack", "archive"} \/ (pc[r] = "done" /\ leg[r] = "use") =>
              /\ seen[r] \in Version
              /\ seen[r].seed = job[r].seed
              /\ \A d \in Domain : blob[r][d] \in {None, seen[r]}
        /\ pc[r] \in {"pack", "archive"} => leg[r] = "use"
        /\ pc[r] \in {"pack", "archive"} \/ (pc[r] = "done" /\ leg[r] = "use") =>
              \A d \in Domain : blob[r][d] # None

\* The archive is whole, and only a packager about to rename one, or one that
\* died, has a temporary file.
PackShape ==
    /\ archive # None => \E v \in Version : archive = Whole(v)
    /\ \A r \in temp : pc[r] \in {"archive", "crashed"}

Shape == LegShape /\ StageShape /\ BackupShape /\ LoadShape /\ PackShape

IInv == TypeOK /\ Shape /\ DestinationIsWhole /\ NewestSurvives /\ AbsentMeansHeld

-----------------------------------------------------------------------------
LEMMA BuildIsVersion ==
    ASSUME TypeOK, NEW r \in Run
    PROVE  Build(r) \in Version
<1>1. job[r] \in Job
  BY DEF TypeOK
<1>2. job[r].seed \in Seed
  BY <1>1, JobAssumption
<1> QED
  BY <1>2 DEF Build, Version

LEMMA WholeIsDirectory ==
    ASSUME NEW v \in Version
    PROVE  /\ Whole(v) \in Directory
           /\ Whole(v) \in Corpora
           /\ \A f \in File : Whole(v)[f] = v
BY DEF Whole, Directory, Corpora

LEMMA CorporaAreDirectories == Corpora \subseteq Directory
BY WholeIsDirectory, InheritedAssumption DEF Corpora

LEMMA TypeInit == Init => TypeOK
<1> SUFFICES ASSUME Init PROVE TypeOK
  OBVIOUS
<1>1. dest \in Directory \union {None}
  BY InheritedAssumption DEF Init
<1>2. pc \in [Run -> Pc]
  BY DEF Init, FirstStep, Pc
<1> QED
  BY <1>1, <1>2 DEF Init, TypeOK, Directory

\* Types: a stage or a backup that is written to is a directory (StageShape,
\* BackupShape), and what is renamed into place is one, too.
LEMMA TypeStep ==
    ASSUME IInv, NEW r \in Run, Step(r) \/ Crash(r)
    PROVE  TypeOK'
<1>0. /\ Build(r) \in Version
      /\ Corpora \subseteq Directory
      /\ Whole(Build(r)) \in Directory
  BY BuildIsVersion, CorporaAreDirectories, WholeIsDirectory DEF IInv
<1> USE DEF IInv, Shape, Goto, Abort, Ended, disk, loading, packing, ReturnFromBuild, AfterBuild,
           Occupy, TypeOK, StageShape, BackupShape, DestinationIsWhole, Directory,
           Empty, File, Pc
<1>1. CASE Enter(r)
  BY <1>1, <1>0 DEF Enter, CheckBuild, CheckCalibrate, CheckPackage
<1>2. CASE Staging(r)
  <2>1. CASE Extract(r)
    BY <2>1, <1>0 DEF Extract
  <2>2. CASE ExtractFails(r)
    BY <2>2, <1>0 DEF ExtractFails
  <2>3. CASE WriteFile(r)
    <3>1. PICK f \in File : stage' = [stage EXCEPT ![r][f] = Build(r)]
      BY <2>3 DEF WriteFile
    <3>2. [stage[r] EXCEPT ![f] = Build(r)] \in Directory
      BY <2>3, <1>0 DEF WriteFile
    <3>3. stage' \in [Run -> Directory \union {None}]
      BY <3>1, <3>2
    <3> QED
      BY <2>3, <3>3 DEF WriteFile
  <2>4. CASE WriteFails(r)
    BY <2>4, <1>0 DEF WriteFails
  <2>5. CASE CheckDestination(r)
    BY <2>5, <1>0 DEF CheckDestination
  <2> QED
    BY <1>2, <2>1, <2>2, <2>3, <2>4, <2>5 DEF Staging
<1>3. CASE Swap(r)
  <2>1. CASE MoveAside(r)
    BY <2>1, <1>0 DEF MoveAside
  <2>2. CASE MoveFails(r)
    BY <2>2, <1>0 DEF MoveFails
  <2>3. CASE InterruptBeforeTry(r)
    BY <2>3, <1>0 DEF InterruptBeforeTry
  <2>4. CASE Install(r)
    BY <2>4, <1>0 DEF Install
  <2>5. CASE InstallFails(r)
    BY <2>5, <1>0 DEF InstallFails
  <2>6. CASE InterruptInTry(r)
    BY <2>6, <1>0 DEF InterruptInTry
  <2> QED
    BY <1>3, <2>1, <2>2, <2>3, <2>4, <2>5, <2>6 DEF Swap
<1>4. CASE Undo(r)
  <2>1. CASE Restore(r)
    BY <2>1, <1>0 DEF Restore
  <2>2. CASE RestoreBlocked(r)
    BY <2>2, <1>0 DEF RestoreBlocked
  <2>3. CASE RestoreFails(r)
    BY <2>3, <1>0 DEF RestoreFails
  <2> QED
    BY <1>4, <2>1, <2>2, <2>3 DEF Undo
<1>5. CASE Purge(r)
  <2>1. CASE PurgeFile(r)
    <3>1. PICK f \in File : backup' = [backup EXCEPT ![r][f] = None]
      BY <2>1 DEF PurgeFile
    <3>2. [backup[r] EXCEPT ![f] = None] \in Directory
      BY <2>1, <1>0 DEF PurgeFile
    <3>3. backup' \in [Run -> Directory \union {None}]
      BY <3>1, <3>2
    <3> QED
      BY <2>1, <3>3 DEF PurgeFile
  <2>2. CASE PurgeDone(r)
    BY <2>2, <1>0 DEF PurgeDone
  <2>3. CASE PurgeFails(r)
    BY <2>3, <1>0 DEF PurgeFails
  <2> QED
    BY <1>5, <2>1, <2>2, <2>3 DEF Purge
<1>6. CASE Fresh(r)
  <2>1. CASE FreshInstall(r)
    BY <2>1, <1>0 DEF FreshInstall
  <2>2. CASE FreshFails(r)
    BY <2>2, <1>0 DEF FreshFails
  <2> QED
    BY <1>6, <2>1, <2>2 DEF Fresh
<1>7. CASE Load(r)
  <2>1. CASE ReadManifest(r)
    BY <2>1, <1>0 DEF ReadManifest
  <2>2. CASE ReadFile(r)
    <3>1. PICK d \in Domain : /\ dest[d] = seen[r]
                              /\ blob' = [blob EXCEPT ![r][d] = dest[d]]
      BY <2>2 DEF ReadFile
    <3>2. [blob[r] EXCEPT ![d] = seen[r]] \in [Domain -> Version \union {None}]
      OBVIOUS
    <3>3. blob' \in [Run -> [Domain -> Version \union {None}]]
      BY <3>1, <3>2
    <3> QED
      BY <2>2, <3>3 DEF ReadFile
  <2>3. CASE LoadFails(r)
    BY <2>3, <1>0 DEF LoadFails
  <2>4. CASE Loaded(r)
    BY <2>4, <1>0 DEF Loaded
  <2> QED
    BY <1>7, <2>1, <2>2, <2>3, <2>4 DEF Load
<1>8. CASE Pack(r)
  <2>1. CASE InstallArchive(r)
    <3>1. Packed(r) \in Directory
      BY DEF Packed
    <3> QED
      BY <2>1, <3>1 DEF InstallArchive
  <2>2. CASE WriteArchive(r) \/ WriteArchiveFails(r) \/ InstallArchiveFails(r)
    BY <2>2 DEF WriteArchive, WriteArchiveFails, InstallArchiveFails
  <2> QED
    BY <1>8, <2>1, <2>2 DEF Pack
<1>9. CASE Crash(r)
  BY <1>9, <1>0 DEF Crash
<1> QED
  BY <1>1, <1>2, <1>3, <1>4, <1>5, <1>6, <1>7, <1>8, <1>9 DEF Step


\* A run enters build_corpus from the first leg or on its way to load.
LEMMA LegStep ==
    ASSUME IInv, NEW r \in Run, Step(r) \/ Crash(r)
    PROVE  LegShape'
<1> USE DEF IInv, Shape, Goto, Abort, disk, loading, packing, ReturnFromBuild, AfterBuild, Occupy,
           TypeOK, LegShape, Building, Ended
<1>1. CASE Enter(r)
  BY <1>1 DEF Enter, CheckBuild, CheckCalibrate, CheckPackage
<1>2. CASE Staging(r)
  BY <1>2 DEF Staging, Extract, ExtractFails, WriteFile, WriteFails, CheckDestination
<1>3. CASE Swap(r)
  BY <1>3 DEF Swap, MoveAside, MoveFails, InterruptBeforeTry, Install, InstallFails, InterruptInTry
<1>4. CASE Undo(r)
  BY <1>4 DEF Undo, Restore, RestoreBlocked, RestoreFails
<1>5. CASE Purge(r)
  BY <1>5 DEF Purge, PurgeFile, PurgeDone, PurgeFails
<1>6. CASE Fresh(r)
  BY <1>6 DEF Fresh, FreshInstall, FreshFails
<1>7. CASE Load(r)
  BY <1>7 DEF Load, ReadManifest, ReadFile, LoadFails, Loaded
<1>8. CASE Pack(r)
  BY <1>8 DEF Pack, WriteArchive, WriteArchiveFails, InstallArchive, InstallArchiveFails
<1>9. CASE Crash(r)
  BY <1>9 DEF Crash
<1> QED
  BY <1>1, <1>2, <1>3, <1>4, <1>5, <1>6, <1>7, <1>8, <1>9 DEF Step


\* Only WriteFile fills a stage, and only a full one leaves "write".
LEMMA StageStep ==
    ASSUME IInv, NEW r \in Run, Step(r) \/ Crash(r)
    PROVE  StageShape'
<1>0. Build(r) \in Version
  BY BuildIsVersion DEF IInv
<1> USE DEF IInv, Shape, Goto, Abort, disk, loading, packing, ReturnFromBuild, AfterBuild, Occupy,
           TypeOK, LegShape, Building, StageShape, Build, Directory, Empty, Whole,
           Ended
<1>1. CASE Enter(r)
  BY <1>1, <1>0 DEF Enter, CheckBuild, CheckCalibrate, CheckPackage
<1>2. CASE Staging(r)
  <2>1. CASE Extract(r)
    BY <2>1, <1>0 DEF Extract
  <2>2. CASE ExtractFails(r)
    BY <2>2, <1>0 DEF ExtractFails
  <2>3. CASE WriteFile(r)
    BY <2>3, <1>0 DEF WriteFile
  <2>4. CASE WriteFails(r)
    BY <2>4, <1>0 DEF WriteFails
  <2>5. CASE CheckDestination(r)
    BY <2>5, <1>0 DEF CheckDestination
  <2> QED
    BY <1>2, <2>1, <2>2, <2>3, <2>4, <2>5 DEF Staging
<1>3. CASE Swap(r)
  <2>1. CASE MoveAside(r) \/ MoveFails(r) \/ InterruptBeforeTry(r)
    BY <2>1, <1>0 DEF MoveAside, MoveFails, InterruptBeforeTry
  <2>2. CASE Install(r)
    BY <2>2, <1>0 DEF Install
  <2>3. CASE InstallFails(r) \/ InterruptInTry(r)
    BY <2>3, <1>0 DEF InstallFails, InterruptInTry
  <2> QED
    BY <1>3, <2>1, <2>2, <2>3 DEF Swap
<1>4. CASE Undo(r)
  BY <1>4, <1>0 DEF Undo, Restore, RestoreBlocked, RestoreFails
<1>5. CASE Purge(r)
  BY <1>5, <1>0 DEF Purge, PurgeFile, PurgeDone, PurgeFails
<1>6. CASE Fresh(r)
  BY <1>6, <1>0 DEF Fresh, FreshInstall, FreshFails
<1>7. CASE Load(r)
  BY <1>7, <1>0 DEF Load, ReadManifest, ReadFile, LoadFails, Loaded
<1>8. CASE Pack(r)
  BY <1>8, <1>0 DEF Pack, WriteArchive, WriteArchiveFails, InstallArchive, InstallArchiveFails
<1>9. CASE Crash(r)
  BY <1>9, <1>0 DEF Crash
<1> QED
  BY <1>1, <1>2, <1>3, <1>4, <1>5, <1>6, <1>7, <1>8, <1>9 DEF Step


\* What is moved aside was at the destination, so it is a corpus.
LEMMA BackupStep ==
    ASSUME IInv, NEW r \in Run, Step(r) \/ Crash(r)
    PROVE  BackupShape'
<1>0. Corpora \subseteq Directory
  BY CorporaAreDirectories
<1> USE DEF IInv, Shape, Goto, Abort, disk, loading, packing, ReturnFromBuild, AfterBuild, Occupy,
           TypeOK, LegShape, Building, BackupShape, DestinationIsWhole, Directory,
           Empty, Ended
<1>1. CASE Enter(r)
  BY <1>1, <1>0 DEF Enter, CheckBuild, CheckCalibrate, CheckPackage
<1>2. CASE Staging(r)
  BY <1>2, <1>0 DEF Staging, Extract, ExtractFails, WriteFile, WriteFails, CheckDestination
<1>3. CASE Swap(r)
  BY <1>3, <1>0 DEF Swap, MoveAside, MoveFails, InterruptBeforeTry, Install, InstallFails, InterruptInTry
<1>4. CASE Undo(r)
  <2>1. CASE Restore(r)
    BY <2>1, <1>0 DEF Restore
  <2>2. CASE RestoreBlocked(r)
    BY <2>2, <1>0 DEF RestoreBlocked
  <2>3. CASE RestoreFails(r)
    BY <2>3, <1>0 DEF RestoreFails
  <2> QED
    BY <1>4, <2>1, <2>2, <2>3 DEF Undo
<1>5. CASE Purge(r)
  <2>1. CASE PurgeFile(r)
    BY <2>1, <1>0 DEF PurgeFile
  <2>2. CASE PurgeDone(r)
    BY <2>2, <1>0 DEF PurgeDone
  <2>3. CASE PurgeFails(r)
    BY <2>3, <1>0 DEF PurgeFails
  <2> QED
    BY <1>5, <2>1, <2>2, <2>3 DEF Purge
<1>6. CASE Fresh(r)
  BY <1>6, <1>0 DEF Fresh, FreshInstall, FreshFails
<1>7. CASE Load(r)
  BY <1>7, <1>0 DEF Load, ReadManifest, ReadFile, LoadFails, Loaded
<1>8. CASE Pack(r)
  BY <1>8, <1>0 DEF Pack, WriteArchive, WriteArchiveFails, InstallArchive, InstallArchiveFails
<1>9. CASE Crash(r)
  BY <1>9, <1>0 DEF Crash
<1> QED
  BY <1>1, <1>2, <1>3, <1>4, <1>5, <1>6, <1>7, <1>8, <1>9 DEF Step


\* A file is accepted only when it has the version of the manifest.
LEMMA LoadStep ==
    ASSUME IInv, NEW r \in Run, Step(r) \/ Crash(r)
    PROVE  LoadShape'
<1> USE DEF IInv, Shape, Goto, Abort, disk, loading, packing, ReturnFromBuild, AfterBuild, Occupy,
           TypeOK, LegShape, Building, LoadShape, Directory, File, Ended
<1>1. CASE Enter(r)
  BY <1>1 DEF Enter, CheckBuild, CheckCalibrate, CheckPackage
<1>2. CASE Staging(r)
  BY <1>2 DEF Staging, Extract, ExtractFails, WriteFile, WriteFails, CheckDestination
<1>3. CASE Swap(r)
  BY <1>3 DEF Swap, MoveAside, MoveFails, InterruptBeforeTry, Install, InstallFails, InterruptInTry
<1>4. CASE Undo(r)
  BY <1>4 DEF Undo, Restore, RestoreBlocked, RestoreFails
<1>5. CASE Purge(r)
  BY <1>5 DEF Purge, PurgeFile, PurgeDone, PurgeFails
<1>6. CASE Fresh(r)
  BY <1>6 DEF Fresh, FreshInstall, FreshFails
<1>7. CASE Load(r)
  BY <1>7 DEF Load, ReadManifest, ReadFile, LoadFails, Loaded
<1>8. CASE Pack(r)
  BY <1>8 DEF Pack, WriteArchive, WriteArchiveFails, InstallArchive, InstallArchiveFails
<1>9. CASE Crash(r)
  BY <1>9 DEF Crash
<1> QED
  BY <1>1, <1>2, <1>3, <1>4, <1>5, <1>6, <1>7, <1>8, <1>9 DEF Step


\* An archive is what a packager has verified.
LEMMA PackStep ==
    ASSUME IInv, NEW r \in Run, Step(r) \/ Crash(r)
    PROVE  PackShape'
<1> USE DEF IInv, Shape, Goto, Abort, disk, loading, packing, ReturnFromBuild, AfterBuild, Occupy,
           TypeOK, LoadShape, PackShape, Ended
<1>1. CASE Enter(r)
  BY <1>1 DEF Enter, CheckBuild, CheckCalibrate, CheckPackage
<1>2. CASE Staging(r)
  BY <1>2 DEF Staging, Extract, ExtractFails, WriteFile, WriteFails, CheckDestination
<1>3. CASE Swap(r)
  BY <1>3 DEF Swap, MoveAside, MoveFails, InterruptBeforeTry, Install, InstallFails, InterruptInTry
<1>4. CASE Undo(r)
  BY <1>4 DEF Undo, Restore, RestoreBlocked, RestoreFails
<1>5. CASE Purge(r)
  BY <1>5 DEF Purge, PurgeFile, PurgeDone, PurgeFails
<1>6. CASE Fresh(r)
  BY <1>6 DEF Fresh, FreshInstall, FreshFails
<1>7. CASE Load(r)
  BY <1>7 DEF Load, ReadManifest, ReadFile, LoadFails, Loaded
<1>8. CASE Pack(r)
  <2>1. CASE InstallArchive(r)
    <3>1. seen[r] \in Version /\ Packed(r) = Whole(seen[r])
      BY <2>1, NamesAssumption DEF InstallArchive, Packed, Whole, File
    <3> QED
      BY <2>1, <3>1 DEF InstallArchive
  <2>2. CASE WriteArchive(r) \/ WriteArchiveFails(r) \/ InstallArchiveFails(r)
    BY <2>2 DEF WriteArchive, WriteArchiveFails, InstallArchiveFails
  <2> QED
    BY <1>8, <2>1, <2>2 DEF Pack
<1>9. CASE Crash(r)
  BY <1>9 DEF Crash
<1> QED
  BY <1>1, <1>2, <1>3, <1>4, <1>5, <1>6, <1>7, <1>8, <1>9 DEF Step


\* The destination receives a finished stage or a backup.
LEMMA DestStep ==
    ASSUME IInv, NEW r \in Run, Step(r) \/ Crash(r)
    PROVE  DestinationIsWhole'
<1>0. Whole(Build(r)) \in Corpora
  BY BuildIsVersion, WholeIsDirectory DEF IInv
<1> USE DEF IInv, Shape, Goto, Abort, disk, loading, packing, ReturnFromBuild, AfterBuild, Occupy,
           TypeOK, StageShape, BackupShape, DestinationIsWhole
<1>1. CASE Enter(r)
  BY <1>1, <1>0 DEF Enter, CheckBuild, CheckCalibrate, CheckPackage
<1>2. CASE Staging(r)
  BY <1>2, <1>0 DEF Staging, Extract, ExtractFails, WriteFile, WriteFails, CheckDestination
<1>3. CASE Swap(r)
  BY <1>3, <1>0 DEF Swap, MoveAside, MoveFails, InterruptBeforeTry, Install, InstallFails, InterruptInTry
<1>4. CASE Undo(r)
  BY <1>4, <1>0 DEF Undo, Restore, RestoreBlocked, RestoreFails
<1>5. CASE Purge(r)
  BY <1>5, <1>0 DEF Purge, PurgeFile, PurgeDone, PurgeFails
<1>6. CASE Fresh(r)
  BY <1>6, <1>0 DEF Fresh, FreshInstall, FreshFails
<1>7. CASE Load(r)
  BY <1>7, <1>0 DEF Load, ReadManifest, ReadFile, LoadFails, Loaded
<1>8. CASE Pack(r)
  BY <1>8, <1>0 DEF Pack, WriteArchive, WriteArchiveFails, InstallArchive, InstallArchiveFails
<1>9. CASE Crash(r)
  BY <1>9, <1>0 DEF Crash
<1> QED
  BY <1>1, <1>2, <1>3, <1>4, <1>5, <1>6, <1>7, <1>8, <1>9 DEF Step


\* A run starts to purge only after its own build became the newest.
LEMMA NewestStep ==
    ASSUME IInv, NEW r \in Run, Step(r) \/ Crash(r)
    PROVE  NewestSurvives'
<1> USE DEF IInv, Shape, Goto, Abort, disk, loading, packing, ReturnFromBuild, AfterBuild, Occupy,
           TypeOK, BackupShape, StageShape, NewestSurvives, Ended
<1>1. CASE Enter(r)
  BY <1>1 DEF Enter, CheckBuild, CheckCalibrate, CheckPackage
<1>2. CASE Staging(r)
  BY <1>2 DEF Staging, Extract, ExtractFails, WriteFile, WriteFails, CheckDestination
<1>3. CASE Swap(r)
  BY <1>3 DEF Swap, MoveAside, MoveFails, InterruptBeforeTry, Install, InstallFails, InterruptInTry
<1>4. CASE Undo(r)
  BY <1>4 DEF Undo, Restore, RestoreBlocked, RestoreFails
<1>5. CASE Purge(r)
  BY <1>5 DEF Purge, PurgeFile, PurgeDone, PurgeFails
<1>6. CASE Fresh(r)
  BY <1>6 DEF Fresh, FreshInstall, FreshFails
<1>7. CASE Load(r)
  BY <1>7 DEF Load, ReadManifest, ReadFile, LoadFails, Loaded
<1>8. CASE Pack(r)
  BY <1>8 DEF Pack, WriteArchive, WriteArchiveFails, InstallArchive, InstallArchiveFails
<1>9. CASE Crash(r)
  BY <1>9 DEF Crash
<1> QED
  BY <1>1, <1>2, <1>3, <1>4, <1>5, <1>6, <1>7, <1>8, <1>9 DEF Step


\* A run lets go of the directory it holds only when the name is taken, by
\* its own build, by the directory itself or by somebody else's.
LEMMA AbsentStep ==
    ASSUME IInv, NEW r \in Run, Step(r) \/ Crash(r)
    PROVE  AbsentMeansHeld'
<1>0. Whole(Build(r)) # None /\ None \notin Corpora
  BY BuildIsVersion, WholeIsDirectory, CorporaAreDirectories, NamesAssumption
  DEF IInv
<1> USE DEF IInv, Shape, Goto, Abort, disk, loading, packing, ReturnFromBuild, AfterBuild, Occupy,
           TypeOK, BackupShape, StageShape, DestinationIsWhole, AbsentMeansHeld,
           Ended
<1>1. CASE Enter(r)
  BY <1>1, <1>0 DEF Enter, CheckBuild, CheckCalibrate, CheckPackage
<1>2. CASE Staging(r)
  BY <1>2, <1>0 DEF Staging, Extract, ExtractFails, WriteFile, WriteFails, CheckDestination
<1>3. CASE Swap(r)
  BY <1>3, <1>0 DEF Swap, MoveAside, MoveFails, InterruptBeforeTry, Install, InstallFails, InterruptInTry
<1>4. CASE Undo(r)
  BY <1>4, <1>0 DEF Undo, Restore, RestoreBlocked, RestoreFails
<1>5. CASE Purge(r)
  BY <1>5, <1>0 DEF Purge, PurgeFile, PurgeDone, PurgeFails
<1>6. CASE Fresh(r)
  BY <1>6, <1>0 DEF Fresh, FreshInstall, FreshFails
<1>7. CASE Load(r)
  BY <1>7, <1>0 DEF Load, ReadManifest, ReadFile, LoadFails, Loaded
<1>8. CASE Pack(r)
  BY <1>8, <1>0 DEF Pack, WriteArchive, WriteArchiveFails, InstallArchive, InstallArchiveFails
<1>9. CASE Crash(r)
  BY <1>9, <1>0 DEF Crash
<1> QED
  BY <1>1, <1>2, <1>3, <1>4, <1>5, <1>6, <1>7, <1>8, <1>9 DEF Step


-----------------------------------------------------------------------------
LEMMA Initially == Init => IInv
<1> SUFFICES ASSUME Init PROVE IInv
  OBVIOUS
<1>1. TypeOK
  BY TypeInit
<1>2. \A r \in Run : pc[r] \in {"build", "calibrate", "package"}
  BY DEF Init, FirstStep
<1>3. Shape
  BY <1>2 DEF Init, Shape, LegShape, StageShape, BackupShape, LoadShape, PackShape
<1>4. DestinationIsWhole /\ NewestSurvives /\ AbsentMeansHeld
  BY DEF Init, DestinationIsWhole, NewestSurvives, AbsentMeansHeld, Corpora
<1> QED
  BY <1>1, <1>3, <1>4 DEF IInv

LEMMA Inductive == IInv /\ [Next]_vars => IInv'
<1> SUFFICES ASSUME IInv, [Next]_vars PROVE IInv'
  OBVIOUS
<1>1. ASSUME NEW r \in Run, Step(r) \/ Crash(r) PROVE IInv'
  BY <1>1, TypeStep, LegStep, StageStep, BackupStep, LoadStep, PackStep, DestStep,
     NewestStep, AbsentStep DEF IInv, Shape
<1>2. CASE UNCHANGED vars
  BY <1>2 DEF vars, IInv, Shape, TypeOK, LegShape, StageShape, BackupShape,
     LoadShape, PackShape, DestinationIsWhole, NewestSurvives, AbsentMeansHeld, Build
<1> QED
  BY <1>1, <1>2 DEF Next, Quiet

\* The inductive invariant: what every run holds between two calls, and what
\* that means for the destination (the whole of prepare_calibration.py's
\* publishing and loading code).
THEOREM Invariance == Spec => []IInv
BY Initially, Inductive, PTL DEF Spec

\* Every variable keeps a value of the program, for any number of runs of
\* build_corpus, build_calibration and package_corpus.
THEOREM TypeCorrect == Spec => []TypeOK
<1>1. IInv => TypeOK
  BY DEF IInv
<1> QED
  BY <1>1, Invariance, PTL

\* corpus_dir never bears a partial corpus, whatever runs race, fail or die in
\* _stage_and_publish and _publish_directory.
THEOREM DestinationAlwaysWhole == Spec => []DestinationIsWhole
<1>1. IInv => DestinationIsWhole
  BY DEF IInv
<1> QED
  BY <1>1, Invariance, PTL

\* No race, failure or crash in _publish_directory destroys the corpus that
\* was installed last.
THEOREM NewestAlwaysSurvives == Spec => []NewestSurvives
<1>1. IInv => NewestSurvives
  BY DEF IInv
<1> QED
  BY <1>1, Invariance, PTL

\* A corpus is missing only while, or because, some run holds it: it is in
\* place whenever every run ended without a crash or an interrupted swap.
THEOREM AbsenceIsHeld == Spec => []AbsentMeansHeld
<1>1. IInv => AbsentMeansHeld
  BY DEF IInv
<1> QED
  BY <1>1, Invariance, PTL

\* load_corpus and load_corpus_artifacts return one build of the caller's
\* policy or raise, however many publishers swap the directory meanwhile.
THEOREM LoadsAlwaysSnapshots == Spec => []LoadsAreSnapshots
<1>1. IInv => LoadsAreSnapshots
  <2>0. IInv => (archive # None => \E v \in Version : archive = Whole(v))
    BY DEF IInv, Shape, PackShape
  <2> SUFFICES ASSUME IInv, NEW r \in Run, pc[r] = "done", leg[r] = "use"
               PROVE  \E v \in Version : /\ v.seed = job[r].seed
                                         /\ blob[r] = [d \in Domain |-> v]
    BY <2>0 DEF LoadsAreSnapshots
  <2>1. seen[r] \in Version /\ seen[r].seed = job[r].seed
    BY DEF IInv, Shape, LoadShape
  <2>2. \A d \in Domain : blob[r][d] = seen[r]
    BY DEF IInv, Shape, LoadShape
  <2>3. blob[r] = [d \in Domain |-> seen[r]]
    BY <2>2 DEF IInv, TypeOK
  <2> QED
    BY <2>1, <2>3
<1> QED
  BY <1>1, Invariance, PTL

\* A run that succeeds has removed its staging and its backup directory, for
\* every way through _stage_and_publish.
THEOREM SuccessIsClean == Spec => []LeavesNoLitter
<1>1. IInv => LeavesNoLitter
  BY DEF IInv, Shape, StageShape, BackupShape, PackShape, LeavesNoLitter
<1> QED
  BY <1>1, Invariance, PTL

-----------------------------------------------------------------------------
LEMMA StoreInit == Init => Store!Init
<1> SUFFICES ASSUME Init PROVE Store!Init
  OBVIOUS
<1>1. \A r \in Run : pc[r] # "done" /\ job[r] \in Job /\ job[r].seed \in Seed
  <2> SUFFICES ASSUME NEW r \in Run
               PROVE  pc[r] # "done" /\ job[r] \in Job /\ job[r].seed \in Seed
    OBVIOUS
  <2>1. job[r] \in Job
    BY DEF Init
  <2> QED
    BY <2>1, JobAssumption DEF Init, FirstStep
<1>2. dest \in Corpora \union {None}
  BY DEF Init, Corpora
<1>3. [r \in Run |-> job[r].seed] \in [Run -> Seed]
  BY <1>1
<1>4. [r \in Run |-> Answer(r)] = [r \in Run |-> None]
  BY <1>1 DEF Answer
<1> QED
  BY <1>2, <1>3, <1>4 DEF Init, Store!Init, Answer

\* A step that neither renames nor reads the manifest nor ends a load is
\* invisible in the register.
LEMMA Invisible ==
    ASSUME UNCHANGED <<dest, job, seen>>,
           \A q \in Run : Answer(q)' = Answer(q)
    PROVE  UNCHANGED Store!vars
BY DEF Store!vars, Answer

\* Renames fill or empty the register.
LEMMA RenameRefines ==
    ASSUME IInv, NEW r \in Run,
           MoveAside(r) \/ Install(r) \/ Restore(r) \/ FreshInstall(r)
    PROVE  Store!Appear \/ Store!Vanish
<1>1. \A q \in Run : Answer(q)' = Answer(q)
  BY DEF Answer, IInv, TypeOK, Shape, LegShape, Building, MoveAside, Install,
     Restore, FreshInstall, Occupy, Abort, Goto, ReturnFromBuild, AfterBuild,
     disk, loading
<1>2. UNCHANGED <<job, seen>>
  BY DEF MoveAside, Install, Restore, FreshInstall, loading
<1>3. CASE MoveAside(r)
  BY <1>1, <1>2, <1>3 DEF MoveAside, Store!Vanish, Answer
<1>4. CASE Install(r) \/ FreshInstall(r)
  <2>1. dest = None /\ dest' \in Corpora
    BY <1>4, BuildIsVersion, WholeIsDirectory
    DEF Install, FreshInstall, Occupy, IInv, Shape, StageShape
  <2> QED
    BY <1>1, <1>2, <2>1 DEF Store!Appear, Answer
<1>5. CASE Restore(r)
  <2>1. dest = None /\ dest' \in Corpora
    BY <1>5 DEF Restore, IInv, Shape, BackupShape
  <2> QED
    BY <1>1, <1>2, <2>1 DEF Store!Appear, Answer
<1> QED
  BY <1>3, <1>4, <1>5

\* Reading the manifest is the look at the register.
LEMMA ReadManifestRefines ==
    ASSUME IInv, NEW r \in Run, ReadManifest(r)
    PROVE  Store!Open(r)
<1>1. \A q \in Run : Answer(q)' = Answer(q)
  BY DEF ReadManifest, Answer, IInv, TypeOK, Goto
<1>2. Answer(r) = None
  BY DEF ReadManifest, Answer
<1> QED
  BY <1>1, <1>2 DEF ReadManifest, Store!Open, Answer, IInv, TypeOK, disk

\* A verified load, or the archive made of it, hands out the version that was
\* looked at.
LEMMA AnswerRefines ==
    ASSUME IInv, NEW r \in Run, UNCHANGED <<dest, job, seen, blob>>,
           pc[r] # "done", Goto(r, "done"), UNCHANGED leg, leg[r] = "use",
           seen[r] \in Version, \A d \in Domain : blob[r][d] = seen[r]
    PROVE  Store!Close(r)
<1>1. seen[r] # None
  BY NamesAssumption
<1>2. blob[r] = [d \in Domain |-> seen[r]]
  BY DEF IInv, TypeOK
<1>3. Answer(r) = None /\ Answer(r)' = [d \in Domain |-> seen[r]]
  BY <1>2 DEF Answer, Goto, IInv, TypeOK
<1>4. \A q \in Run : q # r => Answer(q)' = Answer(q)
  BY DEF Answer, Goto, IInv, TypeOK
<1> QED
  BY <1>1, <1>3, <1>4 DEF Store!Close, Answer

LEMMA LoadedRefines ==
    ASSUME IInv, NEW r \in Run, Loaded(r)
    PROVE  Store!Close(r) \/ UNCHANGED Store!vars
<1>1. CASE leg[r] # "use" \/ job[r].task = "package"
  <2>1. \A q \in Run : Answer(q)' = Answer(q)
    BY <1>1 DEF Loaded, Answer, IInv, TypeOK, ReturnFromBuild, AfterBuild, Goto,
       loading
  <2> QED
    BY <2>1, Invisible DEF Loaded, disk, loading
<1>2. CASE leg[r] = "use" /\ job[r].task # "package"
  <2>1. seen[r] \in Version /\ \A d \in Domain : blob[r][d] = seen[r]
    BY DEF Loaded, IInv, Shape, LoadShape
  <2> QED
    BY <1>2, <2>1, AnswerRefines DEF Loaded, disk, loading
<1> QED
  BY <1>1, <1>2

LEMMA PackRefines ==
    ASSUME IInv, NEW r \in Run, InstallArchive(r)
    PROVE  Store!Close(r)
<1>1. /\ leg[r] = "use" /\ seen[r] \in Version
      /\ \A d \in Domain : blob[r][d] = seen[r]
  BY DEF InstallArchive, IInv, Shape, LoadShape
<1> QED
  BY <1>1, AnswerRefines DEF InstallArchive, disk

LEMMA StoreStep == IInv /\ [Next]_vars => [Store!Next]_Store!vars
<1> SUFFICES ASSUME IInv, [Next]_vars PROVE Store!Next \/ UNCHANGED Store!vars
  OBVIOUS
<1>1. ASSUME NEW r \in Run, MoveAside(r) \/ Install(r) \/ Restore(r) \/ FreshInstall(r)
      PROVE  Store!Next
  BY <1>1, RenameRefines DEF Store!Next
<1>2. ASSUME NEW r \in Run, ReadManifest(r)
      PROVE  Store!Next
  BY <1>2, ReadManifestRefines DEF Store!Next
<1>3. ASSUME NEW r \in Run, Loaded(r)
      PROVE  Store!Next \/ UNCHANGED Store!vars
  BY <1>3, LoadedRefines DEF Store!Next
<1>4. ASSUME NEW r \in Run,
             \/ Enter(r) \/ Staging(r) \/ Purge(r) \/ Crash(r)
             \/ MoveFails(r) \/ InterruptBeforeTry(r) \/ InstallFails(r)
             \/ InterruptInTry(r) \/ RestoreBlocked(r) \/ RestoreFails(r)
             \/ FreshFails(r) \/ ReadFile(r) \/ LoadFails(r)
             \/ WriteArchive(r) \/ WriteArchiveFails(r) \/ InstallArchiveFails(r)
      PROVE  UNCHANGED Store!vars
  <2> USE DEF Enter, CheckBuild, CheckCalibrate, CheckPackage, Staging, Extract,
        ExtractFails, WriteFile, WriteFails, CheckDestination, Purge, PurgeFile,
        PurgeDone, PurgeFails, Crash, MoveFails, InterruptBeforeTry,
        InstallFails, InterruptInTry, RestoreBlocked, RestoreFails, FreshFails,
        ReadFile, LoadFails, WriteArchive, WriteArchiveFails, InstallArchiveFails,
        Goto, Abort, disk, loading, packing, ReturnFromBuild
  <2>1. UNCHANGED <<dest, job, seen>>
    BY <1>4
  <2>2. \A q \in Run : Answer(q)' = Answer(q)
    BY <1>4 DEF Answer, IInv, TypeOK, Shape, LegShape, Building, AfterBuild, Ended
  <2> QED
    BY <2>1, <2>2, Invisible
<1>5. ASSUME NEW r \in Run, InstallArchive(r)
      PROVE  Store!Next
  BY <1>5, PackRefines DEF Store!Next
<1>6. CASE UNCHANGED vars
  BY <1>6 DEF vars, Store!vars, Answer
<1> QED
  BY <1>1, <1>2, <1>3, <1>4, <1>5, <1>6
  DEF Next, Quiet, Step, Swap, Undo, Fresh, Load, Pack

\* The publishing and loading code implements a register that holds a whole
\* corpus or nothing and answers every successful load with one of them.
THEOREM Refinement == Spec => ImplementsStore
<1>1. Init => Store!Init
  BY StoreInit
<1>2. IInv /\ [Next]_vars => [Store!Next]_Store!vars
  BY StoreStep
<1> QED
  BY <1>1, <1>2, Invariance, PTL DEF Spec, ImplementsStore, Store!Spec

=============================================================================
