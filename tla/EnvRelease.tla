------------------------------ MODULE EnvRelease ------------------------------
(***************************************************************************)
(* The Python environments of the two servers: setup_sglang_env.sh and     *)
(* setup_vllm_env.sh build one release directory per source revision, sign *)
(* it with a manifest when it is finished, and point a symbolic link at    *)
(* it; the serve scripts look through the link, call setup when they do    *)
(* not find a current environment, and start the server through the link,  *)
(* which the server goes on using: what it imports or spawns later is      *)
(* found there.  Nothing locks a release or the link but a look at the pid *)
(* file, minutes before the link is replaced.                              *)
(*                                                                         *)
(* How the pid file and the processes can come apart is the subject of     *)
(* ServerScripts; here it names the server written to it last.             *)
(***************************************************************************)
EXTENDS FiniteSets

CONSTANTS
    Shell,      \* shells, each running one setup or serve script at a time
    Revision,   \* commits of the engine's source; a release is named by one
    Engine,     \* "sglang" or "vllm": whose scripts these are
    None, Cut

\* bin/python, how much of the packages is installed, and the manifest, cut
\* short or naming a revision.
Directory == [python : BOOLEAN,
              packages : {"none", "some", "all"},
              manifest : Revision \union {None, Cut}]
NewVenv == [python |-> TRUE, packages |-> "none", manifest |-> None]

ASSUME NamesAssumption ==
    /\ Engine \in {"sglang", "vllm"}
    /\ None \notin Revision /\ Cut \notin Revision /\ None # Cut
    /\ "directory" \notin Revision /\ "directory" # None
    /\ None \notin Directory /\ None \notin Shell

VARIABLES
    rev,        \* the revision its source is checked out at
    release,    \* release[v]: the directory of revision v, or None
    link,       \* the environment: a release it points to, None, or the
                \* plain directory an old setup left
    running,    \* running[s]: the release that the live server started in
                \* shell s was started from, or None
    pid,        \* the shell whose live server the pid file names, or None
    pc,         \* pc[s]: the next command of the script in shell s
    job,        \* job[s]: "setup" or "serve"
    goal,       \* goal[s]: the revision s read, or None
    contested,  \* history: releases that two scripts were building at a time
    torn,       \* history: no link has been made yet, or not since a script
                \* was killed, or its ln failed, after the rm of the old one
    unseen      \* history: shells whose server the check of the pid file
                \* could not see, for a script that went on to the link

vars == <<rev, release, link, running, pid, pc, job, goal, contested, torn, unseen>>
servers == <<running, pid, unseen>>
history == <<contested, torn>>
script == <<pc, job, goal>>
disk == <<release, link>>

Build == {"wipe", "venv", "install", "installing", "validate", "manifest"}
Activation == Build \union {"look", "unlink", "link"}
Steps == Activation \union {"revision", "check", "spawn", "record", "ended"}

\* The variables of setup end with it.
Goto(s, step) ==
    /\ pc' = [pc EXCEPT ![s] = step]
    /\ job' = IF step \in {"spawn", "ended"} THEN [job EXCEPT ![s] = "setup"] ELSE job
    /\ goal' = IF step \in {"spawn", "ended"} THEN [goal EXCEPT ![s] = None] ELSE goal

Begin(s, verb, step) ==
    /\ pc[s] = "ended"
    /\ pc' = [pc EXCEPT ![s] = step]
    /\ job' = [job EXCEPT ![s] = verb]
    /\ UNCHANGED goal

Exists(v) == release[v] # None

\* kill -0 of the pid in the pid file; one that has ended counts as no pid.
Running == pid # None

\* -x bin/python, -f of the manifest, and its lines naming revision v
Valid(v) == Exists(v) /\ release[v].python /\ release[v].manifest = v

Init ==
    /\ rev \in Revision
    /\ release = [v \in Revision |-> None]
    /\ link \in {None, "directory"}
    /\ running = [s \in Shell |-> None]
    /\ pid = None
    /\ pc = [s \in Shell |-> "ended"]
    /\ job = [s \in Shell |-> "setup"]
    /\ goal = [s \in Shell |-> None]
    /\ contested = {}
    /\ torn = (link = None)
    /\ unseen = {}

(***************************************************************************)
(* ensure_sglang and ensure_vllm                                           *)
(***************************************************************************)
\* serve_sglang.sh looks at the pid file first, serve_vllm.sh last, and each
\* through the link for the revision checked out now.  (Bound: a shell whose
\* server runs starts no other.)
Serve(s) ==
    /\ running[s] = None
    /\ Engine = "sglang" => ~Running
    /\ Begin(s, "serve", IF link = rev /\ Valid(rev) THEN "spawn" ELSE "revision")
    /\ UNCHANGED <<rev, disk, servers, history>>

\* A script past its check goes on to the link, whatever starts meanwhile.
Past(t) == pc[t] \in Activation

\* bin/python and bin/sglang are run by their path through the link.
Spawn(s) ==
    /\ pc[s] = "spawn"
    /\ Engine = "vllm" => ~Running
    /\ link \in Revision /\ Exists(link) /\ release[link].python
    /\ running' = [running EXCEPT ![s] = link]
    /\ unseen' = IF \E t \in Shell : Past(t) THEN unseen \union {s} ELSE unseen
    /\ Goto(s, "record")
    /\ UNCHANGED <<rev, disk, pid, history>>

\* echo "$SERVER_PID" > "$PIDFILE"; a server that another script named there
\* meanwhile is forgotten.
Record(s) ==
    /\ pc[s] = "record"
    /\ pid' = IF running[s] = None THEN None ELSE s
    /\ unseen' = unseen \union ({pid} \ {None})
    /\ Goto(s, "ended")
    /\ UNCHANGED <<rev, disk, running, history>>

(***************************************************************************)
(* setup_*_env.sh                                                          *)
(***************************************************************************)
Setup(s) ==
    /\ Begin(s, "setup", "revision")
    /\ UNCHANGED <<rev, disk, servers, history>>

\* Fault: the old environment is given up before the new one is built.
ReadRevisionUnlinks(s) ==
    /\ pc[s] = "revision"
    /\ pc' = [pc EXCEPT ![s] = "check"]
    /\ goal' = [goal EXCEPT ![s] = rev]
    /\ link' = None
    /\ UNCHANGED <<rev, release, servers, job, history>>

\* git rev-parse HEAD
ReadRevision(s) ==
    /\ pc[s] = "revision"
    /\ pc' = [pc EXCEPT ![s] = "check"]
    /\ goal' = [goal EXCEPT ![s] = rev]
    /\ UNCHANGED <<rev, disk, servers, job, history>>

\* Live servers whose script has not written the pid file yet
Unnamed == {t \in Shell : pc[t] = "record" /\ running[t] # None}

\* Fault: the pid file is not looked at.
CheckNothing(s) ==
    /\ pc[s] = "check"
    /\ unseen' = unseen \union Unnamed
    /\ Goto(s, "look")
    /\ UNCHANGED <<rev, disk, running, pid, history>>

\* Setup refuses while the server that the pid file names is running; one
\* that is not named there yet is passed over.
Check(s) ==
    /\ pc[s] = "check"
    /\ ~Running
    /\ unseen' = unseen \union Unnamed
    /\ Goto(s, "look")
    /\ UNCHANGED <<rev, disk, running, pid, history>>

Builds(s, v) == pc[s] \in Build /\ goal[s] = v

\* Fault: a release is taken for finished as soon as its directory is there.
LookForDirectory(s) ==
    /\ pc[s] = "look"
    /\ Goto(s, IF Exists(goal[s]) THEN "unlink"
               ELSE "wipe")
    /\ contested' = IF ~Exists(goal[s]) /\ \E t \in Shell : Builds(t, goal[s])
                      THEN contested \union {goal[s]} ELSE contested
    /\ UNCHANGED <<rev, disk, servers, torn>>

\* A release that is finished is only activated, any other one built anew.
Look(s) ==
    /\ pc[s] = "look"
    /\ Goto(s, IF Valid(goal[s]) THEN "unlink"
               ELSE "wipe")
    /\ contested' = IF ~Valid(goal[s]) /\ \E t \in Shell : Builds(t, goal[s])
                      THEN contested \union {goal[s]} ELSE contested
    /\ UNCHANGED <<rev, disk, servers, torn>>

\* What rm -rf may have left of a directory before it has removed it.
Remains(d) ==
    {e \in Directory : /\ e.python => d.python
                       /\ e.packages = "all" => d.packages = "all"
                       /\ d.packages = "none" => e.packages = "none"
                       /\ e.manifest \in {d.manifest, None}}

Wipe(s) ==
    /\ pc[s] = "wipe"
    /\ \/ Exists(goal[s]) /\ UNCHANGED script /\
          \E e \in Remains(release[goal[s]]) : release' = [release EXCEPT ![goal[s]] = e]
       \/ release' = [release EXCEPT ![goal[s]] = None] /\ Goto(s, "venv")
    /\ UNCHANGED <<rev, link, servers, history>>

\* uv venv; a directory another script has made meanwhile is replaced, or
\* refused (Fails).
Venv(s) ==
    /\ pc[s] = "venv"
    /\ release' = [release EXCEPT ![goal[s]] = NewVenv]
    /\ Goto(s, "install")
    /\ UNCHANGED <<rev, link, servers, history>>

\* uv pip install, which needs the release's Python all along
Install(s) ==
    /\ pc[s] = "install"
    /\ Exists(goal[s]) /\ release[goal[s]].python
    /\ release' = [release EXCEPT ![goal[s]].packages = "some"]
    /\ Goto(s, "installing")
    /\ UNCHANGED <<rev, link, servers, history>>

\* The last package is in; if another script has emptied the release
\* meanwhile, packages are missing.
Installed(s) ==
    /\ pc[s] = "installing"
    /\ Exists(goal[s]) /\ release[goal[s]].python
    /\ release' = [release EXCEPT ![goal[s]].packages =
                      IF @ = "none" THEN "some" ELSE "all"]
    /\ Goto(s, "validate")
    /\ UNCHANGED <<rev, link, servers, history>>

\* Fault: the import checks are skipped.
ValidateNothing(s) ==
    /\ pc[s] \in {"installing", "validate"}
    /\ Exists(goal[s])
    /\ Goto(s, "manifest")
    /\ UNCHANGED <<rev, disk, servers, history>>

\* Versions, imports, a CUDA operator, and the libraries' CUDA runtime
Validate(s) ==
    /\ pc[s] = "validate"
    /\ Exists(goal[s]) /\ release[goal[s]].python
    /\ release[goal[s]].packages = "all"
    /\ Goto(s, "manifest")
    /\ UNCHANGED <<rev, disk, servers, history>>

WriteManifest(s) ==
    /\ pc[s] = "manifest"
    /\ Exists(goal[s])
    /\ \/ release' = [release EXCEPT ![goal[s]].manifest = goal[s]] /\ Goto(s, "unlink")
       \/ release' = [release EXCEPT ![goal[s]].manifest = Cut] /\ Goto(s, "ended")
    /\ UNCHANGED <<rev, link, servers, history>>

\* rm -f of the link, or rm -rf of the directory an old setup left
Unlink(s) ==
    /\ pc[s] = "unlink"
    /\ link' = None
    /\ Goto(s, "link")
    /\ UNCHANGED <<rev, release, servers, history>>

\* ln -s, which may fail.  Where another script has linked meanwhile, the new
\* link is put into the release the name points to, or is refused.
Link(s) ==
    /\ pc[s] = "link"
    /\ \/ /\ link' = IF link = None THEN goal[s] ELSE link
          /\ Goto(s, IF job[s] = "serve" THEN "spawn" ELSE "ended")
       \/ UNCHANGED link /\ Goto(s, "ended")
    /\ torn' = (link' = None)
    /\ UNCHANGED <<rev, release, servers, contested>>

\* set -e: a tool is missing, a server is running, a command fails.
Fails(s) ==
    /\ pc[s] \in (Build \union {"check", "look", "unlink", "spawn"}) \ {"manifest"}
    /\ Goto(s, "ended")
    /\ UNCHANGED <<rev, disk, servers, history>>

\* The redirection finds no directory: another script has removed it.
NoDirectory(s) ==
    /\ pc[s] = "manifest"
    /\ ~Exists(goal[s])
    /\ Goto(s, "ended")
    /\ UNCHANGED <<rev, disk, servers, history>>

(***************************************************************************)
(* The rest of the machine                                                 *)
(***************************************************************************)
\* Somebody checks out another revision of the engine.
Checkout ==
    /\ rev' \in Revision \ {rev}
    /\ UNCHANGED <<disk, servers, script, history>>

ServerEnds ==
    /\ \E s \in Shell :
        /\ running[s] # None
        /\ running' = [running EXCEPT ![s] = None]
        /\ pid' = IF pid = s THEN None ELSE pid
        /\ unseen' = unseen \ {s}
    /\ UNCHANGED <<rev, disk, script, history>>

\* The server goes on when the script that started it is killed.
Killed(s) ==
    /\ pc[s] # "ended"
    /\ torn' = (torn \/ pc[s] = "link")
    /\ unseen' = unseen \union (Unnamed \intersect {s})
    /\ Goto(s, "ended")
    /\ UNCHANGED <<rev, disk, running, pid, contested>>

Building(s) ==
    \/ ReadRevision(s) \/ Check(s) \/ Look(s) \/ Wipe(s) \/ Venv(s)
    \/ Install(s) \/ Installed(s) \/ Validate(s) \/ WriteManifest(s)
    \/ NoDirectory(s) \/ Fails(s)

Activating(s) == Unlink(s) \/ Link(s)

Next ==
    \/ \E s \in Shell :
        Serve(s) \/ Spawn(s) \/ Record(s) \/ Setup(s) \/ Building(s) \/ Activating(s) \/ Killed(s)
    \/ Checkout
    \/ ServerEnds

Spec == Init /\ [][Next]_vars

-----------------------------------------------------------------------------
(***************************************************************************)
(* Properties                                                              *)
(***************************************************************************)
\* Every variable holds a value of the program.
TypeOK ==
    /\ rev \in Revision
    /\ release \in [Revision -> Directory \union {None}]
    /\ link \in Revision \union {None, "directory"}
    /\ running \in [Shell -> Revision \union {None}]
    /\ pid \in Shell \union {None}
    /\ pc \in [Shell -> Steps]
    /\ job \in [Shell -> {"setup", "serve"}]
    /\ goal \in [Shell -> Revision \union {None}]
    /\ contested \subseteq Revision
    /\ torn \in BOOLEAN
    /\ unseen \subseteq Shell

\* "already installed" is true: a release whose manifest is in order holds all
\* packages, through failed, killed and repeated builds (the manifest is
\* written last and removed with the release).  Only two builds of one release
\* at a time can make it wrong.
ManifestMeansBuilt ==
    \A v \in Revision \ contested : Valid(v) => release[v].packages = "all"

\* From the moment a release is activated it stays finished: no later setup,
\* of this or another revision, takes the environment apart while the link
\* points to it (only an unfinished release is removed).
ActivatedStaysBuilt ==
    link \in Revision \ contested => Valid(link)

\* What a server finds under the path it was started by stays its own release,
\* whole and finished: no setup replaces the environment beneath it, however
\* scripts overlap, fail and are killed.  Only a server that no check could
\* have seen may lose it: one started while a script was between its check of
\* the pid file and its ln, or one the pid file did not name.
ServersKeepTheirEnvironment ==
    \A s \in Shell \ unseen : running[s] # None =>
        /\ link = running[s]
        /\ link \notin contested => Valid(link) /\ release[link].packages = "all"

\* Once there was an environment, its absence is only ever the moment between
\* rm and ln of some script, or what one left that was killed there or whose
\* ln failed.
AbsentMeansHeld ==
    link = None => torn \/ \E s \in Shell : pc[s] = "link"

=============================================================================
