---------------------------- MODULE ServerScripts ----------------------------
(***************************************************************************)
(* The scripts that start and stop the inference servers in the            *)
(* background: serve_sglang.sh, serve_vllm.sh and serve_infernix.sh, and   *)
(* their stop_*.sh.  A server outlives its script; a pid file per engine   *)
(* is all that is left to find it by, and nothing locks it.                *)
(*                                                                         *)
(* Process identifiers are recycled: once a process has ended its number   *)
(* may be given to any program.  A shell runs one script after another.    *)
(***************************************************************************)
EXTENDS Naturals, FiniteSets

CONSTANTS
    Shell,      \* shells, each running one serve_* or stop_* at a time
    Pid,        \* process identifiers
    Port,       \* Port[e]: the port engine e is configured to listen on
    Job,        \* the scripts that are run: a verb and an engine
    Polls,      \* iterations of the waiting loops (one second each)
    None

Engine == {"sglang", "vllm", "infernix"}

ASSUME JobAssumption == Job \subseteq [verb : {"serve", "stop"}, engine : Engine]
ASSUME PollsAssumption == Polls \in Nat
ASSUME NoneAssumption == None \notin Pid \union Shell

VARIABLES
    proc,       \* proc[p]: the process with number p, or None
    pidfile,    \* pidfile[e]: the number in .<engine>.pid, or None
    pc,         \* pc[s]: the next command of the script in shell s
    local,      \* local[s]: its variables
    upset       \* history: engines whose scripts have overlapped, or been
                \* killed between starting a server and recording it

vars == <<proc, pidfile, pc, local, upset>>

Ended == {"done", "failed", "killed"}
Active == {s \in Shell : pc[s] \notin Ended}

\* What a script knows: what it is, the number it read, the number of the
\* server it started and the iterations of its waiting loop; and, as history
\* of a stop script, the numbers given out since it started.
Blank == [job |-> None, saw |-> None, mine |-> None, polls |-> 0, met |-> {}]
Verb(s) == local[s].job.verb
E(s) == local[s].job.engine
saw(s) == local[s].saw
mine(s) == local[s].mine
polls(s) == local[s].polls

Alive(p) == p # None /\ proc[p] # None
IsServer(p, e) == Alive(p) /\ proc[p].is = e
Serves(p, e) == IsServer(p, e) /\ proc[p].state # "killed"
Listening(port) ==
    \E p \in Pid : /\ Alive(p) /\ proc[p].is \in Engine
                   /\ proc[p].state = "listening" /\ Port[proc[p].is] = port

Goto(s, step) ==
    /\ pc' = [pc EXCEPT ![s] = step]
    /\ local' = IF step \in Ended THEN [local EXCEPT ![s] = Blank] ELSE local

Remove(s) == pidfile' = [pidfile EXCEPT ![E(s)] = None]

Init ==
    /\ proc = [p \in Pid |-> None]
    /\ pidfile = [e \in Engine |-> None]
    /\ pc = [s \in Shell |-> "done"]
    /\ local = [s \in Shell |-> Blank]
    /\ upset = {}

\* A script starts, and reads the pid file if there is one.
Look(s, verb, missing) ==
    /\ pc[s] \in Ended
    /\ \E j \in {i \in Job : i.verb = verb} :
        /\ local' = [local EXCEPT ![s].job = j, ![s].saw = pidfile[j.engine]]
        /\ upset' = IF \E t \in Active : E(t) = j.engine
                      THEN upset \union {j.engine} ELSE upset
        /\ pc' = [pc EXCEPT ![s] =
                    IF pidfile[j.engine] = None THEN missing[j.engine] ELSE "probe"]
    /\ UNCHANGED <<proc, pidfile>>

(***************************************************************************)
(* serve_*.sh                                                              *)
(***************************************************************************)
\* Infernix removes the file in any case, and then looks at the port.
ServeLook(s) ==
    Look(s, "serve", [e \in Engine |-> IF e = "infernix" THEN "unlink" ELSE "spawn"])

\* Fault: an engine that is already running is not refused.
ServeProbeIgnored(s) ==
    /\ pc[s] = "probe"
    /\ Verb(s) = "serve"
    /\ Goto(s, "unlink")
    /\ UNCHANGED <<proc, pidfile, upset>>

\* kill -0: an engine that is already running is refused.
ServeProbe(s) ==
    /\ pc[s] = "probe"
    /\ Verb(s) = "serve"
    /\ Goto(s, IF Alive(saw(s)) THEN "failed" ELSE "unlink")
    /\ UNCHANGED <<proc, pidfile, upset>>

ServeUnlink(s) ==
    /\ pc[s] = "unlink"
    /\ Remove(s)
    /\ Goto(s, IF E(s) = "infernix" THEN "port" ELSE "spawn")
    /\ UNCHANGED <<proc, upset>>

\* ss -ltn: only serve_infernix.sh asks who else has the port.
ServePort(s) ==
    /\ pc[s] = "port"
    /\ Goto(s, IF Listening(Port[E(s)]) THEN "failed" ELSE "spawn")
    /\ UNCHANGED <<proc, pidfile, upset>>

\* A checkpoint is missing, or the environment cannot be built.
ServeRefuses(s) ==
    /\ pc[s] = "spawn"
    /\ Goto(s, "failed")
    /\ UNCHANGED <<proc, pidfile, upset>>

\* The number p is given to a new process.
Start(p, what, state) ==
    /\ ~Alive(p)
    /\ proc' = [proc EXCEPT ![p] = [is |-> what, state |-> state]]

\* The stop scripts under way see p come, and s has started it.
Meet(p, s) ==
    [t \in Shell |->
        IF t = s THEN [local[t] EXCEPT !.mine = p]
        ELSE IF t \in Active /\ Verb(t) = "stop"
          THEN [local[t] EXCEPT !.met = @ \union {p}]
        ELSE local[t]]

ServeSpawn(s) ==
    /\ pc[s] = "spawn"
    /\ \E p \in Pid :
        /\ Start(p, E(s), "loading")
        /\ local' = Meet(p, s)
    /\ pc' = [pc EXCEPT ![s] = "record"]
    /\ UNCHANGED <<pidfile, upset>>

ServeRecord(s) ==
    /\ pc[s] = "record"
    /\ pidfile' = [pidfile EXCEPT ![E(s)] = mine(s)]
    /\ Goto(s, "wait")
    /\ UNCHANGED <<proc, upset>>

\* sleep 1, and the next iteration of a waiting loop
Again(s, step) ==
    /\ pc' = [pc EXCEPT ![s] = step]
    /\ local' = [local EXCEPT ![s].polls = @ + 1]

\* One iteration of the loop: kill -0 of the server, then curl of the port.
ServeWait(s) ==
    /\ pc[s] = "wait"
    /\ polls(s) < Polls
    /\ Goto(s, IF Alive(mine(s)) THEN "curl" ELSE "drop")
    /\ UNCHANGED <<proc, pidfile, upset>>

\* Any server on the port answers /v1/models.
ServeCurl(s) ==
    /\ pc[s] = "curl"
    /\ IF Listening(Port[E(s)])
         THEN Goto(s, "done")
         ELSE Again(s, "wait")
    /\ UNCHANGED <<proc, pidfile, upset>>

\* Fault: the script that gives up on its server also drops the pid file.
ServeTimeoutDrops(s) ==
    /\ pc[s] = "wait"
    /\ polls(s) = Polls
    /\ Remove(s)
    /\ Goto(s, "failed")
    /\ UNCHANGED <<proc, upset>>

\* Not ready in time: the server is left running, and the pid file with it.
ServeTimeout(s) ==
    /\ pc[s] = "wait"
    /\ polls(s) = Polls
    /\ Goto(s, "failed")
    /\ UNCHANGED <<proc, pidfile, upset>>

\* The server exited prematurely: rm -f of the pid file, whoever's it is.
ServeDrop(s) ==
    /\ pc[s] = "drop"
    /\ Verb(s) = "serve"
    /\ Remove(s)
    /\ Goto(s, "failed")
    /\ UNCHANGED <<proc, upset>>

(***************************************************************************)
(* stop_*.sh                                                               *)
(***************************************************************************)
StopLook(s) == Look(s, "stop", [e \in Engine |-> "done"])

\* Fault: vLLM's stop signals the process without asking what it is.
StopProbeOnly(s) ==
    /\ pc[s] = "probe"
    /\ Verb(s) = "stop"
    /\ Goto(s, IF Alive(saw(s)) THEN "term" ELSE "drop")
    /\ UNCHANGED <<proc, pidfile, upset>>

\* kill -0; only stop_vllm.sh goes on to ask what the process is.
StopProbe(s) ==
    /\ pc[s] = "probe"
    /\ Verb(s) = "stop"
    /\ Goto(s, IF ~Alive(saw(s)) THEN "drop"
               ELSE IF E(s) = "vllm" THEN "identify" ELSE "term")
    /\ UNCHANGED <<proc, pidfile, upset>>

\* /proc/PID/cmdline: a process that is not the server is left alone, and the
\* pid file removed; one that is gone cannot be read, and the check is skipped.
StopIdentify(s) ==
    /\ pc[s] = "identify"
    /\ IF Alive(saw(s)) /\ ~IsServer(saw(s), E(s))
         THEN Remove(s) /\ Goto(s, "failed")
         ELSE UNCHANGED pidfile /\ Goto(s, "term")
    /\ UNCHANGED <<proc, upset>>

\* kill PID; under `set -e` the script ends if there is no such process.
StopTerm(s) ==
    /\ pc[s] = "term"
    /\ IF Alive(saw(s))
         THEN /\ proc' = [proc EXCEPT ![saw(s)].state =
                                IF @ = "killed" THEN "killed" ELSE "stopping"]
              /\ Goto(s, "poll")
         ELSE Goto(s, "failed") /\ UNCHANGED proc
    /\ UNCHANGED <<pidfile, upset>>

\* Fault: when the time is up the pid file is removed without kill -9.
StopPollGivesUp(s) ==
    /\ pc[s] = "poll"
    /\ IF ~Alive(saw(s)) \/ polls(s) = Polls
         THEN Goto(s, "drop")
         ELSE Again(s, "poll")
    /\ UNCHANGED <<proc, pidfile, upset>>

StopPoll(s) ==
    /\ pc[s] = "poll"
    /\ IF Alive(saw(s)) /\ polls(s) < Polls
         THEN Again(s, "poll")
         ELSE Goto(s, IF polls(s) < Polls THEN "drop" ELSE "kill")
    /\ UNCHANGED <<proc, pidfile, upset>>

\* kill -9 PID || true: the process is told to die, and the script goes on
\* without waiting.  Until it has gone (Exit) it can be signalled, and may hold
\* its port and the GPU: what is started meanwhile may fail on that.
StopKill(s) ==
    /\ pc[s] = "kill"
    /\ proc' = IF Alive(saw(s)) THEN [proc EXCEPT ![saw(s)].state = "killed"] ELSE proc
    /\ Goto(s, "drop")
    /\ UNCHANGED <<pidfile, upset>>

StopDrop(s) ==
    /\ pc[s] = "drop"
    /\ Verb(s) = "stop"
    /\ Remove(s)
    /\ Goto(s, "done")
    /\ UNCHANGED <<proc, upset>>

(***************************************************************************)
(* The rest of the machine                                                 *)
(***************************************************************************)
\* A loaded server binds its port, if it is free.
Bind(p) ==
    /\ Alive(p)
    /\ proc[p].state = "loading"
    /\ ~Listening(Port[proc[p].is])
    /\ proc' = [proc EXCEPT ![p].state = "listening"]
    /\ UNCHANGED <<pidfile, pc, local, upset>>

\* A process ends: it crashed, could not bind, or a signal has taken effect.
Exit(p) ==
    /\ Alive(p)
    /\ proc' = [proc EXCEPT ![p] = None]
    /\ UNCHANGED <<pidfile, pc, local, upset>>

\* Some other program starts, and may be given a number that was a server's.
Other(p) ==
    /\ Start(p, "other", "running")
    /\ local' = Meet(p, None)
    /\ UNCHANGED <<pidfile, pc, upset>>

\* The script itself is killed; the server it started goes on.
Killed(s) ==
    /\ s \in Active
    /\ upset' = IF pc[s] = "record" THEN upset \union {E(s)} ELSE upset
    /\ Goto(s, "killed")
    /\ UNCHANGED <<proc, pidfile>>

Serve(s) ==
    \/ ServeLook(s) \/ ServeProbe(s) \/ ServeUnlink(s) \/ ServePort(s)
    \/ ServeRefuses(s) \/ ServeSpawn(s) \/ ServeRecord(s)
    \/ ServeWait(s) \/ ServeCurl(s) \/ ServeTimeout(s) \/ ServeDrop(s)

Stop(s) ==
    \/ StopLook(s) \/ StopProbe(s) \/ StopIdentify(s)
    \/ StopTerm(s) \/ StopPoll(s) \/ StopKill(s) \/ StopDrop(s)

Machine == \E p \in Pid : Bind(p) \/ Exit(p) \/ Other(p)

Next ==
    \/ \E s \in Shell : Serve(s) \/ Stop(s) \/ Killed(s)
    \/ Machine

Spec == Init /\ [][Next]_vars

-----------------------------------------------------------------------------
(***************************************************************************)
(* Properties                                                              *)
(***************************************************************************)
\* Every variable holds a value of the program.
TypeOK ==
    /\ proc \in [Pid -> [is : Engine,
                         state : {"loading", "listening", "stopping", "killed"}]
                        \union [is : {"other"}, state : {"running", "stopping", "killed"}]
                        \union {None}]
    /\ pidfile \in [Engine -> Pid \union {None}]
    /\ pc \in [Shell -> {"probe", "unlink", "port", "spawn", "record", "wait",
                         "curl", "drop", "identify", "term", "poll", "kill"}
                            \union Ended]
    /\ local \in [Shell -> [job : Job \union {None}, saw : Pid \union {None},
                            mine : Pid \union {None}, polls : 0..Polls,
                            met : SUBSET Pid]]
    /\ upset \subseteq Engine

\* A live server can be found: its engine's pid file names it, or the script
\* that started it is about to write the file.  Only two scripts of one engine
\* at the same time, or one killed between the two commands, can lose a
\* server: the paths that remove a pid file (stale file, premature exit, stop,
\* kill -9) and the timeout that keeps it are right as long as scripts take
\* turns.  A server that has been sent SIGKILL may outlive its pid file while
\* it dies: stop_*.sh does not wait for it.
NoOrphan ==
    \A p \in Pid, e \in Engine \ upset : Serves(p, e) =>
        \/ pidfile[e] = p
        \/ \E s \in Shell : mine(s) = p /\ pc[s] = "record"

\* One engine never runs twice, unless its scripts raced or one was killed:
\* the second server would take the same GPU and port (the pid file check of
\* serve_*.sh, through stale files, recycled numbers, timeouts and stops).
\* Beside the one there may be servers dying of a SIGKILL.
SingleServer ==
    \A e \in Engine \ upset : Cardinality({p \in Pid : Serves(p, e)}) <= 1

\* stop_vllm.sh never signals another program that was already running when
\* the script started, although the number in the pid file may be recycled
\* (its look at /proc/PID/cmdline).  stop_sglang.sh and stop_infernix.sh make
\* no such check.
VllmStopSparesOthers ==
    [][\A s \in Active :
        E(s) = "vllm" /\ (StopTerm(s) \/ StopKill(s)) /\ Alive(saw(s))
            => IsServer(saw(s), "vllm") \/ saw(s) \in local[s].met]_vars

\* When a stop script removes the pid file and reports its engine stopped, each
\* server of that engine has gone or been sent SIGKILL, even one that ignores
\* SIGTERM and although numbers are recycled (the waiting loop and the kill -9
\* after it, and the pid file that serve keeps at a timeout), unless the
\* engine's scripts raced or one was killed.  "stopped" does not mean more: the
\* script does not wait for the kill -9 to take effect.
StoppedOrDying ==
    [][\A s \in Active : StopDrop(s) /\ E(s) \notin upset =>
            ~\E p \in Pid : Serves(p, E(s))]_vars

\* What the messages of the scripts say ("SGLang Ready", "vLLM Ready",
\* "Infernix Ready"): when a serve script reports that its server is ready,
\* that server listens.
ReadyMeansOwn ==
    [][\A s \in Active : ServeCurl(s) /\ pc'[s] = "done" =>
            IsServer(mine(s), E(s)) /\ proc[mine(s)].state = "listening"]_vars

=============================================================================
