------------------------- MODULE ServerScripts_proofs -------------------------
(***************************************************************************)
(* Proofs about ServerScripts, for any shells, process numbers, ports,     *)
(* scripts and numbers of polls.                                           *)
(***************************************************************************)
EXTENDS ServerScripts, FiniteSetTheorems, TLAPS

(***************************************************************************)
(* The inductive invariant                                                 *)
(***************************************************************************)
Servers(e) == {p \in Pid : Serves(p, e)}

Serving == {"unlink", "port", "spawn", "record", "wait", "curl"}
Stopping == {"identify", "term", "poll", "kill"}

\* A script that runs is one of the scripts, at a command of its own, and asks
\* the port within a loop.
Jobs ==
    \A s \in Active :
        /\ local[s].job \in Job
        /\ pc[s] \in Serving => Verb(s) = "serve"
        /\ pc[s] \in Stopping => Verb(s) = "stop"
        /\ pc[s] = "curl" => polls(s) < Polls

\* A number vLLM's stop script has approved and is to signal: what has it now,
\* if anything, is the server, or came while the script was running.
Approved ==
    \A s \in Active : E(s) = "vllm" /\ pc[s] \in {"term", "poll", "kill"} =>
        ~Alive(saw(s)) \/ IsServer(saw(s), "vllm") \/ saw(s) \in local[s].met

\* The scripts of an engine that is not upset take turns.
Turns ==
    \A s, t \in Active : E(s) = E(t) /\ E(s) \notin upset => s = t

\* What the script of an engine knows of its servers at each command.
Knows(s) ==
    /\ pc[s] = "probe" \/ pc[s] \in Stopping =>
          pidfile[E(s)] = saw(s) /\ Servers(E(s)) \subseteq {saw(s)}
    /\ pc[s] \in {"unlink", "port", "spawn", "drop"} => Servers(E(s)) = {}
    /\ pc[s] = "record" => mine(s) \in Pid /\ Servers(E(s)) \subseteq {mine(s)}
    /\ pc[s] \in {"wait", "curl"} =>
          pidfile[E(s)] = mine(s) /\ Servers(E(s)) \subseteq {mine(s)}

Knowledge == \A s \in Active : E(s) \notin upset => Knows(s)

\* Between two scripts the pid file tells all there is to know.
Rest ==
    \A e \in Engine \ upset : (\A s \in Active : E(s) # e) => Servers(e) \subseteq {pidfile[e]}

IInv == TypeOK /\ Jobs /\ Approved /\ Turns /\ Knowledge /\ Rest

USE JobAssumption, PollsAssumption, NoneAssumption

(***************************************************************************)
(* Types                                                                   *)
(***************************************************************************)
ScriptType == [job : Job \union {None}, saw : Pid \union {None},
               mine : Pid \union {None}, polls : 0..Polls, met : SUBSET Pid]
Commands == {"probe"} \union Serving \union {"drop"} \union Stopping \union Ended
Process == [is : Engine, state : {"loading", "listening", "stopping", "killed"}]
           \union [is : {"other"}, state : {"running", "stopping", "killed"}]

\* A process goes on under another state, and is what it was.
LEMMA StateOnly ==
    ASSUME NEW r \in Process, NEW st \in {"listening", "stopping", "killed"},
           r.is \in Engine \/ st # "listening"
    PROVE  /\ [r EXCEPT !.state = st] \in Process
           /\ [r EXCEPT !.state = st].is = r.is
           /\ [r EXCEPT !.state = st].state = st
<1>1. CASE r \in [is : Engine, state : {"loading", "listening", "stopping", "killed"}]
  BY <1>1 DEF Process
<1>2. CASE r \in [is : {"other"}, state : {"running", "stopping", "killed"}]
  BY <1>2 DEF Process, Engine
<1>. QED BY <1>1, <1>2 DEF Process

\* What kill and kill -9 do, if the process is there.
Signalled(p, st) ==
    /\ p \in Pid /\ proc[p] # None
    /\ st \in {"stopping", "killed"}
    /\ proc[p].state = "killed" => st = "killed"
    /\ proc' = [proc EXCEPT ![p].state = st]

\* TypeOK, with the names the proofs use.
LEMMA TypeNames ==
    TypeOK <=> /\ proc \in [Pid -> Process \union {None}]
               /\ pidfile \in [Engine -> Pid \union {None}]
               /\ pc \in [Shell -> Commands]
               /\ local \in [Shell -> ScriptType]
               /\ upset \subseteq Engine
BY DEF TypeOK, Process, Commands, ScriptType, Serving, Stopping, Ended

\* A stop script signals the process it saw, or there is none.
LEMMA Signals ==
    ASSUME TypeOK, NEW s \in Shell, StopTerm(s) \/ StopKill(s)
    PROVE  \/ UNCHANGED proc
           \/ \E st : Signalled(saw(s), st) /\ (StopKill(s) => st = "killed")
<1>. DEFINE p == saw(s)
<1>1. CASE Alive(p)
  <2>1. p \in Pid /\ proc[p] # None
    BY <1>1, TypeNames DEF Alive, saw, ScriptType
  <2>2. CASE StopKill(s)
    <3>1. Signalled(p, "killed")
      BY <1>1, <2>1, <2>2 DEF StopKill, Signalled
    <3>. QED BY <3>1
  <2>3. CASE StopTerm(s) /\ ~StopKill(s)
    <3>. DEFINE st == IF proc[p].state = "killed" THEN "killed" ELSE "stopping"
    <3>1. proc' = [proc EXCEPT ![p].state = st]
      BY <1>1, <2>3 DEF StopTerm
    <3>2. Signalled(p, st)
      BY <2>1, <3>1 DEF Signalled
    <3>. QED BY <2>3, <3>2
  <2>. QED BY <2>2, <2>3
<1>2. CASE ~Alive(p)
  BY <1>2 DEF StopTerm, StopKill
<1>. QED BY <1>1, <1>2

\* Every step keeps every value in its type; mine has a number from record on.
LEMMA TypeStep == TypeOK /\ Jobs /\ Knowledge /\ Next => TypeOK'
<1>. SUFFICES ASSUME TypeOK, Jobs, Next PROVE TypeOK'
  OBVIOUS
<1>. USE DEF Ended
<1>0. /\ proc \in [Pid -> Process \union {None}]
      /\ pidfile \in [Engine -> Pid \union {None}]
      /\ pc \in [Shell -> Commands]
      /\ local \in [Shell -> ScriptType]
      /\ upset \subseteq Engine
  BY TypeNames
<1>1. SUFFICES /\ proc' \in [Pid -> Process \union {None}]
               /\ pidfile' \in [Engine -> Pid \union {None}]
               /\ pc' \in [Shell -> Commands]
               /\ local' \in [Shell -> ScriptType]
               /\ upset' \subseteq Engine
  BY DEF TypeOK, Process, Commands, ScriptType, Serving, Stopping
<1>2. Blank \in ScriptType
  BY DEF Blank, ScriptType
<1>3. ASSUME NEW s \in Shell, NEW step \in Commands, Goto(s, step)
      PROVE  pc' \in [Shell -> Commands] /\ local' \in [Shell -> ScriptType]
  BY <1>0, <1>2, <1>3 DEF Goto
<1>4. ASSUME NEW s \in Active PROVE s \in Shell /\ E(s) \in Engine /\ local[s].job \in Job
  BY DEF Active, Jobs, E
<1>5. ASSUME NEW s \in Active, Remove(s) PROVE pidfile' \in [Engine -> Pid \union {None}]
  BY <1>0, <1>4, <1>5 DEF Remove
<1>6. ASSUME NEW p \in Pid, NEW s PROVE Meet(p, s) \in [Shell -> ScriptType]
  BY <1>0 DEF Meet, ScriptType
<1>7. ASSUME NEW p \in Pid, NEW w, NEW st, [is |-> w, state |-> st] \in Process, Start(p, w, st)
      PROVE  proc' \in [Pid -> Process \union {None}]
  BY <1>0, <1>7 DEF Start
<1>8. ASSUME NEW s \in Shell, NEW verb, NEW missing \in [Engine -> Commands], Look(s, verb, missing)
      PROVE  /\ pc' \in [Shell -> Commands] /\ local' \in [Shell -> ScriptType]
             /\ upset' \subseteq Engine /\ UNCHANGED <<proc, pidfile>>
  <2>1. PICK j \in Job :
            /\ local' = [local EXCEPT ![s].job = j, ![s].saw = pidfile[j.engine]]
            /\ upset' = IF \E t \in Active : E(t) = j.engine
                          THEN upset \union {j.engine} ELSE upset
            /\ pc' = [pc EXCEPT ![s] =
                        IF pidfile[j.engine] = None THEN missing[j.engine] ELSE "probe"]
    BY <1>8 DEF Look
  <2>2. j.engine \in Engine
    OBVIOUS
  <2>3. local' \in [Shell -> ScriptType]
    <3>. DEFINE r == [local[s] EXCEPT !.job = j, !.saw = pidfile[j.engine]]
    <3>1. local[s] \in ScriptType /\ pidfile[j.engine] \in Pid \union {None}
      BY <1>0, <2>2
    <3>2. r \in ScriptType
      BY <3>1 DEF ScriptType
    <3>3. local' = [local EXCEPT ![s] = r]
      BY <1>0, <2>1
    <3>. QED BY <1>0, <3>2, <3>3
  <2>4. (IF pidfile[j.engine] = None THEN missing[j.engine] ELSE "probe") \in Commands
    BY <2>2 DEF Commands
  <2>5. upset' \subseteq Engine
    BY <1>0, <2>1, <2>2
  <2>. QED BY <1>0, <1>8, <2>1, <2>3, <2>4, <2>5 DEF Look
<1>9. ASSUME NEW s \in Shell, Serve(s)
      PROVE  /\ proc' \in [Pid -> Process \union {None}]
             /\ pidfile' \in [Engine -> Pid \union {None}]
             /\ pc' \in [Shell -> Commands]
             /\ local' \in [Shell -> ScriptType]
             /\ upset' \subseteq Engine
  <2>. s \in Active \/ pc[s] \in Ended
    BY DEF Active
  <2>1. CASE ServeLook(s)
    <3>1. [e \in Engine |-> IF e = "infernix" THEN "unlink" ELSE "spawn"] \in [Engine -> Commands]
      BY DEF Commands, Serving
    <3>. QED BY <1>0, <1>8, <2>1, <3>1 DEF ServeLook
  <2>2. CASE ServeProbe(s)
    BY <1>0, <1>3, <2>2 DEF ServeProbe, Commands, Serving
  <2>3. CASE ServeUnlink(s)
    BY <1>0, <1>3, <1>5, <2>3 DEF ServeUnlink, Commands, Serving, Active
  <2>4. CASE ServePort(s)
    BY <1>0, <1>3, <2>4 DEF ServePort, Commands, Serving
  <2>5. CASE ServeRefuses(s)
    BY <1>0, <1>3, <2>5 DEF ServeRefuses, Commands
  <2>6. CASE ServeSpawn(s)
    <3>1. s \in Active
      BY <2>6 DEF ServeSpawn, Active
    <3>2. PICK p \in Pid : Start(p, E(s), "loading") /\ local' = Meet(p, s)
      BY <2>6 DEF ServeSpawn
    <3>3. [is |-> E(s), state |-> "loading"] \in Process
      BY <1>4, <3>1 DEF Process
    <3>. QED BY <1>0, <1>6, <1>7, <2>6, <3>2, <3>3 DEF ServeSpawn, Commands, Serving
  <2>7. CASE ServeRecord(s)
    <3>1. s \in Active /\ mine(s) \in Pid \union {None}
      BY <1>0, <2>7 DEF ServeRecord, Active, mine, ScriptType
    <3>. QED BY <1>0, <1>3, <1>4, <2>7, <3>1 DEF ServeRecord, Commands, Serving
  <2>8. CASE ServeWait(s)
    BY <1>0, <1>3, <2>8 DEF ServeWait, Commands, Serving
  <2>9. CASE ServeCurl(s)
    <3>1. CASE Goto(s, "done")
      BY <1>0, <1>3, <2>9, <3>1 DEF ServeCurl, Commands
    <3>2. CASE Again(s, "wait")
      <4>1. polls(s) < Polls
        BY <2>9 DEF ServeCurl, Jobs, Active
      <4>. QED BY <1>0, <2>9, <3>2, <4>1 DEF ServeCurl, Commands, Serving, Again, ScriptType, polls
    <3>. QED BY <2>9, <3>1, <3>2 DEF ServeCurl
  <2>10. CASE ServeTimeout(s)
    BY <1>0, <1>3, <2>10 DEF ServeTimeout, Commands
  <2>11. CASE ServeDrop(s)
    BY <1>0, <1>3, <1>5, <2>11 DEF ServeDrop, Commands, Active
  <2>. QED BY <1>9, <2>1, <2>2, <2>3, <2>4, <2>5, <2>6, <2>7, <2>8, <2>9, <2>10, <2>11 DEF Serve
<1>16. ASSUME NEW s \in Shell, StopTerm(s) \/ StopKill(s)
       PROVE  proc' \in [Pid -> Process \union {None}]
  <2>1. CASE UNCHANGED proc
    BY <1>0, <2>1
  <2>2. ASSUME NEW p, NEW st, Signalled(p, st)
        PROVE  proc' \in [Pid -> Process \union {None}]
    <3>1. proc[p] \in Process
      BY <1>0, <2>2 DEF Signalled
    <3>2. [proc[p] EXCEPT !.state = st] \in Process
      BY <2>2, <3>1, StateOnly DEF Signalled
    <3>3. proc' = [proc EXCEPT ![p] = [proc[p] EXCEPT !.state = st]]
      BY <2>2 DEF Signalled
    <3>. QED BY <1>0, <3>2, <3>3
  <2>. QED BY <1>16, <2>1, <2>2, Signals
<1>10. ASSUME NEW s \in Shell, Stop(s)
      PROVE  /\ proc' \in [Pid -> Process \union {None}]
             /\ pidfile' \in [Engine -> Pid \union {None}]
             /\ pc' \in [Shell -> Commands]
             /\ local' \in [Shell -> ScriptType]
             /\ upset' \subseteq Engine
  <2>. saw(s) \in Pid \union {None} /\ polls(s) \in 0..Polls
    BY <1>0 DEF saw, polls, ScriptType
  <2>1. CASE StopLook(s)
    <3>1. [e \in Engine |-> "done"] \in [Engine -> Commands]
      BY DEF Commands
    <3>. QED BY <1>0, <1>8, <2>1, <3>1 DEF StopLook
  <2>2. CASE StopProbe(s)
    BY <1>0, <1>3, <2>2 DEF StopProbe, Commands, Stopping
  <2>3. CASE StopIdentify(s)
    BY <1>0, <1>3, <1>5, <2>3 DEF StopIdentify, Commands, Stopping, Active
  <2>4. CASE StopTerm(s)
    BY <1>0, <1>3, <1>16, <2>4 DEF StopTerm, Commands, Stopping
  <2>5. CASE StopPoll(s)
    <3>1. CASE Alive(saw(s)) /\ polls(s) < Polls
      BY <1>0, <2>5, <3>1 DEF StopPoll, Commands, Stopping, Again, ScriptType, polls
    <3>2. CASE ~(Alive(saw(s)) /\ polls(s) < Polls)
      BY <1>0, <1>3, <2>5, <3>2 DEF StopPoll, Commands, Stopping
    <3>. QED BY <3>1, <3>2
  <2>6. CASE StopKill(s)
    BY <1>0, <1>3, <1>16, <2>6 DEF StopKill, Commands
  <2>7. CASE StopDrop(s)
    BY <1>0, <1>3, <1>5, <2>7 DEF StopDrop, Commands, Active
  <2>. QED BY <1>10, <2>1, <2>2, <2>3, <2>4, <2>5, <2>6, <2>7 DEF Stop
<1>11. ASSUME NEW s \in Shell, Killed(s)
      PROVE  /\ pc' \in [Shell -> Commands]
             /\ local' \in [Shell -> ScriptType]
             /\ upset' \subseteq Engine
  BY <1>0, <1>3, <1>4, <1>11 DEF Killed, Commands
<1>12. ASSUME NEW p \in Pid, Bind(p) PROVE proc' \in [Pid -> Process \union {None}]
  <2>1. proc[p] \in Process /\ proc[p].is \in Engine
    BY <1>0, <1>12 DEF Bind, Alive, Process
  <2>2. [proc[p] EXCEPT !.state = "listening"] \in Process
    BY <2>1, StateOnly
  <2>3. proc' = [proc EXCEPT ![p] = [proc[p] EXCEPT !.state = "listening"]]
    BY <1>12 DEF Bind
  <2>. QED BY <1>0, <2>2, <2>3
<1>13. ASSUME NEW p \in Pid, Other(p)
       PROVE  proc' \in [Pid -> Process \union {None}] /\ local' \in [Shell -> ScriptType]
  <2>1. [is |-> "other", state |-> "running"] \in Process
    BY DEF Process
  <2>. QED BY <1>6, <1>7, <1>13, <2>1 DEF Other
<1>14. CASE Machine
  <2>1. PICK p \in Pid : Bind(p) \/ Exit(p) \/ Other(p)
    BY <1>14 DEF Machine
  <2>2. CASE Bind(p)
    BY <1>0, <1>12, <2>2 DEF Bind
  <2>3. CASE Exit(p)
    BY <1>0, <2>3 DEF Exit
  <2>4. CASE Other(p)
    BY <1>0, <1>13, <2>4 DEF Other
  <2>. QED BY <2>1, <2>2, <2>3, <2>4
<1>15. ASSUME NEW s \in Shell, Killed(s) PROVE UNCHANGED <<proc, pidfile>>
  BY <1>15 DEF Killed
<1>. QED BY <1>0, <1>9, <1>10, <1>11, <1>14, <1>15 DEF Next
(***************************************************************************)
(* What a step leaves alone                                                *)
(***************************************************************************)
Same(t) ==
    /\ pc'[t] = pc[t]
    /\ local'[t].job = local[t].job /\ local'[t].saw = local[t].saw
    /\ local'[t].mine = local[t].mine /\ local'[t].polls = local[t].polls
    /\ local[t].met \subseteq local'[t].met

\* A script starts, or goes on.
Starts(s) == ServeLook(s) \/ StopLook(s)
GoesOn(s) ==
    \/ ServeProbe(s) \/ ServeUnlink(s) \/ ServePort(s)
    \/ ServeRefuses(s) \/ ServeSpawn(s) \/ ServeRecord(s)
    \/ ServeWait(s) \/ ServeCurl(s) \/ ServeTimeout(s) \/ ServeDrop(s)
    \/ StopProbe(s) \/ StopIdentify(s) \/ StopTerm(s)
    \/ StopPoll(s) \/ StopKill(s) \/ StopDrop(s) \/ Killed(s)

LEMMA Split ==
    Next <=> (\E s \in Shell : Starts(s) \/ GoesOn(s)) \/ Machine
BY DEF Next, Serve, Stop, Starts, GoesOn

\* Only a script that runs goes on.
LEMMA GoesOnActive == ASSUME NEW s \in Shell, GoesOn(s) PROVE s \in Active
BY DEF GoesOn, ServeProbe, ServeUnlink, ServePort, ServeRefuses, ServeSpawn, ServeRecord,
       ServeWait, ServeCurl, ServeTimeout, ServeDrop, StopProbe, StopIdentify, StopTerm,
       StopPoll, StopKill, StopDrop, Killed, Active, Ended

LEMMA MeetSame ==
    ASSUME TypeOK, NEW p \in Pid, NEW s, NEW t \in Shell, t # s
    PROVE  LET r == Meet(p, s)[t] IN
           /\ r.job = local[t].job /\ r.saw = local[t].saw /\ r.mine = local[t].mine
           /\ r.polls = local[t].polls /\ local[t].met \subseteq r.met
           /\ t \in Active /\ Verb(t) = "stop" => p \in r.met
<1>1. local[t] \in ScriptType
  BY TypeNames
<1>. QED BY <1>1 DEF Meet, ScriptType

LEMMA OthersSame ==
    ASSUME TypeOK, NEW s \in Shell, Starts(s) \/ GoesOn(s), NEW t \in Shell, t # s
    PROVE  Same(t)
<1>0. /\ pc \in [Shell -> Commands]
      /\ local \in [Shell -> ScriptType]
  BY TypeNames
<1>1. ASSUME NEW step, Goto(s, step) PROVE Same(t)
  BY <1>0, <1>1 DEF Goto, Same
<1>2. ASSUME NEW step, Again(s, step) PROVE Same(t)
  BY <1>0, <1>2 DEF Again, Same
<1>3. ASSUME NEW verb, NEW missing, Look(s, verb, missing) PROVE Same(t)
  BY <1>0, <1>3 DEF Look, Same
<1>4. CASE Starts(s)
  BY <1>3, <1>4 DEF Starts, ServeLook, StopLook
<1>5. CASE ServeSpawn(s)
  BY <1>0, <1>5, MeetSame DEF ServeSpawn, Same
<1>6. CASE GoesOn(s) /\ ~ServeSpawn(s)
  BY <1>1, <1>2, <1>6 DEF GoesOn, ServeProbe, ServeUnlink, ServePort, ServeRefuses, ServeRecord,
       ServeWait, ServeCurl, ServeTimeout, ServeDrop, StopProbe, StopIdentify, StopTerm,
       StopPoll, StopKill, StopDrop, Killed
<1>. QED BY <1>4, <1>5, <1>6

\* The script that goes on remains the script it is, and what it read and
\* started does not change but where it starts a server.
LEMMA OwnSame ==
    ASSUME TypeOK, NEW s \in Shell, GoesOn(s), pc'[s] \notin Ended
    PROVE  /\ local'[s].job = local[s].job /\ local'[s].saw = local[s].saw
           /\ local'[s].mine = local[s].mine \/ ServeSpawn(s)
           /\ local'[s].met = local[s].met
<1>0. /\ pc \in [Shell -> Commands]
      /\ local \in [Shell -> ScriptType]
  BY TypeNames
<1>1. ASSUME NEW step, Goto(s, step) PROVE local'[s] = local[s]
  BY <1>0, <1>1 DEF Goto
<1>2. ASSUME NEW step, Again(s, step)
      PROVE  /\ local'[s].job = local[s].job /\ local'[s].saw = local[s].saw
             /\ local'[s].mine = local[s].mine /\ local'[s].met = local[s].met
  BY <1>0, <1>2 DEF Again, ScriptType
<1>3. CASE ServeSpawn(s)
  <2>1. PICK p \in Pid : local' = Meet(p, s)
    BY <1>3 DEF ServeSpawn
  <2>2. local'[s] = [local[s] EXCEPT !.mine = p] /\ local[s] \in ScriptType
    BY <1>0, <2>1 DEF Meet
  <2>. QED BY <1>3, <2>2 DEF ScriptType
<1>4. CASE GoesOn(s) /\ ~ServeSpawn(s)
  BY <1>1, <1>2, <1>4 DEF GoesOn, ServeProbe, ServeUnlink, ServePort, ServeRefuses, ServeRecord,
       ServeWait, ServeCurl, ServeTimeout, ServeDrop, StopProbe, StopIdentify, StopTerm,
       StopPoll, StopKill, StopDrop, Killed
<1>. QED BY <1>3, <1>4

LEMMA MachineSame ==
    ASSUME TypeOK, Machine, NEW t \in Shell
    PROVE  Same(t) /\ UNCHANGED <<pidfile, pc, upset>>
<1>1. PICK p \in Pid : Bind(p) \/ Exit(p) \/ Other(p)
  BY DEF Machine
<1>2. CASE Bind(p) \/ Exit(p)
  BY <1>2 DEF Bind, Exit, Same
<1>3. CASE Other(p)
  <2>1. local' = Meet(p, None) /\ UNCHANGED <<pidfile, pc, upset>>
    BY <1>3 DEF Other
  <2>. QED BY <2>1, MeetSame DEF Same
<1>. QED BY <1>1, <1>2, <1>3

(***************************************************************************)
(* Processes                                                               *)
(***************************************************************************)
\* No step but a start brings a server.
LEMMA NoNewServers ==
    ASSUME TypeOK, NEW e \in Engine,
           \/ Machine
           \/ \E s \in Shell : Starts(s) \/ (GoesOn(s) /\ ~ServeSpawn(s))
    PROVE  Servers(e)' \subseteq Servers(e)
<1>0. proc \in [Pid -> Process \union {None}]
  BY TypeNames
<1>. DEFINE Has(r) == r # None /\ r.is = e /\ r.state # "killed"
<1>1. SUFFICES ASSUME NEW q \in Pid, Has(proc'[q]) PROVE Has(proc[q])
  BY NoneAssumption DEF Servers, Serves, IsServer, Alive
<1>2. CASE UNCHANGED proc
  BY <1>1, <1>2
<1>3. ASSUME NEW p \in Pid, proc[p] # None, NEW st \in {"listening", "stopping", "killed"},
             proc[p].is \in Engine \/ st # "listening",
             proc[p].state = "killed" => st = "killed",
             proc' = [proc EXCEPT ![p].state = st]
      PROVE  Has(proc[q])
  <2>1. /\ [proc[p] EXCEPT !.state = st].is = proc[p].is
        /\ [proc[p] EXCEPT !.state = st].state = st
    BY <1>0, <1>3, StateOnly
  <2>. QED BY <1>0, <1>1, <1>3, <2>1
<1>4. ASSUME NEW p, proc' = [proc EXCEPT ![p] = None]
      PROVE  Has(proc[q])
  BY <1>0, <1>1, <1>4
<1>5. CASE Machine
  <2>1. PICK p \in Pid : Bind(p) \/ Exit(p) \/ Other(p)
    BY <1>5 DEF Machine
  <2>2. CASE Bind(p)
    <3>1. /\ proc[p] # None /\ proc[p].is \in Engine /\ proc[p].state # "killed"
          /\ proc' = [proc EXCEPT ![p].state = "listening"]
      BY <1>0, <2>2 DEF Bind, Alive, Process
    <3>. QED BY <1>3, <3>1
  <2>3. CASE Exit(p)
    BY <1>4, <2>3 DEF Exit
  <2>4. CASE Other(p)
    BY <1>0, <1>1, <2>4 DEF Other, Start, Engine
  <2>. QED BY <2>1, <2>2, <2>3, <2>4
<1>6. ASSUME NEW s \in Shell, Starts(s) PROVE UNCHANGED proc
  BY <1>6 DEF Starts, ServeLook, StopLook, Look
<1>7. ASSUME NEW s \in Shell, StopTerm(s) \/ StopKill(s) PROVE Has(proc[q])
  <2>1. ASSUME NEW st, Signalled(saw(s), st) PROVE Has(proc[q])
    BY <1>3, <2>1 DEF Signalled
  <2>. QED BY <1>2, <1>7, <2>1, Signals
<1>9. ASSUME NEW s \in Shell, GoesOn(s), ~ServeSpawn(s), ~StopTerm(s), ~StopKill(s)
      PROVE  UNCHANGED proc
  BY <1>9 DEF GoesOn, ServeProbe, ServeUnlink, ServePort, ServeRefuses, ServeRecord,
       ServeWait, ServeCurl, ServeTimeout, ServeDrop, StopProbe, StopIdentify,
       StopPoll, StopDrop, Killed
<1>. QED BY <1>2, <1>5, <1>6, <1>7, <1>9

\* A start brings one, of the script's engine, which the script remembers.
LEMMA SpawnedServer ==
    ASSUME TypeOK, Jobs, NEW s \in Shell, ServeSpawn(s), NEW e \in Engine
    PROVE  /\ mine(s)' \in Pid
           /\ Servers(e)' \subseteq Servers(e) \union {mine(s)'}
           /\ e # E(s) => Servers(e)' \subseteq Servers(e)
<1>0. /\ proc \in [Pid -> Process \union {None}]
      /\ local \in [Shell -> ScriptType]
  BY TypeNames
<1>1. PICK p \in Pid : Start(p, E(s), "loading") /\ local' = Meet(p, s)
  BY DEF ServeSpawn
<1>2. mine(s)' = p
  BY <1>0, <1>1 DEF Meet, mine, ScriptType
<1>3. \A q \in Pid : q # p => proc'[q] = proc[q]
  BY <1>0, <1>1 DEF Start
<1>4. proc'[p].is = E(s)
  BY <1>0, <1>1 DEF Start
<1>5. ASSUME NEW q \in Pid, q \in Servers(e)', q # p PROVE q \in Servers(e)
  BY <1>3, <1>5 DEF Servers, Serves, IsServer, Alive
<1>6. ASSUME p \in Servers(e)' PROVE e = E(s)
  BY <1>4, <1>6 DEF Servers, Serves, IsServer, Alive
<1>. QED BY <1>2, <1>5, <1>6 DEF Servers

(***************************************************************************)
(* Scripts and their numbers                                               *)
(***************************************************************************)
\* What a script becomes when it starts.
LEMMA Started ==
    ASSUME TypeOK, NEW s \in Shell, Starts(s), s \in Active'
    PROVE  \E j \in Job :
              /\ s \notin Active
              /\ j.engine \in Engine
              /\ local'[s].job = j /\ local'[s].saw = pidfile[j.engine]
              /\ UNCHANGED <<proc, pidfile>>
              /\ upset' = IF \E t \in Active : E(t) = j.engine
                            THEN upset \union {j.engine} ELSE upset
              /\ \/ pc'[s] = "probe" /\ pidfile[j.engine] # None
                 \/ /\ j.verb = "serve" /\ pidfile[j.engine] = None
                    /\ pc'[s] \in {"unlink", "spawn"}
<1>0. /\ pc \in [Shell -> Commands]
      /\ local \in [Shell -> ScriptType]
  BY TypeNames
<1>1. ASSUME NEW verb, NEW missing \in [Engine -> {"unlink", "spawn", "done"}],
             Look(s, verb, missing),
             \A e \in Engine : missing[e] = "done" \/ verb = "serve"
      PROVE  \E j \in Job :
              /\ s \notin Active
              /\ j.engine \in Engine
              /\ local'[s].job = j /\ local'[s].saw = pidfile[j.engine]
              /\ UNCHANGED <<proc, pidfile>>
              /\ upset' = IF \E t \in Active : E(t) = j.engine
                            THEN upset \union {j.engine} ELSE upset
              /\ \/ pc'[s] = "probe" /\ pidfile[j.engine] # None
                 \/ /\ j.verb = "serve" /\ pidfile[j.engine] = None
                    /\ pc'[s] \in {"unlink", "spawn"}
  <2>1. PICK j \in Job :
            /\ j.verb = verb
            /\ local' = [local EXCEPT ![s].job = j, ![s].saw = pidfile[j.engine]]
            /\ upset' = IF \E t \in Active : E(t) = j.engine
                          THEN upset \union {j.engine} ELSE upset
            /\ pc' = [pc EXCEPT ![s] =
                        IF pidfile[j.engine] = None THEN missing[j.engine] ELSE "probe"]
    BY <1>1 DEF Look
  <2>2. j.engine \in Engine
    OBVIOUS
  <2>3. local'[s] = [local[s] EXCEPT !.job = j, !.saw = pidfile[j.engine]]
    BY <1>0, <2>1
  <2>4. local'[s].job = j /\ local'[s].saw = pidfile[j.engine]
    BY <1>0, <2>3 DEF ScriptType
  <2>5. pc'[s] = IF pidfile[j.engine] = None THEN missing[j.engine] ELSE "probe"
    BY <1>0, <2>1
  <2>6. pc'[s] \notin Ended
    BY DEF Active
  <2>7. \/ pc'[s] = "probe" /\ pidfile[j.engine] # None
        \/ /\ j.verb = "serve" /\ pidfile[j.engine] = None
           /\ pc'[s] \in {"unlink", "spawn"}
    BY <1>1, <2>1, <2>2, <2>5, <2>6 DEF Ended
  <2>8. s \notin Active /\ UNCHANGED <<proc, pidfile>>
    BY <1>1 DEF Look, Active
  <2>. QED BY <2>1, <2>2, <2>4, <2>7, <2>8
<1>2. CASE ServeLook(s)
  BY <1>1, <1>2, Zenon DEF ServeLook
<1>3. CASE StopLook(s)
  BY <1>1, <1>3 DEF StopLook
<1>. QED BY <1>2, <1>3 DEF Starts

LEMMA JobsStep ==
    ASSUME TypeOK, Jobs, Next PROVE Jobs'
<1>0. /\ pc \in [Shell -> Commands]
      /\ local \in [Shell -> ScriptType]
  BY TypeNames
<1>. SUFFICES ASSUME NEW t \in Active'
              PROVE  /\ local'[t].job \in Job
                     /\ pc'[t] \in Serving => local'[t].job.verb = "serve"
                     /\ pc'[t] \in Stopping => local'[t].job.verb = "stop"
                     /\ pc'[t] = "curl" => local'[t].polls < Polls
  BY DEF Jobs, Verb, polls
<1>1. t \in Shell
  BY DEF Active
<1>2. CASE Same(t)
  <2>1. t \in Active
    BY <1>2 DEF Active, Same
  <2>. QED BY <1>2, <2>1 DEF Jobs, Same, Verb, polls
<1>3. CASE Starts(t)
  BY <1>3, <1>1, Started DEF Serving, Stopping
<1>4. CASE GoesOn(t)
  <2>1. t \in Active /\ pc'[t] \notin Ended
    BY <1>1, <1>4, GoesOnActive DEF Active
  <2>2. local'[t].job = local[t].job /\ local[t].job \in Job
    BY <1>1, <1>4, <2>1, OwnSame DEF Jobs
  <2>3. /\ pc[t] \in Serving => Verb(t) = "serve"
        /\ pc[t] \in Stopping => Verb(t) = "stop"
    BY <2>1 DEF Jobs
  <2>4. /\ pc'[t] \in Serving => Verb(t) = "serve"
        /\ pc'[t] \in Stopping => Verb(t) = "stop"
    BY <1>0, <1>1, <1>4, <2>1, <2>3
       DEF GoesOn, ServeProbe, ServeUnlink, ServePort, ServeRefuses, ServeSpawn, ServeRecord,
           ServeWait, ServeCurl, ServeTimeout, ServeDrop, StopProbe, StopIdentify, StopTerm,
           StopPoll, StopKill, StopDrop, Killed, Goto, Again, Serving, Stopping, Ended
  <2>5. pc'[t] = "curl" => ServeWait(t)
    BY <1>0, <1>1, <1>4
       DEF GoesOn, ServeProbe, ServeUnlink, ServePort, ServeRefuses, ServeSpawn, ServeRecord,
           ServeWait, ServeCurl, ServeTimeout, ServeDrop, StopProbe, StopIdentify, StopTerm,
           StopPoll, StopKill, StopDrop, Killed, Goto, Again
  <2>6. ASSUME ServeWait(t) PROVE local'[t].polls < Polls
    BY <1>0, <1>1, <2>1, <2>6 DEF ServeWait, Goto, polls, Ended
  <2>. QED BY <2>2, <2>4, <2>5, <2>6 DEF Verb
<1>. QED BY <1>1, <1>2, <1>3, <1>4, Split, OthersSame, MachineSame

LEMMA TurnsStep ==
    ASSUME TypeOK, Turns, Next PROVE Turns'
<1>. SUFFICES ASSUME NEW s \in Active', NEW t \in Active',
                     local'[s].job.engine = local'[t].job.engine,
                     local'[s].job.engine \notin upset', s # t
              PROVE  FALSE
  BY DEF Turns, E
<1>1. s \in Shell /\ t \in Shell /\ pc'[s] \notin Ended /\ pc'[t] \notin Ended
  BY DEF Active
<1>2. upset \subseteq upset'
  BY MachineSame, <1>1, Split
     DEF GoesOn, ServeProbe, ServeUnlink, ServePort, ServeRefuses, ServeSpawn, ServeRecord,
         ServeWait, ServeCurl, ServeTimeout, ServeDrop, StopProbe, StopIdentify, StopTerm,
         StopPoll, StopKill, StopDrop, Killed, Starts, ServeLook, StopLook, Look
<1>3. ASSUME NEW x \in Shell, pc'[x] \notin Ended, Same(x) \/ GoesOn(x)
      PROVE  x \in Active /\ local'[x].job = local[x].job
  BY <1>3, GoesOnActive, OwnSame DEF Same, Active
<1>4. CASE (Same(s) \/ GoesOn(s)) /\ (Same(t) \/ GoesOn(t))
  BY <1>1, <1>2, <1>3, <1>4 DEF Turns, E
<1>5. ASSUME NEW x \in Active', NEW y \in Active', Starts(x), x # y,
             local'[x].job.engine = local'[y].job.engine
      PROVE  local'[x].job.engine \in upset'
  <2>1. x \in Shell /\ y \in Shell /\ pc'[y] \notin Ended
    BY DEF Active
  <2>2. Same(y)
    BY <1>5, <2>1, OthersSame
  <2>3. y \in Active /\ local'[y].job = local[y].job
    BY <1>3, <2>1, <2>2
  <2>. QED BY <1>5, <2>1, <2>3, Started DEF E
<1>. QED BY <1>1, <1>4, <1>5, Split, OthersSame, MachineSame

\* What vLLM's stop script has approved stays approved: a number that ends is
\* given out again before the script's eyes.
LEMMA ApprovedKept ==
    ASSUME TypeOK, Jobs, Next, NEW t \in Active, NEW p \in Pid,
           Verb(t) = "stop",
           ~Alive(p) \/ IsServer(p, "vllm") \/ p \in local[t].met,
           pc'[t] \notin Ended
    PROVE  ~Alive(p)' \/ IsServer(p, "vllm")' \/ p \in local'[t].met
<1>0. /\ proc \in [Pid -> Process \union {None}]
      /\ local \in [Shell -> ScriptType]
      /\ t \in Shell
  BY TypeNames DEF Active
<1>1. local[t].met \subseteq local'[t].met
  BY <1>0, Split, OthersSame, MachineSame, OwnSame, GoesOnActive DEF Same, Starts, ServeLook,
     StopLook, Look, Active
<1>2. SUFFICES ASSUME p \notin local'[t].met, Alive(p)'
               PROVE  IsServer(p, "vllm")'
  OBVIOUS
<1>3. ~Alive(p) \/ IsServer(p, "vllm")
  BY <1>1, <1>2
<1>4. ASSUME NEW q \in Pid, NEW w, NEW st, Start(q, w, st),
             q = p => p \in local'[t].met
      PROVE  IsServer(p, "vllm")'
  BY <1>0, <1>2, <1>3, <1>4 DEF Start, Alive, IsServer
<1>5. CASE UNCHANGED proc
  BY <1>2, <1>3, <1>5 DEF Alive, IsServer
<1>6. ASSUME NEW q \in Pid, proc[q] # None, NEW st \in {"listening", "stopping", "killed"},
             proc[q].is \in Engine \/ st # "listening",
             proc' = [proc EXCEPT ![q].state = st]
      PROVE  IsServer(p, "vllm")'
  <2>1. [proc[q] EXCEPT !.state = st].is = proc[q].is
    BY <1>0, <1>6, StateOnly
  <2>. QED BY <1>0, <1>2, <1>3, <1>6, <2>1 DEF Alive, IsServer
<1>7. ASSUME NEW q, proc' = [proc EXCEPT ![q] = None] PROVE IsServer(p, "vllm")'
  BY <1>0, <1>2, <1>3, <1>7 DEF Alive, IsServer
<1>8. CASE Machine
  <2>1. PICK q \in Pid : Bind(q) \/ Exit(q) \/ Other(q)
    BY <1>8 DEF Machine
  <2>2. CASE Bind(q)
    <3>1. proc[q] # None /\ proc[q].is \in Engine
      BY <1>0, <2>2 DEF Bind, Alive, Process
    <3>. QED BY <1>6, <2>2, <3>1 DEF Bind
  <2>3. CASE Exit(q)
    BY <1>7, <2>3 DEF Exit
  <2>4. CASE Other(q)
    <3>1. Start(q, "other", "running") /\ q \in local'[t].met
      BY <1>0, <2>4, MeetSame DEF Other
    <3>. QED BY <1>4, <3>1
  <2>. QED BY <2>1, <2>2, <2>3, <2>4
<1>9. ASSUME NEW s \in Shell, ServeSpawn(s) PROVE IsServer(p, "vllm")'
  <2>1. PICK q \in Pid : Start(q, E(s), "loading") /\ local' = Meet(q, s)
    BY <1>9 DEF ServeSpawn
  <2>2. s \in Active /\ Verb(s) = "serve"
    BY <1>9 DEF ServeSpawn, Active, Jobs, Serving, Ended
  <2>3. q \in local'[t].met
    BY <1>0, <2>1, <2>2, MeetSame
  <2>. QED BY <1>4, <2>1, <2>3
<1>10. ASSUME NEW s \in Shell, StopTerm(s) \/ StopKill(s) PROVE IsServer(p, "vllm")'
  <2>1. ASSUME NEW st, Signalled(saw(s), st) PROVE IsServer(p, "vllm")'
    BY <1>6, <2>1 DEF Signalled
  <2>. QED BY <1>5, <1>10, <2>1, Signals
<1>12. ASSUME NEW s \in Shell, Starts(s) \/ GoesOn(s), ~ServeSpawn(s), ~StopTerm(s), ~StopKill(s)
       PROVE  UNCHANGED proc
  BY <1>12 DEF GoesOn, ServeProbe, ServeUnlink, ServePort, ServeRefuses, ServeRecord,
       ServeWait, ServeCurl, ServeTimeout, ServeDrop, StopProbe, StopIdentify,
       StopPoll, StopDrop, Killed, Starts, ServeLook, StopLook, Look
<1>. QED BY <1>5, <1>8, <1>9, <1>10, <1>12, Split

LEMMA ApprovedStep ==
    ASSUME TypeOK, Jobs, Approved, Next PROVE Approved'
<1>0. /\ pc \in [Shell -> Commands]
      /\ local \in [Shell -> ScriptType]
  BY TypeNames
<1>. SUFFICES ASSUME NEW t \in Active', local'[t].job.engine = "vllm",
                     pc'[t] \in {"term", "poll", "kill"}
              PROVE  ~Alive(saw(t))' \/ IsServer(saw(t), "vllm")' \/ saw(t)' \in local'[t].met
  BY DEF Approved, E
<1>1. t \in Shell /\ pc'[t] \notin Ended
  BY DEF Active
<1>2. ~Starts(t)
  BY <1>1, Started
<1>3. Same(t) \/ GoesOn(t)
  BY <1>1, <1>2, Split, OthersSame, MachineSame
<1>4. t \in Active /\ saw(t)' = saw(t) /\ local'[t].job = local[t].job
  BY <1>1, <1>3, GoesOnActive, OwnSame DEF Same, Active, saw
<1>5. saw(t) \in Pid \union {None}
  BY <1>0, <1>1 DEF saw, ScriptType
<1>6. CASE saw(t) = None
  BY <1>4, <1>6 DEF Alive
<1>7. CASE pc[t] \in {"term", "poll", "kill"}
  <2>1. Verb(t) = "stop"
    BY <1>4, <1>7 DEF Jobs, Stopping
  <2>2. ~Alive(saw(t)) \/ IsServer(saw(t), "vllm") \/ saw(t) \in local[t].met
    BY <1>4, <1>7 DEF Approved, E
  <2>3. CASE saw(t) \in Pid
    <3>. DEFINE p == saw(t)
    <3>1. ~Alive(p)' \/ IsServer(p, "vllm")' \/ p' \in local'[t].met
      <4>. HIDE DEF p
      <4>1. ASSUME NEW q \in Pid, q = p
            PROVE  ~Alive(q)' \/ IsServer(q, "vllm")' \/ q \in local'[t].met
        BY <1>1, <1>4, <2>1, <2>2, <4>1, ApprovedKept DEF p
      <4>2. PICK q \in Pid : q = p
        BY <2>3 DEF p
      <4>. QED BY <1>4, <4>1, <4>2 DEF p, Alive, IsServer
    <3>. QED BY <3>1
  <2>. QED BY <1>5, <1>6, <2>3
<1>8. CASE pc[t] \notin {"term", "poll", "kill"}
  <2>1. StopIdentify(t)
    BY <1>0, <1>1, <1>3, <1>4, <1>8
       DEF GoesOn, ServeProbe, ServeUnlink, ServePort, ServeRefuses, ServeSpawn, ServeRecord,
           ServeWait, ServeCurl, ServeTimeout, ServeDrop, StopProbe, StopTerm,
           StopPoll, StopKill, StopDrop, Killed, Goto, Again, Ended, Same, E
  <2>2. ~Alive(saw(t)) \/ IsServer(saw(t), "vllm")
    BY <1>0, <1>1, <1>4, <2>1 DEF StopIdentify, Goto, Ended, E
  <2>3. UNCHANGED proc
    BY <2>1 DEF StopIdentify
  <2>. QED BY <1>4, <2>2, <2>3 DEF Alive, IsServer
<1>. QED BY <1>7, <1>8

(***************************************************************************)
(* Servers and pid files                                                   *)
(***************************************************************************)
\* A script of an engine that is not upset knows its servers after each of its
\* commands, and leaves the pid file right when it ends.
LEMMA OwnStep ==
    ASSUME TypeOK, Jobs, NEW s \in Active, GoesOn(s), Knows(s),
           NEW e \in Engine, e = E(s), e \notin upset'
    PROVE  /\ pc'[s] \notin Ended => Knows(s)'
           /\ pc'[s] \in Ended => Servers(e)' \subseteq {pidfile'[e]}
<1>0. /\ proc \in [Pid -> Process \union {None}]
      /\ pidfile \in [Engine -> Pid \union {None}]
      /\ pc \in [Shell -> Commands]
      /\ local \in [Shell -> ScriptType]
      /\ s \in Shell
  BY TypeNames DEF Active
<1>1. ASSUME pc'[s] \notin Ended
      PROVE  E(s)' = e /\ saw(s)' = saw(s) /\ (mine(s)' = mine(s) \/ ServeSpawn(s))
  BY <1>0, <1>1, OwnSame DEF E, saw, mine
<1>2. ~ServeSpawn(s) => Servers(e)' \subseteq Servers(e)
  BY <1>0, NoNewServers
<1>3. ASSUME NEW step, Goto(s, step) PROVE pc'[s] = step
  BY <1>0, <1>3 DEF Goto
<1>4. Remove(s) => pidfile'[e] = None
  BY <1>0 DEF Remove
<1>5. ASSUME ~Alive(saw(s)), Servers(e) \subseteq {saw(s)} PROVE Servers(e) = {}
  BY <1>5 DEF Servers, Serves, IsServer
<1>6. ASSUME ~Alive(mine(s)), Servers(e) \subseteq {mine(s)} PROVE Servers(e) = {}
  BY <1>6 DEF Servers, Serves, IsServer
<1>7. CASE ServeProbe(s)
  <2>1. /\ Servers(e) \subseteq {saw(s)} /\ pidfile[e] = saw(s) /\ UNCHANGED pidfile
        /\ ~ServeSpawn(s)
    BY <1>7 DEF ServeProbe, ServeSpawn, Knows
  <2>2. pc'[s] = "failed" \/ (pc'[s] = "unlink" /\ ~Alive(saw(s)))
    BY <1>3, <1>7 DEF ServeProbe
  <2>. QED BY <1>1, <1>2, <1>5, <2>1, <2>2 DEF Knows, Stopping, Ended
<1>8. CASE ServeUnlink(s)
  <2>1. Servers(e) = {}
    BY <1>8 DEF ServeUnlink, Knows
  <2>. QED BY <1>1, <1>2, <1>3, <1>8, <2>1
       DEF ServeUnlink, ServeSpawn, Knows, Stopping, Ended
<1>9. CASE ServePort(s) \/ ServeRefuses(s)
  <2>1. Servers(e) = {} /\ ~ServeSpawn(s)
    BY <1>3, <1>9, <1>0 DEF ServePort, ServeRefuses, ServeSpawn, Knows
  <2>. QED BY <1>1, <1>2, <1>3, <1>9, <2>1
       DEF ServePort, ServeRefuses, Knows, Stopping, Ended
<1>10. CASE ServeSpawn(s)
  <2>1. Servers(e) = {} /\ pc'[s] = "record"
    BY <1>0, <1>10 DEF ServeSpawn, Knows
  <2>2. mine(s)' \in Pid /\ Servers(e)' \subseteq {mine(s)'}
    BY <1>0, <1>10, <2>1, SpawnedServer
  <2>. QED BY <1>1, <2>1, <2>2 DEF Knows, Stopping, Ended
<1>11. CASE ServeRecord(s)
  <2>1. Servers(e) \subseteq {mine(s)} /\ pc'[s] = "wait" /\ pidfile'[e] = mine(s)
    BY <1>0, <1>3, <1>11 DEF ServeRecord, Knows
  <2>. QED BY <1>1, <1>2, <1>11, <2>1 DEF ServeRecord, ServeSpawn, Knows, Stopping, Ended
<1>12. CASE ServeWait(s)
  <2>1. /\ Servers(e) \subseteq {mine(s)} /\ pidfile[e] = mine(s) /\ UNCHANGED pidfile
        /\ ~ServeSpawn(s)
    BY <1>12 DEF ServeWait, ServeSpawn, Knows
  <2>. QED BY <1>1, <1>2, <1>3, <1>6, <1>12, <2>1 DEF ServeWait, Knows, Stopping, Ended
<1>13. CASE ServeCurl(s)
  <2>1. /\ Servers(e) \subseteq {mine(s)} /\ pidfile[e] = mine(s) /\ UNCHANGED pidfile
        /\ ~ServeSpawn(s)
    BY <1>13 DEF ServeCurl, ServeSpawn, Knows
  <2>2. pc'[s] \in {"done", "wait"}
    BY <1>0, <1>3, <1>13 DEF ServeCurl, Again
  <2>. QED BY <1>1, <1>2, <2>1, <2>2 DEF Knows, Stopping, Ended
<1>14. CASE ServeTimeout(s)
  <2>1. /\ Servers(e) \subseteq {mine(s)} /\ pidfile[e] = mine(s) /\ UNCHANGED pidfile
        /\ ~ServeSpawn(s) /\ pc'[s] = "failed"
    BY <1>3, <1>14 DEF ServeTimeout, ServeSpawn, Knows
  <2>. QED BY <1>2, <2>1 DEF Ended
<1>15. CASE ServeDrop(s) \/ StopDrop(s)
  <2>1. Servers(e) = {} /\ ~ServeSpawn(s) /\ pc'[s] \in Ended
    BY <1>3, <1>15 DEF ServeDrop, StopDrop, ServeSpawn, Knows, Ended
  <2>. QED BY <1>2, <2>1
<1>16. CASE StopProbe(s)
  <2>1. /\ Servers(e) \subseteq {saw(s)} /\ pidfile[e] = saw(s) /\ UNCHANGED pidfile
        /\ ~ServeSpawn(s)
    BY <1>16 DEF StopProbe, ServeSpawn, Knows
  <2>. QED BY <1>1, <1>2, <1>3, <1>5, <1>16, <2>1 DEF StopProbe, Knows, Stopping, Ended
<1>17. CASE StopIdentify(s)
  <2>1. Servers(e) \subseteq {saw(s)} /\ pidfile[e] = saw(s) /\ ~ServeSpawn(s)
    BY <1>17 DEF StopIdentify, ServeSpawn, Knows, Stopping
  <2>2. CASE Alive(saw(s)) /\ ~IsServer(saw(s), E(s))
    <3>1. Servers(e) = {} /\ pc'[s] = "failed"
      BY <1>3, <1>17, <2>1, <2>2 DEF StopIdentify, Servers, Serves
    <3>. QED BY <1>2, <2>1, <3>1 DEF Ended
  <2>3. CASE ~(Alive(saw(s)) /\ ~IsServer(saw(s), E(s)))
    <3>1. UNCHANGED pidfile /\ pc'[s] = "term"
      BY <1>3, <1>17, <2>3 DEF StopIdentify
    <3>. QED BY <1>1, <1>2, <2>1, <3>1 DEF Knows, Stopping, Ended
  <2>. QED BY <2>2, <2>3
<1>18. CASE StopTerm(s)
  <2>1. /\ Servers(e) \subseteq {saw(s)} /\ pidfile[e] = saw(s) /\ UNCHANGED pidfile
        /\ ~ServeSpawn(s) /\ pc'[s] \in {"poll", "failed"}
    BY <1>3, <1>18 DEF StopTerm, ServeSpawn, Knows, Stopping
  <2>. QED BY <1>1, <1>2, <2>1 DEF Knows, Stopping, Ended
<1>19. CASE StopPoll(s)
  <2>1. /\ Servers(e) \subseteq {saw(s)} /\ pidfile[e] = saw(s) /\ UNCHANGED pidfile
        /\ ~ServeSpawn(s)
    BY <1>19 DEF StopPoll, ServeSpawn, Knows, Stopping
  <2>2. \/ pc'[s] \in {"poll", "kill"}
        \/ pc'[s] = "drop" /\ ~Alive(saw(s))
    BY <1>0, <1>3, <1>19, TypeNames DEF StopPoll, Again, polls, ScriptType
  <2>. QED BY <1>1, <1>2, <1>5, <2>1, <2>2 DEF Knows, Stopping, Ended
<1>20. CASE StopKill(s)
  <2>1. Servers(e) \subseteq {saw(s)} /\ ~ServeSpawn(s) /\ pc'[s] = "drop"
    BY <1>3, <1>20 DEF StopKill, ServeSpawn, Knows, Stopping
  <2>2. saw(s) \notin Servers(e)'
    <3>1. CASE ~Alive(saw(s))
      BY <1>20, <3>1 DEF StopKill, Servers, Serves, IsServer, Alive
    <3>2. ASSUME Signalled(saw(s), "killed") PROVE saw(s) \notin Servers(e)'
      <4>. DEFINE p == saw(s)
      <4>1. proc[p] \in Process /\ p \in Pid
        BY <1>0, <3>2 DEF Signalled
      <4>2. [proc[p] EXCEPT !.state = "killed"].state = "killed"
        BY <4>1, StateOnly
      <4>3. proc'[p].state = "killed"
        BY <1>0, <3>2, <4>1, <4>2 DEF Signalled
      <4>. QED BY <4>3 DEF Servers, Serves
    <3>3. CASE Alive(saw(s))
      <4>1. Signalled(saw(s), "killed")
        BY <1>0, <1>20, <3>3 DEF StopKill, Signalled, Alive, saw, ScriptType
      <4>. QED BY <3>2, <4>1
    <3>. QED BY <3>1, <3>3
  <2>3. Servers(e)' = {}
    BY <1>2, <2>1, <2>2
  <2>. QED BY <1>1, <2>1, <2>3 DEF Knows, Stopping, Ended
<1>21. CASE Killed(s)
  <2>1. pc'[s] = "killed" /\ UNCHANGED pidfile /\ pc[s] # "record" /\ ~ServeSpawn(s)
    BY <1>0, <1>3, <1>21 DEF Killed, ServeSpawn, Goto
  <2>2. Servers(e) \subseteq {pidfile[e]}
    BY <1>0, <2>1 DEF Knows, Commands, Serving, Active
  <2>. QED BY <1>2, <2>1, <2>2 DEF Ended
<1>. QED BY <1>7, <1>8, <1>9, <1>10, <1>11, <1>12, <1>13, <1>14, <1>15, <1>16, <1>17, <1>18,
            <1>19, <1>20, <1>21 DEF GoesOn

LEMMA KnowledgeStep ==
    ASSUME TypeOK, Jobs, Turns, Knowledge, Rest, Next PROVE Knowledge'
<1>0. /\ pidfile \in [Engine -> Pid \union {None}]
      /\ pc \in [Shell -> Commands]
      /\ local \in [Shell -> ScriptType]
      /\ upset \subseteq upset'
  BY TypeNames, MachineSame, Split
     DEF GoesOn, ServeProbe, ServeUnlink, ServePort, ServeRefuses, ServeSpawn, ServeRecord,
         ServeWait, ServeCurl, ServeTimeout, ServeDrop, StopProbe, StopIdentify, StopTerm,
         StopPoll, StopKill, StopDrop, Killed, Starts, ServeLook, StopLook, Look, Machine,
         Bind, Exit, Other
<1>. SUFFICES ASSUME NEW t \in Active', E(t)' \notin upset' PROVE Knows(t)'
  BY DEF Knowledge
<1>1. t \in Shell /\ pc'[t] \notin Ended
  BY DEF Active
<1>2. PICK e \in Engine : e = local'[t].job.engine
  <2>1. local'[t].job \in Job
    BY JobsStep DEF Jobs
  <2>. QED BY <2>1
<1>3. E(t)' = e
  BY <1>2 DEF E
<1>4. ASSUME Same(t), pidfile'[e] = pidfile[e], Servers(e)' \subseteq Servers(e)
      PROVE  Knows(t)'
  <2>1. t \in Active /\ E(t) = e /\ E(t) \notin upset
    BY <1>0, <1>1, <1>2, <1>3, <1>4 DEF Same, Active, E
  <2>2. Knows(t)
    BY <2>1 DEF Knowledge
  <2>3. pc'[t] = pc[t] /\ saw(t)' = saw(t) /\ mine(t)' = mine(t)
    BY <1>4 DEF Same, saw, mine
  <2>4. /\ pc'[t] = "probe" \/ pc'[t] \in Stopping =>
              pidfile'[e] = saw(t)' /\ Servers(e)' \subseteq {saw(t)'}
        /\ pc'[t] \in {"unlink", "port", "spawn", "drop"} => Servers(e)' = {}
        /\ pc'[t] = "record" => mine(t)' \in Pid /\ Servers(e)' \subseteq {mine(t)'}
        /\ pc'[t] \in {"wait", "curl"} =>
              pidfile'[e] = mine(t)' /\ Servers(e)' \subseteq {mine(t)'}
    BY <1>4, <2>1, <2>2, <2>3 DEF Knows
  <2>. QED BY <1>3, <2>4 DEF Knows
<1>5. CASE Machine
  BY <1>1, <1>4, <1>5, MachineSame, NoNewServers
<1>6. ASSUME NEW s \in Shell, GoesOn(s), s # t PROVE Knows(t)'
  <2>1. Same(t) /\ s \in Active
    BY <1>1, <1>6, OthersSame, GoesOnActive
  <2>2. E(s) # e
    BY <1>0, <1>1, <1>2, <1>3, <1>6, <2>1 DEF Turns, Same, Active, E
  <2>3. pidfile'[e] = pidfile[e]
    BY <1>0, <1>6, <2>2
       DEF GoesOn, ServeProbe, ServeUnlink, ServePort, ServeRefuses, ServeSpawn, ServeRecord,
           ServeWait, ServeCurl, ServeTimeout, ServeDrop, StopProbe, StopIdentify, StopTerm,
           StopPoll, StopKill, StopDrop, Killed, Remove
  <2>4. Servers(e)' \subseteq Servers(e)
    BY <1>6, <2>2, NoNewServers, SpawnedServer
  <2>. QED BY <1>4, <2>1, <2>3, <2>4
<1>7. CASE GoesOn(t)
  <2>1. t \in Active
    BY <1>1, <1>7, GoesOnActive
  <2>2. local'[t].job = local[t].job
    BY <1>1, <1>7, OwnSame
  <2>3. E(t) = e /\ E(t) \notin upset
    BY <1>0, <1>2, <1>3, <2>2 DEF E
  <2>4. Knows(t)
    BY <2>1, <2>3 DEF Knowledge
  <2>. QED BY <1>1, <1>3, <1>7, <2>1, <2>3, <2>4, OwnStep
<1>8. ASSUME NEW s \in Shell, Starts(s), s # t PROVE Knows(t)'
  <2>1. UNCHANGED <<proc, pidfile>>
    BY <1>8 DEF Starts, ServeLook, StopLook, Look
  <2>. QED BY <1>1, <1>4, <1>8, <2>1, OthersSame, NoNewServers
<1>9. CASE Starts(t)
  <2>1. PICK j \in Job :
            /\ t \notin Active
            /\ local'[t].job = j /\ local'[t].saw = pidfile[j.engine]
            /\ UNCHANGED <<proc, pidfile>>
            /\ upset' = IF \E s \in Active : E(s) = j.engine
                          THEN upset \union {j.engine} ELSE upset
            /\ \/ pc'[t] = "probe" /\ pidfile[j.engine] # None
               \/ pidfile[j.engine] = None /\ pc'[t] \in {"unlink", "spawn"}
    BY <1>1, <1>9, Started
  <2>2. j.engine = e /\ saw(t)' = pidfile[e]
    BY <1>2, <2>1 DEF saw
  <2>3. Servers(e) \subseteq {pidfile[e]}
    BY <1>3, <2>1, <2>2 DEF Rest
  <2>4. Servers(e)' = Servers(e) /\ pidfile'[e] = pidfile[e]
    BY <2>1 DEF Servers, Serves, IsServer, Alive
  <2>5. pidfile[e] = None => Servers(e) = {}
    BY <2>3, NoneAssumption DEF Servers
  <2>. QED BY <1>3, <2>1, <2>2, <2>3, <2>4, <2>5 DEF Knows, Stopping
<1>. QED BY <1>1, <1>5, <1>6, <1>7, <1>8, <1>9, Split

LEMMA RestStep ==
    ASSUME TypeOK, Jobs, Turns, Knowledge, Rest, Next PROVE Rest'
<1>0. /\ pidfile \in [Engine -> Pid \union {None}]
      /\ pc \in [Shell -> Commands]
      /\ local \in [Shell -> ScriptType]
      /\ upset \subseteq upset'
  BY TypeNames, MachineSame, Split
     DEF GoesOn, ServeProbe, ServeUnlink, ServePort, ServeRefuses, ServeSpawn, ServeRecord,
         ServeWait, ServeCurl, ServeTimeout, ServeDrop, StopProbe, StopIdentify, StopTerm,
         StopPoll, StopKill, StopDrop, Killed, Starts, ServeLook, StopLook, Look, Machine,
         Bind, Exit, Other
<1>. SUFFICES ASSUME NEW e \in Engine, e \notin upset', \A t \in Active' : E(t)' # e
              PROVE  Servers(e)' \subseteq {pidfile'[e]}
  BY DEF Rest
<1>1. ASSUME NEW t \in Shell, Same(t) PROVE t \notin Active \/ E(t) # e
  BY <1>1 DEF Same, Active, E
<1>2. CASE Machine
  <2>1. Servers(e) \subseteq {pidfile[e]}
    BY <1>0, <1>1, <1>2, MachineSame DEF Rest, Active
  <2>. QED BY <1>2, <2>1, MachineSame, NoNewServers DEF Machine, Bind, Exit, Other
<1>3. ASSUME NEW s \in Shell, Starts(s) PROVE Servers(e)' \subseteq {pidfile'[e]}
  <2>1. s \notin Active /\ UNCHANGED <<proc, pidfile>>
    BY <1>3 DEF Starts, ServeLook, StopLook, Look, Active
  <2>2. Servers(e) \subseteq {pidfile[e]}
    BY <1>0, <1>1, <1>3, <2>1, OthersSame DEF Rest, Active
  <2>. QED BY <1>3, <2>1, <2>2, NoNewServers
<1>4. ASSUME NEW s \in Shell, GoesOn(s) PROVE Servers(e)' \subseteq {pidfile'[e]}
  <2>1. s \in Active
    BY <1>4, GoesOnActive
  <2>2. CASE E(s) = e
    <3>1. pc'[s] \in Ended
      BY <1>0, <1>4, <2>2, OwnSame DEF Active, E
    <3>2. Knows(s)
      BY <1>0, <2>1, <2>2 DEF Knowledge
    <3>. QED BY <1>4, <2>1, <2>2, <3>1, <3>2, OwnStep
  <2>3. CASE E(s) # e
    <3>1. Servers(e) \subseteq {pidfile[e]}
      BY <1>0, <1>1, <1>4, <2>3, OthersSame DEF Rest, Active
    <3>2. pidfile'[e] = pidfile[e]
      BY <1>0, <1>4, <2>3
         DEF GoesOn, ServeProbe, ServeUnlink, ServePort, ServeRefuses, ServeSpawn, ServeRecord,
             ServeWait, ServeCurl, ServeTimeout, ServeDrop, StopProbe, StopIdentify, StopTerm,
             StopPoll, StopKill, StopDrop, Killed, Remove
    <3>3. Servers(e)' \subseteq Servers(e)
      BY <1>4, <2>3, NoNewServers, SpawnedServer
    <3>. QED BY <3>1, <3>2, <3>3
  <2>. QED BY <2>2, <2>3
<1>. QED BY <1>2, <1>3, <1>4, Split

(***************************************************************************)
(* The theorems                                                            *)
(***************************************************************************)
LEMMA Initially == Init => IInv
<1>. SUFFICES ASSUME Init PROVE IInv
  OBVIOUS
<1>. USE DEF Init
<1>1. Active = {}
  BY DEF Active, Ended
<1>2. \A e \in Engine : Servers(e) = {}
  BY DEF Servers, Serves, IsServer, Alive
<1>3. TypeOK
  BY DEF TypeOK, Blank, Ended
<1>. QED BY <1>1, <1>2, <1>3 DEF IInv, Jobs, Approved, Turns, Knowledge, Rest

LEMMA Inductive == IInv /\ [Next]_vars => IInv'
<1>1. ASSUME IInv, Next PROVE IInv'
  BY <1>1, TypeStep, JobsStep, ApprovedStep, TurnsStep, KnowledgeStep, RestStep DEF IInv
<1>2. ASSUME IInv, UNCHANGED vars PROVE IInv'
  BY <1>2 DEF IInv, vars, TypeOK, Jobs, Approved, Turns, Knowledge, Rest, Knows, Servers,
              Serves, IsServer, Alive, Active, E, Verb, saw, mine, polls
<1>. QED BY <1>1, <1>2

\* The inductive invariant: types, what each script knows of its engine's
\* servers, and that the pid file tells the rest.
THEOREM Invariance == Spec => []IInv
BY Initially, Inductive, PTL DEF Spec

\* Every variable holds a value of the program.
THEOREM TypeCorrect == Spec => []TypeOK
BY Invariance, PTL DEF IInv

\* Servers of an engine that is not upset: none or one.
LEMMA OneServer ==
    ASSUME IInv, NEW e \in Engine \ upset
    PROVE  \/ Servers(e) \subseteq {pidfile[e]}
           \/ \E s \in Active : E(s) = e /\ pc[s] = "record" /\ Servers(e) \subseteq {mine(s)}
<1>1. CASE \A s \in Active : E(s) # e
  BY <1>1 DEF IInv, Rest
<1>2. ASSUME NEW s \in Active, E(s) = e PROVE \/ Servers(e) \subseteq {pidfile[e]}
                                              \/ pc[s] = "record" /\ Servers(e) \subseteq {mine(s)}
  <2>1. Knows(s) /\ pc[s] \in Commands \ Ended
    BY <1>2, TypeNames DEF IInv, Knowledge, Active
  <2>. QED BY <1>2, <2>1 DEF Knows, Commands, Serving
<1>. QED BY <1>1, <1>2

\* A live server is named by its pid file, or its script is about to do that.
THEOREM NoServerLost == Spec => []NoOrphan
<1>1. IInv => NoOrphan
  BY OneServer DEF NoOrphan, Servers, Serves, Active
<1>. QED BY <1>1, Invariance, PTL

\* No engine runs twice.
THEOREM NeverTwo == Spec => []SingleServer
<1>1. ASSUME IInv PROVE SingleServer
  <2>. SUFFICES ASSUME NEW e \in Engine \ upset PROVE Cardinality(Servers(e)) <= 1
    BY DEF SingleServer, Servers
  <2>1. Servers(e) = {} \/ \E p : Servers(e) = {p}
    BY <1>1, OneServer
  <2>2. CASE Servers(e) = {}
    <3>1. Cardinality(Servers(e)) = 0
      BY <2>2, FS_EmptySet
    <3>. QED BY <3>1
  <2>3. ASSUME NEW p, Servers(e) = {p} PROVE Cardinality(Servers(e)) <= 1
    <3>1. Cardinality({p}) = 1
      BY FS_Singleton
    <3>. QED BY <2>3, <3>1
  <2>. QED BY <2>1, <2>2, <2>3
<1>. QED BY <1>1, Invariance, PTL

\* vLLM's stop script signals no program that was there before it.
THEOREM StopsOnlyItsServer == Spec => VllmStopSparesOthers
<1>1. ASSUME IInv, NEW s \in Active, E(s) = "vllm", StopTerm(s) \/ StopKill(s), Alive(saw(s))
      PROVE  IsServer(saw(s), "vllm") \/ saw(s) \in local[s].met
  BY <1>1 DEF IInv, Approved, StopTerm, StopKill
<1>2. IInv /\ [Next]_vars =>
        [\A s \in Active :
            E(s) = "vllm" /\ (StopTerm(s) \/ StopKill(s)) /\ Alive(saw(s))
                => IsServer(saw(s), "vllm") \/ saw(s) \in local[s].met]_vars
  BY <1>1
<1>. QED BY <1>2, Invariance, PTL DEF Spec, VllmStopSparesOthers

\* A stop script that reports success leaves no server of its engine, but one
\* that has been sent SIGKILL.
THEOREM StoppedIsGoneOrDying == Spec => StoppedOrDying
<1>1. ASSUME IInv, NEW s \in Active, StopDrop(s), E(s) \notin upset, NEW p \in Pid
      PROVE  ~Serves(p, E(s))
  BY <1>1 DEF IInv, Knowledge, Knows, Servers, StopDrop
<1>2. IInv /\ [Next]_vars =>
        [\A s \in Active : StopDrop(s) /\ E(s) \notin upset =>
            ~\E p \in Pid : Serves(p, E(s))]_vars
  BY <1>1
<1>. QED BY <1>2, Invariance, PTL DEF Spec, StoppedOrDying

===============================================================================
