---------------------------- MODULE InfernixTools ----------------------------
(***************************************************************************)
(* The client programs of an Infernix server.  bench_infernix.py (boots in *)
(* a row, or a matrix of placements) and bench_prefix_disk.py start and    *)
(* stop servers of their own and read every number from the server's       *)
(* request log; infernix_placement.py plans a placement for the server     *)
(* that runs.                                                              *)
(*                                                                         *)
(* The server (external) numbers the requests it accepts and logs each as  *)
(* started before it answers; the line that says done, with the speeds,    *)
(* may come after the answer.                                              *)
(***************************************************************************)
EXTENDS Integers, Sequences, SequencesExt, FiniteSetsExt

CONSTANTS
    Boots,      \* --startup-only
    Phases,     \* requests sent at once in each phase of the workload
    Sessions,   \* prompts of bench_prefix_disk
    Reports,    \* placement reports: [total, frame, record, free, pool, host]
    Reserves,   \* [vram, ram] to leave to other programs
    None

ASSUME InfernixAssumption ==
    /\ Boots \in Nat \ {0} /\ Sessions \in Nat \ {0}
    /\ Phases \in Seq(Nat \ {0}) /\ Phases # <<>>
    /\ \A r \in Reports :
          {r.total, r.frame, r.record, r.free, r.pool, r.host} \subseteq Nat
    /\ \A k \in Reserves : k.vram \in Nat /\ k.ram \in Nat
    /\ None \notin {"loading", "ready"}

Tools == {"startup", "matrix", "disk", "placement"}
Alive == {"loading", "ready"}

\* The workload is run twice per placement: a warm and a measured pass.
Workload == Phases \o Phases

VARIABLES
    tool, pc,
    server,     \* the server the program started last
    current,    \* CURRENT["server"] is set
    leaving,    \* an exception, SystemExit included, is on its way out
    missed,     \* ghost: the exception came between Popen and CURRENT
    boot,       \* servers started
    filled,     \* startup: the boots whose warm fill was complete
    disk,       \* the directory of the prefix cache exists
    phase,      \* phase of the workload, or ask of the disk benchmark
    waiting, running,   \* requests without an answer: not accepted, accepted
    abandoned,  \* requests given up by the client that the server may accept
    accepted, done,     \* the log: requests started, requests done
    parser,     \* the part of the log read: [started, done]
    ids,        \* per phase the requests counted as its own
    own,        \* ghost: per phase the requests it sent
    report, reserve, plan

life == <<server, current, leaving, missed, boot, filled, disk>>
log == <<waiting, running, abandoned, accepted, done>>
reading == <<phase, parser, ids, own>>
placing == <<report, reserve, plan>>
vars == <<tool, pc, life, log, reading, placing>>

Init ==
    /\ tool \in Tools
    /\ pc = IF tool = "placement" THEN "status" ELSE "start"
    /\ server = None /\ current = FALSE /\ leaving = FALSE /\ missed = FALSE
    /\ boot = 0 /\ filled = {} /\ disk = FALSE
    /\ phase = 0
    /\ waiting = 0 /\ running = {} /\ abandoned = 0 /\ accepted = 0 /\ done = {}
    /\ parser = [started |-> 0, done |-> {}]
    /\ ids = <<>> /\ own = <<>>
    /\ report = None /\ reserve = None /\ plan = None

(***************************************************************************)
(* The life of a server                                                    *)
(***************************************************************************)
\* A new log; the old one is of no more use to the program.
Forget ==
    /\ waiting' = 0 /\ running' = {} /\ abandoned' = 0 /\ accepted' = 0 /\ done' = {}
    /\ parser' = [started |-> 0, done |-> {}]
    /\ phase' = 0 /\ ids' = <<>> /\ own' = <<>>

Popen ==
    /\ pc = "start"
    /\ server' = "loading" /\ boot' = boot + 1
    /\ disk' = (tool = "disk")
    /\ pc' = "record"
    /\ Forget
    /\ UNCHANGED <<tool, current, leaving, missed, filled, placing>>

Record ==
    /\ pc = "record"
    /\ current' = TRUE
    /\ pc' = "wait"
    /\ UNCHANGED <<tool, server, leaving, missed, boot, filled, disk, log, reading, placing>>

\* wait_ready, which raises for a server that exited or takes too long.
Ready ==
    /\ pc = "wait"
    /\ IF server = "ready" THEN pc' = (IF tool = "startup" THEN "report" ELSE "phase")
                                /\ UNCHANGED leaving
       ELSE pc' = "finally" /\ leaving' = TRUE
    /\ UNCHANGED <<tool, server, current, missed, boot, filled, disk, log, reading, placing>>

\* The row of a boot; the warm fill may have stopped early.
ReportBoot ==
    /\ pc = "report"
    /\ \E full \in BOOLEAN : filled' = IF full THEN filled \cup {boot} ELSE filled
    /\ pc' = "stop"
    /\ UNCHANGED <<tool, server, current, leaving, missed, boot, disk, log, reading, placing>>

\* stop(): SIGTERM unless the process is gone, then wait for it.
Stop ==
    /\ pc = "stop"
    /\ pc' = IF server \in Alive THEN "stopping" ELSE "stopped"
    /\ UNCHANGED <<tool, life, log, reading, placing>>

\* Fault: a server that ignores SIGTERM is left.
StoppingGently ==
    /\ pc = "stopping"
    /\ pc' = "stopped"
    /\ UNCHANGED <<tool, life, log, reading, placing>>

\* wait(timeout=30): what does not exit by then is killed.
Stopping ==
    /\ pc = "stopping"
    /\ server' = "gone"
    /\ pc' = "stopped"
    /\ UNCHANGED <<tool, current, leaving, missed, boot, filled, disk, log, reading, placing>>

Stopped ==
    /\ pc = "stopped"
    /\ current' = FALSE
    /\ pc' = IF ~leaving /\ boot < (IF tool = "disk" THEN 2 ELSE IF tool = "startup" THEN Boots ELSE 1)
             THEN "start" ELSE "finally"
    /\ UNCHANGED <<tool, server, leaving, missed, boot, filled, disk, log, reading, placing>>

\* The finally blocks; the disk directory goes last, where nothing interrupts.
Finally ==
    /\ pc = "finally"
    /\ IF current THEN pc' = "stop" /\ UNCHANGED disk
       ELSE pc' = "ended" /\ disk' \in {FALSE, disk}
    /\ UNCHANGED <<tool, server, current, leaving, missed, boot, filled, log, reading, placing>>

Running == pc \notin {"status", "dry run", "apply", "ended", "killed"}

\* cleanup, the handler of SIGTERM and SIGINT, then SystemExit.
Signal ==
    /\ Running /\ leaving' = TRUE
    /\ missed' = (missed \/ pc = "record")
    /\ pc' = IF current THEN "stop" ELSE "finally"
    /\ Forget
    /\ UNCHANGED <<tool, server, current, boot, filled, disk, placing>>

\* SIGKILL: nothing is cleaned up.
Kill ==
    /\ Running
    /\ pc' = "killed"
    /\ Forget
    /\ UNCHANGED <<tool, life, placing>>

(***************************************************************************)
(* The server and its log                                                  *)
(***************************************************************************)
Load == server = "loading" /\ server' = "ready"
        /\ UNCHANGED <<tool, pc, current, leaving, missed, boot, filled, disk, log, reading, placing>>

\* The server does more than anyone reads; it is followed during the workload.
Working == pc \in {"phase", "answers"}

\* Whoever waits for the server gets an error instead of an answer.
Exit ==
    /\ server \in Alive
    /\ server' = "gone"
    /\ waiting' = 0 /\ running' = {} /\ abandoned' = 0
    /\ UNCHANGED <<tool, pc, current, leaving, missed, boot, filled, disk, accepted, done,
                   reading, placing>>

Accept ==
    /\ server = "ready" /\ Working
    /\ accepted' = accepted + 1
    /\ \/ /\ waiting > 0
          /\ waiting' = waiting - 1 /\ running' = running \cup {accepted'}
          /\ own' = [own EXCEPT ![Len(own)] = @ \cup {accepted'}]
          /\ UNCHANGED abandoned
       \/ /\ abandoned > 0
          /\ abandoned' = abandoned - 1
          /\ UNCHANGED <<waiting, running, own>>
    /\ UNCHANGED <<tool, pc, life, done, phase, parser, ids, placing>>

LogDone ==
    /\ server = "ready" /\ Working
    /\ \E i \in 1..accepted : i \notin done /\ done' = done \cup {i}
    /\ UNCHANGED <<tool, pc, life, waiting, running, abandoned, accepted, reading, placing>>

Answer ==
    /\ \E i \in running : running' = running \ {i}
    /\ UNCHANGED <<tool, pc, life, waiting, abandoned, accepted, done, reading, placing>>

Refuse ==
    /\ waiting > 0 /\ waiting' = waiting - 1
    /\ UNCHANGED <<tool, pc, life, running, abandoned, accepted, done, reading, placing>>

\* The client's timeout, before or after the server took the request up.
TimeOut ==
    /\ tool = "matrix"
    /\ \/ waiting > 0 /\ waiting' = waiting - 1 /\ abandoned' = abandoned + 1 /\ UNCHANGED running
       \/ \E i \in running : running' = running \ {i} /\ UNCHANGED <<waiting, abandoned>>
    /\ UNCHANGED <<tool, pc, life, accepted, done, reading, placing>>

(***************************************************************************)
(* The workload                                                            *)
(***************************************************************************)
\* poll(): everything logged since the last call.
Polled == [started |-> accepted, done |-> done]

\* Fault: only lines that say done move the highest number on.
MaxIdOfDone(p) == IF p.done = {} THEN 0 ELSE Max(p.done)

\* max_id counts a request from its first line on.
MaxId(p) == Max({p.started} \cup p.done)

Total == IF tool = "disk" THEN (IF boot = 1 THEN 2 * Sessions ELSE Sessions) ELSE Len(Workload)

Send ==
    /\ pc = "phase" /\ phase < Total
    /\ phase' = phase + 1
    /\ waiting' = IF server = "ready" THEN (IF tool = "disk" THEN 1 ELSE Workload[phase']) ELSE 0
    /\ own' = Append(own, {})
    /\ pc' = "answers"
    /\ UNCHANGED <<tool, life, running, abandoned, accepted, done, parser, ids, placing>>

Answered == waiting = 0 /\ running = {}

\* run_workload: the range to wait for is taken before anything is read, so
\* it is empty and wait_done reads the log once; the requests of the phase
\* are those that are new then.
EndPhase ==
    /\ pc = "answers" /\ tool = "matrix" /\ Answered
    /\ parser' = Polled
    /\ ids' = Append(ids, (MaxId(parser) + 1)..MaxId(parser'))
    /\ pc' = "phase"
    /\ UNCHANGED <<tool, life, log, phase, own, placing>>

\* Run.ask: the last line that is new is taken for this request.
EndAsk ==
    /\ pc = "answers" /\ tool = "disk" /\ Answered /\ own[phase] # {}
    /\ done \ parser.done # {}
    /\ parser' = Polled
    /\ ids' = Append(ids, {Max(done \ parser.done)})
    /\ pc' = "phase"
    /\ UNCHANGED <<tool, life, log, phase, own, placing>>

\* An answer that is not 200 raises, and so does a line that does not come.
AskFails ==
    /\ pc = "answers" /\ tool = "disk"
    /\ pc' = "finally" /\ leaving' = TRUE
    /\ Forget
    /\ UNCHANGED <<tool, server, current, missed, boot, filled, disk, placing>>

EndWorkload ==
    /\ pc = "phase" /\ phase = Total
    /\ pc' = "stop"
    /\ Forget
    /\ UNCHANGED <<tool, life, placing>>

(***************************************************************************)
(* infernix_placement.py                                                   *)
(***************************************************************************)
\* Experts in host memory, none where the server reports no record size.
InHost(r, vram, keep) ==
    IF r.record = 0 THEN 0
    ELSE Max({0, Min({r.total - vram, Max({0, r.host - keep.ram}) \div r.record})})

\* Fault: the memory of the present frames is forgotten.
ReservePlanOfFree(r, keep) ==
    LET vram == Max({1, Min({r.total, (r.free - keep.vram) \div r.frame})})
    IN  [vram |-> vram, ram |-> InHost(r, vram, keep)]

ReservePlan(r, keep) ==
    LET vram == Max({1, Min({r.total, (r.free + r.pool - keep.vram) \div r.frame})})
    IN  [vram |-> vram, ram |-> InHost(r, vram, keep)]

ReportsExperts(r) == r.total # 0 /\ r.frame # 0

\* A server that reports no experts, or no size of them, is not planned for.
GetStatus ==
    /\ pc = "status"
    /\ report' \in Reports /\ reserve' \in Reserves
    /\ \/ /\ ReportsExperts(report')
          /\ plan' = ReservePlan(report', reserve') /\ pc' = "dry run"
       \/ ~ReportsExperts(report') /\ pc' = "ended" /\ plan' = None
    /\ UNCHANGED <<tool, life, log, reading>>

\* The server says whether the plan fits, and then applies or refuses it.
DryRun ==
    /\ pc = "dry run"
    /\ pc' \in {"apply", "ended"}
    /\ UNCHANGED <<tool, life, log, reading, placing>>

Apply ==
    /\ pc = "apply"
    /\ pc' = "ended"
    /\ UNCHANGED <<tool, life, log, reading, placing>>

Next ==
    \/ Popen \/ Record \/ Ready \/ ReportBoot
    \/ Stop \/ Stopping \/ Stopped \/ Finally \/ Signal \/ Kill
    \/ Load \/ Exit \/ Accept \/ LogDone \/ Answer \/ Refuse \/ TimeOut
    \/ Send \/ EndPhase \/ EndAsk \/ AskFails \/ EndWorkload
    \/ GetStatus \/ DryRun \/ Apply

Spec == Init /\ [][Next]_vars

(***************************************************************************)
(* Properties                                                              *)
(***************************************************************************)
\* A server is started only when the one before has gone, and none is left
\* behind on any way out, signals at any moment included, but for the moment
\* between the start of the process and its record; nor is the directory of a
\* prefix cache removed under a server that uses it.
ServersAreStopped ==
    /\ pc = "start" => server \notin Alive
    /\ pc = "ended" /\ server \in Alive => missed
    /\ boot > 0 /\ tool = "disk" /\ ~disk /\ server \in Alive => missed

\* Numbers are never attributed to two phases, and, as long as no client gave
\* a request up, a phase or an ask has exactly the requests it sent, however late their
\* last lines are written.
PhasesGetTheirRequests ==
    /\ \A i, j \in DOMAIN ids : i < j => ids[i] \cap ids[j] = {}
    /\ accepted = Cardinality(UNION ToSet(own)) =>
          \A i \in DOMAIN ids : ids[i] = own[i]

\* The plan is the largest placement that leaves the reserves of the report:
\* one frame more would take from the VRAM reserve, one record more from the
\* host's; only the single frame the server cannot do without may break it.
\* Nothing is planned in the host's memory by a size that is not known.
PlanIsLargest ==
    plan # None =>
        LET left(v) == report.free + report.pool - v * report.frame
        IN  /\ plan.vram \in 1..report.total
            /\ plan.vram = 1 \/ left(plan.vram) >= reserve.vram
            /\ plan.vram = report.total \/ left(plan.vram + 1) < reserve.vram
            /\ plan.ram \in 0..(report.total - plan.vram)
            /\ report.record = 0 => plan.ram = 0
            /\ plan.ram = 0 \/ report.host - plan.ram * report.record >= reserve.ram
            /\ \/ plan.vram + plan.ram = report.total \/ report.record = 0
               \/ report.host - (plan.ram + 1) * report.record < reserve.ram

===============================================================================
