------------------------- MODULE ClientTools_proofs -------------------------
(***************************************************************************)
(* Proofs about the programs that measure a server.                        *)
(*                                                                         *)
(* InfernixTools, for any number of boots, phases, sessions and requests,  *)
(* and for any report of a server's memory; then HiCacheProbe, for any     *)
(* markers, answers and logs.                                              *)
(***************************************************************************)
EXTENDS InfernixTools, HiCacheProbe, FiniteSetTheorems, WellFoundedInduction, TLAPS

(***************************************************************************)
(* The placement plan                                                      *)
(***************************************************************************)
LEMMA MaxOfTwo ==
    ASSUME NEW a \in Int, NEW b \in Int
    PROVE  Max({a, b}) = IF a >= b THEN a ELSE b
<1>1. \E x \in {a, b} : \A y \in {a, b} : x >= y
  OBVIOUS
<1> QED
  BY <1>1 DEF Max

LEMMA MinOfTwo ==
    ASSUME NEW a \in Int, NEW b \in Int
    PROVE  Min({a, b}) = IF a <= b THEN a ELSE b
<1>1. \E x \in {a, b} : \A y \in {a, b} : x =< y
  OBVIOUS
<1> QED
  BY <1>1 DEF Min

LEMMA Quotient ==
    ASSUME NEW a \in Int, NEW b \in Nat \ {0}
    PROVE  /\ a \div b \in Int
           /\ (a \div b) * b <= a
           /\ a < (a \div b + 1) * b
  BY Z3

\* What a plan does with a number of slots of one size in a room, which is
\* negative when the reserve is larger than what there is.
LEMMA LargestThatFits ==
    ASSUME NEW room \in Int, NEW size \in Nat \ {0}, NEW n \in Int
    PROVE  /\ n <= room \div size => n * size <= room
           /\ n >= room \div size => (n + 1) * size > room
<1> DEFINE q == room \div size
<1>1. q \in Int /\ q * size <= room /\ room < (q + 1) * size
  BY Quotient
<1>2. ASSUME n <= q PROVE n * size <= q * size
  BY <1>1, <1>2, Z3
<1>3. ASSUME n >= q PROVE (n + 1) * size >= (q + 1) * size
  BY <1>1, <1>3, Z3
<1> HIDE DEF q
<1>4. n * size \in Int /\ (n + 1) * size \in Int /\ q * size \in Int /\ (q + 1) * size \in Int
  BY <1>1
<1> QED
  BY <1>1, <1>2, <1>3, <1>4 DEF q

\* The frames of a plan, without Max and Min, and the division by what it fits.
LEMMA FramesFit ==
    ASSUME NEW r \in Reports, NEW k \in Reserves, ReportsExperts(r),
           NEW v, v = ReservePlan(r, k).vram
    PROVE  /\ v \in 1..r.total
           /\ v = 1 \/ v * r.frame <= r.free + r.pool - k.vram
           /\ v = r.total \/ (v + 1) * r.frame > r.free + r.pool - k.vram
<1>1. /\ r.total \in Nat \ {0} /\ r.frame \in Nat \ {0}
      /\ r.free \in Nat /\ r.pool \in Nat /\ k.vram \in Nat
  BY InfernixAssumption DEF ReportsExperts
<1> DEFINE room == r.free + r.pool - k.vram
           slots == room \div r.frame
<1>2. room \in Int /\ slots \in Int
  BY <1>1, Quotient
<1>3. v = Max({1, Min({r.total, slots})})
  BY DEF ReservePlan
<1>4. v = IF r.total <= slots THEN r.total ELSE IF slots >= 1 THEN slots ELSE 1
  <2> HIDE DEF slots
  <2>1. Min({r.total, slots}) = IF r.total <= slots THEN r.total ELSE slots
    BY <1>1, <1>2, MinOfTwo
  <2>2. Min({r.total, slots}) \in Int
    BY <1>1, <1>2, <2>1
  <2>3. v = IF 1 >= Min({r.total, slots}) THEN 1 ELSE Min({r.total, slots})
    <3> DEFINE least == Min({r.total, slots})
    <3> HIDE DEF least
    <3>1. v = Max({1, least}) /\ least \in Int
      BY <1>3, <2>2 DEF least
    <3>2. v = IF 1 >= least THEN 1 ELSE least
      BY <3>1, MaxOfTwo
    <3> QED
      BY <3>2 DEF least
  <2> QED
    BY <1>1, <1>2, <2>1, <2>3
<1>5. v \in 1..r.total
  BY <1>1, <1>2, <1>4
<1>6. /\ v <= slots => v * r.frame <= room
      /\ v >= slots => (v + 1) * r.frame > room
  <2>1. v \in Int
    BY <1>1, <1>5
  <2> HIDE DEF room
  <2> QED
    BY <1>1, <1>2, <2>1, LargestThatFits
<1> HIDE DEF slots, room
<1>7. (v = 1 \/ v <= slots) /\ (v = r.total \/ v >= slots)
  BY <1>1, <1>2, <1>4
<1> QED
  BY <1>5, <1>6, <1>7 DEF room

\* The records of a plan, likewise, by the frames it has.
LEMMA RecordsFit ==
    ASSUME NEW r \in Reports, NEW k \in Reserves, NEW v \in 1..r.total,
           r.record # 0, NEW m, m = InHost(r, v, k)
    PROVE  /\ m \in 0..(r.total - v)
           /\ m = 0 \/ m * r.record <= r.host - k.ram
           /\ m = r.total - v \/ (m + 1) * r.record > r.host - k.ram
<1>1. /\ r.total \in Nat /\ r.record \in Nat \ {0}
      /\ r.host \in Nat /\ k.ram \in Nat
  BY InfernixAssumption
<1> DEFINE budget == Max({0, r.host - k.ram})
           records == budget \div r.record
<1>5. budget = IF r.host >= k.ram THEN r.host - k.ram ELSE 0
  BY <1>1, MaxOfTwo
<1>6. budget \in Nat /\ records \in Int
  BY <1>1, <1>5, Quotient
<1>7. m = Max({0, Min({r.total - v, records})})
  BY DEF InHost
<1>8. v \in 1..r.total
  OBVIOUS
<1>9. m = IF r.total - v <= records THEN r.total - v ELSE IF records >= 0 THEN records ELSE 0
  <2> HIDE DEF records
  <2>1. Min({r.total - v, records}) = IF r.total - v <= records THEN r.total - v ELSE records
    BY <1>1, <1>6, <1>8, MinOfTwo
  <2>2. Min({r.total - v, records}) \in Int
    BY <1>1, <1>6, <1>8, <2>1
  <2>3. m = IF 0 >= Min({r.total - v, records}) THEN 0 ELSE Min({r.total - v, records})
    <3> DEFINE least == Min({r.total - v, records})
    <3> HIDE DEF least
    <3>1. m = Max({0, least}) /\ least \in Int
      BY <1>7, <2>2 DEF least
    <3>2. m = IF 0 >= least THEN 0 ELSE least
      BY <3>1, MaxOfTwo
    <3> QED
      BY <3>2 DEF least
  <2> QED
    BY <1>1, <1>6, <1>8, <2>1, <2>3
<1>11. m \in Int
  BY <1>1, <1>6, <1>8, <1>9
<1>12. /\ m <= records => m * r.record <= budget
       /\ m >= records => (m + 1) * r.record > budget
  BY <1>1, <1>6, <1>11, LargestThatFits
<1>13. m = 0 \/ m * r.record <= r.host - k.ram
  <2>1. m = 0 \/ budget = r.host - k.ram
    <3>1. CASE r.host >= k.ram
      BY <1>5, <3>1
    <3>2. CASE r.host < k.ram
      <4>1. budget = 0
        BY <1>1, <1>5, <3>2
      <4>2. records = 0
        BY <4>1, <1>1, Z3
      <4> QED
        BY <4>2, <1>1, <1>8, <1>9
    <3> QED
      BY <1>1, <3>1, <3>2
  <2>2. m = 0 \/ m <= records
    BY <1>1, <1>6, <1>8, <1>9
  <2> QED
    BY <1>12, <2>1, <2>2
<1>14. m = r.total - v \/ (m + 1) * r.record > r.host - k.ram
  <2>1. m = r.total - v \/ m >= records
    BY <1>1, <1>6, <1>8, <1>9
  <2>2. budget >= r.host - k.ram
    BY <1>1, <1>5
  <2>3. (m + 1) * r.record \in Int
    BY <1>1, <1>11
  <2> HIDE DEF budget, records
  <2> QED
    BY <1>1, <1>6, <1>12, <2>1, <2>2, <2>3
<1>16. m \in 0..(r.total - v)
  BY <1>1, <1>6, <1>8, <1>9
<1> QED
  BY <1>13, <1>14, <1>16

\* Both, of the plan.
LEMMA PlanFits ==
    ASSUME NEW r \in Reports, NEW k \in Reserves, ReportsExperts(r),
           NEW v, v = ReservePlan(r, k).vram, NEW m, m = ReservePlan(r, k).ram
    PROVE  /\ v \in 1..r.total
           /\ v = 1 \/ v * r.frame <= r.free + r.pool - k.vram
           /\ v = r.total \/ (v + 1) * r.frame > r.free + r.pool - k.vram
           /\ m \in 0..(r.total - v)
           /\ r.record = 0 => m = 0
           /\ m = 0 \/ m * r.record <= r.host - k.ram
           /\ m = r.total - v \/ r.record = 0 \/ (m + 1) * r.record > r.host - k.ram
<1>1. /\ v \in 1..r.total
      /\ v = 1 \/ v * r.frame <= r.free + r.pool - k.vram
      /\ v = r.total \/ (v + 1) * r.frame > r.free + r.pool - k.vram
  BY FramesFit
<1>2. m = InHost(r, v, k)
  BY DEF ReservePlan
<1>3. CASE r.record = 0
  <2>1. m = 0
    BY <1>2, <1>3 DEF InHost
  <2>2. r.total \in Nat
    BY InfernixAssumption
  <2>3. m \in 0..(r.total - v)
    BY <1>1, <2>1, <2>2
  <2> QED
    BY <1>1, <1>3, <2>1, <2>3
<1>4. CASE r.record # 0
  <2>1. /\ m \in 0..(r.total - v)
        /\ m = 0 \/ m * r.record <= r.host - k.ram
        /\ m = r.total - v \/ (m + 1) * r.record > r.host - k.ram
    BY <1>1, <1>2, <1>4, RecordsFit
  <2> QED
    BY <1>1, <1>4, <2>1
<1> QED
  BY <1>3, <1>4

Planned ==
    plan # None => /\ report \in Reports /\ reserve \in Reserves
                   /\ ReportsExperts(report) /\ plan = ReservePlan(report, reserve)

\* The plan infernix_placement.py makes is the largest that leaves the
\* reserves, whatever the server reports (PlanIsLargest).
THEOREM PlanAlwaysLargest == Spec => []PlanIsLargest
<1>1. Init => Planned
  BY DEF Init, Planned
<1>2. Planned /\ [Next]_vars => Planned'
  <2> SUFFICES ASSUME Planned, [Next]_vars PROVE Planned'
    OBVIOUS
  <2>1. CASE GetStatus
    BY <2>1 DEF GetStatus, Planned
  <2>2. CASE UNCHANGED placing
    BY <2>2 DEF placing, Planned
  <2>3. Next => GetStatus \/ UNCHANGED placing
    BY DEF Next, Popen, Record, Ready, ReportBoot, Stop, Stopping, Stopped, Finally, Signal,
           Kill, Load, Exit, Accept, LogDone, Answer, Refuse, TimeOut, Send, EndPhase, EndAsk,
           AskFails, EndWorkload, DryRun, Apply, placing
  <2> QED
    BY <2>1, <2>2, <2>3 DEF vars, placing
<1>3. Planned => PlanIsLargest
  <2> SUFFICES ASSUME Planned, plan # None PROVE PlanIsLargest
    BY DEF PlanIsLargest
  <2> DEFINE v == plan.vram
             m == plan.ram
  <2>1. /\ report \in Reports /\ reserve \in Reserves
        /\ ReportsExperts(report) /\ plan = ReservePlan(report, reserve)
    BY DEF Planned
  <2>2. /\ report.total \in Nat /\ report.frame \in Nat /\ report.record \in Nat
        /\ report.free \in Nat /\ report.pool \in Nat /\ report.host \in Nat
        /\ reserve.vram \in Nat /\ reserve.ram \in Nat
    BY <2>1, InfernixAssumption
  <2>3. /\ v \in 1..report.total
        /\ v = 1 \/ v * report.frame <= report.free + report.pool - reserve.vram
        /\ v = report.total \/ (v + 1) * report.frame > report.free + report.pool - reserve.vram
        /\ m \in 0..(report.total - v)
        /\ report.record = 0 => m = 0
        /\ m = 0 \/ m * report.record <= report.host - reserve.ram
        /\ m = report.total - v \/ report.record = 0 \/ (m + 1) * report.record > report.host - reserve.ram
    BY <2>1, PlanFits
  <2>4. v \in Int /\ m \in Int
    BY <2>2, <2>3
  <2>5. /\ v * report.frame \in Int /\ (v + 1) * report.frame \in Int
        /\ m * report.record \in Int /\ (m + 1) * report.record \in Int
    <3> HIDE DEF v, m
    <3> QED
      BY <2>2, <2>4
  <2> QED
    BY <2>2, <2>3, <2>4, <2>5 DEF PlanIsLargest
<1> QED
  BY <1>1, <1>2, <1>3, PTL DEF Spec

(***************************************************************************)
(* The life of the servers                                                 *)
(***************************************************************************)
\* Who answers for the server at each place of the program.
Owned ==
    /\ server \in Alive => current \/ missed \/ pc \in {"record", "killed"}
    /\ pc \in {"start", "stopped"} => server \notin Alive
    /\ pc \in {"start", "record", "ended", "status", "dry run", "apply"} => ~current
    /\ tool = "disk" /\ boot > 0 /\ ~disk /\ server \in Alive => missed

\* A step of the workload, or of the placement tool.
Calm ==
    /\ UNCHANGED <<tool, life>>
    /\ \/ pc' = pc
       \/ pc \in {"phase", "answers"} /\ pc' \in {"phase", "answers", "stop"}
       \/ pc \in {"status", "dry run", "apply"} /\ pc' \in {"dry run", "apply", "ended"}

LEMMA OwnedStep == Owned /\ [Next]_vars => Owned'
<1> SUFFICES ASSUME Owned, [Next]_vars PROVE Owned'
  OBVIOUS
<1> USE DEF Owned, Alive
<1>1. CASE Popen
  BY <1>1 DEF Popen
<1>2. CASE Record
  BY <1>2 DEF Record
<1>3. CASE Ready
  BY <1>3 DEF Ready
<1>4. CASE ReportBoot
  BY <1>4 DEF ReportBoot
<1>5. CASE Stop
  BY <1>5 DEF Stop, life
<1>6. CASE Stopping
  BY <1>6 DEF Stopping
<1>7. CASE Stopped
  BY <1>7 DEF Stopped
<1>8. CASE Finally
  BY <1>8 DEF Finally
<1>9. CASE Signal
  BY <1>9 DEF Signal, Running
<1>10. CASE Kill
  BY <1>10 DEF Kill, Running, life
<1>11. CASE Load
  BY <1>11 DEF Load
<1>12. CASE Exit
  BY <1>12 DEF Exit
<1>13. CASE AskFails
  BY <1>13 DEF AskFails
<1>14. CASE Calm
  BY <1>14 DEF Calm, life
<1>15. Send \/ EndPhase \/ EndAsk \/ EndWorkload => Calm
  BY DEF Send, EndPhase, EndAsk, EndWorkload, Calm
<1>16. GetStatus \/ DryRun \/ Apply => Calm
  BY DEF GetStatus, DryRun, Apply, Calm
<1>17. Accept => Calm
  BY DEF Accept, Calm
<1>18. LogDone => Calm
  BY DEF LogDone, Calm
<1>19. Answer => Calm
  BY DEF Answer, Calm
<1>20. Refuse \/ TimeOut \/ UNCHANGED vars => Calm
  BY DEF Refuse, TimeOut, vars, Calm
<1> QED
  BY <1>1, <1>2, <1>3, <1>4, <1>5, <1>6, <1>7, <1>8, <1>9, <1>10, <1>11, <1>12, <1>13,
     <1>14, <1>15, <1>16, <1>17, <1>18, <1>19, <1>20 DEF Next

\* No way out of a benchmark program leaves a server behind, for any number of
\* boots and sessions and signals at any moment (ServersAreStopped).
THEOREM ServersAlwaysStopped == Spec => []ServersAreStopped
<1>1. Init => Owned
  BY InfernixAssumption DEF Init, Owned, Alive
<1>2. Owned => ServersAreStopped
  BY DEF Owned, ServersAreStopped
<1> QED
  BY <1>1, <1>2, OwnedStep, PTL DEF Spec

(***************************************************************************)
(* The phases and their requests                                           *)
(***************************************************************************)
\* Outside a workload the log is a new one.
Fresh ==
    /\ waiting = 0 /\ running = {} /\ abandoned = 0 /\ accepted = 0 /\ done = {}
    /\ parser = [started |-> 0, done |-> {}]
    /\ ids = <<>> /\ own = <<>> /\ phase = 0

Types ==
    /\ waiting \in Nat /\ abandoned \in Nat /\ accepted \in Nat /\ phase \in Nat
    /\ done \subseteq 1..accepted
    /\ parser \in [started : 0..accepted, done : SUBSET done]
    /\ own \in Seq(SUBSET Nat) /\ Len(own) = phase
    /\ ids \in Seq(SUBSET Nat)
    /\ pc = "phase" => Len(ids) = phase /\ waiting = 0
    /\ pc = "answers" => phase = Len(ids) + 1

\* What has been read has been started, and belongs to one phase.
Parts ==
    /\ \A n \in parser.done : n <= parser.started
    /\ \A i \in DOMAIN ids : ids[i] \subseteq 1..parser.started
    /\ \A i, j \in DOMAIN ids : i < j => ids[i] \cap ids[j] = {}
    /\ \A i \in DOMAIN own : own[i] \subseteq 1..accepted

\* Every request in the log was sent by a phase.
Full == \A n \in 1..accepted : \E i \in DOMAIN own : n \in own[i]

Matches ==
    Full => /\ \A i \in DOMAIN ids : ids[i] = own[i]
            /\ pc = "phase" => accepted = parser.started
            /\ pc = "answers" => own[phase] = (parser.started + 1)..accepted

\* bench_prefix_disk.py has one request at a time.
OneByOne ==
    tool = "disk" =>
        /\ Full /\ abandoned = 0
        /\ 1..parser.started \subseteq parser.done
        /\ pc = "answers" => accepted + waiting <= parser.started + 1

Followed ==
    /\ ~Working => Fresh
    /\ Types /\ Parts /\ Matches /\ OneByOne

LEMMA FreshFollows ==
    ASSUME Fresh, pc # "answers"
    PROVE  Followed
<1>1. Types
  BY DEF Fresh, Types
<1>2. Full
  BY DEF Fresh, Full
<1>3. Parts /\ Matches /\ OneByOne
  BY <1>2 DEF Fresh, Parts, Matches, OneByOne
<1> QED
  BY <1>1, <1>3 DEF Followed

LEMMA MaxIdIsStarted ==
    ASSUME NEW p, p.started \in Nat, p.done \subseteq 1..p.started
    PROVE  MaxId(p) = p.started
<1>1. \A y \in {p.started} \cup p.done : p.started >= y /\ y \in Int
  OBVIOUS
<1> QED
  BY <1>1 DEF MaxId, Max

LEMMA AcceptStep == Followed /\ Accept => Followed'
<1> SUFFICES ASSUME Followed, Accept PROVE Followed'
  OBVIOUS
<1>1. /\ Types /\ Parts /\ Matches /\ OneByOne
      /\ pc' = pc /\ tool' = tool /\ accepted' = accepted + 1 /\ done' = done
      /\ phase' = phase /\ parser' = parser /\ ids' = ids
      /\ Working
  BY DEF Followed, Accept
<1>2. CASE waiting > 0 /\ waiting' = waiting - 1 /\ abandoned' = abandoned
            /\ own' = [own EXCEPT ![Len(own)] = @ \cup {accepted'}]
  <2>1. pc = "answers" /\ phase \in DOMAIN own /\ Len(own) = phase /\ phase = Len(ids) + 1
    BY <1>1, <1>2 DEF Types, Working
  <2>2. /\ own' \in Seq(SUBSET Nat) /\ Len(own') = phase /\ DOMAIN own' = DOMAIN own
        /\ own'[phase] = own[phase] \cup {accepted + 1}
        /\ \A i \in DOMAIN own : i # phase => own'[i] = own[i]
    <3>1. own[phase] \cup {accepted + 1} \in SUBSET Nat
      BY <1>1, <2>1 DEF Types
    <3> QED
      BY <1>1, <1>2, <2>1, <3>1 DEF Types
  <2>3. Types'
    <3>1. done \subseteq 1..(accepted + 1) /\ 0..accepted \subseteq 0..(accepted + 1)
      BY <1>1 DEF Types
    <3> QED
      BY <1>1, <1>2, <2>1, <2>2, <3>1 DEF Types
  <2>4. Parts'
    <3>1. \A i \in DOMAIN own : own'[i] \subseteq 1..(accepted + 1)
      BY <1>1, <2>2 DEF Types, Parts
    <3> QED
      BY <1>1, <2>2, <3>1 DEF Parts
  <2>5. Full' => Full
    <3> SUFFICES ASSUME Full', NEW n \in 1..accepted PROVE \E i \in DOMAIN own : n \in own[i]
      BY DEF Full
    <3>1. n \in 1..accepted' /\ n # accepted + 1
      BY <1>1 DEF Types
    <3>2. PICK i \in DOMAIN own' : n \in own'[i]
      BY <3>1 DEF Full
    <3> QED
      BY <2>2, <3>1, <3>2
  <2>6. Full => Full'
    <3> SUFFICES ASSUME Full, NEW n \in 1..(accepted + 1)
                 PROVE  \E i \in DOMAIN own' : n \in own'[i]
      BY <1>1 DEF Full
    <3>1. CASE n = accepted + 1
      BY <2>1, <2>2, <3>1
    <3>2. CASE n \in 1..accepted
      <4>1. PICK i \in DOMAIN own : n \in own[i]
        BY <3>2 DEF Full
      <4> QED
        BY <2>2, <4>1
    <3> QED
      BY <1>1, <3>1, <3>2 DEF Types
  <2>7. Matches'
    <3> SUFFICES ASSUME Full PROVE /\ \A i \in DOMAIN ids : ids[i] = own'[i]
                                   /\ own'[phase] = (parser.started + 1)..(accepted + 1)
      BY <1>1, <2>1, <2>5 DEF Matches
    <3>1. \A i \in DOMAIN ids : ids[i] = own[i] /\ i # phase /\ i \in DOMAIN own
      BY <1>1, <2>1 DEF Matches, Types
    <3>2. own[phase] = (parser.started + 1)..accepted /\ parser.started \in 0..accepted
      BY <1>1, <2>1 DEF Matches, Types
    <3> QED
      BY <1>1, <2>2, <3>1, <3>2 DEF Types
  <2>8. OneByOne'
    BY <1>1, <1>2, <2>1, <2>6 DEF OneByOne, Types
  <2> QED
    BY <1>1, <2>3, <2>4, <2>7, <2>8 DEF Followed, Working
<1>3. CASE abandoned > 0 /\ abandoned' = abandoned - 1 /\ waiting' = waiting /\ own' = own
  <2>1. Types'
    <3>1. done \subseteq 1..(accepted + 1) /\ 0..accepted \subseteq 0..(accepted + 1)
      BY <1>1 DEF Types
    <3> QED
      BY <1>1, <1>3, <3>1 DEF Types
  <2>2. Parts'
    <3>1. \A i \in DOMAIN own : own'[i] \subseteq 1..(accepted + 1)
      BY <1>1, <1>3 DEF Types, Parts
    <3> QED
      BY <1>1, <1>3, <3>1 DEF Parts
  <2>3. ~Full'
    <3>1. accepted + 1 \in 1..accepted' /\ accepted + 1 \notin 1..accepted
      BY <1>1 DEF Types
    <3> QED
      BY <1>1, <1>3, <3>1 DEF Full, Parts
  <2>4. tool # "disk"
    BY <1>1, <1>3 DEF OneByOne, Types
  <2> QED
    BY <1>1, <2>1, <2>2, <2>3, <2>4 DEF Followed, Matches, OneByOne, Working
<1> QED
  BY <1>2, <1>3 DEF Accept

LEMMA SendStep == Followed /\ Send => Followed'
<1> SUFFICES ASSUME Followed, Send PROVE Followed'
  OBVIOUS
<1>1. /\ Types /\ Parts /\ Matches /\ OneByOne
      /\ pc = "phase" /\ pc' = "answers" /\ tool' = tool /\ abandoned' = abandoned
      /\ accepted' = accepted /\ done' = done /\ parser' = parser /\ ids' = ids
      /\ phase' = phase + 1 /\ own' = Append(own, {})
  BY DEF Followed, Send, Working
<1>2. /\ own' \in Seq(SUBSET Nat) /\ Len(own') = phase + 1 /\ phase + 1 \in DOMAIN own'
      /\ \A i \in DOMAIN own : i \in DOMAIN own' /\ own'[i] = own[i]
      /\ \A i \in DOMAIN own' : i \in DOMAIN own \/ i = phase + 1
      /\ own'[phase + 1] = {}
  BY <1>1 DEF Types
<1>3. waiting' \in Nat /\ (tool = "disk" => waiting' \in {0, 1})
  <2>1. CASE server = "ready" /\ tool # "disk"
    <3>1. Workload \in Seq(Nat \ {0})
      BY InfernixAssumption DEF Workload
    <3>2. phase + 1 \in 1..Len(Workload)
      BY <1>1, <2>1, <3>1 DEF Send, Total, Types
    <3> QED
      BY <1>1, <2>1, <3>1, <3>2 DEF Send
  <2>2. CASE server # "ready" \/ tool = "disk"
    BY <2>2 DEF Send
  <2> QED
    BY <2>1, <2>2
<1>4. Types'
  BY <1>1, <1>2, <1>3 DEF Types
<1>5. Parts'
  BY <1>1, <1>2 DEF Parts
<1>6. Full' <=> Full
  BY <1>1, <1>2 DEF Full
<1>7. Matches'
  <2> SUFFICES ASSUME Full
               PROVE  /\ \A i \in DOMAIN ids : ids[i] = own'[i]
                      /\ own'[phase + 1] = (parser.started + 1)..accepted
    BY <1>1, <1>6 DEF Matches
  <2>1. accepted = parser.started
    BY <1>1 DEF Matches
  <2>2. \A i \in DOMAIN ids : ids[i] = own[i] /\ i \in DOMAIN own
    BY <1>1 DEF Matches, Types
  <2> QED
    BY <1>1, <1>2, <2>1, <2>2 DEF Types
<1>8. OneByOne'
  BY <1>1, <1>3, <1>6 DEF OneByOne, Matches, Types
<1> QED
  BY <1>1, <1>4, <1>5, <1>7, <1>8 DEF Followed, Working

\* The end of a phase or an ask: what is new in the log is added to ids.
LEMMA EndStep ==
    ASSUME Followed, pc = "answers", pc' = "phase", waiting = 0,
           UNCHANGED <<tool, life, log, phase, own, placing>>,
           parser' = Polled,
           NEW new, ids' = Append(ids, new),
           \/ new = (parser.started + 1)..accepted /\ tool # "disk"
           \/ new = (parser.started + 1)..accepted /\ 1..accepted \subseteq done
    PROVE  Followed'
<1>1. /\ Types /\ Parts /\ Matches /\ OneByOne
      /\ waiting' = 0 /\ abandoned' = abandoned /\ accepted' = accepted /\ done' = done
      /\ tool' = tool /\ phase' = phase /\ own' = own
      /\ phase = Len(ids) + 1
  BY DEF Followed, Types, log
<1>2. parser' = [started |-> accepted, done |-> done] /\ new = (parser.started + 1)..accepted
  BY DEF Polled
<1>3. /\ parser.started \in 0..accepted /\ new \in SUBSET Nat
      /\ new \cap 1..parser.started = {} /\ new \subseteq 1..accepted
  BY <1>1, <1>2 DEF Types
<1>4. /\ ids' \in Seq(SUBSET Nat) /\ Len(ids') = phase /\ ids'[phase] = new
      /\ \A i \in DOMAIN ids : i # phase /\ i < phase /\ ids'[i] = ids[i]
      /\ \A i \in DOMAIN ids' : i \in DOMAIN ids \/ i = phase
      /\ DOMAIN ids' = 1..phase
  BY <1>1, <1>3 DEF Types
<1>5. Types'
  BY <1>1, <1>2, <1>4 DEF Types
<1>6. Parts'
  <2>1. \A n \in done : n <= accepted
    BY <1>1 DEF Types
  <2>2. \A i \in DOMAIN ids' : ids'[i] \subseteq 1..accepted
    <3> SUFFICES ASSUME NEW i \in DOMAIN ids' PROVE ids'[i] \subseteq 1..accepted
      OBVIOUS
    <3>1. CASE i = phase
      BY <1>3, <1>4, <3>1
    <3>2. CASE i \in DOMAIN ids
      <4>1. ids'[i] \subseteq 1..parser.started
        BY <1>1, <1>4, <3>2 DEF Parts
      <4> QED
        BY <1>1, <1>3, <4>1 DEF Types
    <3> QED
      BY <1>4, <3>1, <3>2
  <2>3. \A i, j \in DOMAIN ids' : i < j => ids'[i] \cap ids'[j] = {}
    <3> SUFFICES ASSUME NEW i \in DOMAIN ids', NEW j \in DOMAIN ids', i < j
                 PROVE  ids'[i] \cap ids'[j] = {}
      OBVIOUS
    <3>1. i \in DOMAIN ids
      BY <1>1, <1>4 DEF Types
    <3>2. CASE j = phase
      <4>1. ids'[i] \subseteq 1..parser.started
        BY <1>1, <1>4, <3>1 DEF Parts
      <4> QED
        BY <1>3, <1>4, <3>2, <4>1
    <3>3. CASE j \in DOMAIN ids
      BY <1>1, <1>4, <3>1, <3>3 DEF Parts
    <3> QED
      BY <1>4, <3>2, <3>3
  <2> QED
    BY <1>1, <1>2, <2>1, <2>2, <2>3 DEF Parts
<1>7. Full' <=> Full
  BY <1>1 DEF Full
<1>8. Matches'
  <2> SUFFICES ASSUME Full PROVE \A i \in DOMAIN ids' : ids'[i] = own[i]
    BY <1>1, <1>2, <1>7 DEF Matches
  <2>1. new = own[phase] /\ \A i \in DOMAIN ids : ids[i] = own[i]
    BY <1>1, <1>2 DEF Matches
  <2> QED
    BY <1>4, <2>1
<1>9. OneByOne'
  BY <1>1, <1>2, <1>7 DEF OneByOne
<1> QED
  BY <1>1, <1>5, <1>6, <1>8, <1>9 DEF Followed, Working

LEMMA EndPhaseStep == Followed /\ EndPhase => Followed'
<1> SUFFICES ASSUME Followed, EndPhase PROVE Followed'
  OBVIOUS
<1>1. Types /\ Parts
  BY DEF Followed
<1>2. MaxId(parser) = parser.started
  <2>1. parser.started \in Nat /\ parser.done \subseteq 1..accepted
    <3>1. parser.started \in 0..accepted /\ parser.done \subseteq done
      BY <1>1 DEF Types
    <3>2. accepted \in Nat /\ done \subseteq 1..accepted
      BY <1>1 DEF Types
    <3>3. parser.started \in Nat
      BY <3>1, <3>2
    <3>4. parser.done \subseteq 1..accepted
      BY <3>1, <3>2, Zenon
    <3> QED
      BY <3>3, <3>4, Zenon
  <2>2. parser.done \subseteq 1..parser.started
    BY <1>1, <2>1 DEF Types, Parts
  <2> QED
    BY <2>1, <2>2, MaxIdIsStarted
<1>3. MaxId(parser') = accepted
  <2>1. Polled.started \in Nat /\ Polled.done \subseteq 1..Polled.started
    BY <1>1 DEF Types, Polled
  <2>2. MaxId(Polled) = accepted
    BY <2>1, MaxIdIsStarted DEF Polled
  <2> QED
    BY <2>2 DEF EndPhase
<1> QED
  BY <1>2, <1>3, EndStep DEF EndPhase, Answered

LEMMA EndAskStep == Followed /\ EndAsk => Followed'
<1> SUFFICES ASSUME Followed, EndAsk PROVE Followed'
  OBVIOUS
<1>1. /\ Types /\ Parts /\ Matches /\ OneByOne /\ Full
      /\ tool = "disk" /\ pc = "answers" /\ waiting = 0
  BY DEF Followed, EndAsk, Answered, OneByOne
<1>2. PICK n \in done : n \notin parser.done
  BY DEF EndAsk
<1>3. n = accepted /\ accepted = parser.started + 1
  BY <1>1, <1>2 DEF Types, OneByOne
<1>4. done \ parser.done = {accepted}
  <2>1. ASSUME NEW m \in done \ parser.done PROVE m = accepted
    <3>1. m \in 1..accepted /\ m \notin 1..parser.started
      BY <1>1, <2>1 DEF Types, OneByOne
    <3> QED
      BY <1>1, <1>3, <3>1 DEF Types
  <2> QED
    BY <1>2, <1>3, <2>1
<1>5. Max({accepted}) = accepted
  BY <1>1 DEF Max, Types
<1>6. {accepted} = (parser.started + 1)..accepted
  BY <1>1, <1>3 DEF Types
<1>7. 1..accepted \subseteq done
  BY <1>1, <1>2, <1>3 DEF Types, OneByOne
<1> QED
  BY <1>4, <1>5, <1>6, <1>7, EndStep DEF EndAsk, Answered

\* Requests that are answered, refused or given up, and lines written late.
LEMMA QuietStep ==
    ASSUME Followed,
           UNCHANGED <<tool, pc, accepted, phase, parser, ids, own>>,
           waiting' \in 0..waiting, abandoned' \in Nat, tool = "disk" => abandoned' = 0,
           done \subseteq done', done' \subseteq 1..accepted,
           ~Working => Fresh'
    PROVE  Followed'
<1>1. Types /\ Parts /\ Matches /\ OneByOne
  BY DEF Followed
<1>2. waiting' <= waiting /\ (waiting = 0 => waiting' = 0) /\ waiting' \in Nat
  BY <1>1 DEF Types
<1>3. Types'
  BY <1>1, <1>2 DEF Types
<1>4. Full' <=> Full
  BY DEF Full
<1>5. Parts' /\ Matches'
  BY <1>1, <1>4 DEF Parts, Matches
<1>6. OneByOne'
  BY <1>1, <1>2, <1>4 DEF OneByOne, Types
<1> QED
  BY <1>3, <1>5, <1>6 DEF Followed, Working

LEMMA FollowedStep == Followed /\ [Next]_vars => Followed'
<1> SUFFICES ASSUME Followed, [Next]_vars PROVE Followed'
  OBVIOUS
<1>1. Types /\ (~Working => Fresh)
  BY DEF Followed
<1>2. Forget => Fresh'
  BY DEF Forget, Fresh
<1>3. CASE Popen \/ Signal \/ Kill \/ AskFails \/ EndWorkload
  <2>1. Forget /\ pc' # "answers"
    BY <1>3 DEF Popen, Signal, Kill, AskFails, EndWorkload
  <2>2. Fresh' /\ (pc # "answers")'
    BY <1>2, <2>1
  <2>3. Followed'
    BY <2>2, FreshFollows, PTL
  <2> QED
    BY <2>3
<1>4. CASE Record \/ Ready \/ ReportBoot \/ Stop \/ Stopping \/ Stopped \/ Finally
            \/ GetStatus \/ DryRun \/ Apply
  <2>1. ~Working /\ UNCHANGED <<log, reading>> /\ pc' # "answers"
    BY <1>4 DEF Record, Ready, ReportBoot, Stop, Stopping, Stopped, Finally, GetStatus, DryRun,
                Apply, Working
  <2>2. Fresh' /\ (pc # "answers")'
    BY <1>1, <2>1 DEF Fresh, log, reading
  <2>3. Followed'
    BY <2>2, FreshFollows, PTL
  <2> QED
    BY <2>3
<1> DEFINE Still == UNCHANGED <<tool, pc, accepted, phase, parser, ids, own>>
<1>5. CASE Load \/ UNCHANGED vars
  <2>1. Still /\ UNCHANGED log
    BY <1>5 DEF Load, vars, log, reading
  <2>2. /\ waiting' \in 0..waiting /\ abandoned' \in Nat /\ done' = done
        /\ tool = "disk" => abandoned' = 0
    BY <1>1, <2>1 DEF Types, OneByOne, Followed, log
  <2> QED
    BY <1>1, <2>1, <2>2, QuietStep DEF Types, Fresh, log
<1>6. CASE Exit
  <2>1. Still /\ waiting' = 0 /\ running' = {} /\ abandoned' = 0 /\ done' = done
    BY <1>6 DEF Exit, reading
  <2>2. waiting' \in 0..waiting
    BY <1>1, <2>1 DEF Types
  <2>3. ~Working => Fresh'
    BY <1>1, <2>1 DEF Fresh
  <2> QED
    BY <1>1, <2>1, <2>2, <2>3, QuietStep DEF Types
<1>7. CASE LogDone
  <2>1. Still /\ Working /\ UNCHANGED <<waiting, abandoned>>
    BY <1>7 DEF LogDone, reading
  <2>2. /\ waiting' \in 0..waiting /\ abandoned' \in Nat
        /\ tool = "disk" => abandoned' = 0
    BY <1>1, <2>1 DEF Types, OneByOne, Followed
  <2>3. done \subseteq done' /\ done' \subseteq 1..accepted
    BY <1>1, <1>7 DEF LogDone, Types
  <2> QED
    BY <2>1, <2>2, <2>3, QuietStep
<1>8. CASE Answer \/ Refuse
  <2>1. Still /\ UNCHANGED <<abandoned, done>> /\ (waiting > 0 \/ running # {})
    BY <1>8 DEF Answer, Refuse, reading
  <2>2. /\ waiting' \in 0..waiting /\ abandoned' \in Nat
        /\ tool = "disk" => abandoned' = 0
    <3>1. waiting' = waiting \/ (waiting > 0 /\ waiting' = waiting - 1)
      BY <1>8 DEF Answer, Refuse
    <3> QED
      BY <1>1, <2>1, <3>1 DEF Types, OneByOne, Followed
  <2>3. Working
    BY <1>1, <2>1 DEF Fresh
  <2> QED
    BY <1>1, <2>1, <2>2, <2>3, QuietStep DEF Types
<1>9. CASE TimeOut
  <2>1. Still /\ done' = done /\ (waiting > 0 \/ running # {}) /\ tool = "matrix"
    BY <1>9 DEF TimeOut, reading
  <2>2. waiting' \in 0..waiting /\ abandoned' \in Nat
    <3>1. \/ waiting' = waiting /\ abandoned' = abandoned
          \/ waiting > 0 /\ waiting' = waiting - 1 /\ abandoned' = abandoned + 1
      BY <1>9 DEF TimeOut
    <3> QED
      BY <1>1, <3>1 DEF Types
  <2>3. Working
    BY <1>1, <2>1 DEF Fresh
  <2> QED
    BY <1>1, <2>1, <2>2, <2>3, QuietStep DEF Types
<1> QED
  BY <1>3, <1>4, <1>5, <1>6, <1>7, <1>8, <1>9, AcceptStep, SendStep, EndPhaseStep, EndAskStep DEF Next

\* Every number of the benchmarks comes from the requests of its own phase,
\* for any number and size of phases and however late the server writes its
\* log (PhasesGetTheirRequests).
THEOREM PhasesAlwaysGetTheirRequests == Spec => []PhasesGetTheirRequests
<1>1. Init => Followed
  <2> SUFFICES ASSUME Init PROVE Followed
    OBVIOUS
  <2>1. Fresh /\ pc # "answers"
    BY DEF Init, Fresh
  <2> QED
    BY <2>1, FreshFollows
<1>2. Followed => PhasesGetTheirRequests
  <2> SUFFICES ASSUME Followed, accepted = Cardinality(UNION ToSet(own))
               PROVE  \A i \in DOMAIN ids : ids[i] = own[i]
    BY DEF Followed, Parts, PhasesGetTheirRequests
  <2>1. Types /\ Parts /\ Matches
    BY DEF Followed
  <2>2. UNION ToSet(own) \subseteq 1..accepted
    BY <2>1 DEF Parts, ToSet
  <2>3. IsFiniteSet(1..accepted) /\ Cardinality(1..accepted) = accepted
    BY <2>1, FS_Interval DEF Types
  <2>4. UNION ToSet(own) = 1..accepted
    BY <2>2, <2>3, FS_Subset
  <2>5. Full
    BY <2>4 DEF Full, ToSet
  <2> QED
    BY <2>1, <2>5 DEF Matches
<1> QED
  BY <1>1, <1>2, FollowedStep, PTL DEF Spec

-----------------------------------------------------------------------------
(***************************************************************************)
(* HiCacheProbe: induction and folds                                       *)
(***************************************************************************)

\* Every non-empty set of naturals has a smallest element.
LEMMA SmallestExists ==
    ASSUME NEW T, T \subseteq Nat, T # {}
    PROVE  \E x \in T : \A y \in T : x <= y
<1>1. PICK R : R = OpToRel(<, Nat)
  OBVIOUS
<1>2. IsWellFoundedOn(R, Nat)
  BY <1>1, NatLessThanWellFounded
<1>3. \A x, y \in Nat : <<x, y>> \in R <=> x < y
  BY <1>1 DEF OpToRel
<1>4. PICK x \in T : \A y \in T : ~ (<<y, x>> \in R)
  BY <1>2, WFMin
<1>5. \A y \in T : x \in Nat /\ y \in Nat /\ ~(y < x)
  BY <1>3, <1>4
<1> QED
  BY <1>5

\* Induction over the naturals, for a set.
LEMMA NatSetInduction ==
    ASSUME NEW P, 0 \in P, \A n \in Nat : n \in P => n + 1 \in P
    PROVE  Nat \subseteq P
<1> DEFINE Bad == Nat \ P
<1> SUFFICES ASSUME Bad # {} PROVE FALSE
  OBVIOUS
<1>1. PICK n \in Bad : \A m \in Bad : n <= m
  BY SmallestExists
<1>2. PICK m \in Nat : n = m + 1
  <2>1. n \in Nat /\ n # 0
    OBVIOUS
  <2> QED
    BY <2>1
<1>3. m \notin Bad
  <2>1. ~(n <= m)
    BY <1>2
  <2> HIDE DEF Bad
  <2> QED
    BY <1>1, <2>1
<1> QED
  BY <1>2, <1>3

\* Every non-empty set of bounded naturals has a largest element.
LEMMA LargestExists ==
    ASSUME NEW n \in Nat, NEW T, T \subseteq 0..n, T # {}
    PROVE  \E x \in T : \A y \in T : x >= y
<1> DEFINE B == {b \in Nat : \A y \in T : b >= y}
<1>1. n \in B
  OBVIOUS
<1>2. PICK b \in B : \A c \in B : b <= c
  <2>1. B \subseteq Nat /\ B # {}
    BY <1>1
  <2> HIDE DEF B
  <2> QED
    BY <2>1, SmallestExists
<1>3. b \in T
  <2> SUFFICES ASSUME b \notin T PROVE FALSE
    OBVIOUS
  <2>1. \A y \in T : y \in Nat /\ b > y
    BY <1>2
  <2>2. PICK y \in T : TRUE
    OBVIOUS
  <2>3. PICK c \in Nat : b = c + 1
    <3>1. b \in Nat /\ b # 0
      BY <2>1, <2>2
    <3> QED
      BY <3>1
  <2>4. c \in B
    BY <2>1, <2>3
  <2>5. b <= c
    BY <1>2, <2>4
  <2> QED
    BY <2>3, <2>5
<1> QED
  BY <1>2, <1>3

\* Max is the largest element of such a set.
LEMMA MaxIs ==
    ASSUME NEW n \in Nat, NEW T, T \subseteq 0..n, T # {}
    PROVE  Max(T) \in T /\ \A y \in T : Max(T) >= y
<1>1. \E x \in T : \A y \in T : x >= y
  BY LargestExists
<1> QED
  BY <1>1 DEF Max

\* A set of positions is finite.
LEMMA PositionsFinite ==
    ASSUME NEW n \in Nat, NEW S, S \subseteq 1..n
    PROVE  IsFiniteSet(S) /\ Cardinality(S) \in Nat /\ Cardinality(S) <= n
<1>1. IsFiniteSet(1..n) /\ Cardinality(1..n) = n
  BY FS_Interval
<1> QED
  BY <1>1, FS_Subset, FS_CardinalityType

\* A set of positions without its last one is smaller.
LEMMA RestOfPositions ==
    ASSUME NEW n \in Nat, NEW s, s \subseteq 1..n, s # {}
    PROVE  /\ Max(s) \in s /\ s \ {Max(s)} \subseteq 1..n
           /\ Cardinality(s) \in Nat /\ Cardinality(s \ {Max(s)}) \in Nat
           /\ Cardinality(s) = Cardinality(s \ {Max(s)}) + 1
<1>1. Max(s) \in s
  <2>1. s \subseteq 0..n
    OBVIOUS
  <2> QED
    BY <2>1, MaxIs
<1>2. IsFiniteSet(s) /\ Cardinality(s) \in Nat
  BY PositionsFinite
<1>3. IsFiniteSet(s \ {Max(s)}) /\ Cardinality(s \ {Max(s)}) = Cardinality(s) - 1
  BY <1>1, <1>2, FS_RemoveElement
<1>4. Cardinality(s \ {Max(s)}) \in Nat
  BY <1>3, FS_CardinalityType
<1>5. Cardinality(s) = Cardinality(s \ {Max(s)}) + 1
  BY ONLY <1>2, <1>3, <1>4
<1>6. s \ {Max(s)} \subseteq 1..n
  OBVIOUS
<1> QED
  BY ONLY <1>1, <1>2, <1>4, <1>5, <1>6

\* The last of the first k positions is k.
LEMMA PrefixOfPositions ==
    ASSUME NEW n \in Nat, NEW k \in 1..n
    PROVE  /\ 1..k \in SUBSET (1..n) /\ 1..k # {} /\ Max(1..k) = k
           /\ (1..k) \ {k} = 1..(k - 1)
<1>1. k \in Nat /\ 1..k \subseteq 0..k /\ 1..k # {} /\ 1..k \in SUBSET (1..n)
  OBVIOUS
<1>2. Max(1..k) \in 1..k /\ \A y \in 1..k : Max(1..k) >= y
  <2>1. PICK T : T = 1..k
    OBVIOUS
  <2>2. Max(T) \in T /\ \A y \in T : Max(T) >= y
    BY <1>1, <2>1, MaxIs
  <2> QED
    BY <2>1, <2>2
<1>3. Max(1..k) = k
  <2>1. PICK m : m = Max(1..k)
    OBVIOUS
  <2>2. m \in 1..k /\ m >= k
    BY <1>1, <1>2, <2>1
  <2> QED
    BY <2>1, <2>2
<1> QED
  BY <1>1, <1>3

\* The iteration of a fold over the positions 1..n: step says what the last of
\* some positions does to the value of the others.
StepOn(step, n, A) == step \in [A \X (1..n) -> A]
Folds(it, n, A, base, step) ==
    /\ it \in [SUBSET (1..n) -> A]
    /\ \A s \in SUBSET (1..n) :
          it[s] = IF s = {} THEN base ELSE step[<<it[s \ {Max(s)}], Max(s)>>]

\* The function that a left fold over n entries is defined by exists.
LEMMA FoldExists ==
    ASSUME NEW n \in Nat, NEW A, NEW base \in A, NEW step, StepOn(step, n, A)
    PROVE  \E it : Folds(it, n, A, base, step)
<1> USE DEF StepOn
<1> DEFINE Upto(m) == {s \in SUBSET (1..n) : Cardinality(s) <= m}
           goOn(it, s) == IF s = {} THEN base ELSE step[<<it[s \ {Max(s)}], Max(s)>>]
           Fine(m) == \E it \in [Upto(m) -> A] : \A s \in Upto(m) : it[s] = goOn(it, s)
           P == {m \in Nat : Fine(m)}
<1>0. ASSUME NEW s \in SUBSET (1..n)
      PROVE  /\ Cardinality(s) \in Nat /\ Cardinality(s) <= n
             /\ s # {} => /\ Max(s) \in 1..n /\ s \ {Max(s)} \in SUBSET (1..n)
                          /\ Cardinality(s \ {Max(s)}) \in Nat
                          /\ Cardinality(s) = Cardinality(s \ {Max(s)}) + 1
  <2>1. Cardinality(s) \in Nat /\ Cardinality(s) <= n
    BY PositionsFinite
  <2> QED
    BY <2>1, RestOfPositions
<1>1. 0 \in P
  <2>1. ASSUME NEW s \in Upto(0) PROVE s = {}
    <3>1. s \in SUBSET (1..n) /\ Cardinality(s) <= 0
      OBVIOUS
    <3>2. s # {} => /\ Cardinality(s \ {Max(s)}) \in Nat
                    /\ Cardinality(s) = Cardinality(s \ {Max(s)}) + 1
      BY <1>0, <3>1
    <3> QED
      BY <3>1, <3>2
  <2>2. PICK it : it = [s \in Upto(0) |-> base]
    OBVIOUS
  <2>3. it \in [Upto(0) -> A] /\ \A s \in Upto(0) : it[s] = goOn(it, s)
    BY <2>1, <2>2
  <2> QED
    BY <2>3
<1>2. ASSUME NEW m \in Nat, m \in P PROVE m + 1 \in P
  <2>1. PICK it \in [Upto(m) -> A] : \A s \in Upto(m) : it[s] = goOn(it, s)
    BY <1>2
  <2>2. PICK new : new = [s \in Upto(m + 1) |-> goOn(it, s)]
    OBVIOUS
  <2>3. ASSUME NEW s \in Upto(m + 1), s # {} PROVE s \ {Max(s)} \in Upto(m) /\ Max(s) \in 1..n
    BY <1>0, <2>3
  <2>4. ASSUME NEW s \in Upto(m) PROVE s \in Upto(m + 1) /\ new[s] = it[s]
    <3>1. s \in SUBSET (1..n) /\ Cardinality(s) <= m
      OBVIOUS
    <3>2. Cardinality(s) \in Nat
      BY <1>0, <3>1
    <3>3. s \in Upto(m + 1)
      BY <3>1, <3>2
    <3> QED
      BY <2>1, <2>2, <3>3
  <2> HIDE DEF Upto
  <2>5. ASSUME NEW s \in Upto(m + 1) PROVE new[s] = goOn(new, s) /\ new[s] \in A
    <3>1. CASE s = {}
      BY <2>2, <3>1
    <3>2. CASE s # {}
      <4>1. PICK t : t = s \ {Max(s)}
        OBVIOUS
      <4>2. t \in Upto(m) /\ Max(s) \in 1..n
        BY <2>3, <3>2, <4>1
      <4>3. new[t] = it[t] /\ it[t] \in A
        BY <2>4, <4>2
      <4>4. <<it[t], Max(s)>> \in A \X (1..n)
        BY <4>2, <4>3
      <4>5. new[s] = step[<<it[t], Max(s)>>]
        BY <2>2, <3>2, <4>1
      <4> QED
        BY <3>2, <4>1, <4>3, <4>4, <4>5
    <3> QED
      BY <3>1, <3>2
  <2>6. new \in [Upto(m + 1) -> A]
    BY <2>2, <2>5
  <2>7. Fine(m + 1)
    BY <2>5, <2>6
  <2> HIDE DEF Fine
  <2> QED
    BY <2>7
<1>3. n \in P
  <2> HIDE DEF P
  <2> QED
    BY <1>1, <1>2, NatSetInduction
<1>4. Upto(n) = SUBSET (1..n)
  BY <1>0
<1> QED
  BY <1>3, <1>4 DEF Folds


-----------------------------------------------------------------------------
(***************************************************************************)
(* omission_only                                                           *)
(***************************************************************************)
Size == Len(Expected)
Marks == ToSet(Expected)

\* The place of a marker among the expected ones.
At(x) == SelectInSeq(Expected, LAMBDA e : e = x)

LEMMA ExpectedIs ==
    /\ Size \in Nat /\ DOMAIN Expected = 1..Size
    /\ Marks = {Expected[i] : i \in 1..Size}
    /\ \A i, j \in 1..Size : Expected[i] = Expected[j] => i = j
BY ProbeAssumption DEF Size, Marks, ToSet, IsInjective

\* The least element of a singleton.
LEMMA MinOfOne == \A i \in Int : Min({i}) = i
BY DEF Min

LEMMA AtIs ==
    ASSUME NEW i \in 1..Size
    PROVE  At(Expected[i]) = i
<1>1. {j \in 1..Size : Expected[j] = Expected[i]} = {i}
  BY ExpectedIs
<1>2. Min({i}) = i
  BY MinOfOne, ExpectedIs
<1> QED
  BY <1>1, <1>2 DEF At, SelectInSeq, Size

LEMMA MarkAt ==
    ASSUME NEW x \in Marks
    PROVE  At(x) \in 1..Size /\ Expected[At(x)] = x
<1>1. PICK i \in 1..Size : x = Expected[i]
  BY ExpectedIs
<1> QED
  BY <1>1, AtIs

States == [pos : 0..Size, seen : SUBSET Marks, inOrder : BOOLEAN]

\* A marker goes on when it comes later than all seen ones.
Ahead(s, x) == x \in Marks /\ At(x) > s.pos

\* What the step does to the state.
LEMMA StepIs ==
    ASSUME NEW s \in States, NEW x
    PROVE  OmissionStep(Expected, s, x) =
              IF Ahead(s, x)
              THEN [pos |-> At(x), seen |-> s.seen \cup {x}, inOrder |-> s.inOrder]
              ELSE [pos |-> s.pos, seen |-> s.seen, inOrder |-> s.inOrder /\ x \in s.seen]
<1>1. PICK rest : rest = SubSeq(Expected, s.pos + 1, Size)
  OBVIOUS
<1>2. /\ s.pos \in 0..Size /\ Size \in Nat /\ s.seen \in SUBSET Marks /\ s.inOrder \in BOOLEAN
      /\ s = [pos |-> s.pos, seen |-> s.seen, inOrder |-> s.inOrder]
  BY ExpectedIs DEF States
<1>3. Len(rest) = Size - s.pos /\ \A i \in 1..(Size - s.pos) : rest[i] = Expected[s.pos + i]
  BY <1>1, <1>2, ExpectedIs, ProbeAssumption
<1>4. Contains(rest, x) <=> Ahead(s, x)
  <2>1. ASSUME Contains(rest, x) PROVE Ahead(s, x)
    <3>1. PICK i \in 1..(Size - s.pos) : Expected[s.pos + i] = x
      BY <1>3, <2>1 DEF Contains
    <3>2. s.pos + i \in 1..Size
      BY <1>2
    <3>3. At(x) = s.pos + i /\ x \in Marks
      BY <3>1, <3>2, AtIs, ExpectedIs
    <3> QED
      BY <1>2, <3>2, <3>3 DEF Ahead
  <2>2. ASSUME Ahead(s, x) PROVE Contains(rest, x)
    <3>1. At(x) \in 1..Size /\ Expected[At(x)] = x /\ At(x) > s.pos
      BY <2>2, MarkAt DEF Ahead
    <3>2. PICK i : i = At(x) - s.pos
      OBVIOUS
    <3>3. i \in 1..(Size - s.pos) /\ s.pos + i = At(x)
      BY <1>2, <3>1, <3>2
    <3> QED
      BY <1>3, <3>1, <3>3 DEF Contains
  <2> QED
    BY <2>1, <2>2
<1>5. ASSUME Ahead(s, x)
      PROVE  s.pos + SelectInSeq(rest, LAMBDA e : e = x) = At(x)
  <2>1. At(x) \in 1..Size /\ Expected[At(x)] = x /\ At(x) > s.pos
    BY <1>5, MarkAt DEF Ahead
  <2>2. PICK i : i = At(x) - s.pos
    OBVIOUS
  <2>3. i \in 1..(Size - s.pos) /\ s.pos + i = At(x) /\ i \in Int
    BY <1>2, <2>1, <2>2
  <2>4. {j \in 1..Len(rest) : rest[j] = x} = {i}
    <3>1. ASSUME NEW j \in 1..(Size - s.pos), rest[j] = x PROVE j = i
      <4>1. Expected[s.pos + j] = x /\ s.pos + j \in 1..Size
        BY <1>2, <1>3, <3>1
      <4>2. s.pos + j = At(x)
        BY <4>1, <2>1, ExpectedIs
      <4> QED
        BY <4>2, <1>2, <2>3
    <3>2. rest[i] = x
      BY <1>3, <2>1, <2>3
    <3> QED
      BY <1>3, <2>3, <3>1, <3>2
  <2>5. SelectInSeq(rest, LAMBDA e : e = x) = Min({i})
    BY <2>4 DEF SelectInSeq
  <2> QED
    BY <2>3, <2>5, MinOfOne
<1>6. CASE Ahead(s, x)
  <2>1. OmissionStep(Expected, s, x) =
           [s EXCEPT !.pos = @ + SelectInSeq(rest, LAMBDA e : e = x), !.seen = @ \cup {x}]
    BY <1>1, <1>4, <1>6 DEF OmissionStep, Size
  <2>2. OmissionStep(Expected, s, x) = [s EXCEPT !.pos = At(x), !.seen = s.seen \cup {x}]
    BY <1>5, <1>6, <2>1
  <2> QED
    BY <1>2, <1>6, <2>2
<1>7. CASE ~Ahead(s, x)
  <2>1. OmissionStep(Expected, s, x) = [s EXCEPT !.inOrder = @ /\ x \in s.seen]
    BY <1>1, <1>4, <1>7 DEF OmissionStep, Size
  <2> QED
    BY <1>2, <1>7, <2>1
<1> QED
  BY <1>6, <1>7

LEMMA StepStays ==
    ASSUME NEW s \in States, NEW x
    PROVE  OmissionStep(Expected, s, x) \in States
<1>1. s.pos \in 0..Size /\ s.seen \in SUBSET Marks /\ s.inOrder \in BOOLEAN
  BY DEF States
<1>2. CASE Ahead(s, x)
  <2>1. At(x) \in 0..Size /\ s.seen \cup {x} \in SUBSET Marks
    BY <1>1, <1>2, MarkAt, ExpectedIs DEF Ahead
  <2> QED
    BY <1>1, <1>2, <2>1, StepIs DEF States
<1>3. CASE ~Ahead(s, x)
  <2>1. PICK o \in BOOLEAN : o = (s.inOrder /\ x \in s.seen)
    BY Zenon
  <2>2. OmissionStep(Expected, s, x) = [pos |-> s.pos, seen |-> s.seen, inOrder |-> o]
    BY <1>3, <2>1, StepIs, Zenon
  <2> QED
    BY <1>1, <2>2 DEF States
<1> QED
  BY <1>2, <1>3

Start == [pos |-> 0, seen |-> {}, inOrder |-> TRUE]

OmissionIter(it, r) ==
    it = [t \in SUBSET DOMAIN r |->
             IF t = {} THEN Start ELSE OmissionStep(Expected, it[t \ {Max(t)}], r[Max(t)])]

\* The fold of omission_only, by the function that defines it.
LEMMA EndIs == \A r : OmissionEnd(Expected, r) = (CHOOSE it : OmissionIter(it, r))[DOMAIN r]
BY DEF OmissionEnd, FoldLeft, MapThenFoldSet, OmissionIter, Start

\* The states omission_only goes through.
Passes(p, r) ==
    /\ p[0] = Start
    /\ \A k \in 1..Len(r) : p[k] = OmissionStep(Expected, p[k - 1], r[k])

\* omission_only looks at the reported markers one by one.
LEMMA EndSteps ==
    ASSUME NEW T, NEW r \in Seq(T)
    PROVE  \E p : Passes(p, r) /\ OmissionEnd(Expected, r) = p[Len(r)]
<1>1. PICK n \in Nat : n = Len(r) /\ DOMAIN r = 1..n
  OBVIOUS
<1>2. PICK step : step = [x \in States \X (1..n) |-> OmissionStep(Expected, x[1], r[x[2]])]
  OBVIOUS
<1>3. StepOn(step, n, States)
  <2>1. \A x \in States \X (1..n) : OmissionStep(Expected, x[1], r[x[2]]) \in States
    BY StepStays
  <2> QED
    BY <1>2, <2>1 DEF StepOn
<1>4. Start \in States
  BY ExpectedIs DEF Start, States
<1>5. PICK it : Folds(it, n, States, Start, step)
  <2>1. PICK A, base : A = States /\ base = Start
    OBVIOUS
  <2>2. base \in A /\ StepOn(step, n, A)
    BY <1>3, <1>4, <2>1
  <2>3. \E it : Folds(it, n, A, base, step)
    BY ONLY <1>1, <2>2, FoldExists
  <2> QED
    BY <2>1, <2>3
<1>6. OmissionIter(it, r)
  <2>1. ASSUME NEW t \in SUBSET (1..n), t # {}
        PROVE  it[t] = OmissionStep(Expected, it[t \ {Max(t)}], r[Max(t)])
    <3>1. PICK rest, k : rest = t \ {Max(t)} /\ k = Max(t)
      OBVIOUS
    <3>2. rest \in SUBSET (1..n) /\ k \in 1..n
      BY <2>1, <3>1, RestOfPositions
    <3>3. it[rest] \in States /\ it[t] = step[<<it[rest], k>>]
      BY <1>5, <2>1, <3>1, <3>2 DEF Folds
    <3>4. <<it[rest], k>> \in States \X (1..n)
      BY <3>2, <3>3
    <3>5. step[<<it[rest], k>>] = OmissionStep(Expected, it[rest], r[k])
      BY <1>2, <3>4
    <3> QED
      BY <3>1, <3>3, <3>5
  <2>2. it[{}] = Start /\ it \in [SUBSET (1..n) -> States]
    BY <1>5 DEF Folds
  <2>3. it = [t \in SUBSET (1..n) |->
                IF t = {} THEN Start ELSE OmissionStep(Expected, it[t \ {Max(t)}], r[Max(t)])]
    BY <2>1, <2>2
  <2> QED
    BY <1>1, <2>3 DEF OmissionIter
<1>7. PICK j : j = CHOOSE f : OmissionIter(f, r)
  OBVIOUS
<1>8. OmissionIter(j, r)
  BY <1>6, <1>7
<1>9. \A t \in SUBSET (1..n) :
         j[t] = IF t = {} THEN Start ELSE OmissionStep(Expected, j[t \ {Max(t)}], r[Max(t)])
  BY <1>1, <1>8 DEF OmissionIter
<1>10. j[1..0] = Start
  <2>1. 1..0 = {} /\ {} \in SUBSET (1..n)
    OBVIOUS
  <2> QED
    BY <1>9, <2>1
<1>11. ASSUME NEW k \in 1..n
       PROVE  j[1..k] = OmissionStep(Expected, j[1..(k - 1)], r[k])
  <2>1. /\ 1..k \in SUBSET (1..n) /\ 1..k # {} /\ Max(1..k) = k
        /\ (1..k) \ {k} = 1..(k - 1)
    BY PrefixOfPositions
  <2>2. PICK t : t = 1..k
    OBVIOUS
  <2>3. j[t] = OmissionStep(Expected, j[t \ {Max(t)}], r[Max(t)])
    BY <1>9, <2>1, <2>2
  <2> QED
    BY <2>1, <2>2, <2>3
<1>12. PICK p : p = [k \in 0..n |-> j[1..k]]
  OBVIOUS
<1>13. p[0] = Start
  BY <1>1, <1>10, <1>12
<1>14. ASSUME NEW k \in 1..n PROVE p[k] = OmissionStep(Expected, p[k - 1], r[k])
  <2>1. k \in 0..n /\ k - 1 \in 0..n
    OBVIOUS
  <2>2. p[k] = j[1..k] /\ p[k - 1] = j[1..(k - 1)]
    BY <1>12, <2>1
  <2> QED
    BY <1>11, <2>2
<1>15. OmissionEnd(Expected, r) = p[n]
  <2>1. n \in 0..n
    BY <1>1
  <2>2. p[n] = j[1..n]
    BY <1>12, <2>1
  <2> QED
    BY <1>1, <1>7, <2>2, EndIs
<1> QED
  BY <1>1, <1>13, <1>14, <1>15 DEF Passes

\* The marker at a comes there for the first time.
First(r, a) == \A c \in 1..(a - 1) : r[c] # r[a]

\* Of the first k reported markers, all are expected and the first occurrences
\* are in order.
Ordered(r, k) ==
    /\ \A a \in 1..k : r[a] \in Marks
    /\ \A a, b \in 1..k : a < b /\ First(r, a) /\ First(r, b) => At(r[a]) < At(r[b])

\* What the state knows of the first k reported markers.
Tracks(s, r, k) ==
    /\ s \in States
    /\ \A x \in s.seen : At(x) <= s.pos
    /\ s.pos > 0 => \E x \in s.seen : At(x) = s.pos
    /\ s.inOrder <=> Ordered(r, k)
    /\ s.inOrder => s.seen = {r[a] : a \in 1..k}

\* What is reported is reported somewhere first.
LEMMA FirstExists ==
    ASSUME NEW r, NEW k \in Nat, NEW a \in 1..k
    PROVE  \E b \in 1..k : r[b] = r[a] /\ First(r, b)
<1>1. PICK S : S = {b \in 1..k : r[b] = r[a]}
  OBVIOUS
<1>2. S \subseteq Nat /\ S # {}
  BY <1>1
<1>3. PICK b \in S : \A c \in S : b <= c
  BY <1>2, SmallestExists
<1>4. ASSUME NEW c \in 1..(b - 1) PROVE r[c] # r[b]
  <2>1. b \in 1..k /\ r[b] = r[a]
    BY <1>1, <1>3
  <2>2. c \in 1..k /\ ~(b <= c)
    BY <2>1
  <2> QED
    BY <1>1, <1>3, <2>1, <2>2
<1> QED
  BY <1>1, <1>3, <1>4 DEF First

LEMMA TracksOn ==
    ASSUME NEW r, NEW k \in Nat, NEW s, Tracks(s, r, k)
    PROVE  Tracks(OmissionStep(Expected, s, r[k + 1]), r, k + 1)
<1>1. PICK x, t : x = r[k + 1] /\ t = OmissionStep(Expected, s, x)
  OBVIOUS
<1>2. /\ s \in States /\ s.pos \in 0..Size /\ s.seen \in SUBSET Marks /\ s.inOrder \in BOOLEAN
      /\ t \in States
  BY <1>1, StepStays DEF Tracks, States
<1>3. \A a \in 1..(k + 1) : a \in 1..k \/ a = k + 1
  OBVIOUS
<1>4. \A a \in 1..k : a \in 1..(k + 1) /\ a < k + 1
  OBVIOUS
<1>5. Ordered(r, k + 1) => Ordered(r, k)
  BY <1>4 DEF Ordered
<1>6. First(r, k + 1) <=> x \notin {r[a] : a \in 1..k}
  <2>1. (k + 1) - 1 = k
    OBVIOUS
  <2> QED
    BY <1>1, <2>1 DEF First
<1>7. {r[a] : a \in 1..(k + 1)} = {r[a] : a \in 1..k} \cup {x}
  BY <1>1, <1>3, <1>4
<1>8. CASE Ahead(s, x)
  <2>1. t.pos = At(x) /\ t.seen = s.seen \cup {x} /\ t.inOrder = s.inOrder
    BY <1>1, <1>2, <1>8, StepIs
  <2>2. x \in Marks /\ At(x) > s.pos /\ At(x) \in 1..Size
    BY <1>8, MarkAt DEF Ahead
  <2>3. \A y \in t.seen : At(y) <= t.pos
    <3>1. ASSUME NEW y \in s.seen PROVE At(y) <= At(x)
      <4>1. At(y) <= s.pos /\ At(y) \in 1..Size
        BY <1>2, MarkAt DEF Tracks
      <4> QED
        BY <1>2, <2>2, <4>1, ExpectedIs
    <3> QED
      BY <2>1, <2>2, <3>1, ExpectedIs
  <2>4. \E y \in t.seen : At(y) = t.pos
    BY <2>1
  <2>5. ASSUME s.inOrder PROVE Ordered(r, k + 1)
    <3>1. Ordered(r, k) /\ s.seen = {r[a] : a \in 1..k}
      BY <2>5 DEF Tracks
    <3>2. \A a \in 1..(k + 1) : r[a] \in Marks
      BY <1>1, <1>3, <2>2, <3>1 DEF Ordered
    <3>3. ASSUME NEW a \in 1..k PROVE At(r[a]) < At(r[k + 1])
      <4>1. r[a] \in s.seen
        BY <3>1
      <4>2. At(r[a]) <= s.pos /\ At(r[a]) \in 1..Size
        BY <1>2, <4>1, MarkAt DEF Tracks
      <4> QED
        BY <1>1, <1>2, <2>2, <4>2, ExpectedIs
    <3>4. ASSUME NEW a \in 1..(k + 1), NEW b \in 1..(k + 1), a < b, First(r, a), First(r, b)
          PROVE  At(r[a]) < At(r[b])
      <4>1. a \in 1..k
        BY <3>4
      <4>2. CASE b \in 1..k
        BY <3>1, <3>4, <4>1, <4>2 DEF Ordered
      <4>3. CASE b = k + 1
        BY <3>3, <4>1, <4>3
      <4> QED
        BY <1>3, <4>2, <4>3
    <3> QED
      BY <3>2, <3>4 DEF Ordered
  <2>6. t.inOrder <=> Ordered(r, k + 1)
    BY <1>5, <2>1, <2>5 DEF Tracks
  <2>7. t.inOrder => t.seen = {r[a] : a \in 1..(k + 1)}
    BY <1>7, <2>1 DEF Tracks
  <2> QED
    BY <1>1, <1>2, <2>3, <2>4, <2>6, <2>7 DEF Tracks
<1>9. CASE ~Ahead(s, x)
  <2>1. t.pos = s.pos /\ t.seen = s.seen /\ t.inOrder = (s.inOrder /\ x \in s.seen)
    BY <1>1, <1>2, <1>9, StepIs
  <2>2. ASSUME s.inOrder, x \in s.seen PROVE Ordered(r, k + 1)
    <3>1. Ordered(r, k) /\ s.seen = {r[a] : a \in 1..k}
      BY <2>2 DEF Tracks
    <3>2. ~First(r, k + 1)
      BY <1>6, <2>2, <3>1
    <3>3. \A a \in 1..(k + 1) : r[a] \in Marks
      BY <1>1, <1>2, <1>3, <2>2, <3>1 DEF Ordered
    <3>4. ASSUME NEW a \in 1..(k + 1), NEW b \in 1..(k + 1), a < b, First(r, a), First(r, b)
          PROVE  At(r[a]) < At(r[b])
      <4>1. a \in 1..k /\ b \in 1..k
        BY <1>3, <3>2, <3>4
      <4> QED
        BY <3>1, <3>4, <4>1 DEF Ordered
    <3> QED
      BY <3>3, <3>4 DEF Ordered
  <2>3. ASSUME s.inOrder, x \notin s.seen, Ordered(r, k + 1) PROVE FALSE
    <3>1. Ordered(r, k) /\ s.seen = {r[a] : a \in 1..k}
      BY <2>3 DEF Tracks
    <3>2. First(r, k + 1) /\ k + 1 \in 1..(k + 1)
      BY <1>6, <2>3, <3>1
    <3>3. x \in Marks /\ At(x) \in 1..Size /\ At(x) <= s.pos
      <4>1. x \in Marks
        BY <1>1, <2>3, <3>2 DEF Ordered
      <4>2. At(x) \in 1..Size
        BY <4>1, MarkAt
      <4> QED
        BY <1>2, <1>9, <4>1, <4>2, ExpectedIs DEF Ahead
    <3>4. PICK y \in s.seen : At(y) = s.pos
      BY <1>2, <3>3, ExpectedIs DEF Tracks
    <3>5. PICK a \in 1..k : r[a] = y
      BY <3>1, <3>4
    <3>6. PICK b \in 1..k : r[b] = y /\ First(r, b)
      BY <3>5, FirstExists
    <3>7. b \in 1..(k + 1) /\ b < k + 1
      BY <1>4
    <3>8. At(r[b]) < At(r[k + 1])
      BY <2>3, <3>2, <3>6, <3>7 DEF Ordered
    <3>9. s.pos < At(x)
      BY <1>1, <3>4, <3>6, <3>8
    <3> QED
      BY <1>2, <3>3, <3>9, ExpectedIs
  <2>4. t.inOrder <=> Ordered(r, k + 1)
    BY <1>2, <1>5, <2>1, <2>2, <2>3 DEF Tracks
  <2>5. t.inOrder => t.seen = {r[a] : a \in 1..(k + 1)}
    <3>1. ASSUME s.inOrder, x \in s.seen PROVE s.seen = {r[a] : a \in 1..(k + 1)}
      <4>1. s.seen = {r[a] : a \in 1..k}
        BY <3>1 DEF Tracks
      <4> QED
        BY <1>7, <3>1, <4>1
    <3> QED
      BY <2>1, <3>1
  <2>6. /\ \A y \in t.seen : At(y) <= t.pos
        /\ t.pos > 0 => \E y \in t.seen : At(y) = t.pos
    BY <2>1 DEF Tracks
  <2> QED
    BY <1>1, <1>2, <2>4, <2>5, <2>6 DEF Tracks
<1> QED
  BY <1>8, <1>9

\* The states of omission_only keep track of what it has read.
LEMMA AllTracked ==
    ASSUME NEW p, NEW r, Len(r) \in Nat, Passes(p, r)
    PROVE  Tracks(p[Len(r)], r, Len(r))
<1> DEFINE P == {k \in Nat : k <= Len(r) => Tracks(p[k], r, k)}
<1>1. 0 \in P
  <2>1. Start \in States /\ Start.pos = 0 /\ Start.seen = {} /\ Start.inOrder = TRUE
    BY ExpectedIs DEF Start, States
  <2>2. Ordered(r, 0)
    BY DEF Ordered
  <2>3. {} = {r[a] : a \in 1..0}
    OBVIOUS
  <2>4. Tracks(Start, r, 0)
    BY <2>1, <2>2, <2>3 DEF Tracks
  <2> QED
    BY <2>4 DEF Passes
<1>2. ASSUME NEW k \in Nat, k \in P PROVE k + 1 \in P
  <2>1. SUFFICES ASSUME k + 1 <= Len(r) PROVE Tracks(p[k + 1], r, k + 1)
    OBVIOUS
  <2>2. Tracks(p[k], r, k)
    BY <1>2, <2>1
  <2>3. k + 1 \in 1..Len(r) /\ (k + 1) - 1 = k
    BY <2>1
  <2>4. p[k + 1] = OmissionStep(Expected, p[k], r[k + 1])
    BY <2>3 DEF Passes
  <2> QED
    BY <2>2, <2>4, TracksOn
<1>3. Len(r) \in P
  <2> HIDE DEF P
  <2> QED
    BY <1>1, <1>2, NatSetInduction
<1> QED
  BY <1>3

\* The expected markers are as many as their positions.
LEMMA MarksCount == IsFiniteSet(Marks) /\ Cardinality(Marks) = Size
<1>1. IsFiniteSet(1..Size) /\ Cardinality(1..Size) = Size
  BY ExpectedIs, FS_Interval
<1>2. Expected \in Surjection(1..Size, Marks)
  <2>1. Expected \in [1..Size -> Marks]
    BY ExpectedIs, ProbeAssumption
  <2> QED
    BY <2>1, ExpectedIs DEF Surjection
<1>3. Expected \in Injection(1..Size, Marks)
  BY <1>2, ExpectedIs DEF Surjection, Injection, IsInjective
<1> QED
  BY <1>1, <1>2, <1>3, FS_Surjection

\* omission_only accepts exactly the answers that leave markers out and
\* otherwise keep their order.
LEMMA OmissionIsLeavingOut ==
    ASSUME NEW m, m.expected = Expected, NEW T, m.reported \in Seq(T)
    PROVE  OmissionOnly(m) <=> LeavesOut(m)
<1>1. PICK r \in Seq(T) : r = m.reported
  OBVIOUS
<1>2. Len(r) \in Nat /\ DOMAIN r = 1..Len(r) /\ ToSet(r) = {r[a] : a \in 1..Len(r)}
  BY DEF ToSet
<1>3. PICK p : Passes(p, r) /\ OmissionEnd(Expected, r) = p[Len(r)]
  BY EndSteps
<1>4. PICK end : end = p[Len(r)]
  OBVIOUS
<1>5. Tracks(end, r, Len(r))
  BY <1>2, <1>3, <1>4, AllTracked
<1>6. OmissionOnly(m) <=> end.inOrder /\ Cardinality(end.seen) < Size
  BY <1>1, <1>3, <1>4, ProbeAssumption DEF OmissionOnly, Size
<1>7. /\ ToSet(r) \subseteq Marks /\ ToSet(r) # Marks
      /\ \A a, b \in DOMAIN r : a < b /\ First(r, a) /\ First(r, b) => At(r[a]) < At(r[b])
      <=> LeavesOut(m)
  BY <1>1 DEF LeavesOut, First, At, Marks
<1>8. LeavesOut(m) <=> Ordered(r, Len(r)) /\ ToSet(r) # Marks
  <2>1. ToSet(r) \subseteq Marks <=> \A a \in 1..Len(r) : r[a] \in Marks
    BY <1>2
  <2> QED
    BY <1>2, <1>7, <2>1 DEF Ordered
<1>9. ASSUME Ordered(r, Len(r)), end.inOrder
      PROVE  Cardinality(end.seen) < Size <=> ToSet(r) # Marks
  <2>1. end.seen = ToSet(r)
    BY <1>2, <1>5, <1>9 DEF Tracks
  <2>2. end.seen \subseteq Marks
    BY <1>5 DEF Tracks, States
  <2>3. /\ IsFiniteSet(end.seen) /\ Cardinality(end.seen) \in Nat
        /\ Cardinality(end.seen) <= Cardinality(Marks)
        /\ Cardinality(end.seen) = Cardinality(Marks) => end.seen = Marks
    BY <2>2, MarksCount, FS_Subset, FS_CardinalityType
  <2>4. end.seen = Marks => Cardinality(end.seen) = Cardinality(Marks)
    OBVIOUS
  <2>5. Cardinality(end.seen) < Cardinality(Marks) <=> end.seen # Marks
    BY <2>3, <2>4, MarksCount, ExpectedIs
  <2> QED
    BY <2>1, <2>5, MarksCount
<1> QED
  BY <1>5, <1>6, <1>8, <1>9 DEF Tracks

-----------------------------------------------------------------------------
(***************************************************************************)
(* The digests                                                             *)
(***************************************************************************)

\* A key with one digest has the same one in all its lines.
LEMMA OneDigest ==
    ASSUME NEW l, IsFiniteSet(l.storage), NEW d, NEW k,
           Cardinality(Digests(l, d, k)) = 1
    PROVE  \E y : Digests(l, d, k) = {y}
<1>1. PICK S : S = {s \in l.storage : s.direction = d /\ s.key = k}
  OBVIOUS
<1>2. IsFiniteSet(S)
  BY <1>1, FS_Subset
<1>3. PICK T : T = Digests(l, d, k)
  OBVIOUS
<1>4. PICK f : f = [s \in S |-> s.digest]
  OBVIOUS
<1>5. T = {s.digest : s \in S}
  BY <1>1, <1>3 DEF Digests
<1>6. f \in Surjection(S, T)
  BY <1>4, <1>5 DEF Surjection
<1>7. IsFiniteSet(T)
  BY <1>2, <1>6, FS_Surjection
<1> QED
  BY <1>3, <1>7, FS_Singleton

Has(l, d, x) == x \in l.storage /\ x.direction = d

LEMMA DigestsHave ==
    ASSUME NEW l, NEW d, NEW x, Has(l, d, x)
    PROVE  x.digest \in Digests(l, d, x.key) /\ x.key \in Keys(l, d)
BY DEF Has, Digests, Keys

LEMMA KeysHave ==
    ASSUME NEW l, NEW d, NEW k \in Keys(l, d)
    PROVE  \E x : Has(l, d, x) /\ x.key = k
BY DEF Has, Keys

\* What the check of the digests shows.
LEMMA CheckShows ==
    ASSUME NEW c, NEW r, IsFiniteSet(c.storage), IsFiniteSet(r.storage), DigestCheck(c, r)
    PROVE  /\ \A x, y : /\ Has(c, "write", x) \/ Has(r, "read", x)
                        /\ Has(c, "write", y) \/ Has(r, "read", y)
                        /\ x.key = y.key
                        => x.digest = y.digest
           /\ \E x, y : Has(c, "write", x) /\ Has(r, "read", y) /\ x.key = y.key
<1>1. ASSUME NEW x, NEW y, Has(c, "write", x), Has(c, "write", y), x.key = y.key
      PROVE  x.digest = y.digest
  <2>1. Cardinality(Digests(c, "write", x.key)) = 1
    BY <1>1, DigestsHave DEF DigestCheck
  <2> QED
    BY <1>1, <2>1, DigestsHave, OneDigest
<1>2. ASSUME NEW x, NEW y, Has(r, "read", x), Has(r, "read", y), x.key = y.key
      PROVE  x.digest = y.digest
  <2>1. Cardinality(Digests(r, "read", x.key)) = 1
    BY <1>2, DigestsHave DEF DigestCheck
  <2> QED
    BY <1>2, <2>1, DigestsHave, OneDigest
<1>3. ASSUME NEW x, NEW y, Has(c, "write", x), Has(r, "read", y), x.key = y.key
      PROVE  x.digest = y.digest
  <2>1. x.key \in Keys(c, "write") \cap Keys(r, "read")
    BY <1>3, DigestsHave
  <2>2. Digests(c, "write", x.key) = Digests(r, "read", x.key)
    BY <2>1 DEF DigestCheck
  <2>3. Cardinality(Digests(c, "write", x.key)) = 1
    BY <2>1 DEF DigestCheck
  <2> QED
    BY <1>3, <2>2, <2>3, DigestsHave, OneDigest
<1>4. \E x, y : Has(c, "write", x) /\ Has(r, "read", y) /\ x.key = y.key
  <2>1. PICK k : k \in Keys(c, "write") /\ k \in Keys(r, "read")
    BY DEF DigestCheck
  <2> QED
    BY <2>1, KeysHave
<1> QED
  BY <1>1, <1>2, <1>3, <1>4

-----------------------------------------------------------------------------
(***************************************************************************)
(* The answers                                                             *)
(***************************************************************************)

\* What the metrics of a step say, must being whether the run had to match.
IsAnswer(m, must) ==
    /\ m \in Measured
    /\ m.ok \/ MarkerError(m) => m.expected = Expected
    /\ m.ok \/ MarkerError(m) =>
          (must => m.matched \in BOOLEAN /\ (m.matched = TRUE <=> m.reported = Expected))
    /\ m.ok => m.matched # FALSE /\ m.cached
    /\ MarkerError(m) => ~m.ok

LEMMA FailureIsAnswer == \A must : IsAnswer(ClientFailed, must)
<1>1. ClientFailed.ok = FALSE /\ ClientFailed.error = "client"
  BY DEF ClientFailed
<1>2. ClientFailed \in Measured
  BY DEF ClientFailed, Measured, Outcomes
<1> QED
  BY <1>1, <1>2 DEF IsAnswer, MarkerError

LEMMA MetricsIsAnswer ==
    ASSUME NEW r \in Responses, NEW must \in BOOLEAN, NEW cached \in BOOLEAN,
           NEW completed \in BOOLEAN
    PROVE  IsAnswer(Metrics(r, must, cached, completed), must)
<1>1. PICK missing : missing = ToSet(Expected) \ ToSet(r)
  OBVIOUS
<1>2. PICK ordered \in BOOLEAN :
         ordered = (\A i, j \in DOMAIN Expected :
                       i < j => FirstAt(r, Expected[i]) < FirstAt(r, Expected[j]))
  BY Zenon
<1>3. PICK valid \in BOOLEAN : valid = (missing = {} /\ ordered)
  BY Zenon
<1>4. PICK matched : matched = IF must THEN Reported(r) = Expected ELSE Absent
  OBVIOUS
<1>5. PICK ok \in BOOLEAN : ok = (completed /\ valid /\ cached /\ matched # FALSE)
  BY Zenon
<1>6. PICK error : error = CASE missing # {} -> "missing"
                             [] missing = {} /\ ~ordered -> "order"
                             [] valid /\ matched = FALSE -> "mismatch"
                             [] valid /\ matched # FALSE /\ ~cached -> "cache"
                             [] OTHER -> Absent
  OBVIOUS
<1>7. Metrics(r, must, cached, completed) =
         [ok |-> ok, expected |-> Expected, reported |-> Reported(r), matched |-> matched,
          cached |-> cached, error |-> error]
  BY <1>1, <1>2, <1>3, <1>4, <1>5, <1>6, Zenon DEF Metrics
<1>8. /\ matched \in BOOLEAN \cup {Absent}
      /\ must => matched \in BOOLEAN /\ (matched = TRUE <=> Reported(r) = Expected)
  BY <1>4
<1>9. error \in Outcomes
  BY <1>6, <1>3 DEF Outcomes
<1>10. ok => error \notin {"missing", "mismatch"}
  BY <1>3, <1>5, <1>6, ProbeAssumption
<1>11. Reported(r) \in Seq(Markers) /\ Expected \in Seq(Markers)
  <2>1. r \in Seq(Markers) /\ Expected \in Seq(Markers)
    BY ProbeAssumption
  <2>2. PICK n : n = IF Len(r) < Len(Expected) THEN Len(r) ELSE Len(Expected)
    OBVIOUS
  <2>3. n \in 0..Len(r)
    BY <2>1, <2>2
  <2>4. SubSeq(r, 1, n) \in Seq(Markers)
    BY <2>1, <2>3
  <2> QED
    BY <2>1, <2>2, <2>4 DEF Reported
<1>12. PICK m : m = Metrics(r, must, cached, completed)
  OBVIOUS
<1>13. /\ m.ok = ok /\ m.expected = Expected /\ m.reported = Reported(r)
       /\ m.matched = matched /\ m.cached = cached /\ m.error = error
  BY <1>7, <1>12
<1>14. m \in Measured
  BY <1>7, <1>8, <1>9, <1>11, <1>12 DEF Measured
<1> QED
  BY <1>5, <1>8, <1>10, <1>12, <1>13, <1>14 DEF IsAnswer, MarkerError

-----------------------------------------------------------------------------
(***************************************************************************)
(* The probe                                                               *)
(***************************************************************************)
Stages == {"cold", "revisit", "flush", "restore", "hit", "replay?", "replay", "check",
           "verdict", "judged", "aborted"}

\* The files hold answers; those of the steps behind are there.
FilesOk ==
    /\ kind \in Kinds /\ digests \in BOOLEAN /\ stage \in Stages
    /\ files \in [Steps -> Measured \cup {Absent}]
    /\ \A s \in Steps : files[s] # Absent => IsAnswer(files[s], s # "cold")
    /\ stage \notin {"cold", "revisit", "aborted"} => files["revisit"] # Absent
    /\ stage \notin {"cold", "revisit", "flush", "restore", "aborted"} =>
          files["restore"] # Absent
    /\ stage \notin {"cold", "revisit", "flush", "restore", "hit", "aborted"}
       /\ kind = "single" => files["hit"] # Absent

Checked ==
    \E l \in WarmLogs :
        /\ restored = [storage |-> cold.storage \cup l.storage,
                       transfers |-> cold.transfers \cup l.transfers]
        /\ check \in {DigestCheck(cold, restored), Absent}

LogsOk ==
    /\ digests /\ stage \notin {"cold", "revisit", "flush", "aborted"} => cold \in ColdLogs
    /\ digests /\ stage = "verdict" => Checked
    /\ ~digests => check = Absent
    /\ stage # "judged" => verdict = Absent

PInv == FilesOk /\ LogsOk /\ VerdictIsEarned /\ OmissionIsExcused

\* Digests that pass the check are exact.
LEMMA CheckedIsExact ==
    ASSUME cold \in ColdLogs, Checked, check \notin {FALSE, Absent}
    PROVE  Exact
<1>1. PICK l \in WarmLogs :
         /\ restored = [storage |-> cold.storage \cup l.storage,
                        transfers |-> cold.transfers \cup l.transfers]
         /\ check = DigestCheck(cold, restored)
  BY DEF Checked
<1>2. /\ restored.storage = cold.storage \cup l.storage
      /\ restored.transfers = cold.transfers \cup l.transfers
  BY <1>1
<1>3. IsFiniteSet(cold.storage) /\ IsFiniteSet(restored.storage)
  <2>1. IsFiniteSet(cold.storage) /\ IsFiniteSet(l.storage)
    BY ProbeAssumption
  <2> QED
    BY <1>2, <2>1, FS_Union
<1>4. DigestCheck(cold, restored)
  BY <1>1 DEF DigestCheck
<1>5. /\ \A x, y : /\ Has(cold, "write", x) \/ Has(restored, "read", x)
                   /\ Has(cold, "write", y) \/ Has(restored, "read", y)
                   /\ x.key = y.key
                   => x.digest = y.digest
      /\ \E x, y : Has(cold, "write", x) /\ Has(restored, "read", y) /\ x.key = y.key
  BY <1>3, <1>4, CheckShows
<1>6. \A t \in restored.transfers : t.exact /\ t.host = t.device
  <2>1. ASSUME NEW t \in restored.transfers PROVE t.exact /\ t.host = t.device
    <3>1. t.exact /\ (t.host = t.device) = t.exact
      BY <1>2, <1>4 DEF DigestCheck
    <3>2. t.exact \in BOOLEAN
      BY <1>2, ProbeAssumption
    <3> QED
      BY <3>1, <3>2
  <2> QED
    BY <2>1
<1> QED
  BY <1>5, <1>6 DEF Exact, Has

\* An excuse is an omission made good by a complete later run.
LEMMA VarianceIs ==
    ASSUME NEW m, NEW must, IsAnswer(m, must), NEW later, IsAnswer(later, TRUE)
    PROVE  Variance(m, later) <=>
              /\ m # Absent /\ later # Absent /\ check = TRUE
              /\ ~m.ok /\ MarkerError(m) /\ LeavesOut(m)
              /\ later.ok
<1>1. m.ok \in BOOLEAN /\ later.ok \in BOOLEAN /\ m.reported \in Seq(Markers)
  BY DEF IsAnswer, Measured
<1>2. MarkerError(m) => m.expected = Expected
  BY DEF IsAnswer
<1>3. MarkerError(m) => (OmissionOnly(m) <=> LeavesOut(m))
  BY <1>1, <1>2, OmissionIsLeavingOut
<1>4. later.ok => later.matched = TRUE /\ later.expected = Expected
  BY <1>1 DEF IsAnswer
<1> QED
  BY <1>1, <1>2, <1>3, <1>4 DEF Variance, NeedsReplay, ReplayIsComplete

\* A run that is ok and had to match reports just the expected markers.
LEMMA OkIsComplete ==
    ASSUME NEW m, IsAnswer(m, TRUE), m.ok
    PROVE  m.matched = TRUE /\ m.reported = Expected /\ m.cached
BY DEF IsAnswer

Witness == IF kind = "single" THEN files["hit"] ELSE files["replay"]

\* What the judge excuses.
LEMMA JudgeExcuses ==
    ASSUME FilesOk, Judge
    PROVE  /\ excused' \subseteq {"revisit", "cold", "restore"}
           /\ "revisit" \in excused' <=> Variance(files["revisit"], files["restore"])
           /\ "cold" \in excused' => /\ Variance(files["cold"], files["revisit"])
                                     /\ Complete(files["restore"])
           /\ "restore" \in excused' <=> Variance(files["restore"], Witness)
BY DEF Judge, Witness

LEMMA JudgeIsEarned ==
    ASSUME FilesOk, LogsOk, Judge
    PROVE  VerdictIsEarned'
<1> SUFFICES ASSUME verdict' = "passed" PROVE VerdictIsEarned'
  BY DEF VerdictIsEarned
<1>1. /\ stage = "verdict"
      /\ UNCHANGED <<kind, digests, cold, restored, files, check>>
  BY DEF Judge
<1>2. /\ \A s \in Steps \ excused' : files[s] # Absent => files[s].ok
      /\ check # FALSE
  BY DEF Judge
<1>3. check # Absent => Exact
  <2>1. check # Absent => cold \in ColdLogs /\ Checked
    BY <1>1 DEF LogsOk, FilesOk
  <2> QED
    BY <1>2, <2>1, CheckedIsExact
<1>4. (check # Absent => Exact)'
  BY <1>1, <1>3 DEF Exact
<1>5. \A s \in Steps : files[s] # Absent => IsAnswer(files[s], s # "cold")
  BY DEF FilesOk
<1>6. \A s \in {"revisit", "restore", "hit", "replay"} :
         files[s] # Absent => IsAnswer(files[s], TRUE)
  BY <1>5 DEF Steps
<1>7. /\ files["revisit"] # Absent /\ files["restore"] # Absent
      /\ kind = "single" => files["hit"] # Absent
  BY <1>1 DEF FilesOk
<1>8. ASSUME NEW s \in {"cold", "revisit", "restore", "hit"}, files[s] # Absent, ~files[s].ok
      PROVE  /\ check # Absent /\ LeavesOut(files[s]) /\ s # "hit"
             /\ \A w \in IF s # "restore" THEN {"restore"}
                         ELSE IF kind = "single" THEN {"hit"} ELSE {"replay"} :
                   /\ files[w] # Absent /\ files[w].ok /\ files[w].cached
                   /\ files[w].reported = Expected
  <2>1. s \in excused' /\ s \in Steps /\ IsAnswer(files[s], s # "cold")
    BY <1>2, <1>5, <1>8 DEF Steps
  <2>2. s # "hit"
    BY <2>1, JudgeExcuses
  <2>3. check = TRUE => check # Absent
    BY ProbeAssumption
  <2>4. CASE s = "revisit"
    <3>1. Variance(files["revisit"], files["restore"])
      BY <2>1, <2>4, JudgeExcuses
    <3>2. LeavesOut(files["revisit"]) /\ check = TRUE /\ files["restore"].ok
      BY <1>6, <1>7, <3>1, VarianceIs
    <3> QED
      BY <1>6, <1>7, <2>3, <2>4, <3>2, OkIsComplete
  <2>5. CASE s = "cold"
    <3>1. Variance(files["cold"], files["revisit"]) /\ Complete(files["restore"])
      BY <2>1, <2>5, JudgeExcuses
    <3>2. LeavesOut(files["cold"]) /\ check = TRUE
      BY <1>6, <1>7, <2>1, <2>5, <3>1, VarianceIs
    <3>3. files["restore"].ok
      BY <3>1 DEF Complete
    <3> QED
      BY <1>6, <1>7, <2>3, <2>5, <3>2, <3>3, OkIsComplete
  <2>6. CASE s = "restore"
    <3>1. Variance(files["restore"], Witness)
      BY <2>1, <2>6, JudgeExcuses
    <3>2. Witness # Absent
      BY <3>1 DEF Variance, ReplayIsComplete
    <3>3. IsAnswer(Witness, TRUE)
      BY <1>6, <3>2 DEF Witness
    <3>4. LeavesOut(files["restore"]) /\ check = TRUE /\ Witness.ok
      BY <1>6, <1>7, <3>1, <3>3, VarianceIs
    <3>5. Witness.reported = Expected /\ Witness.cached
      BY <3>3, <3>4, OkIsComplete
    <3> QED
      BY <2>3, <2>6, <3>2, <3>4, <3>5 DEF Witness
  <2> QED
    BY <2>2, <2>4, <2>5, <2>6
<1>9. ASSUME NEW s \in {"cold", "revisit", "restore", "hit"}, files'[s] # Absent, ~files'[s].ok
      PROVE  /\ check' # Absent /\ LeavesOut(files'[s]) /\ s # "hit"
             /\ \A w \in IF s # "restore" THEN {"restore"}
                         ELSE IF kind' = "single" THEN {"hit"} ELSE {"replay"} :
                   /\ files'[w] # Absent /\ files'[w].ok /\ files'[w].cached
                   /\ files'[w].reported = Expected
  BY <1>1, <1>8, <1>9
<1> QED
  BY <1>4, <1>9 DEF VerdictIsEarned

LEMMA JudgeIsFair ==
    ASSUME FilesOk, LogsOk, Judge
    PROVE  OmissionIsExcused'
<1>1. /\ stage = "verdict"
      /\ UNCHANGED <<kind, digests, cold, restored, files, check>>
  BY DEF Judge
<1> SUFFICES ASSUME verdict' = "failed", check = TRUE,
                    NEW s \in {"revisit", "restore"},
                    files[s].error \in {"missing", "mismatch"}, LeavesOut(files[s]),
                    \A w \in Steps \ {s} : files[w] # Absent => files[w].ok,
                    s = "restore" /\ kind = "concurrent" => files["replay"] # Absent
             PROVE  FALSE
  BY <1>1 DEF OmissionIsExcused
<1>2. check = TRUE
  OBVIOUS
<1>3. \A w \in {"revisit", "restore", "hit", "replay"} :
         files[w] # Absent => IsAnswer(files[w], TRUE)
  BY DEF FilesOk, Steps
<1>4. /\ files["revisit"] # Absent /\ files["restore"] # Absent
      /\ kind = "single" => files["hit"] # Absent
  BY <1>1 DEF FilesOk
<1>5. MarkerError(files[s]) /\ ~files[s].ok /\ IsAnswer(files[s], TRUE) /\ files[s] # Absent
  BY <1>3, <1>4 DEF MarkerError, IsAnswer
<1>6. s \in excused'
  <2>1. CASE s = "revisit"
    <3>1. files["restore"].ok
      BY <1>4, <2>1 DEF Steps
    <3>2. Variance(files["revisit"], files["restore"])
      BY <1>2, <1>3, <1>4, <1>5, <2>1, <3>1, VarianceIs
    <3> QED
      BY <2>1, <3>2, JudgeExcuses
  <2>2. CASE s = "restore"
    <3>1. Witness # Absent /\ Witness.ok /\ IsAnswer(Witness, TRUE)
      BY <1>3, <1>4, <2>2 DEF Witness, Steps, FilesOk, Kinds
    <3>2. Variance(files["restore"], Witness)
      BY <1>2, <1>5, <2>2, <3>1, VarianceIs
    <3> QED
      BY <2>2, <3>2, JudgeExcuses
  <2> QED
    BY <2>1, <2>2
<1>7. \A w \in Steps \ excused' : files[w] # Absent => files[w].ok
  BY <1>6
<1>8. verdict' = "passed"
  BY <1>2, <1>7 DEF Judge
<1> QED
  BY <1>8

LEMMA ProbeStart == ProbeInit => PInv
<1> SUFFICES ASSUME ProbeInit PROVE PInv
  OBVIOUS
<1>1. FilesOk
  BY DEF ProbeInit, FilesOk, Stages
<1>2. LogsOk
  BY DEF ProbeInit, LogsOk
<1>3. verdict = Absent
  BY DEF ProbeInit
<1>4. VerdictIsEarned /\ OmissionIsExcused
  BY <1>3, ProbeAssumption DEF VerdictIsEarned, OmissionIsExcused
<1> QED
  BY <1>1, <1>2, <1>4 DEF PInv

\* A request leaves an answer where its step keeps it.
LEMMA AskAnswers ==
    ASSUME FilesOk, NEW step \in Steps, NEW ratio \in BOOLEAN, NEW next,
           Ask(step, step # "cold", ratio, next)
    PROVE  \E m : /\ files' = [files EXCEPT ![step] = m]
                  /\ IsAnswer(m, step # "cold")
                  /\ m # Absent
<1>1. \A m, must : IsAnswer(m, must) => m # Absent
  BY ProbeAssumption DEF IsAnswer
<1>2. CASE files' = [files EXCEPT ![step] = ClientFailed]
  BY <1>1, <1>2, FailureIsAnswer
<1>3. CASE \E response \in Responses, cached, completed \in BOOLEAN :
              files' = [files EXCEPT ![step] =
                           Metrics(response, step # "cold", cached \/ ~ratio, completed)]
  <2>1. PICK response \in Responses, cached \in BOOLEAN, completed \in BOOLEAN :
           files' = [files EXCEPT ![step] =
                        Metrics(response, step # "cold", cached \/ ~ratio, completed)]
    BY <1>3
  <2>2. PICK must \in BOOLEAN : must = (step # "cold")
    BY Zenon
  <2>3. PICK c \in BOOLEAN : c = (cached \/ ~ratio)
    BY Zenon
  <2>4. IsAnswer(Metrics(response, must, c, completed), must)
    BY MetricsIsAnswer
  <2>5. IsAnswer(Metrics(response, step # "cold", cached \/ ~ratio, completed), step # "cold")
    BY <2>2, <2>3, <2>4
  <2> QED
    BY <1>1, <2>1, <2>5
<1> QED
  BY <1>2, <1>3 DEF Ask

\* A step that asks keeps what is known of the files, but for the stage.
LEMMA AskKeeps ==
    ASSUME FilesOk, NEW step \in Steps, NEW ratio \in BOOLEAN, NEW next \in Stages,
           Ask(step, step # "cold", ratio, next)
    PROVE  /\ files' \in [Steps -> Measured \cup {Absent}]
           /\ \A s \in Steps : files'[s] # Absent => IsAnswer(files'[s], s # "cold")
           /\ files'[step] # Absent
           /\ \A s \in Steps : files[s] # Absent => files'[s] # Absent
           /\ stage = step /\ stage' = next
           /\ UNCHANGED <<kind, digests, cold, restored, check, excused, verdict>>
<1>1. PICK m : /\ files' = [files EXCEPT ![step] = m]
               /\ IsAnswer(m, step # "cold")
               /\ m # Absent
  BY AskAnswers
<1>2. m \in Measured
  BY <1>1 DEF IsAnswer
<1>3. files \in [Steps -> Measured \cup {Absent}]
  BY DEF FilesOk
<1>4. files' \in [Steps -> Measured \cup {Absent}]
  BY <1>1, <1>2, <1>3
<1>5. \A s \in Steps : files'[s] = IF s = step THEN m ELSE files[s]
  BY <1>1, <1>3
<1>6. \A s \in Steps : files'[s] # Absent => IsAnswer(files'[s], s # "cold")
  BY <1>1, <1>5 DEF FilesOk
<1>7. stage = step /\ stage' = next
      /\ UNCHANGED <<kind, digests, cold, restored, check, excused, verdict>>
  BY DEF Ask
<1> QED
  BY <1>1, <1>4, <1>5, <1>6, <1>7

\* Before the verdict there is none, and the logs are left alone by all steps
\* but two.
LEMMA QuietKeeps ==
    ASSUME LogsOk, stage' \notin {"verdict", "judged"}, stage # "judged",
           UNCHANGED <<digests, check, verdict>>,
           stage' \notin {"cold", "revisit", "flush", "aborted"} /\ digests => cold' \in ColdLogs
    PROVE  LogsOk' /\ VerdictIsEarned' /\ OmissionIsExcused'
<1>1. verdict' = Absent
  BY DEF LogsOk
<1>2. LogsOk'
  BY <1>1 DEF LogsOk
<1> QED
  BY <1>1, <1>2, ProbeAssumption DEF VerdictIsEarned, OmissionIsExcused

LEMMA ProbeStep == PInv /\ [ProbeNext]_probe => PInv'
<1> SUFFICES ASSUME PInv, [ProbeNext]_probe PROVE PInv'
  OBVIOUS
<1>0. FilesOk /\ LogsOk
  BY DEF PInv
<1>1. CASE AskCold
  <2>1. Ask("cold", "cold" # "cold", FALSE, "revisit")
    BY <1>1 DEF AskCold
  <2>2. /\ files' \in [Steps -> Measured \cup {Absent}]
        /\ \A s \in Steps : files'[s] # Absent => IsAnswer(files'[s], s # "cold")
        /\ stage = "cold" /\ stage' = "revisit"
        /\ UNCHANGED <<kind, digests, cold, restored, check, excused, verdict>>
    BY <1>0, <2>1, AskKeeps DEF Steps, Stages
  <2>3. FilesOk'
    BY <1>0, <2>2 DEF FilesOk, Stages
  <2> QED
    BY <1>0, <2>2, <2>3, QuietKeeps DEF PInv
<1>2. CASE Revisit
  <2>1. Ask("revisit", "revisit" # "cold", FALSE, "flush")
    BY <1>2 DEF Revisit
  <2>2. /\ files' \in [Steps -> Measured \cup {Absent}]
        /\ \A s \in Steps : files'[s] # Absent => IsAnswer(files'[s], s # "cold")
        /\ files'["revisit"] # Absent
        /\ stage = "revisit" /\ stage' = "flush"
        /\ UNCHANGED <<kind, digests, cold, restored, check, excused, verdict>>
    BY <1>0, <2>1, AskKeeps DEF Steps, Stages
  <2>3. FilesOk'
    BY <1>0, <2>2 DEF FilesOk, Stages
  <2> QED
    BY <1>0, <2>2, <2>3, QuietKeeps DEF PInv
<1>3. CASE Flush
  <2>1. /\ stage = "flush" /\ stage' \in {"restore", "aborted"}
        /\ UNCHANGED <<kind, digests, restored, files, check, excused, verdict>>
        /\ stage' = "restore" /\ digests => cold' \in ColdLogs
    BY <1>3 DEF Flush
  <2>2. FilesOk'
    BY <1>0, <2>1 DEF FilesOk, Stages
  <2> QED
    BY <1>0, <2>1, <2>2, QuietKeeps DEF PInv
<1>4. CASE Restore
  <2>1. PICK next : next = IF kind = "single" THEN "hit" ELSE "replay?"
    OBVIOUS
  <2>2. Ask("restore", "restore" # "cold", TRUE, next)
    BY <1>4, <2>1 DEF Restore
  <2>3. next \in {"hit", "replay?"} /\ next \in Stages
    BY <2>1 DEF Stages
  <2>4. /\ files' \in [Steps -> Measured \cup {Absent}]
        /\ \A s \in Steps : files'[s] # Absent => IsAnswer(files'[s], s # "cold")
        /\ files'["restore"] # Absent
        /\ \A s \in Steps : files[s] # Absent => files'[s] # Absent
        /\ stage = "restore" /\ stage' = next
        /\ UNCHANGED <<kind, digests, cold, restored, check, excused, verdict>>
    BY <1>0, <2>2, <2>3, AskKeeps DEF Steps
  <2>5. FilesOk'
    BY <1>0, <2>1, <2>3, <2>4 DEF FilesOk, Stages, Steps
  <2>6. digests => cold' \in ColdLogs
    BY <1>0, <2>4 DEF LogsOk
  <2> QED
    BY <1>0, <2>3, <2>4, <2>5, <2>6, QuietKeeps DEF PInv
<1>5. CASE Hit
  <2>1. Ask("hit", "hit" # "cold", TRUE, "replay?")
    BY <1>5 DEF Hit
  <2>2. /\ files' \in [Steps -> Measured \cup {Absent}]
        /\ \A s \in Steps : files'[s] # Absent => IsAnswer(files'[s], s # "cold")
        /\ files'["hit"] # Absent
        /\ \A s \in Steps : files[s] # Absent => files'[s] # Absent
        /\ stage = "hit" /\ stage' = "replay?"
        /\ UNCHANGED <<kind, digests, cold, restored, check, excused, verdict>>
    BY <1>0, <2>1, AskKeeps DEF Steps, Stages
  <2>3. FilesOk'
    BY <1>0, <2>2 DEF FilesOk, Stages, Steps
  <2>4. digests => cold' \in ColdLogs
    BY <1>0, <2>2 DEF LogsOk
  <2> QED
    BY <1>0, <2>2, <2>3, <2>4, QuietKeeps DEF PInv
<1>6. CASE MaybeReplay
  <2>1. /\ stage = "replay?" /\ stage' \in {"replay", "check"}
        /\ UNCHANGED <<kind, digests, cold, restored, files, check, excused, verdict>>
    BY <1>6 DEF MaybeReplay
  <2>2. FilesOk'
    BY <1>0, <2>1 DEF FilesOk, Stages
  <2>3. digests => cold' \in ColdLogs
    BY <1>0, <2>1 DEF LogsOk
  <2> QED
    BY <1>0, <2>1, <2>2, <2>3, QuietKeeps DEF PInv
<1>7. CASE Replay
  <2>1. Ask("replay", "replay" # "cold", TRUE, "check")
    BY <1>7 DEF Replay
  <2>2. /\ files' \in [Steps -> Measured \cup {Absent}]
        /\ \A s \in Steps : files'[s] # Absent => IsAnswer(files'[s], s # "cold")
        /\ \A s \in Steps : files[s] # Absent => files'[s] # Absent
        /\ stage = "replay" /\ stage' = "check"
        /\ UNCHANGED <<kind, digests, cold, restored, check, excused, verdict>>
    BY <1>0, <2>1, AskKeeps DEF Steps, Stages
  <2>3. FilesOk'
    BY <1>0, <2>2 DEF FilesOk, Stages, Steps
  <2>4. digests => cold' \in ColdLogs
    BY <1>0, <2>2 DEF LogsOk
  <2> QED
    BY <1>0, <2>2, <2>3, <2>4, QuietKeeps DEF PInv
<1>8. CASE CheckDigests
  <2>1. /\ stage = "check" /\ stage' = "verdict"
        /\ UNCHANGED <<kind, digests, cold, files, excused, verdict>>
        /\ ~digests => UNCHANGED <<restored, check>>
    BY <1>8 DEF CheckDigests
  <2>2. FilesOk'
    BY <1>0, <2>1 DEF FilesOk, Stages
  <2>3. verdict' = Absent
    BY <1>0, <2>1 DEF LogsOk
  <2>4. digests => Checked'
    BY <1>8, <2>1 DEF CheckDigests, Checked
  <2>5. LogsOk'
    BY <1>0, <2>1, <2>3, <2>4 DEF LogsOk
  <2> QED
    BY <2>2, <2>3, <2>5, ProbeAssumption DEF PInv, VerdictIsEarned, OmissionIsExcused
<1>9. CASE Judge
  <2>1. /\ stage = "verdict" /\ stage' = "judged"
        /\ UNCHANGED <<kind, digests, cold, restored, files, check>>
    BY <1>9 DEF Judge
  <2>2. FilesOk'
    BY <1>0, <2>1 DEF FilesOk, Stages
  <2>3. LogsOk'
    BY <1>0, <2>1 DEF LogsOk
  <2> QED
    BY <1>0, <1>9, <2>2, <2>3, JudgeIsEarned, JudgeIsFair DEF PInv
<1>10. CASE UNCHANGED probe
  <2>1. UNCHANGED <<kind, digests, stage, cold, restored, files, check, excused, verdict>>
    BY <1>10 DEF probe
  <2>2. FilesOk' /\ LogsOk'
    BY <1>0, <2>1 DEF FilesOk, LogsOk, Checked
  <2>3. VerdictIsEarned'
    BY <2>1 DEF PInv, VerdictIsEarned, Exact
  <2>4. OmissionIsExcused'
    BY <2>1 DEF PInv, OmissionIsExcused
  <2> QED
    BY <2>2, <2>3, <2>4 DEF PInv
<1> QED
  BY <1>1, <1>2, <1>3, <1>4, <1>5, <1>6, <1>7, <1>8, <1>9, <1>10 DEF ProbeNext

LEMMA ProbeInvariance == ProbeSpec => []PInv
BY ProbeStart, ProbeStep, PTL DEF ProbeSpec

\* A probe passes only with complete runs, or with omissions that exact digests
\* and a complete later run excuse, whatever the server answers and logs
\* (VerdictIsEarned).
THEOREM VerdictAlwaysEarned == ProbeSpec => []VerdictIsEarned
<1>1. PInv => VerdictIsEarned
  BY DEF PInv
<1> QED
  BY <1>1, ProbeInvariance, PTL

\* One omission that a later run makes good, with exact digests, never fails a
\* probe (OmissionIsExcused).
THEOREM OmissionAlwaysExcused == ProbeSpec => []OmissionIsExcused
<1>1. PInv => OmissionIsExcused
  BY DEF PInv
<1> QED
  BY <1>1, ProbeInvariance, PTL

=============================================================================
