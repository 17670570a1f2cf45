-------------------------- MODULE SchedulerProofs --------------------------
(***************************************************************************)
(* Proofs about CommandScheduler for every number of collectors, workers   *)
(* and schedules, every window, interval and clock skew.                   *)
(***************************************************************************)
EXTENDS CommandScheduler, FiniteSetTheorems, SequenceTheorems, WellFoundedInduction, TLAPS

-----------------------------------------------------------------------------
(* The inductive invariant.                                                *)

Slot == [sched : Schedule, slot : Nat]
Job == [sched : Schedule, slot : Nat, run : Nat]
Agents == {AgentOf[s] : s \in Schedule}
Working == {"insert", "prepare", "rpc", "record", "done"}

DbTypes ==
    /\ clock \in Nat /\ starts \in Nat /\ failures \in Nat
    /\ status \in [Schedule -> {"none", "on", "off", "gone"}]
    /\ nextRun \in [Schedule -> Nat]

LoopTypes ==
    /\ phase \in [Collector -> {"down", "up", "stopping", "joining"}]
    /\ loop \in [Collector -> {"exited", "wait", "reschedule", "list", "claim",
                               "enqueue"}]
    /\ now \in [Collector -> Int]
    /\ due \in [Collector -> SUBSET Slot]
    /\ cur \in [Collector -> Slot \cup {NoJob}]

QueueTypes ==
    /\ queue \in [Collector -> Seq(Slot)]
    /\ busy \in [Collector -> SUBSET Agents]

WorkTypes ==
    /\ wpc \in [Thread -> {"exited", "idle", "waiting"} \cup Working]
    /\ job \in [Thread -> Job \cup {NoJob}]
    /\ active \subseteq Thread /\ cancelled \subseteq Thread
    /\ runs \in Seq([sched : Schedule, slot : Nat, finished : BOOLEAN])

HistTypes == taken \subseteq Slot /\ twice \subseteq Slot /\ early \subseteq Slot

TypeOK == DbTypes /\ LoopTypes /\ QueueTypes /\ WorkTypes /\ HistTypes

(* The loop holds a claimed slot while it queues it, and listed slots only *)
(* between listing and the end of the tick. All of them are of its tick:   *)
(* in the window and within the tolerance of the clock it read.            *)
Fresh(c, d) ==
    /\ d.slot \in now[c] - Tolerance .. now[c] + Tolerance
    /\ InWindow(d.sched, now[c])

LoopOK(c) ==
    /\ loop[c] \notin {"claim", "enqueue"} => due[c] = {}
    /\ loop[c] = "enqueue" => cur[c] \in Slot /\ Fresh(c, cur[c])
    /\ \A d \in due[c] : Fresh(c, d)

LoopInv == \A c \in Collector : LoopOK(c)

(* A slot is claimed once a loop holds it or has queued it.                *)
Holds(c, d) == loop[c] = "enqueue" /\ cur[c] = d
Claimed(d) == d \in taken \/ \E c \in Collector : Holds(c, d)

(* A slot that was claimed at its time is behind next_run, which is on the *)
(* grid from the first claim on; so no two collectors hold one, and none   *)
(* holds one that was queued.                                              *)
ClaimInv ==
    /\ \A d \in Slot : Claimed(d) =>
         /\ status[d.sched] # "none"
         /\ OnGrid(d.sched, nextRun[d.sched])
         /\ d \in early \/ d.slot < nextRun[d.sched]
    /\ \A d \in Slot \ early :
         /\ d \notin twice
         /\ \A c \in Collector : Holds(c, d) =>
              d \notin taken /\ \A e \in Collector : Holds(e, d) => e = c

(* A process that is down has nothing; a worker has a run exactly while it *)
(* executes one; m_active_ctx is the set of the calls in progress.         *)
DownOK(c) ==
    phase[c] = "down" =>
      /\ loop[c] = "exited" /\ queue[c] = << >> /\ busy[c] = {}
      /\ \A w \in Worker : wpc[<<c, w>>] = "exited"

WorkInv ==
    /\ \A c \in Collector : DownOK(c)
    /\ \A t \in Thread : (job[t] # NoJob) <=> (wpc[t] \in Working)
    /\ active = {t \in Thread : wpc[t] = "rpc"}
    /\ cancelled \subseteq active

(* No agent has two runs, queued or executing, and the busy set has the    *)
(* agents of all of them.                                                  *)
QAgent(c, i) == AgentOf[queue[c][i].sched]
WAgent(c, w) == AgentOf[job[<<c, w>>].sched]

Apart(c) ==
    /\ \A i, j \in Queued(c) : QAgent(c, i) = QAgent(c, j) => i = j
    /\ \A v, w \in InFlight(c) : WAgent(c, v) = WAgent(c, w) => v = w
    /\ \A i \in Queued(c), w \in InFlight(c) : QAgent(c, i) # WAgent(c, w)

Covers(c) ==
    /\ \A i \in Queued(c) : QAgent(c, i) \in busy[c]
    /\ \A w \in InFlight(c) : WAgent(c, w) \in busy[c]
    /\ \A a \in busy[c] : \/ \E i \in Queued(c) : QAgent(c, i) = a
                          \/ \E w \in InFlight(c) : WAgent(c, w) = a

BusyInv == \A c \in Collector : Running(c) => Apart(c) /\ Covers(c)

IInv == TypeOK /\ LoopInv /\ ClaimInv /\ WorkInv /\ BusyInv

-----------------------------------------------------------------------------
(* The arithmetic of slots.                                                *)

(* Division rounds down.                                                   *)
LEMMA DivFacts ==
    ASSUME NEW a \in Nat, NEW n \in Nat \ {0}
    PROVE  /\ a \div n \in Nat
           /\ n * (a \div n) <= a
           /\ a < n * (a \div n) + n
OBVIOUS

(* A number without a remainder is a multiple, and the other way round.    *)
LEMMA MultipleFacts ==
    ASSUME NEW n \in Nat \ {0}
    PROVE  /\ \A k \in Nat : (n * k) % n = 0
           /\ \A a \in Nat : a % n = 0 => \E k \in Nat : a = n * k
<1>1. ASSUME NEW k \in Nat PROVE (n * k) % n = 0
  OBVIOUS
<1>2. ASSUME NEW a \in Nat, a % n = 0 PROVE \E k \in Nat : a = n * k
  <2>1. a = n * (a \div n) + (a % n)
    OBVIOUS
  <2>2. a \div n \in Nat
    OBVIOUS
  <2> DEFINE k == a \div n
  <2>3. a = n * k
    BY <1>2, <2>1, <2>2
  <2> HIDE DEF k
  <2> QED BY <2>2, <2>3 DEF k
<1> QED BY <1>1, <1>2

(* Two multiples less than one unit apart are the same.                    *)
LEMMA CloseMultiples ==
    ASSUME NEW k \in Nat, NEW j \in Nat, NEW n \in Nat \ {0},
           n * k < n * j + n, n * j < n * k + n
    PROVE  k = j
<1>1. CASE k < j
  <2>1. n * (k + 1) <= n * j
    BY <1>1
  <2>2. n * (k + 1) = n * k + n
    OBVIOUS
  <2> QED BY <2>1, <2>2
<1>2. CASE j < k
  <2>1. n * (j + 1) <= n * k
    BY <1>2
  <2>2. n * (j + 1) = n * j + n
    OBVIOUS
  <2> QED BY <2>1, <2>2
<1> QED BY <1>1, <1>2

(* The slot one interval after the last one before t.                      *)
LEMMA AfterFacts ==
    ASSUME NEW s \in Schedule, NEW t \in Int, t >= WindowStart[s]
    PROVE  LET q == (t - WindowStart[s]) \div Interval[s]
               n == WindowStart[s] + Interval[s] * (q + 1)
           IN  /\ q \in Nat /\ n \in Nat
               /\ t < n /\ n <= t + Interval[s]
               /\ OnGrid(s, n)
<1> DEFINE w == WindowStart[s]
           i == Interval[s]
           a == t - w
           q == a \div i
           n == w + i * (q + 1)
<1>1. w \in Nat /\ i \in Nat \ {0}
  BY SchedulerAssumption
<1>2. a \in Nat
  BY <1>1
<1>3. q \in Nat /\ i * q <= a /\ a < i * q + i
  <2> HIDE DEF a, i
  <2> QED BY <1>1, <1>2, DivFacts
<1>4. i * (q + 1) = i * q + i /\ i * (q + 1) \in Nat
  <2> HIDE DEF q, i
  <2> QED BY <1>1, <1>3
<1>5. n \in Nat /\ t < n /\ n <= t + i /\ n >= w /\ n - w = i * (q + 1)
  <2> HIDE DEF q, i, w
  <2> QED BY <1>1, <1>3, <1>4 DEF a
<1>6. (i * (q + 1)) % i = 0
  <2> HIDE DEF q, i
  <2> QED BY <1>1, <1>3, MultipleFacts
<1>7. OnGrid(s, n)
  <2> HIDE DEF n
  <2> QED BY <1>5, <1>6 DEF OnGrid
<1> QED BY <1>3, <1>5, <1>7

(* NextSlot and RescheduleStaleSchedules compute the same slot: the first  *)
(* one of the grid after t.                                                *)
LEMMA NextSlotFacts ==
    ASSUME NEW s \in Schedule, NEW t \in Int, t >= WindowStart[s]
    PROVE  /\ NextSlot(s, t) = RebasedSlot(s, t)
           /\ NextSlot(s, t) \in Nat
           /\ t < NextSlot(s, t) /\ NextSlot(s, t) <= t + Interval[s]
           /\ OnGrid(s, NextSlot(s, t))
<1> DEFINE w == WindowStart[s]
           i == Interval[s]
           q == (t - w) \div i
<1>1. w \in Nat /\ i \in Nat \ {0}
  BY SchedulerAssumption
<1>2. q \in Nat
  BY AfterFacts
<1>3. (q + 1) * i = i * (q + 1)
  <2> HIDE DEF q, i
  <2> QED BY <1>1, <1>2
<1>4. CASE t <= w
  <2>1. t - w = 0
    BY <1>1, <1>4
  <2>2. 0 \div i = 0
    <3> HIDE DEF i
    <3> QED BY <1>1
  <2>3. w + i = w + i * (q + 1)
    <3>1. q = 0
      BY <2>1, <2>2
    <3> HIDE DEF q, i, w
    <3> QED BY <1>1, <3>1
  <2> QED BY <1>4, <2>3, AfterFacts DEF NextSlot, RebasedSlot
<1>5. CASE ~(t <= w)
  BY <1>3, <1>5, AfterFacts DEF NextSlot, RebasedSlot
<1> QED BY <1>4, <1>5

(* A slot of the grid is a number of intervals after the window start.     *)
LEMMA GridFacts ==
    ASSUME NEW s \in Schedule, NEW n \in Nat, OnGrid(s, n)
    PROVE  \E k \in Nat : n - WindowStart[s] = Interval[s] * k
<1> DEFINE a == n - WindowStart[s]
           i == Interval[s]
<1>1. i \in Nat \ {0} /\ WindowStart[s] \in Nat
  BY SchedulerAssumption
<1>2. a \in Nat /\ a % i = 0
  BY <1>1 DEF OnGrid
<1> HIDE DEF a, i
<1>3. \E k \in Nat : a = i * k
  BY <1>1, <1>2, MultipleFacts
<1> QED BY <1>3 DEF a, i

(* A slot of the grid that is listed early is its own next slot.           *)
LEMMA EarlySlot ==
    ASSUME NEW s \in Schedule, NEW t \in Int, t >= WindowStart[s],
           NEW n \in Nat, OnGrid(s, n), t < n, n <= t + Tolerance
    PROVE  NextSlot(s, t) = n
<1> DEFINE w == WindowStart[s]
           i == Interval[s]
           m == NextSlot(s, t)
<1>1. w \in Nat /\ i \in Nat \ {0} /\ Tolerance \in Nat /\ Tolerance < i
  BY SchedulerAssumption
<1>2. m \in Nat /\ t < m /\ m <= t + i /\ OnGrid(s, m)
  BY NextSlotFacts
<1> HIDE DEF m
<1>3. PICK k \in Nat : m - w = i * k
  BY <1>2, GridFacts
<1>4. PICK j \in Nat : n - w = i * j
  BY GridFacts
<1>5. i * k < i * j + i /\ i * j < i * k + i
  <2> HIDE DEF i, w
  <2>1. m < n + i /\ n < m + i
    BY <1>1, <1>2
  <2> QED BY <2>1, <1>1, <1>2, <1>3, <1>4
<1>6. k = j
  <2> HIDE DEF i
  <2> QED BY <1>1, <1>5, CloseMultiples
<1>7. m = n
  <2> HIDE DEF i, w
  <2> QED BY <1>1, <1>2, <1>3, <1>4, <1>6
<1> QED BY <1>7 DEF m

-----------------------------------------------------------------------------
(* Type correctness.                                                       *)

(* The threads of a collector.                                             *)
Of(c) == {t \in Thread : t[1] = c}

(* Waking a worker changes nothing but a waiting worker's place.           *)
LEMMA NotifyFacts ==
    ASSUME NEW c \in Collector, NEW pcs, NEW others,
           NEW P, pcs \in [Thread -> P], "idle" \in P,
           NEW new \in NotifyOne(c, pcs, others)
    PROVE  /\ new \in [Thread -> P]
           /\ \A t \in Thread :
                \/ new[t] = pcs[t]
                \/ t \in Of(c) /\ pcs[t] = "waiting" /\ new[t] = "idle"
<1>1. CASE new = pcs
  BY <1>1
<1>2. CASE \E w \in Worker : /\ pcs[<<c, w>>] = "waiting"
                             /\ new = [pcs EXCEPT ![<<c, w>>] = "idle"]
  <2> PICK w \in Worker : /\ pcs[<<c, w>>] = "waiting"
                          /\ new = [pcs EXCEPT ![<<c, w>>] = "idle"]
    BY <1>2
  <2>1. <<c, w>> \in Thread /\ <<c, w>>[1] = c
    BY DEF Thread
  <2> QED BY <2>1 DEF Of
<1> QED BY <1>1, <1>2 DEF NotifyOne

(* Queueing a run wakes at most one waiting worker of that collector.      *)
LEMMA EnqueueWakes ==
    ASSUME TypeOK, NEW c \in Collector, Enqueue(c)
    PROVE  \A t \in Thread :
             \/ wpc'[t] = wpc[t]
             \/ t \in Of(c) /\ wpc[t] = "waiting" /\ wpc'[t] = "idle"
<1> DEFINE P == {"exited", "idle", "waiting"} \cup Working
<1>1. wpc \in [Thread -> P] /\ "idle" \in P
  BY DEF TypeOK, WorkTypes
<1> DEFINE new == wpc'
           others == FALSE
<1>2. new = wpc \/ new \in NotifyOne(c, wpc, others)
  BY DEF Enqueue, EnqueueStopped, EnqueueSkip, EnqueueRun
<1> HIDE DEF P, new, others
<1>3. CASE new \in NotifyOne(c, wpc, others)
  <2>1. \A t \in Thread :
          \/ new[t] = wpc[t]
          \/ t \in Of(c) /\ wpc[t] = "waiting" /\ new[t] = "idle"
    BY <1>1, <1>3, NotifyFacts
  <2> QED BY <2>1 DEF new
<1> QED BY <1>2, <1>3 DEF new

(* What the loop thread of a collector does keeps the types ...            *)
LEMMA LoopStepTypes ==
    ASSUME TypeOK, LoopInv, NEW c \in Collector, LoopStep(c)
    PROVE  TypeOK'
<1>1. CASE LoopExit(c)
  BY <1>1 DEF LoopExit, TypeOK, DbTypes, LoopTypes, QueueTypes, WorkTypes, HistTypes, dbVars, workVars, histVars
<1>2. CASE Tick(c)
  <2>1. LoopTypes'
    <3>1. clock \in Int /\ Skew \in Int
      BY SchedulerAssumption DEF TypeOK, DbTypes
    <3> QED BY <1>2, <3>1 DEF Tick, TypeOK, LoopTypes
  <2> QED BY <1>2, <2>1 DEF Tick, TypeOK, DbTypes, QueueTypes, WorkTypes, HistTypes, dbVars, workVars, histVars
<1>3. CASE Reschedule(c)
  <2>1. ASSUME NEW s \in Schedule, Stale(s, now[c])
        PROVE  RebasedSlot(s, now[c]) \in Nat
    <3>1. now[c] \in Int /\ Tolerance \in Nat /\ WindowStart[s] \in Nat
      BY SchedulerAssumption DEF TypeOK, LoopTypes
    <3>2. now[c] >= WindowStart[s]
      BY <2>1, <3>1 DEF Stale
    <3> QED BY <3>1, <3>2, NextSlotFacts
  <2>2. DbTypes'
    BY <1>3, <2>1 DEF Reschedule, Fault, TypeOK, DbTypes
  <2> QED BY <1>3, <2>2 DEF Reschedule, TypeOK, LoopTypes, QueueTypes, WorkTypes, HistTypes, workVars, histVars
<1>4. CASE ListDue(c)
  <2>1. LoopTypes'
    <3>1. {DueRow(s) : s \in Due(now[c])} \in SUBSET Slot
      BY DEF TypeOK, DbTypes, Due, Slot, DueRow
    <3>2. \A d \in Oldest({DueRow(s) : s \in Due(now[c])}) : d \in SUBSET Slot
      BY <3>1 DEF Oldest
    <3>3. due' \in [Collector -> SUBSET Slot]
      BY <1>4, <3>2 DEF ListDue, TypeOK, LoopTypes
    <3> QED BY <1>4, <3>3 DEF ListDue, TypeOK, LoopTypes
  <2> QED BY <1>4, <2>1 DEF ListDue, Fault, TypeOK, DbTypes, QueueTypes, WorkTypes, HistTypes, dbVars, workVars, histVars
<1>5. ASSUME NEW d \in due[c], ClaimWon(c, d) \/ ClaimLost(c, d)
      PROVE  TypeOK'
  <2>1. d \in Slot /\ d.sched \in Schedule /\ d.slot \in Nat
    BY DEF TypeOK, LoopTypes, Slot
  <2>2. NextSlot(d.sched, now[c]) \in Nat
    <3>1. now[c] \in Int /\ now[c] >= WindowStart[d.sched]
      BY <2>1, SchedulerAssumption DEF TypeOK, LoopTypes, LoopInv, LoopOK, Fresh, InWindow
    <3> QED BY <2>1, <3>1, NextSlotFacts
  <2>3. DbTypes'
    BY <1>5, <2>1, <2>2 DEF ClaimWon, ClaimLost, Advance, Fault, TypeOK, DbTypes
  <2>4. LoopTypes'
    BY <1>5, <2>1 DEF ClaimWon, ClaimLost, TypeOK, LoopTypes
  <2> QED BY <1>5, <2>1, <2>3, <2>4
          DEF ClaimWon, ClaimLost, TypeOK, QueueTypes, WorkTypes, HistTypes, workVars, histVars
<1>6. CASE TickDone(c)
  BY <1>6 DEF TickDone, TypeOK, DbTypes, LoopTypes, QueueTypes, WorkTypes, HistTypes, dbVars, workVars, histVars
<1>7. CASE Enqueue(c)
  <2>1. cur[c] \in Slot /\ cur[c].sched \in Schedule
    BY <1>7 DEF Enqueue, LoopInv, LoopOK, Slot
  <2>2. DbTypes' /\ LoopTypes'
    BY <1>7 DEF Enqueue, EnqueueStopped, EnqueueSkip, EnqueueRun, TypeOK, DbTypes, LoopTypes, dbVars
  <2>3. CASE EnqueueStopped(c) \/ EnqueueSkip(c)
    BY <1>7, <2>2, <2>3 DEF Enqueue, EnqueueStopped, EnqueueSkip, TypeOK, QueueTypes, WorkTypes, HistTypes, dbVars
  <2>4. CASE EnqueueRun(c)
    <3>1. wpc' \in [Thread -> {"exited", "idle", "waiting"} \cup Working]
      <4> DEFINE P == {"exited", "idle", "waiting"} \cup Working
      <4>1. wpc \in [Thread -> P] /\ "idle" \in P
        BY DEF TypeOK, WorkTypes
      <4>2. wpc' \in NotifyOne(c, wpc, FALSE)
        BY <2>4 DEF EnqueueRun
      <4> HIDE DEF P
      <4>3. wpc' \in [Thread -> P]
        BY <4>1, <4>2, NotifyFacts
      <4> QED BY <4>3 DEF P
    <3>2. QueueTypes'
      <4>1. queue' \in [Collector -> Seq(Slot)]
        BY <2>1, <2>4 DEF EnqueueRun, Dispatch, TypeOK, QueueTypes
      <4>2. AgentOf[cur[c].sched] \in Agents
        BY <2>1 DEF Agents
      <4>3. busy' \in [Collector -> SUBSET Agents]
        BY <2>4, <4>2 DEF EnqueueRun, TypeOK, QueueTypes
      <4> QED BY <4>1, <4>3 DEF QueueTypes
    <3>3. HistTypes'
      BY <1>7, <2>1, <2>4 DEF Enqueue, EnqueueRun, Dispatch, TypeOK, HistTypes
    <3> QED BY <1>7, <2>2, <3>1, <3>2, <3>3 DEF Enqueue, TypeOK, WorkTypes, dbVars
  <2> QED BY <1>7, <2>3, <2>4 DEF Enqueue
<1> QED BY <1>1, <1>2, <1>3, <1>4, <1>5, <1>6, <1>7 DEF LoopStep

(* ... as does what a worker does ...                                      *)
LEMMA WorkerStepTypes ==
    ASSUME TypeOK, WorkInv, NEW c \in Collector, NEW w \in Worker,
           WorkerStep(c, w)
    PROVE  TypeOK'
<1> DEFINE t == <<c, w>>
<1>a. t \in Thread
  BY DEF Thread
<1>b. DbTypes' /\ LoopTypes' /\ HistTypes'
  BY DEF WorkerStep, WorkerTake, InsertRun, SkipRun, StartRpc, RpcReturns,
         RecordResult, WorkerDone, Fault, TypeOK, DbTypes, LoopTypes, HistTypes,
         dbVars, loopVars, histVars
<1> HIDE DEF t
<1>1. CASE WorkerTake(c, w)
  <2>1. CASE queue[c] = << >>
    BY <1>1, <1>a, <1>b, <2>1 DEF t, WorkerTake, TypeOK, QueueTypes, WorkTypes, dbVars
  <2>2. CASE queue[c] # << >>
    <3> DEFINE j == [sched |-> Head(queue[c]).sched,
                     slot |-> Head(queue[c]).slot, run |-> 0]
    <3>1. Head(queue[c]) \in Slot /\ Tail(queue[c]) \in Seq(Slot)
      BY <2>2, HeadTailProperties DEF TypeOK, QueueTypes
    <3>2. j \in Job
      BY <3>1 DEF Slot, Job
    <3>3. wpc' = [wpc EXCEPT ![t] = "exited"] \/ wpc' = [wpc EXCEPT ![t] = "insert"]
      BY <1>1, <2>2 DEF WorkerTake, t
    <3>4. job' = job \/ job' = [job EXCEPT ![t] = j]
      BY <1>1, <2>2 DEF WorkerTake, t
    <3>5. queue' = [queue EXCEPT ![c] = Tail(@)]
      BY <1>1, <2>2 DEF WorkerTake
    <3>6. UNCHANGED <<busy, active, cancelled, runs>>
      BY <1>1 DEF WorkerTake, dbVars
    <3> HIDE DEF j
    <3>7. QueueTypes'
      BY <3>1, <3>5, <3>6 DEF TypeOK, QueueTypes
    <3>8. WorkTypes'
      BY <1>a, <3>2, <3>3, <3>4, <3>6 DEF TypeOK, WorkTypes, Working
    <3> QED BY <1>b, <3>7, <3>8 DEF TypeOK
  <2> QED BY <2>1, <2>2
<1>2. CASE InsertRun(c, w)
  <2>1. job[t] \in Job
    BY <1>2, <1>a DEF t, InsertRun, WorkInv, Working, TypeOK, WorkTypes
  <2> DEFINE Row == [sched : Schedule, slot : Nat, finished : BOOLEAN]
  <2>2. NewRun(t) \in Row
    BY <2>1 DEF NewRun, Job
  <2>3. runs \in Seq(Row)
    BY DEF TypeOK, WorkTypes
  <2>4. runs' = runs \/ runs' = Append(runs, NewRun(t))
    BY <1>2 DEF t, InsertRun
  <2>5. Len(runs) + 1 \in Nat
    BY <2>3, LenProperties
  <2>6. runs' \in Seq(Row)
    <3> HIDE DEF Row
    <3> QED BY <2>2, <2>3, <2>4
  <2>7. job' \in [Thread -> Job \cup {NoJob}]
    <3>1. job' = job \/ job' = [job EXCEPT ![t] = [@ EXCEPT !.run = Len(runs) + 1]]
      BY <1>2 DEF t, InsertRun
    <3>2. [job[t] EXCEPT !.run = Len(runs) + 1] \in Job
      BY <2>1, <2>5 DEF Job
    <3> QED BY <1>a, <3>1, <3>2 DEF TypeOK, WorkTypes
  <2>8. wpc' = [wpc EXCEPT ![t] = "prepare"] \/ wpc' = [wpc EXCEPT ![t] = "done"]
    BY <1>2 DEF t, InsertRun
  <2>9. WorkTypes'
    <3>1. wpc' \in [Thread -> {"exited", "idle", "waiting"} \cup Working]
      BY <1>a, <2>8 DEF TypeOK, WorkTypes, Working
    <3> QED BY <1>2, <2>6, <2>7, <3>1 DEF InsertRun, TypeOK, WorkTypes
  <2> QED BY <1>2, <1>b, <2>9 DEF InsertRun, TypeOK, QueueTypes
<1>3. CASE SkipRun(c, w) \/ StartRpc(c, w) \/ RpcReturns(c, w)
  BY <1>3, <1>a, <1>b DEF t, SkipRun, StartRpc, RpcReturns, Working, TypeOK, QueueTypes, WorkTypes, dbVars
<1>4. CASE RecordResult(c, w)
  <2> DEFINE Row == [sched : Schedule, slot : Nat, finished : BOOLEAN]
  <2>1. runs \in Seq(Row)
    BY DEF TypeOK, WorkTypes
  <2>2. runs' \in Seq(Row)
    <3>1. CASE runs' = runs
      BY <2>1, <3>1
    <3>2. CASE runs' = [runs EXCEPT ![job[t].run].finished = TRUE]
      <4>1. \A r \in Row : [r EXCEPT !.finished = TRUE] \in Row
        OBVIOUS
      <4> HIDE DEF Row
      <4>2. runs' \in [1 .. Len(runs) -> Row] /\ Len(runs) \in Nat
        BY <2>1, <3>2, <4>1, LenProperties
      <4> QED BY <4>2
    <3> QED BY <1>4, <3>1, <3>2 DEF t, RecordResult
  <2>3. WorkTypes'
    BY <1>4, <1>a, <2>2 DEF t, RecordResult, TypeOK, WorkTypes, Working
  <2> QED BY <1>4, <1>b, <2>3 DEF RecordResult, TypeOK, QueueTypes
<1>5. CASE WorkerDone(c, w)
  <2>1. wpc' \in [Thread -> {"exited", "idle", "waiting"} \cup Working]
    <3> DEFINE P == {"exited", "idle", "waiting"} \cup Working
               pcs == [wpc EXCEPT ![t] = "idle"]
    <3>1. pcs \in [Thread -> P] /\ "idle" \in P
      BY <1>a DEF TypeOK, WorkTypes
    <3>2. wpc' \in NotifyOne(c, pcs, loop[c] = "wait")
      BY <1>5 DEF WorkerDone, t
    <3> HIDE DEF pcs, P
    <3>3. wpc' \in [Thread -> P]
      BY <3>1, <3>2, NotifyFacts
    <3> QED BY <3>3 DEF P
  <2> QED BY <1>5, <1>a, <1>b, <2>1 DEF t, WorkerDone, TypeOK, QueueTypes, WorkTypes, dbVars
<1> QED BY <1>1, <1>2, <1>3, <1>4, <1>5 DEF WorkerStep

(* ... so every step does.                                                 *)
LEMMA TypeStep == IInv /\ [Next]_vars => TypeOK'
<1> SUFFICES ASSUME TypeOK, LoopInv, WorkInv, [Next]_vars PROVE TypeOK'
  BY DEF IInv
<1>1. CASE AdvanceTime
  BY <1>1 DEF AdvanceTime, TypeOK, DbTypes, LoopTypes, QueueTypes, WorkTypes, HistTypes, dbVars, loopVars, workVars, histVars
<1>2. ASSUME NEW s \in Schedule,
             CreateSchedule(s) \/ EnableSchedule(s) \/ DeleteSchedule(s)
      PROVE  TypeOK'
  <2>1. WindowStart[s] \in Nat
    BY SchedulerAssumption
  <2>2. DbTypes'
    BY <1>2, <2>1 DEF CreateSchedule, EnableSchedule, DeleteSchedule, editVars, TypeOK, DbTypes
  <2> QED BY <1>2, <2>2
          DEF CreateSchedule, EnableSchedule, DeleteSchedule, editVars, TypeOK,
              LoopTypes, QueueTypes, WorkTypes, HistTypes, loopVars, workVars, histVars
<1>3. ASSUME NEW c \in Collector, Start(c) \/ StopSignal(c) \/ StopCancel(c)
      PROVE  TypeOK'
  <2>1. LoopTypes'
    BY <1>3 DEF Start, StopSignal, StopCancel, TypeOK, LoopTypes, loopVars
  <2>2. WorkTypes'
    BY <1>3 DEF Start, StopSignal, StopCancel, TypeOK, WorkTypes, dbVars
  <2> QED BY <1>3, <2>1, <2>2 DEF Start, StopSignal, StopCancel, TypeOK,
              DbTypes, QueueTypes, HistTypes, dbVars, histVars
<1>4. ASSUME NEW c \in Collector, Crash(c) \/ StopJoin(c)
      PROVE  TypeOK'
  <2> Gone(c)
    BY <1>4 DEF Crash, StopJoin
  <2>1. LoopTypes'
    <3>1. phase' \in [Collector -> {"down", "up", "stopping", "joining"}]
      BY DEF Gone, TypeOK, LoopTypes
    <3>2. now' \in [Collector -> Int] /\ due' \in [Collector -> SUBSET Slot]
      BY DEF Gone, TypeOK, LoopTypes
    <3> QED BY <3>1, <3>2 DEF Gone, TypeOK, LoopTypes
  <2>2. WorkTypes'
    BY DEF Gone, TypeOK, WorkTypes, dbVars
  <2>3. QueueTypes'
    <3>1. << >> \in Seq(Slot)
      BY EmptySeq
    <3>2. queue' \in [Collector -> Seq(Slot)]
      BY <3>1 DEF Gone, TypeOK, QueueTypes
    <3>3. busy' \in [Collector -> SUBSET Agents]
      BY DEF Gone, TypeOK, QueueTypes
    <3> QED BY <3>2, <3>3 DEF QueueTypes
  <2> QED BY <1>4, <2>1, <2>2, <2>3
          DEF Crash, StopJoin, Gone, Fault, TypeOK, DbTypes, HistTypes, dbVars, histVars
<1>5. ASSUME NEW c \in Collector, LoopStep(c)
      PROVE  TypeOK'
  BY <1>5, LoopStepTypes
<1>6. ASSUME NEW c \in Collector, NEW w \in Worker, WorkerStep(c, w)
      PROVE  TypeOK'
  BY <1>6, WorkerStepTypes
<1>7. CASE UNCHANGED vars
  BY <1>7 DEF vars, TypeOK, DbTypes, LoopTypes, QueueTypes, WorkTypes, HistTypes, dbVars, loopVars, workVars, histVars
<1> QED BY <1>1, <1>2, <1>3, <1>4, <1>5, <1>6, <1>7 DEF Next, StopStep

-----------------------------------------------------------------------------
(* The loop of a tick.                                                     *)

(* A step that does not touch the loop of a collector keeps its part.      *)
LEMMA LoopUntouched ==
    ASSUME LoopInv, NEW e \in Collector,
           loop'[e] = loop[e], now'[e] = now[e], due'[e] = due[e],
           cur'[e] = cur[e]
    PROVE  LoopOK(e)'
<1>1. LoopOK(e)
  BY DEF LoopInv
<1> QED BY <1>1 DEF LoopOK, Fresh, InWindow

(* What the loop holds is of its tick, whatever the other actors do.       *)
LEMMA LoopInvStep == IInv /\ [Next]_vars => LoopInv'
<1> SUFFICES ASSUME TypeOK, LoopInv, WorkInv, [Next]_vars, NEW e \in Collector
             PROVE  LoopOK(e)'
  BY DEF IInv, LoopInv
<1> USE DEF TypeOK, LoopTypes
<1>0. LoopOK(e)
  BY DEF LoopInv
<1>1. CASE UNCHANGED loopVars
  BY <1>1, LoopUntouched DEF loopVars
<1>2. ASSUME NEW c \in Collector, Start(c)
      PROVE  LoopOK(e)'
  <2>1. CASE e # c
    BY <1>2, <2>1, LoopUntouched DEF Start
  <2>2. CASE e = c
    <3>1. loop[e] = "exited"
      BY <1>2, <2>2 DEF Start, WorkInv, DownOK
    <3>2. due[e] = {}
      BY <1>0, <3>1 DEF LoopOK
    <3>3. loop'[e] = "wait" /\ due'[e] = {}
      BY <1>2, <2>2, <3>2 DEF Start
    <3> QED BY <3>3 DEF LoopOK
  <2> QED BY <2>1, <2>2
<1>3. ASSUME NEW c \in Collector, Gone(c)
      PROVE  LoopOK(e)'
  <2>1. CASE e # c
    BY <1>3, <2>1, LoopUntouched DEF Gone
  <2>2. CASE e = c
    <3>1. loop'[e] = "exited" /\ due'[e] = {}
      BY <1>3, <2>2 DEF Gone
    <3> QED BY <3>1 DEF LoopOK
  <2> QED BY <2>1, <2>2
<1>4. ASSUME NEW c \in Collector, LoopStep(c)
      PROVE  LoopOK(e)'
  <2>1. CASE e # c
    <3>1. loop'[e] = loop[e] /\ now'[e] = now[e] /\ due'[e] = due[e]
            /\ cur'[e] = cur[e]
      BY <1>4, <2>1
         DEF LoopStep, LoopExit, Tick, Reschedule, ListDue, ClaimWon, ClaimLost,
             TickDone, Enqueue, EnqueueStopped, EnqueueSkip, EnqueueRun
    <3> QED BY <3>1, LoopUntouched
  <2>2. CASE e = c /\ (LoopExit(c) \/ Tick(c) \/ Reschedule(c) \/ TickDone(c))
    <3>1. due[c] = {} /\ due'[c] = {} /\ loop'[c] # "enqueue"
      BY <1>0, <2>2 DEF LoopOK, LoopExit, Tick, Reschedule, TickDone
    <3> QED BY <2>2, <3>1 DEF LoopOK
  <2>3. CASE e = c /\ ListDue(c)
    <3>1. now'[c] = now[c] /\ loop'[c] = "claim"
      BY <2>3 DEF ListDue
    <3>2. ASSUME NEW d \in due'[c] PROVE d.slot \in now[c] - Tolerance .. now[c] + Tolerance
                                          /\ InWindow(d.sched, now[c])
      <4>1. due[c] = {}
        BY <1>0, <2>3 DEF LoopOK, ListDue
      <4>2. PICK s \in Due(now[c]) : d = DueRow(s)
        <5>1. PICK x \in Oldest({DueRow(s) : s \in Due(now[c])}) : due' = [due EXCEPT ![c] = x]
          BY <2>3, <3>2, <4>1 DEF ListDue
        <5>2. d \in x /\ x \subseteq {DueRow(s) : s \in Due(now[c])}
          BY <3>2, <5>1 DEF Oldest
        <5> QED BY <5>2
      <4>3. d.sched = s /\ d.slot = nextRun[s]
        BY <4>2 DEF DueRow
      <4> QED BY <4>3 DEF Due
    <3> QED BY <2>3, <3>1, <3>2 DEF LoopOK, Fresh, InWindow
  <2>4. ASSUME NEW d \in due[c], e = c, ClaimWon(c, d) \/ ClaimLost(c, d)
        PROVE  LoopOK(e)'
    <3>1. now'[c] = now[c] /\ due'[c] = due[c] \ {d}
      BY <2>4 DEF ClaimWon, ClaimLost
    <3>2. Fresh(c, d) /\ d \in Slot
      BY <1>0, <2>4 DEF LoopOK
    <3>3. loop[c] = "claim" /\ loop'[c] \in {"claim", "enqueue"}
            /\ (loop'[c] = "enqueue" => cur'[c] = d)
      BY <2>4 DEF ClaimWon, ClaimLost
    <3>4. \A x : Fresh(c, x) => Fresh(c, x)'
      BY <3>1 DEF Fresh, InWindow
    <3>5. \A x \in due'[c] : Fresh(c, x)'
      BY <1>0, <2>4, <3>1, <3>4 DEF LoopOK
    <3>6. loop'[c] = "enqueue" => cur'[c] \in Slot /\ Fresh(c, d)'
      BY <3>2, <3>3, <3>4
    <3>7. loop'[c] = "enqueue" => Fresh(c, cur[c])'
      BY <3>3, <3>6 DEF Fresh
    <3> QED BY <2>4, <3>3, <3>5, <3>6, <3>7 DEF LoopOK
  <2>5. CASE e = c /\ Enqueue(c)
    <3>1. now'[c] = now[c] /\ loop'[c] \in {"exited", "claim"}
      BY <2>5 DEF Enqueue, EnqueueStopped, EnqueueSkip, EnqueueRun
    <3>2. \/ loop'[c] = "exited" /\ due'[c] = {}
          \/ loop'[c] = "claim" /\ due'[c] = due[c]
      BY <2>5 DEF Enqueue, EnqueueStopped, EnqueueSkip, EnqueueRun
    <3>3. \A x : Fresh(c, x) => Fresh(c, x)'
      BY <3>1 DEF Fresh, InWindow
    <3>4. \A x \in due'[c] : Fresh(c, x)'
      BY <1>0, <2>5, <3>2, <3>3 DEF LoopOK
    <3> QED BY <2>5, <3>1, <3>2, <3>4 DEF LoopOK
  <2> QED BY <1>4, <2>1, <2>2, <2>3, <2>4, <2>5 DEF LoopStep
<1>5. CASE AdvanceTime \/ UNCHANGED vars
  BY <1>1, <1>5 DEF AdvanceTime, vars
<1>6. ASSUME NEW s \in Schedule,
             CreateSchedule(s) \/ EnableSchedule(s) \/ DeleteSchedule(s)
      PROVE  LoopOK(e)'
  BY <1>1, <1>6 DEF CreateSchedule, EnableSchedule, DeleteSchedule, editVars
<1>7. ASSUME NEW c \in Collector, StopSignal(c) \/ StopCancel(c)
      PROVE  LoopOK(e)'
  BY <1>1, <1>7 DEF StopSignal, StopCancel
<1>8. ASSUME NEW c \in Collector, NEW w \in Worker, WorkerStep(c, w)
      PROVE  LoopOK(e)'
  BY <1>1, <1>8 DEF WorkerStep, WorkerTake, InsertRun, SkipRun, StartRpc,
                    RpcReturns, RecordResult, WorkerDone
<1> QED BY <1>2, <1>3, <1>4, <1>5, <1>6, <1>7, <1>8
        DEF Next, StopStep, Crash, StopJoin

-----------------------------------------------------------------------------
(* The claim guard.                                                        *)

(* What a claim that matched writes: a slot of the grid, after the clock   *)
(* reading, and not before the old one unless that was off the grid.       *)
LEMMA AdvanceFacts ==
    ASSUME TypeOK, LoopInv, NEW c \in Collector, NEW d \in due[c],
           Matches(d), Advance(c, d)
    PROVE  /\ d \in Slot /\ d.sched \in Schedule /\ d.slot = nextRun[d.sched]
           /\ \A s \in Schedule : s # d.sched => nextRun'[s] = nextRun[s]
           /\ OnGrid(d.sched, nextRun'[d.sched])
           /\ OnGrid(d.sched, nextRun[d.sched]) => nextRun[d.sched] <= nextRun'[d.sched]
           /\ now[c] >= d.slot => nextRun'[d.sched] > d.slot
<1> DEFINE s == d.sched
           n == NextSlot(s, now[c])
<1>1. d \in Slot /\ s \in Schedule /\ d.slot = nextRun[s] /\ d.slot \in Nat
  BY DEF TypeOK, LoopTypes, Slot, Matches
<1>2. now[c] \in Int /\ now[c] >= WindowStart[s] /\ d.slot <= now[c] + Tolerance
  BY <1>1, SchedulerAssumption DEF TypeOK, LoopTypes, LoopInv, LoopOK, Fresh, InWindow
<1>3. nextRun' = [nextRun EXCEPT ![s] = n]
  BY DEF Advance
<1>4. nextRun'[s] = n /\ \A x \in Schedule : x # s => nextRun'[x] = nextRun[x]
  BY <1>1, <1>3 DEF TypeOK, DbTypes
<1>5. n \in Nat /\ now[c] < n /\ OnGrid(s, n)
  BY <1>1, <1>2, NextSlotFacts
<1>6. ASSUME OnGrid(s, d.slot) PROVE d.slot <= n
  <2>1. CASE now[c] < d.slot
    <3>1. n = d.slot
      BY <1>1, <1>2, <1>6, <2>1, EarlySlot
    <3> QED BY <1>1, <3>1
  <2>2. CASE ~(now[c] < d.slot)
    BY <1>1, <1>2, <1>5, <2>2
  <2> QED BY <2>1, <2>2
<1> HIDE DEF n
<1>7. now[c] >= d.slot => n > d.slot
  BY <1>1, <1>2, <1>5
<1> QED BY <1>1, <1>4, <1>5, <1>6, <1>7

(* What RescheduleStaleSchedules writes.                                   *)
LEMMA RescheduleFacts ==
    ASSUME TypeOK, NEW c \in Collector, Reschedule(c), NEW s \in Schedule,
           nextRun'[s] # nextRun[s]
    PROVE  OnGrid(s, nextRun'[s]) /\ nextRun[s] < nextRun'[s]
<1>1. Stale(s, now[c]) /\ nextRun'[s] = RebasedSlot(s, now[c])
  BY DEF Reschedule
<1>2. now[c] \in Int /\ Tolerance \in Nat /\ WindowStart[s] \in Nat /\ nextRun[s] \in Nat
  BY SchedulerAssumption DEF TypeOK, DbTypes, LoopTypes
<1>3. now[c] >= WindowStart[s] /\ nextRun[s] < now[c]
  BY <1>1, <1>2 DEF Stale
<1>4. /\ RebasedSlot(s, now[c]) \in Nat
      /\ now[c] < RebasedSlot(s, now[c])
      /\ OnGrid(s, RebasedSlot(s, now[c]))
  BY <1>2, <1>3, NextSlotFacts
<1> QED BY <1>1, <1>2, <1>3, <1>4

(* A schedule in the table never leaves it, and its next_run stays on the  *)
(* grid and does not go back.                                              *)
Onward ==
    \A s \in Schedule : status[s] # "none" =>
        /\ status'[s] # "none"
        /\ OnGrid(s, nextRun[s]) => /\ OnGrid(s, nextRun'[s])
                                    /\ nextRun[s] <= nextRun'[s]
        /\ nextRun'[s] # nextRun[s] => OnGrid(s, nextRun'[s])

(* Every step moves the schedules onward.                                  *)
LEMMA OnwardStep == IInv /\ [Next]_vars => Onward
<1> SUFFICES ASSUME TypeOK, LoopInv, [Next]_vars, NEW s \in Schedule,
                    status[s] # "none"
             PROVE  /\ status'[s] # "none"
                    /\ OnGrid(s, nextRun[s]) => /\ OnGrid(s, nextRun'[s])
                                                /\ nextRun[s] <= nextRun'[s]
                    /\ nextRun'[s] # nextRun[s] => OnGrid(s, nextRun'[s])
  BY DEF IInv, Onward
<1>0. nextRun[s] \in Nat
  BY DEF TypeOK, DbTypes
<1>a. ASSUME NEW x \in Schedule,
             CreateSchedule(x) \/ EnableSchedule(x) \/ DeleteSchedule(x)
      PROVE  status'[s] # "none" /\ nextRun'[s] = nextRun[s]
  BY <1>a DEF CreateSchedule, EnableSchedule, DeleteSchedule, TypeOK, DbTypes
<1>b. ASSUME NEW c \in Collector, Start(c) \/ StopSignal(c) \/ Crash(c) \/ StopStep(c)
      PROVE  UNCHANGED <<status, nextRun>>
  BY <1>b DEF Start, StopSignal, Crash, StopStep, StopCancel, StopJoin, Gone, dbVars
<1>c. ASSUME NEW c \in Collector, NEW w \in Worker, WorkerStep(c, w)
      PROVE  UNCHANGED <<status, nextRun>>
  BY <1>c DEF WorkerStep, WorkerTake, InsertRun, SkipRun, StartRpc, RpcReturns,
              RecordResult, WorkerDone, dbVars
<1>d. AdvanceTime \/ UNCHANGED vars => UNCHANGED <<status, nextRun>>
  BY DEF AdvanceTime, vars, dbVars
<1>e. ASSUME NEW c \in Collector, LoopStep(c)
      PROVE  /\ UNCHANGED status
             /\ \/ UNCHANGED nextRun
                \/ Reschedule(c)
                \/ \E d \in due[c] : ClaimWon(c, d) \/ ClaimLost(c, d)
  BY <1>e DEF LoopStep, LoopExit, Tick, Reschedule, ListDue, ClaimWon, ClaimLost,
              TickDone, Enqueue, dbVars
<1>1. status'[s] # "none"
  BY <1>a, <1>b, <1>c, <1>d, <1>e DEF Next
<1>2. CASE nextRun'[s] = nextRun[s]
  BY <1>0, <1>1, <1>2
<1>3. ASSUME NEW c \in Collector, Reschedule(c), nextRun'[s] # nextRun[s]
      PROVE  OnGrid(s, nextRun'[s]) /\ nextRun[s] <= nextRun'[s]
  <2>1. OnGrid(s, nextRun'[s]) /\ nextRun[s] < nextRun'[s]
    BY <1>3, RescheduleFacts
  <2>2. nextRun'[s] \in Nat
    BY TypeStep, <1>3, LoopStepTypes DEF LoopStep, TypeOK, DbTypes
  <2> QED BY <1>0, <2>1, <2>2
<1>4. ASSUME NEW c \in Collector, NEW d \in due[c],
             ClaimWon(c, d) \/ ClaimLost(c, d), nextRun'[s] # nextRun[s]
      PROVE  OnGrid(s, nextRun'[s]) /\ (OnGrid(s, nextRun[s]) => nextRun[s] <= nextRun'[s])
  <2>1. Matches(d) /\ Advance(c, d)
    BY <1>4 DEF ClaimWon, ClaimLost
  <2> QED BY <1>4, <2>1, AdvanceFacts
<1>5. \/ nextRun'[s] = nextRun[s]
      \/ \E c \in Collector : Reschedule(c)
      \/ \E c \in Collector : \E d \in due[c] : ClaimWon(c, d) \/ ClaimLost(c, d)
  BY <1>a, <1>b, <1>c, <1>d, <1>e DEF Next
<1> QED BY <1>1, <1>2, <1>3, <1>4, <1>5

(* What was claimed stays claimed by the same loop: a step that claims and *)
(* queues nothing keeps ClaimInv.                                          *)
LEMMA ClaimKept ==
    ASSUME TypeOK, ClaimInv, TypeOK', Onward, UNCHANGED <<taken, twice, early>>,
           \A c \in Collector, d \in Slot : Holds(c, d)' => Holds(c, d)
    PROVE  ClaimInv'
<1>1. UNCHANGED <<taken, twice, early>>
  OBVIOUS
<1>2. ASSUME NEW d \in Slot, Claimed(d)' PROVE Claimed(d)
  BY <1>1, <1>2 DEF Claimed
<1>3. ASSUME NEW d \in Slot, Claimed(d)'
      PROVE  /\ status'[d.sched] # "none"
             /\ OnGrid(d.sched, nextRun'[d.sched])
             /\ d \in early' \/ d.slot < nextRun'[d.sched]
  <2>1. /\ status[d.sched] # "none"
        /\ OnGrid(d.sched, nextRun[d.sched])
        /\ d \in early \/ d.slot < nextRun[d.sched]
    BY <1>2, <1>3 DEF ClaimInv
  <2>2. d.sched \in Schedule /\ d.slot \in Nat
    BY DEF Slot
  <2>3. nextRun[d.sched] \in Nat /\ nextRun'[d.sched] \in Nat
    BY <2>2 DEF TypeOK, DbTypes
  <2> QED BY <1>1, <2>1, <2>2, <2>3 DEF Onward
<1>4. ASSUME NEW d \in Slot \ early'
      PROVE  /\ d \notin twice'
             /\ \A c \in Collector : Holds(c, d)' =>
                  d \notin taken' /\ \A e \in Collector : Holds(e, d)' => e = c
  BY <1>1, <1>4 DEF ClaimInv
<1> QED BY <1>3, <1>4 DEF ClaimInv, OnGrid

(* Winning a claim: the slot is early, or nobody has it and next_run goes  *)
(* past it.                                                                *)
LEMMA ClaimWonKeeps ==
    ASSUME TypeOK, LoopInv, ClaimInv, TypeOK', Onward,
           NEW c \in Collector, NEW d \in due[c], ClaimWon(c, d)
    PROVE  ClaimInv'
<1>1. Matches(d) /\ Advance(c, d)
  BY DEF ClaimWon
<1>2. /\ d \in Slot /\ d.sched \in Schedule /\ d.slot = nextRun[d.sched]
      /\ OnGrid(d.sched, nextRun'[d.sched])
      /\ now[c] >= d.slot => nextRun'[d.sched] > d.slot
  BY <1>1, AdvanceFacts
<1>3. now[c] \in Int /\ d.slot \in Nat
  BY <1>2 DEF TypeOK, LoopTypes, Slot
<1>4. UNCHANGED <<taken, twice>> /\ early \subseteq early'
  BY DEF ClaimWon
<1>5. d \in early' \/ d.slot < nextRun'[d.sched]
  <2>1. CASE now[c] < d.slot
    BY <2>1 DEF ClaimWon
  <2>2. CASE ~(now[c] < d.slot)
    <3>1. now[c] >= d.slot
      BY <1>3, <2>2
    <3>2. nextRun'[d.sched] \in Nat
      BY <1>2 DEF TypeOK, DbTypes
    <3> QED BY <1>2, <1>3, <3>1, <3>2
  <2> QED BY <2>1, <2>2
<1>6. ASSUME NEW e \in Collector, NEW x \in Slot, Holds(e, x)'
      PROVE  (e = c /\ x = d) \/ (e # c /\ Holds(e, x))
  BY <1>6 DEF ClaimWon, Holds, TypeOK, LoopTypes
<1>7. ASSUME NEW x \in Slot, Claimed(x)', x # d
      PROVE  Claimed(x)
  BY <1>4, <1>6, <1>7 DEF Claimed
<1>8. Claimed(d) => d \in early
  <2> SUFFICES ASSUME Claimed(d) PROVE d \in early
    OBVIOUS
  <2>1. d \in early \/ d.slot < nextRun[d.sched]
    BY <1>2 DEF ClaimInv
  <2> QED BY <1>2, <1>3, <2>1
<1>9. status[d.sched] = "on"
  BY <1>1 DEF Matches
<1>10. ASSUME NEW x \in Slot, Claimed(x)'
       PROVE  /\ status'[x.sched] # "none"
              /\ OnGrid(x.sched, nextRun'[x.sched])
              /\ x \in early' \/ x.slot < nextRun'[x.sched]
  <2>1. CASE x = d
    BY <1>2, <1>5, <1>9, <2>1 DEF Onward
  <2>2. CASE x # d
    <3>1. /\ status[x.sched] # "none"
          /\ OnGrid(x.sched, nextRun[x.sched])
          /\ x \in early \/ x.slot < nextRun[x.sched]
      BY <1>7, <1>10, <2>2 DEF ClaimInv
    <3>2. x.sched \in Schedule /\ x.slot \in Nat
      BY DEF Slot
    <3>3. nextRun[x.sched] \in Nat /\ nextRun'[x.sched] \in Nat
      BY <3>2 DEF TypeOK, DbTypes
    <3> QED BY <1>4, <3>1, <3>2, <3>3 DEF Onward
  <2> QED BY <2>1, <2>2
<1>11. ASSUME NEW x \in Slot \ early'
       PROVE  /\ x \notin twice'
              /\ \A e \in Collector : Holds(e, x)' =>
                   x \notin taken' /\ \A f \in Collector : Holds(f, x)' => f = e
  <2>1. x \notin twice' /\ x \notin early
    BY <1>4, <1>11 DEF ClaimInv
  <2>2. CASE x = d
    <3>1. ~Claimed(d)
      BY <1>8, <2>1, <2>2
    <3>2. d \notin taken /\ \A f \in Collector : ~Holds(f, d)
      BY <3>1 DEF Claimed
    <3> QED BY <1>4, <1>6, <2>1, <2>2, <3>2
  <2>3. CASE x # d
    <3> SUFFICES ASSUME NEW e \in Collector, Holds(e, x)'
                 PROVE  x \notin taken' /\ \A f \in Collector : Holds(f, x)' => f = e
      BY <2>1
    <3>1. Holds(e, x)
      BY <1>6, <2>3
    <3> QED BY <1>4, <1>6, <2>1, <2>3, <3>1 DEF ClaimInv
  <2> QED BY <2>2, <2>3
<1> QED BY <1>10, <1>11 DEF ClaimInv, OnGrid

(* Queueing, skipping or dropping the claimed slot.                        *)
LEMMA EnqueueKeeps ==
    ASSUME TypeOK, LoopInv, ClaimInv, TypeOK', Onward,
           NEW c \in Collector, Enqueue(c)
    PROVE  ClaimInv'
<1>1. UNCHANGED early
  BY DEF Enqueue
<1>2. loop[c] = "enqueue" /\ cur[c] \in Slot /\ Holds(c, cur[c])
  BY DEF Enqueue, LoopInv, LoopOK, Holds
<1>3. ASSUME NEW e \in Collector, NEW x \in Slot, Holds(e, x)'
      PROVE  e # c /\ Holds(e, x)
  BY <1>3 DEF Enqueue, EnqueueStopped, EnqueueSkip, EnqueueRun, Holds, TypeOK, LoopTypes
<1>4. UNCHANGED <<taken, twice>> \/ Dispatch(c)
  BY DEF Enqueue, EnqueueStopped, EnqueueSkip, EnqueueRun
<1>5. taken' \subseteq taken \cup {cur[c]}
  BY <1>4 DEF Dispatch
<1>6. ASSUME NEW x \in Slot, x \in twice', x \notin early
      PROVE  FALSE
  <2>1. x \notin twice
    BY <1>6 DEF ClaimInv
  <2>2. x = cur[c] /\ cur[c] \in taken
    BY <1>4, <1>6, <2>1 DEF Dispatch
  <2> QED BY <1>2, <1>6, <2>2 DEF ClaimInv
<1>7. ASSUME NEW x \in Slot, Claimed(x)' PROVE Claimed(x)
  BY <1>2, <1>3, <1>5, <1>7 DEF Claimed
<1>8. ASSUME NEW x \in Slot, Claimed(x)'
      PROVE  /\ status'[x.sched] # "none"
             /\ OnGrid(x.sched, nextRun'[x.sched])
             /\ x \in early' \/ x.slot < nextRun'[x.sched]
  <2>1. /\ status[x.sched] # "none"
        /\ OnGrid(x.sched, nextRun[x.sched])
        /\ x \in early \/ x.slot < nextRun[x.sched]
    BY <1>7, <1>8 DEF ClaimInv
  <2>2. x.sched \in Schedule
    BY DEF Slot
  <2>3. UNCHANGED <<status, nextRun>>
    BY DEF Enqueue, dbVars
  <2> QED BY <1>1, <2>1, <2>3
<1>9. ASSUME NEW x \in Slot \ early'
      PROVE  /\ x \notin twice'
             /\ \A e \in Collector : Holds(e, x)' =>
                  x \notin taken' /\ \A f \in Collector : Holds(f, x)' => f = e
  <2>1. x \notin twice' /\ x \notin early
    BY <1>1, <1>6, <1>9
  <2> SUFFICES ASSUME NEW e \in Collector, Holds(e, x)'
               PROVE  x \notin taken' /\ \A f \in Collector : Holds(f, x)' => f = e
    BY <2>1
  <2>2. e # c /\ Holds(e, x) /\ x \notin taken
        /\ \A f \in Collector : Holds(f, x) => f = e
    BY <1>3, <2>1 DEF ClaimInv
  <2>3. x # cur[c]
    BY <1>2, <2>2
  <2> QED BY <1>3, <1>5, <2>2, <2>3
<1> QED BY <1>8, <1>9 DEF ClaimInv, OnGrid

(* Every step keeps the claim guard's invariant.                           *)
LEMMA ClaimInvStep == IInv /\ [Next]_vars => ClaimInv'
<1> SUFFICES ASSUME IInv, [Next]_vars PROVE ClaimInv'
  OBVIOUS
<1>0. TypeOK /\ LoopInv /\ ClaimInv /\ WorkInv /\ TypeOK' /\ Onward
  BY TypeStep, OnwardStep DEF IInv
<1>1. CASE UNCHANGED <<loop, cur, histVars>>
  BY <1>0, <1>1, ClaimKept DEF Holds, histVars
<1>2. ASSUME NEW c \in Collector, Start(c) \/ Gone(c)
      PROVE  ClaimInv'
  <2>1. UNCHANGED <<taken, twice, early>>
    BY <1>2 DEF Start, Gone
  <2>2. loop'[c] # "enqueue"
        /\ \A e \in Collector : e # c => loop'[e] = loop[e] /\ cur'[e] = cur[e]
    BY <1>0, <1>2 DEF Start, Gone, TypeOK, LoopTypes
  <2> QED BY <1>0, <2>1, <2>2, ClaimKept DEF Holds
<1>3. ASSUME NEW c \in Collector,
             \/ LoopExit(c) \/ Tick(c) \/ Reschedule(c) \/ ListDue(c) \/ TickDone(c)
             \/ \E d \in due[c] : ClaimLost(c, d)
      PROVE  ClaimInv'
  <2>1. UNCHANGED <<cur, histVars>>
    BY <1>3 DEF LoopExit, Tick, Reschedule, ListDue, TickDone, ClaimLost
  <2>2. loop'[c] # "enqueue" /\ \A e \in Collector : e # c => loop'[e] = loop[e]
    BY <1>0, <1>3 DEF LoopExit, Tick, Reschedule, ListDue, TickDone, ClaimLost, TypeOK, LoopTypes
  <2> QED BY <1>0, <2>1, <2>2, ClaimKept DEF Holds, histVars
<1>4. ASSUME NEW c \in Collector, LoopStep(c)
      PROVE  ClaimInv'
  BY <1>0, <1>3, <1>4, ClaimWonKeeps, EnqueueKeeps DEF LoopStep
<1>5. CASE AdvanceTime \/ UNCHANGED vars
  BY <1>1, <1>5 DEF AdvanceTime, vars, loopVars
<1>6. ASSUME NEW s \in Schedule,
             CreateSchedule(s) \/ EnableSchedule(s) \/ DeleteSchedule(s)
      PROVE  ClaimInv'
  BY <1>1, <1>6 DEF CreateSchedule, EnableSchedule, DeleteSchedule, editVars, loopVars
<1>7. ASSUME NEW c \in Collector, StopSignal(c) \/ StopCancel(c)
      PROVE  ClaimInv'
  BY <1>1, <1>7 DEF StopSignal, StopCancel, loopVars
<1>8. ASSUME NEW c \in Collector, NEW w \in Worker, WorkerStep(c, w)
      PROVE  ClaimInv'
  BY <1>1, <1>8 DEF WorkerStep, WorkerTake, InsertRun, SkipRun, StartRpc,
                    RpcReturns, RecordResult, WorkerDone, loopVars
<1> QED BY <1>2, <1>4, <1>5, <1>6, <1>7, <1>8
        DEF Next, StopStep, Crash, StopJoin

-----------------------------------------------------------------------------
(* Workers, their runs and the contexts of their calls.                    *)

(* A process that is down stays empty until it is started.                 *)
LEMMA DownStep ==
    ASSUME TypeOK, WorkInv, [Next]_vars, NEW e \in Collector
    PROVE  DownOK(e)'
<1>0. DownOK(e)
  BY DEF WorkInv
<1>a. ASSUME NEW w \in Worker PROVE <<e, w>> \in Thread /\ <<e, w>>[1] = e
  BY DEF Thread
<1> USE DEF TypeOK, LoopTypes, QueueTypes, WorkTypes
<1>1. CASE UNCHANGED <<phase, loop, queue, busy, wpc>>
  BY <1>0, <1>1 DEF DownOK
<1>2. ASSUME NEW c \in Collector, phase[c] # "down", UNCHANGED phase,
             \A x \in Collector : x # c => loop'[x] = loop[x] /\ queue'[x] = queue[x]
                                             /\ busy'[x] = busy[x],
             \A t \in Thread : t[1] # c => wpc'[t] = wpc[t]
      PROVE  DownOK(e)'
  BY <1>0, <1>2, <1>a DEF DownOK
<1>3. ASSUME NEW c \in Collector, Start(c) \/ StopSignal(c) \/ StopCancel(c)
      PROVE  DownOK(e)'
  <2>1. CASE e = c
    <3>1. phase'[c] # "down"
      BY <1>3 DEF Start, StopSignal, StopCancel
    <3> QED BY <2>1, <3>1 DEF DownOK
  <2>2. CASE e # c
    <3>1. /\ phase'[e] = phase[e] /\ loop'[e] = loop[e] /\ queue'[e] = queue[e]
          /\ busy'[e] = busy[e]
      BY <1>3, <2>2 DEF Start, StopSignal, StopCancel, loopVars
    <3>2. \A w \in Worker : wpc'[<<e, w>>] = wpc[<<e, w>>]
      BY <1>3, <1>a, <2>2 DEF Start, StopSignal, StopCancel
    <3> QED BY <1>0, <3>1, <3>2 DEF DownOK
  <2> QED BY <2>1, <2>2
<1>4. ASSUME NEW c \in Collector, Gone(c)
      PROVE  DownOK(e)'
  <2>1. CASE e = c
    <3>1. loop'[e] = "exited" /\ queue'[e] = << >> /\ busy'[e] = {}
      BY <1>4, <2>1 DEF Gone
    <3>2. \A w \in Worker : wpc'[<<e, w>>] = "exited"
      BY <1>4, <1>a, <2>1 DEF Gone
    <3> QED BY <3>1, <3>2 DEF DownOK
  <2>2. CASE e # c
    <3>1. /\ phase'[e] = phase[e] /\ loop'[e] = loop[e] /\ queue'[e] = queue[e]
          /\ busy'[e] = busy[e]
      BY <1>4, <2>2 DEF Gone
    <3>2. \A w \in Worker : wpc'[<<e, w>>] = wpc[<<e, w>>]
      BY <1>4, <1>a, <2>2 DEF Gone
    <3> QED BY <1>0, <3>1, <3>2 DEF DownOK
  <2> QED BY <2>1, <2>2
<1>5. ASSUME NEW c \in Collector, LoopStep(c)
      PROVE  DownOK(e)'
  <2>1. loop[c] # "exited"
    BY <1>5 DEF LoopStep, LoopExit, Tick, Reschedule, ListDue, ClaimWon,
                ClaimLost, TickDone, Enqueue
  <2>2. phase[c] # "down"
    BY <2>1 DEF WorkInv, DownOK
  <2>3. CASE Enqueue(c)
    <3>1. UNCHANGED phase
      BY <2>3 DEF Enqueue
    <3>2. \A x \in Collector : x # c => loop'[x] = loop[x] /\ queue'[x] = queue[x]
                                          /\ busy'[x] = busy[x]
      BY <2>3 DEF Enqueue, EnqueueStopped, EnqueueSkip, EnqueueRun, Dispatch
    <3>3. \A t \in Thread : t[1] # c => wpc'[t] = wpc[t]
      BY <2>3, EnqueueWakes DEF Of
    <3> QED BY <1>2, <2>2, <3>1, <3>2, <3>3
  <2>4. CASE ~Enqueue(c)
    <3>1. UNCHANGED <<phase, queue, busy, wpc>>
      BY <1>5, <2>4 DEF LoopStep, LoopExit, Tick, Reschedule, ListDue, ClaimWon,
                        ClaimLost, TickDone, workVars
    <3>2. \A x \in Collector : x # c => loop'[x] = loop[x]
      BY <1>5, <2>4 DEF LoopStep, LoopExit, Tick, Reschedule, ListDue, ClaimWon,
                        ClaimLost, TickDone
    <3> QED BY <1>2, <2>2, <3>1, <3>2
  <2> QED BY <2>3, <2>4
<1>6. ASSUME NEW c \in Collector, NEW w \in Worker, WorkerStep(c, w)
      PROVE  DownOK(e)'
  <2>1. wpc[<<c, w>>] # "exited"
    BY <1>6 DEF WorkerStep, WorkerTake, InsertRun, SkipRun, StartRpc,
                RpcReturns, RecordResult, WorkerDone
  <2>2. phase[c] # "down"
    BY <2>1 DEF WorkInv, DownOK
  <2>3. UNCHANGED <<phase, loop>>
    BY <1>6 DEF WorkerStep, WorkerTake, InsertRun, SkipRun, StartRpc,
                RpcReturns, RecordResult, WorkerDone, loopVars
  <2>4. \A x \in Collector : x # c => queue'[x] = queue[x] /\ busy'[x] = busy[x]
    BY <1>6 DEF WorkerStep, WorkerTake, InsertRun, SkipRun, StartRpc,
                RpcReturns, RecordResult, WorkerDone
  <2>5. <<c, w>> \in Thread /\ <<c, w>>[1] = c
    BY DEF Thread
  <2>6. \A t \in Thread : t[1] # c => wpc'[t] = wpc[t]
    <3>1. CASE WorkerDone(c, w)
      <4> DEFINE P == {"exited", "idle", "waiting"} \cup Working
                 pcs == [wpc EXCEPT ![<<c, w>>] = "idle"]
      <4>1. pcs \in [Thread -> P] /\ "idle" \in P
        BY <2>5
      <4>2. wpc' \in NotifyOne(c, pcs, loop[c] = "wait")
        BY <3>1 DEF WorkerDone
      <4>3. \A t \in Thread : t[1] # c => pcs[t] = wpc[t]
        BY <2>5
      <4> HIDE DEF P, pcs, TypeOK
      <4>4. \A x \in Thread :
              \/ wpc'[x] = pcs[x]
              \/ x \in Of(c) /\ pcs[x] = "waiting" /\ wpc'[x] = "idle"
        BY <4>1, <4>2, NotifyFacts
      <4> QED BY <4>3, <4>4 DEF Of
    <3>2. CASE ~WorkerDone(c, w)
      BY <1>6, <2>5, <3>2
         DEF WorkerStep, WorkerTake, InsertRun, SkipRun, StartRpc, RpcReturns,
             RecordResult
    <3> QED BY <3>1, <3>2
  <2> QED BY <1>2, <2>2, <2>3, <2>4, <2>6
<1>7. CASE AdvanceTime \/ UNCHANGED vars
  BY <1>1, <1>7 DEF AdvanceTime, vars, loopVars, workVars
<1>8. ASSUME NEW s \in Schedule,
             CreateSchedule(s) \/ EnableSchedule(s) \/ DeleteSchedule(s)
      PROVE  DownOK(e)'
  BY <1>1, <1>8 DEF CreateSchedule, EnableSchedule, DeleteSchedule, editVars,
                    loopVars, workVars
<1> QED BY <1>3, <1>4, <1>5, <1>6, <1>7, <1>8 DEF Next, StopStep, Crash, StopJoin

(* The part of WorkInv about one thread.                                   *)
ThreadOK(t) ==
    /\ (job[t] # NoJob) <=> (wpc[t] \in Working)
    /\ t \in active <=> wpc[t] = "rpc"
    /\ t \in cancelled => t \in active

(* A thread that keeps its run and its context, and its place or waits and *)
(* wakes up, keeps its part.                                               *)
LEMMA ThreadUntouched ==
    ASSUME NEW t \in Thread, ThreadOK(t), job'[t] = job[t],
           t \in active' <=> t \in active, t \in cancelled' => t \in cancelled,
           \/ wpc'[t] = wpc[t]
           \/ wpc[t] \in {"waiting", "exited"} /\ wpc'[t] = "idle"
    PROVE  ThreadOK(t)'
BY DEF ThreadOK, Working

(* A worker's own step.                                                    *)
LEMMA WorkerStepThreads ==
    ASSUME TypeOK, \A t \in Thread : ThreadOK(t),
           NEW c \in Collector, NEW w \in Worker, WorkerStep(c, w),
           NEW t \in Thread
    PROVE  ThreadOK(t)'
<1> USE DEF TypeOK, WorkTypes
<1>a. <<c, w>> \in Thread /\ <<c, w>>[1] = c
  BY DEF Thread
<1>0. ThreadOK(t)
  OBVIOUS
<1>1. CASE WorkerTake(c, w)
  <2>1. UNCHANGED <<active, cancelled>>
    BY <1>1 DEF WorkerTake
  <2>2. CASE t # <<c, w>>
    <3>1. job'[t] = job[t] /\ wpc'[t] = wpc[t]
      BY <1>1, <1>a, <2>2 DEF WorkerTake
    <3> QED BY <1>0, <2>1, <3>1, ThreadUntouched
  <2>3. CASE t = <<c, w>>
    <3> DEFINE j == [sched |-> Head(queue[c]).sched,
                     slot |-> Head(queue[c]).slot, run |-> 0]
    <3>1. wpc[t] = "idle"
      BY <1>1, <2>3 DEF WorkerTake
    <3>2. job[t] = NoJob /\ t \notin active /\ t \notin cancelled
      BY <1>0, <3>1 DEF ThreadOK, Working
    <3>3. \/ wpc'[t] \in {"exited", "waiting"} /\ job'[t] = job[t]
          \/ wpc'[t] = "insert" /\ job'[t] = j /\ queue[c] # << >>
      BY <1>1, <1>a, <2>3 DEF WorkerTake
    <3>4. queue[c] # << >> => j # NoJob
      <4> SUFFICES ASSUME queue[c] # << >> PROVE j # NoJob
        OBVIOUS
      <4>1. Head(queue[c]) \in Slot
        BY HeadTailProperties DEF QueueTypes
      <4>2. j \in Job
        BY <4>1 DEF Slot, Job
      <4> HIDE DEF j
      <4> QED BY <4>2, SchedulerAssumption DEF Job
    <3> HIDE DEF j
    <3> QED BY <2>1, <3>2, <3>3, <3>4 DEF ThreadOK, Working
  <2> QED BY <2>2, <2>3
<1>2. CASE InsertRun(c, w)
  <2>1. UNCHANGED <<active, cancelled>>
    BY <1>2 DEF InsertRun
  <2>2. CASE t # <<c, w>>
    <3>1. job'[t] = job[t] /\ wpc'[t] = wpc[t]
      BY <1>2, <1>a, <2>2 DEF InsertRun
    <3> QED BY <1>0, <2>1, <3>1, ThreadUntouched
  <2>3. CASE t = <<c, w>>
    <3>1. wpc[t] = "insert" /\ wpc'[t] \in {"prepare", "done"}
      BY <1>2, <1>a, <2>3 DEF InsertRun
    <3>2. job[t] # NoJob /\ job[t] \in Job /\ t \notin active /\ t \notin cancelled
      BY <1>0, <3>1 DEF ThreadOK, Working
    <3>3. job'[t] = job[t] \/ job'[t] = [job[t] EXCEPT !.run = Len(runs) + 1]
      BY <1>2, <1>a, <2>3 DEF InsertRun
    <3>4. Len(runs) + 1 \in Nat
      BY LenProperties
    <3>5. [job[t] EXCEPT !.run = Len(runs) + 1] \in Job
      BY <3>2, <3>4 DEF Job
    <3>6. job'[t] # NoJob
      BY <3>2, <3>3, <3>5, SchedulerAssumption DEF Job
    <3> QED BY <2>1, <3>1, <3>2, <3>6 DEF ThreadOK, Working
  <2> QED BY <2>2, <2>3
<1>3. CASE SkipRun(c, w) \/ StartRpc(c, w) \/ RpcReturns(c, w) \/ RecordResult(c, w)
  <2>1. UNCHANGED job
    BY <1>3 DEF SkipRun, StartRpc, RpcReturns, RecordResult
  <2>2. CASE t # <<c, w>>
    <3>1. wpc'[t] = wpc[t] /\ (t \in active' <=> t \in active)
            /\ (t \in cancelled' => t \in cancelled)
      BY <1>3, <1>a, <2>2 DEF SkipRun, StartRpc, RpcReturns, RecordResult
    <3> QED BY <1>0, <2>1, <3>1, ThreadUntouched
  <2>3. CASE t = <<c, w>>
    BY <1>0, <1>3, <1>a, <2>1, <2>3
       DEF SkipRun, StartRpc, RpcReturns, RecordResult, ThreadOK, Working
  <2> QED BY <2>2, <2>3
<1>4. CASE WorkerDone(c, w)
  <2> DEFINE P == {"exited", "idle", "waiting"} \cup Working
             pcs == [wpc EXCEPT ![<<c, w>>] = "idle"]
  <2>1. pcs \in [Thread -> P] /\ "idle" \in P
    BY <1>a
  <2>2. wpc' \in NotifyOne(c, pcs, loop[c] = "wait")
    BY <1>4 DEF WorkerDone
  <2>3. pcs[t] = IF t = <<c, w>> THEN "idle" ELSE wpc[t]
    BY <1>a
  <2>4. wpc'[t] = pcs[t] \/ (pcs[t] = "waiting" /\ wpc'[t] = "idle")
    <3> HIDE DEF P, pcs
    <3> QED BY <2>1, <2>2, NotifyFacts
  <2>5. UNCHANGED <<active, cancelled>> /\ job'[t] = IF t = <<c, w>> THEN NoJob ELSE job[t]
    BY <1>4, <1>a DEF WorkerDone
  <2> HIDE DEF pcs
  <2>6. CASE t # <<c, w>>
    BY <1>0, <2>3, <2>4, <2>5, <2>6, ThreadUntouched
  <2>7. CASE t = <<c, w>>
    <3>1. wpc[t] = "done"
      BY <1>4, <2>7 DEF WorkerDone
    <3>2. wpc'[t] = "idle" /\ job'[t] = NoJob
      BY <2>3, <2>4, <2>5, <2>7
    <3> QED BY <1>0, <2>5, <3>1, <3>2 DEF ThreadOK, Working
  <2> QED BY <2>6, <2>7
<1> QED BY <1>1, <1>2, <1>3, <1>4 DEF WorkerStep

(* Every step keeps the workers' part of the invariant.                    *)
LEMMA WorkInvStep == IInv /\ [Next]_vars => WorkInv'
<1> SUFFICES ASSUME IInv, [Next]_vars PROVE WorkInv'
  OBVIOUS
<1>0. TypeOK /\ WorkInv /\ TypeOK'
  BY TypeStep DEF IInv
<1>1. \A t \in Thread : ThreadOK(t)
  BY <1>0 DEF WorkInv, ThreadOK
<1>2. \A e \in Collector : DownOK(e)'
  BY <1>0, DownStep
<1>3. ASSUME NEW t \in Thread PROVE ThreadOK(t)'
  <2>0. ThreadOK(t)
    BY <1>1
  <2>1. CASE UNCHANGED workVars
    BY <2>0, <2>1, ThreadUntouched DEF workVars
  <2>2. ASSUME NEW c \in Collector, Start(c)
        PROVE  ThreadOK(t)'
    <3>1. UNCHANGED <<job, active, cancelled>>
      BY <2>2 DEF Start
    <3>2. wpc'[t] = IF t[1] = c THEN "idle" ELSE wpc[t]
      BY <2>2 DEF Start
    <3>3. t[1] = c => wpc[t] = "exited"
      <4>1. PICK x \in Collector, w \in Worker : t = <<x, w>>
        BY DEF Thread
      <4> QED BY <1>0, <2>2, <4>1 DEF Start, WorkInv, DownOK
    <3> QED BY <2>0, <3>1, <3>2, <3>3, ThreadUntouched
  <2>3. ASSUME NEW c \in Collector, StopSignal(c)
        PROVE  ThreadOK(t)'
    <3>1. UNCHANGED <<job, active, cancelled>>
      BY <2>3 DEF StopSignal
    <3>2. wpc'[t] = IF t[1] = c /\ wpc[t] = "waiting" THEN "idle" ELSE wpc[t]
      BY <2>3 DEF StopSignal
    <3> QED BY <2>0, <3>1, <3>2, ThreadUntouched
  <2>4. ASSUME NEW c \in Collector, StopCancel(c)
        PROVE  ThreadOK(t)'
    BY <2>0, <2>4 DEF StopCancel, ThreadOK
  <2>5. ASSUME NEW c \in Collector, Gone(c)
        PROVE  ThreadOK(t)'
    <3>1. CASE t[1] = c
      <4>1. wpc'[t] = "exited" /\ job'[t] = NoJob /\ t \notin active' /\ t \notin cancelled'
        BY <2>5, <3>1 DEF Gone
      <4> QED BY <4>1 DEF ThreadOK, Working
    <3>2. CASE t[1] # c
      <4>1. wpc'[t] = wpc[t] /\ job'[t] = job[t] /\ (t \in active' <=> t \in active)
              /\ (t \in cancelled' => t \in cancelled)
        BY <2>5, <3>2 DEF Gone
      <4> QED BY <2>0, <4>1, ThreadUntouched
    <3> QED BY <3>1, <3>2
  <2>6. ASSUME NEW c \in Collector, LoopStep(c)
        PROVE  ThreadOK(t)'
    <3>1. CASE Enqueue(c)
      <4>1. UNCHANGED <<job, active, cancelled>>
        BY <3>1 DEF Enqueue
      <4>2. wpc'[t] = wpc[t] \/ (wpc[t] = "waiting" /\ wpc'[t] = "idle")
        BY <1>0, <3>1, EnqueueWakes
      <4> QED BY <2>0, <4>1, <4>2, ThreadUntouched
    <3>2. CASE ~Enqueue(c)
      BY <2>1, <2>6, <3>2 DEF LoopStep, LoopExit, Tick, Reschedule, ListDue, ClaimWon, ClaimLost, TickDone
    <3> QED BY <3>1, <3>2
  <2>7. ASSUME NEW c \in Collector, NEW w \in Worker, WorkerStep(c, w)
        PROVE  ThreadOK(t)'
    BY <1>0, <1>1, <2>7, WorkerStepThreads
  <2>8. CASE AdvanceTime \/ UNCHANGED vars
    BY <2>1, <2>8 DEF AdvanceTime, vars
  <2>9. ASSUME NEW s \in Schedule,
               CreateSchedule(s) \/ EnableSchedule(s) \/ DeleteSchedule(s)
        PROVE  ThreadOK(t)'
    BY <2>1, <2>9 DEF CreateSchedule, EnableSchedule, DeleteSchedule, editVars
  <2> QED BY <2>2, <2>3, <2>4, <2>5, <2>6, <2>7, <2>8, <2>9
          DEF Next, StopStep, Crash, StopJoin
<1>4. active' \subseteq Thread /\ cancelled' \subseteq Thread
  BY <1>0 DEF TypeOK, WorkTypes
<1>5. \A t \in Thread : /\ (job'[t] # NoJob) <=> (wpc'[t] \in Working)
                        /\ t \in active' <=> wpc'[t] = "rpc"
                        /\ t \in cancelled' => t \in active'
  BY <1>3 DEF ThreadOK
<1>6. active' = {t \in Thread : wpc'[t] = "rpc"} /\ cancelled' \subseteq active'
  BY <1>4, <1>5
<1> QED BY <1>2, <1>5, <1>6 DEF WorkInv

-----------------------------------------------------------------------------
(* The busy set.                                                           *)

(* A step that leaves the queue, the busy set and the runs of a collector  *)
(* alone, but for the row a run is recorded in, keeps its part.            *)
LEMMA BusyUntouched ==
    ASSUME NEW e \in Collector, Apart(e), Covers(e),
           queue'[e] = queue[e], busy'[e] = busy[e],
           \A w \in Worker : /\ (job'[<<e, w>>] = NoJob) <=> (job[<<e, w>>] = NoJob)
                             /\ job'[<<e, w>>].sched = job[<<e, w>>].sched
    PROVE  Apart(e)' /\ Covers(e)'
<1>1. Queued(e)' = Queued(e) /\ InFlight(e)' = InFlight(e)
  BY DEF Queued, InFlight
<1>2. \A i : QAgent(e, i)' = QAgent(e, i)
  BY DEF QAgent
<1>3. \A w \in Worker : WAgent(e, w)' = WAgent(e, w)
  BY DEF WAgent
<1>4. InFlight(e) \subseteq Worker
  BY DEF InFlight
<1> QED BY <1>1, <1>2, <1>3, <1>4 DEF Apart, Covers

(* A free agent's run joins the queue.                                     *)
LEMMA EnqueueBusy ==
    ASSUME TypeOK, LoopInv, NEW c \in Collector, Apart(c), Covers(c),
           Enqueue(c), EnqueueRun(c)
    PROVE  Apart(c)' /\ Covers(c)'
<1> DEFINE q == queue[c]
           a == AgentOf[cur[c].sched]
<1>0. PICK n \in Nat : n = Len(q)
  BY LenProperties DEF TypeOK, QueueTypes
<1>1. cur[c] \in Slot /\ q \in Seq(Slot)
  BY DEF Enqueue, LoopInv, LoopOK, TypeOK, QueueTypes
<1>2. queue'[c] = Append(q, cur[c]) /\ busy'[c] = busy[c] \cup {a} /\ a \notin busy[c]
  BY DEF EnqueueRun, Dispatch, TypeOK, QueueTypes
<1>3. UNCHANGED job
  BY DEF Enqueue
<1>4. Queued(c) = 1 .. n /\ Queued(c)' = 1 .. n + 1
  BY <1>0, <1>1, <1>2, AppendProperties, LenProperties DEF Queued
<1>5. \A i \in 1 .. n : QAgent(c, i)' = QAgent(c, i)
  BY <1>0, <1>1, <1>2, AppendProperties DEF QAgent
<1>6. QAgent(c, n + 1)' = a
  BY <1>0, <1>1, <1>2, AppendProperties DEF QAgent
<1>7. InFlight(c)' = InFlight(c) /\ \A w : WAgent(c, w)' = WAgent(c, w)
  BY <1>3 DEF InFlight, WAgent
<1>8. \A i \in 1 .. n + 1 : i \in 1 .. n \/ i = n + 1
  OBVIOUS
<1> HIDE DEF a, q
<1>9. Covers(c)'
  <2>1. n + 1 \in 1 .. n + 1 /\ 1 .. n \subseteq 1 .. n + 1
    OBVIOUS
  <2> QED BY <1>2, <1>4, <1>5, <1>6, <1>7, <1>8, <2>1 DEF Covers
<1>10. Apart(c)'
  <2>1. \A i \in 1 .. n : QAgent(c, i) # a
    BY <1>2, <1>4 DEF Covers
  <2>2. \A w \in InFlight(c) : WAgent(c, w) # a
    BY <1>2 DEF Covers
  <2> QED BY <1>4, <1>5, <1>6, <1>7, <1>8, <2>1, <2>2 DEF Apart
<1> QED BY <1>9, <1>10

(* A worker takes the front of the queue: its agent stays busy.            *)
LEMMA TakeBusy ==
    ASSUME TypeOK, WorkInv, NEW c \in Collector, NEW w \in Worker,
           Apart(c), Covers(c), Running(c), WorkerTake(c, w)
    PROVE  Apart(c)' /\ Covers(c)'
<1> DEFINE q == queue[c]
           n == Len(q)
<1>a. <<c, w>> \in Thread
  BY DEF Thread
<1>1. job[<<c, w>>] = NoJob
  BY <1>a DEF WorkerTake, WorkInv, Working
<1>2. UNCHANGED busy /\ ~Stopped(c)
  BY DEF WorkerTake, Running, Stopped
<1>3. CASE q = << >>
  <2>1. UNCHANGED <<queue, job>>
    BY <1>2, <1>3 DEF WorkerTake
  <2> QED BY <1>2, <2>1, BusyUntouched
<1>4. CASE q # << >>
  <2> DEFINE j == [sched |-> Head(q).sched, slot |-> Head(q).slot, run |-> 0]
  <2>1. queue'[c] = Tail(q) /\ job' = [job EXCEPT ![<<c, w>>] = j]
    BY <1>2, <1>4 DEF WorkerTake, TypeOK, QueueTypes
  <2>2. q \in Seq(Slot) /\ n \in Nat \ {0}
    <3>1. q \in Seq(Slot)
      BY DEF TypeOK, QueueTypes
    <3> QED BY <1>4, <3>1, EmptySeq, LenProperties
  <2>3. /\ Head(q) = q[1] /\ q[1] \in Slot /\ Len(Tail(q)) = n - 1
        /\ Tail(q) \in Seq(Slot)
        /\ \A i \in 1 .. n - 1 : Tail(q)[i] = q[i + 1]
    BY <1>4, <2>2, HeadTailProperties
  <2>4. j \in Job /\ j # NoJob /\ j.sched = q[1].sched
    <3>1. j \in Job /\ j.sched = q[1].sched
      BY <2>3 DEF Slot, Job
    <3> HIDE DEF j
    <3> QED BY <3>1, SchedulerAssumption DEF Job
  <2> HIDE DEF j
  <2>5. job'[<<c, w>>] = j /\ \A v \in Worker : v # w => job'[<<c, v>>] = job[<<c, v>>]
    BY <1>a, <2>1 DEF TypeOK, WorkTypes, Thread
  <2>6. Queued(c) = 1 .. n /\ Queued(c)' = 1 .. n - 1
    BY <2>1, <2>2, <2>3, LenProperties DEF Queued
  <2>7. \A i \in 1 .. n - 1 : QAgent(c, i)' = QAgent(c, i + 1) /\ i + 1 \in 1 .. n
    BY <2>1, <2>2, <2>3 DEF QAgent
  <2>8. InFlight(c)' = InFlight(c) \cup {w} /\ w \notin InFlight(c)
    BY <1>1, <2>4, <2>5 DEF InFlight
  <2>9. WAgent(c, w)' = QAgent(c, 1) /\ 1 \in 1 .. n
    BY <2>2, <2>4, <2>5 DEF WAgent, QAgent
  <2>10. \A v \in InFlight(c) : v # w /\ WAgent(c, v)' = WAgent(c, v)
    BY <2>5, <2>8 DEF WAgent, InFlight
  <2> HIDE DEF q, n
  <2>11. \A i \in 1 .. n : i = 1 \/ \E k \in 1 .. n - 1 : i = k + 1
    <3> SUFFICES ASSUME NEW i \in 1 .. n, i # 1
                 PROVE  \E k \in 1 .. n - 1 : i = k + 1
      OBVIOUS
    <3>1. i - 1 \in 1 .. n - 1 /\ i = (i - 1) + 1
      BY <2>2
    <3> QED BY <3>1
  <2>12. Apart(c)'
    <3>1. ASSUME NEW i \in 1 .. n - 1, NEW k \in 1 .. n - 1, QAgent(c, i)' = QAgent(c, k)'
          PROVE  i = k
      <4>1. i + 1 = k + 1
        BY <2>6, <2>7, <3>1 DEF Apart
      <4> QED BY <2>2, <4>1
    <3>2. ASSUME NEW i \in 1 .. n - 1 PROVE i + 1 # 1
      BY <2>2
    <3>3. ASSUME NEW i \in 1 .. n - 1, NEW v \in InFlight(c)'
          PROVE  QAgent(c, i)' # WAgent(c, v)'
      BY <2>6, <2>7, <2>8, <2>9, <2>10, <3>2, <3>3 DEF Apart
    <3>4. ASSUME NEW u \in InFlight(c)', NEW v \in InFlight(c)', WAgent(c, u)' = WAgent(c, v)'
          PROVE  u = v
      BY <2>6, <2>8, <2>9, <2>10, <3>4 DEF Apart
    <3> QED BY <2>6, <3>1, <3>3, <3>4 DEF Apart
  <2>13. Covers(c)'
    <3>1. \A i \in Queued(c)' : QAgent(c, i)' \in busy'[c]
      BY <1>2, <2>6, <2>7 DEF Covers
    <3>2. \A v \in InFlight(c)' : WAgent(c, v)' \in busy'[c]
      BY <1>2, <2>6, <2>8, <2>9, <2>10 DEF Covers
    <3>3. ASSUME NEW a \in busy'[c]
          PROVE  \/ \E i \in Queued(c)' : QAgent(c, i)' = a
                 \/ \E v \in InFlight(c)' : WAgent(c, v)' = a
      <4>1. CASE \E v \in InFlight(c) : WAgent(c, v) = a
        BY <2>8, <2>10, <4>1
      <4>2. CASE \E i \in 1 .. n : QAgent(c, i) = a
        BY <2>6, <2>7, <2>8, <2>9, <2>11, <4>2
      <4> QED BY <1>2, <2>6, <4>1, <4>2 DEF Covers
    <3> QED BY <3>1, <3>2, <3>3 DEF Covers
  <2> QED BY <2>12, <2>13
<1> QED BY <1>3, <1>4

(* A run ends: its agent, which no other run has, is free again.           *)
LEMMA DoneBusy ==
    ASSUME TypeOK, WorkInv, NEW c \in Collector, NEW w \in Worker,
           Apart(c), Covers(c), WorkerDone(c, w)
    PROVE  Apart(c)' /\ Covers(c)'
<1>a. <<c, w>> \in Thread
  BY DEF Thread
<1>1. job[<<c, w>>] # NoJob
  BY <1>a DEF WorkerDone, WorkInv, Working
<1>2. UNCHANGED queue /\ busy'[c] = busy[c] \ {WAgent(c, w)}
  BY DEF WorkerDone, WAgent, TypeOK, QueueTypes
<1>3. job'[<<c, w>>] = NoJob /\ \A v \in Worker : v # w => job'[<<c, v>>] = job[<<c, v>>]
  BY <1>a DEF WorkerDone, TypeOK, WorkTypes, Thread
<1>4. Queued(c)' = Queued(c) /\ \A i : QAgent(c, i)' = QAgent(c, i)
  BY <1>2 DEF Queued, QAgent
<1>5. InFlight(c)' = InFlight(c) \ {w} /\ w \in InFlight(c)
  BY <1>1, <1>3 DEF InFlight
<1>6. \A v \in InFlight(c)' : WAgent(c, v)' = WAgent(c, v)
  BY <1>3, <1>5 DEF WAgent, InFlight
<1>7. Apart(c)'
  BY <1>4, <1>5, <1>6 DEF Apart
<1>8. \A i \in Queued(c) : QAgent(c, i) # WAgent(c, w)
  BY <1>5 DEF Apart
<1>9. \A v \in InFlight(c)' : WAgent(c, v) # WAgent(c, w)
  BY <1>5 DEF Apart
<1>10. Covers(c)'
  BY <1>2, <1>4, <1>5, <1>6, <1>8, <1>9 DEF Covers
<1> QED BY <1>7, <1>10

(* Every step keeps the busy set exact.                                    *)
LEMMA BusyInvStep == IInv /\ [Next]_vars => BusyInv'
<1> SUFFICES ASSUME TypeOK, LoopInv, WorkInv, BusyInv, [Next]_vars,
                    NEW e \in Collector, Running(e)'
             PROVE  Apart(e)' /\ Covers(e)'
  BY DEF IInv, BusyInv
<1>a. ASSUME NEW w \in Worker PROVE <<e, w>> \in Thread /\ <<e, w>>[1] = e
  BY DEF Thread
<1> USE DEF TypeOK, LoopTypes, QueueTypes, WorkTypes
<1>1. CASE phase'[e] = phase[e] /\ queue'[e] = queue[e] /\ busy'[e] = busy[e]
           /\ \A w \in Worker : job'[<<e, w>>] = job[<<e, w>>]
  <2>1. Apart(e) /\ Covers(e)
    BY <1>1 DEF BusyInv, Running
  <2> HIDE DEF TypeOK
  <2> QED BY <1>1, <2>1, BusyUntouched
<1>2. ASSUME NEW c \in Collector, Start(c)
      PROVE  Apart(e)' /\ Covers(e)'
  <2>1. CASE e # c
    BY <1>1, <1>2, <2>1 DEF Start
  <2>2. CASE e = c
    <3>1. phase[e] = "down"
      BY <1>2, <2>2 DEF Start
    <3>2. queue[e] = << >> /\ busy[e] = {} /\ \A w \in Worker : wpc[<<e, w>>] = "exited"
      BY <3>1 DEF WorkInv, DownOK
    <3>3. UNCHANGED <<queue, busy, job>>
      BY <1>2 DEF Start
    <3>4. \A w \in Worker : job'[<<e, w>>] = NoJob
      BY <1>a, <3>2, <3>3 DEF WorkInv, Working
    <3>5. Queued(e)' = {} /\ InFlight(e)' = {} /\ busy'[e] = {}
      BY <3>2, <3>3, <3>4 DEF Queued, InFlight
    <3> QED BY <3>5 DEF Apart, Covers
  <2> QED BY <2>1, <2>2
<1>3. ASSUME NEW c \in Collector, StopSignal(c) \/ StopCancel(c)
      PROVE  Apart(e)' /\ Covers(e)'
  <2>1. e # c
    BY <1>3 DEF StopSignal, StopCancel, Running
  <2> QED BY <1>1, <1>3, <2>1 DEF StopSignal, StopCancel
<1>4. ASSUME NEW c \in Collector, Gone(c)
      PROVE  Apart(e)' /\ Covers(e)'
  <2>1. e # c
    BY <1>4 DEF Gone, Running
  <2>2. phase'[e] = phase[e] /\ queue'[e] = queue[e] /\ busy'[e] = busy[e]
    BY <1>4, <2>1 DEF Gone
  <2>3. \A w \in Worker : job'[<<e, w>>] = job[<<e, w>>]
    BY <1>4, <1>a, <2>1 DEF Gone
  <2> QED BY <1>1, <2>2, <2>3
<1>5. ASSUME NEW c \in Collector, LoopStep(c)
      PROVE  Apart(e)' /\ Covers(e)'
  <2>0. UNCHANGED <<phase, job>>
    BY <1>5 DEF LoopStep, LoopExit, Tick, Reschedule, ListDue, ClaimWon,
                ClaimLost, TickDone, Enqueue, workVars
  <2>1. CASE Enqueue(c) /\ EnqueueRun(c) /\ e = c
    <3>1. Apart(c) /\ Covers(c)
      BY <2>1 DEF BusyInv, EnqueueRun
    <3> HIDE DEF TypeOK
    <3> QED BY <2>1, <3>1, EnqueueBusy
  <2>2. CASE Enqueue(c) /\ (e # c \/ ~EnqueueRun(c))
    <3>1. queue'[e] = queue[e] /\ busy'[e] = busy[e]
      BY <2>2 DEF Enqueue, EnqueueStopped, EnqueueSkip, EnqueueRun, Dispatch
    <3> QED BY <1>1, <2>0, <3>1
  <2>3. CASE ~Enqueue(c)
    <3>1. UNCHANGED <<queue, busy>>
      BY <1>5, <2>3 DEF LoopStep, LoopExit, Tick, Reschedule, ListDue, ClaimWon,
                        ClaimLost, TickDone
    <3> QED BY <1>1, <2>0, <3>1
  <2> QED BY <2>1, <2>2, <2>3
<1>6. ASSUME NEW c \in Collector, NEW w \in Worker, WorkerStep(c, w)
      PROVE  Apart(e)' /\ Covers(e)'
  <2>0. UNCHANGED phase
    BY <1>6 DEF WorkerStep, WorkerTake, InsertRun, SkipRun, StartRpc,
                RpcReturns, RecordResult, WorkerDone
  <2>1. Running(e) /\ Apart(e) /\ Covers(e)
    BY <2>0 DEF BusyInv, Running
  <2>2. CASE e # c
    <3>1. queue'[e] = queue[e] /\ busy'[e] = busy[e]
      BY <1>6, <2>2 DEF WorkerStep, WorkerTake, InsertRun, SkipRun, StartRpc,
                        RpcReturns, RecordResult, WorkerDone
    <3>2. \A v \in Worker : <<e, v>> # <<c, w>>
      BY <2>2
    <3>3. \A v \in Worker : job'[<<e, v>>] = job[<<e, v>>]
      BY <1>6, <1>a, <3>2 DEF WorkerStep, WorkerTake, InsertRun, SkipRun, StartRpc,
                        RpcReturns, RecordResult, WorkerDone
    <3> QED BY <1>1, <2>0, <3>1, <3>3
  <2>3. CASE e = c /\ WorkerTake(c, w)
    <3> HIDE DEF TypeOK
    <3> QED BY <2>1, <2>3, TakeBusy
  <2>4. CASE e = c /\ WorkerDone(c, w)
    <3> HIDE DEF TypeOK
    <3> QED BY <2>1, <2>4, DoneBusy
  <2>5. CASE e = c /\ InsertRun(c, w)
    <3>1. UNCHANGED <<queue, busy>>
      BY <2>5 DEF InsertRun
    <3>2. job[<<c, w>>] # NoJob /\ job[<<c, w>>] \in Job
      BY <1>a, <2>5 DEF InsertRun, WorkInv, Working
    <3> DEFINE j == [job[<<c, w>>] EXCEPT !.run = Len(runs) + 1]
    <3>3. job' = job \/ job' = [job EXCEPT ![<<c, w>>] = j]
      BY <2>5 DEF InsertRun
    <3>4. j \in Job /\ j.sched = job[<<c, w>>].sched
      <4>1. Len(runs) + 1 \in Nat
        BY LenProperties
      <4> QED BY <3>2, <4>1 DEF Job
    <3> HIDE DEF j
    <3>5. j # NoJob
      BY <3>4, SchedulerAssumption DEF Job
    <3>6. \A v \in Worker : /\ (job'[<<e, v>>] = NoJob) <=> (job[<<e, v>>] = NoJob)
                            /\ job'[<<e, v>>].sched = job[<<e, v>>].sched
      <4> SUFFICES ASSUME NEW v \in Worker
                   PROVE  /\ (job'[<<e, v>>] = NoJob) <=> (job[<<e, v>>] = NoJob)
                          /\ job'[<<e, v>>].sched = job[<<e, v>>].sched
        OBVIOUS
      <4>1. CASE job'[<<e, v>>] = job[<<e, v>>]
        BY <4>1
      <4>2. CASE v = w /\ job'[<<e, v>>] = j
        BY <2>5, <3>2, <3>4, <3>5, <4>2
      <4> QED BY <1>a, <2>5, <3>3, <4>1, <4>2
    <3> HIDE DEF TypeOK
    <3> QED BY <2>1, <3>1, <3>6, BusyUntouched
  <2>6. CASE SkipRun(c, w) \/ StartRpc(c, w) \/ RpcReturns(c, w) \/ RecordResult(c, w)
    BY <1>1, <2>0, <2>6 DEF SkipRun, StartRpc, RpcReturns, RecordResult
  <2> QED BY <1>6, <2>2, <2>3, <2>4, <2>5, <2>6 DEF WorkerStep
<1>7. CASE AdvanceTime \/ UNCHANGED vars
  BY <1>1, <1>7 DEF AdvanceTime, vars, workVars
<1>8. ASSUME NEW s \in Schedule,
             CreateSchedule(s) \/ EnableSchedule(s) \/ DeleteSchedule(s)
      PROVE  Apart(e)' /\ Covers(e)'
  BY <1>1, <1>8 DEF CreateSchedule, EnableSchedule, DeleteSchedule, editVars, workVars
<1> HIDE DEF TypeOK
<1> QED BY <1>2, <1>3, <1>4, <1>5, <1>6, <1>7, <1>8
        DEF Next, StopStep, Crash, StopJoin

-----------------------------------------------------------------------------
(* The theorems.                                                           *)

(* The tables are empty and every collector is down.                       *)
LEMMA InitInv == Init => IInv
<1> SUFFICES ASSUME Init PROVE IInv
  OBVIOUS
<1> USE DEF Init
<1>1. TypeOK
  <2>1. DbTypes /\ LoopTypes /\ HistTypes
    BY DEF DbTypes, LoopTypes, HistTypes
  <2>2. QueueTypes
    BY EmptySeq DEF QueueTypes
  <2>3. WorkTypes
    BY EmptySeq DEF WorkTypes
  <2> QED BY <2>1, <2>2, <2>3 DEF TypeOK
<1>2. LoopInv
  BY DEF LoopInv, LoopOK
<1>3. ClaimInv
  BY DEF ClaimInv, Claimed, Holds
<1>4. WorkInv
  <2>1. \A c \in Collector, w \in Worker : <<c, w>> \in Thread
    BY DEF Thread
  <2>2. \A c \in Collector : DownOK(c)
    BY <2>1 DEF DownOK
  <2> QED BY <2>2 DEF WorkInv, Working
<1>5. BusyInv
  BY DEF BusyInv, Running
<1> QED BY <1>1, <1>2, <1>3, <1>4, <1>5 DEF IInv

(* The types, the loops, the claims, the workers and the busy sets         *)
(* together are an invariant of the scheduler.                             *)
THEOREM SchedulerInvariant == Spec => []IInv
<1>1. IInv /\ [Next]_vars => IInv'
  BY TypeStep, LoopInvStep, ClaimInvStep, WorkInvStep, BusyInvStep DEF IInv
<1> QED BY <1>1, InitInv, PTL DEF Spec

(* A slot claimed at its time or later is dispatched once, however many    *)
(* collectors share the table and however far their clocks are apart.      *)
THEOREM ClaimGuardHolds == Spec => []ClaimGuard
<1>1. IInv => ClaimGuard
  BY DEF IInv, TypeOK, HistTypes, ClaimInv, ClaimGuard
<1> QED BY <1>1, SchedulerInvariant, PTL

(* A family of distinct things has as many of them as it has indices.      *)
LEMMA DistinctCount ==
    ASSUME NEW S, IsFiniteSet(S), NEW f, f \in [S -> {f[x] : x \in S}],
           \A x, y \in S : f[x] = f[y] => x = y
    PROVE  /\ IsFiniteSet({f[x] : x \in S})
           /\ Cardinality({f[x] : x \in S}) = Cardinality(S)
<1> DEFINE T == {f[x] : x \in S}
<1>1. f \in Bijection(S, T)
  <2>1. f \in Injection(S, T)
    BY DEF Injection, IsInjective
  <2>2. f \in Surjection(S, T)
    BY DEF Surjection
  <2> QED BY <2>1, <2>2 DEF Bijection
<1>2. ExistsBijection(S, T)
  BY <1>1 DEF ExistsBijection
<1> HIDE DEF T
<1>3. IsFiniteSet(T) /\ Cardinality(T) = Cardinality(S)
  BY <1>2, FS_Bijection
<1> QED BY <1>3 DEF T

-----------------------------------------------------------------------------
(* No bursts.                                                              *)

Ticking(c) == loop[c] \in {"reschedule", "list", "claim", "enqueue"}
OffGrid(d) == ~OnGrid(d.sched, d.slot)

(* What a process has claimed: slots of its life time, the schedules of    *)
(* which are on their grid from then on; so one of each may be off it. The *)
(* clock reading of a tick is of its life time, too.                       *)
BurstOK(c) ==
    /\ since[c] \in Nat /\ (since[c] = 0 \/ since[c] + Slack <= clock)
    /\ claims[c] \subseteq Slot /\ IsFiniteSet(claims[c])
    /\ phase[c] = "down" => claims[c] = {}
    /\ Ticking(c) => /\ since[c] = 0 \/ since[c] + Tolerance <= now[c]
                     /\ now[c] <= clock + Skew
    /\ \A d \in claims[c] :
         /\ d.slot \in since[c] .. clock + Slack
         /\ status[d.sched] # "none" /\ OnGrid(d.sched, nextRun[d.sched])
    /\ \A d, e \in claims[c] : d.sched = e.sched /\ OffGrid(d) /\ OffGrid(e) => d = e

BurstInv ==
    /\ DOMAIN since = Collector /\ DOMAIN claims = Collector
    /\ \A c \in Collector : BurstOK(c)

(* A set of numbers has a least one.                                       *)
LEMMA LeastNumber ==
    ASSUME NEW K, K \subseteq Nat, K # {} PROVE \E a \in K : \A k \in K : a <= k
<1> DEFINE R == OpToRel(<, Nat)
<1>1. IsWellFoundedOn(R, Nat)
  BY NatLessThanWellFounded
<1>2. \A x, y \in Nat : x < y => <<x, y>> \in R
  BY DEF OpToRel
<1> HIDE DEF R
<1>3. PICK a \in K : \A k \in K : ~(<<k, a>> \in R)
  BY <1>1, WFMin
<1>4. \A k \in K : ~(k < a)
  BY <1>2, <1>3
<1> QED BY <1>4

(* Multiples of n in a stretch of length m are at most m / n apart.        *)
LEMMA Spread ==
    ASSUME NEW n \in Nat \ {0}, NEW m \in Nat, NEW a \in Nat, NEW k \in Nat,
           n * k <= n * a + m, a <= k
    PROVE  k \in a .. a + (m \div n)
<1> DEFINE j == k - a
           q == m \div n
<1>1. j \in Nat /\ k = a + j
  OBVIOUS
<1>2. q \in Nat /\ m < n * q + n
  BY DivFacts
<1> HIDE DEF j, q
<1>3. n * (a + j) = n * a + n * j
  BY <1>1
<1>4. n * j <= m
  <2>1. n * a \in Nat /\ n * j \in Nat
    BY <1>1
  <2> QED BY <1>1, <1>3, <2>1
<1>5. j <= q
  <2> SUFFICES ASSUME q + 1 <= j PROVE FALSE
    BY <1>1, <1>2
  <2>1. n * (q + 1) <= n * j
    BY <1>1, <1>2
  <2>2. n * (q + 1) = n * q + n
    BY <1>2
  <2>3. n * j \in Nat /\ n * q \in Nat
    BY <1>1, <1>2
  <2> QED BY <1>2, <1>4, <2>1, <2>2, <2>3
<1>6. k \in a .. a + q
  BY <1>1, <1>2, <1>5
<1> QED BY <1>6 DEF q

(* So many slots of the grid need so many intervals but one.               *)
LEMMA GridCount ==
    ASSUME NEW s \in Schedule, NEW lo \in Nat, NEW hi \in Nat, lo <= hi,
           NEW D, D \subseteq Slot, IsFiniteSet(D), D # {},
           \A d \in D : d.sched = s /\ OnGrid(s, d.slot) /\ d.slot \in lo .. hi
    PROVE  (Cardinality(D) - 1) * Interval[s] <= hi - lo
<1> DEFINE n == Interval[s]
           w == WindowStart[s]
           f == [d \in D |-> CHOOSE k \in Nat : d.slot - w = n * k]
           K == {f[d] : d \in D}
           q == (hi - lo) \div n
<1>1. n \in Nat \ {0} /\ w \in Nat /\ hi - lo \in Nat
  BY SchedulerAssumption
<1>2. ASSUME NEW d \in D
      PROVE  f[d] \in Nat /\ d.slot - w = n * f[d] /\ d.slot \in Nat
  <2>1. d.slot \in Nat /\ OnGrid(s, d.slot)
    BY DEF Slot
  <2>2. \E k \in Nat : d.slot - w = n * k
    BY <2>1, GridFacts
  <2> HIDE DEF n, w
  <2> QED BY <2>1, <2>2
<1>3. \A d, e \in D : f[d] = f[e] => d = e
  <2> SUFFICES ASSUME NEW d \in D, NEW e \in D, f[d] = f[e] PROVE d = e
    OBVIOUS
  <2>1. d.slot - w = e.slot - w /\ d.slot \in Nat /\ e.slot \in Nat
    BY <1>2
  <2>2. d.slot = e.slot /\ d.sched = e.sched
    <3> HIDE DEF w
    <3> QED BY <1>1, <2>1
  <2> QED BY <2>2 DEF Slot
<1>4. f \in [D -> K]
  OBVIOUS
<1>5. IsFiniteSet(K) /\ Cardinality(K) = Cardinality(D)
  <2> HIDE DEF f
  <2> QED BY <1>3, <1>4, DistinctCount
<1>6. K \subseteq Nat /\ K # {}
  BY <1>2
<1>7. PICK a \in K : \A k \in K : a <= k
  <2> HIDE DEF K
  <2> QED BY <1>6, LeastNumber
<1>8. q \in Nat /\ n * q <= hi - lo
  <2> HIDE DEF n
  <2> QED BY <1>1, DivFacts
<1>9. K \subseteq a .. a + q
  <2> SUFFICES ASSUME NEW d \in D PROVE f[d] \in a .. a + q
    OBVIOUS
  <2>1. PICK e \in D : f[e] = a
    BY <1>7
  <2>2. /\ d.slot - w = n * f[d] /\ e.slot - w = n * a
        /\ d.slot <= hi /\ lo <= e.slot /\ d.slot \in Nat /\ e.slot \in Nat
        /\ f[d] \in Nat /\ a \in Nat /\ a <= f[d]
    BY <1>2, <1>6, <1>7, <2>1
  <2> HIDE DEF n, w, f
  <2>3. n * f[d] <= n * a + (hi - lo)
    BY <1>1, <2>2
  <2> QED BY <1>1, <2>2, <2>3, Spread
<1>10. Cardinality(K) <= q + 1 /\ Cardinality(K) \in Nat
  <2>1. a \in Int /\ a + q \in Int /\ ~(a > a + q)
    BY <1>6, <1>8
  <2>2. IsFiniteSet(a .. a + q) /\ Cardinality(a .. a + q) = (a + q) - a + 1
    BY <2>1, FS_Interval
  <2> HIDE DEF K, q
  <2>3. Cardinality(K) <= Cardinality(a .. a + q)
    BY <1>9, <2>2, FS_Subset
  <2> QED BY <1>5, <1>6, <1>8, <2>1, <2>2, <2>3, FS_CardinalityType
<1> HIDE DEF n, q, K
<1>11. (Cardinality(K) - 1) * n <= q * n
  BY <1>1, <1>8, <1>10
<1>12. q * n = n * q
  BY <1>1, <1>8
<1> QED BY <1>1, <1>5, <1>8, <1>10, <1>11, <1>12 DEF n

(* The invariant gives the bound on the number of claims.                  *)
LEMMA BurstBound == IInv /\ BurstInv => NoBurst
<1> SUFFICES ASSUME IInv, BurstInv, NEW c \in Collector
             PROVE  /\ \A d \in claims[c] : d.slot \in since[c] .. clock + Slack
                    /\ \A s \in Schedule :
                         (Cardinality(SlotsOf(c, s)) - 2) * Interval[s]
                           <= clock + Slack - since[c]
  BY DEF NoBurst
<1>1. BurstOK(c) /\ clock \in Nat /\ Slack \in Nat
  BY SchedulerAssumption DEF BurstInv, IInv, TypeOK, DbTypes, Slack
<1>2. since[c] \in Nat /\ since[c] <= clock + Slack /\ clock + Slack \in Nat
  BY <1>1 DEF BurstOK
<1>3. ASSUME NEW s \in Schedule
      PROVE  (Cardinality(SlotsOf(c, s)) - 2) * Interval[s] <= clock + Slack - since[c]
  <2> DEFINE S == SlotsOf(c, s)
             A == {d \in S : ~OffGrid(d)}
             B == {d \in S : OffGrid(d)}
             n == Interval[s]
             m == clock + Slack - since[c]
  <2>1. S \subseteq claims[c] /\ IsFiniteSet(S) /\ A \subseteq S /\ B \subseteq S
    <3>1. S \subseteq claims[c] /\ IsFiniteSet(claims[c])
      BY <1>1 DEF SlotsOf, BurstOK
    <3> QED BY <3>1, FS_Subset
  <2>2. IsFiniteSet(A) /\ IsFiniteSet(B) /\ S = A \cup B
    BY <2>1, FS_Subset
  <2>3. Cardinality(B) <= 1
    <3>1. CASE B = {}
      BY <3>1, FS_EmptySet
    <3>2. CASE B # {}
      <4>1. PICK d \in B : TRUE
        BY <3>2
      <4>2. \A e \in B : e = d
        BY <1>1, <2>1, <4>1 DEF BurstOK, SlotsOf
      <4>3. B = {d}
        BY <4>1, <4>2
      <4>4. Cardinality({d}) = 1
        BY FS_Singleton
      <4> QED BY <4>3, <4>4
    <3> QED BY <3>1, <3>2
  <2>4. /\ Cardinality(S) <= Cardinality(A) + Cardinality(B)
        /\ Cardinality(S) \in Nat /\ Cardinality(A) \in Nat /\ Cardinality(B) \in Nat
    <3> HIDE DEF S, A, B
    <3>1. /\ Cardinality(A \cup B) = Cardinality(A) + Cardinality(B) - Cardinality(A \cap B)
          /\ IsFiniteSet(A \cap B)
      BY <2>2, FS_Union, FS_Intersection
    <3> QED BY <2>1, <2>2, <3>1, FS_CardinalityType
  <2>5. n \in Nat \ {0} /\ m \in Nat
    BY <1>1, <1>2, SchedulerAssumption
  <2>6. CASE A = {}
    <3>1. Cardinality(S) <= 1
      BY <2>3, <2>4, <2>6, FS_EmptySet
    <3> HIDE DEF S, n, m
    <3>2. (Cardinality(S) - 2) * n <= 0
      BY <2>4, <2>5, <3>1
    <3> QED BY <2>4, <2>5, <3>2 DEF n, m, S
  <2>7. CASE A # {}
    <3>1. A \subseteq Slot /\ \A d \in A : d.sched = s /\ OnGrid(s, d.slot)
                                           /\ d.slot \in since[c] .. clock + Slack
      BY <1>1, <2>1 DEF BurstOK, SlotsOf, OffGrid
    <3>2. (Cardinality(A) - 1) * n <= (clock + Slack) - since[c]
      <4> HIDE DEF A
      <4> QED BY <1>2, <2>2, <2>7, <3>1, GridCount
    <3> HIDE DEF S, A, B, n, m
    <3>3. Cardinality(S) - 2 <= Cardinality(A) - 1
      BY <2>3, <2>4
    <3>4. (Cardinality(S) - 2) * n <= (Cardinality(A) - 1) * n
      BY <2>4, <2>5, <3>3
    <3>5. m = (clock + Slack) - since[c]
      BY <1>1, <1>2 DEF m
    <3>6. /\ (Cardinality(S) - 2) * n \in Int /\ (Cardinality(A) - 1) * n \in Int
      BY <2>4, <2>5
    <3>7. (Cardinality(S) - 2) * n <= m
      BY <2>5, <3>2, <3>4, <3>5, <3>6
    <3> QED BY <3>7 DEF n, m, S
  <2> QED BY <2>6, <2>7
<1> QED BY <1>1, <1>3 DEF BurstOK

(* A step that leaves the process alone: the clock and the schedules go    *)
(* on.                                                                     *)
LEMMA BurstKept ==
    ASSUME TypeOK, TypeOK', Onward, NEW c \in Collector, BurstOK(c),
           clock <= clock', since'[c] = since[c], claims'[c] = claims[c],
           phase'[c] = "down" => claims[c] = {},
           Ticking(c)' => /\ since[c] = 0 \/ since[c] + Tolerance <= now'[c]
                          /\ now'[c] <= clock' + Skew
    PROVE  BurstOK(c)'
<1>1. clock \in Nat /\ clock' \in Nat /\ Slack \in Nat /\ Slack' = Slack
  BY SchedulerAssumption DEF TypeOK, DbTypes, Slack
<1>2. claims[c] \subseteq Slot /\ since[c] \in Nat
  BY DEF BurstOK
<1>3. ASSUME NEW d \in claims[c]
      PROVE  /\ d.slot \in since[c] .. clock' + Slack
             /\ status'[d.sched] # "none" /\ OnGrid(d.sched, nextRun'[d.sched])
  <2>1. d.sched \in Schedule /\ d.slot \in Nat
    BY <1>2 DEF Slot
  <2>2. d.slot \in since[c] .. clock' + Slack
    BY <1>1, <1>2, <2>1 DEF BurstOK
  <2> QED BY <2>1, <2>2 DEF BurstOK, Onward
<1>4. since[c] = 0 \/ since[c] + Slack <= clock'
  BY <1>1, <1>2 DEF BurstOK
<1> QED BY <1>1, <1>2, <1>3, <1>4 DEF BurstOK, OffGrid, OnGrid

(* A claim: its slot is near the clock reading of the tick, and it is the  *)
(* schedule's only one off the grid.                                       *)
LEMMA ClaimBurst ==
    ASSUME TypeOK, LoopInv, WorkInv, TypeOK', Onward, DOMAIN claims = Collector,
           NEW c \in Collector, BurstOK(c), NEW d \in due[c], ClaimWon(c, d)
    PROVE  BurstOK(c)'
<1>1. /\ clock \in Nat /\ clock' = clock /\ Slack = Tolerance + Skew /\ Slack' = Slack
      /\ Tolerance \in Nat /\ Skew \in Nat /\ now[c] \in Int
  BY SchedulerAssumption DEF TypeOK, DbTypes, LoopTypes, Slack, ClaimWon
<1>2. /\ claims'[c] = claims[c] \cup {d} /\ since' = since /\ now' = now
      /\ phase' = phase /\ status' = status /\ loop[c] = "claim"
  BY DEF ClaimWon
<1>3. Matches(d) /\ Advance(c, d)
  BY DEF ClaimWon
<1>4. /\ d \in Slot /\ d.sched \in Schedule /\ d.slot \in Nat /\ d.slot = nextRun[d.sched]
      /\ OnGrid(d.sched, nextRun'[d.sched]) /\ status[d.sched] = "on"
  BY <1>3, AdvanceFacts DEF Slot, Matches
<1>5. d.slot \in now[c] - Tolerance .. now[c] + Tolerance
  BY DEF LoopInv, LoopOK, Fresh
<1>6. /\ since[c] \in Nat /\ (since[c] = 0 \/ since[c] + Tolerance <= now[c])
      /\ now[c] <= clock + Skew
      /\ since[c] = 0 \/ since[c] + Slack <= clock
  BY <1>2 DEF BurstOK, Ticking
<1>7. d.slot \in since[c] .. clock + Slack
  BY <1>1, <1>4, <1>5, <1>6
<1>8. claims[c] \subseteq Slot /\ IsFiniteSet(claims[c])
  BY DEF BurstOK
<1>9. claims'[c] \subseteq Slot /\ IsFiniteSet(claims'[c])
  BY <1>2, <1>4, <1>8, FS_AddElement
<1>10. phase'[c] # "down"
  BY <1>2 DEF WorkInv, DownOK
<1>11. ASSUME NEW x \in claims'[c]
       PROVE  /\ x.slot \in since'[c] .. clock' + Slack'
              /\ status'[x.sched] # "none" /\ OnGrid(x.sched, nextRun'[x.sched])
  <2>1. CASE x = d
    BY <1>1, <1>2, <1>4, <1>7, <2>1
  <2>2. CASE x \in claims[c]
    <3>1. x.sched \in Schedule
      BY <1>8, <2>2 DEF Slot
    <3> QED BY <1>1, <1>2, <2>2, <3>1 DEF BurstOK, Onward
  <2> QED BY <1>2, <2>1, <2>2
<1>12. ASSUME NEW x \in claims[c], x.sched = d.sched PROVE ~OffGrid(d)
  BY <1>4, <1>12 DEF BurstOK, OffGrid
<1>13. \A x, y \in claims'[c] : x.sched = y.sched /\ OffGrid(x) /\ OffGrid(y) => x = y
  BY <1>2, <1>12 DEF BurstOK
<1>14. Ticking(c)' => /\ since'[c] = 0 \/ since'[c] + Tolerance <= now'[c]
                      /\ now'[c] <= clock' + Skew
  BY <1>1, <1>2, <1>6
<1>15. since'[c] \in Nat /\ (since'[c] = 0 \/ since'[c] + Slack' <= clock')
  BY <1>1, <1>2, <1>6
<1> QED BY <1>9, <1>10, <1>11, <1>13, <1>14, <1>15 DEF BurstOK, OffGrid, OnGrid

(* A tick reads a clock that is not before the start, up to the skew.      *)
LEMMA TickBurst ==
    ASSUME TypeOK, WorkInv, TypeOK', Onward, NEW c \in Collector, BurstOK(c), Tick(c)
    PROVE  BurstOK(c)'
<1>1. /\ clock \in Nat /\ clock' = clock /\ Slack = Tolerance + Skew
      /\ Tolerance \in Nat /\ Skew \in Nat
  BY SchedulerAssumption DEF TypeOK, DbTypes, Slack, Tick
<1>2. PICK t \in clock - Skew .. clock + Skew : now'[c] = t
  BY DEF Tick, TypeOK, LoopTypes
<1>3. UNCHANGED <<since, claims, phase>> /\ phase[c] # "down"
  BY DEF Tick, Running, histVars
<1>4. /\ since[c] \in Nat
      /\ since[c] = 0 \/ since[c] + Slack <= clock
  BY DEF BurstOK
<1>5. (since[c] = 0 \/ since[c] + Tolerance <= now'[c]) /\ now'[c] <= clock' + Skew
  BY <1>1, <1>2, <1>4
<1> QED BY <1>1, <1>3, <1>5, BurstKept

(* A start and the end of a process.                                       *)
LEMMA LifeBurst ==
    ASSUME TypeOK, WorkInv, TypeOK', BurstInv, NEW c \in Collector, Start(c) \/ Gone(c)
    PROVE  BurstOK(c)'
<1>1. clock \in Nat /\ clock' = clock /\ Slack \in Nat /\ Slack' = Slack
  BY SchedulerAssumption DEF TypeOK, DbTypes, Slack, Start, Gone
<1>2. /\ since'[c] \in {0, IF clock > Slack THEN clock - Slack ELSE 0}
      /\ loop'[c] \in {"wait", "exited"}
  BY DEF Start, Gone, BurstInv, TypeOK, LoopTypes
<1>3. claims'[c] = {}
  BY DEF Start, Gone, BurstInv, BurstOK
<1>4. since'[c] \in Nat /\ (since'[c] = 0 \/ since'[c] + Slack' <= clock')
  BY <1>1, <1>2
<1> QED BY <1>2, <1>3, <1>4, FS_EmptySet DEF BurstOK, Ticking

LEMMA BurstStep == IInv /\ BurstInv /\ [Next]_vars => BurstInv'
<1> SUFFICES ASSUME IInv, BurstInv, [Next]_vars PROVE BurstInv'
  OBVIOUS
<1>0. TypeOK /\ LoopInv /\ WorkInv /\ TypeOK' /\ Onward
  BY TypeStep, OnwardStep DEF IInv
<1>1. clock \in Nat /\ clock' \in Nat
  BY <1>0 DEF TypeOK, DbTypes
<1>2. /\ DOMAIN since = Collector /\ DOMAIN claims = Collector
      /\ \A c \in Collector : BurstOK(c)
  BY DEF BurstInv
<1>d. ASSUME UNCHANGED <<since, claims>>, clock <= clock', NEW c \in Collector,
             \/ ~Ticking(c)'
             \/ now'[c] = now[c] /\ (Ticking(c) \/ loop'[c] = loop[c]),
             phase'[c] = "down" => phase[c] = "down"
      PROVE  BurstOK(c)'
  <2>1. BurstOK(c) /\ Skew \in Nat /\ now \in [Collector -> Int]
    BY <1>0, <1>2, SchedulerAssumption DEF TypeOK, LoopTypes
  <2>2. phase'[c] = "down" => claims[c] = {}
    BY <1>d, <2>1 DEF BurstOK
  <2>3. Ticking(c)' => /\ since[c] = 0 \/ since[c] + Tolerance <= now'[c]
                       /\ now'[c] <= clock' + Skew
    <3> SUFFICES ASSUME Ticking(c)' PROVE /\ since[c] = 0 \/ since[c] + Tolerance <= now'[c]
                                          /\ now'[c] <= clock' + Skew
      OBVIOUS
    <3>1. Ticking(c) /\ now'[c] = now[c]
      BY <1>d DEF Ticking
    <3>2. /\ since[c] = 0 \/ since[c] + Tolerance <= now[c]
          /\ now[c] <= clock + Skew
      BY <2>1, <3>1 DEF BurstOK
    <3> QED BY <1>1, <1>d, <2>1, <3>1, <3>2
  <2> QED BY <1>0, <1>d, <2>1, <2>2, <2>3, BurstKept
<1>3. ASSUME UNCHANGED <<since, claims, loop, now>>, clock <= clock',
             \A c \in Collector : phase'[c] = "down" => phase[c] = "down"
      PROVE  BurstInv'
  BY <1>2, <1>3, <1>d DEF BurstInv
<1>4. ASSUME NEW c \in Collector, LoopStep(c) PROVE BurstInv'
  <2>1. clock' = clock /\ phase' = phase
    BY <1>4 DEF LoopStep, LoopExit, Tick, Reschedule, ListDue, ClaimWon, ClaimLost,
               TickDone, Enqueue
  <2>2. /\ since' = since /\ DOMAIN claims' = Collector
        /\ \A e \in Collector \ {c} : loop'[e] = loop[e] /\ now'[e] = now[e]
                                       /\ claims'[e] = claims[e]
    BY <1>0, <1>2, <1>4
       DEF LoopStep, LoopExit, Tick, Reschedule, ListDue, ClaimWon, ClaimLost, TickDone,
           Enqueue, EnqueueStopped, EnqueueSkip, EnqueueRun, histVars, TypeOK, LoopTypes
  <2>3. ASSUME NEW e \in Collector \ {c} PROVE BurstOK(e)'
    <3>1. /\ BurstOK(e) /\ clock <= clock' /\ since'[e] = since[e] /\ claims'[e] = claims[e]
          /\ phase'[e] = "down" => claims[e] = {}
      BY <1>1, <1>2, <2>1, <2>2 DEF BurstOK
    <3>2. Ticking(e)' => /\ since[e] = 0 \/ since[e] + Tolerance <= now'[e]
                         /\ now'[e] <= clock' + Skew
      BY <2>1, <2>2, <3>1 DEF Ticking, BurstOK
    <3> QED BY <1>0, <3>1, <3>2, BurstKept
  <2>4. BurstOK(c)'
    <3>1. CASE Tick(c)
      BY <1>0, <1>2, <3>1, TickBurst
    <3>2. ASSUME NEW d \in due[c], ClaimWon(c, d) PROVE BurstOK(c)'
      BY <1>0, <1>2, <3>2, ClaimBurst
    <3>3. ASSUME \/ LoopExit(c) \/ Reschedule(c) \/ ListDue(c) \/ TickDone(c) \/ Enqueue(c)
                 \/ \E d \in due[c] : ClaimLost(c, d)
          PROVE  BurstOK(c)'
      <4>1. UNCHANGED <<since, claims>> /\ now' = now
        BY <3>3 DEF LoopExit, Reschedule, ListDue, TickDone, Enqueue, ClaimLost, histVars,
                    EnqueueStopped, EnqueueSkip, EnqueueRun
      <4>2. ~Ticking(c)' \/ Ticking(c)
        BY <1>0, <3>3 DEF LoopExit, Reschedule, ListDue, TickDone, Enqueue, ClaimLost, Ticking,
                    TypeOK, LoopTypes
      <4> QED BY <1>1, <1>d, <2>1, <4>1, <4>2
    <3> QED BY <1>4, <3>1, <3>2, <3>3 DEF LoopStep
  <2> QED BY <1>2, <2>2, <2>3, <2>4 DEF BurstInv
<1>5. ASSUME NEW c \in Collector, Start(c) \/ Gone(c) PROVE BurstInv'
  <2>1. clock' = clock
    BY <1>5 DEF Start, Gone
  <2>2. /\ DOMAIN since' = Collector /\ DOMAIN claims' = Collector
        /\ \A e \in Collector \ {c} :
             /\ loop'[e] = loop[e] /\ now'[e] = now[e] /\ claims'[e] = claims[e]
             /\ since'[e] = since[e] /\ phase'[e] = phase[e]
    BY <1>0, <1>2, <1>5 DEF Start, Gone, TypeOK, LoopTypes
  <2>3. ASSUME NEW e \in Collector \ {c} PROVE BurstOK(e)'
    <3>1. /\ BurstOK(e) /\ clock <= clock' /\ since'[e] = since[e] /\ claims'[e] = claims[e]
          /\ phase'[e] = "down" => claims[e] = {}
      BY <1>1, <1>2, <2>1, <2>2 DEF BurstOK
    <3>2. Ticking(e)' => /\ since[e] = 0 \/ since[e] + Tolerance <= now'[e]
                         /\ now'[e] <= clock' + Skew
      BY <2>1, <2>2, <3>1 DEF Ticking, BurstOK
    <3> QED BY <1>0, <3>1, <3>2, BurstKept
  <2> QED BY <1>0, <1>5, <2>2, <2>3, LifeBurst DEF BurstInv
<1>6. ASSUME AdvanceTime \/ UNCHANGED vars PROVE BurstInv'
  BY <1>1, <1>3, <1>6 DEF AdvanceTime, vars, loopVars, histVars
<1>7. ASSUME NEW s \in Schedule, CreateSchedule(s) \/ EnableSchedule(s) \/ DeleteSchedule(s)
      PROVE  BurstInv'
  <2>1. UNCHANGED editVars
    BY <1>7 DEF CreateSchedule, EnableSchedule, DeleteSchedule
  <2> QED BY <1>1, <1>3, <2>1 DEF editVars, loopVars, histVars
<1>8. ASSUME NEW c \in Collector, StopSignal(c) \/ StopCancel(c) PROVE BurstInv'
  <2>1. /\ UNCHANGED <<since, claims, loop, now, clock>>
        /\ \A e \in Collector : phase'[e] = "down" => phase[e] = "down"
    BY <1>0, <1>8 DEF StopSignal, StopCancel, loopVars, histVars, TypeOK, LoopTypes
  <2> QED BY <1>1, <1>3, <2>1
<1>9. ASSUME NEW c \in Collector, NEW w \in Worker, WorkerStep(c, w) PROVE BurstInv'
  <2>1. UNCHANGED <<since, claims, loop, now, clock, phase>>
    BY <1>9 DEF WorkerStep, WorkerTake, InsertRun, SkipRun, StartRpc, RpcReturns, RecordResult,
               WorkerDone, loopVars, histVars
  <2> QED BY <1>1, <1>3, <2>1
<1> QED BY <1>4, <1>5, <1>6, <1>7, <1>8, <1>9 DEF Next, StopStep, Crash, StopJoin

(* No catch-up bursts: for every window, interval, tolerance and skew, for *)
(* any number of collectors and restarts, a process claims no slot that    *)
(* passed while it was down, and no more slots of a schedule than          *)
(* intervals have passed since its start (and two).                        *)
THEOREM NoBurstHolds == Spec => []NoBurst
<1>1. Init => BurstInv
  BY FS_EmptySet DEF Init, BurstInv, BurstOK, Ticking
<1> QED BY <1>1, SchedulerInvariant, BurstStep, BurstBound, PTL DEF Spec

-----------------------------------------------------------------------------
(* The busy set of a running scheduler is exactly the agents of its queued *)
(* and executing runs, one run each, and m_active_ctx exactly the calls in *)
(* progress.                                                               *)
THEOREM BusyExactHolds == Spec => []BusyExact
<1>1. ASSUME IInv PROVE BusyExact
  <2>1. active = {t \in Thread : wpc[t] = "rpc"} /\ cancelled \subseteq active
    BY <1>1 DEF IInv, WorkInv
  <2>2. ASSUME NEW c \in Collector, Running(c)
        PROVE  LET A(i) == AgentOf[queue[c][i].sched]
                   B(w) == AgentOf[job[<<c, w>>].sched]
               IN  /\ busy[c] = {A(i) : i \in Queued(c)} \cup {B(w) : w \in InFlight(c)}
                   /\ Cardinality(busy[c])
                        = Cardinality(Queued(c)) + Cardinality(InFlight(c))
    <3> DEFINE f == [i \in Queued(c) |-> QAgent(c, i)]
               g == [w \in InFlight(c) |-> WAgent(c, w)]
               F == {f[i] : i \in Queued(c)}
               G == {g[w] : w \in InFlight(c)}
    <3>1. Apart(c) /\ Covers(c)
      BY <1>1, <2>2 DEF IInv, BusyInv
    <3>2. IsFiniteSet(Queued(c))
      <4>1. Queued(c) = 1 .. Len(queue[c]) /\ Len(queue[c]) \in Nat
        BY <1>1, LenProperties DEF Queued, IInv, TypeOK, QueueTypes
      <4> QED BY <4>1, FS_Interval
    <3>3. IsFiniteSet(InFlight(c))
      <4>1. InFlight(c) \in SUBSET Worker /\ IsFiniteSet(Worker)
        BY SchedulerAssumption DEF InFlight
      <4> QED BY <4>1, FS_Subset
    <3>4. IsFiniteSet(F) /\ Cardinality(F) = Cardinality(Queued(c))
      <4>1. \A x, y \in Queued(c) : f[x] = f[y] => x = y
        BY <3>1 DEF Apart
      <4>2. f \in [Queued(c) -> {f[x] : x \in Queued(c)}]
        OBVIOUS
      <4> HIDE DEF f
      <4> QED BY <3>2, <4>1, <4>2, DistinctCount
    <3>5. IsFiniteSet(G) /\ Cardinality(G) = Cardinality(InFlight(c))
      <4>1. \A x, y \in InFlight(c) : g[x] = g[y] => x = y
        BY <3>1 DEF Apart
      <4>2. g \in [InFlight(c) -> {g[x] : x \in InFlight(c)}]
        OBVIOUS
      <4> HIDE DEF g
      <4> QED BY <3>3, <4>1, <4>2, DistinctCount
    <3>6. F \cap G = {}
      BY <3>1 DEF Apart
    <3>7. busy[c] = F \cup G
      BY <3>1 DEF Covers
    <3>8. Cardinality(F \cap G) = 0
      BY <3>6, FS_EmptySet
    <3>9. Cardinality(F) \in Nat /\ Cardinality(G) \in Nat
      BY <3>4, <3>5, FS_CardinalityType
    <3>10. Cardinality(F \cup G) = Cardinality(F) + Cardinality(G)
      <4> HIDE DEF F, G
      <4>1. Cardinality(F \cup G)
              = Cardinality(F) + Cardinality(G) - Cardinality(F \cap G)
        BY <3>4, <3>5, FS_Union
      <4> QED BY <3>8, <3>9, <4>1
    <3>11. F = {AgentOf[queue[c][i].sched] : i \in Queued(c)}
      BY DEF QAgent
    <3>12. G = {AgentOf[job[<<c, w>>].sched] : w \in InFlight(c)}
      BY DEF WAgent
    <3> HIDE DEF F, G
    <3> QED BY <3>4, <3>5, <3>7, <3>10, <3>11, <3>12
  <2> QED BY <2>1, <2>2 DEF BusyExact
<1> QED BY <1>1, SchedulerInvariant, PTL

(* From its first claim on a schedule stays on the grid of its window      *)
(* start and its next_run only moves forward.                              *)
THEOREM StableCadenceHolds == Spec => StableCadence
<1> DEFINE A == \A s \in Schedule :
                  (status[s] # "none" /\ nextRun'[s] # nextRun[s]) =>
                    /\ OnGrid(s, nextRun'[s])
                    /\ OnGrid(s, nextRun[s]) => nextRun'[s] > nextRun[s]
<1>1. IInv /\ [Next]_vars => A
  <2> SUFFICES ASSUME IInv, [Next]_vars, NEW s \in Schedule, status[s] # "none",
                      nextRun'[s] # nextRun[s]
               PROVE  /\ OnGrid(s, nextRun'[s])
                      /\ OnGrid(s, nextRun[s]) => nextRun'[s] > nextRun[s]
    OBVIOUS
  <2>1. nextRun[s] \in Nat /\ nextRun'[s] \in Nat
    BY TypeStep DEF IInv, TypeOK, DbTypes
  <2>2. /\ OnGrid(s, nextRun'[s])
        /\ OnGrid(s, nextRun[s]) => nextRun[s] <= nextRun'[s]
    BY OnwardStep DEF Onward
  <2> QED BY <2>1, <2>2
<1>2. IInv /\ [Next]_vars => [A]_vars
  BY <1>1
<1> HIDE DEF A
<1>3. Spec => [][A]_vars
  BY <1>2, SchedulerInvariant, PTL DEF Spec
<1> QED BY <1>3 DEF A, StableCadence

=============================================================================
