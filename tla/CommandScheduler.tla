-------------------------- MODULE CommandScheduler --------------------------
(***************************************************************************)
(* The background service of a collector that runs agent commands on a     *)
(* schedule (collector/src/command_scheduler.cpp), the schedule and run    *)
(* tables it works on (collector/src/storage/timescale_storage.cpp) and    *)
(* the HTTP handlers that edit schedules (collector/src/http_server.cpp).  *)
(* Several collectors may share one database. Each has a loop thread that  *)
(* claims due slots and a pool of workers that execute them; both wait on  *)
(* one condition variable.                                                 *)
(*                                                                         *)
(* Time is counted in scheduler ticks. Pruning of old runs is left out.    *)
(***************************************************************************)
EXTENDS Integers, Sequences, FiniteSets, Functions

CONSTANTS
    Collector, Worker, Schedule,
    NoJob,
    AgentOf,        \* the agent of each schedule
    WindowStart, WindowEnd, Interval,   \* of each schedule, in ticks
    Tolerance,      \* kToleranceMs
    DueLimit,       \* rows ListDueCommandSchedules returns at most (20)
    Skew,           \* how far a collector's clock may be off
    MaxTime,        \* bound: last value of the clock
    MaxStarts,      \* bound: process starts, over all collectors
    MaxFailures     \* bound: storage failures and process crashes

ASSUME SchedulerAssumption ==
    /\ {MaxTime, Tolerance, DueLimit, Skew, MaxStarts, MaxFailures} \subseteq Nat
    /\ WindowStart \in [Schedule -> Nat]
    /\ WindowEnd \in [Schedule -> Nat]
    /\ Interval \in [Schedule -> Nat \ {0}]
    /\ \A s \in Schedule : WindowStart[s] < WindowEnd[s]
    \* kMinIntervalSec is a minute, kToleranceMs two seconds
    /\ \A s \in Schedule : Tolerance < Interval[s]
    /\ IsFiniteSet(Worker)
    /\ NoJob \notin [sched : Schedule, slot : Nat]
    /\ NoJob \notin [sched : Schedule, slot : Nat, run : Nat]

VARIABLES
    clock,
    status,         \* a row of command_schedules: none, on, off (enabled)
    nextRun,        \* next_run_unix_ms
    runs,           \* the rows of command_runs
    phase,          \* down, up, stopping (m_stop is set), joining
    loop,           \* where the loop thread is
    now,            \* the clock reading of its last tick
    due, cur,       \* the rest of due, the claimed slot
    queue, busy,    \* m_queue, m_busy_agents
    wpc, job,       \* the workers and the run each one executes
    active,         \* m_active_ctx
    cancelled,      \* contexts Stop has cancelled
    taken, twice,   \* history: slots queued at least once, at least twice
    early,          \* history: slots claimed before their time
    since, claims,  \* history: the first slot that had not yet passed when the
                    \* process started, the slots it has claimed
    starts, failures

dbVars == <<status, nextRun, runs>>
loopVars == <<loop, now, due, cur>>
workVars == <<wpc, job, active, cancelled>>
histVars == <<taken, twice, early, since, claims>>
vars == <<clock, dbVars, phase, loopVars, queue, busy, workVars, histVars,
          starts, failures>>

Thread == Collector \X Worker

(* How far from the clock a slot may be that a tick takes for due.         *)
Slack == Tolerance + Skew

Init ==
    /\ clock = 0
    /\ status = [s \in Schedule |-> "none"]
    /\ nextRun = [s \in Schedule |-> 0]
    /\ runs = << >>
    /\ phase = [c \in Collector |-> "down"]
    /\ loop = [c \in Collector |-> "exited"]
    /\ now = [c \in Collector |-> -1]
    /\ due = [c \in Collector |-> {}]
    /\ cur = [c \in Collector |-> NoJob]
    /\ queue = [c \in Collector |-> << >>]
    /\ busy = [c \in Collector |-> {}]
    /\ wpc = [t \in Thread |-> "exited"]
    /\ job = [t \in Thread |-> NoJob]
    /\ active = {} /\ cancelled = {}
    /\ taken = {} /\ twice = {} /\ early = {}
    /\ since = [c \in Collector |-> 0]
    /\ claims = [c \in Collector |-> {}]
    /\ starts = 0 /\ failures = 0

AdvanceTime ==
    /\ clock < MaxTime
    /\ clock' = clock + 1
    /\ UNCHANGED <<dbVars, phase, loopVars, queue, busy, workVars, histVars,
                   starts, failures>>

(* A storage call that fails: the connection is gone.                      *)
Fault ==
    /\ failures < MaxFailures
    /\ failures' = failures + 1

-----------------------------------------------------------------------------
(* The HTTP handlers. A schedule gets a new id, so it is created once.     *)
editVars == <<clock, runs, phase, loopVars, queue, busy, workVars, histVars,
              starts, failures>>

CreateSchedule(s) ==
    /\ status[s] = "none"
    /\ WindowEnd[s] >= clock
    /\ status' = [status EXCEPT ![s] = "on"]
    /\ nextRun' = [nextRun EXCEPT ![s] =
                     IF WindowStart[s] > clock THEN WindowStart[s] ELSE clock]
    /\ UNCHANGED editVars

EnableSchedule(s) ==
    /\ status[s] \in {"on", "off"}
    /\ status' = [status EXCEPT ![s] = IF @ = "on" THEN "off" ELSE "on"]
    /\ UNCHANGED <<nextRun, editVars>>

DeleteSchedule(s) ==
    /\ status[s] \in {"on", "off"}
    /\ status' = [status EXCEPT ![s] = "gone"]
    /\ UNCHANGED <<nextRun, editVars>>

-----------------------------------------------------------------------------
(* Mutant: the next slot is counted from now instead of the window start.  *)
NextSlot_drifts(s, after) == after + Interval[s]

(* No interval is zero: the HTTP handlers accept none below a minute, so   *)
(* the first line of the function is never reached.                        *)
NextSlot(s, after) ==
    IF after <= WindowStart[s]
      THEN WindowStart[s] + Interval[s]
      ELSE WindowStart[s]
             + (((after - WindowStart[s]) \div Interval[s]) + 1) * Interval[s]

(* What the UPDATE of RescheduleStaleSchedules computes.                   *)
RebasedSlot(s, t) ==
    WindowStart[s]
      + Interval[s] * (((t - WindowStart[s]) \div Interval[s]) + 1)

InWindow(s, t) == WindowStart[s] <= t /\ t <= WindowEnd[s]

Running(c) == phase[c] = "up"
Stopped(c) == phase[c] \in {"stopping", "joining"}

(* Wake one of the threads waiting on m_cv; others is true when some other *)
(* thread may take the notification.                                       *)
NotifyOne(c, pcs, others) ==
    LET waiting == {w \in Worker : pcs[<<c, w>>] = "waiting"}
    IN  {[pcs EXCEPT ![<<c, w>>] = "idle"] : w \in waiting}
          \cup (IF others \/ waiting = {} THEN {pcs} ELSE {})

(* wait_for returns: the loop ends, or a tick starts, kTickIntervalMs      *)
(* after the one before.                                                   *)
LoopExit(c) ==
    /\ loop[c] = "wait" /\ Stopped(c)
    /\ loop' = [loop EXCEPT ![c] = "exited"]
    /\ UNCHANGED <<clock, dbVars, phase, now, due, cur, queue, busy, workVars,
                   histVars, starts, failures>>

Tick(c) ==
    /\ loop[c] = "wait" /\ Running(c)
    /\ loop' = [loop EXCEPT ![c] = "reschedule"]
    /\ \E t \in clock - Skew .. clock + Skew :
         /\ t >= 0 /\ t > now[c]
         /\ now' = [now EXCEPT ![c] = t]
    /\ UNCHANGED <<clock, dbVars, phase, due, cur, queue, busy, workVars,
                   histVars, starts, failures>>

Stale(s, t) ==
    /\ status[s] = "on"
    /\ WindowStart[s] <= t - Tolerance
    /\ WindowEnd[s] >= t
    /\ nextRun[s] < t - Tolerance

Reschedule(c) ==
    /\ loop[c] = "reschedule"
    /\ loop' = [loop EXCEPT ![c] = "list"]
    /\ \/ /\ nextRun' = [s \in Schedule |-> IF Stale(s, now[c])
                                              THEN RebasedSlot(s, now[c])
                                              ELSE nextRun[s]]
          /\ UNCHANGED failures
       \/ UNCHANGED nextRun /\ Fault
    /\ UNCHANGED <<clock, status, runs, phase, now, due, cur, queue, busy,
                   workVars, histVars, starts>>

(* Mutant: overdue slots count as due, however old.                        *)
Due_overdue(t) ==
    {s \in Schedule : /\ status[s] = "on" /\ InWindow(s, t)
                      /\ nextRun[s] <= t + Tolerance}

Due(t) ==
    {s \in Schedule : /\ status[s] = "on" /\ InWindow(s, t)
                      /\ nextRun[s] \in t - Tolerance .. t + Tolerance}

DueRow(s) == [sched |-> s, slot |-> nextRun[s]]

(* ORDER BY next_run_unix_ms ASC LIMIT 20                                  *)
Oldest(rows) ==
    {d \in SUBSET rows :
       /\ \A x \in d, y \in rows \ d : x.slot <= y.slot
       /\ Cardinality(d) <= DueLimit
       /\ d = rows \/ Cardinality(d) = DueLimit}

ListDue(c) ==
    /\ loop[c] = "list"
    /\ loop' = [loop EXCEPT ![c] = "claim"]
    /\ \/ /\ \E d \in Oldest({DueRow(s) : s \in Due(now[c])}) :
               due' = [due EXCEPT ![c] = d]
          /\ UNCHANGED failures
       \/ UNCHANGED due /\ Fault
    /\ UNCHANGED <<clock, dbVars, phase, now, cur, queue, busy, workVars,
                   histVars, starts>>

(* The next row of due, oldest slot first.                                 *)
First(c, d) ==
    /\ d \in due[c]
    /\ \A e \in due[c] : d.slot <= e.slot

(* Mutant: the UPDATE does not compare next_run with the expected value.   *)
Matches_unguarded(d) == status[d.sched] = "on"

(* WHERE id = ... AND next_run_unix_ms = expected AND enabled              *)
Matches(d) == status[d.sched] = "on" /\ nextRun[d.sched] = d.slot

Advance(c, d) ==
    nextRun' = [nextRun EXCEPT ![d.sched] = NextSlot(d.sched, now[c])]

ClaimWon(c, d) ==
    /\ loop[c] = "claim" /\ First(c, d)
    /\ Matches(d)
    /\ Advance(c, d)
    /\ loop' = [loop EXCEPT ![c] = "enqueue"]
    /\ due' = [due EXCEPT ![c] = @ \ {d}]
    /\ cur' = [cur EXCEPT ![c] = d]
    /\ early' = IF now[c] < d.slot THEN early \cup {d} ELSE early
    /\ claims' = [claims EXCEPT ![c] = @ \cup {d}]
    /\ UNCHANGED <<clock, status, runs, phase, now, queue, busy, workVars,
                   taken, twice, since, starts, failures>>

(* The row changed since it was listed, or the call failed, before or      *)
(* after the UPDATE took effect: the slot is skipped.                      *)
ClaimLost(c, d) ==
    /\ loop[c] = "claim" /\ First(c, d)
    /\ \/ ~Matches(d) /\ UNCHANGED <<nextRun, failures>>
       \/ UNCHANGED nextRun /\ Fault
       \/ Matches(d) /\ Advance(c, d) /\ Fault
    /\ due' = [due EXCEPT ![c] = @ \ {d}]
    /\ UNCHANGED <<clock, status, runs, phase, loop, now, cur, queue, busy,
                   workVars, histVars, starts>>

TickDone(c) ==
    /\ loop[c] = "claim" /\ due[c] = {}
    /\ loop' = [loop EXCEPT ![c] = "wait"]
    /\ UNCHANGED <<clock, dbVars, phase, now, due, cur, queue, busy, workVars,
                   histVars, starts, failures>>

(* Under m_mutex: stop, skip a busy agent, or queue the run and notify.    *)
EnqueueStopped(c) ==
    /\ Stopped(c)
    /\ loop' = [loop EXCEPT ![c] = "exited"]
    /\ due' = [due EXCEPT ![c] = {}]
    /\ UNCHANGED <<now, queue, busy, wpc, taken, twice>>

EnqueueSkip(c) ==
    /\ Running(c)
    /\ AgentOf[cur[c].sched] \in busy[c]
    /\ loop' = [loop EXCEPT ![c] = "claim"]
    /\ UNCHANGED <<due, now, queue, busy, wpc, taken, twice>>

Dispatch(c) ==
    /\ queue' = [queue EXCEPT ![c] = Append(@, cur[c])]
    /\ taken' = taken \cup {cur[c]}
    /\ twice' = IF cur[c] \in taken THEN twice \cup {cur[c]} ELSE twice

(* Mutant: nobody is notified.                                             *)
EnqueueRun_silent(c) ==
    /\ Running(c)
    /\ AgentOf[cur[c].sched] \notin busy[c]
    /\ busy' = [busy EXCEPT ![c] = @ \cup {AgentOf[cur[c].sched]}]
    /\ loop' = [loop EXCEPT ![c] = "claim"]
    /\ Dispatch(c)
    /\ UNCHANGED <<due, now, wpc>>

EnqueueRun(c) ==
    /\ Running(c)
    /\ AgentOf[cur[c].sched] \notin busy[c]
    /\ busy' = [busy EXCEPT ![c] = @ \cup {AgentOf[cur[c].sched]}]
    /\ wpc' \in NotifyOne(c, wpc, FALSE)
    /\ loop' = [loop EXCEPT ![c] = "claim"]
    /\ Dispatch(c)
    /\ UNCHANGED <<due, now>>

Enqueue(c) ==
    /\ loop[c] = "enqueue"
    /\ cur' = [cur EXCEPT ![c] = NoJob]
    /\ EnqueueStopped(c) \/ EnqueueSkip(c) \/ EnqueueRun(c)
    /\ UNCHANGED <<clock, dbVars, phase, job, active, cancelled, early, since,
                   claims, starts, failures>>

-----------------------------------------------------------------------------
(* A worker under m_mutex: it takes the front of the queue, blocks on      *)
(* m_cv, or exits; a run it takes while m_stop is set is thrown away.      *)
WorkerTake(c, w) ==
    /\ wpc[<<c, w>>] = "idle"
    /\ \/ /\ queue[c] = << >> /\ Stopped(c)
          /\ wpc' = [wpc EXCEPT ![<<c, w>>] = "exited"]
          /\ UNCHANGED <<queue, job>>
       \/ /\ queue[c] = << >> /\ Running(c)
          /\ wpc' = [wpc EXCEPT ![<<c, w>>] = "waiting"]
          /\ UNCHANGED <<queue, job>>
       \/ /\ queue[c] # << >> /\ Stopped(c)
          /\ queue' = [queue EXCEPT ![c] = Tail(@)]
          /\ wpc' = [wpc EXCEPT ![<<c, w>>] = "exited"]
          /\ UNCHANGED job
       \/ /\ queue[c] # << >> /\ Running(c)
          /\ queue' = [queue EXCEPT ![c] = Tail(@)]
          /\ wpc' = [wpc EXCEPT ![<<c, w>>] = "insert"]
          /\ job' = [job EXCEPT ![<<c, w>>] =
                       [sched |-> Head(queue[c]).sched,
                        slot |-> Head(queue[c]).slot, run |-> 0]]
    /\ UNCHANGED <<clock, dbVars, phase, loopVars, busy, active, cancelled,
                   histVars, starts, failures>>

(* ExecuteRun: the row is inserted; when that fails the run is given up,   *)
(* although the row may have been stored.                                  *)
NewRun(t) == [sched |-> job[t].sched, slot |-> job[t].slot, finished |-> FALSE]

InsertRun(c, w) ==
    LET t == <<c, w>> IN
    /\ wpc[t] = "insert"
    /\ \/ /\ runs' = Append(runs, NewRun(t))
          /\ job' = [job EXCEPT ![t].run = Len(runs) + 1]
          /\ wpc' = [wpc EXCEPT ![t] = "prepare"]
          /\ UNCHANGED failures
       \/ /\ runs' \in {runs, Append(runs, NewRun(t))}
          /\ wpc' = [wpc EXCEPT ![t] = "done"]
          /\ Fault
          /\ UNCHANGED job
    /\ UNCHANGED <<clock, status, nextRun, phase, loopVars, queue, busy,
                   active, cancelled, histVars, starts>>

(* The window is over, the agent is offline or cannot be dialled ...       *)
SkipRun(c, w) ==
    /\ wpc[<<c, w>>] = "prepare"
    /\ wpc' = [wpc EXCEPT ![<<c, w>>] = "record"]
    /\ UNCHANGED <<clock, dbVars, phase, loopVars, queue, busy, job, active,
                   cancelled, histVars, starts, failures>>

(* ... or the context is registered and the call starts.                   *)
StartRpc(c, w) ==
    /\ wpc[<<c, w>>] = "prepare"
    /\ clock <= WindowEnd[job[<<c, w>>].sched]
    /\ wpc' = [wpc EXCEPT ![<<c, w>>] = "rpc"]
    /\ active' = active \cup {<<c, w>>}
    /\ UNCHANGED <<clock, dbVars, phase, loopVars, queue, busy, job, cancelled,
                   histVars, starts, failures>>

(* Mutant: a call that was cancelled is not recorded.                      *)
RpcReturns_unrecorded(c, w) ==
    /\ wpc[<<c, w>>] = "rpc"
    /\ wpc' = [wpc EXCEPT ![<<c, w>>] =
                 IF <<c, w>> \in cancelled THEN "done" ELSE "record"]
    /\ active' = active \ {<<c, w>>}
    /\ cancelled' = cancelled \ {<<c, w>>}
    /\ UNCHANGED <<clock, dbVars, phase, loopVars, queue, busy, job, histVars,
                   starts, failures>>

(* The agent answered, the deadline passed or the call was cancelled.      *)
RpcReturns(c, w) ==
    /\ wpc[<<c, w>>] = "rpc"
    /\ wpc' = [wpc EXCEPT ![<<c, w>>] = "record"]
    /\ active' = active \ {<<c, w>>}
    /\ cancelled' = cancelled \ {<<c, w>>}
    /\ UNCHANGED <<clock, dbVars, phase, loopVars, queue, busy, job, histVars,
                   starts, failures>>

RecordResult(c, w) ==
    LET t == <<c, w>> IN
    /\ wpc[t] = "record"
    /\ wpc' = [wpc EXCEPT ![t] = "done"]
    /\ \/ /\ runs' = [runs EXCEPT ![job[t].run].finished = TRUE]
          /\ UNCHANGED failures
       \/ Fault /\ UNCHANGED runs
    /\ UNCHANGED <<clock, status, nextRun, phase, loopVars, queue, busy, job,
                   active, cancelled, histVars, starts>>

(* Mutant: the agent stays busy.                                           *)
WorkerDone_leaks(c, w) ==
    LET t == <<c, w>> IN
    /\ wpc[t] = "done"
    /\ wpc' \in NotifyOne(c, [wpc EXCEPT ![t] = "idle"], loop[c] = "wait")
    /\ job' = [job EXCEPT ![t] = NoJob]
    /\ UNCHANGED <<clock, dbVars, phase, loopVars, queue, busy, active,
                   cancelled, histVars, starts, failures>>

WorkerDone(c, w) ==
    LET t == <<c, w>> IN
    /\ wpc[t] = "done"
    /\ busy' = [busy EXCEPT ![c] = @ \ {AgentOf[job[t].sched]}]
    /\ wpc' \in NotifyOne(c, [wpc EXCEPT ![t] = "idle"], loop[c] = "wait")
    /\ job' = [job EXCEPT ![t] = NoJob]
    /\ UNCHANGED <<clock, dbVars, phase, loopVars, queue, active, cancelled,
                   histVars, starts, failures>>

-----------------------------------------------------------------------------
(* Start and Stop of a collector process, and its crash.                   *)
Start(c) ==
    /\ phase[c] = "down"
    /\ starts < MaxStarts
    /\ starts' = starts + 1
    /\ phase' = [phase EXCEPT ![c] = "up"]
    /\ loop' = [loop EXCEPT ![c] = "wait"]
    /\ wpc' = [t \in Thread |-> IF t[1] = c THEN "idle" ELSE wpc[t]]
    /\ since' = [since EXCEPT ![c] = IF clock > Slack THEN clock - Slack ELSE 0]
    /\ UNCHANGED <<clock, dbVars, now, due, cur, queue, busy, job, active,
                   cancelled, taken, twice, early, claims, failures>>

(* Mutant: the waiting threads are not notified.                           *)
StopSignal_silent(c) ==
    /\ phase[c] = "up"
    /\ phase' = [phase EXCEPT ![c] = "stopping"]
    /\ UNCHANGED <<clock, dbVars, loopVars, queue, busy, workVars, histVars,
                   starts, failures>>

(* m_stop is set under the mutex and all waiting threads are notified.     *)
StopSignal(c) ==
    /\ phase[c] = "up"
    /\ phase' = [phase EXCEPT ![c] = "stopping"]
    /\ wpc' = [t \in Thread |-> IF t[1] = c /\ wpc[t] = "waiting"
                                  THEN "idle" ELSE wpc[t]]
    /\ UNCHANGED <<clock, dbVars, loopVars, queue, busy, job, active,
                   cancelled, histVars, starts, failures>>

StopCancel(c) ==
    /\ phase[c] = "stopping"
    /\ phase' = [phase EXCEPT ![c] = "joining"]
    /\ cancelled' = cancelled \cup {t \in active : t[1] = c}
    /\ UNCHANGED <<clock, dbVars, loopVars, queue, busy, wpc, job, active,
                   histVars, starts, failures>>

(* Nothing of the process is left.                                         *)
Gone(c) ==
    /\ phase' = [phase EXCEPT ![c] = "down"]
    /\ loop' = [loop EXCEPT ![c] = "exited"]
    /\ now' = [now EXCEPT ![c] = -1]
    /\ due' = [due EXCEPT ![c] = {}]
    /\ cur' = [cur EXCEPT ![c] = NoJob]
    /\ queue' = [queue EXCEPT ![c] = << >>]
    /\ busy' = [busy EXCEPT ![c] = {}]
    /\ wpc' = [t \in Thread |-> IF t[1] = c THEN "exited" ELSE wpc[t]]
    /\ job' = [t \in Thread |-> IF t[1] = c THEN NoJob ELSE job[t]]
    /\ active' = {t \in active : t[1] # c}
    /\ cancelled' = {t \in cancelled : t[1] # c}
    /\ since' = [since EXCEPT ![c] = 0]
    /\ claims' = [claims EXCEPT ![c] = {}]
    /\ UNCHANGED <<clock, dbVars, taken, twice, early, starts>>

StopJoin(c) ==
    /\ phase[c] = "joining"
    /\ loop[c] = "exited"
    /\ \A w \in Worker : wpc[<<c, w>>] = "exited"
    /\ Gone(c)
    /\ UNCHANGED failures

Crash(c) ==
    /\ phase[c] # "down"
    /\ Gone(c)
    /\ Fault

-----------------------------------------------------------------------------
LoopStep(c) ==
    \/ LoopExit(c) \/ Tick(c) \/ Reschedule(c) \/ ListDue(c)
    \/ \E d \in due[c] : ClaimWon(c, d) \/ ClaimLost(c, d)
    \/ TickDone(c) \/ Enqueue(c)

WorkerStep(c, w) ==
    \/ WorkerTake(c, w) \/ InsertRun(c, w)
    \/ SkipRun(c, w) \/ StartRpc(c, w) \/ RpcReturns(c, w)
    \/ RecordResult(c, w) \/ WorkerDone(c, w)

StopStep(c) == StopCancel(c) \/ StopJoin(c)

Next ==
    \/ AdvanceTime
    \/ \E s \in Schedule :
         CreateSchedule(s) \/ EnableSchedule(s) \/ DeleteSchedule(s)
    \/ \E c \in Collector :
         \/ Start(c) \/ StopSignal(c) \/ Crash(c)
         \/ LoopStep(c) \/ StopStep(c)
         \/ \E w \in Worker : WorkerStep(c, w)

Spec == Init /\ [][Next]_vars

(* Every thread keeps running, and a call to an agent ends by its deadline *)
(* at the latest.                                                          *)
Fairness ==
    \A c \in Collector :
      /\ WF_vars(LoopStep(c)) /\ WF_vars(StopStep(c))
      /\ \A w \in Worker : WF_vars(WorkerStep(c, w))

FairSpec == Spec /\ Fairness

-----------------------------------------------------------------------------
Queued(c) == DOMAIN queue[c]
InFlight(c) == {w \in Worker : job[<<c, w>>] # NoJob}

(* "Agent ids with a queued or in-flight run (one heavy command per        *)
(* agent)" (command_scheduler.h): while the scheduler is not stopping, the *)
(* busy set is exactly the agents of the queued and executing runs, and no *)
(* agent has two of them. A leaked entry would block its agent for ever.   *)
(* m_active_ctx, pointers to contexts on the workers' stacks, holds those  *)
(* of the calls in progress and no other, also while Stop cancels them.    *)
BusyExact ==
    /\ \A c \in Collector : Running(c) =>
         LET A(i) == AgentOf[queue[c][i].sched]
             B(w) == AgentOf[job[<<c, w>>].sched]
         IN  /\ busy[c] = {A(i) : i \in Queued(c)} \cup {B(w) : w \in InFlight(c)}
             /\ Cardinality(busy[c])
                  = Cardinality(Queued(c)) + Cardinality(InFlight(c))
    /\ active = {t \in Thread : wpc[t] = "rpc"}
    /\ cancelled \subseteq active

(* The claim guard: whatever collectors, stale ticks and reschedules       *)
(* interleave, a slot that is claimed at its time or later is dispatched   *)
(* at most once. (A slot claimed before its time is not protected: see     *)
(* SlotDispatchedOnce.)                                                    *)
ClaimGuard == twice \subseteq early

OnGrid(s, t) ==
    t >= WindowStart[s] /\ (t - WindowStart[s]) % Interval[s] = 0

(* "Guarantees a stable cadence": after its first slot, which is the time  *)
(* it was created, a schedule stays on the grid of its window start, and   *)
(* there next_run only moves forward, so no slot comes up again once it is *)
(* past: across claims, reschedules of any collector, and downtime.        *)
StableCadence ==
    [][\A s \in Schedule :
         (status[s] # "none" /\ nextRun'[s] # nextRun[s]) =>
           /\ OnGrid(s, nextRun'[s])
           /\ OnGrid(s, nextRun[s]) => nextRun'[s] > nextRun[s]]_vars

SlotsOf(c, s) == {d \in claims[c] : d.sched = s}

(* "Guarantees a stable cadence even after collector downtime (no catch-up *)
(* bursts)": of the slots that passed while its process was down (or while *)
(* nobody ran) a collector claims none, up to tolerance and clock skew; it *)
(* claims no slot further ahead than that; and since its start it has not  *)
(* claimed more slots of a schedule than intervals have passed (and two:   *)
(* the first one, and the one at the schedule's creation, which is not on  *)
(* the grid), however long its ticks took and whatever others rescheduled. *)
NoBurst ==
    \A c \in Collector :
      /\ \A d \in claims[c] : d.slot \in since[c] .. clock + Slack
      /\ \A s \in Schedule :
           (Cardinality(SlotsOf(c, s)) - 2) * Interval[s] <= clock + Slack - since[c]

(* A queued run is picked up although loop and workers share one condition *)
(* variable and are woken one at a time.                                   *)
QueueServed ==
    \A c \in Collector : queue[c] # << >> ~> queue[c] = << >>

(* Stop returns: every thread notices m_stop and exits.                    *)
StopReturns ==
    \A c \in Collector : phase[c] = "stopping" ~> phase[c] = "down"

(* Without storage failures and crashes every row of command_runs gets its *)
(* result, also for the runs that Stop cancels. (No tick starts new runs   *)
(* after MaxTime, so there is a moment when all rows have theirs.)         *)
Open == {i \in DOMAIN runs : ~runs[i].finished}

RunsRecorded == Open # {} ~> (Open = {} \/ failures > 0)

(* "Another scheduler (or an old tick) must not double dispatch this slot." *)
(* (command_scheduler.cpp:120)                                             *)
SlotDispatchedOnce == twice = {}
=============================================================================
