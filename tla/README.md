# A TLA+ model of PudimNetMon

PudimNetMon is a network monitor: **agents** probe the network and send batches
of metrics to one of several **collectors**; collectors store them (directly or
through Kafka), evaluate alert rules, serve an HTTP API to a dashboard and run
commands on agents on a schedule. This directory specifies the parts of it
whose correctness depends on interleavings, failures and order.

## 1. Inventory

| Component (source) | State it keeps | Operations | Hard behaviour | What makes it correct |
|---|---|---|---|---|
| Agent main loop (`agent/src/main.cpp`) | deque of batches, counters, interval | drain queue, spill, send, drain disk, heartbeat | crash between send and pop, failed calls, late ingestion | no batch forgotten, order kept, duplicates only with a cause |
| Probe runner (`agent/src/probe_runner.cpp`) | bounded queue, thread pool, cycle barrier | RunLoop, Drain, RunCycle, Stop | two threads on the queue; lost wakeup of the cycle barrier | bounded, oldest lost first; a batch is what the configuration asks for; a cycle ends |
| Disk buffer (`agent/src/disk_buffer.cpp`) | SQLite table, row and byte counters | Open, Push, Peek, Pop, Size, Trim | every statement may fail; power loss rolls back | FIFO, counters exact, size limit |
| Failover client (`agent/src/metrics/failover_client.cpp`) | endpoint, strikes | OnSendFailure, OnSendSuccess | shared by heartbeats and sends | a living endpoint is reached |
| Metrics and heartbeat clients | backpressure flag | SendBatch, StreamMetrics, SendHeartbeat | 10 s deadline against a slow collector | an acknowledged batch was ingested |
| DNS resolver (`agent/src/dns_resolver.cpp`) | cache, in-flight lookups | Lookup and its detached thread | two critical sections per lookup, callers that stop waiting | whom a caller waits for, a thread is working for |
| Probes (`agent/src/metrics`) | none between probes | lookups, connects, handshakes, pings | waits with, without and with a renewable time limit, late and duplicated ICMP replies | every probe ends and leaves its metrics |
| Diagnostic service, config store, commands | probe configuration, running tools | Reconfigure, RunDiagnostic, RunCommand | replaced while a cycle runs; tools that outlive their caller | a cycle uses one configuration; results come before the deadline |
| Command scheduler (`collector/src/command_scheduler.cpp`) | queue, busy agents, active calls; tables command_schedules, command_runs | Loop, WorkerLoop, ExecuteRun, Start, Stop | several collectors on one database, stale clock readings, stop racing a call, one condition variable for all threads | a slot runs once, cadence kept, Stop returns |
| Alert manager (`collector/src/alerting`) | rules, states, history, rules file | Upsert, Delete, Evaluate, Ack | several handler threads evaluate at once, file written before memory, notifications outside the lock | alert list, history, notifications and file agree; alerts end |
| Metrics service, storage | connection, tables | SendMetrics, StreamMetrics, InsertMetrics | retries while the first call still runs, chunked inserts | what is acknowledged is stored, once |
| Kafka path (`collector/src/kafka`) | producer queue, offsets | produce, consume, commit | acknowledgement before delivery, commit past a failure | a metric is stored or lost in a known place |
| Agent registry (`collector/src/agent_registry.cpp`, `agent_service.cpp`, `agent_endpoint.cpp`) | endpoint and last heartbeat per agent | record, remove, look up | late, lost and slowed heartbeats; agents that move, fail over and advertise what they have left; read in two steps | dead and reached agents are what they seem |
| HTTP server (`collector/src/http_server.cpp`) | a pool of four threads | forwards calls, edits rules and schedules, serves installers | deadlines against slow agents, stale endpoints | the right agent, in time |
| Installer mirror (`collector/src/release_mirror.cpp`, `installer_dist.cpp`) | directory, version file, manifest | sync, scan, download | failing downloads and writes, unreadable files, a reader between two steps of the mirror, restart | manifest and files agree, no partial file is served |
| Dashboard, infrastructure | rendered views | | | not modelled: presentation |

Agents call collectors by gRPC (heartbeats, batches, streams). A collector
calls an agent's diagnostic service for commands. Collectors share the database.

## 2. Modules

| Module | Models |
|---|---|
| `SpillQueue` | abstract: the persistent FIFO queue the main loop relies on |
| `DiskBuffer` | the SQLite buffer in detail; implements `SpillQueue` (`QueueSpec`) |
| `Failover` | strikes and endpoint rotation |
| `DeliveryContract` | abstract: what the agent promises about a batch |
| `AgentDelivery` | composes `SpillQueue` and `Failover` with the probe queue, the main loop, the network and crashes; implements `DeliveryContract` (`ContractSpec`) |
| `CommandScheduler` | collectors with loop thread and workers, the two tables, the HTTP edits of schedules |
| `AlertManager` | rules and rules file, evaluation in the handler threads, history, acknowledgement, notification |
| `MetricsIngest` | a batch from the call of the agent to the rows of `network_metrics`, directly or through Kafka |
| `DnsResolver` | cache, in-flight table and detached threads of the agent's resolver |
| `ProbeCycle` | probe thread, thread pool, probes, configuration store; composes `DnsResolver` |
| `AgentRegistry` | pace, loss and late answers of heartbeats, failover to and from other collectors, advertised endpoints, liveness window |
| `RemoteCalls` | calls to agents by the HTTP server and the scheduler's workers, and what agents run for them; composes `AgentRegistry` |
| `InstallerMirror` | release mirror, scan, manifest and downloads |
| `CollectorHttp` | one collector around its HTTP server: composes `RemoteCalls` and `InstallerMirror`, with restarts |
| `AgentDeliveryProofs` | type correctness of `AgentDelivery` and the sequence lemmas |
| `AgentSafetyProofs` | the inductive invariant and the safety theorems of `AgentDelivery` |
| `DiskBufferProofs` | invariant, growth and refinement of `DiskBuffer` |
| `ProbeProofs` | the inductive invariants and safety theorems of `DnsResolver` and `ProbeCycle` |
| `SchedulerProofs` | the inductive invariant, safety and cadence of `CommandScheduler` |
| `AlertProofs` | the inductive invariants and the safety theorems of `AlertManager` |
| `IngestProofs` | the inductive invariants and the safety theorems of `MetricsIngest` |
| `HttpProofs` | the inductive invariants and the safety theorems of `CollectorHttp` and its parts |
| `MC*` | finite instances |

### AgentDelivery

A batch is its production number. `pc` is the position in the body of the
`while (s_running)` loop: `top` (heartbeat), `drain`, `fill`, `decide`, `send`,
`disk`. Between any two positions the probe thread (`Produce`), a late
ingestion, a sync of the database, a crash or a power loss may happen; each
position is one call or one locked region of the code. "The interval elapsed"
is a free choice, so the pacing has no state. `Good`, `Dead`, `Poison` and
`Corrupt` say which endpoints always or never answer, which batches every
collector rejects, and which spilled blobs no longer parse. `copies`, `late`
and `retried` describe the other side of the wire; `lost` and `dropped` are
history: `dropped` is what the code counts in `buffer_drops`, `lost` is what
leaves the agent uncounted (queue overflow, trimmed rows, corrupt rows, memory
at process end, unsynced rows at a power loss).

### DiskBuffer

The table and `synced` are in the file, `rows` and `bytes` in the process. `Open`
has four endings; the one that fails after `sqlite3_open` leaves the handle set.
A scan may end early on an error, a `DELETE` may fail. `Wrap` stands for 2^64.

### CommandScheduler

Time is counted in ticks of the loop. `Tick` reads the clock (off by at most
`Skew`), then reschedule, list, each claim and each enqueue are steps of their
own, since each is one SQL statement or one locked region. `NotifyOne` chooses
any thread waiting on the condition variable, also the loop thread, which
ignores it. A storage call may fail before or after its effect (`Fault`).
`ListDue` returns the `DueLimit` oldest of the rows in question. `StartRpc` registers
the context and starts the call. `taken`, `twice` and `early` are history, as are
`since` and `claims`: when a process started, less tolerance and skew, and the
slots it has claimed.

### AlertManager

`Evaluate` is split where another thread may come in between: the unlocked test
of `m_rules.empty()` (`EvalEnter`), taking the lock and reading the clock
(`EvalLock`), one step per rule and metric (`EvalRule`, with the five outcomes
`Fire`, `Renotify`, `Hold`, `Resolve`, `Quiet`), and the notifications after the
lock is released (`Notify`). `Free` says nobody holds `m_mutex`. An edit that
has a file is two steps, since opening it truncates it: `BeginEdit`, then
`EditWritten` or `EditFailed`, with the lock held in between; the process may
stop there. A metric is reduced to how its value relates to the threshold, a
rule to its kind, its scope and its repeat interval; rules with one id but
different content are different elements of `Rule`. `FiringState` is the sets
`firing` and `acked` and the function `lastNotified`. `announced` and `forgotten`
are history: what the notifiers heard last, and which alerts vanished with their
rule. `raced` holds the agents of which two batches were evaluated at once, as
happens when a call ran into its deadline and was repeated.

### MetricsIngest

The agent sends its oldest batch until it is acknowledged; `GiveUp` is its
deadline, after which the handler runs on and the batch is sent again. A row is
`<<batch, metric, timestamp>>` because the timestamp is part of the primary key:
`ON CONFLICT DO NOTHING` is set union. Direct mode stores under the time of
receipt, Kafka mode under the time the message carries. `InsertOk` and
`InsertCut` are one statement and the chunked case, where the cleared `sql` string
makes every chunk after the first invalid; `InsertFault` covers a lost
connection before or after the effect. Producer queue, partition and consumer
are `outq`, `log` and `cpc`, `position`, `committed`. Broker and librdkafka are
external: they deliver in order and once, or give up (`DeliveryFailed`).
`attempted`, `failed`, `skipped` and `undelivered` are history and name the places
where a metric can be lost. `load`, chosen from `Workloads`, is the batches, the
mode and the number of failures of a behaviour.

### DnsResolver and ProbeCycle

`Lookup` is two critical sections, as in the code: `LookupCall` answers from the
cache, joins a lookup under way or finds neither; `LookupRegister` then makes an
entry, overwriting one that came in between. The detached thread is `Resolve`
(getaddrinfo returns, everybody who waits has the answer) and `Finish` (table and
cache). Times to live and the 3 s wait are free choices (`Expire`,
`LookupTimeout`).

`RunCycle` keeps tasks, slots, counter, mutex and condition variable on its
stack; in the model they are `next`, `slots`, `remaining` and the positions
`check`, `toBlock` and `blocked` of the probe thread. Testing the predicate and
blocking are two steps because the last task counts down and notifies without
the mutex. `task` of a worker that is about to notify remembers the cycle: when
`RunCycle` has returned meanwhile, the call has no effect or wakes the next
cycle's wait. A probe is a sequence of stages (`Stages`), each a lookup or a wait
for the network; a thread goes on to the next stage or ends the probe, and a
metric is kept either way. All waits have a limit but `SSL_connect`; `Silent` is
the targets that may never answer it. The limit of a ping is that of one `recv`:
`PingIdle` says that it has nearly passed, `ForeignPacket` that some other ICMP
packet starts it anew, and only a `recv` that stays idle loses the ping. A reply is
known by process id and number only; `ReceiveReply` takes late and duplicated ones
for the ping under way, whoever sent them.

### AgentRegistry, RemoteCalls, InstallerMirror and CollectorHttp

A tick is one heartbeat interval. Due heartbeats, expired limits and calls on
their way disable the tick, so deadlines are exact. An agent beats every tick, every `Backoff` ticks when the collector is
overloaded, or not at all while its loop delivers batches (`pace`). The collector's
record of a heartbeat (`Receive`) and the arrival of the answer
(`HeartbeatAnswered`) are two steps, up to the deadline apart, and the answer may
get lost. `entry` is `m_agents` with ages instead of times. `here` is the agents that
use this collector at present; `FailOver` takes them to another one and back.

An agent finds out the endpoint it advertises when it connects (`Advertise`: the
configured one, else its local address, else none, if the name of the collector
cannot be resolved) and reports it unchanged until it reconnects; without one the
collector takes the address the heartbeat came from. A place carries with the
endpoint how often the agent had moved when it was found out and whether it was
the agent's own, which it is not behind a NAT or if configured wrongly. `Start`,
`Stop` and `Readdress` move an agent; the last leaves `advert` alone, so it goes
stale.

A call is prepared from the entry, arrives at whichever agent listens there, and
ends with an answer, a failed or broken connection or the deadline. What an agent
runs for it is a sequence of tool limits (`Plans`); the agent looks neither at the agent_id
of the request nor at its cancellation, so what it executes stays in `exec` when
the caller has left. `wrong` and `gaveUp` are history. The scheduler's queue is in
`CommandScheduler`; here a worker picks any run of an agent that is not busy.

The mirror's content is the release a file is from and whether it is whole.
A sync is one step per download (to a `.part` file, then a rename), truncation
and writing of `version.txt`, either of which may fail unnoticed, and a scan if
something was downloaded. A scan skips files it cannot read (`Scanned`). A download
is the handler's three calls `Has`, `Load` and `DownloadName`, each under the
lock.

## 3. Runs

| Run | Question |
|---|---|
| `disk_buffer` | Are counters exact, is the limit kept, does the buffer implement the queue, under every failing statement? |
| `agent_delivery` | Is every batch accounted for, in order, duplicated only with a cause, and is the contract implemented (a power loss brings back only what a collector has or what was given up)? |
| `agent_delivery_live` | Does failover get a batch out of the deque, past a dead endpoint, a flaky one and a batch nobody accepts? |
| `probe_cycle` | Is a batch what its configuration asks for, does a cycle end, do joined lookups get their answers? |
| `scheduler_shared` | Do two collectors on one schedule respect claim guard, "no catch-up" and cadence: after its first slot, the time it was created, does next_run stay on the grid and only move forward there? "No catch-up" is counted over the life of a process: no slot that passed before it started, no more slots than intervals. |
| `scheduler_live` | Is the busy set exact through failures and crashes, is the queue served, does Stop return, are runs recorded? |
| `collector_http` | Are agents shown dead, called and kept waiting for only for the reasons the code has, and are manifest and downloads of installers consistent? |
| `scheduler_double_dispatch` | (violation) Is a slot dispatched once? |
| `alert_states` | Do two threads on one agent, edits, failing files and restarts keep alert list, history, acknowledgements, file and notifications consistent, and does every alert end when good readings of its target keep coming among high and failed ones? |
| `alert_failed_probe` | (violation) Does a failed probe leave a threshold alert alone? |
| `ingest` | Is an acknowledged metric stored, on its way, or lost in a known place, is it stored once, and does every batch and every message get through once nothing fails any more? |
| `ingest_failed_message` | (violation) Is a message whose insert failed delivered again? |

### Bounds

`agent_delivery` uses four batches, a probe queue of one, a deque of two, one
process end: the fourth batch is produced when queue and deque are full and a
row is on disk, so overflow, spill, refusal, drain and loss all occur; batch 2 is
corrupt on disk and batch 4 is rejected by every collector. Copies saturate at
two. `disk_buffer` uses payloads of one and two bytes, limits of two and four
bytes that change between three starts, and five rows. `scheduler_shared` (3 090 000 states) has two
collectors with clocks off by one tick and no workers (claims do not depend on
them), a schedule from the start with an interval of 3 ticks and a clock up to 3,
so that the slot at its creation and the first of the grid can both be claimed,
and a process that starts again meets slots that have passed; `scheduler_live`
(299 752 states) has one collector with two workers and two schedules of two
agents, one failing storage call or crash, and a list limited to one row, so that
the limit bites. The interval of `s2` is so short that its second slot comes while
the run of the first executes: the loop also meets a busy agent (`EnqueueSkip`). Collectors are
interchangeable, so symmetry is used in the run without liveness.
`alert_states` (128 266 states) has two threads that evaluate batches of one
agent, three rules with one id (a threshold rule, one on failures and one that
matches nothing, so that an edit can take a firing key out of scope), one tick
of the clock, one edit and one process end; a history of two records is cut.
One batch has a high reading, good for the rule on failures; the other a low and
a failed one of the same target, so that it resolves the threshold alert by its
good reading and resolves and fires the other rule in one evaluation.
`ingest` (609 000 states) has two workloads: directly, a stream of two pieces, an
empty batch and one that exceeds an INSERT with three failures; through Kafka, a
streamed and a single batch, an unparseable message and two failures, which is
enough for a failed insert followed by a failed commit and a lost answer
followed by a restart. Two handlers let a call the agent gave up run on.
`FlushThreshold` and `BatchSize` are equal, as they are in the code (500).

`agent_delivery_live` has one endpoint of each kind, in the order in which
failover meets the living one last, and a rejected batch with one before and one
behind it. Without either exception in `BufferDrains` the run fails.

`probe_cycle` (333 848 states) has a pool of two and three configurations: TCP
and TLS with a handshake capture, name lookups with two probes in one task and
the kernel clock, and pings of two targets. Another configuration can be
installed at any time. Three probes allow for a second cycle after a short one,
which a late notification of the first needs. Two `PendingLookup` objects let a
caller that bypasses the cache overwrite another's entry.

`collector_http` (1 229 705 states) starts in one of seven scenarios, each with
its own number of faults, calls, syncs and downloads: heartbeats alone with three
faults (enough for losses, an overload and a failover with return); a call while
agents move, with and without an advertised endpoint; an agent behind a NAT whose
inside address is another agent's; two calls at once with a restart; two syncs
with two failures (of a fetch, of either step of `version.txt`, of a scan or a read)
and a download; and a mixture. The window is 3 ticks and the deadline 1, the
proportion of the code (30 s and 10 s); the interval, half a deadline in the code
(5 s), is rounded up to one. The theorems hold for 6, 2 and 1 as well. Other deadlines and limits keep the
order of the code's: 2 version checks and 2 runs of speedtest fit into the HTTP
deadline but not into the scheduler's. One pool thread and two workers suffice
for the overlaps the properties speak of.

### Fairness

The main loop of the agent keeps running (it has no exit but `s_running`), a
stopped agent is restarted by its service manager, and `DecideSend` is strongly
fair because the send interval elapses again and again while a batch waits. The
threads of the scheduler are weakly fair; the fairness of a worker in a call is
justified by the deadline every call has. No fairness is assumed of time, of
HTTP requests, of failures or of the collectors' answers (in the live run the
endpoints are constants: dead, flaky or good). In `alert_states` the evaluation steps of a
thread are strongly fair, since waiting for `m_mutex` is the only thing that can
interrupt them and the mutex is assumed not to starve a thread; every batch in
`Batches` is sent again and again. In `probe_cycle` threads that can go on do,
timed waits end unless started anew, getaddrinfo returns, and TLS peers outside
`Silent` answer or close; nobody relies on spurious wakeups, replies to pings,
foreign packets that stay away, or reconfigurations.
`collector_http` checks safety only. In the ingestion run handlers, consumer,
producer and the agent's repetition are weakly fair; failures are bounded, which
stands for "eventually nothing fails".

## 4. Proofs

Every safety property of the passing runs, including the action properties and
the two refinements, is also a theorem about every value of the constants. The
inductive invariants were model-checked on the runs' instances first.

`AgentDeliveryProofs` proves `TypeCorrect == Spec => []TypeOK`: the probe queue
and the deque never exceed their limits. `AgentSafetyProofs` proves, for every
number of batches, endpoints, crashes and every limit, from `DeliveryAssumption`
and `FailoverAssumption`:

* `NothingForgotten == Spec => []Accounted`
* `ProductionOrder == Spec => []InOrder`
* `OldestDropped == Spec => []DropsOldest`
* `DuplicatesProvoked == Spec => []NoUnprovokedDuplicate`

None of these is inductive alone. `IInv` adds: `FreshMoved` (outside the fill
loop `fresh` is empty; otherwise `Drain` could overwrite batches), `Known`
(nothing is held, dropped or ingested before it is produced; otherwise `Produce`
could break the order), `Increasing(synced)` (a power loss restores `synced`) and
`Provoked` (what the agent still holds although a collector has it, and what a
late call may still ingest, was part of a failed exchange; otherwise the next
ingestion would be an unprovoked duplicate). The argument treats the sequences
through their ranges: a step appends one newest batch (`ProduceOrder`), moves a
front piece to the end of the next sequence (`DrainOrder`, `FillFacts`), takes a
batch out (`ExchangeFacts`, from `ShrinkOrder`), or empties memory (`EndFacts`).

`AlertProofs` proves, for every set of threads, rules, agents and batches and
every history limit, from `AlertAssumption`:

* `AlertTypes == Spec => []TypeOK`
* `FileNeverStale == Spec => []NeverStale`
* `AlertsHaveRules == Spec => []NoOrphan`
* `AcksEnd == Spec => []AckOnlyFiring`
* `HistoryInOrder == Spec => []HistoryOrdered`

Its `IInv` adds what `m_mutex` gives: `Exclusive` (a thread that evaluates is
alone, no edit is under way and what it still compares are rules in force;
otherwise an alert could be raised for a deleted rule), `TodoInside` (only such a
thread has rules to compare), `EditPending` (while an edit is written the file
does not load, and the edit drops no rule but the one it deletes; otherwise the
commit could leave a stale file or an alert without a rule), `DownEmpty` (a
collector that is down holds nothing, so a start begins empty) and `Stamped` (a
thread reads the clock under the lock, so no record is younger than its time;
without it the next record could precede the last). The history is handled by
`HistoryFacts`: a step adds one record and drops at most the oldest.

`StoryInv` makes `HistoryTells == Spec => []HistoryAgrees` and
`RepeatsSpaced == Spec => []RepeatSpacing` inductive: `Counted` says that no record
of an active alert is younger than the time its interval counts from, so that a
repetition keeps its distance from all earlier records, not only from the last.
`NotifiersAgree == Spec => []AnnouncementsAgree` needs `NoteInv`: the last
notification of a key still to be sent says what its state is (`LastNoteAgrees`),
unless two threads have batches of its agent, and these are recorded as a race
before either evaluates (`Alone`).

`ImplementsContract == Spec => ContractSpec` (in `AgentSafetyProofs`) maps each
step of `AgentDelivery` to a step of `DeliveryContract` or to none. Beyond `IInv` it
needs `SyncedApart`: a row that a power loss can bring back has left the memory.
Hence what comes back was ingested or given up before, which is what the
contract's `GiveUp` allows.

`DiskBufferProofs` proves, from `DiskBufferAssumption`:

* `CountersHold == Spec => []CountersExact`
* `GrowthLimited == Spec => GrowthWithinLimit`
* `ImplementsQueue == Spec => QueueSpec`

`BufferInv` adds to `CountersExact` that a process without a handle is not alive
(`HandleInv`) and that whenever the counter exceeds the limit it covers the whole
table (`CoveredInv`): a failed size scan of `Pop` makes the byte counter too large,
never too small. The proof rests on what `TotalBytes` does to a split sequence
(`TotalSplit`), an appended row (`TotalAppend`) and a removed front (`TrimFacts`,
`PopFacts`).

`ProbeProofs` proves, for every set of workers, targets, configurations and
lookups, from `ResolverAssumption` and `CycleAssumption`:

* `LookupsServed == DnsSpec => []InflightServed`, and
  `ProbesServed == Spec => []InflightServed` for the resolver inside the probe cycle
* `FrameOutlivesTasks == Spec => []FrameAlive`
* `BatchesWhole == Spec => []CycleWhole`

`ResolverInv` adds `CallFormed`: only a call that waits refers to a lookup, so that
`Resolve` answers exactly those who wait; and a thread past getaddrinfo has left
its result, so that nobody joins a lookup that will not answer any more. The two
delicate actions are `CallerRegisters` (the new entry replaces another, whose own
callers still wait for it) and `ThreadFinishes` (an entry that is not this
lookup's stays). `CycleIsDns` shows that the probe cycle takes steps of `DnsNext` or
leaves the resolver alone. `CycleInv` carries the cycle: outside its own part no
thread has probes left (`JobInv`); the barrier has as many slots as the
configuration has tasks and counts the tasks not submitted, queued and running
(`BarrierInv`); a task is queued once or runs in one worker (`ShareInv`); the slot
of a task, followed by what its worker still has to do, is the task (`SlotInv`);
and the result so far is the metrics of the first probes of the configuration
(`OutInv`). The counter reaches zero only with nothing queued and nobody running,
so every slot is complete when it is collected (`CheckKeeps`).

`SchedulerProofs` proves, for every number of collectors, workers and schedules,
any skew and limit, from `SchedulerAssumption`:

* `ClaimGuardHolds == Spec => []ClaimGuard`
* `NoBurstHolds == Spec => []NoBurst`
* `BusyExactHolds == Spec => []BusyExact`
* `StableCadenceHolds == Spec => StableCadence`

`LoopInv` says that what a loop has listed or claimed is of its tick; `ClaimInv`
that a slot claimed at its time is behind next_run and held by one loop only;
`WorkInv` that a worker has a run exactly while it executes one and that a process
that is down has nothing; `BusyInv` that no agent has two runs and that the busy
set covers them. The arithmetic is in `NextSlotFacts` and `EarlySlot`: a slot that
is claimed early moves next_run to the grid, since the tolerance is smaller than
any interval. `BurstInv` is what `NoBurst` needs: what a loop has listed or claimed
lies between the start of its process and the present, up to tolerance and skew,
whatever the clock did since its tick read it, and every claimed slot but one, the
schedule's first, is on the grid; so the claimed slots are multiples of the
interval in a stretch of known length (`Spread`) and there are no more of them than
fit into it. Once on the grid, next_run goes only forward; the first slot is the
time of creation, off the grid, and its early claim may set next_run back to it.

`IngestProofs` proves, for every workload and any number of handlers and
failures, from `IngestAssumption`:

* `AckedTraceableHolds == Spec => []AckedTraceable`
* `StoredOnceHolds == Spec => []StoredOnce`

`IngestInv` follows a batch through its handler (`HandlerOK`: what has been handed
on is stored or accounted for, and so is all of it when the waiting agent is
about to be told so) and through the consumer (`ConsumerOK`: what is about to be
committed is stored). `KeyInv` says that every copy of a metric sent by
`SendMetrics` carries the batch's own time, in queue, log and table.

`HttpProofs` proves, for every number of agents, addresses, threads and
installers, from the assumptions of `AgentRegistry`, `RemoteCalls`, `InstallerMirror`
and `CollectorHttp`:

* `DeadExplainedHolds == Spec => []DeadExplained`
* `RightAgentHolds`, `ResultInTimeHolds`, `HeavyApartHolds` for `RightAgent`,
  `ResultInTime` and `HeavyApart`
* `ManifestHonestHolds`, `ServedWholeHolds` for `ManifestHonest` and `ServedWhole`

`RegistryInv` bounds the age of an entry that has no other excuse by one deadline
for each heartbeat lost since, one for the answer to the heartbeat that was
recorded and the age of the one under way (`AgeOK`); the argument is that the loop
sends again as soon as it no longer waits. It ties a place to the number of times
the agent has moved: one that was the agent's own and is of its last move is where
the agent is (`Located`), in what it advertises, in heartbeats under way or late, in
the entry and in calls. `CallInv` ties an execution to the call it
belongs to: as long as somebody waits for it, more time is left than the tools it
may still run can take (`Matched`), by a case analysis of the plans (`PlanFits`).
`MirrorInv` says that an offered file exists and has the manifest's hash unless the
sync under way has replaced it (`Offered`), what a sync has got and written
(`SyncOK`), that the version is theirs after a complete one (`CompleteOK`), and that
a download has read a file of its platform (`DownloadOK`).

The invariants themselves are theorems too (`BufferInvariant`, `SchedulerInvariant`,
`IngestInvariant`, `RegistryInvariant`, `CallInvariant`, `MirrorInvariant`).

### Assumptions

What the constants are assumed to satisfy, besides types and distinctness:

* `SchedulerAssumption`: the tolerance is smaller than any interval. The code has 2 s
  (`timescale_storage.cpp` kToleranceMs) against a minute, which the HTTP server
  enforces (kMinIntervalSec).
* `RegistryAssumption`: window, deadline and back-off are positive; `DeadExplained`
  says for any of them how many losses a dead agent has. `CallsAssumption`: two version checks and two
  runs of a tool fit into the deadline of the HTTP server, one run into that of
  the scheduler. These are relations between constants of agent and collector.
* `DiskBufferAssumption`: a table of at most `MaxRows` rows has fewer than `Wrap`
  bytes, `Wrap` being 2^64: no file is that large.
* `CycleAssumption`: the pool is finite, configurations are of the type
  `ProbeConfig`, and the resolver's keys include every pair of target and kind of
  lookup.
* `IngestAssumption`, `DeliveryAssumption`, `AlertAssumption`, `ResolverAssumption`,
  `MirrorAssumption`: types and distinct model values.

### Recursive definitions

`TotalBytes` (`DiskBuffer`) and `FlattenSeq` (the metrics of `ProbeCycle`) are
recursive functions on sequences of any length. The proofs need that such a
function exists and what it does to a longer sequence. The library's induction
theorems take an operator as a parameter, which the provers cannot instantiate;
instead a least counterexample is derived from the well-foundedness of the
natural numbers (`LeastExists`), for one concrete set at a time (`SumsExist`,
`SumParallel`, `JoinsExist`, `JoinFacts`, `FlattenStep`).

### Only model-checked

The liveness properties (`BufferDrains`, `CycleEnds`, `QueueServed`, `StopReturns`,
`RunsRecorded`, `AlertsEnd`, `IngestSettles`), which need fairness, and the three
violations.

## 5. Findings

Runs show these, with the line the code contradicts quoted in `PROJECT.json`:

* A scheduled slot can be dispatched two or three times
  (`scheduler_double_dispatch`). `ClaimGuard` shows the exact extent: only a slot
  claimed before its time.
* A failed probe resolves a threshold alert (`alert_failed_probe`).
* A message whose insert failed is passed over by the next commit
  (`ingest_failed_message`), so an outage of the database loses metrics the agent
  was told are accepted.

These are behaviours of the model that no run singles out; a property of a
passing run draws their limit:

* A worker that registers its call after Stop cancelled the registered ones
  starts a call nobody cancels; Stop waits for its deadline (`StopReturns`).
* `Open` may fail with the handle set; the disk is then used although the agent
  logged that it buffers in memory only. It is still a queue (`QueueSpec`).
* A failed write, or a process end while writing, leaves a truncated rules file
  beside the rules in memory, and the next start has neither rules nor a file to
  edit. A file that loads is never an older or rejected set (`NeverStale`).
* A batch of more than `batch_size` rows in one `SendMetrics` is stored in part,
  refused, and repeated for ever, with every batch behind it. It is never
  acknowledged in part (`AckedTraceable`), and the others are accepted
  (`IngestSettles`).
* In direct mode, and for streams in both modes, a repeated batch is stored
  twice under another time; through Kafka with `SendMetrics` once (`StoredOnce`).

* The notification of the last probe task can come between test and sleep of the
  probe thread, which then waits for ever; a TLS peer that accepts and says
  nothing has the same effect, and so have foreign ICMP packets that keep coming
  less than 3 s apart while a lost ping is awaited. There is no fourth way
  (`CycleEnds`). The
  notification can also come after `RunCycle` returned, when its condition
  variable is gone; nothing else is used that late (`FrameAlive`).
* `Reconfigure` before `main` stores the configuration of the file is overwritten
  without a trace.
* A late or duplicated ICMP reply to one target is counted for another. Nothing
  but the number of the ping prevents it, so there is no property about it.
* An overloaded collector makes its agents beat every 50 s and shows them dead
  after 30 s; an agent busy with a backlog is shown dead too. At its own pace one
  lost heartbeat is enough, if the answer before it and the heartbeat after it take
  their 10 s; late answers alone are not (`DeadExplained`).
* A command can be executed by another agent than the one asked for: an agent
  whose machine got another address advertises the old one until it reconnects
  (`RightAgent`).
* `command_scheduler.cpp:17` says "Longest a scheduled command may run on an
  agent." and `:127` "One heavy command per agent at a time": the agent runs on
  after the deadline, and commands asked for through the HTTP server are not
  counted (`HeavyApart`). A speedtest that is repeated with other flags (up to
  870 s) outlives the 600 s of the scheduler, not the 900 s of the HTTP server;
  ping_burst and smartctl may outlive both (`ResultInTime`).
* Four commands that take 900 s each hold all threads of the HTTP server.
* After a sync that got only some installers the manifest shows the new version
  for files of the old release; an empty `version.txt` can be scanned after a
  restart, or after a write that failed (`ManifestHonest`). The result of `fclose` is not looked at, so a full
  disk can leave a cut file under its final name (`ServedWhole` excludes only
  files still being fetched).
* On shutdown the storage consumer joins the thread of its HTTP server, which
  nothing stops. A crash between `InsertCommandRun` and `FinishCommandRun` leaves
  a run without result. Firing states are not kept across a restart.

## 6. Plan

Done: the delivery path with its disk buffer, failover and contract; the command
scheduler; alerting; ingestion, direct and through Kafka; probe cycle and
resolver; registry, calls to agents and the installer mirror around the HTTP
server. Left, in this order:

1. Pruning of old run history.
2. Two collectors with a registry each: here the other one is where `FailOver`
   leads.
3. Type correctness of every component as a theorem of its own.

## 7. Not modelled

Measured values, parsing of targets, certificates, packets and tool output; the
command line, TLS set-up and identifiers; JSON and text rendering, HTTP handlers
that only read, queries and schema set-up of the database; the dashboard,
packaging of installers and infrastructure: I/O and presentation without
protocol state. `agent_dist.cpp` scans its directory once at start and never
changes afterwards. `DnsResolver::Clear` is called by nothing, `RunAllProbes` by
tests only. Pruning of old run history. Wall-clock jumps backwards. Negative
`max_buffer_size`, which is undefined in the code. Windows variants of probes and
commands.
