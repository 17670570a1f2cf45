----------------------------- MODULE ProbeCycle -----------------------------
(***************************************************************************)
(* One agent's probe thread (agent/src/probe_runner.cpp RunLoop, RunCycle),*)
(* its pool of workers, the probes they run (agent/src/metrics/probes.cpp, *)
(* pcap_probe.cpp) on the shared DnsResolver, the configuration store      *)
(* (agent/src/metrics/probe_config.h) with its writers Reconfigure         *)
(* (diagnostic_service.cpp) and start-up (main.cpp), and Stop.             *)
(*                                                                         *)
(* RunCycle keeps tasks, result slots, the counter "remaining", a mutex    *)
(* and a condition variable on its stack: its frame. The last task counts  *)
(* down and notifies without the mutex. A metric is <<check, target>>; the *)
(* measured values are left out. AgentDelivery models the queue of batches.*)
(***************************************************************************)
EXTENDS DnsResolver, Integers, Sequences, FiniteSets, SequencesExt

CONSTANTS
    Worker, Loop,       \* pool threads; the thread of RunLoop (a Caller too)
    Target,
    Silent,             \* targets that accept a connection and may never
                        \* answer the TLS handshake
    FileConfigs,        \* what main may find in cfg.probe_cfg
    Requests,           \* configurations Reconfigure may install
    MaxProbes,          \* bound: probes of all cycles together
    MaxReconfigs        \* bound: calls of Reconfigure

(* ProbeConfig: sequences of targets dns, tcp, tls, http (a URL with one   *)
(* of its protocols) and pings, the number of pings, and the flags. All    *)
(* targets are well formed: the probe of another one fails at once.        *)
Config ==
    [dns : Seq(Target), tcp : Seq(Target), tls : Seq(Target), http : Seq(Target),
     pings : Seq(Target), count : Int,
     ntp : BOOLEAN, retransmit : BOOLEAN, cert : BOOLEAN, handshake : BOOLEAN]

(* What a lookup can ask for of a target: a stage of its probe.            *)
LookupStage == {"name", "canon", "v4", "v6", "service", "raw", "service4"}

ASSUME CycleAssumption ==
    /\ Caller = Worker \cup {Loop}
    /\ Loop \notin Worker /\ Worker # {} /\ IsFiniteSet(Worker)
    /\ Silent \subseteq Target
    /\ Target \X LookupStage \subseteq Key
    /\ FileConfigs \subseteq Config /\ Requests \subseteq Config
    /\ {MaxProbes, MaxReconfigs} \subseteq Nat

VARIABLES
    store,          \* ProbeConfigStore::cfg
    booted,         \* main has set the store and started the runner
    running,        \* s_running_
    lpc,            \* RunLoop and RunCycle
    cfg, capture,   \* the cycle's copy of the configuration; run_handshake
    next,           \* tasks submitted so far
    slots, remaining, out,
    missed,         \* history: the cycle's notification came between test and sleep
    tasks,          \* the pool's queue
    wpc, task,      \* each worker: the task it runs, or the cycle it notifies
    job, stage,     \* each thread: the probes left, the stage of the first
    ping,           \* the ping under way: its number, whether it was sent, and
                    \* whether the limit of its recv is about to pass
    cycles, work, reconfigs         \* cycles and probes begun

loopVars == <<running, lpc, missed, cfg, capture, next, out>>
poolVars == <<tasks, wpc, task>>
confVars == <<store, booted, reconfigs>>
cycleVars == <<loopVars, poolVars, ping, confVars, slots, remaining, job, stage, cycles, work>>
vars == <<dnsVars, cycleVars>>

-----------------------------------------------------------------------------
(* What a configuration asks for.                                          *)

Each(check, targets) == [i \in DOMAIN targets |-> <<check, targets[i]>>]
Both(first, second, on, targets) ==
    [i \in DOMAIN targets |->
        IF on THEN << <<first, targets[i]>>, <<second, targets[i]>> >>
              ELSE << <<first, targets[i]>> >>]

(* The tasks of RunCycle: each a sequence of probes.                       *)
Tasks(c) ==
    Both("dns", "record", TRUE, c.dns)
    \o Both("tcp", "retransmit", c.retransmit, c.tcp)
    \o Both("tls", "cert", c.cert, c.tls)
    \o Both("http", "", FALSE, c.http)

(* What the probe thread runs itself, after the tasks.                     *)
Serial(c, hs) ==
    Each("icmp", c.pings) \o (IF hs /\ c.handshake THEN Each("handshake", c.tcp) ELSE << >>)

(* The metrics of a probe.                                                 *)
Metrics(p) ==
    IF p[1] = "icmp" THEN << <<"loss", p[2]>>, <<"rtt", p[2]>>, <<"jitter", p[2]>> >>
    ELSE <<p>>

MetricsOf(probes) == FlattenSeq([i \in DOMAIN probes |-> Metrics(probes[i])])
NtpOf(c) == IF c.ntp THEN << <<"ntp", "kernel">> >> ELSE << >>

(* The metrics a cycle owes its configuration.                             *)
Expected(c, hs) == NtpOf(c) \o FlattenSeq(Tasks(c)) \o MetricsOf(Serial(c, hs))

(* ProbeConfig{}: no targets, every check on.                              *)
DefaultConfig ==
    [dns |-> << >>, tcp |-> << >>, tls |-> << >>, http |-> << >>, pings |-> << >>,
     count |-> 4, ntp |-> TRUE, retransmit |-> TRUE, cert |-> TRUE, handshake |-> TRUE]

FirstPing == [seq |-> 0, sent |-> FALSE, idle |-> FALSE]

Init ==
    /\ DnsInit
    /\ store = DefaultConfig
    /\ booted = FALSE /\ running = FALSE
    /\ lpc = "off"
    /\ cfg = store /\ capture = FALSE
    /\ next = 0 /\ missed = FALSE /\ slots = << >> /\ remaining = 0 /\ out = << >>
    /\ tasks = << >>
    /\ wpc = [w \in Worker |-> "idle"] /\ task = [w \in Worker |-> 0]
    /\ job = [t \in Caller |-> << >>] /\ stage = [t \in Caller |-> 1]
    /\ ping = FirstPing
    /\ cycles = 0 /\ work = 0 /\ reconfigs = 0

-----------------------------------------------------------------------------
(* Configuration.                                                          *)

(* main: the diagnostic server is already up, so this overwrites what an   *)
(* early Reconfigure has installed. Then ProbeRunner::Start.               *)
Boot ==
    /\ ~booted
    /\ booted' = TRUE /\ running' = TRUE
    /\ store' \in FileConfigs
    /\ lpc' = "top"
    /\ UNCHANGED <<dnsVars, poolVars, ping, missed, cfg, capture, next, out, slots,
                   remaining, job, stage, cycles, work, reconfigs>>

Reconfigure(c) ==
    /\ reconfigs < MaxReconfigs
    /\ reconfigs' = reconfigs + 1
    /\ store' = c
    /\ UNCHANGED <<dnsVars, loopVars, poolVars, ping, booted, slots, remaining,
                   job, stage, cycles, work>>

-----------------------------------------------------------------------------
(* RunLoop and RunCycle.                                                   *)

(* A cycle works on a copy of the configuration; the interval of the       *)
(* handshake capture may not have passed yet. The kernel clock is read.    *)
BeginCycle ==
    /\ lpc = "top" /\ running
    /\ cfg' = store
    /\ capture' \in {store.handshake, FALSE}
    /\ cycles' = cycles + 1
    /\ work' = work + Len(FlattenSeq(Tasks(store)) \o Serial(store, capture'))
    /\ work' <= MaxProbes
    /\ out' = NtpOf(store)
    /\ slots' = [i \in DOMAIN Tasks(store) |-> << >>]
    /\ remaining' = Len(Tasks(store))
    /\ next' = 0 /\ missed' = FALSE
    /\ lpc' = IF Tasks(store) = << >> THEN "serial" ELSE "submit"
    /\ UNCHANGED <<dnsVars, poolVars, ping, confVars, running, job, stage>>

(* ThreadPool::Submit. The pool's own condition variable is safe: the      *)
(* queue changes under its mutex, so a waiting worker is never missed.     *)
Submit ==
    /\ lpc = "submit"
    /\ next' = next + 1
    /\ tasks' = Append(tasks, next')
    /\ lpc' = IF next' = Len(slots) THEN "check" ELSE "submit"
    /\ UNCHANGED <<dnsVars, ping, confVars, running, missed, cfg, capture, out, slots,
                   remaining, wpc, task, job, stage, cycles, work>>

(* Mutant: the wait ends when one task is left.                            *)
Check_early ==
    /\ lpc = "check"
    /\ lpc' = IF remaining <= 1 THEN "collect" ELSE "toBlock"
    /\ UNCHANGED <<dnsVars, poolVars, ping, confVars, running, missed, cfg, capture,
                   next, out, slots, remaining, job, stage, cycles, work>>

(* wait_cv.wait tests its predicate ...                                    *)
Check ==
    /\ lpc = "check"
    /\ lpc' = IF remaining = 0 THEN "collect" ELSE "toBlock"
    /\ UNCHANGED <<dnsVars, poolVars, ping, confVars, running, missed, cfg, capture,
                   next, out, slots, remaining, job, stage, cycles, work>>

(* ... and then blocks: a notification in between is lost.                 *)
Block ==
    /\ lpc = "toBlock"
    /\ lpc' = "blocked"
    /\ UNCHANGED <<dnsVars, poolVars, ping, confVars, running, missed, cfg, capture,
                   next, out, slots, remaining, job, stage, cycles, work>>

SpuriousWakeup ==
    /\ lpc = "blocked"
    /\ lpc' = "check"
    /\ UNCHANGED <<dnsVars, poolVars, ping, confVars, running, missed, cfg, capture,
                   next, out, slots, remaining, job, stage, cycles, work>>

(* The slots are emptied into the result, in the order of the tasks.       *)
Collect ==
    /\ lpc = "collect"
    /\ out' = out \o FlattenSeq(slots)
    /\ lpc' = "serial"
    /\ slots' = << >> /\ next' = 0
    /\ UNCHANGED <<dnsVars, poolVars, ping, confVars, running, missed, cfg, capture,
                   remaining, job, stage, cycles, work>>

(* Mutant: the rest of the cycle follows the configuration of the moment.  *)
BeginSerial_live ==
    /\ lpc = "serial"
    /\ job' = [job EXCEPT ![Loop] = Serial(store, capture)]
    /\ lpc' = "probing"
    /\ UNCHANGED <<dnsVars, poolVars, ping, confVars, running, missed, cfg, capture,
                   next, out, slots, remaining, stage, cycles, work>>

(* The pings and the handshake captures.                                   *)
BeginSerial ==
    /\ lpc = "serial"
    /\ job' = [job EXCEPT ![Loop] = Serial(cfg, capture)]
    /\ lpc' = "probing"
    /\ UNCHANGED <<dnsVars, poolVars, ping, confVars, running, missed, cfg, capture,
                   next, out, slots, remaining, stage, cycles, work>>

EndSerial ==
    /\ lpc = "probing" /\ job[Loop] = << >>
    /\ lpc' = "push"
    /\ UNCHANGED <<dnsVars, poolVars, ping, confVars, running, missed, cfg, capture,
                   next, out, slots, remaining, job, stage, cycles, work>>

(* The batch is queued and the thread sleeps until the next cycle.         *)
Push ==
    /\ lpc = "push"
    /\ lpc' = "top"
    /\ out' = << >>
    /\ UNCHANGED <<dnsVars, poolVars, ping, confVars, running, missed, cfg, capture,
                   next, slots, remaining, job, stage, cycles, work>>

(* Stop: s_running_ is cleared, RunLoop leaves at the end of its cycle, is *)
(* joined, and the pool is stopped once its queue is empty.                *)
StopRunner ==
    /\ running
    /\ running' = FALSE
    /\ UNCHANGED <<dnsVars, poolVars, ping, confVars, lpc, missed, cfg, capture, next,
                   out, slots, remaining, job, stage, cycles, work>>

LeaveLoop ==
    /\ lpc = "top" /\ ~running
    /\ lpc' = "left"
    /\ UNCHANGED <<dnsVars, poolVars, ping, confVars, running, missed, cfg, capture,
                   next, out, slots, remaining, job, stage, cycles, work>>

StopWorker(w) ==
    /\ lpc = "left" /\ wpc[w] = "idle" /\ tasks = << >>
    /\ wpc' = [wpc EXCEPT ![w] = "ended"]
    /\ UNCHANGED <<dnsVars, loopVars, ping, confVars, slots, remaining, tasks,
                   task, job, stage, cycles, work>>

-----------------------------------------------------------------------------
(* The pool.                                                               *)

TakeTask(w) ==
    /\ wpc[w] = "idle" /\ tasks # << >>
    /\ wpc' = [wpc EXCEPT ![w] = "run"]
    /\ task' = [task EXCEPT ![w] = Head(tasks)]
    /\ job' = [job EXCEPT ![w] = Tasks(cfg)[Head(tasks)]]
    /\ tasks' = Tail(tasks)
    /\ UNCHANGED <<dnsVars, loopVars, ping, confVars, slots, remaining, stage,
                   cycles, work>>

(* The task has returned: fetch_sub.                                       *)
TaskDone(w) ==
    /\ wpc[w] = "run" /\ job[w] = << >>
    /\ remaining' = remaining - 1
    /\ wpc' = [wpc EXCEPT ![w] = IF remaining = 1 THEN "notify" ELSE "idle"]
    /\ task' = [task EXCEPT ![w] = IF remaining = 1 THEN cycles ELSE 0]
    /\ UNCHANGED <<dnsVars, loopVars, ping, confVars, slots, tasks, job, stage,
                   cycles, work>>

(* Mutant: nobody is told.                                                 *)
NotifyCycle_missing(w) ==
    /\ wpc[w] = "notify"
    /\ wpc' = [wpc EXCEPT ![w] = "idle"]
    /\ task' = [task EXCEPT ![w] = 0]
    /\ UNCHANGED <<dnsVars, loopVars, ping, confVars, slots, remaining, tasks,
                   job, stage, cycles, work>>

(* notify_one, without the mutex. RunCycle may have returned already: then *)
(* the condition variable is gone, and the call does nothing or, if the    *)
(* next cycle has its own in the same place, wakes that one.               *)
NotifyCycle(w) ==
    /\ wpc[w] = "notify"
    /\ wpc' = [wpc EXCEPT ![w] = "idle"]
    /\ task' = [task EXCEPT ![w] = 0]
    /\ lpc' \in IF lpc # "blocked" THEN {lpc}
                ELSE IF task[w] = cycles THEN {"check"} ELSE {"check", "blocked"}
    /\ missed' = (missed \/ (lpc = "toBlock" /\ task[w] = cycles))
    /\ UNCHANGED <<dnsVars, ping, confVars, running, cfg, capture, next, out,
                   slots, remaining, tasks, job, stage, cycles, work>>

-----------------------------------------------------------------------------
(* A thread t and the probe it is in, stage by stage. A stage is a lookup, *)
(* named by what it asks for, or a wait for the network.                   *)

RunDnsProbe == <<"name">>
RunDnsRecordProbe == <<"canon", "v4", "v6">>
RunTcpProbe == <<"service", "connect">>
RunTcpRetransmitProbe == <<"service", "connect">>
RunTlsProbe == <<"service", "connect", "shake">>
RunTlsCertProbe == <<"service", "connect", "shake">>
RunHttpProbe == <<"request">>
RunIcmpProbe == <<"raw", "ping">>
ProbeTcpHandshake == <<"service4", "capture">>

Stages ==
    [dns |-> RunDnsProbe, record |-> RunDnsRecordProbe,
     tcp |-> RunTcpProbe, retransmit |-> RunTcpRetransmitProbe,
     tls |-> RunTlsProbe, cert |-> RunTlsCertProbe,
     http |-> RunHttpProbe, icmp |-> RunIcmpProbe, handshake |-> ProbeTcpHandshake]

Probe(t) == Head(job[t])
At(t) == Stages[Probe(t)[1]][stage[t]]

(* The probe goes on to its next stage ...                                 *)
Advance(t) ==
    /\ stage[t] < Len(Stages[Probe(t)[1]])
    /\ stage' = [stage EXCEPT ![t] = @ + 1]
    /\ UNCHANGED <<job, slots, out>>

(* ... or ends, with success or failure, and its metrics are kept.         *)
EndProbe(t) ==
    /\ job' = [job EXCEPT ![t] = Tail(@)]
    /\ stage' = [stage EXCEPT ![t] = 1]
    /\ IF t = Loop
       THEN out' = out \o Metrics(Probe(t)) /\ UNCHANGED slots
       ELSE /\ slots' = [slots EXCEPT ![task[t]] = Append(@, Probe(t))]
            /\ UNCHANGED out

Probing(t) == job[t] # << >>

(* Lookup, with the cache bypassed by RunDnsProbe alone.                   *)
StartLookup(t) ==
    /\ Probing(t) /\ At(t) \in LookupStage
    /\ LookupCall(t, <<Probe(t)[2], At(t)>>, At(t) = "name")
    /\ UNCHANGED cycleVars

(* Its answer. RunDnsRecordProbe goes on whatever it is; the others end    *)
(* without an address.                                                     *)
UseLookup(t) ==
    /\ Probing(t) /\ At(t) \in LookupStage
    /\ LookupReturn(t)
    /\ \/ (Probe(t)[1] = "record" \/ lookup[t].answer = "addrs") /\ Advance(t)
       \/ /\ \/ stage[t] = Len(Stages[Probe(t)[1]])
             \/ Probe(t)[1] # "record" /\ lookup[t].answer # "addrs"
          /\ EndProbe(t)
    /\ UNCHANGED <<running, lpc, missed, cfg, capture, next, poolVars, ping, confVars,
                   remaining, cycles, work>>

(* ConnectSocket (3 s an address), the HTTP request (15 s) and the capture *)
(* of a handshake (4 s) have limits of their own.                          *)
Network(t) ==
    /\ Probing(t) /\ At(t) \in {"connect", "request", "capture"}
    /\ Advance(t) \/ EndProbe(t)
    /\ UNCHANGED <<dnsVars, running, lpc, missed, cfg, capture, next, poolVars, ping,
                   confVars, remaining, cycles, work>>

(* SSL_connect on a blocking socket has none: it ends when the peer        *)
(* answers or closes.                                                      *)
Shake(t) ==
    /\ Probing(t) /\ At(t) = "shake"
    /\ EndProbe(t)
    /\ UNCHANGED <<dnsVars, running, lpc, missed, cfg, capture, next, poolVars, ping,
                   confVars, remaining, cycles, work>>

-----------------------------------------------------------------------------
(* RunIcmpProbe and RunSinglePing, in the probe thread.                    *)

InPing == Probing(Loop) /\ At(Loop) = "ping"

(* sendto.                                                                 *)
SendPing ==
    /\ InPing /\ ~ping.sent
    /\ ping' = [ping EXCEPT !.sent = TRUE]
    /\ UNCHANGED <<dnsVars, loopVars, poolVars, confVars, slots, remaining, job, stage,
                   cycles, work>>

(* After a ping the next one, after the last one the metrics.              *)
PingCount(c) == IF c.count <= 0 THEN 4 ELSE c.count
PingOver ==
    IF ping.seq + 1 < PingCount(cfg)
    THEN /\ ping' = [FirstPing EXCEPT !.seq = ping.seq + 1]
         /\ UNCHANGED <<job, stage, out, slots>>
    ELSE ping' = FirstPing /\ EndProbe(Loop)

(* recv returns an echo reply with the process id and this ping's number.  *)
(* Its sender is not looked at and numbers start at 0 for each target, so  *)
(* it may answer this ping, answer one given up earlier to another target, *)
(* or be the duplicate of an answer already taken.                         *)
ReceiveReply ==
    /\ InPing /\ ping.sent
    /\ PingOver
    /\ UNCHANGED <<dnsVars, running, lpc, missed, cfg, capture, next, poolVars, confVars,
                   remaining, cycles, work>>

(* recv has waited for almost its 3 s ...                                  *)
PingIdle ==
    /\ InPing /\ ping.sent /\ ~ping.idle
    /\ ping' = [ping EXCEPT !.idle = TRUE]
    /\ UNCHANGED <<dnsVars, loopVars, poolVars, confVars, slots, remaining, job, stage,
                   cycles, work>>

(* ... when any other ICMP packet of the host arrives (the raw socket gets *)
(* them all): the loop calls recv again, with its full limit.              *)
ForeignPacket ==
    /\ InPing /\ ping.idle
    /\ ping' = [ping EXCEPT !.idle = FALSE]
    /\ UNCHANGED <<dnsVars, loopVars, poolVars, confVars, slots, remaining, job, stage,
                   cycles, work>>

(* sendto failed, or a recv has returned with nothing.                     *)
LosePing ==
    /\ InPing
    /\ ~ping.sent \/ ping.idle
    /\ PingOver
    /\ UNCHANGED <<dnsVars, running, lpc, missed, cfg, capture, next, poolVars, confVars,
                   remaining, cycles, work>>

(* No raw socket.                                                          *)
NoSocket ==
    /\ InPing /\ ping.seq = 0 /\ ~ping.sent
    /\ EndProbe(Loop)
    /\ UNCHANGED <<dnsVars, running, lpc, missed, cfg, capture, next, poolVars, ping,
                   confVars, remaining, cycles, work>>

-----------------------------------------------------------------------------
LoopStep ==
    \/ BeginCycle \/ Submit \/ Check \/ Block \/ Collect
    \/ BeginSerial \/ EndSerial \/ Push \/ LeaveLoop
    \/ SendPing \/ PingIdle \/ LosePing
ProbeStep(t) ==
    \/ StartLookup(t) \/ UseLookup(t) \/ Network(t)
    \/ LookupStep(t) /\ UNCHANGED cycleVars
WorkerStep(w) == TakeTask(w) \/ TaskDone(w) \/ NotifyCycle(w) \/ StopWorker(w)

(* The thread sleeps between its cycles, or the runner has stopped.        *)
Resting ==
    /\ lpc \in {"top", "left"}
    /\ UNCHANGED vars

Next ==
    \/ Boot
    \/ \E c \in Requests : Reconfigure(c)
    \/ LoopStep \/ SpuriousWakeup \/ StopRunner
    \/ \E w \in Worker : WorkerStep(w)
    \/ \E t \in Caller : ProbeStep(t) \/ Shake(t)
    \/ ReceiveReply \/ ForeignPacket \/ NoSocket
    \/ \E k \in Key : Expire(k) /\ UNCHANGED cycleVars
    \/ \E p \in Pending : ResolverStep(p) /\ UNCHANGED cycleVars
    \/ Resting

Spec == Init /\ [][Next]_vars

(* Threads that can go on do; a wait with a time limit ends, unless what   *)
(* restarts the limit keeps happening (ForeignPacket); a peer that is not  *)
(* silent ends the handshake. Nobody relies on spurious wakeups.           *)
Fairness ==
    /\ WF_vars(LoopStep)
    /\ \A w \in Worker : WF_vars(WorkerStep(w))
    /\ \A t \in Caller :
         /\ WF_vars(ProbeStep(t))
         /\ WF_vars(Shake(t) /\ Probe(t)[2] \notin Silent)
    /\ \A p \in Pending : WF_vars(ResolverStep(p) /\ UNCHANGED cycleVars)

FairSpec == Spec /\ Fairness

-----------------------------------------------------------------------------
(* Properties.                                                             *)

(* RunCycle: the batch of a cycle holds exactly the metrics its copy of    *)
(* the configuration asks for, in the order of the configuration, whatever *)
(* order the pool ran the tasks in and whatever was reconfigured.          *)
CycleWhole == lpc = "push" => out = Expected(cfg, capture)

InBarrier == lpc \in {"submit", "check", "toBlock", "blocked"}
Running == {w \in Worker : wpc[w] = "run"}

(* RunCycle: while a task is queued or runs, the frame it works on (its    *)
(* configuration, its slot, the counter) exists, and the counter says how  *)
(* many there are. Only the last notification can come after RunCycle has  *)
(* returned.                                                               *)
FrameAlive ==
    /\ tasks # << >> \/ Running # {} => InBarrier
    /\ InBarrier => remaining = (Len(slots) - next) + Len(tasks) + Cardinality(Running)

HandshakeHangs ==
    \E t \in Caller : Probing(t) /\ At(t) = "shake" /\ Probe(t)[2] \in Silent

(* RunCycle, Stop: a cycle that has begun ends, unless the notification of *)
(* its last task comes between test and sleep of the probe thread, a TLS   *)
(* peer keeps silent, or foreign ICMP packets restart the limit of a ping  *)
(* for ever. There is no fourth way to get stuck: not in the pool, not in  *)
(* the resolver, not in another probe.                                     *)
CycleEnds ==
    \/ []<><<ForeignPacket>>_vars
    \/ lpc \notin {"off", "top", "left"} ~>
           (lpc = "top" \/ missed \/ HandshakeHangs)
=============================================================================
