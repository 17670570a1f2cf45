----------------------------- MODULE RemoteCalls -----------------------------
(***************************************************************************)
(* Calls from a collector to the diagnostic service of its agents: the     *)
(* handlers of the HTTP server (collector/src/http_server.cpp) and the     *)
(* workers of the command scheduler (command_scheduler.cpp ExecuteRun,     *)
(* whose queue CommandScheduler models) look an agent up in the registry,  *)
(* dial the endpoint found there and wait with a deadline. The agent       *)
(* (agent/src/diagnostic_service.cpp, commands.cpp) runs external tools    *)
(* one after the other, most of them under `timeout`. It looks neither at  *)
(* the agent_id of a request nor at its cancellation.                      *)
(*                                                                         *)
(* One tick of AgentRegistry also drives the deadlines. Limits keep the    *)
(* order of the code's, not their proportions.                             *)
(***************************************************************************)
EXTENDS AgentRegistry, Sequences, FiniteSets

CONSTANTS
    Pool,           \* threads of the HTTP server (4)
    Worker,         \* threads of the scheduler (4)
    Asked,          \* commands the HTTP server is asked for
    Scheduled,      \* commands with a schedule
    VersionLimit,   \* `timeout 15`, IsOoklaTool
    ToolLimit,      \* `timeout 420`, speedtest and mtr
    TraceLimit,     \* `timeout 120`, traceroute of route_quality
    Bursts,         \* count * interval + 60 s for the parameters of ping_burst
    TraceTime,      \* longest run of `traceroute -m 15 -w 1`, 45 s
    Captures,       \* `timeout` of a tcpdump, from the request
    Forever,        \* a tool without limit
    QuickDeadline,  \* 10, 15 and 30 s: all calls but RunCommand
    HttpDeadline,   \* kCommandRpcDeadlineSeconds, 900 s
    WorkerDeadline  \* kCommandDeadlineMs, 600 s

(* The catalogue of the agent.                                             *)
Command == {"speedtest", "hdd_check", "ping_burst", "route_quality", "agent_info"}

ASSUME CallsAssumption ==
    /\ Pool \cap Worker = {}
    /\ Asked \cup Scheduled \subseteq Command
    /\ {VersionLimit, ToolLimit, TraceLimit, TraceTime, QuickDeadline, HttpDeadline,
        WorkerDeadline} \cup Bursts \cup Captures \subseteq Nat
    /\ Forever \notin Nat
    /\ TraceLimit <= ToolLimit /\ VersionLimit < ToolLimit
    /\ QuickDeadline > 0
    /\ 2 * VersionLimit + 2 * ToolLimit < HttpDeadline
    /\ 2 * VersionLimit + ToolLimit < WorkerDeadline

Caller == Pool \cup Worker

VARIABLES
    call,           \* each caller: the call it makes
    exec,           \* what agents are executing: a set of records
    busy,           \* m_busy_agents
    wrong,          \* history: calls executed by another agent
    gaveUp,         \* history: what was given up at a deadline while the agent
                    \* was working on it
    callsLeft       \* bound: calls; it also numbers them

callVars == <<call, exec, busy, wrong, gaveUp, callsLeft>>

NoCall == [pc |-> "idle", id |-> 0, kind |-> "none", for |-> Nowhere,
           place |-> NoPlace, left |-> 0]

CallsInit ==
    /\ call = [c \in Caller |-> NoCall]
    /\ exec = {}
    /\ busy = {}
    /\ wrong = {}
    /\ gaveUp = {}

-----------------------------------------------------------------------------
(* What an agent runs for a call: the limits of its tools, in order.       *)

(* Mutant: the other flags are tried twice.                                *)
RunSpeedtest_twoRetries ==
    {<< >>} \cup {v \o t : v \in {<<VersionLimit>>, <<VersionLimit, VersionLimit>>},
                           t \in {<<ToolLimit>>, <<ToolLimit, ToolLimit, ToolLimit>>}}

(* No tool; or its version is asked once or twice, then it is run, and run *)
(* again if it rejects the flags.                                          *)
RunSpeedtest ==
    {<< >>} \cup {v \o t : v \in {<<VersionLimit>>, <<VersionLimit, VersionLimit>>},
                           t \in {<<ToolLimit>>, <<ToolLimit, ToolLimit>>}}

(* smartctl has no limit.                                                  *)
RunHddCheck == {<< >>, <<Forever>>}
RunPingBurst == {<<b>> : b \in Bursts}
RunRouteQuality == {<<ToolLimit>>, <<TraceLimit>>}

(* A traceroute, a capture, both, or nothing to do.                        *)
RunDiagnostic ==
    {t \o p : t \in {<< >>, <<TraceTime>>}, p \in {<< >>} \cup {<<d>> : d \in Captures}}

(* Reconfigure, GetConfig, ListCommands and RunAgentInfo run nothing, nor  *)
(* does an unknown command.                                                *)
RunNothing == {<< >>}

Plans(kind) ==
    CASE kind = "speedtest" -> RunSpeedtest
      [] kind = "hdd_check" -> RunHddCheck
      [] kind = "ping_burst" -> RunPingBurst
      [] kind = "route_quality" -> RunRouteQuality
      [] kind = "diagnostic" -> RunDiagnostic
      [] OTHER -> RunNothing

Deadline(c, kind) ==
    IF c \in Worker THEN WorkerDeadline
    ELSE IF kind \in Command THEN HttpDeadline ELSE QuickDeadline

-----------------------------------------------------------------------------
(* The collector's side.                                                   *)

(* What is left of the tool at a step of a plan; nothing after the last.   *)
LimitAt(plan, step) == IF step <= Len(plan) THEN plan[step] ELSE 0

Begun(c, kind, a, pc) ==
    [pc |-> pc, id |-> callsLeft, kind |-> kind, for |-> a,
     place |-> entry[a].place, left |-> Deadline(c, kind)]

(* A handler: PrepareAgentCall answers 404 without an endpoint; it does    *)
(* not ask whether the agent is alive.                                     *)
Request(c, kind, a) ==
    /\ call[c].pc = "idle" /\ callsLeft > 0
    /\ GetDiagnosticEndpoint(a) # Nowhere
    /\ call' = [call EXCEPT ![c] = Begun(c, kind, a, "dialled")]
    /\ callsLeft' = callsLeft - 1
    /\ UNCHANGED <<registryVars, exec, busy, wrong, gaveUp>>

(* Mutant: nobody looks at m_busy_agents.                                  *)
Dispatch_always(w, kind, a) ==
    /\ call[w].pc = "idle" /\ callsLeft > 0
    /\ busy' = busy \cup {a}
    /\ call' = [call EXCEPT ![w] = Begun(w, kind, a, "found")]
    /\ callsLeft' = callsLeft - 1
    /\ UNCHANGED <<registryVars, exec, wrong, gaveUp>>

(* A worker has taken a run from the queue: one per agent at a time.       *)
Dispatch(w, kind, a) ==
    /\ call[w].pc = "idle" /\ callsLeft > 0
    /\ a \notin busy
    /\ busy' = busy \cup {a}
    /\ call' = [call EXCEPT ![w] = Begun(w, kind, a, "found")]
    /\ callsLeft' = callsLeft - 1
    /\ UNCHANGED <<registryVars, exec, wrong, gaveUp>>

(* The end of a call, whatever its result.                                 *)
Release(c) ==
    /\ call' = [call EXCEPT ![c] = NoCall]
    /\ busy' = IF c \in Worker THEN busy \ {call[c].for} ELSE busy

(* Only now it asks whether the agent is alive, with a lock of its own.    *)
CheckAlive(w) ==
    LET online == call[w].place.endpoint # Nowhere /\ IsAgentAlive(call[w].for) IN
    /\ call[w].pc = "found"
    /\ \/ online /\ call' = [call EXCEPT ![w].pc = "dialled"] /\ UNCHANGED busy
       \/ ~online /\ Release(w)
    /\ UNCHANGED <<registryVars, exec, wrong, gaveUp, callsLeft>>

(* The call arrives at whichever agent listens at the endpoint. (Agents    *)
(* that share an address share the endpoint.)                              *)
Arrive(c, b, plan) ==
    LET k == call[c] IN
    /\ k.pc = "dialled"
    /\ addr[b] = k.place.endpoint
    /\ plan \in Plans(k.kind)
    /\ call' = [call EXCEPT ![c].pc = "waiting"]
    /\ exec' = exec \cup {[id |-> k.id, for |-> k.for, on |-> b, kind |-> k.kind,
                           adhoc |-> c \in Pool, plan |-> plan, step |-> 1,
                           left |-> LimitAt(plan, 1)]}
    /\ wrong' = IF b = k.for THEN wrong
                ELSE wrong \cup {[moved |-> k.place.move # moves[k.for],
                                  shared |-> addr[k.for] = addr[b],
                                  own |-> k.place.own]}
    /\ UNCHANGED <<registryVars, busy, gaveUp, callsLeft>>

(* Nobody listens, the agent has ended meanwhile, or the connection breaks *)
(* (what has arrived is executed all the same).                            *)
Unreachable(c) ==
    /\ call[c].pc \in {"dialled", "waiting"}
    /\ \/ Fault
       \/ /\ \/ call[c].pc = "dialled" /\ \A b \in Agent : addr[b] # call[c].place.endpoint
             \/ call[c].pc = "waiting" /\ \A e \in exec : e.id # call[c].id
          /\ UNCHANGED faultsLeft
    /\ Release(c)
    /\ UNCHANGED <<agentVars, exec, wrong, gaveUp, callsLeft>>

(* The deadline: the caller gives up, the agent does not notice.           *)
DeadlineExceeded(c) ==
    /\ call[c].pc = "waiting" /\ call[c].left = 0
    /\ gaveUp' = gaveUp \cup {[kind |-> e.kind, plan |-> e.plan, worker |-> c \in Worker] :
                                e \in {x \in exec : x.id = call[c].id}}
    /\ Release(c)
    /\ UNCHANGED <<registryVars, exec, wrong, callsLeft>>

-----------------------------------------------------------------------------
(* The agent's side.                                                       *)

(* A tool ends by itself or is ended by its limit; the next one starts.    *)
NextTool(e) ==
    /\ e.step <= Len(e.plan)
    /\ exec' = (exec \ {e}) \cup
         {[e EXCEPT !.step = @ + 1, !.left = LimitAt(e.plan, e.step + 1)]}
    /\ UNCHANGED <<registryVars, call, busy, wrong, gaveUp, callsLeft>>

(* The response; a caller that still waits records the run and goes on.    *)
Answer(e) ==
    /\ e.step > Len(e.plan)
    /\ exec' = exec \ {e}
    /\ \/ \E c \in Caller : call[c].id = e.id /\ Release(c)
       \/ (\A c \in Caller : call[c].id # e.id) /\ UNCHANGED <<call, busy>>
    /\ UNCHANGED <<registryVars, wrong, gaveUp, callsLeft>>

(* The process ends, and with it what it executes.                         *)
Killed(a) ==
    /\ Stop(a)
    /\ exec' = {e \in exec : e.on # a}
    /\ UNCHANGED <<call, busy, wrong, gaveUp, callsLeft>>

-----------------------------------------------------------------------------
(* Time. A call reaches an agent, or fails, at once; limits and deadlines  *)
(* are kept.                                                               *)
UrgentCall ==
    \/ \E c \in Caller : \/ call[c].pc \in {"found", "dialled"}
                         \/ call[c].pc = "waiting" /\ call[c].left = 0
    \/ \E e \in exec : e.left = 0

Tick ==
    /\ ~UrgentCall
    /\ TickRegistry
    /\ call' = [c \in Caller |-> IF call[c].pc = "waiting"
                                 THEN [call[c] EXCEPT !.left = @ - 1] ELSE call[c]]
    /\ exec' = {IF e.left = Forever THEN e ELSE [e EXCEPT !.left = @ - 1] : e \in exec}
    /\ UNCHANGED <<busy, wrong, gaveUp, callsLeft>>

(* What a pool thread does apart from beginning a request is a CallStep.   *)
CallStep ==
    \/ Tick
    \/ \E a \in Agent : Killed(a)
    \/ RegistryStep /\ UNCHANGED callVars
    \/ \E w \in Worker, kind \in Scheduled, a \in Agent : Dispatch(w, kind, a)
    \/ \E w \in Worker : CheckAlive(w)
    \/ \E c \in Caller :
         \/ \E b \in Agent : \E plan \in Plans(call[c].kind) : Arrive(c, b, plan)
         \/ Unreachable(c) \/ DeadlineExceeded(c)
    \/ \E e \in exec : NextTool(e) \/ Answer(e)

-----------------------------------------------------------------------------
(* Properties.                                                             *)

Repeated(plan) == Cardinality({i \in DOMAIN plan : plan[i] = ToolLimit}) = 2

(* http_server.cpp, command_scheduler.cpp, commands.cpp: the time limits   *)
(* of an agent's tools fit into the deadlines of the calls. A result is    *)
(* lost to a deadline only where a tool has no limit or the request sets   *)
(* it; the scheduler, which waits less, also loses a repeated speedtest.   *)
ResultInTime ==
    \A g \in gaveUp :
        \/ g.kind \in {"ping_burst", "hdd_check", "diagnostic"}
        \/ g.worker /\ g.kind = "speedtest" /\ Repeated(g.plan)

(* reconnect, RecordHeartbeat, PrepareAgentCall, ExecuteRun: a call is     *)
(* executed by the agent it is meant for, unless that agent has moved      *)
(* since it found out the endpoint it advertises (or, if it has none,      *)
(* since the heartbeat its entry is from), shares its address with the one *)
(* that answers, or advertised an endpoint that never was its own.         *)
RightAgent ==
    \A r \in wrong : r.moved \/ r.shared \/ ~r.own

Abandoned(e) == \A c \in Caller : call[c].id # e.id

(* command_scheduler.cpp "One heavy command per agent at a time": two      *)
(* commands run on one agent at once only if one of them was asked for     *)
(* through the HTTP server, was given up by its caller (which ended its    *)
(* wait at the deadline or was restarted), or was meant for another agent. *)
HeavyApart ==
    \A e, f \in exec :
        e # f /\ e.on = f.on /\ {e.kind, f.kind} \subseteq Command =>
            \E g \in {e, f} : g.adhoc \/ Abandoned(g) \/ g.for # g.on
=============================================================================
