---------------------------- MODULE AgentRegistry ----------------------------
(***************************************************************************)
(* How a collector knows its agents (collector/src/agent_registry.cpp,     *)
(* agent_service.cpp, agent_endpoint.cpp): the pacing of heartbeats in the *)
(* agent's main loop (agent/src/main.cpp), their way through the network,  *)
(* and the entries that record when and from where an agent was last heard.*)
(*                                                                         *)
(* Time is counted in heartbeat intervals. An action that has to happen    *)
(* before time goes on disables the passing of a tick (Urgent).            *)
(***************************************************************************)
EXTENDS Naturals

CONSTANTS
    Agent, Address,
    Clients,        \* agents with this collector among collector_endpoints
    Home,           \* those with this one first
    Nowhere,        \* no address: not running, no endpoint
    Hidden,         \* peers that cannot be dialled back (unix, fe80::, [::])
    Inside,         \* the address a machine has for itself; another one than
                    \* it is seen at if there is a NAT in between
    Configured,     \* each agent: diagnostic_address, if set
    Window,         \* ticks after which an agent is shown dead (30 s)
    BeatDeadline,   \* ticks an agent waits for the answer to a heartbeat
    Backoff         \* factor of the interval while the collector is overloaded

ASSUME RegistryAssumption ==
    /\ Nowhere \notin Address /\ Hidden \subseteq Address
    /\ Home \subseteq Clients /\ Clients \subseteq Agent
    /\ Inside \in [Address -> Address]
    /\ Configured \in [Agent -> Address \cup {Nowhere}]
    /\ {Window, BeatDeadline, Backoff} \subseteq Nat \ {0}

VARIABLES
    addr,           \* where the agent runs
    here,           \* agents that use this collector at present
    advert,         \* the diagnostic_endpoint the agent reports, if any
    since,          \* ticks since its last heartbeat was sent
    pace,           \* "even", "backoff" (the flag backpressure), or "sending":
                    \* the loop is delivering batches, 10 s a call
    beat,           \* the heartbeat under way: its record, or none
    late,           \* heartbeats the agent has given up that may still arrive
    entry,          \* m_agents: endpoint and age of each known agent
    losses,         \* history: heartbeats lost in a row
    excused,        \* history: since the last one recorded, the agent was
                    \* started, slowed down or with another collector
    moves,          \* history: starts, ends and changes of address
    faultsLeft      \* bound: those, lost beats, overloads, failovers, removals

agentVars == <<addr, here, advert, since, pace, beat, late, entry, losses, excused, moves>>
registryVars == <<agentVars, faultsLeft>>

(* A place is an endpoint with two facts of its history: after how many    *)
(* moves of the agent it was found out, and whether it was the agent's.    *)
NoPlace == [endpoint |-> Nowhere, move |-> 0, own |-> FALSE]
NoBeat == [from |-> Nowhere, at |-> NoPlace, advert |-> NoPlace, age |-> 0,
           recorded |-> FALSE]
Unknown == [place |-> NoPlace, age |-> Window, known |-> FALSE]

(* What an agent at ad advertises: AdvertisedDiagnosticEndpoint finds its  *)
(* local address unless the collector's name cannot be resolved.           *)
Advertise(a, ad, move, resolved) ==
    LET endpoint == IF Configured[a] # Nowhere THEN Configured[a]
                    ELSE IF resolved THEN Inside[ad] ELSE Nowhere
    IN [endpoint |-> endpoint, move |-> move, own |-> endpoint = ad]

(* The agents that run have just been started.                             *)
RegistryInit(resolved) ==
    /\ here = Home
    /\ advert = [a \in Agent |-> IF addr[a] = Nowhere THEN NoPlace
                                 ELSE Advertise(a, addr[a], 0, resolved)]
    /\ since = [a \in Agent |-> Backoff]
    /\ pace = [a \in Agent |-> "even"]
    /\ beat = [a \in Agent |-> NoBeat]
    /\ late = {}
    /\ entry = [a \in Agent |-> Unknown]
    /\ losses = [a \in Agent |-> 0]
    /\ excused = [a \in Agent |-> FALSE]
    /\ moves = [a \in Agent |-> 0]

Fault == faultsLeft > 0 /\ faultsLeft' = faultsLeft - 1

UpTo(n, limit) == IF n < limit THEN n ELSE limit

-----------------------------------------------------------------------------
(* The agent.                                                              *)

Beating(a) == beat[a] # NoBeat

(* The process is started: it connects to its first collector, and its     *)
(* first heartbeat is due at once.                                         *)
Start(a, ad, resolved) ==
    /\ addr[a] = Nowhere
    /\ Fault
    /\ addr' = [addr EXCEPT ![a] = ad]
    /\ moves' = [moves EXCEPT ![a] = @ + 1]
    /\ here' = IF a \in Home THEN here \cup {a} ELSE here \ {a}
    /\ advert' = [advert EXCEPT ![a] = Advertise(a, ad, moves[a] + 1, resolved)]
    /\ since' = [since EXCEPT ![a] = Backoff]
    /\ pace' = [pace EXCEPT ![a] = "even"]
    /\ excused' = [excused EXCEPT ![a] = TRUE]
    /\ UNCHANGED <<beat, late, entry, losses>>

GivenUp(b) == IF b.recorded THEN {} ELSE {b}

(* The process ends. A heartbeat under way may still arrive.               *)
Stop(a) ==
    /\ addr[a] # Nowhere
    /\ Fault
    /\ addr' = [addr EXCEPT ![a] = Nowhere]
    /\ moves' = [moves EXCEPT ![a] = @ + 1]
    /\ beat' = [beat EXCEPT ![a] = NoBeat]
    /\ late' = IF Beating(a) THEN late \cup GivenUp(beat[a]) ELSE late
    /\ UNCHANGED <<here, advert, since, pace, entry, losses, excused>>

(* The machine gets another address. The process goes on and reports what  *)
(* it has found out when it connected.                                     *)
Readdress(a, ad) ==
    /\ addr[a] # Nowhere /\ ad # addr[a]
    /\ Fault
    /\ addr' = [addr EXCEPT ![a] = ad]
    /\ moves' = [moves EXCEPT ![a] = @ + 1]
    /\ UNCHANGED <<here, advert, since, pace, beat, late, entry, losses, excused>>

(* The third failure in a row of heartbeats or batches, which Failover     *)
(* counts: reconnect to the next collector, which may be this one again or *)
(* for the first time. Only now is the endpoint found out anew. An agent   *)
(* that comes may have sent its last heartbeat, to the other, just now.    *)
FailOver(a, to, resolved) ==
    /\ addr[a] # Nowhere /\ ~Beating(a) /\ (to => a \in Clients)
    /\ Fault
    /\ here' = IF to THEN here \cup {a} ELSE here \ {a}
    /\ advert' = [advert EXCEPT ![a] = Advertise(a, addr[a], moves[a], resolved)]
    /\ \E s \in IF a \in here THEN {since[a]} ELSE {0, since[a]} :
         since' = [since EXCEPT ![a] = s]
    /\ excused' = [excused EXCEPT ![a] = @ \/ a \notin here]
    /\ UNCHANGED <<addr, pace, beat, late, entry, losses, moves>>

(* The answer to a batch carries x-overloaded or not: the interval grows   *)
(* tenfold within four turns of the loop, or is restored. Or the loop is   *)
(* busy with batches, and done with them.                                  *)
SetPace(a, p) ==
    /\ a \in here /\ addr[a] # Nowhere /\ p # pace[a] /\ ~Beating(a)
    /\ IF p = "even" THEN UNCHANGED faultsLeft ELSE Fault
    /\ pace' = [pace EXCEPT ![a] = p]
    /\ excused' = [excused EXCEPT ![a] = TRUE]
    /\ UNCHANGED <<addr, here, advert, since, beat, late, entry, losses, moves>>

Interval(a) == IF pace[a] = "backoff" THEN Backoff ELSE 1

Due(a) ==
    /\ a \in here /\ addr[a] # Nowhere /\ pace[a] # "sending"
    /\ ~Beating(a) /\ since[a] >= Interval(a)

(* SendHeartbeat; the loop waits for the answer.                           *)
SendHeartbeat(a) ==
    /\ Due(a)
    /\ since' = [since EXCEPT ![a] = 0]
    /\ beat' = [beat EXCEPT ![a] =
                  [from |-> a, at |-> [endpoint |-> addr[a], move |-> moves[a], own |-> TRUE],
                   advert |-> advert[a], age |-> 0, recorded |-> FALSE]]
    /\ UNCHANGED <<addr, here, advert, pace, late, entry, losses, excused, moves, faultsLeft>>

(* The answer arrives, perhaps long after the collector has recorded it.   *)
HeartbeatAnswered(a) ==
    /\ Beating(a) /\ beat[a].recorded
    /\ beat' = [beat EXCEPT ![a] = NoBeat]
    /\ UNCHANGED <<addr, here, advert, since, pace, late, entry, losses, excused, moves,
                   faultsLeft>>

(* No answer within the deadline, or the call failed; the collector may    *)
(* have recorded the heartbeat or may do so later.                         *)
LoseHeartbeat(a, arrives) ==
    /\ Beating(a)
    /\ Fault
    /\ beat' = [beat EXCEPT ![a] = NoBeat]
    /\ late' = IF arrives THEN late \cup GivenUp(beat[a]) ELSE late
    /\ losses' = [losses EXCEPT ![a] = IF beat[a].recorded THEN @ ELSE UpTo(@ + 1, Window)]
    /\ UNCHANGED <<addr, here, advert, since, pace, entry, excused, moves>>

-----------------------------------------------------------------------------
(* The collector.                                                          *)

(* AgentServiceImpl::SendHeartbeat: the endpoint the agent reports, or the *)
(* address the heartbeat came from with the default port.                  *)
DiagnosticEndpointFromPeer(place) == IF place.endpoint \in Hidden THEN NoPlace ELSE place
EndpointOf(b) ==
    IF b.advert.endpoint # Nowhere THEN b.advert ELSE DiagnosticEndpointFromPeer(b.at)

(* Mutant: a known agent keeps its first endpoint.                         *)
Recorded_firstEndpoint(b) ==
    LET e == entry[b.from] IN
    [place |-> IF e.known THEN [EndpointOf(b) EXCEPT !.endpoint = e.place.endpoint]
               ELSE EndpointOf(b),
     age |-> 0, known |-> TRUE]

(* The entry after a heartbeat.                                            *)
Recorded(b) == [place |-> EndpointOf(b), age |-> 0, known |-> TRUE]

(* Mutant: only a new entry gets the time.                                 *)
RecordHeartbeat_firstSeen(b) ==
    /\ entry' = [entry EXCEPT ![b.from] =
                    IF @.known THEN [Recorded(b) EXCEPT !.age = entry[b.from].age]
                               ELSE Recorded(b)]
    /\ losses' = [losses EXCEPT ![b.from] = 0]
    /\ excused' = [excused EXCEPT ![b.from] = FALSE]

RecordHeartbeat(b) ==
    /\ entry' = [entry EXCEPT ![b.from] = Recorded(b)]
    /\ losses' = [losses EXCEPT ![b.from] = 0]
    /\ excused' = [excused EXCEPT ![b.from] = FALSE]

Receive(a) ==
    /\ Beating(a) /\ ~beat[a].recorded
    /\ RecordHeartbeat(beat[a])
    /\ beat' = [beat EXCEPT ![a].recorded = TRUE]
    /\ UNCHANGED <<addr, here, advert, since, pace, late, moves, faultsLeft>>

(* A handler that was overtaken runs after all.                            *)
ReceiveLate(b) ==
    /\ b \in late
    /\ RecordHeartbeat(b)
    /\ late' = late \ {b}
    /\ UNCHANGED <<addr, here, advert, since, pace, beat, moves, faultsLeft>>

(* POST /api/agents/delete: 404 for an agent that is not known.            *)
RemoveAgent(a) ==
    /\ entry[a].known
    /\ Fault
    /\ entry' = [entry EXCEPT ![a] = Unknown]
    /\ UNCHANGED <<addr, here, advert, since, pace, beat, late, losses, excused, moves>>

GetDiagnosticEndpoint(a) == entry[a].place.endpoint
IsAgentAlive(a) == entry[a].known /\ entry[a].age < Window

-----------------------------------------------------------------------------
(* What must happen before the next tick: due heartbeats are sent, and one *)
(* under way for BeatDeadline ticks has been answered or lost.             *)
Urgent == \E a \in Agent : Due(a) \/ (Beating(a) /\ beat[a].age >= BeatDeadline)

TickRegistry ==
    /\ ~Urgent
    /\ since' = [a \in Agent |-> UpTo(since[a] + 1, Backoff)]
    /\ beat' = [a \in Agent |-> IF Beating(a) THEN [beat[a] EXCEPT !.age = @ + 1] ELSE NoBeat]
    /\ entry' = [a \in Agent |-> [entry[a] EXCEPT !.age = UpTo(@ + 1, Window)]]
    /\ UNCHANGED <<addr, here, advert, pace, late, losses, excused, moves, faultsLeft>>

RegistryStep ==
    \/ \E a \in Agent :
         \/ \E ad \in Address, resolved \in BOOLEAN : Start(a, ad, resolved)
         \/ \E ad \in Address : Readdress(a, ad)
         \/ \E to, resolved \in BOOLEAN : FailOver(a, to, resolved)
         \/ \E p \in {"even", "backoff", "sending"} : SetPace(a, p)
         \/ SendHeartbeat(a) \/ Receive(a) \/ HeartbeatAnswered(a)
         \/ \E arrives \in BOOLEAN : LoseHeartbeat(a, arrives)
    \/ \E b \in late : ReceiveLate(b)

-----------------------------------------------------------------------------
(* AgentRegistry::IsAgentAlive, DumpAgents, agent main.cpp: an agent the   *)
(* collector knows is shown dead only if it is not running, is with        *)
(* another collector, was started, slowed down or away since it was last   *)
(* heard (overload alone makes it beat every 50 s, in a window of 30 s),   *)
(* or lost that many heartbeats in a row that the window is used up by     *)
(* them, by one answer that came late and by the heartbeat under way.      *)
(* With the code's 10 s and 30 s that is one lost heartbeat: late answers  *)
(* alone are never enough, however they are timed.                         *)
DeadExplained ==
    \A a \in Agent : entry[a].known /\ ~IsAgentAlive(a) =>
        \/ addr[a] = Nowhere \/ a \notin here \/ pace[a] # "even" \/ excused[a]
        \/ (losses[a] + 2) * BeatDeadline >= Window
=============================================================================
