---------------------------- MODULE CollectorHttp ----------------------------
(***************************************************************************)
(* One collector process around its HTTP server: agent registry, calls to  *)
(* agents and mirrored installers. The threads of the pool                 *)
(* (collector/src/http_server.cpp) serve requests of all kinds; requests   *)
(* for /health, /agents and the like change nothing. What is in memory     *)
(* (registry, calls, busy agents, manifest) is gone after a restart, what  *)
(* agents execute goes on.                                                 *)
(***************************************************************************)
EXTENDS RemoteCalls, InstallerMirror

CONSTANT Scenarios      \* where agents run at first and whether they know
                        \* their addresses; bounds: how many faults, calls,
                        \* syncs, slips and downloads follow

ASSUME HttpAssumption ==
    /\ Reader = Pool
    /\ \A s \in Scenarios :
         /\ s.start \subseteq [Agent -> Address \cup {Nowhere}]
         /\ s.resolved \in BOOLEAN
         /\ {s.faults, s.calls, s.syncs, s.slips, s.downloads} \subseteq Nat

vars == <<registryVars, callVars, mirrorVars>>

Init ==
    /\ \E s \in Scenarios :
         /\ addr \in s.start
         /\ faultsLeft = s.faults /\ callsLeft = s.calls
         /\ syncsLeft = s.syncs /\ slipsLeft = s.slips
         /\ downloadsLeft = s.downloads
         /\ RegistryInit(s.resolved)
    /\ CallsInit /\ MirrorInit

(* A thread of the pool takes the next request. The handlers that forward  *)
(* a call differ in what they ask the agent for and how long they wait.    *)
Free(c) == call[c].pc = "idle" /\ download[c].pc = "idle"

Forward(c, kind, a) ==
    /\ Free(c)
    /\ Request(c, kind, a)
    /\ UNCHANGED mirrorVars

DiagnosticHandler(c, a) == Forward(c, "diagnostic", a)
SetConfigHandler(c, a) == Forward(c, "set_config", a)
GetConfigHandler(c, a) == Forward(c, "get_config", a)
AgentCommandsHandler(c, a) == Forward(c, "list_commands", a)
RunCommandHandler(c, a) == \E kind \in Asked : Forward(c, kind, a)

DeleteAgentHandler(c, a) ==
    /\ Free(c)
    /\ RemoveAgent(a)
    /\ UNCHANGED <<callVars, mirrorVars>>

InstallerDownloadHandler(c, p) ==
    /\ Free(c)
    /\ Has(c, p)
    /\ UNCHANGED <<registryVars, callVars>>

(* The process ends and is started again. Heartbeats under way are lost.   *)
CollectorRestart ==
    /\ Restart
    /\ entry' = [a \in Agent |-> Unknown]
    /\ beat' = [a \in Agent |-> NoBeat]
    /\ late' = {}
    /\ call' = [c \in Caller |-> NoCall]
    /\ busy' = {}
    /\ UNCHANGED <<addr, here, advert, since, pace, losses, excused, moves, faultsLeft,
                   exec, wrong, gaveUp, callsLeft>>

Next ==
    \/ \E c \in Pool, a \in Agent :
         \/ DiagnosticHandler(c, a) \/ SetConfigHandler(c, a) \/ GetConfigHandler(c, a)
         \/ AgentCommandsHandler(c, a) \/ RunCommandHandler(c, a)
         \/ DeleteAgentHandler(c, a)
    \/ \E c \in Pool, p \in Platform : InstallerDownloadHandler(c, p)
    \/ CollectorRestart
    \/ CallStep /\ UNCHANGED mirrorVars
    \/ MirrorStep /\ UNCHANGED <<registryVars, callVars>>

Spec == Init /\ [][Next]_vars
=============================================================================
