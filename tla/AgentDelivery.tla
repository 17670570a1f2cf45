---------------------------- MODULE AgentDelivery ----------------------------
(***************************************************************************)
(* How a batch of metrics travels from the probe thread to a collector:    *)
(* the bounded queue of ProbeRunner (agent/src/probe_runner.cpp), the      *)
(* deque of the main loop, its spill to disk and the drain of the disk,    *)
(* the retries and the endpoint rotation (agent/src/main.cpp). The process *)
(* may stop, crash or lose power at any step; a call may fail before,      *)
(* after or while the collector ingests the batch.                         *)
(*                                                                         *)
(* A batch is its production number. The clock is abstracted: "interval    *)
(* elapsed" is a free choice, so the pacing of the loop (100 ms sleep,     *)
(* backpressure interval) has no state here.                               *)
(***************************************************************************)
EXTENDS Naturals, Sequences, Functions, SpillQueue, Failover

CONSTANTS
    MaxBatches,     \* bound: batches the probe thread produces
    MaxCrashes,     \* bound: times the process ends
    MaxQueued,      \* kMaxQueuedBatches
    DrainLimit,     \* the limit the main loop passes to Drain
    MaxBuffer,      \* cfg.max_buffer_size
    MaxSends,       \* kMaxBatchesPerCycle
    MaxDrain,       \* rows drained from disk after one accepted batch
    Good,           \* endpoints that answer every call
    Dead,           \* endpoints that answer none
    Poison,         \* batches every collector rejects
    Corrupt         \* batches whose spilled blob no longer parses

ASSUME DeliveryAssumption ==
    /\ MaxBatches \in Nat
    /\ Batch = 1 .. MaxBatches
    /\ MaxCrashes \in Nat
    /\ {MaxQueued, DrainLimit, MaxSends, MaxDrain} \subseteq Nat \ {0}
    /\ MaxBuffer \in Nat
    /\ Good \subseteq Endpoint /\ Dead \subseteq Endpoint \ Good
    /\ Poison \subseteq Batch /\ Corrupt \subseteq Batch

VARIABLES
    agentUp,        \* the process runs
    pc,             \* where the main loop is
    queue,          \* ProbeRunner::queue_
    fresh,          \* drained batches not yet moved to the deque
    gotFresh,       \* fresh was not empty in this iteration
    buffer,         \* the deque of the main loop
    sent, limit,    \* the send loop: iterations done, max_sends
    drained,        \* the disk loop: iterations done
    produced,       \* history: batches produced so far
    dropped,        \* history: batches counted in buffer_drops
    lost,           \* history: batches that left the agent uncounted
    copies,         \* external: ingestions per batch (2 stands for more)
    late,           \* external: timed-out calls a collector still works on
    retried,        \* history: batches with a failed send, pop or rollback
    crashes

memVars == <<queue, fresh, gotFresh, buffer>>
loopVars == <<sent, limit, drained>>
histVars == <<produced, dropped, lost>>
netVars == <<copies, late, retried>>
vars == <<agentUp, pc, memVars, loopVars, histVars, netVars, crashes,
          spillVars, failoverVars>>

Init ==
    /\ agentUp = FALSE
    /\ pc = "top"
    /\ queue = << >> /\ fresh = << >> /\ buffer = << >> /\ gotFresh = FALSE
    /\ sent = 0 /\ limit = 1 /\ drained = 0
    /\ produced = 0 /\ dropped = {} /\ lost = {}
    /\ copies = [b \in Batch |-> 0]
    /\ late = {} /\ retried = {}
    /\ crashes = 0
    /\ SpillInit
    /\ FailoverInit

-----------------------------------------------------------------------------
(* The probe thread appends a batch; a full queue silently loses its       *)
(* oldest one.                                                             *)
Produce ==
    /\ agentUp
    /\ produced < MaxBatches
    /\ produced' = produced + 1
    /\ IF Len(queue) >= MaxQueued
         THEN /\ queue' = Append(Tail(queue), produced + 1)
              /\ lost' = lost \cup {Head(queue)}
         ELSE /\ queue' = Append(queue, produced + 1)
              /\ UNCHANGED lost
    /\ UNCHANGED <<agentUp, pc, fresh, gotFresh, buffer, loopVars, dropped,
                   netVars, crashes, spillVars, failoverVars>>

-----------------------------------------------------------------------------
(* Top of the loop: a heartbeat, when one is due, moves the strikes.       *)
HeartbeatNotDue ==
    /\ UNCHANGED failoverVars

HeartbeatAcked ==
    /\ current \notin Dead
    /\ OnSendSuccess

HeartbeatFailed ==
    /\ current \notin Good
    /\ OnSendFailure

Heartbeat ==
    /\ agentUp /\ pc = "top"
    /\ pc' = "drain"
    /\ HeartbeatNotDue \/ HeartbeatAcked \/ HeartbeatFailed
    /\ UNCHANGED <<agentUp, memVars, loopVars, histVars, netVars, crashes,
                   spillVars>>

(* Drain(fresh, 50) under queue_mu_.                                       *)
Drain ==
    /\ agentUp /\ pc = "drain"
    /\ LET n == IF Len(queue) < DrainLimit THEN Len(queue) ELSE DrainLimit
       IN  /\ fresh' = SubSeq(queue, 1, n)
           /\ queue' = Behead(queue, n)
           /\ gotFresh' = (n > 0)
    /\ pc' = "fill"
    /\ UNCHANGED <<agentUp, buffer, loopVars, histVars, netVars, crashes,
                   spillVars, failoverVars>>

(* One drained batch goes to the back of the deque; when the deque is then *)
(* over its limit its front is spilled, or dropped and counted.            *)
Filled == Append(buffer, Head(fresh))

Trimmed(n) == Range(SubSeq(spill, 1, n))

(* Mutant: the newest batch is spilled instead of the oldest.              *)
FillSpill_newest(n) ==
    /\ Len(Filled) > MaxBuffer
    /\ SpillPush(Head(fresh), n)
    /\ lost' = lost \cup Trimmed(n)
    /\ UNCHANGED <<buffer, dropped>>

(* Mutant: the limit of the deque is not enforced.                         *)
FillKeep_unbounded ==
    /\ buffer' = Filled
    /\ UNCHANGED <<dropped, lost, spillVars>>

FillKeep ==
    /\ Len(Filled) <= MaxBuffer
    /\ buffer' = Filled
    /\ UNCHANGED <<dropped, lost, spillVars>>

FillSpill(n) ==
    /\ Len(Filled) > MaxBuffer
    /\ SpillPush(Head(Filled), n)
    /\ lost' = lost \cup Trimmed(n)
    /\ buffer' = Tail(Filled)
    /\ UNCHANGED dropped

(* Mutant: a refused spill is not counted.                                 *)
FillDrop_uncounted(n) ==
    /\ Len(Filled) > MaxBuffer
    /\ SpillRefuse(n)
    /\ lost' = lost \cup Trimmed(n)
    /\ buffer' = Tail(Filled)
    /\ UNCHANGED dropped

(* Mutant: a refused spill drops the batch that just arrived.              *)
FillDrop_newest(n) ==
    /\ Len(Filled) > MaxBuffer
    /\ SpillRefuse(n)
    /\ lost' = lost \cup Trimmed(n)
    /\ dropped' = dropped \cup {Head(fresh)}
    /\ UNCHANGED buffer

FillDrop(n) ==
    /\ Len(Filled) > MaxBuffer
    /\ SpillRefuse(n)
    /\ lost' = lost \cup Trimmed(n)
    /\ buffer' = Tail(Filled)
    /\ dropped' = dropped \cup {Head(Filled)}

Fill ==
    /\ agentUp /\ pc = "fill"
    /\ fresh # << >>
    /\ fresh' = Tail(fresh)
    /\ \/ FillKeep
       \/ \E n \in 0 .. Len(spill) : FillSpill(n)
       \/ \E n \in 0 .. Len(spill) : FillDrop(n)
    /\ UNCHANGED <<agentUp, pc, queue, gotFresh, loopVars, produced, netVars,
                   crashes, failoverVars>>

FillDone ==
    /\ agentUp /\ pc = "fill"
    /\ fresh = << >>
    /\ pc' = "decide"
    /\ UNCHANGED <<agentUp, memVars, loopVars, histVars, netVars, crashes,
                   spillVars, failoverVars>>

(* should_send: something is buffered and something is fresh, or more than *)
(* one batch waits, or the interval elapsed.                               *)
DecideSend ==
    /\ agentUp /\ pc = "decide"
    /\ buffer # << >>
    /\ pc' = "send"
    /\ sent' = 0
    /\ limit' = IF Len(buffer) > 1 THEN MaxSends ELSE 1
    /\ UNCHANGED <<agentUp, memVars, drained, histVars, netVars, crashes,
                   spillVars, failoverVars>>

(* The iteration ends and its local variables go out of scope.             *)
EndIteration ==
    /\ pc' = "top"
    /\ gotFresh' = FALSE
    /\ sent' = 0 /\ limit' = 1 /\ drained' = 0

DecideWait ==
    /\ agentUp /\ pc = "decide"
    /\ buffer = << >> \/ (~gotFresh /\ Len(buffer) = 1)
    /\ EndIteration
    /\ UNCHANGED <<agentUp, queue, fresh, buffer, histVars, netVars, crashes,
                   spillVars, failoverVars>>

-----------------------------------------------------------------------------
(* The collector ingests b once more.                                      *)
Ingest(b) ==
    copies' = [copies EXCEPT ![b] = IF @ = 0 THEN 1 ELSE 2]

(* A call that returned ok: the collector acknowledged, so it has b.       *)
CallOk(b) ==
    /\ current \notin Dead
    /\ b \notin Poison
    /\ Ingest(b)
    /\ UNCHANGED late

(* A call that did not: nothing arrived, or the batch was ingested and the *)
(* answer was lost or negative, or the deadline passed while the collector *)
(* still works on it.                                                      *)
CallFailed(b) ==
    /\ current \notin Good \/ b \in Poison
    /\ \/ UNCHANGED <<copies, late>>
       \/ /\ current \notin Dead /\ b \notin Poison
          /\ Ingest(b)
          /\ UNCHANGED late
       \/ /\ current \notin Dead /\ b \notin Poison
          /\ late' = late \cup {b}
          /\ UNCHANGED copies
    /\ retried' = retried \cup {b}

(* A timed-out call takes effect after all.                                *)
LateIngest(b) ==
    /\ b \in late
    /\ Ingest(b)
    /\ late' = late \ {b}
    /\ UNCHANGED <<agentUp, pc, memVars, loopVars, histVars, retried, crashes,
                   spillVars, failoverVars>>

Sending ==
    /\ agentUp /\ pc = "send"
    /\ sent < limit
    /\ buffer # << >>

(* Mutant: pop_front is forgotten after an accepted batch.                 *)
SendOk_noPop ==
    /\ Sending
    /\ CallOk(Head(buffer))
    /\ UNCHANGED <<buffer, retried>>
    /\ OnSendSuccess
    /\ pc' = "disk"
    /\ UNCHANGED <<agentUp, queue, fresh, gotFresh, loopVars, histVars,
                   crashes, spillVars>>

SendOk ==
    /\ Sending
    /\ CallOk(Head(buffer))
    /\ buffer' = Tail(buffer)
    /\ OnSendSuccess
    /\ pc' = "disk"
    /\ UNCHANGED <<agentUp, queue, fresh, gotFresh, loopVars, histVars,
                   retried, crashes, spillVars>>

(* Mutant: the batch is popped before the result of the send is known.     *)
SendFailed_popped ==
    /\ Sending
    /\ CallFailed(Head(buffer))
    /\ OnSendFailure
    /\ buffer' = Tail(buffer)
    /\ EndIteration
    /\ UNCHANGED <<agentUp, queue, fresh, histVars, crashes, spillVars>>

SendFailed ==
    /\ Sending
    /\ CallFailed(Head(buffer))
    /\ OnSendFailure
    /\ EndIteration
    /\ UNCHANGED <<agentUp, queue, fresh, buffer, histVars, crashes,
                   spillVars>>

SendDone ==
    /\ agentUp /\ pc = "send"
    /\ sent >= limit \/ buffer = << >>
    /\ EndIteration
    /\ UNCHANGED <<agentUp, queue, fresh, buffer, histVars, netVars, crashes,
                   spillVars, failoverVars>>

-----------------------------------------------------------------------------
(* After each accepted batch up to MaxDrain rows of the disk buffer follow. *)
Draining ==
    /\ agentUp /\ pc = "disk"
    /\ drained < MaxDrain
    /\ spillUp
    /\ spill # << >>

(* Mutant: the row is popped whatever the collector answered.              *)
DrainFailed_popped ==
    /\ Draining
    /\ Head(spill) \notin Corrupt
    /\ CallFailed(Head(spill))
    /\ SpillPop(1)
    /\ sent' = sent + 1 /\ drained' = 0
    /\ pc' = "send"
    /\ UNCHANGED <<agentUp, memVars, limit, histVars, crashes,
                   failoverVars>>

(* The accepted row is removed by Pop(1), whose DELETE may fail and leave  *)
(* the row for the next iteration.                                         *)
DrainOk ==
    /\ Draining
    /\ Head(spill) \notin Corrupt
    /\ CallOk(Head(spill))
    /\ \/ SpillPop(1) /\ UNCHANGED retried
       \/ UNCHANGED spillVars /\ retried' = retried \cup {Head(spill)}
    /\ drained' = drained + 1
    /\ UNCHANGED <<agentUp, pc, memVars, sent, limit, histVars, crashes,
                   failoverVars>>

(* A blob that does not parse is removed unsent.                           *)
DrainDiscard ==
    /\ Draining
    /\ Head(spill) \in Corrupt
    /\ \/ SpillPop(1) /\ lost' = lost \cup {Head(spill)}
       \/ UNCHANGED <<spillVars, lost>>
    /\ drained' = drained + 1
    /\ UNCHANGED <<agentUp, pc, memVars, sent, limit, produced, dropped,
                   netVars, crashes, failoverVars>>

(* A failed drain ends the inner loop and leaves the strikes alone.        *)
DrainFailed ==
    /\ Draining
    /\ Head(spill) \notin Corrupt
    /\ CallFailed(Head(spill))
    /\ sent' = sent + 1 /\ drained' = 0
    /\ pc' = "send"
    /\ UNCHANGED <<agentUp, memVars, limit, histVars, crashes,
                   spillVars, failoverVars>>

(* Nothing (more) to drain, or the SELECT of Size or Peek failed.          *)
DrainDone ==
    /\ agentUp /\ pc = "disk"
    /\ sent' = sent + 1 /\ drained' = 0
    /\ pc' = "send"
    /\ UNCHANGED <<agentUp, memVars, limit, histVars, netVars,
                   crashes, spillVars, failoverVars>>

-----------------------------------------------------------------------------
(* The process ends: what is only in memory is gone.                       *)
InMemory == Range(queue) \cup Range(fresh) \cup Range(buffer)

Down ==
    /\ agentUp
    /\ crashes < MaxCrashes
    /\ crashes' = crashes + 1
    /\ agentUp' = FALSE
    /\ EndIteration
    /\ queue' = << >> /\ fresh' = << >> /\ buffer' = << >>
    /\ current' = 0 /\ strikes' = 0
    /\ UNCHANGED <<produced, dropped, copies, late>>

(* s_running went false: the loop ends at its head and the process exits.  *)
Shutdown ==
    /\ pc = "top"
    /\ Down
    /\ lost' = lost \cup InMemory
    /\ SpillClose
    /\ UNCHANGED retried

Crash ==
    /\ Down
    /\ lost' = lost \cup InMemory
    /\ SpillClose
    /\ UNCHANGED retried

(* Rows that were not synced are gone; deleted rows may be back.           *)
PowerLoss ==
    /\ Down
    /\ SpillPowerLoss
    /\ lost' = lost \cup InMemory \cup (Range(spill) \ Range(synced))
    /\ retried' = retried \cup (Range(synced) \ Range(spill))

Restart ==
    /\ ~agentUp
    /\ agentUp' = TRUE
    /\ SpillOpen
    /\ UNCHANGED <<pc, memVars, loopVars, histVars, netVars, crashes,
                   failoverVars>>

Sync ==
    /\ SpillSync
    /\ UNCHANGED <<agentUp, pc, memVars, loopVars, histVars, netVars, crashes,
                   failoverVars>>

-----------------------------------------------------------------------------
MainLoop ==
    \/ Heartbeat
    \/ Drain
    \/ Fill \/ FillDone
    \/ DecideSend \/ DecideWait
    \/ SendOk \/ SendFailed \/ SendDone
    \/ DrainOk \/ DrainDiscard \/ DrainFailed \/ DrainDone

Next ==
    \/ Produce
    \/ MainLoop
    \/ \E b \in Batch : LateIngest(b)
    \/ Shutdown \/ Crash \/ PowerLoss \/ Restart
    \/ Sync

Spec == Init /\ [][Next]_vars

(* The main loop keeps running, a started machine comes back up, and the   *)
(* send interval elapses again and again.                                  *)
Fairness ==
    /\ WF_vars(MainLoop)
    /\ SF_vars(DecideSend)
    /\ WF_vars(Restart)

FairSpec == Spec /\ Fairness

-----------------------------------------------------------------------------
(* The type invariant, with the bounds of the queue and of the deque.      *)
TypeOK ==
    /\ agentUp \in BOOLEAN
    /\ pc \in {"top", "drain", "fill", "decide", "send", "disk"}
    /\ queue \in Seq(Batch) /\ Len(queue) <= MaxQueued
    /\ fresh \in Seq(Batch)
    /\ gotFresh \in BOOLEAN
    /\ buffer \in Seq(Batch) /\ Len(buffer) <= MaxBuffer
    /\ sent \in Nat /\ limit \in Nat /\ drained \in Nat
    /\ produced \in 0 .. MaxBatches
    /\ dropped \subseteq Batch /\ lost \subseteq Batch
    /\ copies \in [Batch -> 0 .. 2]
    /\ late \subseteq Batch /\ retried \subseteq Batch
    /\ crashes \in 0 .. MaxCrashes
    /\ SpillTypeOK
    /\ FailoverTypeOK

Pending == InMemory \cup Range(spill)
Received == {b \in Batch : copies[b] > 0}

(* No batch is forgotten: whatever the probe thread produced is still in   *)
(* the agent, or was ingested by a collector, or was counted as dropped,   *)
(* or belongs to a loss the code accepts (queue overflow, trim, corrupt    *)
(* blob, process end, power loss). A failed send or a failed pop forgets   *)
(* nothing.                                                                *)
Accounted ==
    \A b \in 1 .. produced : b \in Pending \cup Received \cup dropped \cup lost

(* Disk, deque, drained batches and queue, one after the other, hold       *)
(* batches in production order and each batch at most once, across spills, *)
(* retries, restarts and power losses.                                     *)
Increasing(s) == \A i, j \in 1 .. Len(s) : i < j => s[i] < s[j]
Before(s, t) == \A x \in Range(s), y \in Range(t) : x < y

InOrder ==
    /\ Increasing(spill) /\ Increasing(buffer)
    /\ Increasing(fresh) /\ Increasing(queue)
    /\ Before(spill, buffer) /\ Before(spill, fresh) /\ Before(spill, queue)
    /\ Before(buffer, fresh) /\ Before(buffer, queue)
    /\ Before(fresh, queue)

(* When the agent must drop a batch it never keeps an older one in memory: *)
(* everything still in memory is newer than everything dropped.            *)
DropsOldest ==
    \A d \in dropped, b \in InMemory : d < b

(* The agent creates no duplicate on its own: a batch is ingested twice    *)
(* only after one of its sends was reported failed, its row could not be   *)
(* deleted, or a power loss brought its row back.                          *)
NoUnprovokedDuplicate ==
    \A b \in Batch : copies[b] = 2 => b \in retried

(* The inductive strengthening of the invariants above: outside the fill   *)
(* loop nothing is in transit, nothing is known before it is produced, the *)
(* synced rows are in order, and a batch the agent still holds although a  *)
(* collector has it was part of a failed exchange.                         *)
FreshMoved == pc # "fill" => fresh = << >>

Known ==
    Pending \cup Range(synced) \cup dropped \cup late \cup Received
      \subseteq 1 .. produced

Provoked ==
    /\ late \subseteq retried
    /\ Pending \cap Received \subseteq retried

OrderInv ==
    FreshMoved /\ Known /\ Increasing(synced) /\ InOrder /\ DropsOldest

IInv == TypeOK /\ OrderInv /\ Accounted /\ Provoked /\ NoUnprovokedDuplicate

Flaky == Endpoint \ (Good \cup Dead)

(* FailoverClient, the send loop: a buffered batch is sent, spilled or     *)
(* dropped in the end, as failover leaves dead endpoints behind. It stays  *)
(* in the deque for ever only if the agent settles at an endpoint that     *)
(* answers some calls and not others (a heartbeat that works resets the    *)
(* strikes of the sends), or behind a batch every collector rejects.       *)
BufferDrains ==
    \A b \in Batch :
        \/ b \in Range(buffer) ~> b \notin Range(buffer)
        \/ <>[](current \in Flaky)
        \/ <>[](buffer # << >> => Head(buffer) \in Poison)

(* The contract the agent implements.                                      *)
Contract == INSTANCE DeliveryContract WITH
                pending <- Pending, received <- Received,
                gone <- dropped \cup lost

ContractSpec == Contract!Spec
=============================================================================
