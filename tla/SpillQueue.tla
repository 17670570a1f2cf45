----------------------------- MODULE SpillQueue -----------------------------
(***************************************************************************)
(* What the agent's main loop relies on when it spills batches to disk     *)
(* (agent/src/disk_buffer.h): a persistent first-in first-out queue that   *)
(* may be unavailable, may refuse a push, may fail to pop, survives a      *)
(* process crash, and may lose its unsynced transactions in a power loss.  *)
(* DiskBuffer is the detailed specification that implements it;            *)
(* AgentDelivery composes these operations with the rest of the agent.     *)
(***************************************************************************)
EXTENDS Naturals, Sequences

CONSTANT Batch      \* the batches that may be spilled

VARIABLES
    spill,          \* rows of table pending, oldest first
    synced,         \* the rows a power loss falls back to
    spillUp,        \* Available(): the database handle is open
    overfull        \* the table holds more than the configured limit

spillVars == <<spill, synced, spillUp, overfull>>

SpillTypeOK ==
    /\ spill \in Seq(Batch)
    /\ synced \in Seq(Batch)
    /\ spillUp \in BOOLEAN
    /\ overfull \in BOOLEAN

SpillInit ==
    /\ spill = << >>
    /\ synced = << >>
    /\ spillUp = FALSE
    /\ overfull = FALSE

(* s without its n oldest elements. *)
Behead(s, n) == SubSeq(s, n + 1, Len(s))

(* A starting process opens the file, or fails to. The limit may have been *)
(* lowered since the rows were written.                                    *)
SpillOpen ==
    /\ ~spillUp
    /\ spillUp' \in BOOLEAN
    /\ overfull' \in BOOLEAN
    /\ overfull' => spillUp'
    /\ UNCHANGED <<spill, synced>>

(* A push first trims the n oldest rows, which it does only to an overfull *)
(* table, and is then accepted ...                                         *)
SpillPush(b, n) ==
    /\ spillUp
    /\ n \in 0 .. Len(spill)
    /\ n > 0 => overfull
    /\ spill' = Append(Behead(spill, n), b)
    /\ overfull' = FALSE
    /\ UNCHANGED <<synced, spillUp>>

(* ... or refused: no handle, no room left, or the INSERT failed.          *)
SpillRefuse(n) ==
    /\ n \in 0 .. Len(spill)
    /\ n > 0 => overfull
    /\ spill' = Behead(spill, n)
    /\ overfull' \in {overfull, FALSE}
    /\ UNCHANGED <<synced, spillUp>>

(* Pop deletes the n oldest rows.                                          *)
SpillPop(n) ==
    /\ spillUp
    /\ spill' = Behead(spill, n)
    /\ overfull' \in {overfull, FALSE}
    /\ UNCHANGED <<synced, spillUp>>

(* The write-ahead log reaches stable storage at a moment of its own.      *)
SpillSync ==
    /\ synced' = spill
    /\ UNCHANGED <<spill, spillUp, overfull>>

(* The process ends. Committed rows stay in the file.                      *)
SpillClose ==
    /\ spillUp' = FALSE
    /\ overfull' = FALSE
    /\ UNCHANGED <<spill, synced>>

(* The machine stops: transactions that were not synced are rolled back.   *)
SpillPowerLoss ==
    /\ spillUp' = FALSE
    /\ overfull' = FALSE
    /\ spill' = synced
    /\ UNCHANGED synced

SpillNext ==
    \/ SpillOpen
    \/ \E b \in Batch, n \in 0 .. Len(spill) : SpillPush(b, n)
    \/ \E n \in 0 .. Len(spill) : SpillRefuse(n)
    \/ \E n \in 1 .. Len(spill) : SpillPop(n)
    \/ SpillSync
    \/ SpillClose
    \/ SpillPowerLoss

SpillSpec == SpillInit /\ [][SpillNext]_spillVars
=============================================================================
