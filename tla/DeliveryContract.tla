-------------------------- MODULE DeliveryContract --------------------------
(***************************************************************************)
(* What the agent promises about a produced batch: it stays pending until  *)
(* a collector has ingested it, or until the agent gives it up. Ingestion  *)
(* may happen more than once and after the batch was given up; delivery is *)
(* at least once for every batch that is not given up.                     *)
(***************************************************************************)
EXTENDS Naturals

CONSTANT Batch

VARIABLES
    produced,       \* number of batches produced
    pending,        \* batches the agent still holds
    received,       \* batches a collector ingested
    gone            \* batches the agent gave up

contractVars == <<produced, pending, received, gone>>

Init ==
    /\ produced = 0
    /\ pending = {} /\ received = {} /\ gone = {}

(* A new batch; the agent may have to give up older ones to make room.     *)
Produce ==
    /\ produced + 1 \in Batch
    /\ produced' = produced + 1
    /\ \E L \in SUBSET pending :
         /\ pending' = (pending \ L) \cup {produced + 1}
         /\ gone' = gone \cup L
    /\ UNCHANGED received

(* A collector ingests a batch that was produced; the agent may release it. *)
Ingest ==
    /\ \E b \in 1 .. produced :
         /\ received' = received \cup {b}
         /\ pending' \in {pending, pending \ {b}}
    /\ UNCHANGED <<produced, gone>>

(* The agent gives batches up, and after a power loss it may hold batches  *)
(* again: only such as a collector has or as it had given up before.       *)
GiveUp ==
    /\ \E L \in SUBSET pending, R \in SUBSET (received \cup gone) :
         /\ pending' = (pending \ L) \cup R
         /\ gone' = gone \cup L
    /\ UNCHANGED <<produced, received>>

Next == Produce \/ Ingest \/ GiveUp

Spec == Init /\ [][Next]_contractVars
=============================================================================
