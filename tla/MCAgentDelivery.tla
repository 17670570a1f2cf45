--------------------------- MODULE MCAgentDelivery ---------------------------
(* Few endpoints, short queues and few batches: every limit of the code is *)
(* reached, and a batch can be spilled, drained, dropped and lost.         *)
EXTENDS AgentDelivery

MCBatch == 1 .. MaxBatches
None == {}
LastEndpoint == {NumEndpoints - 1}
FirstEndpoint == {0}
SecondBatch == {2}
LastBatch == {MaxBatches}
=============================================================================
