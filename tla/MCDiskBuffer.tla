---------------------------- MODULE MCDiskBuffer ----------------------------
(* Two payloads of one and two bytes and a limit that is lowered and       *)
(* raised between starts.                                                  *)
EXTENDS DiskBuffer

CONSTANTS small, large

MCBatch == {small, large}
MCBatchSize == [b \in MCBatch |-> IF b = small THEN 1 ELSE 2]
MCLimits == {2, 4}
=============================================================================
