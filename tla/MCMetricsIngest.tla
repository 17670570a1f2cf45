--------------------------- MODULE MCMetricsIngest ---------------------------
(* Workloads for the runs of MetricsIngest.                                *)
EXTENDS MetricsIngest

(* Two pieces of a stream, an empty batch, more than one INSERT can hold.  *)
Direct ==
    [kafka |-> FALSE, size |-> <<FlushThreshold + 1, 0, BatchSize + 1>>,
     streamed |-> {1}, faults |-> 3, foreign |-> 0]

(* A streamed batch, another one, and a message that does not parse.       *)
ThroughKafka ==
    [kafka |-> TRUE, size |-> <<1, 1>>, streamed |-> {1}, faults |-> 2, foreign |-> 1]

Unary == {[ThroughKafka EXCEPT !.streamed = {}, !.foreign = 0]}
Both == {Direct, ThroughKafka}
=============================================================================
