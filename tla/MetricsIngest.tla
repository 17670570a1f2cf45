---------------------------- MODULE MetricsIngest ----------------------------
(***************************************************************************)
(* How a batch of an agent becomes rows of table network_metrics: the gRPC *)
(* handlers (collector/src/metrics_service.cpp), the insert                *)
(* (collector/src/storage/timescale_storage.cpp) and, when Kafka sits in   *)
(* between, the producer (collector/src/kafka/producer.cpp), the topic and *)
(* the storage consumer (collector/src/kafka/consumer_common.cpp,          *)
(* storage_consumer.cpp). The agent sends its batches one after the other  *)
(* and repeats a batch until it is acknowledged.                           *)
(*                                                                         *)
(* Batch b holds the metrics 1 .. Size[b]. A row is <<b, i, at>>: metric i *)
(* of batch b under the timestamp at, which is part of the primary key.    *)
(* Counters, tracing and backpressure are left out; AlertManager models    *)
(* the call to Evaluate. The messages of one agent share a partition.      *)
(***************************************************************************)
EXTENDS Naturals, Sequences, FiniteSets

CONSTANTS
    Workloads,          \* what the agent sends, how, and what goes wrong
    Handler, Nobody,    \* handler threads; no handler
    BatchSize,          \* StorageConfig::batch_size, rows per INSERT
    FlushThreshold,     \* kFlushThreshold, metrics per flush of a stream
    MaxTime             \* bound: last value of the collector's clock

OwnTime == MaxTime + 1  \* timestamp_unix_ms of the batch itself
None == 0               \* no committed offset

(* The storage mode (Kafka or direct); the number of metrics of each batch;*)
(* the batches sent by StreamMetrics, not SendMetrics; and two bounds:     *)
(* failures of database, broker and processes, messages that do not parse. *)
ASSUME IngestAssumption ==
    /\ MaxTime \in Nat
    /\ {BatchSize, FlushThreshold} \subseteq Nat \ {0}
    /\ Nobody \notin Handler
    /\ \A w \in Workloads :
         /\ DOMAIN w = {"kafka", "size", "streamed", "faults", "foreign"}
         /\ w.kafka \in BOOLEAN
         /\ w.size \in Seq(Nat)
         /\ w.streamed \subseteq DOMAIN w.size
         /\ {w.faults, w.foreign} \subseteq Nat

VARIABLES
    load,           \* the workload, chosen once
    clock,
    rows,           \* table network_metrics
    acked,          \* batches the agent has an acknowledgement for
    waiting,        \* the handler whose answer the agent waits for
    pc, job, since, flushed, ok,    \* each handler: its batch, receive time,
                                    \* metrics handed on, result
    outq,           \* librdkafka's queue of unsent messages
    log,            \* the partition
    cpc, position, committed,       \* the storage consumer
    attempted, failed, skipped,     \* history: offsets handled, failed, passed over
    undelivered,    \* history: messages whose delivery failed, and those lost
                    \* with the collector
    faults, foreign

Kafka == load.kafka
Size == load.size
Batch == DOMAIN Size
Streamed == load.streamed

handlerVars == <<pc, job, since, flushed, ok>>
consumerVars == <<cpc, position, committed, attempted, failed, skipped>>
vars == <<load, clock, rows, acked, waiting, handlerVars, outq, log, consumerVars,
          undelivered, faults, foreign>>

Init ==
    /\ load \in Workloads
    /\ clock = 0
    /\ rows = {} /\ acked = {}
    /\ waiting = Nobody
    /\ pc = [h \in Handler |-> "idle"]
    /\ job = [h \in Handler |-> 0]
    /\ since = [h \in Handler |-> 0]
    /\ flushed = [h \in Handler |-> 0]
    /\ ok = [h \in Handler |-> FALSE]
    /\ outq = << >> /\ log = << >>
    /\ cpc = "down" /\ position = 0 /\ committed = None
    /\ attempted = {} /\ failed = {} /\ skipped = {}
    /\ undelivered = {}
    /\ faults = 0 /\ foreign = 0

Tick ==
    /\ clock < MaxTime
    /\ clock' = clock + 1
    /\ UNCHANGED <<load, rows, acked, waiting, handlerVars, outq, log, consumerVars,
                   undelivered, faults, foreign>>

Fault ==
    /\ faults < load.faults
    /\ faults' = faults + 1

-----------------------------------------------------------------------------
(* InsertMetrics and Produce.                                              *)

RowsOf(m) == {<<m.b, i, m.at>> : i \in m.from .. m.to}

(* One INSERT ... ON CONFLICT DO NOTHING stores everything ...             *)
InsertOk(m) ==
    /\ m.to < m.from + BatchSize
    /\ rows' = rows \cup RowsOf(m)
    /\ UNCHANGED faults

(* ... but after a full chunk the statement is cleared, its INSERT INTO    *)
(* included, and the next chunk is no statement any more.                  *)
InsertCut(m) ==
    /\ m.to >= m.from + BatchSize
    /\ rows' = rows \cup RowsOf([m EXCEPT !.to = m.from + BatchSize - 1])
    /\ UNCHANGED faults

(* The database is away, or its answer got lost after the INSERT.          *)
InsertFault(m) ==
    /\ Fault
    /\ \/ UNCHANGED rows
       \/ rows' = rows \cup RowsOf([m EXCEPT !.to =
                    IF m.to < m.from + BatchSize THEN m.to ELSE m.from + BatchSize - 1])

Insert(m, good) ==
    \/ good /\ InsertOk(m)
    \/ ~good /\ (InsertCut(m) \/ InsertFault(m))

(* produce() only appends to the local queue, or finds it full.            *)
Produce(m, good) ==
    \/ good /\ outq' = Append(outq, m) /\ UNCHANGED faults
    \/ ~good /\ Fault /\ UNCHANGED outq

IngestBatch(m, good) ==
    \/ Kafka /\ Produce(m, good) /\ UNCHANGED rows
    \/ ~Kafka /\ Insert(m, good) /\ UNCHANGED outq

-----------------------------------------------------------------------------
(* The agent and the gRPC handlers.                                        *)

(* The agent sends its oldest batch, for the first time or once more.      *)
Call(h) ==
    /\ waiting = Nobody /\ pc[h] = "idle"
    /\ acked # Batch
    /\ waiting' = h
    /\ pc' = [pc EXCEPT ![h] = "ingest"]
    /\ job' = [job EXCEPT ![h] = CHOOSE b \in Batch \ acked :
                                    \A c \in Batch \ acked : b <= c]
    /\ since' = [since EXCEPT ![h] = clock]
    /\ UNCHANGED <<load, clock, rows, acked, flushed, ok, outq, log, consumerVars,
                   undelivered, faults, foreign>>

(* The deadline passes; the handler goes on without noticing.              *)
GiveUp ==
    /\ waiting # Nobody
    /\ Fault
    /\ waiting' = Nobody
    /\ UNCHANGED <<load, clock, rows, acked, handlerVars, outq, log, consumerVars,
                   undelivered, foreign>>

Piece(h, from, to, at) == [b |-> job[h], from |-> from, to |-> to, at |-> at]

(* SendMetrics: an empty batch is acknowledged as it is; any other is      *)
(* stored under the time of its arrival, or queued under its own time.     *)
SendMetrics(h) ==
    /\ pc[h] = "ingest" /\ job[h] \notin Streamed
    /\ \E good \in BOOLEAN :
         /\ IF Size[job[h]] = 0
            THEN good /\ UNCHANGED <<rows, outq, faults>>
            ELSE IngestBatch(Piece(h, 1, Size[job[h]],
                                   IF Kafka THEN OwnTime ELSE clock), good)
         /\ ok' = [ok EXCEPT ![h] = good]
    /\ pc' = [pc EXCEPT ![h] = "reply"]
    /\ UNCHANGED <<load, clock, acked, waiting, job, since, flushed, log, consumerVars,
                   undelivered, foreign>>

(* StreamMetrics: FlushThreshold metrics have been read. If they cannot be *)
(* stored, the rest of the stream is read and rejected.                    *)
StreamFlush(h) ==
    /\ pc[h] = "ingest" /\ job[h] \in Streamed
    /\ flushed[h] + FlushThreshold <= Size[job[h]]
    /\ \E good \in BOOLEAN :
         /\ IngestBatch(Piece(h, flushed[h] + 1, flushed[h] + FlushThreshold,
                              IF Kafka THEN since[h] ELSE clock), good)
         /\ pc' = [pc EXCEPT ![h] = IF good THEN "ingest" ELSE "reply"]
         /\ ok' = [ok EXCEPT ![h] = FALSE]
         /\ flushed' = [flushed EXCEPT ![h] = IF good THEN @ + FlushThreshold ELSE @]
    /\ UNCHANGED <<load, clock, acked, waiting, job, since, log, consumerVars,
                   undelivered, foreign>>

(* The stream ends after metric n, early if the agent has given up: what   *)
(* has been read is stored all the same.                                   *)
StreamEnd(h) ==
    /\ pc[h] = "ingest" /\ job[h] \in Streamed
    /\ \E n \in flushed[h] .. Size[job[h]], good \in BOOLEAN :
         /\ n - flushed[h] < FlushThreshold
         /\ n < Size[job[h]] => waiting # h
         /\ IF n = flushed[h]
            THEN good /\ UNCHANGED <<rows, outq, faults>>
            ELSE IngestBatch(Piece(h, flushed[h] + 1, n,
                                   IF Kafka THEN since[h] ELSE clock), good)
         /\ ok' = [ok EXCEPT ![h] = good]
    /\ pc' = [pc EXCEPT ![h] = "reply"]
    /\ UNCHANGED <<load, clock, acked, waiting, job, since, flushed, log, consumerVars,
                   undelivered, foreign>>

(* The answer reaches the agent, if it still waits for it.                 *)
Reply(h) ==
    /\ pc[h] = "reply"
    /\ acked' = IF waiting = h /\ ok[h] THEN acked \cup {job[h]} ELSE acked
    /\ waiting' = IF waiting = h THEN Nobody ELSE waiting
    /\ pc' = [pc EXCEPT ![h] = "idle"]
    /\ job' = [job EXCEPT ![h] = 0]
    /\ since' = [since EXCEPT ![h] = 0]
    /\ flushed' = [flushed EXCEPT ![h] = 0]
    /\ ok' = [ok EXCEPT ![h] = FALSE]
    /\ UNCHANGED <<load, clock, rows, outq, log, consumerVars, undelivered, faults, foreign>>

(* The collector ends. What its producer has not sent within the flush of  *)
(* the destructor is gone, as is every call under way.                     *)
CollectorStop ==
    /\ Fault
    /\ waiting' = Nobody
    /\ pc' = [h \in Handler |-> "idle"]
    /\ job' = [h \in Handler |-> 0]
    /\ since' = [h \in Handler |-> 0]
    /\ flushed' = [h \in Handler |-> 0]
    /\ ok' = [h \in Handler |-> FALSE]
    /\ outq' = << >>
    /\ undelivered' = undelivered \cup {outq[i] : i \in DOMAIN outq}
    /\ UNCHANGED <<load, clock, rows, acked, log, consumerVars, foreign>>

-----------------------------------------------------------------------------
(* Kafka.                                                                  *)

(* The idempotent producer keeps the order and delivers once ...           *)
Deliver ==
    /\ outq # << >>
    /\ log' = Append(log, Head(outq))
    /\ outq' = Tail(outq)
    /\ UNCHANGED <<load, clock, rows, acked, waiting, handlerVars, consumerVars,
                   undelivered, faults, foreign>>

(* ... or gives up after message.timeout.ms; dr_cb counts the failure.     *)
DeliveryFailed ==
    /\ outq # << >>
    /\ Fault
    /\ undelivered' = undelivered \cup {Head(outq)}
    /\ outq' = Tail(outq)
    /\ UNCHANGED <<load, clock, rows, acked, waiting, handlerVars, log, consumerVars,
                   foreign>>

(* Somebody else writes an empty or unparseable message.                   *)
ForeignMessage ==
    /\ Kafka
    /\ foreign < load.foreign
    /\ foreign' = foreign + 1
    /\ log' = Append(log, [b |-> 0, from |-> 1, to |-> 0, at |-> 0])
    /\ UNCHANGED <<load, clock, rows, acked, waiting, handlerVars, outq, consumerVars,
                   undelivered, faults>>

(* Without a committed offset auto.offset.reset = largest starts at the    *)
(* end of the log.                                                         *)
ConsumerStart ==
    /\ Kafka
    /\ cpc = "down"
    /\ cpc' = "poll"
    /\ position' = IF committed = None THEN Len(log) + 1 ELSE committed
    /\ skipped' = IF committed = None THEN 1 .. Len(log) ELSE skipped
    /\ UNCHANGED <<load, clock, rows, acked, waiting, handlerVars, outq, log, committed,
                   attempted, failed, undelivered, faults, foreign>>

ConsumerStop ==
    /\ cpc # "down"
    /\ Fault
    /\ cpc' = "down" /\ position' = 0
    /\ UNCHANGED <<load, clock, rows, acked, waiting, handlerVars, outq, log, committed,
                   attempted, failed, skipped, undelivered, foreign>>

(* Mutant: an unparseable message is read again and again.                 *)
ConsumeForeign_again ==
    /\ cpc = "poll" /\ position <= Len(log)
    /\ log[position].b = 0
    /\ UNCHANGED <<committed, attempted, position>>
    /\ UNCHANGED <<load, clock, rows, acked, waiting, handlerVars, outq, log, cpc,
                   failed, skipped, undelivered, faults, foreign>>

(* A message that does not parse is skipped and committed.                 *)
ConsumeForeign ==
    /\ cpc = "poll" /\ position <= Len(log)
    /\ log[position].b = 0
    /\ committed' \in {position + 1, committed}
    /\ attempted' = attempted \cup {position}
    /\ position' = position + 1
    /\ UNCHANGED <<load, clock, rows, acked, waiting, handlerVars, outq, log, cpc,
                   failed, skipped, undelivered, faults, foreign>>

(* Mutant: the rows are stored under the time of the insert.               *)
Consume_receiveTime ==
    /\ cpc = "poll" /\ position <= Len(log)
    /\ log[position].b # 0
    /\ Insert([log[position] EXCEPT !.at = clock], TRUE)
    /\ attempted' = attempted \cup {position}
    /\ cpc' = "commit"
    /\ UNCHANGED <<load, clock, acked, waiting, handlerVars, outq, log, position,
                   committed, failed, skipped, undelivered, foreign>>

(* Mutant: the committed offset is one too far.                            *)
Commit_past ==
    /\ cpc = "commit"
    /\ cpc' = "poll"
    /\ position' = position + 1
    /\ \/ committed' = position + 2 /\ UNCHANGED faults
       \/ Fault /\ UNCHANGED committed
    /\ UNCHANGED <<load, clock, rows, acked, waiting, handlerVars, outq, log, attempted,
                   failed, skipped, undelivered, foreign>>

(* The handler stores the message under the timestamp it carries; after a  *)
(* failure the consumer goes on with the next message.                     *)
Consume ==
    /\ cpc = "poll" /\ position <= Len(log)
    /\ log[position].b # 0
    /\ \E good \in BOOLEAN :
         /\ Insert(log[position], good)
         /\ cpc' = IF good THEN "commit" ELSE "poll"
         /\ position' = IF good THEN position ELSE position + 1
         /\ failed' = IF good THEN failed \ {position} ELSE failed \cup {position}
    /\ attempted' = attempted \cup {position}
    /\ UNCHANGED <<load, clock, acked, waiting, handlerVars, outq, log, committed,
                   skipped, undelivered, foreign>>

(* commitSync; its result is not looked at.                                *)
Commit ==
    /\ cpc = "commit"
    /\ cpc' = "poll"
    /\ position' = position + 1
    /\ \/ committed' = position + 1 /\ UNCHANGED faults
       \/ Fault /\ UNCHANGED committed
    /\ UNCHANGED <<load, clock, rows, acked, waiting, handlerVars, outq, log, attempted,
                   failed, skipped, undelivered, foreign>>

(* Everything is acknowledged and stored, and nobody stops.                *)
Quiescent ==
    /\ acked = Batch
    /\ UNCHANGED vars

HandlerStep(h) == SendMetrics(h) \/ StreamFlush(h) \/ StreamEnd(h) \/ Reply(h)
ConsumerStep == ConsumeForeign \/ Consume \/ Commit

Next ==
    \/ Tick
    \/ \E h \in Handler : Call(h) \/ HandlerStep(h)
    \/ GiveUp
    \/ CollectorStop
    \/ Deliver \/ DeliveryFailed \/ ForeignMessage
    \/ ConsumerStart \/ ConsumerStop \/ ConsumerStep
    \/ Quiescent

Spec == Init /\ [][Next]_vars

(* Handlers and consumer keep running, the agent repeats its call, a       *)
(* stopped consumer is restarted, the queue is sent.                       *)
Fairness ==
    /\ \A h \in Handler : WF_vars(HandlerStep(h))
    /\ WF_vars(\E h \in Handler : Call(h))
    /\ WF_vars(Deliver) /\ WF_vars(ConsumerStart) /\ WF_vars(ConsumerStep)

FairSpec == Spec /\ Fairness

-----------------------------------------------------------------------------
(* Properties.                                                             *)

Stored(b, i) == \E row \in rows : row[1] = b /\ row[2] = i

Holds(m, b, i) == m.b = b /\ m.from <= i /\ i <= m.to

(* Offsets a running consumer, or the next one, will still read. Before    *)
(* the first commit the next one may pass over everything.                 *)
ToRead ==
    {o \in DOMAIN log : \/ cpc # "down" /\ o >= position
                        \/ cpc = "down" /\ o >= committed}

(* A metric that is not stored is on its way in the producer's queue or    *)
(* ahead of the consumer, or was lost in one of the known places: a failed *)
(* delivery or a stopped collector, a failed insert, or the consumer's     *)
(* start at the end of the log.                                            *)
InKafka(b, i) ==
    \/ \E n \in DOMAIN outq : Holds(outq[n], b, i)
    \/ \E m \in undelivered : Holds(m, b, i)
    \/ \E o \in ToRead \cup failed \cup skipped : Holds(log[o], b, i)

(* SendMetrics, StreamMetrics, InsertMetrics, ConsumeLoop: a batch the     *)
(* agent was told is accepted is completely in the table, whatever failed, *)
(* was cut short or repeated on the way; with Kafka, every metric of it    *)
(* that is missing there is accounted for.                                 *)
AckedTraceable ==
    \A b \in acked : \A i \in 1 .. Size[b] :
        Stored(b, i) \/ (Kafka /\ InKafka(b, i))

(* Produce, ConsumeLoop: in Kafka mode a metric sent by SendMetrics is     *)
(* stored under one key only, however often its batch is sent, produced or *)
(* consumed again. (StreamMetrics and direct mode put the time of receipt  *)
(* into the key.)                                                          *)
StoredOnce ==
    \A p, q \in rows :
        Kafka /\ p[1] = q[1] /\ p[2] = q[2] /\ p[1] \notin Streamed => p[3] = q[3]

Unread == DOMAIN log \ (attempted \cup skipped)

(* Batches that no batch sent in one call, with more metrics than one      *)
(* INSERT takes, stands in the way of.                                     *)
Acceptable ==
    {b \in Batch : Kafka \/ \A c \in 1 .. b : c \in Streamed \/ Size[c] <= BatchSize}

(* SendMetrics, StreamMetrics, ConsumeLoop: once database, broker and      *)
(* network work, the agent's batches are accepted, the producer's queue    *)
(* empties, and the consumer gets past every message, whatever it holds    *)
(* and whatever failed before.                                             *)
IngestSettles ==
    <>[](Acceptable \subseteq acked /\ outq = << >> /\ Unread = {})

(* What the comment in ConsumeLoop says of a failed insert: its offset     *)
(* stays uncommitted, so that the message is delivered again.              *)
FailedRedelivered == \A o \in failed : committed <= o

=============================================================================
