---------------------------- MODULE IngestProofs ----------------------------
(***************************************************************************)
(* Proofs about MetricsIngest for every workload, number of handlers and   *)
(* of failures, sizes of batches, chunks and flushes, with Kafka or not.   *)
(***************************************************************************)
EXTENDS MetricsIngest, SequenceTheorems, WellFoundedInduction, TLAPS

Message == [b : Nat, from : Nat, to : Nat, at : Nat]

IngestTypes ==
    /\ load \in Workloads
    /\ clock \in Nat
    /\ acked \subseteq Batch
    /\ waiting \in Handler \cup {Nobody}
    /\ pc \in [Handler -> {"idle", "ingest", "reply"}]
    /\ job \in [Handler -> Nat]
    /\ since \in [Handler -> Nat]
    /\ flushed \in [Handler -> Nat]
    /\ ok \in [Handler -> BOOLEAN]
    /\ outq \in Seq(Message) /\ log \in Seq(Message)
    /\ cpc \in {"down", "poll", "commit"} /\ position \in Nat /\ committed \in Nat
    /\ failed \subseteq DOMAIN log /\ skipped \subseteq DOMAIN log

(* A metric that is stored or accounted for.                               *)
Traced(b, i) == Stored(b, i) \/ (Kafka /\ InKafka(b, i))

(* What a handler has handed on, and what its answer stands for. An agent  *)
(* that waits gets no answer about a stream that was cut short.            *)
HandlerOK(h) ==
    /\ pc[h] = "idle" => flushed[h] = 0
    /\ pc[h] # "idle" => job[h] \in Batch /\ flushed[h] <= Size[job[h]]
    /\ pc[h] = "ingest" => \A i \in 1 .. flushed[h] : Traced(job[h], i)
    /\ pc[h] = "reply" /\ ok[h] /\ waiting = h => \A i \in 1 .. Size[job[h]] : Traced(job[h], i)

(* The consumer is never ahead of the log, what is committed never ahead   *)
(* of the consumer, and what it is about to commit is stored.              *)
ConsumerOK ==
    /\ committed <= Len(log) + 1
    /\ cpc # "down" => position > 0 /\ position <= Len(log) + 1 /\ committed <= position
    /\ cpc = "commit" => position <= Len(log) /\ RowsOf(log[position]) \subseteq rows

IngestInv ==
    /\ IngestTypes
    /\ ConsumerOK
    /\ \A h \in Handler : HandlerOK(h)
    /\ AckedTraceable

(* Every copy of a metric sent by SendMetrics carries the batch's own time.*)
OneKey(m) == m.b \notin Streamed => m.at = OwnTime
KeyInv ==
    Kafka => /\ \A n \in DOMAIN outq : OneKey(outq[n])
             /\ \A o \in DOMAIN log : log[o].b # 0 => OneKey(log[o])
             /\ \A row \in rows : row[1] \notin Streamed => row[3] = OwnTime

-----------------------------------------------------------------------------
(* Workloads and messages.                                                 *)

LEMMA LoadFacts ==
    ASSUME IngestTypes
    PROVE  /\ Size \in Seq(Nat) /\ Batch = 1 .. Len(Size) /\ Len(Size) \in Nat
           /\ \A b \in Batch : b \in Nat /\ b # 0 /\ Size[b] \in Nat
           /\ BatchSize \in Nat /\ BatchSize > 0
           /\ FlushThreshold \in Nat /\ FlushThreshold > 0
<1>1. Size \in Seq(Nat)
  BY IngestAssumption DEF IngestTypes, Size
<1>2. Batch = 1 .. Len(Size) /\ Len(Size) \in Nat
  BY <1>1, LenProperties DEF Batch
<1>3. \A b \in Batch : b \in Nat /\ b # 0 /\ Size[b] \in Nat
  BY <1>1, <1>2, ElementOfSeq
<1> QED BY <1>1, <1>2, <1>3, IngestAssumption

(* The agent has an oldest batch as long as one is not acknowledged.       *)
LEMMA LeastExists ==
    ASSUME NEW T, T \subseteq Nat, T # {} PROVE \E x \in T : \A y \in T : x <= y
<1> DEFINE R == OpToRel(<, Nat)
<1>1. IsWellFoundedOn(R, Nat)
  BY NatLessThanWellFounded
<1>2. \A x, y \in Nat : x < y => <<x, y>> \in R
  BY DEF OpToRel
<1> HIDE DEF R
<1>3. PICK x \in T : \A y \in T : ~(<<y, x>> \in R)
  BY <1>1, WFMin
<1>4. \A y \in T : ~(y < x)
  BY <1>2, <1>3
<1> QED BY <1>4

LEMMA OldestBatch ==
    ASSUME IngestTypes, acked # Batch
    PROVE  (CHOOSE b \in Batch \ acked : \A c \in Batch \ acked : b <= c) \in Batch
<1>1. Batch \ acked \subseteq Nat /\ Batch \ acked # {}
  BY LoadFacts DEF IngestTypes
<1>2. \E b \in Batch \ acked : \A c \in Batch \ acked : b <= c
  BY <1>1, LeastExists
<1> QED BY <1>2

(* Every metric of a stored message is stored.                             *)
LEMMA RowsStored ==
    ASSUME NEW m, NEW b, NEW i \in Nat, Holds(m, b, i), m.from \in Nat, m.to \in Nat,
           RowsOf(m) \subseteq rows
    PROVE  Stored(b, i)
<1>1. i \in m.from .. m.to /\ m.b = b
  BY DEF Holds
<1>2. <<b, i, m.at>> \in rows
  BY <1>1 DEF RowsOf
<1> QED BY <1>2 DEF Stored

LEMMA InsertFacts ==
    ASSUME IngestTypes, NEW m \in Message, NEW good \in BOOLEAN, Insert(m, good)
    PROVE  /\ rows \subseteq rows'
           /\ good => RowsOf(m) \subseteq rows'
           /\ \A row \in rows' : row \in rows \/ (row[1] = m.b /\ row[3] = m.at)
<1>1. BatchSize \in Nat /\ m \in [b : Nat, from : Nat, to : Nat, at : Nat]
  BY LoadFacts DEF Message
<1>2. ASSUME NEW n \in Int
      PROVE  \A row \in RowsOf([m EXCEPT !.to = n]) : row[1] = m.b /\ row[3] = m.at
  BY <1>1 DEF RowsOf
<1>3. \A row \in RowsOf(m) : row[1] = m.b /\ row[3] = m.at
  BY <1>1 DEF RowsOf
<1>4. CASE good
  BY <1>3, <1>4 DEF Insert, InsertOk
<1>5. CASE ~good
  <2>1. \/ rows' = rows
        \/ \E n \in Int : rows' = rows \cup RowsOf([m EXCEPT !.to = n])
    <3>1. m.from + BatchSize - 1 \in Int /\ m.to \in Int
      BY <1>1
    <3> QED BY <1>5, <3>1 DEF Insert, InsertCut, InsertFault
  <2> QED BY <1>2, <1>5, <2>1
<1> QED BY <1>4, <1>5

(* IngestBatch: what is accepted is in the table or in the queue.          *)
LEMMA IngestFacts ==
    ASSUME IngestTypes, NEW m \in Message, NEW good \in BOOLEAN, IngestBatch(m, good),
           UNCHANGED <<load, log, consumerVars, undelivered>>
    PROVE  /\ rows \subseteq rows'
           /\ outq' = outq \/ (Kafka /\ outq' = Append(outq, m))
           /\ outq' \in Seq(Message)
           /\ good => \A b, i \in Nat : Holds(m, b, i) => Traced(b, i)'
           /\ Kafka => rows' = rows
<1>0. outq \in Seq(Message)
  BY DEF IngestTypes
<1>1. CASE Kafka
  <2>1. rows' = rows
    BY <1>1 DEF IngestBatch
  <2>2. CASE good
    <3>1. outq' = Append(outq, m)
      BY <1>1, <2>2 DEF IngestBatch, Produce
    <3>2. outq' \in Seq(Message) /\ Len(outq') = Len(outq) + 1 /\ Len(outq) \in Nat
          /\ outq'[Len(outq) + 1] = m
      BY <1>0, <3>1, AppendProperties, LenProperties
    <3>3. Len(outq) + 1 \in DOMAIN outq'
      BY <3>2, LenProperties
    <3>4. ASSUME NEW b \in Nat, NEW i \in Nat, Holds(m, b, i) PROVE Traced(b, i)'
      <4>1. \E n \in DOMAIN outq' : Holds(outq'[n], b, i)
        BY <3>2, <3>3, <3>4
      <4>2. InKafka(b, i)'
        BY <4>1 DEF InKafka
      <4>3. Kafka'
        BY <1>1 DEF Kafka
      <4> QED BY <4>2, <4>3 DEF Traced
    <3> QED BY <1>1, <2>1, <3>1, <3>2, <3>4
  <2>3. CASE ~good
    BY <1>0, <1>1, <2>1, <2>3 DEF IngestBatch, Produce
  <2> QED BY <2>2, <2>3
<1>2. CASE ~Kafka
  <2>1. outq' = outq /\ Insert(m, good)
    BY <1>2 DEF IngestBatch
  <2>2. rows \subseteq rows' /\ (good => RowsOf(m) \subseteq rows')
    BY <2>1, InsertFacts
  <2>3. ASSUME good, NEW b \in Nat, NEW i \in Nat, Holds(m, b, i) PROVE Traced(b, i)'
    <3>1. m.b = b /\ i \in m.from .. m.to
      BY <2>3 DEF Holds, Message
    <3>2. <<b, i, m.at>> \in rows'
      BY <2>2, <2>3, <3>1 DEF RowsOf
    <3> QED BY <3>2 DEF Traced, Stored
  <2> QED BY <1>0, <1>2, <2>1, <2>2, <2>3
<1> QED BY <1>1, <1>2

-----------------------------------------------------------------------------
(* Nothing that is traced gets lost on its way.                            *)

LEMMA TracedOn ==
    ASSUME NEW b, NEW i, Traced(b, i), load' = load, rows \subseteq rows',
           undelivered \subseteq undelivered',
           \A n \in DOMAIN outq : Holds(outq[n], b, i) => Stored(b, i)' \/ InKafka(b, i)',
           \A o \in ToRead \cup failed \cup skipped :
             Holds(log[o], b, i) => Stored(b, i)' \/ InKafka(b, i)'
    PROVE  Traced(b, i)'
<1>1. Stored(b, i) => Stored(b, i)'
  BY DEF Stored
<1>2. Kafka' = Kafka
  BY DEF Kafka
<1>3. (\E m \in undelivered : Holds(m, b, i)) => InKafka(b, i)'
  BY DEF InKafka
<1> QED BY <1>1, <1>2, <1>3 DEF Traced, InKafka

(* Handlers: the queue grows at its end.                                   *)
LEMMA TracedQueue ==
    ASSUME IngestTypes, NEW b, NEW i, Traced(b, i),
           UNCHANGED <<load, log, consumerVars, undelivered>>, rows \subseteq rows',
           outq' = outq \/ \E m \in Message : outq' = Append(outq, m)
    PROVE  Traced(b, i)'
<1>0. outq \in Seq(Message)
  BY DEF IngestTypes
<1>1. \A n \in DOMAIN outq : n \in DOMAIN outq' /\ outq'[n] = outq[n]
  <2>1. ASSUME NEW m \in Message, outq' = Append(outq, m), NEW n \in DOMAIN outq
        PROVE  n \in DOMAIN outq' /\ outq'[n] = outq[n]
    BY <1>0, <2>1, AppendProperties, LenProperties
  <2> QED BY <2>1
<1>2. ToRead' = ToRead /\ UNCHANGED <<failed, skipped>>
  BY DEF ToRead, consumerVars
<1> QED BY <1>1, <1>2, TracedOn DEF InKafka

(* CollectorStop and DeliveryFailed: what leaves the queue is recorded.    *)
LEMMA TracedLost ==
    ASSUME IngestTypes, NEW b, NEW i, Traced(b, i), CollectorStop \/ DeliveryFailed
    PROVE  Traced(b, i)'
<1>0. outq \in Seq(Message)
  BY DEF IngestTypes
<1>1. /\ UNCHANGED <<load, rows, log, consumerVars>> /\ undelivered \subseteq undelivered'
  BY DEF CollectorStop, DeliveryFailed
<1>2. \A n \in DOMAIN outq : outq[n] \in undelivered' \/ \E k \in DOMAIN outq' : outq'[k] = outq[n]
  <2>1. CASE CollectorStop
    BY <2>1 DEF CollectorStop
  <2>2. CASE DeliveryFailed
    <3>1. outq # << >> /\ outq' = Tail(outq) /\ Head(outq) \in undelivered'
      BY <2>2 DEF DeliveryFailed
    <3>2. ASSUME NEW n \in DOMAIN outq, n # 1 PROVE n - 1 \in DOMAIN outq' /\ outq'[n - 1] = outq[n]
      BY <1>0, <3>1, <3>2, HeadTailProperties, LenProperties
    <3>3. Head(outq) = outq[1]
      BY <1>0, <3>1, HeadTailProperties
    <3> QED BY <3>1, <3>2, <3>3
  <2> QED BY <2>1, <2>2
<1>3. ToRead' = ToRead /\ UNCHANGED <<failed, skipped>>
  BY <1>1 DEF ToRead, consumerVars
<1> QED BY <1>1, <1>2, <1>3, TracedOn DEF InKafka

(* The log grows at its end, ahead of the consumer.                        *)
LEMMA LogGrows ==
    ASSUME IngestTypes, ConsumerOK, NEW m \in Message, log' = Append(log, m),
           UNCHANGED consumerVars
    PROVE  /\ log' \in Seq(Message) /\ Len(log') = Len(log) + 1 /\ Len(log) \in Nat
           /\ DOMAIN log' = 1 .. Len(log) + 1
           /\ \A o \in DOMAIN log : o \in DOMAIN log' /\ log'[o] = log[o]
           /\ Len(log) + 1 \in ToRead' /\ log'[Len(log) + 1] = m
           /\ \A o \in ToRead : o \in ToRead'
<1>0. log \in Seq(Message) /\ position \in Nat /\ committed \in Nat
  BY DEF IngestTypes
<1>1. /\ log' \in Seq(Message) /\ Len(log') = Len(log) + 1 /\ Len(log) \in Nat
      /\ log'[Len(log) + 1] = m
      /\ \A o \in 1 .. Len(log) : log'[o] = log[o]
  BY <1>0, AppendProperties, LenProperties
<1>2. DOMAIN log = 1 .. Len(log) /\ DOMAIN log' = 1 .. Len(log) + 1
  BY <1>0, <1>1, LenProperties
<1>3. UNCHANGED <<cpc, position, committed>>
  BY DEF consumerVars
<1>4. \A o \in ToRead : o \in ToRead'
  BY <1>1, <1>2, <1>3 DEF ToRead
<1>5. Len(log) + 1 \in ToRead'
  BY <1>0, <1>1, <1>2, <1>3 DEF ToRead, ConsumerOK
<1> QED BY <1>1, <1>2, <1>4, <1>5

LEMMA TracedLog ==
    ASSUME IngestTypes, ConsumerOK, NEW b, NEW i, Traced(b, i), Deliver \/ ForeignMessage
    PROVE  Traced(b, i)'
<1>0. outq \in Seq(Message) /\ log \in Seq(Message) /\ failed \subseteq DOMAIN log
      /\ skipped \subseteq DOMAIN log
  BY DEF IngestTypes
<1>1. /\ UNCHANGED <<load, rows, undelivered, consumerVars, failed, skipped>>
  BY DEF Deliver, ForeignMessage, consumerVars
<1>2. PICK m \in Message : /\ log' = Append(log, m)
                           /\ outq' = outq \/ (outq # << >> /\ m = Head(outq) /\ outq' = Tail(outq))
  <2>1. CASE Deliver
    <3>1. Head(outq) \in Message
      BY <1>0, <2>1, HeadTailProperties DEF Deliver
    <3> QED BY <2>1, <3>1 DEF Deliver
  <2>2. CASE ForeignMessage
    BY <2>2 DEF ForeignMessage, Message
  <2> QED BY <2>1, <2>2
<1>3. /\ Len(log) + 1 \in ToRead' /\ log'[Len(log) + 1] = m
      /\ \A o \in DOMAIN log : log'[o] = log[o]
      /\ \A o \in ToRead : o \in ToRead'
  BY <1>1, <1>2, LogGrows
<1>4. ASSUME NEW o \in ToRead \cup failed \cup skipped, Holds(log[o], b, i)
      PROVE  InKafka(b, i)'
  <2>1. o \in DOMAIN log
    BY <1>0 DEF ToRead
  <2>2. o \in ToRead' \cup failed' \cup skipped' /\ log'[o] = log[o]
    BY <1>1, <1>3, <2>1
  <2> QED BY <1>4, <2>2 DEF InKafka
<1>5. ASSUME NEW n \in DOMAIN outq, Holds(outq[n], b, i) PROVE InKafka(b, i)'
  <2>1. CASE outq' = outq
    BY <1>5, <2>1 DEF InKafka
  <2>2. CASE outq # << >> /\ m = Head(outq) /\ outq' = Tail(outq)
    <3>1. CASE n = 1
      <4>1. outq[n] = m
        BY <1>0, <2>2, <3>1, HeadTailProperties
      <4> QED BY <1>3, <1>5, <4>1 DEF InKafka
    <3>2. CASE n # 1
      <4>1. n - 1 \in DOMAIN outq' /\ outq'[n - 1] = outq[n]
        BY <1>0, <2>2, <3>2, HeadTailProperties, LenProperties
      <4> QED BY <1>5, <4>1 DEF InKafka
    <3> QED BY <3>1, <3>2
  <2> QED BY <1>2, <2>1, <2>2
<1> QED BY <1>1, <1>4, <1>5, TracedOn

(* The consumer starts where it committed or passes over the whole log; it *)
(* goes past a message only once that is stored, failed or not a batch.    *)
LEMMA TracedConsumed ==
    ASSUME IngestTypes, ConsumerOK, NEW b \in Batch, NEW i \in Nat, Traced(b, i),
           ConsumerStart \/ ConsumerStop \/ ConsumerStep
    PROVE  Traced(b, i)'
<1>0. /\ log \in Seq(Message) /\ failed \subseteq DOMAIN log /\ skipped \subseteq DOMAIN log
      /\ position \in Nat /\ committed \in Nat /\ DOMAIN log = 1 .. Len(log)
      /\ Len(log) \in Nat /\ b # 0
  BY LoadFacts, LenProperties DEF IngestTypes
<1>1. UNCHANGED <<load, outq, log, undelivered>>
  BY DEF ConsumerStart, ConsumerStop, ConsumerStep, ConsumeForeign, Consume, Commit
<1>2. rows \subseteq rows'
  <2>1. CASE Consume
    <3>1. position \in DOMAIN log => log[position] \in Message
      BY <1>0, ElementOfSeq
    <3>2. position \in DOMAIN log
      BY <1>0, <2>1 DEF Consume, ConsumerOK
    <3> QED BY <2>1, <3>1, <3>2, InsertFacts DEF Consume
  <2>2. CASE ~Consume
    BY <2>2 DEF ConsumerStart, ConsumerStop, ConsumerStep, ConsumeForeign, Commit
  <2> QED BY <2>1, <2>2
<1>3. ASSUME NEW o \in ToRead \cup failed \cup skipped, Holds(log[o], b, i)
      PROVE  Stored(b, i)' \/ o \in ToRead' \cup failed' \cup skipped'
  <2>0. o \in DOMAIN log /\ log[o] \in Message /\ log[o].b = b
    BY <1>0, <1>3, ElementOfSeq DEF ToRead, Holds
  <2>1. CASE ConsumerStart
    BY <1>0, <1>1, <2>0, <2>1 DEF ConsumerStart, ToRead, None
  <2>2. CASE ConsumerStop
    BY <1>0, <1>1, <2>0, <2>2 DEF ConsumerStop, ToRead, ConsumerOK
  <2>3. CASE ConsumeForeign
    <3>1. o # position
      BY <1>0, <2>0, <2>3 DEF ConsumeForeign
    <3> QED BY <1>0, <1>1, <2>0, <2>3, <3>1 DEF ConsumeForeign, ToRead
  <2>4. CASE Commit
    <3>1. CASE o = position
      <4>1. RowsOf(log[o]) \subseteq rows
        BY <2>4, <3>1 DEF Commit, ConsumerOK
      <4>2. Stored(b, i)
        BY <1>3, <2>0, <4>1, RowsStored DEF Message
      <4> QED BY <1>2, <4>2 DEF Stored
    <3>2. CASE o # position
      BY <1>0, <1>1, <2>0, <2>4, <3>2 DEF Commit, ToRead
    <3> QED BY <3>1, <3>2
  <2>5. CASE Consume
    <3>1. PICK good \in BOOLEAN :
            /\ Insert(log[position], good)
            /\ cpc' = IF good THEN "commit" ELSE "poll"
            /\ position' = IF good THEN position ELSE position + 1
            /\ failed' = IF good THEN failed \ {position} ELSE failed \cup {position}
      BY <2>5 DEF Consume
    <3>2. cpc = "poll" /\ skipped' = skipped
      BY <2>5 DEF Consume
    <3>3. CASE good
      <4>1. CASE o = position
        <5>1. RowsOf(log[o]) \subseteq rows'
          BY <2>0, <3>1, <3>3, <4>1, InsertFacts
        <5>2. <<b, i, log[o].at>> \in RowsOf(log[o])
          BY <1>3, <2>0 DEF Holds, RowsOf, Message
        <5> QED BY <5>1, <5>2 DEF Stored
      <4>2. CASE o # position
        BY <1>0, <1>1, <2>0, <3>1, <3>2, <3>3, <4>2 DEF ToRead
      <4> QED BY <4>1, <4>2
    <3>4. CASE ~good
      BY <1>0, <1>1, <2>0, <3>1, <3>2, <3>4 DEF ToRead
    <3> QED BY <3>3, <3>4
  <2> QED BY <2>1, <2>2, <2>3, <2>4, <2>5 DEF ConsumerStep
<1>4. ASSUME NEW o \in ToRead \cup failed \cup skipped, Holds(log[o], b, i)
      PROVE  Stored(b, i)' \/ InKafka(b, i)'
  BY <1>1, <1>3, <1>4 DEF InKafka
<1>5. ASSUME NEW n \in DOMAIN outq, Holds(outq[n], b, i) PROVE InKafka(b, i)'
  BY <1>1, <1>5 DEF InKafka
<1> QED BY <1>1, <1>2, <1>4, <1>5, TracedOn

-----------------------------------------------------------------------------
(* The handlers.                                                           *)

LEMMA PieceType ==
    ASSUME IngestTypes, NEW h \in Handler, NEW from \in Nat, NEW to \in Nat, NEW at \in Nat
    PROVE  Piece(h, from, to, at) \in Message
BY DEF Piece, Message, IngestTypes

LEMMA PieceHolds ==
    ASSUME NEW h \in Handler, NEW from \in Nat, NEW to \in Nat, NEW at \in Nat,
           NEW b, b = job[h], NEW i \in from .. to
    PROVE  Holds(Piece(h, from, to, at), b, i)
BY DEF Piece, Holds

(* SendMetrics, StreamFlush, StreamEnd: what the handler passes on is added*)
(* to the table or the queue; a good answer of a call somebody waits for   *)
(* covers the whole batch.                                                 *)
HandedOn(h) ==
    /\ UNCHANGED <<load, clock, acked, waiting, job, since, log, consumerVars, undelivered>>
    /\ rows \subseteq rows'
    /\ outq' = outq \/ \E m \in Message : outq' = Append(outq, m)
    /\ outq' \in Seq(Message)
    /\ pc' \in [Handler -> {"idle", "ingest", "reply"}]
    /\ flushed' \in [Handler -> Nat] /\ ok' \in [Handler -> BOOLEAN]
    /\ \A g \in Handler : g # h => pc'[g] = pc[g] /\ flushed'[g] = flushed[g] /\ ok'[g] = ok[g]
    /\ job[h] \in Batch /\ flushed'[h] <= Size[job[h]]

LEMMA SendFacts ==
    ASSUME IngestInv, NEW h \in Handler, SendMetrics(h), NEW b, b = job[h]
    PROVE  /\ HandedOn(h) /\ pc'[h] = "reply"
           /\ ok'[h] => \A i \in 1 .. Size[b] : Traced(b, i)'
<1>0. IngestTypes /\ HandlerOK(h)
  BY DEF IngestInv
<1>1. pc[h] = "ingest" /\ b \in Batch /\ b \in Nat /\ Size[b] \in Nat /\ flushed[h] <= Size[b]
  BY <1>0, LoadFacts DEF SendMetrics, HandlerOK
<1>2. PICK good \in BOOLEAN :
         /\ IF Size[b] = 0
            THEN good /\ UNCHANGED <<rows, outq, faults>>
            ELSE IngestBatch(Piece(h, 1, Size[b], IF Kafka THEN OwnTime ELSE clock), good)
         /\ ok' = [ok EXCEPT ![h] = good]
  BY DEF SendMetrics
<1>3. UNCHANGED <<load, clock, acked, waiting, job, since, flushed, log, consumerVars, undelivered>>
      /\ pc' = [pc EXCEPT ![h] = "reply"]
  BY DEF SendMetrics
<1>4. PICK at \in Nat : at = IF Kafka THEN OwnTime ELSE clock
  BY <1>0, IngestAssumption DEF IngestTypes, OwnTime
<1>5. PICK m \in Message : m = Piece(h, 1, Size[b], at) /\ \A i \in 1 .. Size[b] : Holds(m, b, i)
  <2>1. Piece(h, 1, Size[b], at) \in Message
    BY <1>0, <1>1, PieceType
  <2>2. \A i \in 1 .. Size[b] : Holds(Piece(h, 1, Size[b], at), b, i)
    BY <1>1, PieceHolds
  <2> QED BY <2>1, <2>2
<1>6. /\ rows \subseteq rows'
      /\ outq' = outq \/ outq' = Append(outq, m)
      /\ outq' \in Seq(Message)
      /\ good => \A i \in 1 .. Size[b] : Traced(b, i)'
  <2>1. CASE Size[b] = 0
    <3>1. good /\ UNCHANGED <<rows, outq>>
      BY <1>2, <2>1
    <3>2. \A i \in 1 .. Size[b] : FALSE
      BY <2>1
    <3> QED BY <1>0, <3>1, <3>2 DEF IngestTypes
  <2>2. CASE Size[b] # 0
    <3>1. IngestBatch(m, good)
      BY <1>2, <1>4, <1>5, <2>2
    <3>2. /\ rows \subseteq rows' /\ (outq' = outq \/ outq' = Append(outq, m))
          /\ outq' \in Seq(Message)
          /\ good => \A c, i \in Nat : Holds(m, c, i) => Traced(c, i)'
      BY <1>0, <1>3, <3>1, IngestFacts
    <3>3. \A i \in 1 .. Size[b] : i \in Nat
      BY <1>1
    <3> QED BY <1>1, <1>5, <3>2, <3>3
  <2> QED BY <2>1, <2>2
<1>7. /\ pc' \in [Handler -> {"idle", "ingest", "reply"}] /\ pc'[h] = "reply"
      /\ flushed' \in [Handler -> Nat] /\ ok' \in [Handler -> BOOLEAN] /\ ok'[h] = good
      /\ \A g \in Handler : g # h => pc'[g] = pc[g] /\ flushed'[g] = flushed[g] /\ ok'[g] = ok[g]
  BY <1>0, <1>2, <1>3 DEF IngestTypes
<1>8. HandedOn(h)
  BY <1>1, <1>3, <1>6, <1>7 DEF HandedOn
<1> QED BY <1>6, <1>7, <1>8

LEMMA FlushFacts ==
    ASSUME IngestInv, NEW h \in Handler, StreamFlush(h), NEW b, b = job[h]
    PROVE  /\ HandedOn(h)
           /\ pc'[h] = "ingest" \/ (pc'[h] = "reply" /\ ~ok'[h])
           /\ pc'[h] = "ingest" =>
                \A i \in 1 .. flushed'[h] : i \in 1 .. flushed[h] \/ Traced(b, i)'
<1>0. IngestTypes /\ HandlerOK(h)
  BY DEF IngestInv
<1>1. /\ pc[h] = "ingest" /\ b \in Batch /\ b \in Nat /\ Size[b] \in Nat
      /\ flushed[h] \in Nat /\ FlushThreshold \in Nat /\ flushed[h] <= Size[b]
      /\ flushed[h] + FlushThreshold <= Size[b]
  BY <1>0, LoadFacts DEF StreamFlush, HandlerOK, IngestTypes
<1>2. PICK good \in BOOLEAN :
         /\ IngestBatch(Piece(h, flushed[h] + 1, flushed[h] + FlushThreshold,
                              IF Kafka THEN since[h] ELSE clock), good)
         /\ pc' = [pc EXCEPT ![h] = IF good THEN "ingest" ELSE "reply"]
         /\ ok' = [ok EXCEPT ![h] = FALSE]
         /\ flushed' = [flushed EXCEPT ![h] = IF good THEN @ + FlushThreshold ELSE @]
  BY DEF StreamFlush
<1>3. UNCHANGED <<load, clock, acked, waiting, job, since, log, consumerVars, undelivered>>
  BY DEF StreamFlush
<1>4. PICK at \in Nat : at = IF Kafka THEN since[h] ELSE clock
  BY <1>0 DEF IngestTypes
<1>5. PICK k \in Nat, n \in Nat : k = flushed[h] + 1 /\ n = flushed[h] + FlushThreshold
  BY <1>1
<1>6. PICK m \in Message : m = Piece(h, k, n, at) /\ \A i \in k .. n : Holds(m, b, i)
  <2>1. Piece(h, k, n, at) \in Message
    BY <1>0, PieceType
  <2>2. \A i \in k .. n : Holds(Piece(h, k, n, at), b, i)
    BY PieceHolds
  <2> QED BY <2>1, <2>2
<1>7. /\ rows \subseteq rows'
      /\ outq' = outq \/ outq' = Append(outq, m)
      /\ outq' \in Seq(Message)
      /\ good => \A i \in k .. n : Traced(b, i)'
  <2>1. IngestBatch(m, good)
    BY <1>2, <1>4, <1>5, <1>6
  <2>2. /\ rows \subseteq rows' /\ (outq' = outq \/ outq' = Append(outq, m))
        /\ outq' \in Seq(Message)
        /\ good => \A c, i \in Nat : Holds(m, c, i) => Traced(c, i)'
    BY <1>0, <1>3, <2>1, IngestFacts
  <2>3. \A i \in k .. n : i \in Nat
    OBVIOUS
  <2> QED BY <1>1, <1>6, <2>2, <2>3
<1>8. /\ pc' \in [Handler -> {"idle", "ingest", "reply"}]
      /\ pc'[h] = IF good THEN "ingest" ELSE "reply"
      /\ ok' \in [Handler -> BOOLEAN] /\ ok'[h] = FALSE
      /\ \A g \in Handler : g # h => pc'[g] = pc[g] /\ ok'[g] = ok[g]
  BY <1>0, <1>2 DEF IngestTypes
<1>9. PICK f \in Nat : f = IF good THEN n ELSE flushed[h]
  BY <1>1
<1>10. flushed' = [flushed EXCEPT ![h] = f]
  BY <1>2, <1>5, <1>9
<1>11. /\ flushed' \in [Handler -> Nat] /\ flushed'[h] = f
       /\ \A g \in Handler : g # h => flushed'[g] = flushed[g]
  BY <1>0, <1>10 DEF IngestTypes
<1>12. flushed'[h] <= Size[b]
  BY <1>1, <1>5, <1>9, <1>11
<1>13. HandedOn(h)
  BY <1>1, <1>3, <1>7, <1>8, <1>11, <1>12 DEF HandedOn
<1>14. ASSUME pc'[h] = "ingest", NEW i \in 1 .. flushed'[h]
       PROVE  i \in 1 .. flushed[h] \/ Traced(b, i)'
  <2>1. good
    BY <1>8, <1>14
  <2>2. i \in 1 .. flushed[h] \/ i \in k .. n
    BY <1>1, <1>5, <1>9, <1>11, <1>14, <2>1
  <2> QED BY <1>7, <2>1, <2>2
<1> QED BY <1>8, <1>13, <1>14

LEMMA EndFacts ==
    ASSUME IngestInv, NEW h \in Handler, StreamEnd(h), NEW b, b = job[h]
    PROVE  /\ HandedOn(h) /\ pc'[h] = "reply"
           /\ ok'[h] /\ waiting' = h =>
                \A i \in 1 .. Size[b] : i \in 1 .. flushed[h] \/ Traced(b, i)'
<1>0. IngestTypes /\ HandlerOK(h)
  BY DEF IngestInv
<1>1. /\ pc[h] = "ingest" /\ b \in Batch /\ b \in Nat /\ Size[b] \in Nat
      /\ flushed[h] \in Nat /\ flushed[h] <= Size[b]
  BY <1>0, LoadFacts DEF StreamEnd, HandlerOK, IngestTypes
<1>2. PICK n \in flushed[h] .. Size[b], good \in BOOLEAN :
         /\ n < Size[b] => waiting # h
         /\ IF n = flushed[h]
            THEN good /\ UNCHANGED <<rows, outq, faults>>
            ELSE IngestBatch(Piece(h, flushed[h] + 1, n,
                                   IF Kafka THEN since[h] ELSE clock), good)
         /\ ok' = [ok EXCEPT ![h] = good]
  BY DEF StreamEnd
<1>3. UNCHANGED <<load, clock, acked, waiting, job, since, flushed, log, consumerVars, undelivered>>
      /\ pc' = [pc EXCEPT ![h] = "reply"]
  BY DEF StreamEnd
<1>4. PICK at \in Nat : at = IF Kafka THEN since[h] ELSE clock
  BY <1>0 DEF IngestTypes
<1>5. PICK k \in Nat : k = flushed[h] + 1
  BY <1>1
<1>50. n \in Nat
  BY <1>1
<1>6. PICK m \in Message : m = Piece(h, k, n, at) /\ \A i \in k .. n : Holds(m, b, i)
  <2>1. Piece(h, k, n, at) \in Message
    BY <1>0, <1>50, PieceType
  <2>2. \A i \in k .. n : Holds(Piece(h, k, n, at), b, i)
    BY <1>50, PieceHolds
  <2> QED BY <2>1, <2>2
<1>7. /\ rows \subseteq rows'
      /\ outq' = outq \/ outq' = Append(outq, m)
      /\ outq' \in Seq(Message)
      /\ good => \A i \in k .. n : Traced(b, i)'
  <2>1. CASE n = flushed[h]
    <3>1. good /\ UNCHANGED <<rows, outq>>
      BY <1>2, <2>1
    <3>2. \A i \in k .. n : FALSE
      BY <1>1, <1>5, <2>1
    <3> QED BY <1>0, <3>1, <3>2 DEF IngestTypes
  <2>2. CASE n # flushed[h]
    <3>1. IngestBatch(m, good)
      BY <1>2, <1>4, <1>5, <1>6, <2>2
    <3>2. /\ rows \subseteq rows' /\ (outq' = outq \/ outq' = Append(outq, m))
          /\ outq' \in Seq(Message)
          /\ good => \A c, i \in Nat : Holds(m, c, i) => Traced(c, i)'
      BY <1>0, <1>3, <3>1, IngestFacts
    <3>3. \A i \in k .. n : i \in Nat
      BY <1>50
    <3> QED BY <1>1, <1>6, <3>2, <3>3
  <2> QED BY <2>1, <2>2
<1>8. /\ pc' \in [Handler -> {"idle", "ingest", "reply"}] /\ pc'[h] = "reply"
      /\ flushed' \in [Handler -> Nat] /\ ok' \in [Handler -> BOOLEAN] /\ ok'[h] = good
      /\ \A g \in Handler : g # h => pc'[g] = pc[g] /\ flushed'[g] = flushed[g] /\ ok'[g] = ok[g]
  BY <1>0, <1>2, <1>3 DEF IngestTypes
<1>9. HandedOn(h)
  BY <1>1, <1>3, <1>7, <1>8 DEF HandedOn
<1>10. ASSUME ok'[h], waiting' = h, NEW i \in 1 .. Size[b]
       PROVE  i \in 1 .. flushed[h] \/ Traced(b, i)'
  <2>1. good /\ waiting = h
    BY <1>3, <1>8, <1>10
  <2>2. n = Size[b]
    BY <1>1, <1>2, <1>50, <2>1
  <2>3. i \in 1 .. flushed[h] \/ i \in k .. n
    BY <1>1, <1>5, <2>2
  <2> QED BY <1>7, <2>1, <2>3
<1> QED BY <1>8, <1>9, <1>10

(* Steps of which the handlers and the agent take no notice.               *)
Background ==
    \/ Tick \/ Deliver \/ DeliveryFailed \/ ForeignMessage
    \/ ConsumerStart \/ ConsumerStop \/ ConsumerStep
    \/ UNCHANGED vars

LEMMA NextCases ==
    ASSUME [Next]_vars
    PROVE  \/ Background \/ GiveUp \/ CollectorStop
           \/ \E h \in Handler : \/ Call(h) \/ Reply(h)
                                 \/ SendMetrics(h) \/ StreamFlush(h) \/ StreamEnd(h)
BY DEF Next, HandlerStep, Quiescent, Background

LEMMA HandsOn ==
    ASSUME IngestInv, NEW h \in Handler, SendMetrics(h) \/ StreamFlush(h) \/ StreamEnd(h)
    PROVE  HandedOn(h)
BY SendFacts, FlushFacts, EndFacts

LEMMA TracedKept ==
    ASSUME IngestInv, [Next]_vars, NEW b \in Batch, NEW i \in Nat, Traced(b, i)
    PROVE  Traced(b, i)'
<1>0. IngestTypes /\ ConsumerOK
  BY DEF IngestInv
<1>1. CASE CollectorStop \/ DeliveryFailed
  BY <1>0, <1>1, TracedLost
<1>2. CASE Deliver \/ ForeignMessage
  BY <1>0, <1>2, TracedLog
<1>3. CASE ConsumerStart \/ ConsumerStop \/ ConsumerStep
  BY <1>0, <1>3, TracedConsumed
<1>4. CASE Tick \/ GiveUp \/ UNCHANGED vars \/ \E h \in Handler : Call(h) \/ Reply(h)
  <2>1. UNCHANGED <<load, rows, outq, log, consumerVars, undelivered>>
    BY <1>4 DEF Tick, GiveUp, vars, Call, Reply
  <2> QED BY <1>0, <2>1, TracedQueue
<1>5. CASE \E h \in Handler : SendMetrics(h) \/ StreamFlush(h) \/ StreamEnd(h)
  <2>1. PICK h \in Handler : HandedOn(h)
    BY <1>5, HandsOn
  <2>2. /\ UNCHANGED <<load, log, consumerVars, undelivered>> /\ rows \subseteq rows'
        /\ outq' = outq \/ \E m \in Message : outq' = Append(outq, m)
    BY <2>1 DEF HandedOn
  <2> QED BY <1>0, <2>2, TracedQueue
<1> QED BY <1>1, <1>2, <1>3, <1>4, <1>5, NextCases DEF Background

-----------------------------------------------------------------------------
(* The parts of the invariant.                                             *)

(* Deliver and ForeignMessage: queue and log stay sequences of messages.   *)
LEMMA LogTypes ==
    ASSUME IngestTypes, Deliver \/ ForeignMessage
    PROVE  /\ outq' \in Seq(Message)
           /\ \E m \in Message : /\ log' = Append(log, m)
                                 /\ (outq # << >> /\ m = Head(outq)) \/ m.b = 0
<1>0. outq \in Seq(Message)
  BY DEF IngestTypes
<1>1. CASE Deliver
  <2>1. outq # << >> /\ log' = Append(log, Head(outq)) /\ outq' = Tail(outq)
    BY <1>1 DEF Deliver
  <2> QED BY <1>0, <2>1, HeadTailProperties
<1>2. CASE ForeignMessage
  <2> DEFINE m == [b |-> 0, from |-> 1, to |-> 0, at |-> 0]
  <2>1. m \in Message /\ m.b = 0
    BY DEF Message
  <2>2. log' = Append(log, m) /\ outq' = outq
    BY <1>2 DEF ForeignMessage
  <2> HIDE DEF m
  <2> QED BY <1>0, <2>1, <2>2
<1> QED BY <1>1, <1>2

LEMMA TypesKept ==
    ASSUME IngestInv, [Next]_vars
    PROVE  IngestTypes'
<1>0. IngestTypes /\ ConsumerOK
  BY DEF IngestInv
<1>1. load' = load /\ Batch' = Batch
  BY NextCases, HandsOn DEF Background, Tick, Deliver, DeliveryFailed, ForeignMessage, vars,
        ConsumerStart, ConsumerStop, ConsumerStep, ConsumeForeign, Consume, Commit,
        GiveUp, CollectorStop, Call, Reply, HandedOn, Batch, Size
<1>2. CASE \E h \in Handler : SendMetrics(h) \/ StreamFlush(h) \/ StreamEnd(h)
  <2>1. PICK h \in Handler : HandedOn(h)
    BY <1>2, HandsOn
  <2> QED BY <1>0, <1>1, <2>1 DEF HandedOn, IngestTypes, consumerVars
<1>3. CASE Deliver \/ ForeignMessage
  <2>1. PICK m \in Message : log' = Append(log, m)
    BY <1>0, <1>3, LogTypes
  <2>2. UNCHANGED <<load, clock, acked, waiting, handlerVars, consumerVars>>
    BY <1>3 DEF Deliver, ForeignMessage
  <2>3. outq' \in Seq(Message)
    BY <1>0, <1>3, LogTypes
  <2>4. log' \in Seq(Message) /\ DOMAIN log \subseteq DOMAIN log'
    BY <1>0, <2>1, <2>2, LogGrows
  <2> QED BY <1>0, <1>1, <2>2, <2>3, <2>4 DEF IngestTypes, handlerVars, consumerVars
<1>4. CASE DeliveryFailed
  <2>1. outq' \in Seq(Message)
    BY <1>0, <1>4, HeadTailProperties DEF DeliveryFailed, IngestTypes
  <2> QED BY <1>0, <1>1, <1>4, <2>1 DEF DeliveryFailed, IngestTypes, handlerVars, consumerVars
<1>5. CASE Tick \/ GiveUp \/ UNCHANGED vars
  BY <1>0, <1>1, <1>5 DEF Tick, GiveUp, vars, IngestTypes, handlerVars, consumerVars
<1>6. CASE CollectorStop
  <2>1. outq' \in Seq(Message)
    BY <1>6, EmptySeq DEF CollectorStop
  <2> QED BY <1>0, <1>1, <1>6, <2>1 DEF CollectorStop, IngestTypes, consumerVars
<1>7. ASSUME NEW h \in Handler, Call(h) PROVE IngestTypes'
  <2>1. PICK b \in Batch : job' = [job EXCEPT ![h] = b]
    BY <1>0, <1>7, OldestBatch DEF Call
  <2>2. b \in Nat
    BY <1>0, LoadFacts
  <2> QED BY <1>0, <1>1, <1>7, <2>1, <2>2 DEF Call, IngestTypes, consumerVars
<1>8. ASSUME NEW h \in Handler, Reply(h) PROVE IngestTypes'
  <2>1. acked' \subseteq Batch
    <3>1. job[h] \in Batch
      BY <1>8 DEF Reply, IngestInv, HandlerOK
    <3> QED BY <1>0, <1>8, <3>1 DEF Reply, IngestTypes
  <2> QED BY <1>0, <1>1, <1>8, <2>1 DEF Reply, IngestTypes, consumerVars
<1>9. CASE ConsumerStart \/ ConsumerStop \/ ConsumerStep
  <2>1. UNCHANGED <<load, clock, acked, waiting, handlerVars, outq, log>>
    BY <1>9 DEF ConsumerStart, ConsumerStop, ConsumerStep, ConsumeForeign, Consume, Commit
  <2>2. /\ DOMAIN log = 1 .. Len(log) /\ Len(log) \in Nat
        /\ position \in Nat /\ committed \in Nat
        /\ failed \subseteq DOMAIN log /\ skipped \subseteq DOMAIN log
    BY <1>0, LenProperties DEF IngestTypes
  <2>3. /\ cpc' \in {"down", "poll", "commit"} /\ position' \in Nat /\ committed' \in Nat
        /\ failed' \subseteq DOMAIN log /\ skipped' \subseteq DOMAIN log
    <3>1. CASE ConsumerStart
      BY <2>2, <3>1 DEF ConsumerStart
    <3>2. CASE ConsumerStop
      BY <2>2, <3>2 DEF ConsumerStop
    <3>3. CASE ConsumeForeign
      BY <1>0, <2>2, <3>3 DEF ConsumeForeign, IngestTypes
    <3>4. CASE Commit
      BY <2>2, <3>4 DEF Commit
    <3>5. CASE Consume
      <4>1. position \in DOMAIN log
        BY <1>0, <2>2, <3>5 DEF Consume, ConsumerOK
      <4> QED BY <2>2, <3>5, <4>1 DEF Consume
    <3> QED BY <1>9, <3>1, <3>2, <3>3, <3>4, <3>5 DEF ConsumerStep
  <2> QED BY <1>0, <1>1, <2>1, <2>3 DEF IngestTypes, handlerVars
<1> QED BY <1>2, <1>3, <1>4, <1>5, <1>6, <1>7, <1>8, <1>9, NextCases DEF Background

LEMMA ConsumerKept ==
    ASSUME IngestInv, [Next]_vars
    PROVE  ConsumerOK'
<1>0. IngestTypes /\ ConsumerOK
  BY DEF IngestInv
<1>1. /\ log \in Seq(Message) /\ DOMAIN log = 1 .. Len(log) /\ Len(log) \in Nat
      /\ position \in Nat /\ committed \in Nat /\ cpc \in {"down", "poll", "commit"}
  BY <1>0, LenProperties DEF IngestTypes
<1>2. CASE UNCHANGED <<log, consumerVars>> /\ rows \subseteq rows'
  BY <1>0, <1>2 DEF ConsumerOK, consumerVars, RowsOf
<1>3. CASE Deliver \/ ForeignMessage
  <2>1. PICK m \in Message : log' = Append(log, m)
    BY <1>0, <1>3, LogTypes
  <2>2. UNCHANGED <<rows, consumerVars, cpc, position, committed>>
    BY <1>3 DEF Deliver, ForeignMessage, consumerVars
  <2>3. Len(log') = Len(log) + 1 /\ \A o \in DOMAIN log : log'[o] = log[o]
    BY <1>0, <2>1, <2>2, LogGrows
  <2>4. cpc = "commit" => RowsOf(log'[position]) \subseteq rows
    BY <1>0, <1>1, <2>3 DEF ConsumerOK
  <2>5. cpc = "commit" => RowsOf(log[position])' \subseteq rows'
    BY <2>2, <2>4 DEF RowsOf
  <2> QED BY <1>0, <1>1, <2>2, <2>3, <2>5 DEF ConsumerOK
<1>4. CASE ConsumerStart
  BY <1>0, <1>1, <1>4 DEF ConsumerStart, ConsumerOK, None
<1>5. CASE ConsumerStop
  BY <1>0, <1>1, <1>5 DEF ConsumerStop, ConsumerOK
<1>6. CASE ConsumeForeign
  BY <1>0, <1>1, <1>6 DEF ConsumeForeign, ConsumerOK
<1>7. CASE Commit
  BY <1>0, <1>1, <1>7 DEF Commit, ConsumerOK
<1>8. CASE Consume
  <2>1. PICK good \in BOOLEAN :
          /\ Insert(log[position], good)
          /\ cpc' = IF good THEN "commit" ELSE "poll"
          /\ position' = IF good THEN position ELSE position + 1
    BY <1>8 DEF Consume
  <2>2. cpc = "poll" /\ position <= Len(log) /\ log' = log /\ committed' = committed
    BY <1>8 DEF Consume
  <2>3. position \in DOMAIN log /\ committed <= position
    BY <1>0, <1>1, <2>2 DEF ConsumerOK
  <2>4. log[position] \in Message
    BY <1>1, <2>3, ElementOfSeq
  <2>5. good => RowsOf(log[position]) \subseteq rows'
    BY <1>0, <2>1, <2>4, InsertFacts
  <2>6. good => RowsOf(log[position])' \subseteq rows'
    BY <2>1, <2>2, <2>5 DEF RowsOf
  <2> QED BY <1>0, <1>1, <2>1, <2>2, <2>3, <2>6 DEF ConsumerOK
<1>9. CASE \E h \in Handler : SendMetrics(h) \/ StreamFlush(h) \/ StreamEnd(h)
  BY <1>2, <1>9, HandsOn DEF HandedOn
<1>10. CASE \/ Tick \/ DeliveryFailed \/ GiveUp \/ CollectorStop \/ UNCHANGED vars
            \/ \E h \in Handler : Call(h) \/ Reply(h)
  BY <1>2, <1>10 DEF Tick, DeliveryFailed, GiveUp, CollectorStop, vars, Call, Reply
<1> QED BY <1>3, <1>4, <1>5, <1>6, <1>7, <1>8, <1>9, <1>10, NextCases DEF Background, ConsumerStep

(* A handler that this step does not touch keeps what it has handed on.    *)
LEMMA OthersKept ==
    ASSUME IngestInv, [Next]_vars, load' = load, NEW g \in Handler,
           pc'[g] = pc[g], job'[g] = job[g], flushed'[g] = flushed[g], ok'[g] = ok[g],
           waiting' = g => waiting = g
    PROVE  HandlerOK(g)'
<1>0. IngestTypes /\ HandlerOK(g)
  BY DEF IngestInv
<1>1. Batch' = Batch /\ Size' = Size
  BY DEF Batch, Size
<1>2. pc[g] # "idle" => job[g] \in Batch /\ Size[job[g]] \in Nat
  BY <1>0, LoadFacts DEF HandlerOK
<1>3. flushed[g] \in Nat
  BY <1>0 DEF IngestTypes
<1>4. ASSUME pc'[g] = "ingest", NEW i \in 1 .. flushed'[g] PROVE Traced(job[g], i)'
  <2>1. PICK b \in Batch : b = job[g]
    BY <1>2, <1>4
  <2>2. Traced(b, i) /\ i \in Nat
    BY <1>0, <1>3, <1>4, <2>1 DEF HandlerOK
  <2>3. Traced(b, i)'
    BY <2>2, TracedKept
  <2>4. b = job'[g]
    BY <2>1
  <2> QED BY <2>3, <2>4
<1>5. ASSUME pc'[g] = "reply", ok'[g], waiting' = g, NEW i \in 1 .. Size'[job'[g]]
      PROVE  Traced(job[g], i)'
  <2>1. PICK b \in Batch : b = job[g] /\ Size[b] \in Nat
    BY <1>2, <1>5
  <2>2. Traced(b, i) /\ i \in Nat
    BY <1>0, <1>1, <1>5, <2>1 DEF HandlerOK
  <2>3. Traced(b, i)'
    BY <2>2, TracedKept
  <2>4. b = job'[g]
    BY <2>1
  <2> QED BY <2>3, <2>4
<1> QED BY <1>0, <1>1, <1>4, <1>5 DEF HandlerOK

(* One that hands on: what is new is traced, what was handed on stays so.  *)
LEMMA HandlerKept ==
    ASSUME IngestInv, [Next]_vars, NEW h \in Handler,
           SendMetrics(h) \/ StreamFlush(h) \/ StreamEnd(h)
    PROVE  HandlerOK(h)'
<1>0. IngestTypes /\ HandlerOK(h)
  BY DEF IngestInv
<1>1. HandedOn(h)
  BY HandsOn
<1>2. load' = load /\ job' = job /\ Batch' = Batch /\ Size' = Size
  BY <1>1 DEF HandedOn, Batch, Size
<1>3. PICK b \in Batch : b = job[h] /\ flushed'[h] <= Size[b]
  BY <1>1 DEF HandedOn
<1>4. pc[h] = "ingest"
  BY DEF SendMetrics, StreamFlush, StreamEnd
<1>5. \A i \in 1 .. flushed[h] : Traced(b, i)'
  <2>1. ASSUME NEW i \in 1 .. flushed[h] PROVE Traced(b, i)'
    <3>1. Traced(b, i) /\ i \in Nat
      BY <1>0, <1>3, <1>4 DEF HandlerOK, IngestTypes
    <3> QED BY <3>1, TracedKept
  <2> QED BY <2>1
<1>6. pc'[h] = "ingest" => \A i \in 1 .. flushed'[h] : Traced(b, i)'
  <2>1. CASE SendMetrics(h)
    BY <1>3, <2>1, SendFacts
  <2>2. CASE StreamFlush(h)
    <3>1. pc'[h] = "ingest" =>
            \A i \in 1 .. flushed'[h] : i \in 1 .. flushed[h] \/ Traced(b, i)'
      BY <1>3, <2>2, FlushFacts
    <3> QED BY <1>5, <3>1
  <2>3. CASE StreamEnd(h)
    BY <1>3, <2>3, EndFacts
  <2> QED BY <2>1, <2>2, <2>3
<1>7. pc'[h] = "reply" /\ ok'[h] /\ waiting' = h => \A i \in 1 .. Size[b] : Traced(b, i)'
  <2>1. CASE SendMetrics(h)
    BY <1>3, <2>1, SendFacts
  <2>2. CASE StreamFlush(h)
    BY <1>3, <2>2, FlushFacts
  <2>3. CASE StreamEnd(h)
    <3>1. ok'[h] /\ waiting' = h =>
            \A i \in 1 .. Size[b] : i \in 1 .. flushed[h] \/ Traced(b, i)'
      BY <1>3, <2>3, EndFacts
    <3> QED BY <1>5, <3>1
  <2> QED BY <2>1, <2>2, <2>3
<1>8. b = job'[h] /\ pc'[h] # "idle"
  BY <1>2, <1>3, SendFacts, FlushFacts, EndFacts
<1> QED BY <1>2, <1>3, <1>6, <1>7, <1>8 DEF HandlerOK

LEMMA HandlersKept ==
    ASSUME IngestInv, [Next]_vars
    PROVE  \A g \in Handler : HandlerOK(g)'
<1>0. IngestTypes
  BY DEF IngestInv
<1>1. CASE Background
  <2>1. UNCHANGED <<load, handlerVars, waiting>>
    BY <1>1 DEF Background, Tick, Deliver, DeliveryFailed, ForeignMessage, vars,
          ConsumerStart, ConsumerStop, ConsumerStep, ConsumeForeign, Consume, Commit
  <2> QED BY <2>1, OthersKept DEF handlerVars
<1>2. CASE GiveUp
  <2>1. UNCHANGED <<load, handlerVars>> /\ waiting' = Nobody
    BY <1>2 DEF GiveUp
  <2>2. \A g \in Handler : waiting' # g
    BY <2>1, IngestAssumption
  <2> QED BY <2>1, <2>2, OthersKept DEF handlerVars
<1>3. CASE CollectorStop
  <2>1. \A g \in Handler : pc'[g] = "idle" /\ flushed'[g] = 0
    BY <1>3 DEF CollectorStop
  <2> QED BY <2>1 DEF HandlerOK
<1>4. ASSUME NEW h \in Handler, Call(h), NEW g \in Handler PROVE HandlerOK(g)'
  <2>1. UNCHANGED <<load, flushed, ok>> /\ waiting' = h
    BY <1>4 DEF Call
  <2>2. CASE g # h
    <3>1. pc'[g] = pc[g] /\ job'[g] = job[g]
      BY <1>0, <1>4, <2>2 DEF Call, IngestTypes
    <3> QED BY <2>1, <2>2, <3>1, OthersKept
  <2>3. CASE g = h
    <3>1. PICK b \in Batch : job' = [job EXCEPT ![h] = b]
      BY <1>0, <1>4, OldestBatch DEF Call
    <3>2. job'[h] = b /\ pc'[h] = "ingest"
      BY <1>0, <1>4, <3>1 DEF Call, IngestTypes
    <3>3. flushed'[h] = 0
      BY <1>4, <2>1 DEF IngestInv, HandlerOK, Call
    <3>4. Batch' = Batch /\ Size' = Size /\ Size[b] \in Nat
      BY <1>0, <2>1, LoadFacts DEF Batch, Size
    <3> QED BY <2>3, <3>2, <3>3, <3>4 DEF HandlerOK
  <2> QED BY <2>2, <2>3
<1>5. ASSUME NEW h \in Handler, Reply(h), NEW g \in Handler PROVE HandlerOK(g)'
  <2>1. CASE g # h
    <3>1. pc'[g] = pc[g] /\ job'[g] = job[g] /\ flushed'[g] = flushed[g] /\ ok'[g] = ok[g]
      BY <1>0, <1>5, <2>1 DEF Reply, IngestTypes
    <3>2. load' = load /\ (waiting' = g => waiting = g)
      BY <1>5, IngestAssumption DEF Reply
    <3> QED BY <3>1, <3>2, OthersKept
  <2>2. CASE g = h
    <3>1. pc'[h] = "idle" /\ flushed'[h] = 0
      BY <1>0, <1>5 DEF Reply, IngestTypes
    <3> QED BY <2>2, <3>1 DEF HandlerOK
  <2> QED BY <2>1, <2>2
<1>6. ASSUME NEW h \in Handler, SendMetrics(h) \/ StreamFlush(h) \/ StreamEnd(h),
             NEW g \in Handler
      PROVE  HandlerOK(g)'
  <2>1. CASE g = h
    BY <1>6, <2>1, HandlerKept
  <2>2. CASE g # h
    <3>1. HandedOn(h)
      BY <1>6, HandsOn
    <3>2. /\ pc'[g] = pc[g] /\ job'[g] = job[g] /\ flushed'[g] = flushed[g] /\ ok'[g] = ok[g]
          /\ load' = load /\ waiting' = waiting
      BY <2>2, <3>1 DEF HandedOn
    <3> QED BY <3>2, OthersKept
  <2> QED BY <2>1, <2>2
<1> QED BY <1>1, <1>2, <1>3, <1>4, <1>5, <1>6, NextCases

LEMMA AckedKept ==
    ASSUME IngestInv, [Next]_vars
    PROVE  AckedTraceable'
<1>0. IngestTypes /\ AckedTraceable /\ load' = load
  BY TypesKept, NextCases, HandsOn DEF IngestInv, Background, Tick, Deliver, DeliveryFailed,
        ForeignMessage, vars, ConsumerStart, ConsumerStop, ConsumerStep, ConsumeForeign,
        Consume, Commit, GiveUp, CollectorStop, Call, Reply, HandedOn
<1>1. Size' = Size /\ \A b \in Batch : Size[b] \in Nat
  BY <1>0, LoadFacts DEF Size
<1>2. \A b \in acked' : b \in Batch /\ \A i \in 1 .. Size[b] : Traced(b, i)
  <2>1. \A b \in acked : b \in Batch /\ \A i \in 1 .. Size[b] : Traced(b, i)
    BY <1>0 DEF IngestTypes, AckedTraceable, Traced
  <2>2. CASE acked' = acked
    BY <2>1, <2>2
  <2>3. CASE acked' # acked
    <3>1. PICK h \in Handler : Reply(h)
      BY <2>3, NextCases, HandsOn DEF Background, Tick, Deliver, DeliveryFailed,
            ForeignMessage, vars, ConsumerStart, ConsumerStop, ConsumerStep, ConsumeForeign,
            Consume, Commit, GiveUp, CollectorStop, Call, HandedOn
    <3>2. /\ waiting = h /\ ok[h] /\ pc[h] = "reply" /\ acked' = acked \cup {job[h]}
      BY <2>3, <3>1 DEF Reply
    <3>3. HandlerOK(h)
      BY DEF IngestInv
    <3>4. job[h] \in Batch /\ \A i \in 1 .. Size[job[h]] : Traced(job[h], i)
      BY <3>2, <3>3 DEF HandlerOK
    <3> QED BY <2>1, <3>2, <3>4
  <2> QED BY <2>2, <2>3
<1>3. ASSUME NEW b \in acked', NEW i \in 1 .. Size[b] PROVE Traced(b, i)'
  <2>1. b \in Batch /\ i \in Nat /\ Traced(b, i)
    BY <1>1, <1>2, <1>3
  <2> QED BY <2>1, TracedKept
<1>4. \A b \in acked' : \A i \in 1 .. Size'[b] : Traced(b, i)'
  BY <1>1, <1>3
<1> QED BY <1>4 DEF AckedTraceable, Traced

(* IngestInv is an invariant of the ingest path.                           *)
THEOREM IngestInvariant == Spec => []IngestInv
<1>1. Init => IngestInv
  <2> SUFFICES ASSUME Init PROVE IngestInv
    OBVIOUS
  <2>1. IngestTypes
    <3>1. << >> \in Seq(Message)
      BY EmptySeq
    <3> QED BY <3>1 DEF Init, IngestTypes, None
  <2>2. ConsumerOK
    <3>1. Len(log) = 0
      BY EmptySeq DEF Init
    <3> QED BY <3>1 DEF Init, ConsumerOK, None
  <2>3. \A h \in Handler : HandlerOK(h)
    BY DEF Init, HandlerOK
  <2>4. AckedTraceable
    BY DEF Init, AckedTraceable
  <2> QED BY <2>1, <2>2, <2>3, <2>4 DEF IngestInv
<1>2. IngestInv /\ [Next]_vars => IngestInv'
  BY TypesKept, ConsumerKept, HandlersKept, AckedKept DEF IngestInv
<1> QED BY <1>1, <1>2, PTL DEF Spec

(* SendMetrics, StreamMetrics, InsertMetrics, ConsumeLoop: whatever fails, *)
(* is cut short or repeated, a metric of an acknowledged batch is in the   *)
(* table, or, with Kafka, accounted for.                                   *)
THEOREM AckedTraceableHolds == Spec => []AckedTraceable
<1>1. IngestInv => AckedTraceable
  BY DEF IngestInv
<1> QED BY <1>1, IngestInvariant, PTL

-----------------------------------------------------------------------------
(* Keys. In Kafka mode SendMetrics queues a batch under its own time and   *)
(* every other handler queues pieces of streams.                           *)

LEMMA QueuedKey ==
    ASSUME IngestInv, Kafka, NEW h \in Handler,
           SendMetrics(h) \/ StreamFlush(h) \/ StreamEnd(h)
    PROVE  /\ rows' = rows
           /\ outq' = outq \/ \E m : OneKey(m) /\ outq' = Append(outq, m)
<1>1. \A m : \A good \in BOOLEAN :
        IngestBatch(m, good) => rows' = rows /\ (outq' = outq \/ outq' = Append(outq, m))
  BY DEF IngestBatch, Produce
<1>2. \A from, to, at : (job[h] \in Streamed \/ at = OwnTime) => OneKey(Piece(h, from, to, at))
  BY DEF OneKey, Piece
<1>3. CASE SendMetrics(h)
  <2>1. \/ UNCHANGED <<rows, outq>>
        \/ \E good \in BOOLEAN : IngestBatch(Piece(h, 1, Size[job[h]], OwnTime), good)
    BY <1>3 DEF SendMetrics
  <2> QED BY <1>1, <1>2, <2>1
<1>4. CASE StreamFlush(h)
  <2>1. /\ job[h] \in Streamed
        /\ \E good \in BOOLEAN :
             IngestBatch(Piece(h, flushed[h] + 1, flushed[h] + FlushThreshold, since[h]), good)
    BY <1>4 DEF StreamFlush
  <2> QED BY <1>1, <1>2, <2>1
<1>5. CASE StreamEnd(h)
  <2>1. /\ job[h] \in Streamed
        /\ \/ UNCHANGED <<rows, outq>>
           \/ \E n, good : good \in BOOLEAN /\ IngestBatch(Piece(h, flushed[h] + 1, n, since[h]), good)
    BY <1>5 DEF StreamEnd
  <2> QED BY <1>1, <1>2, <2>1
<1> QED BY <1>3, <1>4, <1>5

LEMMA KeyKept ==
    ASSUME IngestInv, [Next]_vars, KeyInv, Kafka
    PROVE  /\ \A n \in DOMAIN outq' : OneKey(outq'[n])
           /\ \A o \in DOMAIN log' : log'[o].b # 0 => OneKey(log'[o])
           /\ \A row \in rows' : row[1] \notin Streamed => row[3] = OwnTime
<1>0. IngestTypes /\ ConsumerOK
  BY DEF IngestInv
<1>1. outq \in Seq(Message) /\ log \in Seq(Message) /\ outq' \in Seq(Message)
  BY <1>0, TypesKept DEF IngestTypes
<1>2. /\ \A n \in DOMAIN outq : OneKey(outq[n])
      /\ \A o \in DOMAIN log : log[o].b # 0 => OneKey(log[o])
      /\ \A row \in rows : row[1] \notin Streamed => row[3] = OwnTime
  BY DEF KeyInv
<1>3. CASE \E h \in Handler : SendMetrics(h) \/ StreamFlush(h) \/ StreamEnd(h)
  <2>1. PICK h \in Handler : SendMetrics(h) \/ StreamFlush(h) \/ StreamEnd(h)
    BY <1>3
  <2>2. HandedOn(h)
    BY <2>1, HandsOn
  <2>3. log' = log /\ rows' = rows
    BY <2>1, <2>2, QueuedKey DEF HandedOn
  <2>4. outq' = outq \/ \E m : OneKey(m) /\ outq' = Append(outq, m)
    BY <2>1, QueuedKey
  <2>5. ASSUME NEW m, OneKey(m), outq' = Append(outq, m), NEW n \in DOMAIN outq'
        PROVE  OneKey(outq'[n])
    <3>1. /\ DOMAIN outq = 1 .. Len(outq) /\ Len(outq) \in Nat /\ DOMAIN outq' = 1 .. Len(outq')
      BY <1>1, LenProperties
    <3>2. Len(outq') = Len(outq) + 1 /\ outq'[n] = IF n = Len(outq) + 1 THEN m ELSE outq[n]
      BY <1>1, <2>5, <3>1
    <3> QED BY <1>2, <2>5, <3>1, <3>2
  <2> QED BY <1>2, <2>3, <2>4, <2>5
<1>4. CASE Deliver \/ ForeignMessage
  <2>1. rows' = rows /\ UNCHANGED consumerVars
    BY <1>4 DEF Deliver, ForeignMessage
  <2>2. PICK m \in Message : /\ log' = Append(log, m)
                             /\ (outq # << >> /\ m = Head(outq)) \/ m.b = 0
    BY <1>0, <1>4, LogTypes
  <2>3. m.b = 0 \/ OneKey(m)
    <3>1. outq # << >> => 1 \in DOMAIN outq /\ Head(outq) = outq[1]
      BY <1>1, HeadTailProperties, LenProperties
    <3> QED BY <1>2, <2>2, <3>1
  <2>4. /\ DOMAIN log' = 1 .. Len(log) + 1 /\ Len(log) \in Nat
        /\ \A o \in DOMAIN log : log'[o] = log[o]
        /\ log'[Len(log) + 1] = m
    BY <1>0, <2>1, <2>2, LogGrows
  <2>5. ASSUME NEW o \in DOMAIN log', log'[o].b # 0 PROVE OneKey(log'[o])
    <3>1. CASE o = Len(log) + 1
      BY <2>3, <2>4, <2>5, <3>1
    <3>2. CASE o # Len(log) + 1
      <4>1. o \in DOMAIN log
        BY <1>1, <2>4, <3>2, LenProperties
      <4> QED BY <1>2, <2>4, <2>5, <4>1
    <3> QED BY <3>1, <3>2
  <2>6. ASSUME NEW n \in DOMAIN outq' PROVE OneKey(outq'[n])
    <3>1. outq' = outq \/ (outq # << >> /\ outq' = Tail(outq))
      BY <1>4 DEF Deliver, ForeignMessage
    <3>2. outq # << >> /\ outq' = Tail(outq) => n + 1 \in DOMAIN outq /\ outq'[n] = outq[n + 1]
      BY <1>1, HeadTailProperties, LenProperties
    <3> QED BY <1>2, <3>1, <3>2
  <2> QED BY <1>2, <2>1, <2>5, <2>6
<1>5. CASE DeliveryFailed \/ CollectorStop
  <2>1. UNCHANGED <<rows, log>>
    BY <1>5 DEF DeliveryFailed, CollectorStop
  <2>2. ASSUME NEW n \in DOMAIN outq' PROVE OneKey(outq'[n])
    <3>1. outq' = << >> \/ (outq # << >> /\ outq' = Tail(outq))
      BY <1>5 DEF DeliveryFailed, CollectorStop
    <3>2. outq # << >> /\ outq' = Tail(outq) => n + 1 \in DOMAIN outq /\ outq'[n] = outq[n + 1]
      BY <1>1, HeadTailProperties, LenProperties
    <3>3. outq' # << >>
      OBVIOUS
    <3> QED BY <1>2, <3>1, <3>2, <3>3
  <2> QED BY <1>2, <2>1, <2>2
<1>6. CASE Consume
  <2>1. PICK good \in BOOLEAN : Insert(log[position], good)
    BY <1>6 DEF Consume
  <2>2. UNCHANGED <<outq, log>> /\ log[position].b # 0
    BY <1>6 DEF Consume
  <2>3. position \in DOMAIN log
    BY <1>0, <1>1, <1>6, LenProperties DEF Consume, ConsumerOK, IngestTypes
  <2>4. log[position] \in Message /\ OneKey(log[position])
    BY <1>1, <1>2, <2>2, <2>3, ElementOfSeq
  <2>5. \A row \in rows' :
          row \in rows \/ (row[1] = log[position].b /\ row[3] = log[position].at)
    BY <1>0, <2>1, <2>4, InsertFacts
  <2> QED BY <1>2, <2>2, <2>4, <2>5 DEF OneKey
<1>7. CASE \/ Tick \/ GiveUp \/ UNCHANGED vars \/ \E h \in Handler : Call(h) \/ Reply(h)
           \/ ConsumerStart \/ ConsumerStop \/ ConsumeForeign \/ Commit
  <2>1. UNCHANGED <<rows, outq, log>>
    BY <1>7 DEF Tick, GiveUp, vars, Call, Reply, ConsumerStart, ConsumerStop, ConsumeForeign, Commit
  <2> QED BY <1>2, <2>1
<1> QED BY <1>3, <1>4, <1>5, <1>6, <1>7, NextCases DEF Background, ConsumerStep

(* Produce, ConsumeLoop: in Kafka mode a metric sent by SendMetrics has    *)
(* one row at most, however often its batch is sent, produced or consumed. *)
THEOREM StoredOnceHolds == Spec => []StoredOnce
<1>1. Init => KeyInv
  BY EmptySeq DEF Init, KeyInv
<1>2. IngestInv /\ KeyInv /\ [Next]_vars => KeyInv'
  <2> SUFFICES ASSUME IngestInv, KeyInv, [Next]_vars, Kafka' PROVE KeyInv'
    BY DEF KeyInv
  <2>1. load' = load
    BY NextCases, HandsOn DEF Background, Tick, Deliver, DeliveryFailed, ForeignMessage, vars,
          ConsumerStart, ConsumerStop, ConsumerStep, ConsumeForeign, Consume, Commit,
          GiveUp, CollectorStop, Call, Reply, HandedOn
  <2>2. Kafka /\ Streamed' = Streamed
    BY <2>1 DEF Kafka, Streamed
  <2>3. /\ \A n \in DOMAIN outq' : OneKey(outq'[n])
        /\ \A o \in DOMAIN log' : log'[o].b # 0 => OneKey(log'[o])
        /\ \A row \in rows' : row[1] \notin Streamed => row[3] = OwnTime
    BY <2>2, KeyKept
  <2> QED BY <2>2, <2>3 DEF KeyInv, OneKey, OwnTime
<1>3. KeyInv => StoredOnce
  BY DEF KeyInv, StoredOnce
<1> QED BY <1>1, <1>2, <1>3, IngestInvariant, PTL DEF Spec

=============================================================================
