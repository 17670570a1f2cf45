------------------------- MODULE AgentSafetyProofs -------------------------
(***************************************************************************)
(* The safety invariants of AgentDelivery hold for every value of the      *)
(* constants: IInv is inductive and implies each of them.                  *)
(***************************************************************************)
EXTENDS AgentDeliveryProofs

-----------------------------------------------------------------------------
(* Removing the oldest row, as Pop(1) does.                                *)
LEMMA PopFacts ==
    ASSUME NEW s \in Seq(Batch), s # << >>
    PROVE  /\ 1 \in 0 .. Len(s)
           /\ Head(s) \in Range(s)
           /\ Range(s) = {Head(s)} \cup Range(Behead(s, 1))
           /\ Increasing(s) => /\ Increasing(Behead(s, 1))
                              /\ Head(s) \notin Range(Behead(s, 1))
<1>1. 1 \in 0 .. Len(s)
  BY LenProperties, EmptySeq
<1> DEFINE old == SubSeq(s, 1, 1)
           new == Behead(s, 1)
<1>2. /\ old \in Seq(Batch) /\ Len(old) = 1
      /\ old[1] = s[1]
  BY <1>1, OldestFacts
<1>3. /\ Range(s) = Range(old) \cup Range(new)
      /\ new \in Seq(Batch)
      /\ Increasing(s) => Increasing(new) /\ Before(old, new)
  BY <1>1, CutFacts
<1>4. Head(s) = s[1] /\ Head(s) \in Batch
  BY HeadTailProperties
<1> HIDE DEF old, new
<1>5. Range(old) = {Head(s)}
  BY <1>2, <1>4, RangeFacts
<1>6. \A x \in Batch : ~(x < x)
  BY BatchNat
<1> QED BY <1>1, <1>3, <1>4, <1>5, <1>6 DEF Before, new

(* The sets behind the sequences, with their types.                        *)
LEMMA RangeTypes ==
    ASSUME TypeOK
    PROVE  /\ Range(queue) \subseteq Batch /\ Range(fresh) \subseteq Batch
           /\ Range(buffer) \subseteq Batch /\ Range(spill) \subseteq Batch
           /\ Range(synced) \subseteq Batch
BY RangeFacts DEF TypeOK, SpillTypeOK

(* A step that only takes batches out of the sequences keeps their order.  *)
LEMMA ShrinkOrder ==
    ASSUME OrderInv,
           Range(spill') \subseteq Range(spill), Increasing(spill'),
           Range(buffer') \subseteq Range(buffer), Increasing(buffer'),
           Range(fresh') \subseteq Range(fresh), Increasing(fresh'),
           Range(queue') \subseteq Range(queue), Increasing(queue'),
           Range(synced') \subseteq Range(synced) \cup Range(spill),
           Increasing(synced'),
           produced' = produced, dropped' = dropped,
           late' \cup Received' \subseteq 1 .. produced,
           FreshMoved'
    PROVE  OrderInv'
<1> USE DEF OrderInv
<1>1. InOrder'
  BY DEF InOrder, Before
<1>2. InMemory' \subseteq InMemory
  BY DEF InMemory
<1>3. Known'
  BY <1>2 DEF Known, Pending
<1>4. DropsOldest'
  BY <1>2 DEF DropsOldest
<1> QED BY <1>1, <1>3, <1>4

(* What a call does to the batches the collector has.                      *)
LEMMA IngestFacts ==
    ASSUME TypeOK, NEW b \in Batch, Ingest(b)
    PROVE  /\ Received' = Received \cup {b}
           /\ \A c \in Batch : copies'[c] = 2 => copies[c] = 2 \/ (c = b /\ b \in Received)
<1>1. /\ copies \in [Batch -> 0 .. 2]
      /\ copies' = [copies EXCEPT ![b] = IF @ = 0 THEN 1 ELSE 2]
  BY DEF TypeOK, Ingest
<1>2. /\ \A c \in Batch \ {b} : copies'[c] = copies[c]
      /\ copies'[b] = IF copies[b] = 0 THEN 1 ELSE 2
  BY <1>1
<1> QED BY <1>1, <1>2 DEF Received

LEMMA CallFacts ==
    ASSUME TypeOK, NEW b \in Batch, CallOk(b) \/ CallFailed(b)
    PROVE  /\ Received \subseteq Received'
           /\ Received' \subseteq Received \cup {b}
           /\ late \subseteq late' /\ late' \subseteq late \cup {b}
           /\ CallOk(b) => Received' = Received \cup {b} /\ late' = late
           /\ CallFailed(b) => retried' = retried \cup {b}
           /\ \A c \in Batch : copies'[c] = 2 => copies[c] = 2 \/ (c = b /\ b \in Received)
<1>1. CASE CallOk(b)
  <2>1. CASE CallFailed(b)
    BY <1>1, <2>1, IngestFacts DEF CallOk, CallFailed
  <2> QED BY <1>1, <2>1, IngestFacts DEF CallOk
<1>2. CASE CallFailed(b) /\ ~CallOk(b)
  <2>1. retried' = retried \cup {b}
    BY <1>2 DEF CallFailed
  <2>2. CASE UNCHANGED <<copies, late>>
    BY <1>2, <2>1, <2>2 DEF Received
  <2>3. CASE Ingest(b) /\ UNCHANGED late
    BY <1>2, <2>1, <2>3, IngestFacts
  <2>4. CASE late' = late \cup {b} /\ UNCHANGED copies
    BY <1>2, <2>1, <2>4 DEF Received
  <2> QED BY <1>2, <2>2, <2>3, <2>4 DEF CallFailed
<1> QED BY <1>1, <1>2

-----------------------------------------------------------------------------
(* The new batch is newer than everything known so far.                    *)
LEMMA ProduceOrder ==
    ASSUME TypeOK, OrderInv, Produce PROVE OrderInv'
<1> DEFINE new == produced + 1
<1>1. /\ produced \in Nat /\ produced' = new /\ new \in Batch
      /\ \A x \in 1 .. produced : x < new /\ x \in 1 .. new
      /\ new \in 1 .. new
  BY DeliveryAssumption DEF Produce, TypeOK
<1>2. /\ UNCHANGED <<spill, synced, buffer, fresh, dropped, late, copies, pc>>
  BY DEF Produce, netVars, spillVars
<1> HIDE DEF new
<1>3. /\ Range(queue) \cup Range(fresh) \cup Range(buffer) \cup Range(spill)
           \subseteq 1 .. produced
      /\ dropped \subseteq 1 .. produced
  BY DEF OrderInv, Known, Pending, InMemory
<1>4. /\ Range(queue') \subseteq Range(queue) \cup {new}
      /\ Increasing(queue')
  <2>1. \A x \in Range(queue) : x < new
    BY <1>1, <1>3
  <2>2. queue \in Seq(Batch) /\ Len(queue) \in Nat /\ MaxQueued \in Nat \ {0}
        /\ Increasing(queue)
    BY LenProperties, DeliveryAssumption DEF TypeOK, OrderInv, InOrder
  <2>3. CASE Len(queue) >= MaxQueued
    <3> DEFINE t == Tail(queue)
    <3>1. queue # << >>
      BY <2>2, <2>3, EmptySeq
    <3>2. queue' = Append(t, new)
      BY <2>3 DEF Produce, new
    <3>3. t \in Seq(Batch) /\ Range(t) \subseteq Range(queue) /\ Increasing(t)
      BY <2>2, <3>1, TailFacts
    <3> HIDE DEF t
    <3>4. Range(queue') = Range(t) \cup {new} /\ Increasing(queue')
      BY <1>1, <2>1, <3>2, <3>3, AppendFacts
    <3> QED BY <3>3, <3>4
  <2>4. CASE ~(Len(queue) >= MaxQueued)
    <3>1. queue' = Append(queue, new)
      BY <2>4 DEF Produce, new
    <3> QED BY <1>1, <2>1, <2>2, <3>1, AppendFacts
  <2> QED BY <2>3, <2>4
<1>5. InOrder'
  BY <1>1, <1>2, <1>3, <1>4 DEF OrderInv, InOrder, Before
<1>6. InMemory' \subseteq InMemory \cup {new} /\ Received' = Received
  BY <1>2, <1>4 DEF InMemory, Received
<1>7. Known'
  BY <1>1, <1>2, <1>6 DEF OrderInv, Known, Pending
<1>8. DropsOldest'
  BY <1>1, <1>2, <1>3, <1>6 DEF OrderInv, DropsOldest
<1> QED BY <1>2, <1>5, <1>7, <1>8 DEF OrderInv, FreshMoved

(* Drain moves the front of the queue behind an empty fresh.               *)
LEMMA DrainOrder ==
    ASSUME TypeOK, OrderInv, Drain
    PROVE  /\ OrderInv'
           /\ Range(queue') \cup Range(fresh') = Range(queue) \cup Range(fresh)
<1> DEFINE n == IF Len(queue) < DrainLimit THEN Len(queue) ELSE DrainLimit
<1>1. n \in 0 .. Len(queue) /\ queue \in Seq(Batch)
  BY LenProperties, DeliveryAssumption DEF TypeOK
<1>2. fresh' = SubSeq(queue, 1, n) /\ queue' = Behead(queue, n)
  BY DEF Drain
<1> HIDE DEF n
<1>3. /\ Range(queue) = Range(SubSeq(queue, 1, n)) \cup Range(Behead(queue, n))
      /\ Increasing(queue) => /\ Increasing(SubSeq(queue, 1, n))
                              /\ Increasing(Behead(queue, n))
                              /\ Before(SubSeq(queue, 1, n), Behead(queue, n))
  BY <1>1, CutFacts
<1>4. /\ Range(queue) = Range(fresh') \cup Range(queue')
      /\ Increasing(queue)
      /\ Increasing(fresh') /\ Increasing(queue') /\ Before(fresh', queue')
  BY <1>2, <1>3 DEF OrderInv, InOrder
<1>5. Range(fresh) = {}
  BY EmptyFacts DEF OrderInv, FreshMoved, Drain
<1>6. /\ UNCHANGED <<spill, synced, buffer, dropped, late, copies, produced>>
      /\ pc' = "fill"
  BY DEF Drain, netVars, spillVars, histVars
<1>7. InOrder'
  BY <1>4, <1>6 DEF OrderInv, InOrder, Before
<1>8. InMemory' = InMemory /\ Received' = Received
  BY <1>4, <1>5, <1>6 DEF InMemory, Received
<1>9. Known' /\ DropsOldest'
  BY <1>6, <1>8 DEF OrderInv, Known, Pending, DropsOldest
<1> QED BY <1>4, <1>5, <1>6, <1>7, <1>9 DEF OrderInv, FreshMoved

(* The deque with the next drained batch behind it is in order, between    *)
(* the disk and the rest of the drained batches.                           *)
LEMMA FilledFacts ==
    ASSUME TypeOK, OrderInv, fresh # << >>
    PROVE  /\ Head(fresh) \in Batch
           /\ Filled \in Seq(Batch) /\ Filled # << >>
           /\ Range(Filled) = Range(buffer) \cup {Head(fresh)}
           /\ Range(fresh) = {Head(fresh)} \cup Range(Tail(fresh))
           /\ Increasing(Filled) /\ Increasing(Tail(fresh))
           /\ Before(Filled, Tail(fresh)) /\ Before(Filled, queue)
           /\ Before(spill, Filled) /\ Before(spill, Tail(fresh))
           /\ Before(Tail(fresh), queue)
           /\ Head(Filled) \in Batch /\ Tail(Filled) \in Seq(Batch)
           /\ Range(Filled) = {Head(Filled)} \cup Range(Tail(Filled))
           /\ Increasing(Tail(Filled))
           /\ \A x \in Range(Tail(Filled)) : Head(Filled) < x
<1> DEFINE h == Head(fresh)
           t == Tail(fresh)
           f == Filled
<1>1. /\ h \in Batch /\ t \in Seq(Batch)
      /\ Range(fresh) = {h} \cup Range(t)
      /\ Increasing(t) /\ \A y \in Range(t) : h < y
  BY TailFacts DEF TypeOK, OrderInv, InOrder
<1>2. f = Append(buffer, h)
  BY DEF Filled
<1> HIDE DEF h, t, f
<1>3. \A x \in Range(buffer) : x < h
  BY <1>1 DEF OrderInv, InOrder, Before
<1>4. /\ f \in Seq(Batch) /\ f # << >>
      /\ Range(f) = Range(buffer) \cup {h} /\ Increasing(f)
  BY <1>1, <1>2, <1>3, AppendFacts DEF TypeOK, OrderInv, InOrder
<1>5. /\ Before(f, t) /\ Before(f, queue) /\ Before(spill, f)
      /\ Before(spill, t) /\ Before(t, queue)
  BY <1>1, <1>4 DEF OrderInv, InOrder, Before
<1>6. /\ Head(f) \in Batch /\ Tail(f) \in Seq(Batch)
      /\ Range(f) = {Head(f)} \cup Range(Tail(f))
      /\ Increasing(Tail(f)) /\ \A x \in Range(Tail(f)) : Head(f) < x
  BY <1>4, TailFacts
<1> QED BY <1>1, <1>4, <1>5, <1>6 DEF h, t, f

(* What a push that trims n rows leaves of the spill.                      *)
LEMMA TrimFacts ==
    ASSUME TypeOK, OrderInv, NEW n \in 0 .. Len(spill)
    PROVE  /\ Behead(spill, n) \in Seq(Batch)
           /\ Range(spill) = Trimmed(n) \cup Range(Behead(spill, n))
           /\ Increasing(Behead(spill, n))
BY CutFacts DEF TypeOK, SpillTypeOK, OrderInv, InOrder, Trimmed

(* What one iteration of the fill loop does to disk, deque and fresh: the  *)
(* oldest batch of the deque is kept, spilled or dropped.                  *)
LEMMA FillFacts ==
    ASSUME TypeOK, OrderInv, Fill
    PROVE  /\ OrderInv'
           /\ Range(spill) \cup Range(buffer) \cup Range(fresh)
                \subseteq Range(spill') \cup Range(buffer') \cup Range(fresh')
                            \cup dropped' \cup lost'
           /\ Range(spill') \cup Range(buffer') \cup Range(fresh')
                \subseteq Range(spill) \cup Range(buffer) \cup Range(fresh)
           /\ dropped \subseteq dropped' /\ lost \subseteq lost'
           /\ dropped' \cup lost' \subseteq dropped \cup lost \cup Pending
<1> DEFINE g == Head(Filled)
           rest == Tail(Filled)
           t == Tail(fresh)
           new == Head(fresh)
           f == Filled
<1>1. /\ UNCHANGED <<pc, queue, synced, produced, late, copies>>
      /\ pc = "fill" /\ fresh # << >> /\ fresh' = t
  BY DEF Fill, netVars, SpillPush, SpillRefuse, FillKeep, FillSpill, FillDrop,
         spillVars
<1>2. /\ Range(f) = Range(buffer) \cup {new} /\ Range(fresh) = {new} \cup Range(t)
      /\ Increasing(f) /\ Increasing(t)
      /\ Before(f, t) /\ Before(f, queue)
      /\ Before(spill, f) /\ Before(spill, t)
      /\ Before(t, queue)
      /\ g \in Batch
      /\ Range(f) = {g} \cup Range(rest) /\ Increasing(rest)
      /\ \A x \in Range(rest) : g < x
  BY <1>1, FilledFacts
<1>3. /\ Increasing(synced) /\ Increasing(queue) /\ Increasing(spill)
      /\ Before(spill, queue) /\ Known /\ DropsOldest
  BY DEF OrderInv, InOrder
<1>4. PICK k \in 0 .. Len(spill) : FillKeep \/ FillSpill(k) \/ FillDrop(k)
  <2>1. 0 \in 0 .. Len(spill)
    BY LenProperties DEF TypeOK, SpillTypeOK
  <2> QED BY <2>1 DEF Fill
<1> DEFINE kept == Behead(spill, k)
<1>5. /\ kept \in Seq(Batch) /\ Increasing(kept)
      /\ Range(spill) = Trimmed(k) \cup Range(kept)
  BY TrimFacts
<1> DEFINE Spilled == /\ spill' = Append(kept, g) /\ buffer' = rest
                      /\ lost' = lost \cup Trimmed(k) /\ dropped' = dropped
           Dropped == /\ spill' = kept /\ buffer' = rest
                      /\ lost' = lost \cup Trimmed(k)
                      /\ dropped' = dropped \cup {g}
           Kept == /\ spill' = spill /\ buffer' = f
                   /\ UNCHANGED <<dropped, lost>>
<1>6. Kept \/ Spilled \/ Dropped
  BY <1>4 DEF FillKeep, FillSpill, FillDrop, SpillPush, SpillRefuse, spillVars
<1> HIDE DEF kept, g, rest, t, new, f
<1>7. ASSUME Spilled
      PROVE  Increasing(spill') /\ Range(spill') = Range(kept) \cup {g}
  <2>1. \A x \in Range(kept) : x < g
    BY <1>2, <1>5 DEF Before
  <2> QED BY <1>2, <1>5, <1>7, <2>1, AppendFacts
<1>8. Received' = Received
  BY <1>1 DEF Received
<1>9. CASE Kept
  <2>1. InOrder'
    BY <1>1, <1>2, <1>3, <1>9 DEF InOrder
  <2>2. InMemory' = InMemory
    BY <1>1, <1>2, <1>9 DEF InMemory
  <2>3. Known' /\ DropsOldest'
    BY <1>1, <1>3, <1>8, <1>9, <2>2 DEF Known, Pending, DropsOldest
  <2> QED BY <1>1, <1>2, <1>3, <1>9, <2>1, <2>3 DEF OrderInv, FreshMoved
<1>10. CASE Spilled
  <2>1. InOrder'
    BY <1>1, <1>2, <1>3, <1>5, <1>7, <1>10 DEF InOrder, Before
  <2>2. InMemory' \subseteq InMemory /\ g \in InMemory
    BY <1>1, <1>2, <1>10 DEF InMemory
  <2>3. Known' /\ DropsOldest'
    BY <1>1, <1>3, <1>5, <1>7, <1>8, <1>10, <2>2 DEF Known, Pending, DropsOldest
  <2>4. OrderInv'
    BY <1>1, <1>3, <2>1, <2>3 DEF OrderInv, FreshMoved
  <2> QED BY <1>1, <1>2, <1>5, <1>7, <1>10, <2>4 DEF Pending
<1>11. CASE Dropped
  <2>1. InOrder'
    BY <1>1, <1>2, <1>3, <1>5, <1>11 DEF InOrder, Before
  <2>2. InMemory' \subseteq InMemory /\ g \in InMemory
    BY <1>1, <1>2, <1>11 DEF InMemory
  <2>3. Known'
    BY <1>1, <1>3, <1>5, <1>8, <1>11, <2>2 DEF Known, Pending
  <2>4. \A b \in InMemory' : g < b
    BY <1>1, <1>2, <1>11 DEF InMemory, Before
  <2>5. DropsOldest'
    BY <1>3, <1>11, <2>2, <2>4 DEF DropsOldest
  <2>6. OrderInv'
    BY <1>1, <1>3, <2>1, <2>3, <2>5 DEF OrderInv, FreshMoved
  <2> QED BY <1>1, <1>2, <1>5, <1>11, <2>2, <2>6 DEF Pending
<1> QED BY <1>6, <1>9, <1>10, <1>11

-----------------------------------------------------------------------------
(* Steps that move no batch.                                               *)
batchVars == <<queue, fresh, buffer, spill, synced, histVars, netVars>>

LEMMA QuietFacts ==
    ASSUME OrderInv, UNCHANGED batchVars, FreshMoved'
    PROVE  /\ OrderInv'
           /\ Accounted => Accounted'
           /\ Provoked => Provoked'
           /\ NoUnprovokedDuplicate => NoUnprovokedDuplicate'
<1>1. UNCHANGED <<queue, fresh, buffer, spill, synced, produced, dropped, lost,
                  copies, late, retried>>
  BY DEF batchVars, histVars, netVars
<1>2. Received' = Received /\ InMemory' = InMemory /\ Pending' = Pending
  BY <1>1 DEF Received, InMemory, Pending
<1>3. InOrder' /\ Increasing(synced')
  BY <1>1 DEF OrderInv, InOrder
<1>4. Known' /\ DropsOldest'
  BY <1>1, <1>2 DEF OrderInv, Known, DropsOldest
<1> QED BY <1>1, <1>2, <1>3, <1>4
        DEF OrderInv, Accounted, Provoked, NoUnprovokedDuplicate

LEMMA QuietStep ==
    ASSUME TypeOK, OrderInv,
           \/ Heartbeat \/ FillDone \/ DecideSend \/ DecideWait
           \/ SendDone \/ DrainDone \/ Restart \/ UNCHANGED vars
    PROVE  UNCHANGED batchVars /\ FreshMoved'
<1> USE DEF batchVars, memVars, OrderInv, FreshMoved
<1>1. CASE Heartbeat
  BY <1>1 DEF Heartbeat, spillVars
<1>2. CASE FillDone
  BY <1>2 DEF FillDone, spillVars
<1>3. CASE DecideSend
  BY <1>3 DEF DecideSend, spillVars
<1>4. CASE DecideWait
  BY <1>4 DEF DecideWait, EndIteration, spillVars
<1>5. CASE SendDone
  BY <1>5 DEF SendDone, EndIteration, spillVars
<1>6. CASE DrainDone
  BY <1>6 DEF DrainDone, spillVars
<1>7. CASE Restart
  BY <1>7 DEF Restart, SpillOpen
<1>8. CASE UNCHANGED vars
  BY <1>8 DEF vars, spillVars
<1> QED BY <1>1, <1>2, <1>3, <1>4, <1>5, <1>6, <1>7, <1>8

(* Steps that exchange batch b with a collector, or remove it from the     *)
(* front of the deque or of the disk.                                      *)
LEMMA SendEffect ==
    ASSUME TypeOK, OrderInv, SendOk \/ SendFailed
    PROVE  \E b \in Range(buffer) :
             /\ UNCHANGED <<queue, fresh, spill, synced, produced, dropped, lost>>
             /\ FreshMoved'
             /\ Increasing(buffer')
             /\ \/ /\ CallOk(b) /\ Range(buffer) = {b} \cup Range(buffer')
                   /\ b \notin Range(buffer') /\ retried' = retried
                \/ CallFailed(b) /\ buffer' = buffer
<1> DEFINE b == Head(buffer)
<1>1. buffer # << >> /\ buffer \in Seq(Batch) /\ Increasing(buffer)
  BY DEF SendOk, SendFailed, Sending, TypeOK, OrderInv, InOrder
<1>2. /\ b \in Range(buffer) /\ b \in Batch
      /\ Range(buffer) = {b} \cup Range(Tail(buffer))
      /\ Increasing(Tail(buffer)) /\ \A y \in Range(Tail(buffer)) : b < y
  BY <1>1, TailFacts
<1>3. b \notin Range(Tail(buffer))
  <2>1. \A x \in Batch : ~(x < x)
    BY BatchNat
  <2> HIDE DEF b
  <2> QED BY <1>2, <2>1
<1>4. /\ UNCHANGED <<queue, fresh, spill, synced, produced, dropped, lost>>
      /\ pc = "send" /\ pc' # "fill"
  BY DEF SendOk, SendFailed, Sending, EndIteration, spillVars, histVars
<1>5. FreshMoved'
  BY <1>4 DEF OrderInv, FreshMoved
<1>6. \/ CallOk(b) /\ buffer' = Tail(buffer) /\ retried' = retried
      \/ CallFailed(b) /\ buffer' = buffer
  BY DEF SendOk, SendFailed
<1> HIDE DEF b
<1> QED BY <1>1, <1>2, <1>3, <1>4, <1>5, <1>6

LEMMA DrainEffect ==
    ASSUME TypeOK, OrderInv, DrainOk \/ DrainDiscard \/ DrainFailed
    PROVE  \E b \in Range(spill) :
             /\ UNCHANGED <<queue, fresh, buffer, synced, produced, dropped>>
             /\ FreshMoved'
             /\ Increasing(spill') /\ Range(spill') \subseteq Range(spill)
             /\ \/ /\ CallOk(b) /\ Range(spill) = {b} \cup Range(spill')
                   /\ b \notin Range(spill') /\ UNCHANGED <<retried, lost>>
                \/ /\ CallOk(b) /\ spill' = spill
                   /\ retried' = retried \cup {b} /\ lost' = lost
                \/ CallFailed(b) /\ spill' = spill /\ lost' = lost
                \/ /\ UNCHANGED <<copies, late, retried>>
                   /\ \/ spill' = spill /\ lost' = lost
                      \/ /\ Range(spill) = {b} \cup Range(spill')
                         /\ b \notin Range(spill') /\ lost' = lost \cup {b}
<1> DEFINE b == Head(spill)
<1>1. spill # << >> /\ spill \in Seq(Batch) /\ Increasing(spill)
  BY DEF DrainOk, DrainDiscard, DrainFailed, Draining, TypeOK, SpillTypeOK,
         OrderInv, InOrder
<1>2. /\ b \in Range(spill)
      /\ Range(spill) = {b} \cup Range(Behead(spill, 1))
      /\ Increasing(Behead(spill, 1))
      /\ b \notin Range(Behead(spill, 1))
  BY <1>1, PopFacts
<1>3. /\ UNCHANGED <<queue, fresh, buffer, synced, produced, dropped>>
      /\ pc = "disk" /\ pc' # "fill"
  BY DEF DrainOk, DrainDiscard, DrainFailed, Draining, SpillPop, spillVars,
         histVars, memVars
<1>4. FreshMoved'
  BY <1>3 DEF OrderInv, FreshMoved
<1>5. \/ /\ CallOk(b) /\ spill' = Behead(spill, 1) /\ UNCHANGED <<retried, lost>>
      \/ /\ CallOk(b) /\ spill' = spill
         /\ retried' = retried \cup {b} /\ lost' = lost
      \/ CallFailed(b) /\ spill' = spill /\ lost' = lost
      \/ /\ UNCHANGED <<copies, late, retried>>
         /\ \/ spill' = spill /\ lost' = lost
            \/ spill' = Behead(spill, 1) /\ lost' = lost \cup {b}
  BY DEF DrainOk, DrainDiscard, DrainFailed, SpillPop, spillVars, histVars, netVars
<1> HIDE DEF b
<1> QED BY <1>1, <1>2, <1>3, <1>4, <1>5

LEMMA ExchangeEffect ==
    ASSUME TypeOK, OrderInv,
           SendOk \/ SendFailed \/ DrainOk \/ DrainDiscard \/ DrainFailed
    PROVE  \E b \in Pending :
             /\ UNCHANGED <<queue, fresh, synced, produced, dropped>>
             /\ FreshMoved'
             /\ Increasing(buffer') /\ Range(buffer') \subseteq Range(buffer)
             /\ Increasing(spill') /\ Range(spill') \subseteq Range(spill)
             /\ \/ /\ CallOk(b) /\ UNCHANGED <<retried, lost>>
                   /\ Pending = {b} \cup Pending' /\ b \notin Pending'
                \/ /\ CallOk(b) /\ Pending' = Pending
                   /\ retried' = retried \cup {b} /\ lost' = lost
                \/ CallFailed(b) /\ Pending' = Pending /\ lost' = lost
                \/ /\ UNCHANGED <<copies, late, retried>>
                   /\ \/ Pending' = Pending /\ lost' = lost
                      \/ /\ Pending = {b} \cup Pending' /\ b \notin Pending'
                         /\ lost' = lost \cup {b}
<1>0. \A x \in Batch : ~(x < x)
  BY BatchNat
<1>1. CASE SendOk \/ SendFailed
  <2>1. PICK b \in Range(buffer) :
           /\ UNCHANGED <<queue, fresh, spill, synced, produced, dropped, lost>>
           /\ FreshMoved'
           /\ Increasing(buffer')
           /\ \/ /\ CallOk(b) /\ Range(buffer) = {b} \cup Range(buffer')
                 /\ b \notin Range(buffer') /\ retried' = retried
              \/ CallFailed(b) /\ buffer' = buffer
    BY <1>1, SendEffect
  <2>2. b \in Batch /\ b \in Pending
    BY RangeTypes DEF Pending, InMemory
  <2>3. b \notin Range(queue) \cup Range(fresh) \cup Range(spill)
    BY <1>0, <2>2 DEF OrderInv, InOrder, Before
  <2>4. CASE /\ CallOk(b) /\ Range(buffer) = {b} \cup Range(buffer')
             /\ b \notin Range(buffer') /\ retried' = retried
    <3>1. Pending = {b} \cup Pending' /\ b \notin Pending'
      BY <2>1, <2>3, <2>4 DEF Pending, InMemory
    <3> QED BY <2>1, <2>2, <2>4, <3>1 DEF OrderInv, InOrder
  <2>5. CASE CallFailed(b) /\ buffer' = buffer
    <3>1. Pending' = Pending
      BY <2>1, <2>5 DEF Pending, InMemory
    <3> QED BY <2>1, <2>2, <2>5, <3>1 DEF OrderInv, InOrder
  <2> QED BY <2>1, <2>4, <2>5
<1>2. CASE DrainOk \/ DrainDiscard \/ DrainFailed
  <2>1. PICK b \in Range(spill) :
           /\ UNCHANGED <<queue, fresh, buffer, synced, produced, dropped>>
           /\ FreshMoved'
           /\ Increasing(spill') /\ Range(spill') \subseteq Range(spill)
           /\ \/ /\ CallOk(b) /\ Range(spill) = {b} \cup Range(spill')
                 /\ b \notin Range(spill') /\ UNCHANGED <<retried, lost>>
              \/ /\ CallOk(b) /\ spill' = spill
                 /\ retried' = retried \cup {b} /\ lost' = lost
              \/ CallFailed(b) /\ spill' = spill /\ lost' = lost
              \/ /\ UNCHANGED <<copies, late, retried>>
                 /\ \/ spill' = spill /\ lost' = lost
                    \/ /\ Range(spill) = {b} \cup Range(spill')
                       /\ b \notin Range(spill') /\ lost' = lost \cup {b}
    BY <1>2, DrainEffect
  <2>2. b \in Batch /\ b \in Pending /\ Increasing(buffer')
    BY <2>1, RangeTypes DEF Pending, OrderInv, InOrder
  <2>3. b \notin Range(queue) \cup Range(fresh) \cup Range(buffer)
    BY <1>0, <2>2 DEF OrderInv, InOrder, Before
  <2>4. ASSUME spill' = spill PROVE Pending' = Pending
    BY <2>1, <2>4 DEF Pending, InMemory
  <2>5. ASSUME Range(spill) = {b} \cup Range(spill')
        PROVE  /\ Pending = {b} \cup Pending'
               /\ b \notin Range(spill') => b \notin Pending'
    BY <2>1, <2>3, <2>5 DEF Pending, InMemory
  <2> QED BY <2>1, <2>2, <2>4, <2>5
<1> QED BY <1>1, <1>2

LEMMA ExchangeFacts ==
    ASSUME IInv, SendOk \/ SendFailed \/ DrainOk \/ DrainDiscard \/ DrainFailed
    PROVE  OrderInv' /\ Accounted' /\ Provoked' /\ NoUnprovokedDuplicate'
<1>1. TypeOK /\ OrderInv /\ Accounted /\ Provoked /\ NoUnprovokedDuplicate
  BY DEF IInv
<1>2. PICK b \in Pending :
             /\ UNCHANGED <<queue, fresh, synced, produced, dropped>>
             /\ FreshMoved'
             /\ Increasing(buffer') /\ Range(buffer') \subseteq Range(buffer)
             /\ Increasing(spill') /\ Range(spill') \subseteq Range(spill)
             /\ \/ /\ CallOk(b) /\ UNCHANGED <<retried, lost>>
                   /\ Pending = {b} \cup Pending' /\ b \notin Pending'
                \/ /\ CallOk(b) /\ Pending' = Pending
                   /\ retried' = retried \cup {b} /\ lost' = lost
                \/ CallFailed(b) /\ Pending' = Pending /\ lost' = lost
                \/ /\ UNCHANGED <<copies, late, retried>>
                   /\ \/ Pending' = Pending /\ lost' = lost
                      \/ /\ Pending = {b} \cup Pending' /\ b \notin Pending'
                         /\ lost' = lost \cup {b}
  BY <1>1, ExchangeEffect
<1>3. b \in Batch /\ b \in 1 .. produced
  BY <1>1, RangeTypes DEF OrderInv, Known, Pending, InMemory
<1>4. /\ Received \subseteq Received' /\ late' \cup Received' \subseteq 1 .. produced
  <2>1. CASE CallOk(b) \/ CallFailed(b)
    BY <1>1, <1>3, <2>1, CallFacts DEF OrderInv, Known
  <2>2. CASE UNCHANGED <<copies, late, retried>>
    BY <1>1, <2>2 DEF OrderInv, Known, Received
  <2> QED BY <1>2, <2>1, <2>2
<1>5. OrderInv'
  BY <1>1, <1>2, <1>4, ShrinkOrder DEF OrderInv, InOrder
<1>6. CASE /\ CallOk(b)
           /\ \/ /\ UNCHANGED <<retried, lost>>
                 /\ Pending = {b} \cup Pending' /\ b \notin Pending'
              \/ /\ Pending' = Pending
                 /\ retried' = retried \cup {b} /\ lost' = lost
  <2>1. /\ Received' = Received \cup {b} /\ late' = late
        /\ \A c \in Batch : copies'[c] = 2 => copies[c] = 2 \/ (c = b /\ b \in Received)
    BY <1>1, <1>3, <1>6, CallFacts
  <2>2. b \in Received => b \in retried
    BY <1>1 DEF Provoked
  <2>3. /\ retried \subseteq retried' /\ Pending' \subseteq Pending
        /\ b \in Pending' => b \in retried'
    BY <1>6
  <2>4. Pending \subseteq Pending' \cup {b} /\ lost \subseteq lost'
    BY <1>6
  <2> QED BY <1>1, <1>2, <1>5, <2>1, <2>2, <2>3, <2>4
          DEF Accounted, Provoked, NoUnprovokedDuplicate
<1>7. CASE CallFailed(b) /\ Pending' = Pending /\ lost' = lost
  <2>1. /\ Received' \subseteq Received \cup {b} /\ late' \subseteq late \cup {b}
        /\ retried' = retried \cup {b}
        /\ \A c \in Batch : copies'[c] = 2 => copies[c] = 2 \/ (c = b /\ b \in Received)
    BY <1>1, <1>3, <1>7, CallFacts
  <2> QED BY <1>1, <1>2, <1>4, <1>5, <1>7, <2>1
          DEF Accounted, Provoked, NoUnprovokedDuplicate
<1>8. CASE /\ UNCHANGED <<copies, late, retried>>
           /\ \/ Pending' = Pending /\ lost' = lost
              \/ Pending \subseteq {b} \cup Pending' /\ lost' = lost \cup {b}
  <2>1. Received' = Received /\ Pending' \subseteq Pending
    BY <1>2, <1>8 DEF Received, Pending, InMemory
  <2> QED BY <1>1, <1>2, <1>5, <1>8, <2>1
          DEF Accounted, Provoked, NoUnprovokedDuplicate
<1> QED BY <1>2, <1>6, <1>7, <1>8

-----------------------------------------------------------------------------
(* The process ends; a power loss also restores the synced rows.           *)
LEMMA EndFacts ==
    ASSUME IInv, Shutdown \/ Crash \/ PowerLoss
    PROVE  OrderInv' /\ Accounted' /\ Provoked' /\ NoUnprovokedDuplicate'
<1>1. TypeOK /\ OrderInv /\ Accounted /\ Provoked /\ NoUnprovokedDuplicate
  BY DEF IInv
<1>2. /\ Range(queue') = {} /\ Range(fresh') = {} /\ Range(buffer') = {}
      /\ Increasing(queue') /\ Increasing(fresh') /\ Increasing(buffer')
  BY EmptyFacts DEF Shutdown, Crash, PowerLoss, Down
<1>3. /\ UNCHANGED <<produced, dropped, copies, late, synced>>
      /\ pc' = "top" /\ fresh' = << >>
  BY DEF Shutdown, Crash, PowerLoss, Down, EndIteration, SpillClose, SpillPowerLoss
<1>4. InMemory' = {} /\ Pending' = Range(spill') /\ Received' = Received
  BY <1>2, <1>3 DEF InMemory, Pending, Received
<1>5. \/ /\ spill' = spill /\ lost' = lost \cup InMemory /\ retried' = retried
      \/ /\ spill' = synced
         /\ lost' = lost \cup InMemory \cup (Range(spill) \ Range(synced))
         /\ retried' = retried \cup (Range(synced) \ Range(spill))
  BY DEF Shutdown, Crash, PowerLoss, SpillClose, SpillPowerLoss
<1>6. Increasing(spill') /\ Range(spill') \subseteq Range(spill) \cup Range(synced)
  BY <1>1, <1>5 DEF OrderInv, InOrder
<1>7. InOrder' /\ DropsOldest' /\ Increasing(synced')
  BY <1>1, <1>2, <1>3, <1>4, <1>6 DEF InOrder, Before, DropsOldest, OrderInv
<1>8. Known'
  BY <1>1, <1>3, <1>4, <1>6 DEF OrderInv, Known, Pending
<1>9. OrderInv'
  BY <1>3, <1>7, <1>8 DEF OrderInv, FreshMoved
<1>10. Pending \subseteq Pending' \cup lost' /\ lost \subseteq lost'
       /\ retried \subseteq retried'
  BY <1>4, <1>5 DEF Pending
<1>11. Pending' \cap Received' \subseteq retried'
  BY <1>1, <1>4, <1>5 DEF Provoked, Pending
<1> QED BY <1>1, <1>3, <1>4, <1>9, <1>10, <1>11
        DEF Accounted, Provoked, NoUnprovokedDuplicate

LEMMA InitIInv == Init => IInv
<1> SUFFICES ASSUME Init PROVE IInv
  OBVIOUS
<1>1. TypeOK
  BY InitTypeOK
<1>2. /\ queue = << >> /\ fresh = << >> /\ buffer = << >>
      /\ spill = << >> /\ synced = << >>
      /\ produced = 0 /\ dropped = {} /\ late = {} /\ retried = {}
      /\ copies = [b \in Batch |-> 0]
  BY DEF Init, SpillInit
<1>3. /\ InMemory = {} /\ Range(spill) = {} /\ Range(synced) = {} /\ Pending = {}
      /\ Range(queue) = {} /\ Range(fresh) = {} /\ Range(buffer) = {}
      /\ Increasing(queue) /\ Increasing(fresh) /\ Increasing(buffer)
      /\ Increasing(spill) /\ Increasing(synced)
  BY <1>2, EmptyFacts DEF InMemory, Pending
<1>4. Received = {} /\ NoUnprovokedDuplicate
  BY <1>2 DEF Received, NoUnprovokedDuplicate
<1>5. InOrder /\ DropsOldest
  BY <1>3 DEF InOrder, Before, DropsOldest
<1>6. Known /\ FreshMoved /\ Provoked
  BY <1>2, <1>3, <1>4 DEF Known, FreshMoved, Provoked
<1>7. Accounted
  BY <1>2 DEF Accounted
<1> QED BY <1>1, <1>3, <1>4, <1>5, <1>6, <1>7 DEF IInv, OrderInv

LEMMA NextIInv == IInv /\ [Next]_vars => IInv'
<1> SUFFICES ASSUME IInv, [Next]_vars PROVE IInv'
  OBVIOUS
<1>1. TypeOK /\ OrderInv /\ Accounted /\ Provoked /\ NoUnprovokedDuplicate
  BY DEF IInv
<1>2. TypeOK'
  BY <1>1, NextTypeOK
<1> DEFINE Goal == OrderInv' /\ Accounted' /\ Provoked' /\ NoUnprovokedDuplicate'
<1>3. ASSUME Produce PROVE Goal
  <2>1. OrderInv'
    BY <1>1, <1>3, ProduceOrder
  <2>2. /\ produced \in Nat /\ produced' = produced + 1
        /\ UNCHANGED <<spill, buffer, fresh, dropped, copies, late, retried>>
    BY <1>1, <1>3 DEF Produce, TypeOK, spillVars, netVars
  <2>3. /\ Range(queue) \subseteq Range(queue') \cup lost'
        /\ produced + 1 \in Range(queue')
        /\ Range(queue') \subseteq Range(queue) \cup {produced + 1}
        /\ lost \subseteq lost'
    <3>1. /\ queue \in Seq(Batch) /\ Len(queue) \in Nat
          /\ MaxQueued \in Nat \ {0} /\ produced + 1 \in Batch
      BY <1>1, <1>3, LenProperties, DeliveryAssumption DEF TypeOK, Produce
    <3>2. CASE Len(queue) >= MaxQueued
      <4> DEFINE t == Tail(queue)
                 new == produced + 1
      <4>1. queue # << >>
        BY <3>1, <3>2, EmptySeq
      <4>2. /\ queue' = Append(t, new)
            /\ lost' = lost \cup {Head(queue)}
        BY <1>3, <3>2 DEF Produce
      <4>3. t \in Seq(Batch) /\ Range(queue) = {Head(queue)} \cup Range(t)
        BY <3>1, <4>1, TailFacts
      <4>4. new \in Batch
        BY <3>1
      <4> HIDE DEF t, new
      <4>5. Range(queue') = Range(t) \cup {new}
        BY <4>2, <4>3, <4>4, AppendFacts
      <4> QED BY <4>2, <4>3, <4>5 DEF new
    <3>3. CASE ~(Len(queue) >= MaxQueued)
      <4>1. queue' = Append(queue, produced + 1) /\ lost' = lost
        BY <1>3, <3>3 DEF Produce
      <4> QED BY <3>1, <4>1, AppendFacts
    <3> QED BY <3>2, <3>3
  <2>4. /\ Pending \subseteq Pending' \cup lost' /\ produced + 1 \in Pending'
        /\ Pending' \subseteq Pending \cup {produced + 1}
        /\ Received' = Received
    BY <2>2, <2>3 DEF Pending, InMemory, Received
  <2>5. Accounted'
    <3> SUFFICES ASSUME NEW b \in 1 .. produced + 1
                 PROVE  b \in Pending' \cup Received' \cup dropped' \cup lost'
      BY <2>2 DEF Accounted
    <3>1. CASE b = produced + 1
      BY <2>4, <3>1
    <3>2. CASE b \in 1 .. produced
      BY <1>1, <2>2, <2>3, <2>4, <3>2 DEF Accounted
    <3> QED BY <2>2, <3>1, <3>2
  <2>6. produced + 1 \notin Received
    BY <1>1, <2>2 DEF OrderInv, Known
  <2> QED BY <1>1, <2>1, <2>2, <2>4, <2>5, <2>6 DEF Provoked, NoUnprovokedDuplicate
<1>4. ASSUME Drain PROVE Goal
  <2>1. OrderInv' /\ Range(queue') \cup Range(fresh') = Range(queue) \cup Range(fresh)
    BY <1>1, <1>4, DrainOrder
  <2>2. UNCHANGED <<buffer, spill, produced, dropped, lost, copies, late, retried>>
    BY <1>4 DEF Drain, histVars, netVars, spillVars
  <2>3. Pending' = Pending /\ Received' = Received
    BY <2>1, <2>2 DEF Pending, InMemory, Received
  <2> QED BY <1>1, <2>1, <2>2, <2>3 DEF Accounted, Provoked, NoUnprovokedDuplicate
<1>5. ASSUME Fill PROVE Goal
  <2>1. /\ OrderInv'
        /\ Range(spill) \cup Range(buffer) \cup Range(fresh)
             \subseteq Range(spill') \cup Range(buffer') \cup Range(fresh')
                         \cup dropped' \cup lost'
        /\ Range(spill') \cup Range(buffer') \cup Range(fresh')
             \subseteq Range(spill) \cup Range(buffer) \cup Range(fresh)
        /\ dropped \subseteq dropped' /\ lost \subseteq lost'
    BY <1>1, <1>5, FillFacts
  <2>2. UNCHANGED <<queue, produced, copies, late, retried>>
    BY <1>5 DEF Fill, netVars
  <2>3. /\ Pending \subseteq Pending' \cup dropped' \cup lost'
        /\ Pending' \subseteq Pending /\ Received' = Received
    BY <2>1, <2>2 DEF Pending, InMemory, Received
  <2> QED BY <1>1, <2>1, <2>2, <2>3 DEF Accounted, Provoked, NoUnprovokedDuplicate
<1>6. ASSUME SendOk \/ SendFailed \/ DrainOk \/ DrainDiscard \/ DrainFailed
      PROVE  Goal
  BY <1>6, ExchangeFacts
<1>7. ASSUME NEW b \in Batch, LateIngest(b) PROVE Goal
  <2>1. /\ UNCHANGED <<queue, fresh, buffer, spill, synced, produced, dropped,
                       lost, retried, pc>>
        /\ b \in late /\ late' = late \ {b} /\ Ingest(b)
    BY <1>7 DEF LateIngest, memVars, histVars, spillVars
  <2>2. /\ Received' = Received \cup {b}
        /\ \A c \in Batch : copies'[c] = 2 => copies[c] = 2 \/ (c = b /\ b \in Received)
    BY <1>1, <2>1, IngestFacts
  <2>3. late' \cup Received' \subseteq 1 .. produced /\ FreshMoved'
    BY <1>1, <2>1, <2>2 DEF OrderInv, Known, FreshMoved
  <2>4. OrderInv'
    BY <1>1, <2>1, <2>3, ShrinkOrder DEF OrderInv, InOrder
  <2>5. b \in retried
    BY <1>1, <2>1 DEF Provoked
  <2>6. Pending' = Pending
    BY <2>1 DEF Pending, InMemory
  <2> QED BY <1>1, <2>1, <2>2, <2>4, <2>5, <2>6
          DEF Accounted, Provoked, NoUnprovokedDuplicate
<1>8. ASSUME Shutdown \/ Crash \/ PowerLoss PROVE Goal
  BY <1>8, EndFacts
<1>9. ASSUME Sync PROVE Goal
  <2>1. /\ UNCHANGED <<queue, fresh, buffer, spill, produced, dropped,
                       lost, copies, late, retried, pc>>
        /\ synced' = spill
    BY <1>9 DEF Sync, SpillSync, memVars, histVars, netVars
  <2>2. Received' = Received /\ Pending' = Pending
    BY <2>1 DEF Pending, InMemory, Received
  <2>3. late' \cup Received' \subseteq 1 .. produced /\ FreshMoved'
    BY <1>1, <2>1, <2>2 DEF OrderInv, Known, FreshMoved
  <2>4. OrderInv'
    BY <1>1, <2>1, <2>3, ShrinkOrder DEF OrderInv, InOrder
  <2> QED BY <1>1, <2>1, <2>2, <2>4 DEF Accounted, Provoked, NoUnprovokedDuplicate
<1>10. ASSUME \/ Heartbeat \/ FillDone \/ DecideSend \/ DecideWait
              \/ SendDone \/ DrainDone \/ Restart \/ UNCHANGED vars
       PROVE  Goal
  BY <1>1, <1>10, QuietStep, QuietFacts
<1>11. Goal
  BY <1>3, <1>4, <1>5, <1>6, <1>7, <1>8, <1>9, <1>10 DEF Next, MainLoop
<1> QED BY <1>2, <1>11 DEF IInv

LEMMA Invariance == Spec => []IInv
BY InitIInv, NextIInv, PTL DEF Spec

-----------------------------------------------------------------------------
(* No batch is forgotten by any interleaving of the probe thread, the main *)
(* loop, failing calls, crashes, power losses and restarts, whatever the   *)
(* limits of queue, deque and disk.                                        *)
THEOREM NothingForgotten == Spec => []Accounted
<1>1. IInv => Accounted
  BY DEF IInv
<1> QED BY <1>1, Invariance, PTL

(* Disk, deque, drained batches and queue hold every batch at most once    *)
(* and in production order.                                                *)
THEOREM ProductionOrder == Spec => []InOrder
<1>1. IInv => InOrder
  BY DEF IInv, OrderInv
<1> QED BY <1>1, Invariance, PTL

(* A batch that is dropped is older than everything kept in memory.        *)
THEOREM OldestDropped == Spec => []DropsOldest
<1>1. IInv => DropsOldest
  BY DEF IInv, OrderInv
<1> QED BY <1>1, Invariance, PTL

(* A batch is ingested twice only after a failed send, a failed DELETE or  *)
(* a power loss involved it.                                               *)
THEOREM DuplicatesProvoked == Spec => []NoUnprovokedDuplicate
<1>1. IInv => NoUnprovokedDuplicate
  BY DEF IInv
<1> QED BY <1>1, Invariance, PTL

-----------------------------------------------------------------------------
(* The contract of DeliveryContract. A row that a power loss can bring     *)
(* back has left the memory, so that what comes back was ingested or given *)
(* up before.                                                              *)
SyncedApart == Range(synced) \cap InMemory = {}

Gone == dropped \cup lost

(* The sequences share no batch.                                           *)
LEMMA Disjoint ==
    ASSUME TypeOK, OrderInv
    PROVE  Range(spill) \cap InMemory = {}
<1>1. \A x \in Batch : ~(x < x)
  BY BatchNat
<1>2. Range(spill) \subseteq Batch
  BY RangeTypes
<1> QED BY <1>1, <1>2 DEF OrderInv, InOrder, Before, InMemory

LEMMA InitApart == Init => SyncedApart
BY EmptyFacts DEF Init, SpillInit, SyncedApart

(* Memory only gains the batch just produced, which was never synced.      *)
LEMMA NextApart == IInv /\ SyncedApart /\ [Next]_vars => SyncedApart'
<1> SUFFICES ASSUME IInv, SyncedApart, [Next]_vars PROVE SyncedApart'
  OBVIOUS
<1>1. TypeOK /\ OrderInv
  BY DEF IInv
<1>2. ASSUME synced' = synced, InMemory' \subseteq InMemory PROVE SyncedApart'
  BY <1>2 DEF SyncedApart
<1>3. ASSUME Produce PROVE SyncedApart'
  <2> DEFINE new == produced + 1
  <2>1. /\ UNCHANGED <<fresh, buffer, synced>> /\ new \in Batch
        /\ produced \in Nat
    BY <1>1, <1>3, DeliveryAssumption DEF Produce, TypeOK, spillVars
  <2>2. new \notin Range(synced)
    BY <1>1, <2>1 DEF OrderInv, Known
  <2>3. queue \in Seq(Batch) /\ Len(queue) \in Nat /\ MaxQueued \in Nat \ {0}
    BY <1>1, LenProperties, DeliveryAssumption DEF TypeOK
  <2>4. Range(queue') \subseteq Range(queue) \cup {new}
    <3>1. CASE Len(queue) >= MaxQueued
      <4> DEFINE t == Tail(queue)
      <4>1. queue # << >> /\ queue' = Append(t, new)
        BY <1>3, <2>3, <3>1, EmptySeq DEF Produce
      <4>2. t \in Seq(Batch) /\ Range(queue) = {Head(queue)} \cup Range(t)
        BY <2>3, <4>1, TailFacts
      <4> HIDE DEF t, new
      <4> QED BY <2>1, <4>1, <4>2, AppendFacts
    <3>2. CASE ~(Len(queue) >= MaxQueued)
      <4>1. queue' = Append(queue, new)
        BY <1>3, <3>2 DEF Produce
      <4> HIDE DEF new
      <4> QED BY <2>1, <2>3, <4>1, AppendFacts
    <3> QED BY <3>1, <3>2
  <2> HIDE DEF new
  <2>5. InMemory' \subseteq InMemory \cup {new}
    BY <2>1, <2>4 DEF InMemory
  <2> QED BY <2>1, <2>2, <2>5 DEF SyncedApart
<1>4. ASSUME Drain PROVE SyncedApart'
  <2>1. Range(queue') \cup Range(fresh') = Range(queue) \cup Range(fresh)
    BY <1>1, <1>4, DrainOrder
  <2>2. UNCHANGED <<buffer, synced>>
    BY <1>4 DEF Drain, spillVars
  <2> QED BY <1>2, <2>1, <2>2 DEF InMemory
<1>5. ASSUME Fill PROVE SyncedApart'
  <2>1. UNCHANGED <<synced, queue>> /\ fresh # << >> /\ fresh' = Tail(fresh)
    BY <1>5 DEF Fill, FillKeep, FillSpill, FillDrop, SpillPush, SpillRefuse,
                spillVars
  <2>2. buffer' = Filled \/ buffer' = Tail(Filled)
    BY <1>5 DEF Fill, FillKeep, FillSpill, FillDrop
  <2>3. /\ Range(Filled) = Range(buffer) \cup {Head(fresh)}
        /\ Range(fresh) = {Head(fresh)} \cup Range(Tail(fresh))
        /\ Range(Filled) = {Head(Filled)} \cup Range(Tail(Filled))
    BY <1>1, <2>1, FilledFacts
  <2>4. InMemory' \subseteq InMemory
    BY <2>1, <2>2, <2>3 DEF InMemory
  <2> QED BY <1>2, <2>1, <2>4
<1>6. ASSUME SendOk \/ SendFailed \/ DrainOk \/ DrainDiscard \/ DrainFailed
      PROVE  SyncedApart'
  BY <1>1, <1>2, <1>6, ExchangeEffect DEF InMemory
<1>7. ASSUME NEW b \in Batch, LateIngest(b) PROVE SyncedApart'
  BY <1>2, <1>7 DEF LateIngest, memVars, spillVars, InMemory
<1>8. ASSUME Shutdown \/ Crash \/ PowerLoss PROVE SyncedApart'
  <2>1. synced' = synced /\ InMemory' = {}
    BY <1>8, EmptyFacts DEF Shutdown, Crash, PowerLoss, Down, SpillClose,
                            SpillPowerLoss, InMemory
  <2> QED BY <1>2, <2>1
<1>9. ASSUME Sync PROVE SyncedApart'
  <2>1. synced' = spill /\ InMemory' = InMemory
    BY <1>9 DEF Sync, SpillSync, memVars, InMemory
  <2> QED BY <1>1, <2>1, Disjoint DEF SyncedApart
<1>10. ASSUME \/ Heartbeat \/ FillDone \/ DecideSend \/ DecideWait
              \/ SendDone \/ DrainDone \/ Restart \/ UNCHANGED vars
       PROVE  SyncedApart'
  <2>1. UNCHANGED batchVars
    BY <1>1, <1>10, QuietStep
  <2> QED BY <1>2, <2>1 DEF batchVars, InMemory
<1> QED BY <1>3, <1>4, <1>5, <1>6, <1>7, <1>8, <1>9, <1>10 DEF Next, MainLoop

(* A new batch; a full queue gives up its oldest one.                      *)
LEMMA ProduceContract ==
    ASSUME IInv, Produce PROVE Contract!Produce
<1> DEFINE new == produced + 1
<1>1. TypeOK /\ OrderInv
  BY DEF IInv
<1>2. /\ UNCHANGED <<fresh, buffer, spill, copies, dropped>> /\ new \in Batch
      /\ produced \in Nat /\ produced' = new
  BY <1>1, DeliveryAssumption DEF Produce, TypeOK, spillVars, netVars
<1>3. queue \in Seq(Batch) /\ Len(queue) \in Nat /\ MaxQueued \in Nat \ {0}
      /\ Increasing(queue)
  BY <1>1, LenProperties, DeliveryAssumption DEF TypeOK, OrderInv, InOrder
<1>4. \A x \in Batch : ~(x < x)
  BY BatchNat
<1>5. Pending \subseteq 1 .. produced /\ new \notin Pending
  BY <1>1, <1>2 DEF OrderInv, Known
<1> HIDE DEF new
<1>6. \E L \in SUBSET Pending : /\ Pending' = (Pending \ L) \cup {new}
                                /\ Gone' = Gone \cup L
  <2>1. CASE Len(queue) >= MaxQueued
    <3> DEFINE t == Tail(queue)
               h == Head(queue)
    <3>1. queue # << >> /\ queue' = Append(t, new) /\ lost' = lost \cup {h}
      BY <1>3, <2>1, EmptySeq DEF Produce, new
    <3>2. /\ t \in Seq(Batch) /\ Range(queue) = {h} \cup Range(t) /\ h \in Batch
          /\ \A y \in Range(t) : h < y
      BY <1>3, <3>1, TailFacts
    <3> HIDE DEF t, h
    <3>3. Range(queue') = Range(t) \cup {new}
      BY <1>2, <3>1, <3>2, AppendFacts
    <3>4. h \notin Range(t) /\ h \in Range(queue)
      BY <1>4, <3>2
    <3>5. h \notin Range(fresh) \cup Range(buffer) \cup Range(spill)
      BY <1>1, <1>4, <3>2, <3>4 DEF OrderInv, InOrder, Before
    <3>6. {h} \in SUBSET Pending /\ Gone' = Gone \cup {h}
      BY <1>2, <3>1, <3>4 DEF Pending, InMemory, Gone
    <3>7. Pending' = (Pending \ {h}) \cup {new}
      BY <1>2, <3>2, <3>3, <3>4, <3>5 DEF Pending, InMemory
    <3> QED BY <3>6, <3>7
  <2>2. CASE ~(Len(queue) >= MaxQueued)
    <3>1. queue' = Append(queue, new) /\ lost' = lost
      BY <2>2 DEF Produce, new
    <3>2. Range(queue') = Range(queue) \cup {new}
      BY <1>2, <1>3, <3>1, AppendFacts
    <3>3. Pending' = (Pending \ {}) \cup {new} /\ Gone' = Gone \cup {}
      BY <1>2, <3>1, <3>2 DEF Pending, InMemory, Gone
    <3> QED BY <3>3
  <2> QED BY <2>1, <2>2
<1>7. Received' = Received
  BY <1>2 DEF Received
<1> QED BY <1>2, <1>6, <1>7 DEF Contract!Produce, Gone, new

(* One turn of the fill loop gives up the rows a push trims, and the oldest *)
(* batch of the deque when the push is refused.                            *)
LEMMA FillContract ==
    ASSUME IInv, Fill PROVE Contract!GiveUp
<1> DEFINE g == Head(Filled)
           rest == Tail(Filled)
           t == Tail(fresh)
           f == Filled
<1>1. TypeOK /\ OrderInv
  BY DEF IInv
<1>2. /\ UNCHANGED <<queue, produced, copies>>
      /\ fresh # << >> /\ fresh' = t
  BY DEF Fill, netVars
<1>3. /\ Range(f) = Range(buffer) \cup {Head(fresh)}
      /\ Range(fresh) = {Head(fresh)} \cup Range(t)
      /\ Before(f, t) /\ Before(f, queue) /\ Before(spill, f)
      /\ Before(spill, t)
      /\ g \in Batch
      /\ Range(f) = {g} \cup Range(rest)
      /\ \A x \in Range(rest) : g < x
  BY <1>1, <1>2, FilledFacts
<1>4. PICK k \in 0 .. Len(spill) : FillKeep \/ FillSpill(k) \/ FillDrop(k)
  <2>1. 0 \in 0 .. Len(spill)
    BY <1>1, LenProperties DEF TypeOK, SpillTypeOK
  <2> QED BY <2>1 DEF Fill
<1> DEFINE kept == Behead(spill, k)
<1>5. /\ kept \in Seq(Batch)
      /\ Range(spill) = Trimmed(k) \cup Range(kept)
      /\ \A x \in Trimmed(k), y \in Range(kept) : x < y
  BY <1>1, CutFacts DEF TypeOK, SpillTypeOK, OrderInv, InOrder, Trimmed, Before
<1> DEFINE Spilled == /\ spill' = Append(kept, g) /\ buffer' = rest
                      /\ lost' = lost \cup Trimmed(k) /\ dropped' = dropped
           Dropped == /\ spill' = kept /\ buffer' = rest
                      /\ lost' = lost \cup Trimmed(k)
                      /\ dropped' = dropped \cup {g}
           Kept == /\ spill' = spill /\ buffer' = f
                   /\ UNCHANGED <<dropped, lost>>
<1>6. Kept \/ Spilled \/ Dropped
  BY <1>4 DEF FillKeep, FillSpill, FillDrop, SpillPush, SpillRefuse, spillVars
<1>7. /\ Before(spill, queue) /\ Range(spill) \subseteq Batch
      /\ \A x \in Batch : ~(x < x)
  BY <1>1, RangeTypes, BatchNat DEF OrderInv, InOrder
<1> HIDE DEF kept, g, rest, t, f
<1>8. Pending = Trimmed(k) \cup Range(kept) \cup {g} \cup Range(rest)
                 \cup Range(t) \cup Range(queue)
  BY <1>3, <1>5 DEF Pending, InMemory
<1>9. /\ Trimmed(k) \cap (Range(kept) \cup {g} \cup Range(rest) \cup Range(t)
                           \cup Range(queue)) = {}
      /\ g \notin Range(kept) \cup Range(rest) \cup Range(t) \cup Range(queue)
  BY <1>3, <1>5, <1>7 DEF Before
<1>10. \E L \in SUBSET Pending : Pending' = Pending \ L /\ Gone' = Gone \cup L
  <2>1. CASE Kept
    <3>1. Pending' = Pending \ {} /\ Gone' = Gone \cup {}
      BY <1>2, <1>3, <2>1 DEF Pending, InMemory, Gone
    <3> QED BY <3>1
  <2>2. CASE Spilled
    <3>1. Range(spill') = Range(kept) \cup {g}
      BY <1>3, <1>5, <2>2, AppendFacts
    <3>2. Pending' = Range(kept) \cup {g} \cup Range(rest) \cup Range(t)
                      \cup Range(queue)
      BY <1>2, <2>2, <3>1 DEF Pending, InMemory
    <3>3. Pending' = Pending \ Trimmed(k) /\ Trimmed(k) \in SUBSET Pending
      BY <1>8, <1>9, <3>2
    <3> QED BY <2>2, <3>3 DEF Gone
  <2>3. CASE Dropped
    <3> DEFINE L == Trimmed(k) \cup {g}
    <3>1. Pending' = Range(kept) \cup Range(rest) \cup Range(t) \cup Range(queue)
      BY <1>2, <2>3 DEF Pending, InMemory
    <3>2. Pending' = Pending \ L /\ L \in SUBSET Pending /\ Gone' = Gone \cup L
      BY <1>8, <1>9, <2>3, <3>1 DEF Gone
    <3> QED BY <3>2
  <2> QED BY <1>6, <2>1, <2>2, <2>3
<1>11. Received' = Received
  BY <1>2 DEF Received
<1>12. PICK L \in SUBSET Pending : Pending' = Pending \ L /\ Gone' = Gone \cup L
  BY <1>10
<1>13. {} \in SUBSET (Received \cup Gone) /\ Pending' = (Pending \ L) \cup {}
  BY <1>12
<1> QED BY <1>2, <1>11, <1>12, <1>13 DEF Contract!GiveUp, Gone

(* An exchange with a collector ingests its batch, gives up a corrupt row, *)
(* or changes nothing the contract knows of.                               *)
LEMMA ExchangeContract ==
    ASSUME IInv, SendOk \/ SendFailed \/ DrainOk \/ DrainDiscard \/ DrainFailed
    PROVE  [Contract!Next]_(Contract!contractVars)
<1>1. TypeOK /\ OrderInv
  BY DEF IInv
<1>2. PICK b \in Pending :
             /\ UNCHANGED <<produced, dropped>>
             /\ \/ /\ CallOk(b) /\ lost' = lost
                   /\ Pending = {b} \cup Pending' /\ b \notin Pending'
                \/ /\ CallOk(b) /\ Pending' = Pending /\ lost' = lost
                \/ CallFailed(b) /\ Pending' = Pending /\ lost' = lost
                \/ /\ UNCHANGED <<copies, late, retried>>
                   /\ \/ Pending' = Pending /\ lost' = lost
                      \/ /\ Pending = {b} \cup Pending' /\ b \notin Pending'
                         /\ lost' = lost \cup {b}
  BY <1>1, ExchangeEffect
<1>3. b \in Batch /\ b \in 1 .. produced
  BY <1>1, RangeTypes DEF OrderInv, Known, Pending, InMemory
<1>4. ASSUME Received' = Received \cup {b}, lost' = lost,
             Pending' = Pending \/ (Pending = {b} \cup Pending' /\ b \notin Pending')
      PROVE  Contract!Ingest
  <2>1. Pending' \in {Pending, Pending \ {b}}
    BY <1>4
  <2> QED BY <1>2, <1>3, <1>4, <2>1 DEF Contract!Ingest
<1>5. ASSUME Received' = Received, lost' = lost, Pending' = Pending
      PROVE  UNCHANGED Contract!contractVars
  BY <1>2, <1>5 DEF Contract!contractVars
<1>6. ASSUME Received' = Received, Pending = {b} \cup Pending', b \notin Pending',
             lost' = lost \cup {b}
      PROVE  Contract!GiveUp
  <2>1. /\ {b} \in SUBSET Pending /\ {} \in SUBSET (Received \cup Gone)
        /\ Pending' = (Pending \ {b}) \cup {} /\ Gone' = Gone \cup {b}
    BY <1>2, <1>6 DEF Gone
  <2> QED BY <1>2, <1>6, <2>1 DEF Contract!GiveUp, Gone
<1>7. ASSUME CallOk(b) PROVE Received' = Received \cup {b}
  BY <1>1, <1>3, <1>7, CallFacts
<1>8. ASSUME CallFailed(b)
      PROVE  Received' = Received \/ Received' = Received \cup {b}
  BY <1>1, <1>3, <1>8, CallFacts
<1>9. ASSUME copies' = copies PROVE Received' = Received
  BY <1>9 DEF Received
<1> QED BY <1>2, <1>4, <1>5, <1>6, <1>7, <1>8, <1>9 DEF Contract!Next

(* The end of the process gives up what is only in memory; a power loss    *)
(* also gives up unsynced rows and brings back ingested or given-up ones.  *)
LEMMA EndContract ==
    ASSUME IInv, SyncedApart, Shutdown \/ Crash \/ PowerLoss
    PROVE  Contract!GiveUp
<1>1. TypeOK /\ OrderInv /\ Accounted
  BY DEF IInv
<1>2. UNCHANGED <<produced, dropped, copies>> /\ InMemory' = {}
  BY EmptyFacts DEF Shutdown, Crash, PowerLoss, Down, InMemory
<1>3. Received' = Received /\ Pending' = Range(spill')
  BY <1>2 DEF Received, Pending
<1>4. Range(spill) \cap InMemory = {}
  BY <1>1, Disjoint
<1>5. CASE spill' = spill /\ lost' = lost \cup InMemory
  <2>1. /\ InMemory \in SUBSET Pending /\ {} \in SUBSET (Received \cup Gone)
        /\ Pending' = (Pending \ InMemory) \cup {}
        /\ Gone' = Gone \cup InMemory
    BY <1>2, <1>3, <1>4, <1>5 DEF Pending, Gone
  <2> QED BY <1>2, <1>3, <2>1 DEF Contract!GiveUp, Gone
<1>6. CASE /\ spill' = synced
           /\ lost' = lost \cup InMemory \cup (Range(spill) \ Range(synced))
  <2> DEFINE L == InMemory \cup (Range(spill) \ Range(synced))
             R == Range(synced) \ Range(spill)
  <2>1. L \in SUBSET Pending
    BY DEF Pending
  <2>2. Gone' = Gone \cup L
    BY <1>2, <1>6 DEF Gone
  <2>3. R \in SUBSET (Received \cup Gone)
    BY <1>1 DEF Accounted, OrderInv, Known, SyncedApart, Pending, Gone
  <2>4. Pending' = (Pending \ L) \cup R
    BY <1>3, <1>4, <1>6 DEF Pending, SyncedApart
  <2> HIDE DEF L, R
  <2> QED BY <1>2, <1>3, <2>1, <2>2, <2>3, <2>4 DEF Contract!GiveUp, Gone
<1> QED BY <1>5, <1>6 DEF Shutdown, Crash, PowerLoss, SpillClose, SpillPowerLoss

LEMMA NextContract ==
    IInv /\ SyncedApart /\ [Next]_vars => [Contract!Next]_(Contract!contractVars)
<1> SUFFICES ASSUME IInv, SyncedApart, [Next]_vars
             PROVE  [Contract!Next]_(Contract!contractVars)
  OBVIOUS
<1> DEFINE Goal == [Contract!Next]_(Contract!contractVars)
<1>1. TypeOK /\ OrderInv
  BY DEF IInv
<1>2. ASSUME Pending' = Pending, UNCHANGED <<produced, dropped, lost, copies>>
      PROVE  Goal
  <2>1. Received' = Received
    BY <1>2 DEF Received
  <2> QED BY <1>2, <2>1 DEF Contract!contractVars
<1>3. ASSUME Produce PROVE Goal
  BY <1>3, ProduceContract DEF Contract!Next
<1>4. ASSUME Drain PROVE Goal
  <2>1. Range(queue') \cup Range(fresh') = Range(queue) \cup Range(fresh)
    BY <1>1, <1>4, DrainOrder
  <2>2. UNCHANGED <<buffer, spill, produced, dropped, lost, copies>>
    BY <1>4 DEF Drain, histVars, netVars, spillVars
  <2>3. Pending' = Pending
    BY <2>1, <2>2 DEF Pending, InMemory
  <2> QED BY <1>2, <2>2, <2>3
<1>5. ASSUME Fill PROVE Goal
  BY <1>5, FillContract DEF Contract!Next
<1>6. ASSUME SendOk \/ SendFailed \/ DrainOk \/ DrainDiscard \/ DrainFailed
      PROVE  Goal
  BY <1>6, ExchangeContract
<1>7. ASSUME NEW b \in Batch, LateIngest(b) PROVE Goal
  <2>1. /\ UNCHANGED <<queue, fresh, buffer, spill, produced, dropped, lost>>
        /\ b \in late /\ Ingest(b)
    BY <1>7 DEF LateIngest, memVars, histVars, spillVars
  <2>2. Received' = Received \cup {b} /\ b \in 1 .. produced
    BY <1>1, <2>1, IngestFacts DEF OrderInv, Known
  <2>3. Pending' = Pending
    BY <2>1 DEF Pending, InMemory
  <2> QED BY <2>1, <2>2, <2>3 DEF Contract!Ingest, Contract!Next
<1>8. ASSUME Shutdown \/ Crash \/ PowerLoss PROVE Goal
  BY <1>8, EndContract DEF Contract!Next
<1>9. ASSUME Sync PROVE Goal
  <2>1. UNCHANGED <<queue, fresh, buffer, spill, produced, dropped, lost, copies>>
    BY <1>9 DEF Sync, SpillSync, memVars, histVars, netVars
  <2> QED BY <1>2, <2>1 DEF Pending, InMemory
<1>10. ASSUME \/ Heartbeat \/ FillDone \/ DecideSend \/ DecideWait
              \/ SendDone \/ DrainDone \/ Restart \/ UNCHANGED vars
       PROVE  Goal
  <2>1. UNCHANGED batchVars
    BY <1>1, <1>10, QuietStep
  <2> QED BY <1>2, <2>1 DEF batchVars, histVars, netVars, Pending, InMemory
<1> QED BY <1>3, <1>4, <1>5, <1>6, <1>7, <1>8, <1>9, <1>10 DEF Next, MainLoop

(* The agent implements the delivery contract: a batch stays pending until *)
(* a collector has it or the agent gives it up, and what a power loss      *)
(* brings back had been ingested or given up before.                       *)
THEOREM ImplementsContract == Spec => ContractSpec
<1>1. Init => Contract!Init
  BY EmptyFacts DEF Init, SpillInit, Contract!Init, Pending, InMemory, Received
<1> QED BY <1>1, InitApart, NextApart, NextContract, Invariance, PTL
        DEF Spec, ContractSpec, Contract!Spec
=============================================================================
