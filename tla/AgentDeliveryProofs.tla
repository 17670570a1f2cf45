------------------------ MODULE AgentDeliveryProofs ------------------------
(***************************************************************************)
(* Proofs about AgentDelivery for every number of batches, every queue and *)
(* deque limit, every set of endpoints and every set of failures.          *)
(***************************************************************************)
EXTENDS AgentDelivery, SequenceTheorems, TLAPS

-----------------------------------------------------------------------------
(* Facts about the sequence operations of the model.                       *)

(* Behead(s, n), as in Drain, Trim and Pop, drops the n oldest elements.   *)
LEMMA BeheadFacts ==
    ASSUME NEW S, NEW s \in Seq(S), NEW n \in 0 .. Len(s)
    PROVE  /\ Behead(s, n) \in Seq(S)
           /\ Len(Behead(s, n)) = Len(s) - n
           /\ \A i \in 1 .. Len(s) - n : Behead(s, n)[i] = s[i + n]
<1>1. n + 1 \in 1 .. Len(s) + 1 /\ Len(s) \in n .. Len(s) /\ Len(s) \in Nat
  BY LenProperties
<1>2. \A i \in n + 1 .. Len(s) : s[i] \in S
  BY <1>1, ElementOfSeq
<1> QED BY <1>1, <1>2, SubSeqProperties DEF Behead

(* The first n elements of a sequence.                                     *)
LEMMA OldestFacts ==
    ASSUME NEW S, NEW s \in Seq(S), NEW n \in 0 .. Len(s)
    PROVE  /\ SubSeq(s, 1, n) \in Seq(S)
           /\ Len(SubSeq(s, 1, n)) = n
           /\ \A i \in 1 .. n : SubSeq(s, 1, n)[i] = s[i]
<1>1. Len(s) \in Nat
  BY LenProperties
<1>2. \A i \in 1 .. n : s[i] \in S
  BY <1>1, ElementOfSeq
<1> QED BY <1>1, <1>2, SubSeqProperties

LEMMA BatchNat == Batch \subseteq Nat
BY DeliveryAssumption

(* Range as an index set.                                                  *)
LEMMA RangeFacts ==
    ASSUME NEW S, NEW s \in Seq(S)
    PROVE  /\ \A x : x \in Range(s) <=> \E i \in 1 .. Len(s) : x = s[i]
           /\ Range(s) \subseteq S
BY LenProperties, ElementOfSeq DEF Range

LEMMA EmptyFacts == Range(<< >>) = {} /\ Increasing(<< >>)
BY DEF Range, Increasing

LEMMA TailFacts ==
    ASSUME NEW s \in Seq(Batch), s # << >>
    PROVE  /\ Head(s) \in Batch
           /\ Tail(s) \in Seq(Batch)
           /\ Len(Tail(s)) = Len(s) - 1
           /\ Range(s) = {Head(s)} \cup Range(Tail(s))
           /\ Increasing(s) => /\ Increasing(Tail(s))
                              /\ \A y \in Range(Tail(s)) : Head(s) < y
<1> DEFINE h == Head(s)
           t == Tail(s)
<1>1. /\ h \in Batch /\ t \in Seq(Batch)
      /\ Len(t) = Len(s) - 1
      /\ \A i \in 1 .. Len(t) : t[i] = s[i + 1]
  BY HeadTailProperties
<1>2. Len(s) \in Nat \ {0} /\ h = s[1]
  BY LenProperties, EmptySeq
<1> HIDE DEF h, t
<1>3. \A x : x \in Range(s) <=> \E i \in 1 .. Len(s) : x = s[i]
  BY RangeFacts
<1>4. \A x : x \in Range(t)
              <=> \E i \in 1 .. Len(s) - 1 : x = s[i + 1]
  BY <1>1, <1>2, RangeFacts
<1>5. Range(s) = {h} \cup Range(t)
  <2>1. ASSUME NEW i \in 1 .. Len(s) PROVE s[i] \in {h} \cup Range(t)
    <3>1. CASE i = 1
      BY <1>2, <3>1
    <3>2. CASE i # 1
      <4>1. i - 1 \in 1 .. Len(s) - 1 /\ (i - 1) + 1 = i
        BY <1>2, <3>2
      <4> QED BY <4>1, <1>4
    <3> QED BY <3>1, <3>2
  <2>2. ASSUME NEW i \in 1 .. Len(s) - 1 PROVE s[i + 1] \in Range(s)
    BY <1>2, <1>3
  <2>3. h \in Range(s)
    BY <1>2, <1>3
  <2> QED BY <2>1, <2>2, <2>3, <1>3, <1>4
<1>6. ASSUME Increasing(s)
      PROVE  Increasing(t) /\ \A y \in Range(t) : h < y
  <2>1. Increasing(t)
    <3> SUFFICES ASSUME NEW i \in 1 .. Len(s) - 1, NEW j \in 1 .. Len(s) - 1,
                        i < j
                 PROVE  t[i] < t[j]
      BY <1>1 DEF Increasing
    <3>1. t[i] = s[i + 1] /\ t[j] = s[j + 1]
      BY <1>1
    <3>2. i + 1 \in 1 .. Len(s) /\ j + 1 \in 1 .. Len(s) /\ i + 1 < j + 1
      BY <1>2
    <3> QED BY <1>6, <3>1, <3>2 DEF Increasing
  <2>2. ASSUME NEW y \in Range(t) PROVE h < y
    <3>1. PICK i \in 1 .. Len(s) - 1 : y = s[i + 1]
      BY <1>4
    <3>2. 1 \in 1 .. Len(s) /\ i + 1 \in 1 .. Len(s) /\ 1 < i + 1
      BY <1>2
    <3> QED BY <1>2, <1>6, <3>1, <3>2 DEF Increasing
  <2> QED BY <2>1, <2>2
<1> QED BY <1>1, <1>5, <1>6 DEF h, t

LEMMA AppendFacts ==
    ASSUME NEW s \in Seq(Batch), NEW b \in Batch
    PROVE  /\ Append(s, b) \in Seq(Batch)
           /\ Append(s, b) # << >>
           /\ Len(Append(s, b)) = Len(s) + 1
           /\ Range(Append(s, b)) = Range(s) \cup {b}
           /\ (Increasing(s) /\ \A x \in Range(s) : x < b)
                => Increasing(Append(s, b))
<1> DEFINE t == Append(s, b)
<1>1. /\ t \in Seq(Batch)
      /\ t # << >>
      /\ Len(t) = Len(s) + 1
      /\ \A i \in 1 .. Len(s) : t[i] = s[i]
      /\ t[Len(s) + 1] = b
  BY AppendProperties
<1> HIDE DEF t
<1>2. Len(s) \in Nat
  BY LenProperties
<1>3. \A x : x \in Range(s) <=> \E i \in 1 .. Len(s) : x = s[i]
  BY RangeFacts
<1>4. \A x : x \in Range(t)
              <=> \E i \in 1 .. Len(s) + 1 : x = t[i]
  BY <1>1, RangeFacts
<1>5. Range(t) = Range(s) \cup {b}
  <2>1. ASSUME NEW i \in 1 .. Len(s) + 1
        PROVE  t[i] \in Range(s) \cup {b}
    BY <1>1, <1>2, <1>3
  <2>2. ASSUME NEW i \in 1 .. Len(s) PROVE s[i] \in Range(t)
    BY <1>1, <1>2, <1>4
  <2>3. b \in Range(t)
    BY <1>1, <1>2, <1>4
  <2> QED BY <2>1, <2>2, <2>3, <1>3, <1>4
<1>6. ASSUME Increasing(s), \A x \in Range(s) : x < b
      PROVE  Increasing(t)
  <2> SUFFICES ASSUME NEW i \in 1 .. Len(s) + 1, NEW j \in 1 .. Len(s) + 1, i < j
               PROVE  t[i] < t[j]
    BY <1>1 DEF Increasing
  <2>1. i \in 1 .. Len(s) /\ t[i] = s[i]
    BY <1>1, <1>2
  <2>2. CASE j = Len(s) + 1
    BY <1>1, <1>3, <1>6, <2>1, <2>2
  <2>3. CASE j # Len(s) + 1
    <3>1. j \in 1 .. Len(s) /\ t[j] = s[j]
      BY <1>1, <1>2, <2>3
    <3> QED BY <1>6, <2>1, <3>1 DEF Increasing
  <2> QED BY <2>2, <2>3
<1> QED BY <1>1, <1>5, <1>6 DEF t

(* Cutting a sequence after its n-th element.                              *)
LEMMA CutFacts ==
    ASSUME NEW s \in Seq(Batch), NEW n \in 0 .. Len(s)
    PROVE  /\ Behead(s, n) \in Seq(Batch)
           /\ SubSeq(s, 1, n) \in Seq(Batch)
           /\ Len(Behead(s, n)) = Len(s) - n
           /\ Range(s) = Range(SubSeq(s, 1, n)) \cup Range(Behead(s, n))
           /\ Increasing(s) => /\ Increasing(SubSeq(s, 1, n))
                              /\ Increasing(Behead(s, n))
                              /\ Before(SubSeq(s, 1, n), Behead(s, n))
<1> DEFINE old == SubSeq(s, 1, n)
           new == Behead(s, n)
<1>1. /\ new \in Seq(Batch) /\ Len(new) = Len(s) - n
      /\ \A i \in 1 .. Len(s) - n : new[i] = s[i + n]
  BY BeheadFacts
<1>2. /\ old \in Seq(Batch) /\ Len(old) = n
      /\ \A i \in 1 .. n : old[i] = s[i]
  BY OldestFacts
<1>3. Len(s) \in Nat /\ n \in Nat
  BY LenProperties
<1> HIDE DEF old, new
<1>4. \A x : x \in Range(s) <=> \E i \in 1 .. Len(s) : x = s[i]
  BY RangeFacts
<1>5. \A x : x \in Range(new) <=> \E i \in 1 .. Len(s) - n : x = s[i + n]
  <2>1. \A x : x \in Range(new) <=> \E i \in 1 .. Len(s) - n : x = new[i]
    BY <1>1, RangeFacts
  <2> QED BY <1>1, <2>1
<1>6. \A x : x \in Range(old) <=> \E i \in 1 .. n : x = s[i]
  BY <1>2, RangeFacts
<1>7. Range(s) = Range(old) \cup Range(new)
  <2>1. ASSUME NEW i \in 1 .. Len(s) PROVE s[i] \in Range(old) \cup Range(new)
    <3>1. CASE i <= n
      BY <1>3, <1>6, <3>1
    <3>2. CASE i > n
      <4>1. i - n \in 1 .. Len(s) - n /\ (i - n) + n = i
        BY <1>3, <3>2
      <4> QED BY <4>1, <1>5
    <3> QED BY <1>3, <3>1, <3>2
  <2>2. ASSUME NEW i \in 1 .. n PROVE s[i] \in Range(s)
    BY <1>3, <1>4
  <2>3. ASSUME NEW i \in 1 .. Len(s) - n PROVE s[i + n] \in Range(s)
    BY <1>3, <1>4
  <2> QED BY <2>1, <2>2, <2>3, <1>4, <1>5, <1>6
<1>8. ASSUME Increasing(s)
      PROVE  Increasing(old) /\ Increasing(new) /\ Before(old, new)
  <2>1. Increasing(old)
    BY <1>2, <1>3, <1>8 DEF Increasing
  <2>2. Increasing(new)
    BY <1>1, <1>3, <1>8 DEF Increasing
  <2>3. Before(old, new)
    BY <1>3, <1>5, <1>6, <1>8 DEF Increasing, Before
  <2> QED BY <2>1, <2>2, <2>3
<1> QED BY <1>1, <1>2, <1>7, <1>8 DEF old, new

-----------------------------------------------------------------------------
(* Type correctness.                                                       *)

(* The operations of the spill queue keep its type.                        *)
LEMMA SpillTypes ==
    ASSUME SpillTypeOK
    PROVE  /\ SpillOpen => SpillTypeOK'
           /\ \A b \in Batch, n \in 0 .. Len(spill) : SpillPush(b, n) => SpillTypeOK'
           /\ \A n \in 0 .. Len(spill) : SpillRefuse(n) => SpillTypeOK'
           /\ spill # << >> /\ SpillPop(1) => SpillTypeOK'
           /\ SpillSync => SpillTypeOK'
           /\ SpillClose => SpillTypeOK'
           /\ SpillPowerLoss => SpillTypeOK'
           /\ UNCHANGED spillVars => SpillTypeOK'
<1> USE DEF SpillTypeOK
<1>1. \A n \in 0 .. Len(spill) : Behead(spill, n) \in Seq(Batch)
  BY CutFacts
<1>2. \A b \in Batch, n \in 0 .. Len(spill) :
        Append(Behead(spill, n), b) \in Seq(Batch)
  BY <1>1, AppendFacts
<1>3. ASSUME spill # << >> PROVE 1 \in 0 .. Len(spill)
  BY <1>3, LenProperties, EmptySeq
<1>4. SpillOpen => SpillTypeOK'
  BY DEF SpillOpen
<1>5. ASSUME NEW b \in Batch, NEW n \in 0 .. Len(spill), SpillPush(b, n)
      PROVE  SpillTypeOK'
  BY <1>2, <1>5 DEF SpillPush
<1>6. ASSUME NEW n \in 0 .. Len(spill), SpillRefuse(n) PROVE SpillTypeOK'
  BY <1>1, <1>6 DEF SpillRefuse
<1>7. ASSUME spill # << >>, SpillPop(1) PROVE SpillTypeOK'
  BY <1>1, <1>3, <1>7 DEF SpillPop
<1>8. /\ SpillSync => SpillTypeOK'
      /\ SpillClose => SpillTypeOK'
      /\ SpillPowerLoss => SpillTypeOK'
      /\ UNCHANGED spillVars => SpillTypeOK'
  BY DEF SpillSync, SpillClose, SpillPowerLoss, spillVars
<1> HIDE DEF SpillTypeOK
<1> QED BY <1>4, <1>5, <1>6, <1>7, <1>8

(* The operations of the failover client keep its type.                    *)
LEMMA FailoverTypes ==
    ASSUME FailoverTypeOK
    PROVE  /\ OnSendFailure => FailoverTypeOK'
           /\ OnSendSuccess => FailoverTypeOK'
           /\ UNCHANGED failoverVars => FailoverTypeOK'
<1> USE FailoverAssumption DEF FailoverTypeOK, Endpoint
<1>1. ASSUME OnSendFailure PROVE FailoverTypeOK'
  <2>1. (current + 1) % NumEndpoints \in 0 .. NumEndpoints - 1
    OBVIOUS
  <2> QED BY <1>1, <2>1 DEF OnSendFailure
<1>2. ASSUME OnSendSuccess PROVE FailoverTypeOK'
  BY <1>2 DEF OnSendSuccess
<1>3. UNCHANGED failoverVars => FailoverTypeOK'
  BY DEF failoverVars
<1> QED BY <1>1, <1>2, <1>3

(* What a call to the collector does to copies, late and retried.          *)
LEMMA CallTypes ==
    ASSUME TypeOK, NEW b \in Batch
    PROVE  /\ Ingest(b) => copies' \in [Batch -> 0 .. 2]
           /\ CallOk(b) => copies' \in [Batch -> 0 .. 2] /\ late' \subseteq Batch
           /\ CallFailed(b) => /\ copies' \in [Batch -> 0 .. 2]
                               /\ late' \subseteq Batch /\ retried' \subseteq Batch
BY DEF TypeOK, Ingest, CallOk, CallFailed

(* The rows a push trims.                                                  *)
LEMMA TrimmedBatch ==
    ASSUME SpillTypeOK, NEW k \in 0 .. Len(spill)
    PROVE  Trimmed(k) \subseteq Batch
<1> DEFINE old == SubSeq(spill, 1, k)
<1>1. old \in Seq(Batch)
  BY CutFacts DEF SpillTypeOK
<1> HIDE DEF old
<1>2. Range(old) \subseteq Batch
  BY <1>1, RangeFacts
<1> QED BY <1>2 DEF Trimmed, old

LEMMA InitTypeOK == Init => TypeOK
<1> USE DeliveryAssumption, FailoverAssumption
<1>1. ASSUME Init PROVE SpillTypeOK
  <2>1. spill = << >> /\ synced = << >>
    BY <1>1, Zenon DEF Init, SpillInit
  <2>2. spillUp \in BOOLEAN /\ overfull \in BOOLEAN
    BY <1>1, Zenon DEF Init, SpillInit
  <2>3. << >> \in Seq(Batch)
    BY EmptySeq
  <2> QED BY <2>1, <2>2, <2>3, Zenon DEF SpillTypeOK
<1>2. Init => FailoverTypeOK
  BY DEF Init, FailoverInit, FailoverTypeOK, Endpoint
<1>3. ASSUME Init
      PROVE  /\ queue \in Seq(Batch) /\ Len(queue) <= MaxQueued
             /\ buffer \in Seq(Batch) /\ Len(buffer) <= MaxBuffer
             /\ fresh \in Seq(Batch)
  BY <1>3, EmptySeq DEF Init
<1>4. [b \in Batch |-> 0] \in [Batch -> 0 .. 2]
  OBVIOUS
<1>5. ASSUME Init
      PROVE  agentUp \in BOOLEAN /\ gotFresh \in BOOLEAN /\ pc = "top"
  BY <1>5, Zenon DEF Init
<1>6. ASSUME Init
      PROVE  /\ sent \in Nat /\ limit \in Nat /\ drained \in Nat
             /\ produced \in 0 .. MaxBatches
             /\ dropped \subseteq Batch /\ lost \subseteq Batch
             /\ copies \in [Batch -> 0 .. 2]
             /\ late \subseteq Batch /\ retried \subseteq Batch
             /\ crashes \in 0 .. MaxCrashes
  BY <1>4, <1>6 DEF Init
<1> QED BY <1>1, <1>2, <1>3, <1>5, <1>6 DEF TypeOK

LEMMA NextTypeOK == TypeOK /\ [Next]_vars => TypeOK'
<1> SUFFICES ASSUME TypeOK, [Next]_vars PROVE TypeOK'
  OBVIOUS
<1> USE DeliveryAssumption
<1> USE DEF TypeOK
<1>0. /\ SpillTypeOK /\ FailoverTypeOK
      /\ Len(queue) \in Nat /\ Len(buffer) \in Nat /\ MaxQueued \in Nat
  BY LenProperties
<1>1. CASE Produce
  <2>1. produced + 1 \in Batch /\ produced' \in 0 .. MaxBatches
    BY <1>1 DEF Produce
  <2>2. CASE Len(queue) >= MaxQueued
    <3>1. queue # << >>
      BY <2>2, EmptySeq
    <3>2. /\ Tail(queue) \in Seq(Batch) /\ Len(Tail(queue)) = Len(queue) - 1
          /\ Head(queue) \in Batch
      BY <3>1, TailFacts
    <3> DEFINE t == Tail(queue)
    <3>3. queue' = Append(t, produced + 1)
      BY <1>1, <2>2 DEF Produce
    <3> HIDE DEF t
    <3>4. t \in Seq(Batch) /\ Len(t) = Len(queue) - 1
      BY <3>2 DEF t
    <3>5. queue' \in Seq(Batch) /\ Len(queue') = Len(queue)
      BY <1>0, <2>1, <3>3, <3>4, AppendFacts
    <3> QED BY <1>0, <1>1, <2>1, <2>2, <3>2, <3>5, SpillTypes, FailoverTypes
            DEF Produce, netVars, loopVars
  <2>3. CASE ~(Len(queue) >= MaxQueued)
    <3>1. queue' \in Seq(Batch) /\ Len(queue') = Len(queue) + 1
      BY <1>1, <2>1, <2>3, AppendFacts DEF Produce
    <3>2. Len(queue') <= MaxQueued
      BY <1>0, <2>3, <3>1
    <3> QED BY <1>0, <1>1, <2>1, <2>3, <3>1, <3>2, SpillTypes, FailoverTypes
            DEF Produce, netVars, loopVars
  <2> QED BY <2>2, <2>3
<1>2. CASE Heartbeat
  <2>1. FailoverTypeOK'
    BY <1>0, <1>2, FailoverTypes
    DEF Heartbeat, HeartbeatNotDue, HeartbeatAcked, HeartbeatFailed
  <2> QED BY <1>0, <1>2, <2>1, SpillTypes
          DEF Heartbeat, memVars, loopVars, histVars, netVars
<1>3. CASE Drain
  <2> DEFINE n == IF Len(queue) < DrainLimit THEN Len(queue) ELSE DrainLimit
  <2>1. n \in 0 .. Len(queue)
    BY <1>0
  <2>2. /\ fresh' = SubSeq(queue, 1, n) /\ queue' = Behead(queue, n)
        /\ gotFresh' \in BOOLEAN
    BY <1>3 DEF Drain
  <2> HIDE DEF n
  <2>3. /\ SubSeq(queue, 1, n) \in Seq(Batch) /\ Behead(queue, n) \in Seq(Batch)
        /\ Len(Behead(queue, n)) = Len(queue) - n
    BY <2>1, CutFacts
  <2>4. fresh' \in Seq(Batch) /\ queue' \in Seq(Batch) /\ Len(queue') <= MaxQueued
    BY <1>0, <2>1, <2>2, <2>3
  <2> QED BY <1>0, <1>3, <2>2, <2>4, SpillTypes, FailoverTypes
          DEF Drain, loopVars, histVars, netVars
<1>4. CASE Fill
  <2> DEFINE Goal == /\ SpillTypeOK' /\ dropped' \subseteq Batch
                     /\ lost' \subseteq Batch
                     /\ buffer' \in Seq(Batch) /\ Len(buffer') <= MaxBuffer
  <2>1. /\ Tail(fresh) \in Seq(Batch) /\ Head(fresh) \in Batch
    BY <1>4, TailFacts DEF Fill
  <2>2. Filled \in Seq(Batch) /\ Len(Filled) = Len(buffer) + 1 /\ Filled # << >>
    BY <2>1, AppendFacts DEF Filled
  <2>3. /\ Tail(Filled) \in Seq(Batch) /\ Head(Filled) \in Batch
        /\ Len(Tail(Filled)) = Len(buffer)
    BY <1>0, <2>2, TailFacts
  <2>4. ASSUME FillKeep PROVE Goal
    BY <1>0, <2>2, <2>4, SpillTypes DEF FillKeep
  <2>5. ASSUME NEW k \in 0 .. Len(spill), FillSpill(k) PROVE Goal
    BY <1>0, <2>3, <2>5, TrimmedBatch, SpillTypes DEF FillSpill
  <2>6. ASSUME NEW k \in 0 .. Len(spill), FillDrop(k) PROVE Goal
    BY <1>0, <2>3, <2>6, TrimmedBatch, SpillTypes DEF FillDrop
  <2>7. Goal
    BY <1>4, <2>4, <2>5, <2>6 DEF Fill
  <2> QED BY <1>0, <1>4, <2>1, <2>7, FailoverTypes DEF Fill, loopVars, netVars
<1>5. CASE FillDone
  BY <1>0, <1>5, SpillTypes, FailoverTypes
  DEF FillDone, memVars, loopVars, histVars, netVars
<1>6. CASE DecideSend
  BY <1>0, <1>6, SpillTypes, FailoverTypes
  DEF DecideSend, memVars, histVars, netVars
<1>7. CASE DecideWait
  BY <1>0, <1>7, SpillTypes, FailoverTypes
  DEF DecideWait, EndIteration, histVars, netVars
<1>8. ASSUME buffer # << >>
      PROVE  /\ Head(buffer) \in Batch /\ Tail(buffer) \in Seq(Batch)
             /\ Len(Tail(buffer)) <= MaxBuffer
  BY <1>0, <1>8, TailFacts
<1>9. spill # << >> => Head(spill) \in Batch
  BY <1>0, TailFacts DEF SpillTypeOK
<1>10. CASE SendOk
  BY <1>0, <1>8, <1>10, CallTypes, SpillTypes, FailoverTypes
  DEF SendOk, Sending, CallOk, loopVars, histVars
<1>11. CASE SendFailed
  BY <1>0, <1>8, <1>11, CallTypes, SpillTypes, FailoverTypes
  DEF SendFailed, Sending, EndIteration, histVars
<1>12. CASE SendDone
  BY <1>0, <1>12, SpillTypes, FailoverTypes
  DEF SendDone, EndIteration, histVars, netVars
<1>13. CASE DrainOk
  <2>1. /\ copies' \in [Batch -> 0 .. 2] /\ late' \subseteq Batch
        /\ retried' \subseteq Batch
    BY <1>9, <1>13, CallTypes DEF DrainOk, Draining
  <2>2. SpillTypeOK'
    BY <1>0, <1>13, SpillTypes DEF DrainOk, Draining
  <2> QED BY <1>0, <1>13, <2>1, <2>2, FailoverTypes DEF DrainOk, memVars, histVars
<1>14. CASE DrainDiscard
  <2>1. lost' \subseteq Batch
    BY <1>9, <1>14 DEF DrainDiscard, Draining
  <2>2. SpillTypeOK'
    BY <1>0, <1>14, SpillTypes DEF DrainDiscard, Draining
  <2> QED BY <1>0, <1>14, <2>1, <2>2, FailoverTypes
          DEF DrainDiscard, memVars, netVars
<1>15. CASE DrainFailed
  <2>1. Head(spill) \in Batch
    BY <1>9, <1>15 DEF DrainFailed, Draining
  <2>2. /\ copies' \in [Batch -> 0 .. 2] /\ late' \subseteq Batch
        /\ retried' \subseteq Batch
    BY <1>15, <2>1, CallTypes DEF DrainFailed
  <2>3. SpillTypeOK' /\ FailoverTypeOK'
    BY <1>0, <1>15, SpillTypes, FailoverTypes DEF DrainFailed
  <2> QED BY <1>15, <2>2, <2>3 DEF DrainFailed, memVars, histVars
<1>16. CASE DrainDone
  BY <1>0, <1>16, SpillTypes, FailoverTypes
  DEF DrainDone, memVars, histVars, netVars
<1>17. ASSUME NEW b \in Batch, LateIngest(b) PROVE TypeOK'
  BY <1>0, <1>17, CallTypes, SpillTypes, FailoverTypes
  DEF LateIngest, memVars, loopVars, histVars
<1>18. InMemory \subseteq Batch /\ Range(spill) \subseteq Batch
       /\ Range(synced) \subseteq Batch
  BY <1>0, RangeFacts DEF InMemory, SpillTypeOK
<1>19. ASSUME Down, lost' \subseteq Batch, retried' \subseteq Batch, SpillTypeOK'
       PROVE  TypeOK'
  <2>1. FailoverTypeOK'
    BY <1>19, FailoverAssumption DEF Down, FailoverTypeOK, Endpoint
  <2>2. /\ queue' \in Seq(Batch) /\ Len(queue') <= MaxQueued
        /\ buffer' \in Seq(Batch) /\ Len(buffer') <= MaxBuffer
        /\ fresh' \in Seq(Batch)
    BY <1>0, <1>19, EmptySeq DEF Down
  <2>3. agentUp' \in BOOLEAN /\ gotFresh' \in BOOLEAN /\ pc' = "top"
    BY <1>19, Zenon DEF Down, EndIteration
  <2>4. /\ sent' \in Nat /\ limit' \in Nat /\ drained' \in Nat
        /\ crashes' \in 0 .. MaxCrashes
        /\ UNCHANGED <<produced, dropped, copies, late>>
    BY <1>19 DEF Down, EndIteration
  <2> QED BY <1>19, <2>1, <2>2, <2>3, <2>4
<1>20. CASE Shutdown \/ Crash \/ PowerLoss
  BY <1>0, <1>18, <1>19, <1>20, SpillTypes DEF Shutdown, Crash, PowerLoss
<1>21. CASE Restart
  BY <1>0, <1>21, SpillTypes, FailoverTypes
  DEF Restart, memVars, loopVars, histVars, netVars
<1>22. CASE Sync
  BY <1>0, <1>22, SpillTypes, FailoverTypes
  DEF Sync, memVars, loopVars, histVars, netVars
<1>23. CASE UNCHANGED vars
  BY <1>0, <1>23, SpillTypes, FailoverTypes
  DEF vars, memVars, loopVars, histVars, netVars
<1> QED BY <1>1, <1>2, <1>3, <1>4, <1>5, <1>6, <1>7, <1>10, <1>11, <1>12,
           <1>13, <1>14, <1>15, <1>16, <1>17, <1>20, <1>21, <1>22, <1>23
        DEF Next, MainLoop

(* Type correctness for every value of the constants; with it, the queue   *)
(* of ProbeRunner and the deque of the main loop never exceed their        *)
(* limits.                                                                 *)
THEOREM TypeCorrect == Spec => []TypeOK
BY InitTypeOK, NextTypeOK, PTL DEF Spec
=============================================================================
