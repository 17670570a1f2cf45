---------------------------- MODULE ProbeProofs ----------------------------
(***************************************************************************)
(* Proofs about ProbeCycle and the DnsResolver it shares, for any number   *)
(* of workers, targets, configurations and lookups under way.              *)
(***************************************************************************)
EXTENDS ProbeCycle, FiniteSetTheorems, SequenceTheorems, WellFoundedInduction, TLAPS

(* The calls Lookup can be in, and what their fields are.                  *)
Frame == [pc : {"idle", "register", "wait", "done"},
          key : Key \cup {Nothing}, on : Pending \cup {Nothing},
          answer : Answer \cup {"none"}]

(* A probe or a metric, and what the state holds of them.                  *)
CheckName == {"dns", "record", "tcp", "retransmit", "tls", "cert", "http", "icmp", "handshake"}
MetricName == CheckName \cup {"loss", "rtt", "jitter", "ntp"}
CheckOf == CheckName \X Target
Metric == MetricName \X (Target \cup {"kernel"})

CycleTypes ==
    /\ store \in Config /\ cfg \in Config /\ booted \in BOOLEAN
    /\ capture \in BOOLEAN
    /\ lpc \in {"off", "top", "left", "submit", "check", "toBlock", "blocked",
                "collect", "serial", "probing", "push"}
    /\ next \in Nat /\ remaining \in Int /\ cycles \in Nat
    /\ tasks \in Seq(Nat)
    /\ wpc \in [Worker -> {"idle", "run", "notify", "ended"}]
    /\ task \in [Worker -> Nat]
    /\ job \in [Caller -> Seq(CheckOf)]
    /\ slots \in Seq(Seq(CheckOf))
    /\ out \in Seq(Metric)

(* Where threads have work to do.                                          *)
JobInv ==
    /\ ~booted => lpc = "off"
    /\ lpc # "probing" => job[Loop] = << >>
    /\ \A w \in Worker : wpc[w] # "run" => job[w] = << >>

(* The barrier of RunCycle: what was submitted, and FrameAlive.            *)
BarrierInv ==
    /\ FrameAlive
    /\ InBarrier => next \in 0 .. Len(slots) /\ (lpc = "submit" <=> next < Len(slots))
    /\ InBarrier \/ lpc = "collect" => Len(slots) = Len(Tasks(cfg))

(* A task is queued once, or runs in one worker.                           *)
ShareInv ==
    /\ \A i \in 1 .. Len(tasks) : tasks[i] \in 1 .. next
    /\ \A i, j \in 1 .. Len(tasks) : i < j => tasks[i] < tasks[j]
    /\ \A w \in Running :
         /\ task[w] \in 1 .. next
         /\ \A i \in 1 .. Len(tasks) : tasks[i] # task[w]
         /\ \A v \in Running : task[w] = task[v] => w = v

Queued(i) == i > next \/ \E n \in 1 .. Len(tasks) : tasks[n] = i
Taken(i) == \E w \in Running : task[w] = i

(* The slot of a task holds what has been done of it.                      *)
SlotInv ==
    /\ InBarrier =>
         \A i \in 1 .. Len(slots) :
           /\ Queued(i) => slots[i] = << >>
           /\ \A w \in Running : task[w] = i => slots[i] \o job[w] = Tasks(cfg)[i]
           /\ ~Queued(i) /\ ~Taken(i) => slots[i] = Tasks(cfg)[i]
    /\ lpc = "collect" => slots = Tasks(cfg)

(* The metrics of the cycle so far.                                        *)
Gathered == NtpOf(cfg) \o FlattenSeq(Tasks(cfg))

OutInv ==
    /\ InBarrier \/ lpc = "collect" => out = NtpOf(cfg)
    /\ lpc = "serial" => out = Gathered
    /\ lpc = "probing" =>
         LET s == Serial(cfg, capture) IN
         \E k \in 0 .. Len(s) : /\ job[Loop] = SubSeq(s, k + 1, Len(s))
                                /\ out = Gathered \o MetricsOf(SubSeq(s, 1, k))
    /\ lpc = "push" => out = Expected(cfg, capture)

CycleInv == CycleTypes /\ JobInv /\ BarrierInv /\ ShareInv /\ SlotInv /\ OutInv

-----------------------------------------------------------------------------
(* The empty resolver satisfies the invariant (DnsResolver::Impl).         *)
LEMMA ResolverStarts == DnsInit => ResolverInv
BY ResolverAssumption
   DEF DnsInit, ResolverInv, DnsTypeOK, CallFormed, InflightServed, FreePending,
       NoLookup, Answer

(* A caller with its answer, or without a call, refers to nothing.         *)
LEMMA FrameFacts ==
    /\ NoLookup \in Frame /\ NoLookup.pc = "idle" /\ NoLookup.on = Nothing
    /\ \A a \in Answer \cup {"none"} :
         Done(a) \in Frame /\ Done(a).pc = "done" /\ Done(a).on = Nothing
BY DEF Frame, Done, NoLookup, Answer

(* A step of one caller: its new frame waits for a lookup of its key that  *)
(* is being resolved, or for none; the table stays as it is.               *)
LEMMA CallerMoves ==
    ASSUME ResolverInv, NEW c \in Caller, NEW f \in Frame,
           lookup' = [lookup EXCEPT ![c] = f], UNCHANGED <<cache, inflight, pend>>,
           f.pc \in {"register", "wait"} => f.key \in Key,
           f.on # Nothing <=> f.pc = "wait",
           f.pc = "wait" => pend[f.on].pc = "resolve" /\ pend[f.on].key = f.key
    PROVE  ResolverInv'
<1>1. DnsTypeOK'
  BY DEF ResolverInv, DnsTypeOK, Frame
<1>2. \A d \in Caller : lookup'[d] = IF d = c THEN f ELSE lookup[d]
  BY DEF ResolverInv, DnsTypeOK
<1>3. CallFormed'
  BY <1>2 DEF ResolverInv, CallFormed
<1>4. InflightServed'
  BY <1>2 DEF ResolverInv, InflightServed
<1> QED BY <1>1, <1>3, <1>4 DEF ResolverInv

(* A caller that takes its answer or stops waiting (Lookup).               *)
LEMMA CallerLeaves ==
    ASSUME ResolverInv, NEW c \in Caller, LookupTimeout(c) \/ LookupReturn(c)
    PROVE  ResolverInv'
<1>1. CASE LookupTimeout(c)
  BY <1>1, CallerMoves, FrameFacts DEF LookupTimeout, Answer
<1>2. CASE LookupReturn(c)
  BY <1>2, CallerMoves, FrameFacts DEF LookupReturn
<1> QED BY <1>1, <1>2

(* A caller joins a lookup only while its result is to come (Lookup, first *)
(* critical section).                                                      *)
LEMMA CallerJoins ==
    ASSUME ResolverInv, NEW c \in Caller, NEW k \in Key, NEW bypass \in BOOLEAN,
           LookupCall(c, k, bypass)
    PROVE  ResolverInv'
<1> DEFINE p == inflight[k]
           Asks == [NoLookup EXCEPT !.pc = "register", !.key = k]
           Joins == [NoLookup EXCEPT !.pc = "wait", !.key = k, !.on = p]
<1>1. p \in Pending \cup {Nothing}
  BY DEF ResolverInv, DnsTypeOK
<1>2. UNCHANGED <<cache, inflight, pend>>
  BY DEF LookupCall
<1>3. \/ lookup' = [lookup EXCEPT ![c] = Done("addrs")]
      \/ lookup' = [lookup EXCEPT ![c] = Asks]
      \/ p # Nothing /\ lookup' = [lookup EXCEPT ![c] = Done(pend[p].answer)]
      \/ /\ p # Nothing /\ pend[p].answer = "none"
         /\ lookup' = [lookup EXCEPT ![c] = Joins]
  BY DEF LookupCall
<1>4. CASE lookup' = [lookup EXCEPT ![c] = Done("addrs")]
  BY <1>2, <1>4, CallerMoves, FrameFacts DEF Answer
<1>5. CASE lookup' = [lookup EXCEPT ![c] = Asks]
  <2>1. Asks \in Frame /\ Asks.pc = "register" /\ Asks.on = Nothing /\ Asks.key = k
    BY DEF Frame, NoLookup, Answer
  <2> HIDE DEF Asks
  <2> QED BY <2>1, <1>2, <1>5, CallerMoves
<1>6. CASE p # Nothing /\ lookup' = [lookup EXCEPT ![c] = Done(pend[p].answer)]
  <2>1. pend[p].answer \in Answer \cup {"none"}
    BY <1>1, <1>6 DEF ResolverInv, DnsTypeOK
  <2> QED BY <2>1, <1>2, <1>6, CallerMoves, FrameFacts
<1>7. CASE /\ p # Nothing /\ pend[p].answer = "none"
           /\ lookup' = [lookup EXCEPT ![c] = Joins]
  <2>1. p \in Pending /\ pend[p].pc = "resolve" /\ pend[p].key = k
    BY <1>1, <1>7 DEF ResolverInv, DnsTypeOK, CallFormed, InflightServed
  <2>2. Joins \in Frame /\ Joins.pc = "wait" /\ Joins.on = p /\ Joins.key = k
    BY <2>1 DEF Frame, NoLookup, Answer
  <2> HIDE DEF Joins
  <2> QED BY <2>1, <2>2, <1>2, <1>7, CallerMoves, ResolverAssumption
<1> QED BY <1>3, <1>4, <1>5, <1>6, <1>7

(* A new lookup takes the place of whoever is in the table (Lookup, second *)
(* critical section): the other one is still waited for by its own callers *)
(* and loses nothing but new ones.                                         *)
LEMMA CallerRegisters ==
    ASSUME ResolverInv, NEW c \in Caller, LookupRegister(c)
    PROVE  ResolverInv'
<1> DEFINE l == lookup[c]
           k == l.key
           new == [pc |-> "resolve", key |-> k, answer |-> "none"]
           f == [l EXCEPT !.pc = "wait", !.on = CHOOSE q \in Pending : Unused(q)]
<1>1. PICK p \in Pending : /\ p = CHOOSE q \in Pending : Unused(q)
                           /\ pend[p].pc = "free"
  BY DEF LookupRegister, Unused
<1>2. l \in Frame /\ l.pc = "register" /\ k \in Key
  BY DEF ResolverInv, DnsTypeOK, CallFormed, LookupRegister, Frame
<1>3. f \in Frame /\ f.pc = "wait" /\ f.on = p /\ f.key = k
  BY <1>1, <1>2 DEF Frame
<1>4. /\ pend' = [pend EXCEPT ![p] = new]
      /\ inflight' = [inflight EXCEPT ![k] = p]
      /\ lookup' = [lookup EXCEPT ![c] = f]
      /\ cache' = cache
  BY <1>1 DEF LookupRegister
<1>5. DnsTypeOK'
  BY <1>2, <1>3, <1>4 DEF ResolverInv, DnsTypeOK, Frame, Answer
<1>free. pend[p].pc = "free"
  BY <1>1
<1>new. new.pc = "resolve" /\ new.key = k
  OBVIOUS
<1> HIDE DEF f, k, new
<1>6. /\ \A d \in Caller : lookup'[d] = IF d = c THEN f ELSE lookup[d]
      /\ \A q \in Pending : pend'[q] = IF q = p THEN new ELSE pend[q]
      /\ \A j \in Key : inflight'[j] = IF j = k THEN p ELSE inflight[j]
  BY <1>2, <1>4 DEF ResolverInv, DnsTypeOK
<1>7. CallFormed'
  BY <1>2, <1>3, <1>6, <1>new, ResolverAssumption DEF ResolverInv, CallFormed
<1>8. InflightServed'
  <2>1. \A j \in Key : inflight'[j] # Nothing =>
            pend'[inflight'[j]].pc # "free" /\ pend'[inflight'[j]].key = j
    <3> TAKE j \in Key
    <3>1. inflight[j] # Nothing => inflight[j] \in Pending /\ inflight[j] # p
      <4>1. inflight[j] \in Pending \cup {Nothing}
        BY DEF ResolverInv, DnsTypeOK
      <4> QED BY <4>1, <1>free DEF ResolverInv, InflightServed
    <3>2. CASE j = k
      BY <3>2, <1>6, <1>new
    <3>3. CASE j # k
      BY <3>1, <3>3, <1>6 DEF ResolverInv, InflightServed
    <3> QED BY <3>2, <3>3
  <2>2. \A d \in Caller : lookup'[d].pc = "wait" =>
            /\ pend'[lookup'[d].on].pc = "resolve"
            /\ pend'[lookup'[d].on].key = lookup'[d].key
    <3> TAKE d \in Caller
    <3>1. CASE d = c
      BY <3>1, <1>3, <1>6, <1>new
    <3>2. CASE d # c
      <4>1. lookup[d].pc = "wait" => lookup[d].on \in Pending /\ lookup[d].on # p
        BY <1>1 DEF ResolverInv, DnsTypeOK, CallFormed, InflightServed
      <4> QED BY <4>1, <3>2, <1>6 DEF ResolverInv, InflightServed
    <3> QED BY <3>1, <3>2
  <2> QED BY <2>1, <2>2 DEF InflightServed
<1> QED BY <1>5, <1>7, <1>8 DEF ResolverInv

(* getaddrinfo returns: everyone who waits for this lookup is answered     *)
(* (the detached thread).                                                  *)
LEMMA ThreadResolves ==
    ASSUME ResolverInv, NEW p \in Pending, Resolve(p)
    PROVE  ResolverInv'
<1>1. PICK a \in Answer :
        /\ pend' = [pend EXCEPT ![p] = [@ EXCEPT !.pc = "finish", !.answer = a]]
        /\ lookup' = [c \in Caller |-> IF lookup[c].on = p THEN Done(a) ELSE lookup[c]]
  BY DEF Resolve
<1>2. UNCHANGED <<cache, inflight>> /\ pend[p].pc = "resolve"
  BY DEF Resolve
<1>3. /\ \A q \in Pending : q # p => pend'[q] = pend[q]
      /\ pend'[p].pc = "finish" /\ pend'[p].answer = a /\ pend'[p].key = pend[p].key
  BY <1>1 DEF ResolverInv, DnsTypeOK
<1>4. Done(a) \in Frame /\ Done(a).pc = "done" /\ Done(a).on = Nothing
  BY FrameFacts
<1>5. DnsTypeOK'
  <2>1. pend' \in [Pending -> [pc : {"free", "resolve", "finish"},
                              key : Key \cup {Nothing}, answer : Answer \cup {"none"}]]
    BY <1>1 DEF ResolverInv, DnsTypeOK
  <2>2. lookup' \in [Caller -> Frame]
    BY <1>1, <1>4 DEF ResolverInv, DnsTypeOK, Frame
  <2> QED BY <1>2, <2>1, <2>2 DEF ResolverInv, DnsTypeOK, Frame
<1>6. CallFormed'
  <2>1. \A c \in Caller : lookup'[c] = IF lookup[c].on = p THEN Done(a) ELSE lookup[c]
    BY <1>1
  <2>2. \A q \in Pending : /\ pend'[q].pc # "free" => pend'[q].key \in Key
                           /\ pend'[q].pc = "finish" => pend'[q].answer # "none"
    BY <1>2, <1>3 DEF ResolverInv, CallFormed, Answer
  <2> QED BY <2>1, <2>2, <1>4 DEF ResolverInv, CallFormed
<1>7. InflightServed'
  BY <1>1, <1>2, <1>3, <1>4 DEF ResolverInv, DnsTypeOK, CallFormed, InflightServed
<1> QED BY <1>5, <1>6, <1>7 DEF ResolverInv

(* A lookup that ends leaves the table if it is still there; nobody waits  *)
(* for it any more (the detached thread, last critical section).           *)
LEMMA ThreadFinishes ==
    ASSUME ResolverInv, NEW p \in Pending, Finish(p)
    PROVE  ResolverInv'
<1> DEFINE k == pend[p].key
<1>1. pend[p].pc = "finish" /\ k \in Key
  BY DEF Finish, ResolverInv, CallFormed
<1>2. /\ pend' = [pend EXCEPT ![p] = FreePending]
      /\ inflight' = IF inflight[k] = p THEN [inflight EXCEPT ![k] = Nothing] ELSE inflight
      /\ cache' = CacheAfter(p)
      /\ lookup' = lookup
  BY DEF Finish
<1>3. DnsTypeOK'
  BY <1>1, <1>2 DEF ResolverInv, DnsTypeOK, CacheAfter, FreePending
<1>4. /\ \A q \in Pending : pend'[q] = IF q = p THEN FreePending ELSE pend[q]
      /\ \A j \in Key : inflight'[j] = IF j = k /\ inflight[k] = p THEN Nothing ELSE inflight[j]
  BY <1>1, <1>2 DEF ResolverInv, DnsTypeOK
<1>5. CallFormed'
  BY <1>2, <1>4 DEF ResolverInv, CallFormed, FreePending
<1>6. \A j \in Key : inflight'[j] # Nothing => inflight'[j] = inflight[j] /\ inflight[j] # p
  BY <1>1, <1>4 DEF ResolverInv, InflightServed
<1>7. \A c \in Caller : lookup[c].pc = "wait" => lookup[c].on \in Pending /\ lookup[c].on # p
  BY <1>1 DEF ResolverInv, DnsTypeOK, CallFormed, InflightServed
<1>8. InflightServed'
  BY <1>2, <1>4, <1>6, <1>7 DEF ResolverInv, DnsTypeOK, InflightServed
<1> QED BY <1>3, <1>5, <1>8 DEF ResolverInv

(* Every step of the resolver keeps the invariant.                         *)
LEMMA ResolverKeeps == ResolverInv /\ [DnsNext]_dnsVars => ResolverInv'
<1> SUFFICES ASSUME ResolverInv, [DnsNext]_dnsVars
             PROVE  ResolverInv'
  OBVIOUS
<1>1. ASSUME NEW k \in Key, Expire(k)
      PROVE  ResolverInv'
  BY <1>1 DEF Expire, ResolverInv, DnsTypeOK, CallFormed, InflightServed
<1>2. ASSUME NEW c \in Caller, NEW k \in Key, NEW bypass \in BOOLEAN,
             LookupCall(c, k, bypass)
      PROVE  ResolverInv'
  BY <1>2, CallerJoins
<1>3. ASSUME NEW c \in Caller, LookupStep(c) \/ LookupReturn(c)
      PROVE  ResolverInv'
  BY <1>3, CallerRegisters, CallerLeaves DEF LookupStep
<1>4. ASSUME NEW p \in Pending, ResolverStep(p)
      PROVE  ResolverInv'
  BY <1>4, ThreadResolves, ThreadFinishes DEF ResolverStep
<1>5. CASE UNCHANGED dnsVars
  BY <1>5 DEF dnsVars, ResolverInv, DnsTypeOK, CallFormed, InflightServed
<1> QED BY <1>1, <1>2, <1>3, <1>4, <1>5 DEF DnsNext

(* dns_resolver.cpp Lookup: however callers overwrite each other in the    *)
(* table between its two critical sections, and whatever getaddrinfo       *)
(* returns, an entry belongs to a lookup under way and a caller waits for  *)
(* one that will answer it.                                                *)
THEOREM LookupsServed == DnsSpec => []InflightServed
<1>1. ResolverInv => InflightServed
  BY DEF ResolverInv
<1> QED BY ResolverStarts, ResolverKeeps, <1>1, PTL DEF DnsSpec

-----------------------------------------------------------------------------
(* The resolver in the probe cycle: whatever the threads do, it takes      *)
(* steps of DnsNext or none.                                               *)

LEMMA ProbeFacts ==
    ASSUME CycleTypes, NEW t \in Caller, Probing(t)
    PROVE  /\ job[t] \in Seq(CheckOf) /\ Probe(t) \in CheckOf
           /\ Probe(t)[2] \in Target
           /\ Tail(job[t]) \in Seq(CheckOf)
<1>1. job[t] \in Seq(CheckOf) /\ job[t] # << >>
  BY DEF CycleTypes, Probing
<1>2. Head(job[t]) \in CheckOf /\ Tail(job[t]) \in Seq(CheckOf)
  BY <1>1, HeadTailProperties
<1>3. \A x \in CheckOf : x[2] \in Target
  BY DEF CheckOf
<1> QED BY <1>1, <1>2, <1>3 DEF Probe

LEMMA CycleIsDns == CycleTypes /\ [Next]_vars => [DnsNext]_dnsVars
<1> SUFFICES ASSUME CycleTypes, [Next]_vars PROVE [DnsNext]_dnsVars
  OBVIOUS
<1>1. ASSUME NEW t \in Caller, StartLookup(t) PROVE DnsNext
  <2>1. /\ Probing(t) /\ At(t) \in LookupStage
        /\ LookupCall(t, <<Probe(t)[2], At(t)>>, At(t) = "name")
    BY <1>1 DEF StartLookup
  <2>2. Probe(t)[2] \in Target
    BY <2>1, ProbeFacts
  <2>3. <<Probe(t)[2], At(t)>> \in Key
    BY <2>1, <2>2, CycleAssumption
  <2>4. (At(t) = "name") \in BOOLEAN
    OBVIOUS
  <2> QED BY <2>1, <2>3, <2>4, Zenon DEF DnsNext
<1>2. ASSUME NEW t \in Caller, UseLookup(t) PROVE DnsNext
  BY <1>2, Zenon DEF UseLookup, DnsNext
<1>3. ASSUME NEW t \in Caller, ProbeStep(t) \/ Shake(t) PROVE [DnsNext]_dnsVars
  <2>1. CASE LookupStep(t)
    BY <2>1, Zenon DEF DnsNext
  <2>2. CASE Network(t) \/ Shake(t)
    BY <2>2, Zenon DEF Network, Shake
  <2> QED BY <1>1, <1>2, <1>3, <2>1, <2>2, Zenon DEF ProbeStep
<1>4. ASSUME NEW k \in Key, Expire(k) PROVE DnsNext
  BY <1>4, Zenon DEF DnsNext
<1>5. ASSUME NEW p \in Pending, ResolverStep(p) PROVE DnsNext
  BY <1>5, Zenon DEF DnsNext
<1>6. ASSUME \/ Boot \/ LoopStep \/ SpuriousWakeup \/ StopRunner
             \/ \E c \in Requests : Reconfigure(c)
             \/ \E w \in Worker : WorkerStep(w)
             \/ ReceiveReply \/ ForeignPacket \/ NoSocket
             \/ Resting \/ UNCHANGED vars
      PROVE  UNCHANGED dnsVars
  <2>1. ASSUME LoopStep PROVE UNCHANGED dnsVars
    BY <2>1, Zenon DEF LoopStep, BeginCycle, Submit, Check, Block, Collect, BeginSerial,
                EndSerial, Push, LeaveLoop, SendPing, PingIdle, LosePing
  <2>2. ASSUME NEW w \in Worker, WorkerStep(w) PROVE UNCHANGED dnsVars
    BY <2>2, Zenon DEF WorkerStep, TakeTask, TaskDone, NotifyCycle, StopWorker
  <2>3. ASSUME \/ Boot \/ SpuriousWakeup \/ StopRunner
               \/ ReceiveReply \/ ForeignPacket \/ NoSocket
        PROVE UNCHANGED dnsVars
    BY <2>3, Zenon DEF Boot, SpuriousWakeup, StopRunner, ReceiveReply, ForeignPacket, NoSocket
  <2>5. ASSUME NEW c \in Requests, Reconfigure(c) PROVE UNCHANGED dnsVars
    BY <2>5, Zenon DEF Reconfigure
  <2>6. ASSUME Resting \/ UNCHANGED vars PROVE UNCHANGED dnsVars
    BY <2>6 DEF Resting, vars
  <2> QED BY <1>6, <2>1, <2>2, <2>3, <2>5, <2>6
<1> QED BY <1>3, <1>4, <1>5, <1>6, Zenon DEF Next

-----------------------------------------------------------------------------
(* FlattenSeq, for sequences of any length.                                *)

LEMMA LeastExists ==
    ASSUME NEW T, T \subseteq Nat, T # {} PROVE \E x \in T : \A y \in T : x <= y
<1> DEFINE R == OpToRel(<, Nat)
<1>1. IsWellFoundedOn(R, Nat)
  BY NatLessThanWellFounded
<1>2. \A x, y \in Nat : x < y => <<x, y>> \in R
  BY DEF OpToRel
<1> HIDE DEF R
<1>3. PICK x \in T : \A y \in T : ~(<<y, x>> \in R)
  BY <1>1, WFMin
<1>4. \A y \in T : ~(y < x)
  BY <1>2, <1>3
<1> QED BY <1>4

(* f holds the concatenations of the first i sequences of s.               *)
Joins(f, s) == f = [i \in 1 .. Len(s) |-> IF i = 1 THEN s[i] ELSE f[i - 1] \o s[i]]

JoinOf(s) == CHOOSE f : Joins(f, s)

LEMMA FlattenIsJoin == \A s : FlattenSeq(s) = IF Len(s) = 0 THEN s ELSE JoinOf(s)[Len(s)]
BY DEF FlattenSeq, JoinOf, Joins

(* Such an f exists: a shortest s without one would have one, that of s    *)
(* without its last element with one more concatenation.                   *)
LEMMA JoinsExist ==
    ASSUME NEW S, NEW t \in Seq(Seq(S))
    PROVE  \E f : f \in [1 .. Len(t) -> Seq(S)] /\ Joins(f, t)
<1> DEFINE Has(s) == \E f : f \in [1 .. Len(s) -> Seq(S)] /\ Joins(f, s)
           Without == {n \in Nat : \E s \in Seq(Seq(S)) : Len(s) = n /\ ~Has(s)}
<1> SUFFICES ASSUME ~Has(t) PROVE FALSE
  OBVIOUS
<1>1. Len(t) \in Without
  BY LenProperties
<1>2. PICK n \in Without : \A m \in Without : n <= m
  <2> HIDE DEF Without
  <2>1. Without \subseteq Nat
    BY DEF Without
  <2> QED BY <1>1, <2>1, LeastExists
<1>3. PICK s \in Seq(Seq(S)) : Len(s) = n /\ ~Has(s)
  OBVIOUS
<1>4. n \in Nat
  OBVIOUS
<1>5. n # 0
  <2> SUFFICES ASSUME n = 0 PROVE FALSE
    OBVIOUS
  <2> DEFINE f == [i \in 1 .. 0 |-> << >>]
  <2>1. f \in [1 .. Len(s) -> Seq(S)] /\ Joins(f, s)
    BY <1>3 DEF Joins
  <2> QED BY <1>3, <2>1
<1> DEFINE u == SubSeq(s, 1, n - 1)
<1>6. /\ u \in Seq(Seq(S)) /\ Len(u) = n - 1
      /\ \A i \in 1 .. n - 1 : u[i] = s[i]
  <2>1. \A i \in 1 .. n - 1 : s[i] \in Seq(S)
    BY <1>3, <1>4, ElementOfSeq
  <2> QED BY <1>3, <1>4, <1>5, <2>1, SubSeqProperties
<1> HIDE DEF u
<1>7. Has(u)
  <2>1. n - 1 \in Nat /\ ~(n <= n - 1)
    BY <1>4, <1>5
  <2> QED BY <1>2, <1>6, <2>1
<1>8. PICK g : g \in [1 .. n - 1 -> Seq(S)] /\ Joins(g, u)
  BY <1>6, <1>7
<1>9. s[n] \in Seq(S)
  BY <1>3, <1>4, <1>5, ElementOfSeq
<1>10. \A i \in 1 .. n - 1 : g[i] = IF i = 1 THEN u[i] ELSE g[i - 1] \o u[i]
  BY <1>6, <1>8 DEF Joins
<1> DEFINE last == IF n = 1 THEN s[n] ELSE g[n - 1] \o s[n]
           f == [i \in 1 .. n |-> IF i = n THEN last ELSE g[i]]
<1>l. last \in Seq(S)
  <2>1. CASE n = 1
    BY <1>9, <2>1
  <2>2. CASE n # 1
    <3>1. g[n - 1] \in Seq(S)
      BY <1>4, <1>5, <1>8, <2>2
    <3>2. g[n - 1] \o s[n] \in Seq(S)
      BY <3>1, <1>9, ConcatProperties
    <3> QED BY <2>2, <3>2
  <2> QED BY <2>1, <2>2
<1>ld. last = IF n = 1 THEN s[n] ELSE g[n - 1] \o s[n]
  OBVIOUS
<1> HIDE DEF last
<1>11. f \in [1 .. n -> Seq(S)]
  BY <1>4, <1>5, <1>8, <1>l
<1>12. ASSUME NEW i \in 1 .. n
       PROVE  f[i] = IF i = 1 THEN s[i] ELSE f[i - 1] \o s[i]
  <2>1. CASE i = n /\ i = 1
    BY <1>ld, <2>1
  <2>2. CASE i = n /\ i # 1
    <3>1. n - 1 \in 1 .. n /\ n - 1 # n /\ n \in 1 .. n
      BY <1>4, <1>5, <2>2
    <3>2. f[n] = last /\ f[n - 1] = g[n - 1]
      BY <3>1
    <3> QED BY <1>ld, <2>2, <3>2
  <2>3. CASE i # n /\ i # 1
    <3>1. i \in 1 .. n - 1 /\ i - 1 \in 1 .. n /\ i - 1 # n
      BY <1>4, <2>3
    <3>2. f[i] = g[i] /\ f[i - 1] = g[i - 1] /\ u[i] = s[i]
      BY <1>6, <2>3, <3>1
    <3> QED BY <1>10, <2>3, <3>1, <3>2
  <2>4. CASE i # n /\ i = 1
    <3>1. i \in 1 .. n - 1
      BY <1>4, <2>4
    <3> QED BY <1>6, <1>10, <2>4, <3>1
  <2> QED BY <2>1, <2>2, <2>3, <2>4
<1>13. Joins(f, s)
  BY <1>3, <1>11, <1>12 DEF Joins
<1> QED BY <1>3, <1>11, <1>13

LEMMA JoinFacts ==
    ASSUME NEW S, NEW s \in Seq(Seq(S))
    PROVE  \A i \in 1 .. Len(s) :
             /\ JoinOf(s)[i] \in Seq(S)
             /\ JoinOf(s)[i] = IF i = 1 THEN s[i] ELSE JoinOf(s)[i - 1] \o s[i]
<1> DEFINE f == JoinOf(s)
           Bad == {i \in 1 .. Len(s) : f[i] \notin Seq(S)}
<1>1. Joins(f, s)
  BY JoinsExist DEF JoinOf
<1>2. Len(s) \in Nat
  BY LenProperties
<1> HIDE DEF f
<1>3. \A i \in 1 .. Len(s) : f[i] = IF i = 1 THEN s[i] ELSE f[i - 1] \o s[i]
  BY <1>1 DEF Joins
<1>4. Bad = {}
  <2> SUFFICES ASSUME Bad # {} PROVE FALSE
    OBVIOUS
  <2>1. PICK i \in Bad : \A j \in Bad : i <= j
    <3>1. Bad \subseteq Nat
      BY <1>2
    <3> HIDE DEF Bad
    <3> QED BY <3>1, LeastExists
  <2>2. i \in 1 .. Len(s) /\ s[i] \in Seq(S)
    BY ElementOfSeq
  <2>3. i # 1
    BY <1>3, <2>2
  <2>4. i - 1 \in 1 .. Len(s) /\ ~(i <= i - 1)
    BY <1>2, <2>2, <2>3
  <2>5. f[i - 1] \in Seq(S)
    BY <2>1, <2>4
  <2>6. f[i - 1] \o s[i] \in Seq(S)
    BY <2>2, <2>5, ConcatProperties
  <2> QED BY <1>3, <2>2, <2>3, <2>6
<1> QED BY <1>3, <1>4 DEF f

(* What FlattenSeq returns for sequences over one set.                     *)
LEMMA FlattenType ==
    ASSUME NEW S, NEW s \in Seq(Seq(S))
    PROVE  /\ FlattenSeq(s) \in Seq(S)
           /\ s = << >> => FlattenSeq(s) = << >>
<1>1. Len(s) \in Nat
  BY LenProperties
<1>2. CASE Len(s) = 0
  <2>1. s = << >> /\ FlattenSeq(s) = s
    BY <1>2, EmptySeq, FlattenIsJoin
  <2> QED BY <2>1, EmptySeq
<1>3. CASE Len(s) # 0
  <2>1. Len(s) \in 1 .. Len(s)
    BY <1>1, <1>3
  <2>2. JoinOf(s)[Len(s)] \in Seq(S)
    BY <2>1, JoinFacts
  <2>3. s # << >>
    BY <1>3, EmptySeq
  <2> QED BY <1>3, <2>2, <2>3, FlattenIsJoin
<1> QED BY <1>2, <1>3

(* One sequence more at the end is appended.                               *)
LEMMA FlattenStep ==
    ASSUME NEW S, NEW u \in Seq(Seq(S)), NEW s \in Seq(Seq(S)),
           Len(s) = Len(u) + 1, \A i \in 1 .. Len(u) : u[i] = s[i]
    PROVE  FlattenSeq(s) = FlattenSeq(u) \o s[Len(s)]
<1> DEFINE f == JoinOf(s)
           g == JoinOf(u)
           Bad == {i \in 1 .. Len(u) : f[i] # g[i]}
<1>1. Len(u) \in Nat /\ Len(s) \in Nat /\ Len(s) # 0
  BY LenProperties
<1>2. \A i \in 1 .. Len(s) : f[i] = IF i = 1 THEN s[i] ELSE f[i - 1] \o s[i]
  BY JoinFacts
<1>3. \A i \in 1 .. Len(u) : g[i] = IF i = 1 THEN u[i] ELSE g[i - 1] \o u[i]
  BY JoinFacts
<1>f. FlattenSeq(s) = f[Len(s)]
  BY <1>1, FlattenIsJoin
<1>g. Len(u) # 0 => FlattenSeq(u) = g[Len(u)]
  BY FlattenIsJoin
<1> HIDE DEF f, g
<1>4. Bad = {}
  <2> SUFFICES ASSUME Bad # {} PROVE FALSE
    OBVIOUS
  <2>1. PICK i \in Bad : \A j \in Bad : i <= j
    <3>1. Bad \subseteq Nat
      BY <1>1
    <3> HIDE DEF Bad
    <3> QED BY <3>1, LeastExists
  <2>2. i \in 1 .. Len(u) /\ i \in 1 .. Len(s) /\ u[i] = s[i] /\ f[i] # g[i]
    BY <1>1
  <2>3. i # 1
    BY <1>2, <1>3, <2>2
  <2>4. i - 1 \in 1 .. Len(u) /\ ~(i <= i - 1)
    BY <1>1, <2>2, <2>3
  <2>5. f[i - 1] = g[i - 1]
    BY <2>1, <2>4
  <2>6. f[i] = f[i - 1] \o s[i]
    BY <1>2, <2>2, <2>3
  <2>7. g[i] = g[i - 1] \o u[i]
    BY <1>3, <2>2, <2>3
  <2> QED BY <2>2, <2>5, <2>6, <2>7, Zenon
<1>5. s[Len(s)] \in Seq(S)
  BY <1>1, ElementOfSeq
<1>6. CASE Len(u) = 0
  <2>1. FlattenSeq(u) = << >>
    BY <1>6, EmptySeq, FlattenType
  <2>2. f[Len(s)] = s[Len(s)]
    BY <1>1, <1>2, <1>6
  <2> QED BY <1>5, <1>f, <2>1, <2>2, ConcatEmptySeq
<1>7. CASE Len(u) # 0
  <2>1. Len(s) - 1 = Len(u) /\ Len(u) \in 1 .. Len(u) /\ Len(s) # 1 /\ Len(s) \in 1 .. Len(s)
    BY <1>1, <1>7
  <2>2. f[Len(s)] = f[Len(u)] \o s[Len(s)]
    BY <1>2, <2>1
  <2>3. f[Len(u)] = g[Len(u)]
    BY <1>4, <2>1
  <2> QED BY <1>7, <1>f, <1>g, <2>2, <2>3
<1> QED BY <1>6, <1>7

-----------------------------------------------------------------------------
(* What a configuration asks for is made of checks of its targets.         *)

LEMMA MetricsType ==
    ASSUME NEW p \in CheckOf PROVE Metrics(p) \in Seq(Metric)
<1>1. p[2] \in Target /\ p \in Metric
  BY DEF CheckOf, Metric, MetricName
<1>2. /\ <<"loss", p[2]>> \in Metric /\ <<"rtt", p[2]>> \in Metric
      /\ <<"jitter", p[2]>> \in Metric
  BY <1>1 DEF Metric, MetricName
<1>3. \A x, y, z \in Metric : <<x>> \in Seq(Metric) /\ <<x, y, z>> \in Seq(Metric)
  OBVIOUS
<1> QED BY <1>1, <1>2, <1>3 DEF Metrics

LEMMA MetricsListed ==
    ASSUME NEW s \in Seq(CheckOf)
    PROVE  LET m == [i \in DOMAIN s |-> Metrics(s[i])] IN
           /\ m \in Seq(Seq(Metric)) /\ Len(m) = Len(s)
           /\ \A i \in 1 .. Len(s) : m[i] = Metrics(s[i])
<1>1. Len(s) \in Nat /\ DOMAIN s = 1 .. Len(s)
  BY LenProperties
<1>2. \A i \in 1 .. Len(s) : Metrics(s[i]) \in Seq(Metric)
  BY ElementOfSeq, MetricsType
<1> DEFINE m == [i \in 1 .. Len(s) |-> Metrics(s[i])]
<1>3. m \in [1 .. Len(s) -> Seq(Metric)]
  BY <1>2
<1>4. m \in Seq(Seq(Metric)) /\ Len(m) = Len(s)
  BY <1>1, <1>3
<1> QED BY <1>1, <1>4

LEMMA MetricsOfType ==
    ASSUME NEW s \in Seq(CheckOf)
    PROVE  /\ MetricsOf(s) \in Seq(Metric)
           /\ s = << >> => MetricsOf(s) = << >>
<1> DEFINE m == [i \in DOMAIN s |-> Metrics(s[i])]
<1>1. m \in Seq(Seq(Metric)) /\ Len(m) = Len(s)
  BY MetricsListed
<1>2. MetricsOf(s) = FlattenSeq(m)
  BY DEF MetricsOf
<1> HIDE DEF m
<1>3. s = << >> => m = << >>
  BY <1>1, EmptySeq
<1> QED BY <1>1, <1>2, <1>3, FlattenType

(* One more probe adds its metrics at the end.                             *)
LEMMA MetricsStep ==
    ASSUME NEW u \in Seq(CheckOf), NEW p \in CheckOf
    PROVE  MetricsOf(Append(u, p)) = MetricsOf(u) \o Metrics(p)
<1> DEFINE s == Append(u, p)
           m == [i \in DOMAIN u |-> Metrics(u[i])]
           n == [i \in DOMAIN s |-> Metrics(s[i])]
<1>1. /\ s \in Seq(CheckOf) /\ Len(s) = Len(u) + 1 /\ s[Len(u) + 1] = p
      /\ \A i \in 1 .. Len(u) : s[i] = u[i]
  BY AppendProperties
<1>2. Len(u) \in Nat
  BY LenProperties
<1> HIDE DEF s
<1>3. /\ m \in Seq(Seq(Metric)) /\ Len(m) = Len(u)
      /\ \A i \in 1 .. Len(u) : m[i] = Metrics(u[i])
  BY MetricsListed
<1>4. /\ n \in Seq(Seq(Metric)) /\ Len(n) = Len(s)
      /\ \A i \in 1 .. Len(s) : n[i] = Metrics(s[i])
  BY <1>1, MetricsListed
<1>5. MetricsOf(u) = FlattenSeq(m) /\ MetricsOf(s) = FlattenSeq(n)
  BY DEF MetricsOf
<1> HIDE DEF m, n
<1>6. Len(n) = Len(m) + 1 /\ n[Len(n)] = Metrics(p)
  BY <1>1, <1>2, <1>3, <1>4
<1>7. \A i \in 1 .. Len(m) : m[i] = n[i]
  BY <1>1, <1>2, <1>3, <1>4
<1> QED BY <1>3, <1>4, <1>5, <1>6, <1>7, FlattenStep DEF s

LEMMA EachType ==
    ASSUME NEW check \in CheckName, NEW targets \in Seq(Target)
    PROVE  Each(check, targets) \in Seq(CheckOf)
<1>1. Len(targets) \in Nat /\ DOMAIN targets = 1 .. Len(targets)
  BY LenProperties
<1>2. \A i \in 1 .. Len(targets) : <<check, targets[i]>> \in CheckOf
  BY ElementOfSeq DEF CheckOf
<1>3. Each(check, targets) \in [1 .. Len(targets) -> CheckOf]
  BY <1>1, <1>2 DEF Each
<1>4. [1 .. Len(targets) -> CheckOf] \subseteq Seq(CheckOf)
  BY <1>1, SeqDef
<1> QED BY <1>3, <1>4

LEMMA BothType ==
    ASSUME NEW first \in CheckName, NEW second, NEW on \in BOOLEAN,
           on => second \in CheckName, NEW targets \in Seq(Target)
    PROVE  Both(first, second, on, targets) \in Seq(Seq(CheckOf))
<1>1. Len(targets) \in Nat /\ DOMAIN targets = 1 .. Len(targets)
  BY LenProperties
<1> DEFINE e(i) == IF on THEN << <<first, targets[i]>>, <<second, targets[i]>> >>
                         ELSE << <<first, targets[i]>> >>
<1>2. \A x, y \in CheckOf : <<x, y>> \in Seq(CheckOf) /\ <<x>> \in Seq(CheckOf)
  OBVIOUS
<1>3. ASSUME NEW i \in 1 .. Len(targets)
      PROVE  e(i) \in Seq(CheckOf)
  <2>1. targets[i] \in Target
    BY ElementOfSeq
  <2>2. /\ <<first, targets[i]>> \in CheckOf
        /\ on => <<second, targets[i]>> \in CheckOf
    BY <2>1 DEF CheckOf
  <2> QED BY <1>2, <2>2
<1>4. Both(first, second, on, targets) = [i \in 1 .. Len(targets) |-> e(i)]
  BY <1>1 DEF Both
<1> HIDE DEF e
<1>5. [i \in 1 .. Len(targets) |-> e(i)] \in [1 .. Len(targets) -> Seq(CheckOf)]
  BY <1>3
<1> QED BY <1>1, <1>4, <1>5

LEMMA ConfigType ==
    ASSUME NEW c \in Config, NEW hs \in BOOLEAN
    PROVE  /\ Tasks(c) \in Seq(Seq(CheckOf))
           /\ Serial(c, hs) \in Seq(CheckOf)
           /\ NtpOf(c) \in Seq(Metric)
           /\ FlattenSeq(Tasks(c)) \in Seq(Metric)
<1>1. /\ c.dns \in Seq(Target) /\ c.tcp \in Seq(Target) /\ c.tls \in Seq(Target)
      /\ c.http \in Seq(Target) /\ c.pings \in Seq(Target)
      /\ c.retransmit \in BOOLEAN /\ c.cert \in BOOLEAN
  BY DEF Config
<1>2. Tasks(c) \in Seq(Seq(CheckOf))
  <2>1. Both("dns", "record", TRUE, c.dns) \in Seq(Seq(CheckOf))
    BY <1>1, BothType DEF CheckName
  <2>2. Both("tcp", "retransmit", c.retransmit, c.tcp) \in Seq(Seq(CheckOf))
    BY <1>1, BothType DEF CheckName
  <2>3. Both("tls", "cert", c.cert, c.tls) \in Seq(Seq(CheckOf))
    BY <1>1, BothType DEF CheckName
  <2>4. Both("http", "", FALSE, c.http) \in Seq(Seq(CheckOf))
    BY <1>1, BothType DEF CheckName
  <2> QED BY <2>1, <2>2, <2>3, <2>4, ConcatProperties DEF Tasks
<1>3. Serial(c, hs) \in Seq(CheckOf)
  <2>1. Each("icmp", c.pings) \in Seq(CheckOf) /\ Each("handshake", c.tcp) \in Seq(CheckOf)
    BY <1>1, EachType DEF CheckName
  <2>2. << >> \in Seq(CheckOf)
    BY EmptySeq
  <2>3. (IF hs /\ c.handshake THEN Each("handshake", c.tcp) ELSE << >>) \in Seq(CheckOf)
    BY <2>1, <2>2
  <2> QED BY <2>1, <2>3, ConcatProperties DEF Serial
<1>4. NtpOf(c) \in Seq(Metric)
  <2>1. <<"ntp", "kernel">> \in Metric
    BY DEF Metric, MetricName
  <2>2. \A x \in Metric : <<x>> \in Seq(Metric)
    OBVIOUS
  <2> QED BY <2>1, <2>2, EmptySeq DEF NtpOf
<1>5. FlattenSeq(Tasks(c)) \in Seq(Metric)
  <2>1. FlattenSeq(Tasks(c)) \in Seq(CheckOf)
    BY <1>2, FlattenType
  <2>2. CheckOf \subseteq Metric
    BY DEF CheckOf, Metric, MetricName
  <2> QED BY <2>1, <2>2, SeqMonotonic
<1> QED BY <1>2, <1>3, <1>4, <1>5

-----------------------------------------------------------------------------
(* The probe cycle starts with nothing to do (ProbeRunner before Start).   *)

LEMMA CycleStarts == Init => CycleInv
<1> SUFFICES ASSUME Init PROVE CycleInv
  OBVIOUS
<1>1. DefaultConfig \in Config
  <2>1. << >> \in Seq(Target)
    BY EmptySeq
  <2> QED BY <2>1 DEF DefaultConfig, Config
<1>2. CycleTypes
  <2>1. << >> \in Seq(Nat) /\ << >> \in Seq(CheckOf) /\ << >> \in Seq(Seq(CheckOf))
        /\ << >> \in Seq(Metric)
    BY EmptySeq
  <2>2. store \in Config /\ cfg \in Config
    BY <1>1 DEF Init
  <2>3. booted \in BOOLEAN /\ capture \in BOOLEAN /\ tasks \in Seq(Nat)
        /\ slots \in Seq(Seq(CheckOf)) /\ out \in Seq(Metric)
    BY <2>1, Zenon DEF Init
  <2>4. job \in [Caller -> Seq(CheckOf)]
    BY <2>1 DEF Init
  <2>5. wpc \in [Worker -> {"idle", "run", "notify", "ended"}] /\ task \in [Worker -> Nat]
    BY DEF Init
  <2>6. next \in Nat /\ remaining \in Int /\ cycles \in Nat /\ lpc = "off"
    BY DEF Init
  <2> QED BY <2>2, <2>3, <2>4, <2>5, <2>6 DEF CycleTypes
<1>3. lpc = "off" /\ tasks = << >> /\ Len(tasks) = 0 /\ Running = {} /\ ~InBarrier
  BY DEF Init, Running, InBarrier
<1>4. JobInv
  BY CycleAssumption DEF Init, JobInv
<1>5. BarrierInv /\ ShareInv /\ SlotInv /\ OutInv
  BY <1>3 DEF BarrierInv, FrameAlive, ShareInv, SlotInv, OutInv
<1> QED BY <1>2, <1>4, <1>5 DEF CycleInv

(* Outside the barrier no task is queued and no worker runs one.           *)
LEMMA PoolIdle ==
    ASSUME CycleInv, ~InBarrier PROVE tasks = << >> /\ Len(tasks) = 0 /\ Running = {}
BY DEF CycleInv, BarrierInv, FrameAlive

(* Steps of the probe thread that begin and end outside the barrier.       *)
LEMMA QuietKeeps ==
    ASSUME CycleInv, ~InBarrier, ~InBarrier', tasks' = tasks, wpc' = wpc,
           CycleTypes', JobInv', OutInv',
           lpc' = "collect" => lpc = "collect" /\ slots' = slots /\ cfg' = cfg
    PROVE  CycleInv'
<1>1. tasks' = << >> /\ Len(tasks') = 0 /\ Running' = {}
  BY PoolIdle DEF Running
<1>2. BarrierInv'
  BY <1>1 DEF CycleInv, BarrierInv, FrameAlive
<1>3. ShareInv'
  BY <1>1 DEF ShareInv
<1>4. SlotInv'
  BY DEF CycleInv, SlotInv
<1> QED BY <1>2, <1>3, <1>4 DEF CycleInv

(* Steps that change neither the tasks, their slots nor who runs them, and *)
(* leave the probe thread where it is or in its wait.                      *)
LEMMA PoolKeeps ==
    ASSUME CycleInv, CycleTypes', JobInv', Running' = Running,
           UNCHANGED <<cfg, capture, next, slots, remaining, out, tasks, job>>,
           \A w \in Running : task'[w] = task[w],
           \/ lpc' = lpc
           \/ {lpc, lpc'} \subseteq {"check", "toBlock", "blocked"}
    PROVE  CycleInv'
<1>1. InBarrier' = InBarrier /\ (lpc' = "submit" <=> lpc = "submit")
  BY DEF InBarrier
<1>2. ~InBarrier => lpc' = lpc
  BY DEF InBarrier
<1>3. BarrierInv'
  BY <1>1, <1>2 DEF CycleInv, BarrierInv, FrameAlive, InBarrier
<1>4. ShareInv'
  BY DEF CycleInv, ShareInv
<1>5. \A i : (Queued(i) <=> Queued(i)') /\ (Taken(i) <=> Taken(i)')
  BY DEF Queued, Taken
<1>6. SlotInv'
  <2>1. SlotInv
    BY DEF CycleInv
  <2>2. PICK c \in Config : c = cfg /\ c = cfg'
    BY DEF CycleInv, CycleTypes
  <2>3. lpc' = "collect" => slots' = Tasks(cfg')
    BY <1>2, <2>1, <2>2 DEF SlotInv, InBarrier
  <2>4. ASSUME InBarrier, NEW i \in 1 .. Len(slots)
        PROVE  /\ Queued(i)' => slots[i] = << >>
               /\ \A w \in Running : task'[w] = i => slots[i] \o job[w] = Tasks(c)[i]
               /\ ~Queued(i)' /\ ~Taken(i)' => slots[i] = Tasks(c)[i]
    BY <1>5, <2>1, <2>2, <2>4 DEF SlotInv
  <2>5. ASSUME InBarrier', NEW i \in 1 .. Len(slots')
        PROVE  (/\ Queued(i) => slots[i] = << >>
                /\ \A w \in Running : task[w] = i => slots[i] \o job[w] = Tasks(cfg)[i]
                /\ ~Queued(i) /\ ~Taken(i) => slots[i] = Tasks(cfg)[i])'
    BY <1>1, <2>2, <2>4, <2>5
  <2> QED BY <2>3, <2>5 DEF SlotInv
<1>7. OutInv'
  BY <1>1, <1>2 DEF CycleInv, OutInv, InBarrier, Gathered
<1> QED BY <1>3, <1>4, <1>6, <1>7 DEF CycleInv

-----------------------------------------------------------------------------
(* The probe thread outside the barrier.                                   *)

(* main starts the runner.                                                 *)
LEMMA BootKeeps == ASSUME CycleInv, Boot PROVE CycleInv'
<1>1. lpc = "off" /\ lpc' = "top" /\ booted' = TRUE /\ store' \in Config
  BY CycleAssumption DEF Boot, CycleInv, JobInv
<1>2. UNCHANGED <<cfg, capture, next, slots, remaining, out, tasks, wpc, task, job, cycles>>
  BY DEF Boot, poolVars
<1>3. CycleTypes'
  BY <1>1, <1>2 DEF CycleInv, CycleTypes
<1>4. JobInv'
  BY <1>1, <1>2 DEF CycleInv, JobInv
<1>5. OutInv'
  BY <1>1 DEF OutInv, InBarrier
<1> QED BY <1>1, <1>2, <1>3, <1>4, <1>5, QuietKeeps DEF InBarrier

(* The slots are complete, so is the result without the serial probes.     *)
LEMMA CollectKeeps == ASSUME CycleInv, Collect PROVE CycleInv'
<1>1. /\ lpc = "collect" /\ lpc' = "serial" /\ out' = out \o FlattenSeq(slots)
      /\ slots' = << >> /\ next' = 0
      /\ UNCHANGED <<store, booted, cfg, capture, remaining, tasks, wpc, task, job, cycles>>
  BY DEF Collect, poolVars, confVars
<1>2. PICK c \in Config : c = cfg /\ c = cfg'
  BY <1>1 DEF CycleInv, CycleTypes
<1>3. out' = NtpOf(c) \o FlattenSeq(Tasks(c))
  BY <1>1, <1>2 DEF CycleInv, OutInv, SlotInv
<1>4. out' \in Seq(Metric)
  BY <1>3, ConfigType, ConcatProperties
<1>5. CycleTypes'
  BY <1>1, <1>4, EmptySeq DEF CycleInv, CycleTypes
<1>6. JobInv'
  BY <1>1 DEF CycleInv, JobInv
<1>7. OutInv'
  BY <1>1, <1>2, <1>3 DEF OutInv, InBarrier, Gathered
<1> QED BY <1>1, <1>5, <1>6, <1>7, QuietKeeps DEF InBarrier

LEMMA BeginSerialKeeps == ASSUME CycleInv, BeginSerial PROVE CycleInv'
<1>1. /\ lpc = "serial" /\ lpc' = "probing"
      /\ job' = [job EXCEPT ![Loop] = Serial(cfg, capture)]
      /\ UNCHANGED <<store, booted, cfg, capture, next, slots, remaining, out, tasks, wpc,
                     task, cycles>>
  BY DEF BeginSerial, poolVars, confVars
<1>2. PICK c \in Config : c = cfg /\ c = cfg'
  BY <1>1 DEF CycleInv, CycleTypes
<1>3. PICK hs \in BOOLEAN : hs = capture /\ hs = capture'
  BY <1>1 DEF CycleInv, CycleTypes
<1>4. PICK s \in Seq(CheckOf) : s = Serial(c, hs)
  BY ConfigType
<1>5. Loop \in Caller /\ \A w \in Worker : w # Loop /\ w \in Caller
  BY CycleAssumption
<1>6. /\ job' = [job EXCEPT ![Loop] = s] /\ job'[Loop] = s
      /\ \A w \in Worker : job'[w] = job[w]
  BY <1>1, <1>2, <1>3, <1>4, <1>5 DEF CycleInv, CycleTypes
<1>7. CycleTypes'
  BY <1>1, <1>6 DEF CycleInv, CycleTypes
<1>8. JobInv'
  BY <1>1, <1>6 DEF CycleInv, JobInv
<1>9. out' = NtpOf(c) \o FlattenSeq(Tasks(c)) /\ out' \in Seq(Metric)
  BY <1>1, <1>2 DEF CycleInv, CycleTypes, OutInv, Gathered
<1>10. /\ SubSeq(s, 0 + 1, Len(s)) = s /\ SubSeq(s, 1, 0) = << >>
       /\ MetricsOf(<< >>) = << >> /\ 0 \in 0 .. Len(s)
  <2>1. SubSeq(s, 1, Len(s)) = s /\ SubSeq(s, 1, 0) = << >> /\ Len(s) \in Nat
    BY SubSeqFull, SubSeqEmpty, LenProperties
  <2>2. << >> \in Seq(CheckOf)
    BY EmptySeq
  <2>3. MetricsOf(<< >>) = << >>
    BY <2>2, MetricsOfType
  <2>4. 0 + 1 = 1 /\ 0 \in 0 .. Len(s)
    BY <2>1
  <2> QED BY <2>1, <2>3, <2>4
<1>11. out' = out' \o MetricsOf(SubSeq(s, 1, 0))
  BY <1>9, <1>10, ConcatEmptySeq
<1>12. \E k \in 0 .. Len(s) :
         /\ job'[Loop] = SubSeq(s, k + 1, Len(s))
         /\ out' = (NtpOf(c) \o FlattenSeq(Tasks(c))) \o MetricsOf(SubSeq(s, 1, k))
  BY <1>6, <1>9, <1>10, <1>11
<1>13. OutInv'
  BY <1>1, <1>2, <1>3, <1>4, <1>12 DEF OutInv, InBarrier, Gathered
<1> QED BY <1>1, <1>7, <1>8, <1>13, QuietKeeps DEF InBarrier

LEMMA EndSerialKeeps == ASSUME CycleInv, EndSerial PROVE CycleInv'
<1>1. /\ lpc = "probing" /\ lpc' = "push" /\ job[Loop] = << >>
      /\ UNCHANGED <<store, booted, cfg, capture, next, slots, remaining, out, tasks, wpc,
                     task, job, cycles>>
  BY DEF EndSerial, poolVars, confVars
<1>2. PICK c \in Config : c = cfg /\ c = cfg'
  BY <1>1 DEF CycleInv, CycleTypes
<1>3. PICK hs \in BOOLEAN : hs = capture /\ hs = capture'
  BY <1>1 DEF CycleInv, CycleTypes
<1>4. PICK s \in Seq(CheckOf) : s = Serial(c, hs)
  BY ConfigType
<1>5. PICK k \in 0 .. Len(s) :
         /\ job[Loop] = SubSeq(s, k + 1, Len(s))
         /\ out = (NtpOf(c) \o FlattenSeq(Tasks(c))) \o MetricsOf(SubSeq(s, 1, k))
  BY <1>1, <1>2, <1>3, <1>4 DEF CycleInv, OutInv, Gathered
<1>6. Len(s) \in Nat /\ \A i \in 1 .. Len(s) : s[i] \in CheckOf
  BY LenProperties, ElementOfSeq
<1>7. k = Len(s)
  <2> SUFFICES ASSUME k < Len(s) PROVE FALSE
    BY <1>6
  <2>1. \A i \in k + 1 .. Len(s) : s[i] \in CheckOf
    BY <1>6
  <2>2. Len(SubSeq(s, k + 1, Len(s))) = Len(s) - (k + 1) + 1
    BY <1>6, <2>1, SubSeqProperties
  <2> QED BY <1>1, <1>5, <1>6, <2>2, EmptySeq
<1>8. out = (NtpOf(c) \o FlattenSeq(Tasks(c))) \o MetricsOf(s)
  BY <1>5, <1>7, SubSeqFull
<1>9. CycleTypes'
  BY <1>1 DEF CycleInv, CycleTypes
<1>10. JobInv'
  BY <1>1 DEF CycleInv, JobInv
<1>11. OutInv'
  BY <1>1, <1>2, <1>3, <1>4, <1>8 DEF OutInv, InBarrier, Expected
<1> QED BY <1>1, <1>9, <1>10, <1>11, QuietKeeps DEF InBarrier

LEMMA PushKeeps == ASSUME CycleInv, Push \/ LeaveLoop PROVE CycleInv'
<1>1. /\ lpc \in {"push", "top"} /\ lpc' \in {"top", "left"} /\ out' \in {out, << >>}
      /\ UNCHANGED <<store, booted, cfg, capture, next, slots, remaining, tasks, wpc, task,
                     job, cycles>>
  BY DEF Push, LeaveLoop, poolVars, confVars
<1>2. CycleTypes'
  BY <1>1, EmptySeq DEF CycleInv, CycleTypes
<1>3. JobInv'
  BY <1>1 DEF CycleInv, JobInv
<1>4. OutInv'
  BY <1>1 DEF OutInv, InBarrier
<1> QED BY <1>1, <1>2, <1>3, <1>4, QuietKeeps DEF InBarrier

(* What a probe step leaves alone.                                         *)
probeFrame == <<store, booted, lpc, cfg, capture, next, remaining, tasks, wpc, task, cycles>>

(* A ping or a handshake capture has ended.                                *)
LEMMA LoopProbeKeeps ==
    ASSUME CycleInv, Probing(Loop), EndProbe(Loop), UNCHANGED probeFrame
    PROVE  CycleInv'
<1>1. Loop \in Caller /\ \A w \in Worker : w # Loop /\ w \in Caller
  BY CycleAssumption
<1>2. lpc = "probing"
  BY DEF CycleInv, JobInv, Probing
<1>3. PICK c \in Config : c = cfg /\ c = cfg'
  BY DEF CycleInv, CycleTypes, probeFrame
<1>4. PICK hs \in BOOLEAN : hs = capture /\ hs = capture'
  BY DEF CycleInv, CycleTypes, probeFrame
<1>5. PICK s \in Seq(CheckOf) : s = Serial(c, hs)
  BY ConfigType
<1>6. PICK k \in 0 .. Len(s) :
         /\ job[Loop] = SubSeq(s, k + 1, Len(s))
         /\ out = (NtpOf(c) \o FlattenSeq(Tasks(c))) \o MetricsOf(SubSeq(s, 1, k))
  BY <1>2, <1>3, <1>4, <1>5 DEF CycleInv, OutInv, Gathered
<1>7. Len(s) \in Nat /\ \A i \in 1 .. Len(s) : s[i] \in CheckOf
  BY LenProperties, ElementOfSeq
<1>8. k < Len(s)
  <2> SUFFICES ASSUME k = Len(s) PROVE FALSE
    BY <1>7
  <2>1. SubSeq(s, k + 1, Len(s)) = << >>
    BY <1>7, SubSeqEmpty
  <2> QED BY <1>6, <2>1 DEF Probing
<1>9. PICK n \in 0 .. Len(s) : n = k + 1 /\ n \in 1 .. Len(s)
  BY <1>7, <1>8
<1>10. Head(SubSeq(s, n, Len(s))) = s[n] /\ Tail(SubSeq(s, n, Len(s))) = SubSeq(s, n + 1, Len(s))
  BY <1>7, <1>9, HeadTailOfSubSeq
<1>11. /\ job' = [job EXCEPT ![Loop] = SubSeq(s, n + 1, Len(s))]
       /\ out' = out \o Metrics(s[n]) /\ slots' = slots
  BY <1>6, <1>9, <1>10 DEF EndProbe, Probe
<1>12. SubSeq(s, n + 1, Len(s)) \in Seq(CheckOf)
  <2>1. \A i \in n + 1 .. Len(s) : s[i] \in CheckOf
    BY <1>7, <1>9
  <2> QED BY <1>7, <1>9, <2>1, SubSeqProperties
<1>13. /\ job'[Loop] = SubSeq(s, n + 1, Len(s))
       /\ \A w \in Worker : job'[w] = job[w]
       /\ job' \in [Caller -> Seq(CheckOf)]
  BY <1>1, <1>11, <1>12 DEF CycleInv, CycleTypes
<1>14. MetricsOf(SubSeq(s, 1, n)) = MetricsOf(SubSeq(s, 1, k)) \o Metrics(s[n])
  <2> DEFINE u == SubSeq(s, 1, k)
  <2>1. SubSeq(s, 1, n) = SubSeq(s, 1, n - 1) \o <<s[n]>>
    BY <1>7, <1>9, SubSeqRecursiveSecond
  <2>2. u \in Seq(CheckOf)
    <3>1. \A i \in 1 .. k : s[i] \in CheckOf
      BY <1>7
    <3> QED BY <1>7, <3>1, SubSeqProperties
  <2>3. n - 1 = k /\ s[n] \in CheckOf
    BY <1>7, <1>9
  <2>4. SubSeq(s, 1, n) = u \o <<s[n]>>
    BY <2>1, <2>3
  <2> HIDE DEF u
  <2>5. SubSeq(s, 1, n) = Append(u, s[n])
    BY <2>2, <2>3, <2>4, AppendIsConcat
  <2>6. MetricsOf(Append(u, s[n])) = MetricsOf(u) \o Metrics(s[n])
    BY <2>2, <2>3, MetricsStep
  <2> QED BY <2>5, <2>6 DEF u
<1>15. out' = (NtpOf(c) \o FlattenSeq(Tasks(c))) \o MetricsOf(SubSeq(s, 1, n))
       /\ out' \in Seq(Metric)
  <2> DEFINE a == NtpOf(c) \o FlattenSeq(Tasks(c))
             b == MetricsOf(SubSeq(s, 1, k))
             d == Metrics(s[n])
  <2>1. a \in Seq(Metric)
    BY ConfigType, ConcatProperties
  <2>2. b \in Seq(Metric)
    <3>1. \A i \in 1 .. k : s[i] \in CheckOf
      BY <1>7
    <3>2. SubSeq(s, 1, k) \in Seq(CheckOf)
      BY <1>7, <3>1, SubSeqProperties
    <3> QED BY <3>2, MetricsOfType
  <2>3. d \in Seq(Metric)
    BY <1>7, <1>9, MetricsType
  <2>4. out' = (a \o b) \o d
    BY <1>6, <1>11
  <2>5. MetricsOf(SubSeq(s, 1, n)) = b \o d
    BY <1>14
  <2> HIDE DEF a, b, d
  <2>6. (a \o b) \o d = a \o (b \o d) /\ (a \o b) \o d \in Seq(Metric)
    BY <2>1, <2>2, <2>3, ConcatAssociative, ConcatProperties
  <2>7. out' = a \o MetricsOf(SubSeq(s, 1, n)) /\ out' \in Seq(Metric)
    BY <2>4, <2>5, <2>6
  <2> QED BY <2>7 DEF a
<1>16. CycleTypes'
  BY <1>11, <1>13, <1>15 DEF CycleInv, CycleTypes, probeFrame
<1>17. JobInv'
  BY <1>2, <1>13 DEF CycleInv, JobInv, probeFrame
<1>18. OutInv'
  BY <1>2, <1>3, <1>4, <1>5, <1>13, <1>15 DEF OutInv, InBarrier, Gathered, probeFrame
<1> QED BY <1>2, <1>16, <1>17, <1>18, QuietKeeps DEF InBarrier, probeFrame

-----------------------------------------------------------------------------
(* The barrier.                                                            *)

LEMMA RunningFinite == IsFiniteSet(Running) /\ Cardinality(Running) \in Nat
<1>1. Running \in SUBSET Worker /\ IsFiniteSet(Worker)
  BY CycleAssumption DEF Running
<1> QED BY <1>1, FS_Subset, FS_CardinalityType

LEMMA BeginCycleKeeps == ASSUME CycleInv, BeginCycle PROVE CycleInv'
<1>1. /\ lpc = "top" /\ cfg' = store /\ capture' \in {store.handshake, FALSE}
      /\ cycles' = cycles + 1 /\ out' = NtpOf(store)
      /\ slots' = [i \in DOMAIN Tasks(store) |-> << >>]
      /\ remaining' = Len(Tasks(store)) /\ next' = 0
      /\ lpc' = IF Tasks(store) = << >> THEN "serial" ELSE "submit"
      /\ UNCHANGED <<store, booted, tasks, wpc, task, job>>
  BY DEF BeginCycle, poolVars, confVars
<1>2. PICK c \in Config : c = store /\ c = cfg'
  BY <1>1 DEF CycleInv, CycleTypes
<1>3. PICK T \in Seq(Seq(CheckOf)) : T = Tasks(c)
  BY ConfigType
<1>4. Len(T) \in Nat /\ DOMAIN T = 1 .. Len(T) /\ (T = << >> <=> Len(T) = 0)
  BY LenProperties, EmptySeq
<1>5. slots' \in Seq(Seq(CheckOf)) /\ Len(slots') = Len(T)
      /\ \A i \in 1 .. Len(T) : slots'[i] = << >>
  <2>1. slots' = [i \in 1 .. Len(T) |-> << >>]
    BY <1>1, <1>2, <1>3, <1>4
  <2>2. << >> \in Seq(CheckOf)
    BY EmptySeq
  <2>3. slots' \in [1 .. Len(T) -> Seq(CheckOf)]
    BY <2>1, <2>2
  <2> QED BY <1>4, <2>1, <2>3
<1>6. capture' \in BOOLEAN
  BY <1>1, <1>2 DEF Config
<1>7. out' \in Seq(Metric) /\ out' = NtpOf(c)
  BY <1>1, <1>2, ConfigType
<1>8. CycleTypes'
  BY <1>1, <1>2, <1>3, <1>4, <1>5, <1>6, <1>7 DEF CycleInv, CycleTypes
<1>9. JobInv'
  BY <1>1 DEF CycleInv, JobInv
<1>10. tasks' = << >> /\ Len(tasks') = 0 /\ Running' = {}
  BY <1>1, PoolIdle DEF InBarrier, Running
<1>11. BarrierInv'
  <2>1. InBarrier' <=> Len(T) # 0
    BY <1>1, <1>2, <1>3, <1>4 DEF InBarrier
  <2>2. remaining' = Len(T) /\ Cardinality(Running') = 0 /\ Len(slots') = Len(T) /\ next' = 0
    BY <1>1, <1>2, <1>3, <1>5, <1>10, FS_EmptySet
  <2>3. FrameAlive'
    BY <1>4, <1>10, <2>2 DEF FrameAlive
  <2>4. Len(slots') = Len(Tasks(cfg'))
    BY <1>2, <1>3, <1>5
  <2>5. InBarrier' => next' \in 0 .. Len(slots') /\ (lpc' = "submit" <=> next' < Len(slots'))
    BY <1>1, <1>2, <1>3, <1>4, <2>1, <2>2
  <2> QED BY <2>3, <2>4, <2>5 DEF BarrierInv
<1>12. ShareInv'
  BY <1>10 DEF ShareInv
<1>13. SlotInv'
  <2>1. \A i \in 1 .. Len(T) : Queued(i)'
    BY <1>1, <1>4 DEF Queued
  <2> QED BY <1>1, <1>5, <1>10, <2>1 DEF SlotInv
<1>14. OutInv'
  <2>1. T = << >> => out' = NtpOf(c) \o FlattenSeq(T)
    <3> HAVE T = << >>
    <3>1. FlattenSeq(T) = << >>
      BY FlattenType
    <3> QED BY <1>7, <3>1, ConcatEmptySeq
  <2> QED BY <1>1, <1>2, <1>3, <1>7, <2>1 DEF OutInv, InBarrier, Gathered
<1> QED BY <1>8, <1>9, <1>11, <1>12, <1>13, <1>14 DEF CycleInv

LEMMA SubmitKeeps == ASSUME CycleInv, Submit PROVE CycleInv'
<1>1. /\ lpc = "submit" /\ next' = next + 1 /\ tasks' = Append(tasks, next')
      /\ lpc' = IF next' = Len(slots) THEN "check" ELSE "submit"
      /\ UNCHANGED <<store, booted, cfg, capture, slots, remaining, out, wpc, task, job, cycles>>
  BY DEF Submit, confVars
<1>2. InBarrier /\ InBarrier'
  BY <1>1 DEF InBarrier
<1>3. /\ next \in Nat /\ Len(slots) \in Nat /\ next < Len(slots) /\ tasks \in Seq(Nat)
      /\ Len(tasks) \in Nat /\ remaining \in Int /\ Cardinality(Running) \in Nat
  BY <1>1, <1>2, LenProperties, RunningFinite DEF CycleInv, CycleTypes, BarrierInv
<1>4. PICK n \in Nat : n = next + 1 /\ next' = n
  BY <1>1, <1>3
<1>5. /\ tasks' \in Seq(Nat) /\ Len(tasks') = Len(tasks) + 1 /\ tasks' # << >>
      /\ \A i \in 1 .. Len(tasks) : tasks'[i] = tasks[i]
      /\ tasks'[Len(tasks) + 1] = n
  BY <1>1, <1>3, <1>4, AppendProperties
<1>e. /\ \A i \in 1 .. Len(tasks') : i \in 1 .. Len(tasks) \/ i = Len(tasks) + 1
      /\ Len(tasks) + 1 \in 1 .. Len(tasks')
  BY <1>3, <1>5
<1>6. Running' = Running
  BY <1>1 DEF Running
<1>7. CycleTypes'
  BY <1>1, <1>4, <1>5 DEF CycleInv, CycleTypes
<1>8. JobInv'
  BY <1>1 DEF CycleInv, JobInv
<1>9. BarrierInv'
  <2>1. remaining = (Len(slots) - next) + Len(tasks) + Cardinality(Running)
    BY <1>2 DEF CycleInv, BarrierInv, FrameAlive
  <2>2. remaining' = (Len(slots') - next') + Len(tasks') + Cardinality(Running')
    BY <1>1, <1>3, <1>5, <1>6, <2>1
  <2>3. FrameAlive'
    BY <1>2, <2>2 DEF FrameAlive
  <2>4. next' \in 0 .. Len(slots') /\ (lpc' = "submit" <=> next' < Len(slots'))
    BY <1>1, <1>3
  <2>5. PICK c \in Config : c = cfg /\ c = cfg'
    BY <1>1 DEF CycleInv, CycleTypes
  <2>6. Len(slots') = Len(Tasks(cfg'))
    BY <1>1, <1>2, <2>5 DEF CycleInv, BarrierInv
  <2> QED BY <2>3, <2>4, <2>6 DEF BarrierInv
<1>10. \A i \in 1 .. Len(tasks) : tasks[i] \in 1 .. next
  BY DEF CycleInv, ShareInv
<1>11. ShareInv'
  <2>1. \A i \in 1 .. Len(tasks') : tasks'[i] \in 1 .. next'
    <3> TAKE i \in 1 .. Len(tasks')
    <3>1. CASE i = Len(tasks) + 1
      BY <1>3, <1>4, <1>5, <3>1
    <3>2. CASE i \in 1 .. Len(tasks)
      <4>1. tasks[i] \in 1 .. next /\ tasks'[i] = tasks[i]
        BY <1>5, <1>10, <3>2
      <4> QED BY <1>3, <1>4, <4>1
    <3> QED BY <1>e, <3>1, <3>2
  <2>2. \A i, j \in 1 .. Len(tasks') : i < j => tasks'[i] < tasks'[j]
    <3> TAKE i, j \in 1 .. Len(tasks')
    <3> HAVE i < j
    <3>1. i \in 1 .. Len(tasks)
      BY <1>3, <1>5
    <3>2. CASE j = Len(tasks) + 1
      <4>1. tasks[i] \in 1 .. next /\ tasks'[i] = tasks[i] /\ tasks'[j] = n
        BY <1>5, <1>10, <3>1, <3>2
      <4> QED BY <1>3, <1>4, <4>1
    <3>3. CASE j \in 1 .. Len(tasks)
      BY <1>5, <3>1, <3>3 DEF CycleInv, ShareInv
    <3> QED BY <1>e, <3>2, <3>3
  <2>3. ASSUME NEW w \in Running'
        PROVE  /\ task'[w] \in 1 .. next'
               /\ \A i \in 1 .. Len(tasks') : tasks'[i] # task'[w]
               /\ \A v \in Running' : task'[w] = task'[v] => w = v
    <3>1. /\ task[w] \in 1 .. next
          /\ \A i \in 1 .. Len(tasks) : tasks[i] # task[w]
          /\ \A v \in Running : task[w] = task[v] => w = v
      BY <1>6 DEF CycleInv, ShareInv
    <3>2. task[w] # n
      BY <1>3, <1>4, <3>1
    <3> QED BY <1>1, <1>3, <1>4, <1>5, <1>6, <3>1, <3>2
  <2> QED BY <2>1, <2>2, <2>3 DEF ShareInv
<1>12. SlotInv'
  <2>1. PICK c \in Config : c = cfg /\ c = cfg'
    BY <1>1 DEF CycleInv, CycleTypes
  <2>2. ASSUME NEW i \in 1 .. Len(slots)
        PROVE  (Queued(i)' <=> Queued(i)) /\ (Taken(i)' <=> Taken(i))
    <3>1. Taken(i)' <=> Taken(i)
      BY <1>1, <1>6 DEF Taken
    <3>2. Queued(i) => Queued(i)'
      <4>1. CASE i > next'
        BY <4>1 DEF Queued
      <4>2. CASE i = n
        BY <1>5, <1>e, <4>2 DEF Queued
      <4>3. ASSUME NEW m \in 1 .. Len(tasks), tasks[m] = i PROVE Queued(i)'
        BY <1>3, <1>5, <4>3 DEF Queued
      <4> QED BY <1>3, <1>4, <4>1, <4>2, <4>3 DEF Queued
    <3>3. Queued(i)' => Queued(i)
      <4>1. ASSUME NEW m \in 1 .. Len(tasks'), tasks'[m] = i PROVE Queued(i)
        <5>1. CASE m = Len(tasks) + 1
          BY <1>3, <1>4, <1>5, <4>1, <5>1 DEF Queued
        <5>2. CASE m \in 1 .. Len(tasks)
          BY <1>5, <4>1, <5>2 DEF Queued
        <5> QED BY <1>3, <1>5, <5>1, <5>2
      <4>2. ASSUME i > next' PROVE Queued(i)
        BY <1>3, <1>4, <4>2 DEF Queued
      <4> QED BY <4>1, <4>2 DEF Queued
    <3> QED BY <3>1, <3>2, <3>3
  <2>3. ASSUME NEW i \in 1 .. Len(slots')
        PROVE  (/\ Queued(i) => slots[i] = << >>
                /\ \A w \in Running : task[w] = i => slots[i] \o job[w] = Tasks(cfg)[i]
                /\ ~Queued(i) /\ ~Taken(i) => slots[i] = Tasks(cfg)[i])'
    <3>1. i \in 1 .. Len(slots)
      BY <1>1
    <3>2. /\ Queued(i) => slots[i] = << >>
          /\ \A w \in Running : task[w] = i => slots[i] \o job[w] = Tasks(c)[i]
          /\ ~Queued(i) /\ ~Taken(i) => slots[i] = Tasks(c)[i]
      BY <1>2, <2>1, <3>1 DEF CycleInv, SlotInv
    <3> QED BY <1>1, <1>6, <2>1, <2>2, <3>1, <3>2
  <2>4. lpc' # "collect"
    BY <1>1
  <2> QED BY <2>3, <2>4 DEF SlotInv
<1>13. OutInv'
  BY <1>1, <1>2 DEF CycleInv, OutInv, InBarrier
<1> QED BY <1>7, <1>8, <1>9, <1>11, <1>12, <1>13 DEF CycleInv

(* The wait ends when the counter is zero: every slot is then complete.    *)
LEMMA CheckKeeps == ASSUME CycleInv, Check PROVE CycleInv'
<1>1. /\ lpc = "check" /\ lpc' = IF remaining = 0 THEN "collect" ELSE "toBlock"
      /\ UNCHANGED <<store, booted, cfg, capture, next, slots, remaining, out, tasks, wpc,
                     task, job, cycles>>
  BY DEF Check, poolVars, confVars
<1>2. InBarrier
  BY <1>1 DEF InBarrier
<1>3. CycleTypes'
  BY <1>1 DEF CycleInv, CycleTypes
<1>4. JobInv'
  BY <1>1 DEF CycleInv, JobInv
<1>5. Running' = Running
  BY <1>1 DEF Running
<1>6. CASE remaining # 0
  BY <1>1, <1>3, <1>4, <1>5, <1>6, PoolKeeps
<1>7. CASE remaining = 0
  <2>1. /\ next \in 0 .. Len(slots) /\ Len(slots) \in Nat /\ tasks \in Seq(Nat)
        /\ Len(tasks) \in Nat /\ Cardinality(Running) \in Nat
    BY <1>2, LenProperties, RunningFinite DEF CycleInv, CycleTypes, BarrierInv
  <2>2. 0 = (Len(slots) - next) + Len(tasks) + Cardinality(Running)
    BY <1>2, <1>7 DEF CycleInv, BarrierInv, FrameAlive
  <2>3. next = Len(slots) /\ Len(tasks) = 0 /\ Cardinality(Running) = 0
    BY <2>1, <2>2
  <2>4. tasks = << >> /\ Running = {}
    BY <2>1, <2>3, EmptySeq, RunningFinite, FS_EmptySet
  <2>5. PICK c \in Config : c = cfg /\ c = cfg'
    BY <1>1 DEF CycleInv, CycleTypes
  <2>6. PICK T \in Seq(Seq(CheckOf)) : T = Tasks(c)
    BY ConfigType
  <2>7. Len(slots) = Len(T)
    BY <1>2, <2>5, <2>6 DEF CycleInv, BarrierInv
  <2>8. \A i \in 1 .. Len(slots) : ~Queued(i) /\ ~Taken(i)
    BY <2>1, <2>3, <2>4 DEF Queued, Taken
  <2>9. \A i \in 1 .. Len(slots) : slots[i] = T[i]
    BY <1>2, <2>5, <2>6, <2>8 DEF CycleInv, SlotInv
  <2>10. slots = T
    BY <2>6, <2>7, <2>9, SeqEqual DEF CycleInv, CycleTypes
  <2>11. lpc' = "collect" /\ ~InBarrier'
    BY <1>1, <1>7 DEF InBarrier
  <2>12. BarrierInv'
    BY <1>1, <1>5, <2>4, <2>5, <2>6, <2>7, <2>11 DEF BarrierInv, FrameAlive
  <2>13. ShareInv'
    BY <1>1, <1>5, <2>3, <2>4 DEF ShareInv
  <2>14. SlotInv'
    BY <1>1, <2>5, <2>6, <2>10, <2>11 DEF SlotInv
  <2>15. OutInv'
    BY <1>1, <1>2, <2>11 DEF CycleInv, OutInv
  <2> QED BY <1>3, <1>4, <2>12, <2>13, <2>14, <2>15 DEF CycleInv
<1> QED BY <1>6, <1>7

(* A worker takes the oldest task: nobody has begun it.                    *)
LEMMA TakeTaskKeeps ==
    ASSUME CycleInv, NEW w \in Worker, TakeTask(w) PROVE CycleInv'
<1>1. /\ wpc[w] = "idle" /\ tasks # << >>
      /\ wpc' = [wpc EXCEPT ![w] = "run"]
      /\ task' = [task EXCEPT ![w] = Head(tasks)]
      /\ job' = [job EXCEPT ![w] = Tasks(cfg)[Head(tasks)]]
      /\ tasks' = Tail(tasks)
      /\ UNCHANGED <<store, booted, lpc, cfg, capture, next, slots, remaining, out, cycles>>
  BY DEF TakeTask, loopVars, confVars
<1>2. InBarrier /\ InBarrier'
  BY <1>1 DEF CycleInv, BarrierInv, FrameAlive, InBarrier
<1>3. PICK c \in Config : c = cfg /\ c = cfg'
  BY <1>1 DEF CycleInv, CycleTypes
<1>4. PICK T \in Seq(Seq(CheckOf)) : T = Tasks(c)
  BY ConfigType
<1>5. /\ next \in 0 .. Len(slots) /\ Len(slots) \in Nat /\ Len(slots) = Len(T)
      /\ tasks \in Seq(Nat) /\ Len(tasks) \in Nat /\ Len(tasks) # 0
      /\ remaining \in Int /\ Cardinality(Running) \in Nat
  BY <1>1, <1>2, <1>3, <1>4, LenProperties, EmptySeq, RunningFinite
     DEF CycleInv, CycleTypes, BarrierInv
<1>6. /\ tasks' \in Seq(Nat) /\ Len(tasks') = Len(tasks) - 1
      /\ \A i \in 1 .. Len(tasks') : tasks'[i] = tasks[i + 1] /\ i + 1 \in 1 .. Len(tasks)
  BY <1>1, <1>5, HeadTailProperties
<1>7. PICK h : h = Head(tasks) /\ h = tasks[1] /\ 1 \in 1 .. Len(tasks)
  BY <1>1, <1>5
<1>8. h \in 1 .. next /\ h \in 1 .. Len(slots) /\ h \in Nat
  BY <1>5, <1>7 DEF CycleInv, ShareInv
<1>9. T[h] \in Seq(CheckOf)
  BY <1>5, <1>8, ElementOfSeq
<1>10. w \in Caller /\ w # Loop /\ Loop \in Caller
  BY CycleAssumption
<1>11. /\ job' = [job EXCEPT ![w] = T[h]]
       /\ job' \in [Caller -> Seq(CheckOf)]
       /\ \A t \in Caller : job'[t] = IF t = w THEN T[h] ELSE job[t]
  BY <1>1, <1>3, <1>4, <1>7, <1>9, <1>10 DEF CycleInv, CycleTypes
<1>12. /\ task' \in [Worker -> Nat]
       /\ \A v \in Worker : task'[v] = IF v = w THEN h ELSE task[v]
  BY <1>1, <1>7, <1>8 DEF CycleInv, CycleTypes
<1>13. /\ wpc' \in [Worker -> {"idle", "run", "notify", "ended"}]
       /\ \A v \in Worker : wpc'[v] = IF v = w THEN "run" ELSE wpc[v]
  BY <1>1 DEF CycleInv, CycleTypes
<1>14. Running' = Running \cup {w} /\ w \notin Running /\ Running \subseteq Worker
  BY <1>1, <1>13 DEF Running
<1>15. CycleTypes'
  BY <1>1, <1>6, <1>11, <1>12, <1>13 DEF CycleInv, CycleTypes
<1>16. JobInv'
  <2>1. \A v \in Worker : v \in Caller /\ v # Loop
    BY CycleAssumption
  <2> QED BY <1>1, <1>10, <1>11, <1>13, <2>1 DEF CycleInv, JobInv
<1>17. BarrierInv'
  <2>1. remaining = (Len(slots) - next) + Len(tasks) + Cardinality(Running)
    BY <1>2 DEF CycleInv, BarrierInv, FrameAlive
  <2>2. Cardinality(Running') = Cardinality(Running) + 1
    BY <1>14, RunningFinite, FS_AddElement
  <2>3. remaining' = (Len(slots') - next') + Len(tasks') + Cardinality(Running')
    BY <1>1, <1>5, <1>6, <2>1, <2>2
  <2>4. FrameAlive'
    BY <1>2, <2>3 DEF FrameAlive
  <2>5. next' \in 0 .. Len(slots') /\ (lpc' = "submit" <=> next' < Len(slots'))
    BY <1>1, <1>2 DEF CycleInv, BarrierInv
  <2>6. Len(slots') = Len(Tasks(cfg'))
    BY <1>1, <1>3, <1>4, <1>5
  <2> QED BY <2>4, <2>5, <2>6 DEF BarrierInv
<1>18. \A i \in 1 .. Len(tasks') : tasks'[i] \in 1 .. next /\ tasks'[i] # h
  <2> TAKE i \in 1 .. Len(tasks')
  <2>1. i + 1 \in 1 .. Len(tasks) /\ 1 < i + 1
    BY <1>5, <1>6
  <2>2. tasks[i + 1] \in 1 .. next /\ tasks[1] < tasks[i + 1]
    BY <1>7, <2>1 DEF CycleInv, ShareInv
  <2>3. tasks'[i] = tasks[i + 1]
    BY <1>6
  <2>4. tasks[i + 1] # h
    BY <1>5, <1>7, <1>8, <2>2
  <2> QED BY <2>2, <2>3, <2>4
<1>19. \A v \in Running : task[v] # h
  BY <1>7 DEF CycleInv, ShareInv
<1>20. ShareInv'
  <2>1. \A i, j \in 1 .. Len(tasks') : i < j => tasks'[i] < tasks'[j]
    <3> TAKE i, j \in 1 .. Len(tasks')
    <3> HAVE i < j
    <3>1. i + 1 \in 1 .. Len(tasks) /\ j + 1 \in 1 .. Len(tasks) /\ i + 1 < j + 1
      BY <1>5, <1>6
    <3>2. tasks[i + 1] < tasks[j + 1]
      BY <3>1 DEF CycleInv, ShareInv
    <3> QED BY <1>6, <3>2
  <2>2. ASSUME NEW v \in Running'
        PROVE  /\ task'[v] \in 1 .. next'
               /\ \A i \in 1 .. Len(tasks') : tasks'[i] # task'[v]
               /\ \A u \in Running' : task'[v] = task'[u] => v = u
    <3>1. CASE v = w
      <4>1. task'[v] = h
        BY <1>12, <3>1
      <4>2. \A u \in Running' : u # w => task'[u] # h
        BY <1>12, <1>14, <1>19
      <4> QED BY <1>1, <1>8, <1>18, <3>1, <4>1, <4>2
    <3>2. CASE v # w
      <4>1. v \in Running /\ v \in Worker /\ task'[v] = task[v] /\ task[v] # h
        BY <1>12, <1>14, <1>19, <3>2
      <4>2. /\ task[v] \in 1 .. next
            /\ \A i \in 1 .. Len(tasks) : tasks[i] # task[v]
            /\ \A u \in Running : task[v] = task[u] => v = u
        BY <4>1 DEF CycleInv, ShareInv
      <4>3. \A i \in 1 .. Len(tasks') : tasks'[i] # task'[v]
        BY <1>6, <4>1, <4>2
      <4>4. \A u \in Running' : task'[v] = task'[u] => v = u
        BY <1>12, <1>14, <4>1, <4>2
      <4> QED BY <1>1, <4>1, <4>2, <4>3, <4>4
    <3> QED BY <3>1, <3>2
  <2> QED BY <1>1, <1>18, <2>1, <2>2 DEF ShareInv
<1>21. SlotInv'
  <2>1. ASSUME NEW i \in 1 .. Len(slots')
        PROVE  (/\ Queued(i) => slots[i] = << >>
                /\ \A v \in Running : task[v] = i => slots[i] \o job[v] = Tasks(cfg)[i]
                /\ ~Queued(i) /\ ~Taken(i) => slots[i] = Tasks(cfg)[i])'
    <3>1. i \in 1 .. Len(slots)
      BY <1>1
    <3>2. /\ Queued(i) => slots[i] = << >>
          /\ \A v \in Running : task[v] = i => slots[i] \o job[v] = T[i]
          /\ ~Queued(i) /\ ~Taken(i) => slots[i] = T[i]
      BY <1>2, <1>3, <1>4, <3>1 DEF CycleInv, SlotInv
    <3>3. Queued(i)' => Queued(i)
      BY <1>1, <1>6 DEF Queued
    <3>4. ~Queued(i)' /\ ~Taken(i)' => ~Queued(i) /\ ~Taken(i)
      <4>1. Taken(i) => Taken(i)'
        BY <1>12, <1>14, <1>1 DEF Taken
      <4>2. i = h => Taken(i)'
        BY <1>12, <1>14 DEF Taken
      <4>3. ASSUME NEW n \in 1 .. Len(tasks), tasks[n] = i PROVE i = h \/ Queued(i)'
        <5>1. CASE n = 1
          BY <1>7, <4>3, <5>1
        <5>2. CASE n # 1
          <6>1. n - 1 \in 1 .. Len(tasks') /\ (n - 1) + 1 = n
            BY <1>5, <1>6, <5>2
          <6>2. tasks'[n - 1] = i
            BY <1>6, <4>3, <6>1
          <6> QED BY <6>1, <6>2 DEF Queued
        <5> QED BY <5>1, <5>2
      <4>4. i > next => Queued(i)'
        BY <1>1 DEF Queued
      <4> QED BY <4>1, <4>2, <4>3, <4>4 DEF Queued
    <3>5. ASSUME NEW v \in Running', task'[v] = i PROVE slots[i] \o job'[v] = T[i]
      <4>1. CASE v = w
        <5>1. i = h /\ job'[v] = T[h]
          BY <1>10, <1>11, <1>12, <3>5, <4>1
        <5>2. slots[i] = << >>
          BY <1>7, <3>2, <5>1 DEF Queued
        <5> QED BY <1>9, <5>1, <5>2, ConcatEmptySeq
      <4>2. CASE v # w
        <5>1. v \in Running /\ v \in Worker /\ v \in Caller
          BY <1>14, <4>2, CycleAssumption
        <5> QED BY <1>11, <1>12, <3>2, <3>5, <4>2, <5>1
      <4> QED BY <4>1, <4>2
    <3> QED BY <1>1, <1>3, <1>4, <3>2, <3>3, <3>4, <3>5
  <2>2. lpc' # "collect"
    BY <1>2 DEF InBarrier
  <2> QED BY <2>1, <2>2 DEF SlotInv
<1>22. OutInv'
  BY <1>1, <1>2 DEF CycleInv, OutInv, InBarrier
<1> QED BY <1>15, <1>16, <1>17, <1>20, <1>21, <1>22 DEF CycleInv

(* A worker has done all of its task, and says so by counting down.        *)
LEMMA TaskDoneKeeps ==
    ASSUME CycleInv, NEW w \in Worker, TaskDone(w) PROVE CycleInv'
<1>1. /\ wpc[w] = "run" /\ job[w] = << >> /\ remaining' = remaining - 1
      /\ wpc' = [wpc EXCEPT ![w] = IF remaining = 1 THEN "notify" ELSE "idle"]
      /\ task' = [task EXCEPT ![w] = IF remaining = 1 THEN cycles ELSE 0]
      /\ UNCHANGED <<store, booted, lpc, cfg, capture, next, slots, out, tasks, job, cycles>>
  BY DEF TaskDone, loopVars, confVars
<1>2. w \in Running
  BY <1>1 DEF Running
<1>3. InBarrier /\ InBarrier'
  BY <1>1, <1>2 DEF CycleInv, BarrierInv, FrameAlive, InBarrier
<1>4. PICK c \in Config : c = cfg /\ c = cfg'
  BY <1>1 DEF CycleInv, CycleTypes
<1>5. PICK T \in Seq(Seq(CheckOf)) : T = Tasks(c)
  BY ConfigType
<1>6. /\ next \in 0 .. Len(slots) /\ Len(slots) \in Nat /\ Len(slots) = Len(T)
      /\ tasks \in Seq(Nat) /\ Len(tasks) \in Nat
      /\ remaining \in Int /\ Cardinality(Running) \in Nat
  BY <1>1, <1>3, <1>4, <1>5, LenProperties, RunningFinite
     DEF CycleInv, CycleTypes, BarrierInv
<1>7. /\ task' \in [Worker -> Nat] /\ \A v \in Worker : v # w => task'[v] = task[v]
  BY <1>1 DEF CycleInv, CycleTypes
<1>8. /\ wpc' \in [Worker -> {"idle", "run", "notify", "ended"}]
      /\ \A v \in Worker : v # w => wpc'[v] = wpc[v]
      /\ wpc'[w] # "run"
  BY <1>1 DEF CycleInv, CycleTypes
<1>9. Running' = Running \ {w} /\ Running \subseteq Worker
  BY <1>8 DEF Running
<1>10. CycleTypes'
  BY <1>1, <1>6, <1>7, <1>8 DEF CycleInv, CycleTypes
<1>11. JobInv'
  BY <1>1, <1>8 DEF CycleInv, JobInv
<1>12. BarrierInv'
  <2>1. remaining = (Len(slots) - next) + Len(tasks) + Cardinality(Running)
    BY <1>3 DEF CycleInv, BarrierInv, FrameAlive
  <2>2. Cardinality(Running') = Cardinality(Running) - 1
    BY <1>2, <1>9, RunningFinite, FS_RemoveElement
  <2>3. remaining' = (Len(slots') - next') + Len(tasks') + Cardinality(Running')
    BY <1>1, <1>6, <2>1, <2>2
  <2>4. FrameAlive'
    BY <1>3, <2>3 DEF FrameAlive
  <2>5. next' \in 0 .. Len(slots') /\ (lpc' = "submit" <=> next' < Len(slots'))
    BY <1>1, <1>3 DEF CycleInv, BarrierInv
  <2>6. Len(slots') = Len(Tasks(cfg'))
    BY <1>1, <1>4, <1>5, <1>6
  <2> QED BY <2>4, <2>5, <2>6 DEF BarrierInv
<1>13. ShareInv'
  <2>1. \A v \in Running' : v \in Running /\ task'[v] = task[v]
    BY <1>7, <1>9
  <2> QED BY <1>1, <2>1 DEF CycleInv, ShareInv
<1>14. SlotInv'
  <2>1. ASSUME NEW i \in 1 .. Len(slots')
        PROVE  (/\ Queued(i) => slots[i] = << >>
                /\ \A v \in Running : task[v] = i => slots[i] \o job[v] = Tasks(cfg)[i]
                /\ ~Queued(i) /\ ~Taken(i) => slots[i] = Tasks(cfg)[i])'
    <3>1. i \in 1 .. Len(slots)
      BY <1>1
    <3>2. /\ Queued(i) => slots[i] = << >>
          /\ \A v \in Running : task[v] = i => slots[i] \o job[v] = T[i]
          /\ ~Queued(i) /\ ~Taken(i) => slots[i] = T[i]
      BY <1>3, <1>4, <1>5, <3>1 DEF CycleInv, SlotInv
    <3>3. Queued(i)' <=> Queued(i)
      BY <1>1 DEF Queued
    <3>4. ~Queued(i)' /\ ~Taken(i)' => slots[i] = T[i]
      <4>1. CASE task[w] = i
        <5>1. slots[i] \o << >> = T[i]
          BY <1>1, <1>2, <3>2, <4>1
        <5>2. slots[i] \in Seq(CheckOf)
          BY <3>1, ElementOfSeq DEF CycleInv, CycleTypes
        <5> QED BY <5>1, <5>2, ConcatEmptySeq
      <4>2. CASE task[w] # i
        <5>1. Taken(i) => Taken(i)'
          BY <1>7, <1>9, <4>2 DEF Taken
        <5> QED BY <3>2, <3>3, <5>1
      <4> QED BY <4>1, <4>2
    <3>5. \A v \in Running' : v \in Running /\ task'[v] = task[v]
      BY <1>7, <1>9
    <3> QED BY <1>1, <1>4, <1>5, <3>2, <3>3, <3>4, <3>5
  <2>2. lpc' # "collect"
    BY <1>3 DEF InBarrier
  <2> QED BY <2>1, <2>2 DEF SlotInv
<1>15. OutInv'
  BY <1>1, <1>3 DEF CycleInv, OutInv, InBarrier
<1> QED BY <1>10, <1>11, <1>12, <1>13, <1>14, <1>15 DEF CycleInv

(* What is done moves from the front of one sequence to the end of the     *)
(* other.                                                                  *)
LEMMA MoveOne ==
    ASSUME NEW S, NEW a \in Seq(S), NEW j \in Seq(S), j # << >>
    PROVE  Append(a, Head(j)) \o Tail(j) = a \o j
<1>1. Head(j) \in S /\ Tail(j) \in Seq(S) /\ Len(j) \in Nat \ {0}
  BY HeadTailProperties, EmptySeq
<1>2. Append(a, Head(j)) = a \o <<Head(j)>> /\ <<Head(j)>> \in Seq(S)
  BY <1>1, AppendIsConcat
<1>3. <<Head(j)>> \o Tail(j) = j
  <2>1. SubSeq(j, 1, Len(j)) = <<j[1]>> \o SubSeq(j, 1 + 1, Len(j))
    BY <1>1, SubSeqRecursiveFirst
  <2>2. SubSeq(j, 1, Len(j)) = j /\ Tail(j) = SubSeq(j, 2, Len(j)) /\ Head(j) = j[1]
    BY <1>1, SubSeqFull, TailIsSubSeq
  <2> QED BY <2>1, <2>2
<1> QED BY <1>1, <1>2, <1>3, ConcatAssociative

(* A worker has run one probe of its task: the metric is in its slot.      *)
LEMMA WorkerProbeKeeps ==
    ASSUME CycleInv, NEW w \in Worker, Probing(w), EndProbe(w), UNCHANGED probeFrame
    PROVE  CycleInv'
<1>1. w \in Caller /\ w # Loop /\ Loop \in Caller
  BY CycleAssumption
<1>2. /\ job' = [job EXCEPT ![w] = Tail(job[w])] /\ out' = out
      /\ slots' = [slots EXCEPT ![task[w]] = Append(slots[task[w]], Head(job[w]))]
      /\ UNCHANGED <<store, booted, lpc, cfg, capture, next, remaining, tasks, wpc, task,
                     cycles>>
  BY <1>1 DEF EndProbe, Probe, probeFrame
<1>3. wpc[w] = "run" /\ w \in Running /\ job[w] # << >>
  BY DEF CycleInv, JobInv, Probing, CycleTypes, Running
<1>4. InBarrier /\ InBarrier'
  BY <1>2, <1>3 DEF CycleInv, BarrierInv, FrameAlive, InBarrier
<1>5. PICK c \in Config : c = cfg /\ c = cfg'
  BY <1>2 DEF CycleInv, CycleTypes
<1>6. PICK T \in Seq(Seq(CheckOf)) : T = Tasks(c)
  BY ConfigType
<1>7. /\ next \in 0 .. Len(slots) /\ slots \in Seq(Seq(CheckOf)) /\ Len(slots) \in Nat
      /\ Len(slots) = Len(T)
  BY <1>4, <1>5, <1>6, LenProperties DEF CycleInv, CycleTypes, BarrierInv
<1>8. PICK n \in 1 .. Len(slots) : n = task[w] /\ n \in 1 .. next
  BY <1>3, <1>7 DEF CycleInv, ShareInv
<1>9. PICK j \in Seq(CheckOf) : j = job[w] /\ j # << >>
  BY <1>1, <1>3 DEF CycleInv, CycleTypes
<1>10. Head(j) \in CheckOf /\ Tail(j) \in Seq(CheckOf)
  BY <1>9, HeadTailProperties
<1>11. PICK a \in Seq(CheckOf) : a = slots[n]
  BY <1>7, <1>8, ElementOfSeq
<1>12. PICK b \in Seq(CheckOf) : b = Append(a, Head(j))
  BY <1>10, AppendProperties
<1>13. /\ slots' \in Seq(Seq(CheckOf)) /\ Len(slots') = Len(slots)
       /\ \A i \in 1 .. Len(slots) : slots'[i] = IF i = n THEN b ELSE slots[i]
  <2>1. slots' = [slots EXCEPT ![n] = b]
    BY <1>2, <1>8, <1>9, <1>11, <1>12
  <2>2. PICK l : l = slots /\ l \in Seq(Seq(CheckOf)) /\ n \in 1 .. Len(l)
    BY <1>7
  <2>3. /\ [l EXCEPT ![n] = b] \in Seq(Seq(CheckOf)) /\ Len([l EXCEPT ![n] = b]) = Len(l)
        /\ \A i \in 1 .. Len(l) : [l EXCEPT ![n] = b][i] = IF i = n THEN b ELSE l[i]
    BY <2>2, ExceptSeq
  <2> QED BY <2>1, <2>2, <2>3
<1>14. /\ job' \in [Caller -> Seq(CheckOf)]
       /\ \A t \in Caller : job'[t] = IF t = w THEN Tail(j) ELSE job[t]
  BY <1>1, <1>2, <1>9, <1>10 DEF CycleInv, CycleTypes
<1>15. Running' = Running /\ Running \subseteq Worker
  BY <1>2 DEF Running
<1>16. CycleTypes'
  BY <1>2, <1>13, <1>14 DEF CycleInv, CycleTypes
<1>17. JobInv'
  <2>1. \A v \in Worker : v \in Caller
    BY CycleAssumption
  <2> QED BY <1>1, <1>2, <1>3, <1>14, <2>1 DEF CycleInv, JobInv
<1>18. BarrierInv'
  <2>1. FrameAlive'
    BY <1>2, <1>4, <1>13, <1>15 DEF CycleInv, BarrierInv, FrameAlive
  <2>2. next' \in 0 .. Len(slots') /\ (lpc' = "submit" <=> next' < Len(slots'))
    BY <1>2, <1>4, <1>13 DEF CycleInv, BarrierInv
  <2>3. Len(slots') = Len(Tasks(cfg'))
    BY <1>5, <1>6, <1>7, <1>13
  <2> QED BY <2>1, <2>2, <2>3 DEF BarrierInv
<1>19. ShareInv'
  BY <1>2, <1>15 DEF CycleInv, ShareInv
<1>20. SlotInv'
  <2>1. ASSUME NEW i \in 1 .. Len(slots')
        PROVE  (/\ Queued(i) => slots[i] = << >>
                /\ \A v \in Running : task[v] = i => slots[i] \o job[v] = Tasks(cfg)[i]
                /\ ~Queued(i) /\ ~Taken(i) => slots[i] = Tasks(cfg)[i])'
    <3>1. i \in 1 .. Len(slots)
      BY <1>13
    <3>2. /\ Queued(i) => slots[i] = << >>
          /\ \A v \in Running : task[v] = i => slots[i] \o job[v] = T[i]
          /\ ~Queued(i) /\ ~Taken(i) => slots[i] = T[i]
      BY <1>4, <1>5, <1>6, <3>1 DEF CycleInv, SlotInv
    <3>3. (Queued(i)' <=> Queued(i)) /\ (Taken(i)' <=> Taken(i))
      BY <1>2, <1>15 DEF Queued, Taken
    <3>4. CASE i = n
      <4>1. ~Queued(i)
        BY <1>3, <1>7, <1>8, <3>4 DEF Queued, CycleInv, ShareInv
      <4>2. Taken(i)
        BY <1>3, <1>8, <3>4 DEF Taken
      <4>3. \A v \in Running : task[v] = i => v = w
        BY <1>3, <1>8, <3>4 DEF CycleInv, ShareInv
      <4>4. slots'[i] \o job'[w] = T[i]
        <5>1. slots'[i] = b /\ job'[w] = Tail(j)
          BY <1>1, <1>13, <1>14, <3>1, <3>4
        <5>2. b \o Tail(j) = a \o j
          BY <1>9, <1>11, <1>12, MoveOne
        <5>3. a \o j = T[i]
          BY <1>3, <1>8, <1>9, <1>11, <3>2, <3>4
        <5> QED BY <5>1, <5>2, <5>3
      <4> QED BY <1>2, <1>5, <1>6, <1>15, <3>3, <4>1, <4>2, <4>3, <4>4
    <3>5. CASE i # n
      <4>1. slots'[i] = slots[i]
        BY <1>13, <3>1, <3>5
      <4>2. \A v \in Running : task[v] = i => job'[v] = job[v]
        BY <1>8, <1>14, <1>15, <3>5, CycleAssumption
      <4> QED BY <1>2, <1>5, <1>6, <1>15, <3>2, <3>3, <4>1, <4>2
    <3> QED BY <3>4, <3>5
  <2>2. lpc' # "collect"
    BY <1>4 DEF InBarrier
  <2> QED BY <2>1, <2>2 DEF SlotInv
<1>21. OutInv'
  BY <1>2, <1>4 DEF CycleInv, OutInv, InBarrier
<1> QED BY <1>16, <1>17, <1>18, <1>19, <1>20, <1>21 DEF CycleInv

-----------------------------------------------------------------------------
(* Every step of the agent's probe threads.                                *)

(* A thread's probe goes on, or ends, or something happens that the cycle  *)
(* does not see.                                                           *)
coreVars == <<probeFrame, slots, out, job>>

LEMMA CoreKeeps == ASSUME CycleInv, UNCHANGED coreVars PROVE CycleInv'
<1>1. UNCHANGED <<store, booted, lpc, cfg, capture, next, remaining, tasks, wpc, task,
                  cycles, slots, out, job>>
  BY DEF coreVars, probeFrame
<1>2. CycleTypes' /\ JobInv'
  BY <1>1 DEF CycleInv, CycleTypes, JobInv
<1>3. Running' = Running
  BY <1>1 DEF Running
<1> QED BY <1>1, <1>2, <1>3, PoolKeeps

LEMMA ProbeEndKeeps ==
    ASSUME CycleInv, NEW t \in Caller, Probing(t), EndProbe(t), UNCHANGED probeFrame
    PROVE  CycleInv'
BY LoopProbeKeeps, WorkerProbeKeeps, CycleAssumption

LEMMA CycleKeeps == CycleInv /\ [Next]_vars => CycleInv'
<1> SUFFICES ASSUME CycleInv, [Next]_vars PROVE CycleInv'
  OBVIOUS
<1>1. ASSUME UNCHANGED cycleVars PROVE CycleInv'
  BY <1>1, CoreKeeps
     DEF cycleVars, coreVars, probeFrame, loopVars, poolVars, confVars
<1>2. ASSUME NEW t \in Caller, ProbeStep(t) \/ Shake(t) PROVE CycleInv'
  <2>1. ASSUME Probing(t), UNCHANGED <<lpc, cfg, capture, next, poolVars, confVars, remaining, cycles>>,
               Advance(t) \/ EndProbe(t)
        PROVE  CycleInv'
    <3>1. UNCHANGED probeFrame
      BY <2>1 DEF probeFrame, poolVars, confVars
    <3>2. CASE Advance(t)
      BY <3>1, <3>2, CoreKeeps DEF Advance, coreVars
    <3> QED BY <2>1, <3>1, <3>2, ProbeEndKeeps
  <2>2. ASSUME StartLookup(t) \/ (LookupStep(t) /\ UNCHANGED cycleVars) PROVE CycleInv'
    BY <1>1, <2>2, Zenon DEF StartLookup
  <2>3. ASSUME UseLookup(t) \/ Network(t) \/ Shake(t) PROVE CycleInv'
    BY <2>1, <2>3 DEF UseLookup, Network, Shake
  <2> QED BY <1>2, <2>2, <2>3 DEF ProbeStep
<1>3. ASSUME InPing, PingOver,
             UNCHANGED <<lpc, cfg, capture, next, poolVars, confVars, remaining, cycles>>
      PROVE  CycleInv'
  <2>1. UNCHANGED probeFrame /\ Probing(Loop) /\ Loop \in Caller
    BY <1>3, CycleAssumption DEF probeFrame, poolVars, confVars, InPing
  <2>2. CASE UNCHANGED <<job, out, slots>>
    BY <2>1, <2>2, CoreKeeps DEF coreVars
  <2>3. CASE EndProbe(Loop)
    BY <2>1, <2>3, ProbeEndKeeps
  <2> QED BY <1>3, <2>2, <2>3 DEF PingOver
<1>4. ASSUME LosePing \/ ReceiveReply PROVE CycleInv'
  BY <1>3, <1>4 DEF LosePing, ReceiveReply
<1>5. ASSUME PingIdle \/ ForeignPacket PROVE CycleInv'
  BY <1>5, CoreKeeps
     DEF PingIdle, ForeignPacket, coreVars, probeFrame, loopVars, poolVars, confVars
<1>6. ASSUME NoSocket PROVE CycleInv'
  <2>1. UNCHANGED probeFrame /\ Probing(Loop) /\ Loop \in Caller /\ EndProbe(Loop)
    BY <1>6, CycleAssumption DEF NoSocket, probeFrame, poolVars, confVars, InPing
  <2> QED BY <2>1, ProbeEndKeeps
<1>7. ASSUME SendPing \/ StopRunner PROVE CycleInv'
  BY <1>7, CoreKeeps
     DEF SendPing, StopRunner, coreVars, probeFrame, loopVars, poolVars, confVars
<1>8. ASSUME NEW c \in Requests, Reconfigure(c) PROVE CycleInv'
  <2>1. /\ store' \in Config
        /\ UNCHANGED <<booted, lpc, cfg, capture, next, slots, remaining, out, tasks, wpc,
                       task, job, cycles>>
    BY <1>8, CycleAssumption DEF Reconfigure, loopVars, poolVars
  <2>2. CycleTypes' /\ JobInv'
    BY <2>1 DEF CycleInv, CycleTypes, JobInv
  <2>3. Running' = Running
    BY <2>1 DEF Running
  <2> QED BY <2>1, <2>2, <2>3, PoolKeeps
<1>9. ASSUME Block \/ SpuriousWakeup PROVE CycleInv'
  <2>1. /\ {lpc, lpc'} \subseteq {"check", "toBlock", "blocked"}
        /\ UNCHANGED <<store, booted, cfg, capture, next, slots, remaining, out, tasks, wpc,
                       task, job, cycles>>
    BY <1>9 DEF Block, SpuriousWakeup, poolVars, confVars
  <2>2. CycleTypes' /\ JobInv'
    BY <2>1 DEF CycleInv, CycleTypes, JobInv
  <2>3. Running' = Running
    BY <2>1 DEF Running
  <2> QED BY <2>1, <2>2, <2>3, PoolKeeps
<1>10. ASSUME NEW w \in Worker, NotifyCycle(w) \/ StopWorker(w) PROVE CycleInv'
  <2>1. /\ wpc[w] \in {"notify", "idle"} /\ wpc' \in {[wpc EXCEPT ![w] = "idle"],
                                                      [wpc EXCEPT ![w] = "ended"]}
        /\ task' \in {task, [task EXCEPT ![w] = 0]}
        /\ lpc' = lpc \/ {lpc, lpc'} \subseteq {"check", "toBlock", "blocked"}
        /\ UNCHANGED <<store, booted, cfg, capture, next, slots, remaining, out, tasks, job,
                       cycles>>
    BY <1>10 DEF NotifyCycle, StopWorker, loopVars, confVars
  <2>2. /\ wpc' \in [Worker -> {"idle", "run", "notify", "ended"}]
        /\ task' \in [Worker -> Nat]
        /\ \A v \in Worker : v # w => wpc'[v] = wpc[v] /\ task'[v] = task[v]
        /\ wpc'[w] # "run" /\ wpc[w] # "run"
    <3>1. wpc \in [Worker -> {"idle", "run", "notify", "ended"}] /\ task \in [Worker -> Nat]
      BY DEF CycleInv, CycleTypes
    <3>2. /\ task' \in [Worker -> Nat]
          /\ \A v \in Worker : v # w => task'[v] = task[v]
      BY <2>1, <3>1
    <3>3. \E s \in {"idle", "ended"} : wpc' = [wpc EXCEPT ![w] = s]
      BY <2>1
    <3>4. /\ wpc' \in [Worker -> {"idle", "run", "notify", "ended"}]
          /\ \A v \in Worker : v # w => wpc'[v] = wpc[v]
          /\ wpc'[w] # "run"
      BY <3>1, <3>3
    <3> QED BY <2>1, <3>2, <3>4
  <2>3. CycleTypes'
    BY <2>1, <2>2 DEF CycleInv, CycleTypes
  <2>4. JobInv'
    BY <2>1, <2>2 DEF CycleInv, JobInv
  <2>5. Running' = Running /\ \A v \in Running : task'[v] = task[v]
    BY <2>2 DEF Running
  <2> QED BY <2>1, <2>3, <2>4, <2>5, PoolKeeps
<1>11. ASSUME LoopStep PROVE CycleInv'
  BY <1>4, <1>5, <1>7, <1>9, <1>11, BeginCycleKeeps, SubmitKeeps, CheckKeeps, CollectKeeps,
     BeginSerialKeeps, EndSerialKeeps, PushKeeps DEF LoopStep
<1>12. ASSUME NEW w \in Worker, WorkerStep(w) PROVE CycleInv'
  BY <1>10, <1>12, TakeTaskKeeps, TaskDoneKeeps DEF WorkerStep
<1>13. ASSUME Resting \/ UNCHANGED vars PROVE UNCHANGED cycleVars
  BY <1>13 DEF Resting, vars
<1> QED BY <1>1, <1>2, <1>4, <1>5, <1>6, <1>7, <1>8, <1>9, <1>11, <1>12, <1>13, BootKeeps
        DEF Next

-----------------------------------------------------------------------------
(* The results about the probe cycle.                                      *)

(* probe_runner.cpp RunCycle: for any configuration, any number of workers *)
(* and targets, a task works on a frame that exists and the counter says   *)
(* how many tasks there are: RunCycle returns only after the last of them. *)
THEOREM FrameOutlivesTasks == Spec => []FrameAlive
<1>1. CycleInv => FrameAlive
  BY DEF CycleInv, BarrierInv
<1> QED BY <1>1, CycleStarts, CycleKeeps, PTL DEF Spec

(* probe_runner.cpp RunCycle: the batch of a cycle is exactly what its     *)
(* copy of the configuration asks for, in its order, for any configuration *)
(* and any interleaving of workers and of Reconfigure.                     *)
THEOREM BatchesWhole == Spec => []CycleWhole
<1>1. CycleInv => CycleWhole
  BY DEF CycleInv, OutInv, CycleWhole
<1> QED BY <1>1, CycleStarts, CycleKeeps, PTL DEF Spec

(* dns_resolver.cpp Lookup, as the probes of a cycle call it: an entry of  *)
(* the table belongs to a lookup under way and a probe that waits, waits   *)
(* for one that will answer it.                                            *)
THEOREM ProbesServed == Spec => []InflightServed
<1>1. CycleInv /\ [Next]_vars => [DnsNext]_dnsVars
  BY CycleIsDns DEF CycleInv
<1>2. Init => ResolverInv
  BY ResolverStarts DEF Init
<1>3. ResolverInv => InflightServed
  BY DEF ResolverInv
<1> QED BY <1>1, <1>2, <1>3, CycleStarts, CycleKeeps, ResolverKeeps, PTL DEF Spec
=============================================================================
