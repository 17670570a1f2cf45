----------------------------- MODULE DnsResolver -----------------------------
(***************************************************************************)
(* The agent's resolver (agent/src/dns_resolver.cpp), shared by all probe  *)
(* threads: a cache with a time to live, and a table of the lookups under  *)
(* way that later callers join. getaddrinfo runs in a detached thread, so  *)
(* that a caller can stop waiting; the thread goes on and still fills the  *)
(* cache. A caller that bypasses the cache neither reads it nor joins, but *)
(* it registers its lookup and its answer is cached like any other.        *)
(* Clear, which nothing calls, is left out.                                *)
(***************************************************************************)
CONSTANTS
    Caller,         \* threads that call Lookup
    Key,            \* what MakeKey tells apart: host, service, hints
    Pending,        \* bound: PendingLookup objects, each with its thread
    Nothing         \* no PendingLookup, no key

ASSUME ResolverAssumption == Nothing \notin Pending \cup Key

(* LookupResult: ok with addresses, or not; "none" while there is none.    *)
(* (A success without addresses needs memory to run out: left out.)        *)
Answer == {"addrs", "failed"}

VARIABLES
    cache,      \* keys with an entry that has not expired; only successes
                \* are cached
    inflight,   \* each key: the PendingLookup a caller may join
    pend,       \* each PendingLookup: its key, its result and its thread
    lookup      \* each caller: the call of Lookup it is in

dnsVars == <<cache, inflight, pend, lookup>>

FreePending == [pc |-> "free", key |-> Nothing, answer |-> "none"]
NoLookup == [pc |-> "idle", key |-> Nothing, on |-> Nothing, answer |-> "none"]

DnsInit ==
    /\ cache = {}
    /\ inflight = [k \in Key |-> Nothing]
    /\ pend = [p \in Pending |-> FreePending]
    /\ lookup = [c \in Caller |-> NoLookup]

(* The time to live of an entry passes: it is neither returned any more    *)
(* nor protected from being replaced.                                      *)
Expire(k) ==
    /\ k \in cache
    /\ cache' = cache \ {k}
    /\ UNCHANGED <<inflight, pend, lookup>>

Done(answer) == [NoLookup EXCEPT !.pc = "done", !.answer = answer]

(* Lookup, under the lock, is answered from the cache, finds a lookup to   *)
(* join, or neither. (One to join may have its result already.)            *)
LookupCall(c, k, bypass) ==
    LET p == inflight[k] IN
    /\ lookup[c].pc = "idle"
    /\ lookup' = [lookup EXCEPT ![c] =
         IF ~bypass /\ k \in cache THEN Done("addrs")
         ELSE IF bypass \/ p = Nothing
              THEN [NoLookup EXCEPT !.pc = "register", !.key = k]
         ELSE IF pend[p].answer # "none" THEN Done(pend[p].answer)
         ELSE [NoLookup EXCEPT !.pc = "wait", !.key = k, !.on = p]]
    /\ UNCHANGED <<cache, inflight, pend>>

Unused(p) == pend[p].pc = "free"

(* The lock was released in between: whoever registered the key meanwhile  *)
(* is overwritten. Then the detached thread starts.                        *)
LookupRegister(c) ==
    LET l == lookup[c]
        p == CHOOSE q \in Pending : Unused(q)
    IN
    /\ l.pc = "register"
    /\ \E q \in Pending : Unused(q)
    /\ pend' = [pend EXCEPT ![p] =
                    [pc |-> "resolve", key |-> l.key, answer |-> "none"]]
    /\ inflight' = [inflight EXCEPT ![l.key] = p]
    /\ lookup' = [lookup EXCEPT ![c] = [l EXCEPT !.pc = "wait", !.on = p]]
    /\ UNCHANGED cache

(* wait_for ends without a result; the detached thread goes on.            *)
LookupTimeout(c) ==
    /\ lookup[c].pc = "wait"
    /\ lookup' = [lookup EXCEPT ![c] = Done("failed")]
    /\ UNCHANGED <<cache, inflight, pend>>

(* The detached thread: getaddrinfo returns. With done set, wait_for can   *)
(* only return the result: whoever waits has it now ...                    *)
Resolve(p) ==
    /\ pend[p].pc = "resolve"
    /\ \E a \in Answer :
         /\ pend' = [pend EXCEPT ![p] = [@ EXCEPT !.pc = "finish", !.answer = a]]
         /\ lookup' = [c \in Caller |-> IF lookup[c].on = p THEN Done(a) ELSE lookup[c]]
    /\ UNCHANGED <<cache, inflight>>

CacheAfter(p) == IF pend[p].answer = "addrs" THEN cache \cup {pend[p].key} ELSE cache

(* Mutant: a failed lookup stays in the table.                             *)
Finish_onlyOk(p) ==
    LET k == pend[p].key IN
    /\ pend[p].pc = "finish"
    /\ inflight' = IF inflight[k] = p /\ pend[p].answer = "addrs"
                   THEN [inflight EXCEPT ![k] = Nothing] ELSE inflight
    /\ cache' = CacheAfter(p)
    /\ pend' = [pend EXCEPT ![p] = FreePending]
    /\ UNCHANGED lookup

(* ... then the lookup is taken out of the table, unless it has been       *)
(* overwritten there, and a success is cached, unless an entry is still    *)
(* valid.                                                                  *)
Finish(p) ==
    LET k == pend[p].key IN
    /\ pend[p].pc = "finish"
    /\ inflight' = IF inflight[k] = p THEN [inflight EXCEPT ![k] = Nothing] ELSE inflight
    /\ cache' = CacheAfter(p)
    /\ pend' = [pend EXCEPT ![p] = FreePending]
    /\ UNCHANGED lookup

(* The caller takes its answer.                                            *)
LookupReturn(c) ==
    /\ lookup[c].pc = "done"
    /\ lookup' = [lookup EXCEPT ![c] = NoLookup]
    /\ UNCHANGED <<cache, inflight, pend>>

LookupStep(c) == LookupRegister(c) \/ LookupTimeout(c)
ResolverStep(p) == Resolve(p) \/ Finish(p)

DnsNext ==
    \/ \E k \in Key : Expire(k)
    \/ \E c \in Caller, k \in Key, bypass \in BOOLEAN : LookupCall(c, k, bypass)
    \/ \E c \in Caller : LookupStep(c) \/ LookupReturn(c)
    \/ \E p \in Pending : ResolverStep(p)

DnsSpec == DnsInit /\ [][DnsNext]_dnsVars

-----------------------------------------------------------------------------
(* Properties.                                                             *)

(* The resolver's state is well formed (m_cache, m_inflight, PendingLookup *)
(* and the frames of Lookup).                                              *)
DnsTypeOK ==
    /\ cache \subseteq Key
    /\ inflight \in [Key -> Pending \cup {Nothing}]
    /\ pend \in [Pending -> [pc : {"free", "resolve", "finish"},
                             key : Key \cup {Nothing},
                             answer : Answer \cup {"none"}]]
    /\ lookup \in [Caller -> [pc : {"idle", "register", "wait", "done"},
                              key : Key \cup {Nothing}, on : Pending \cup {Nothing},
                              answer : Answer \cup {"none"}]]

(* Lookup: whom a caller joins or waits for, a thread is working for. An   *)
(* entry of the table belongs to a running lookup of its key, however      *)
(* bypassing callers overwrite it and whatever getaddrinfo returned; and a *)
(* caller waits for a lookup of its own key whose result is still to come. *)
(* A dead entry would answer every later call with one old result.         *)
InflightServed ==
    /\ \A k \in Key : inflight[k] # Nothing =>
         pend[inflight[k]].pc # "free" /\ pend[inflight[k]].key = k
    /\ \A c \in Caller : lookup[c].pc = "wait" =>
         LET p == pend[lookup[c].on] IN p.pc = "resolve" /\ p.key = lookup[c].key

(* Lookup: the key of a call is known until it has an answer, only a call  *)
(* that waits refers to a PendingLookup, and a thread knows its key and,   *)
(* done with getaddrinfo, has left its result.                             *)
CallFormed ==
    /\ \A c \in Caller :
         /\ lookup[c].pc \in {"register", "wait"} => lookup[c].key \in Key
         /\ lookup[c].on # Nothing <=> lookup[c].pc = "wait"
    /\ \A p \in Pending :
         /\ pend[p].pc # "free" => pend[p].key \in Key
         /\ pend[p].pc = "finish" => pend[p].answer # "none"

(* The inductive invariant of the resolver (ProbeProofs).                  *)
ResolverInv == DnsTypeOK /\ CallFormed /\ InflightServed
=============================================================================
