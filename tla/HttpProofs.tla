----------------------------- MODULE HttpProofs -----------------------------
(***************************************************************************)
(* Proofs about CollectorHttp for every number of agents, addresses, pool  *)
(* threads, workers and installers, and all time limits that keep the      *)
(* order the constants' assumptions state.                                 *)
(***************************************************************************)
EXTENDS CollectorHttp, FiniteSetTheorems, SequenceTheorems, TLAPS

-----------------------------------------------------------------------------
(* The inductive invariant of the installers.                              *)

Content == [of : Nat, state : {"whole", "cut"}]

Syncs == [pc : {"idle", "fetch", "version", "end"}, of : Nat, left : SUBSET Mirrored,
          part : Mirrored \cup {NoFile}, got : SUBSET Mirrored, wrote : BOOLEAN]

Downloads == [pc : {"idle", "load", "name"}, platform : Platform \cup {NoFile},
              from : Name \cup {NoFile}, bytes : Content \cup {Absent}, rescanned : BOOLEAN]

MirrorTypes ==
    /\ release \in Nat /\ versionFile \in Nat
    /\ files \in [Name -> Content \cup {Absent}]
    /\ manifest \in [version : Nat, offer : [Platform -> Name \cup {NoFile}],
                     hash : [Platform -> Content \cup {Absent}]]
    /\ sync \in Syncs
    /\ download \in [Reader -> Downloads]
    /\ complete \in BOOLEAN

(* An offered file is there, of the platform, and has the manifest's hash  *)
(* unless the sync under way has replaced it.                              *)
Offered(p) ==
    LET n == manifest.offer[p] IN n # NoFile =>
      /\ n \in Name /\ PlatformOf[n] = p /\ files[n] # Absent
      /\ manifest.hash[p] = files[n] \/ (sync.pc # "idle" /\ n \in sync.got)

(* What a sync has got is of its release, as is version.txt once written.  *)
SyncOK ==
    /\ \A n \in sync.got : files[n].of = sync.of
    /\ sync.wrote => sync.pc = "end" /\ versionFile = sync.of

(* After a sync that got and wrote everything, until the next one begins.  *)
CompleteOK ==
    complete => /\ sync.pc = "idle"
                /\ \A n \in Mirrored : files[n].of = versionFile
                /\ Mirrored # {} => manifest.version = versionFile

(* A download under way asks for a platform and has read a file of it.     *)
DownloadOK(r) ==
    LET d == download[r] IN
    /\ d.pc # "idle" => d.platform \in Platform
    /\ d.pc = "name" =>
         /\ d.bytes.state \in {"whole", "cut"}
         /\ PlatformOf[d.from] = d.platform
         /\ manifest.offer[d.platform] = d.from \/ d.rescanned

MirrorInv ==
    /\ MirrorTypes /\ SyncOK /\ CompleteOK
    /\ \A p \in Platform : Offered(p)
    /\ \A r \in Reader : DownloadOK(r)
    /\ ServedWhole

-----------------------------------------------------------------------------
(* The inductive invariant of the registry.                                *)

Places == [endpoint : Address \cup {Nowhere}, move : Nat, own : BOOLEAN]
Seen == [endpoint : Address, move : Nat, own : BOOLEAN]
Beats == [from : Agent, at : Seen, advert : Places, age : Nat, recorded : BOOLEAN]
Entries == [place : Places, age : Nat, known : BOOLEAN]

RegistryTypes ==
    /\ addr \in [Agent -> Address \cup {Nowhere}]
    /\ advert \in [Agent -> Places]
    /\ since \in [Agent -> Nat]
    /\ pace \in [Agent -> {"even", "backoff", "sending"}]
    /\ beat \in [Agent -> Beats \cup {NoBeat}]
    /\ late \subseteq Beats
    /\ entry \in [Agent -> Entries]
    /\ losses \in [Agent -> Nat]
    /\ excused \in [Agent -> BOOLEAN]
    /\ moves \in [Agent -> Nat]

(* A place that was the agent's own still is, unless that has moved since. *)
Located(a, p) ==
    /\ p.move <= moves[a]
    /\ p.move = moves[a] /\ p.own /\ p.endpoint # Nowhere => p.endpoint = addr[a]

Heard(b) == Located(b.from, b.at) /\ Located(b.from, b.advert)

PlaceOK(a) ==
    /\ Located(a, advert[a]) /\ Located(a, entry[a].place)
    /\ Beating(a) => beat[a].from = a /\ Heard(beat[a])

(* The age of a heartbeat under way, and when it was sent.                 *)
BeatOK(a) == Beating(a) =>
    /\ beat[a].age <= BeatDeadline
    /\ since[a] = 0 => beat[a].age = 0

Span(n) == n * BeatDeadline

Unexcused(a) ==
    /\ entry[a].known /\ pace[a] = "even" /\ ~excused[a]
    /\ addr[a] # Nowhere /\ a \in here

(* How long ago an agent without an excuse may have been heard: a deadline *)
(* for the answer to the heartbeat that was recorded, one for each that    *)
(* was lost, and the age of the one under way. (Losses are counted up to   *)
(* Window.)                                                                *)
AgeOK(a) == Unexcused(a) /\ losses[a] < Window =>
    IF Beating(a)
    THEN entry[a].age <= beat[a].age
         \/ (~beat[a].recorded /\ entry[a].age <= Span(losses[a] + 1) + beat[a].age)
    ELSE /\ entry[a].age <= Span(losses[a] + 1)
         /\ since[a] = 0 => entry[a].age <= Span(losses[a])

RegistryInv ==
    /\ RegistryTypes
    /\ \A b \in late : Heard(b)
    /\ \A a \in Agent : PlaceOK(a) /\ BeatOK(a) /\ AgeOK(a)

-----------------------------------------------------------------------------
(* The inductive invariant of the calls.                                   *)

Kinds == Command \cup {"diagnostic", "set_config", "get_config", "list_commands"}
Limits == Nat \cup {Forever}

Calls == [pc : {"found", "dialled", "waiting"}, id : Nat, kind : Kinds, for : Agent,
          place : Places, left : Nat]
Execs == [id : Nat, for : Agent, on : Agent, kind : Kinds, adhoc : BOOLEAN,
          plan : Seq(Limits), step : Nat, left : Limits]

CallTypes ==
    /\ call \in [Caller -> Calls \cup {NoCall}]
    /\ exec \subseteq Execs
    /\ callsLeft \in Nat

Active(c) == call[c] # NoCall

(* A call is numbered, points to where its agent was, and has all of its   *)
(* time until it has arrived. A worker keeps its agent busy.               *)
CallOK(c) == Active(c) =>
    /\ call[c].id > callsLeft
    /\ Located(call[c].for, call[c].place)
    /\ call[c].pc \in {"dialled", "waiting"} => call[c].place.endpoint # Nowhere
    /\ call[c].pc # "waiting" => call[c].left = Deadline(c, call[c].kind)
    /\ c \in Worker => call[c].for \in busy /\ call[c].kind \in Scheduled

CallsApart ==
    \A c, d \in Caller : Active(c) /\ Active(d) /\ c # d =>
        /\ call[c].id # call[d].id
        /\ {c, d} \subseteq Worker => call[c].for # call[d].for

(* What an agent executes is numbered like its call and follows a plan.    *)
ExecOK(e) ==
    /\ e.id > callsLeft /\ e.step > 0
    /\ e.plan \in Plans(e.kind)
    /\ \A f \in exec : f.id = e.id => f = e

(* The tools an execution may still run, the current one included: no plan *)
(* has more than four.                                                     *)
Rest(e) ==
    e.left + LimitAt(e.plan, e.step + 1) + LimitAt(e.plan, e.step + 2)
           + LimitAt(e.plan, e.step + 3)

Exempt(kind, plan, worker) ==
    \/ kind \in {"ping_burst", "hdd_check", "diagnostic"}
    \/ worker /\ kind = "speedtest" /\ Repeated(plan)

(* The caller whose call it is waits, and long enough.                     *)
Matched(e, c) == call[c].id = e.id =>
    /\ call[c].pc = "waiting"
    /\ call[c].for = e.for /\ call[c].kind = e.kind
    /\ e.adhoc <=> c \in Pool
    /\ ~Exempt(e.kind, e.plan, c \in Worker) => e.left \in Nat /\ call[c].left > Rest(e)

CallInv ==
    /\ CallTypes
    /\ \A c \in Caller : CallOK(c)
    /\ CallsApart
    /\ \A e \in exec : ExecOK(e)
    /\ \A e \in exec, c \in Caller : Matched(e, c)

-----------------------------------------------------------------------------
(* Installers.                                                             *)

(* InstallerDist::Scan: what a scan offers is in the directory and has its *)
(* hash, whichever files could be read.                                    *)
LEMMA ChoiceFacts ==
    ASSUME files \in [Name -> Content \cup {Absent}], NEW v \in Nat,
           NEW some \in SUBSET Present, NEW c \in Choices(some),
           NEW m, m = Manifest(v, c, files)
    PROVE  /\ m \in [version : Nat, offer : [Platform -> Name \cup {NoFile}],
                     hash : [Platform -> Content \cup {Absent}]]
           /\ m.version = v
           /\ \A p \in Platform : m.offer[p] # NoFile =>
                /\ m.offer[p] \in Name /\ PlatformOf[m.offer[p]] = p
                /\ files[m.offer[p]] # Absent
                /\ m.hash[p] = files[m.offer[p]]
<1>1. c \in [Platform -> Present \cup {NoFile}]
  BY DEF Choices
<1>2. \A p \in Platform : c[p] # NoFile => c[p] \in Present /\ PlatformOf[c[p]] = p
  BY <1>1 DEF Choices
<1>4. m.version = v /\ m.offer = c
      /\ m.hash = [p \in Platform |-> IF c[p] = NoFile THEN Absent ELSE files[c[p]]]
  BY DEF Manifest
<1>5. m.hash \in [Platform -> Content \cup {Absent}]
  BY <1>2, <1>4 DEF Present
<1>6. m.offer \in [Platform -> Name \cup {NoFile}]
  BY <1>1, <1>4 DEF Present
<1>7. m = [version |-> m.version, offer |-> m.offer, hash |-> m.hash]
  BY DEF Manifest
<1>8. m \in [version : Nat, offer : [Platform -> Name \cup {NoFile}],
             hash : [Platform -> Content \cup {Absent}]]
  BY <1>4, <1>5, <1>6, <1>7
<1>9. QED BY <1>2, <1>4, <1>8 DEF Present

LEMMA ScanFacts ==
    ASSUME files \in [Name -> Content \cup {Absent}], versionFile \in Nat,
           NEW readAll \in BOOLEAN, NEW m \in Scanned(readAll)
    PROVE  /\ m \in [version : Nat, offer : [Platform -> Name \cup {NoFile}],
                     hash : [Platform -> Content \cup {Absent}]]
           /\ readAll => m.version = versionFile
           /\ \A p \in Platform : m.offer[p] # NoFile =>
                /\ m.offer[p] \in Name /\ PlatformOf[m.offer[p]] = p
                /\ files[m.offer[p]] # Absent
                /\ m.hash[p] = files[m.offer[p]]
<1>1. PICK v \in Nat, some \in SUBSET Present :
        /\ \E c \in Choices(some) : m = Manifest(v, c, files)
        /\ readAll => v = versionFile
  <2>1. CASE readAll
    BY <2>1 DEF Scanned
  <2>2. CASE ~readAll
    BY <2>2 DEF Scanned
  <2> QED BY <2>1, <2>2
<1>2. PICK c \in Choices(some) : m = Manifest(v, c, files)
  BY <1>1
<1> QED BY <1>1, <1>2, ChoiceFacts

(* The first scan, when the process starts.                                *)
LEMMA MirrorInitial == MirrorInit => MirrorInv
<1> SUFFICES ASSUME MirrorInit PROVE MirrorInv
  OBVIOUS
<1> USE MirrorAssumption
<1>1. files \in [Name -> Content \cup {Absent}]
  BY DEF MirrorInit, File, Content
<1>2. PICK readAll \in BOOLEAN : manifest \in Scanned(readAll) /\ versionFile \in Nat
  BY DEF MirrorInit
<1>3. MirrorTypes
  BY <1>1, <1>2, ScanFacts DEF MirrorInit, MirrorTypes, Syncs, NoSync, Downloads, NoDownload
<1>4. \A p \in Platform : Offered(p)
  BY <1>1, <1>2, ScanFacts DEF Offered
<1>5. SyncOK /\ CompleteOK /\ ServedWhole
  BY DEF MirrorInit, SyncOK, CompleteOK, ServedWhole, NoSync
<1>6. \A r \in Reader : DownloadOK(r)
  BY DEF MirrorInit, DownloadOK, NoDownload
<1> QED BY <1>3, <1>4, <1>5, <1>6 DEF MirrorInv

(* SyncBegin, FetchStart, TruncateVersion, WriteVersion: nothing that is   *)
(* offered changes.                                                        *)
LEMMA SyncMoves ==
    ASSUME MirrorInv,
           \/ \E r \in {release, release + 1}, assets \in SUBSET Mirrored :
                SyncBegin(r, assets)
           \/ \E n \in Mirrored : FetchStart(n)
           \/ TruncateVersion \/ WriteVersion
    PROVE  MirrorInv'
<1> DEFINE Moves ==
      /\ UNCHANGED <<files, manifest, download, served>>
      /\ \/ /\ sync.pc # "idle" /\ sync'.got = sync.got /\ complete' = complete
            /\ sync'.of = sync.of
         \/ sync.pc = "idle" /\ sync'.got = {} /\ complete' = FALSE
      /\ sync'.pc # "idle"
      /\ release' \in Nat /\ versionFile' \in Nat /\ sync' \in Syncs
      /\ sync'.wrote => sync'.pc = "end" /\ versionFile' = sync'.of
<1> USE DEF MirrorInv, MirrorTypes, Syncs
<1>a. ASSUME NEW r \in {release, release + 1}, NEW assets \in SUBSET Mirrored,
             SyncBegin(r, assets)
      PROVE  Moves
  <2>1. sync' = [pc |-> "fetch", of |-> r, left |-> assets, part |-> NoFile, got |-> {},
                wrote |-> FALSE]
    BY <1>a DEF SyncBegin, NoSync
  <2>2. /\ UNCHANGED <<files, manifest, download, served, versionFile>>
        /\ sync.pc = "idle" /\ release' = r
    BY <1>a DEF SyncBegin
  <2>3. complete' = FALSE
    BY <1>a, Zenon DEF SyncBegin
  <2>4. r \in Nat
    OBVIOUS
  <2> QED BY <2>1, <2>2, <2>3, <2>4
<1>0. sync.wrote => sync.pc = "end"
  BY DEF SyncOK
<1>b. ASSUME NEW n \in Mirrored, FetchStart(n) PROVE Moves
  BY <1>0, <1>b DEF FetchStart
<1>c. ASSUME TruncateVersion PROVE Moves
  BY <1>0, <1>c DEF TruncateVersion
<1>d. ASSUME WriteVersion PROVE Moves
  BY <1>0, <1>d DEF WriteVersion
<1> HIDE DEF MirrorInv, MirrorTypes, Syncs, Moves
<1>1. Moves
  BY <1>a, <1>b, <1>c, <1>d
<1> USE DEF Moves
<1>2. MirrorTypes'
  BY <1>1 DEF MirrorInv, MirrorTypes
<1>3. SyncOK'
  BY <1>1 DEF MirrorInv, SyncOK, MirrorTypes
<1>4. CompleteOK'
  BY <1>1 DEF MirrorInv, CompleteOK
<1>5. ASSUME NEW p \in Platform PROVE Offered(p)'
  BY <1>1 DEF MirrorInv, Offered
<1>6. ASSUME NEW r \in Reader PROVE DownloadOK(r)'
  BY <1>1 DEF MirrorInv, DownloadOK
<1>7. ServedWhole'
  BY <1>1 DEF MirrorInv, ServedWhole
<1> QED BY <1>2, <1>3, <1>4, <1>5, <1>6, <1>7 DEF MirrorInv

(* FetchEnd: a file is replaced, or the old one stays.                     *)
LEMMA FetchEndKeeps == ASSUME MirrorInv, FetchEnd PROVE MirrorInv'
<1> DEFINE n == sync.part
           rest == [sync EXCEPT !.part = NoFile, !.left = @ \ {n}]
<1> USE MirrorAssumption
<1>0. sync \in Syncs
  BY DEF MirrorInv, MirrorTypes
<1>1. /\ n \in Mirrored /\ n \in Name /\ sync.pc = "fetch"
      /\ UNCHANGED <<release, versionFile, manifest, download, served, complete>>
  BY <1>0 DEF FetchEnd, Name, Syncs
<1>a. rest \in Syncs /\ rest.pc = "fetch" /\ rest.of = sync.of /\ rest.got = sync.got
      /\ ~rest.wrote
  BY <1>0, <1>1 DEF Syncs, MirrorInv, SyncOK
<1>b. \/ /\ \E s \in {"whole", "cut"} : files' = [files EXCEPT ![n] = File(sync.of, s)]
         /\ sync' = [rest EXCEPT !.got = @ \cup {n}]
      \/ files' = files /\ sync' = rest
  BY DEF FetchEnd
<1> HIDE DEF rest
<1>2. \/ /\ \E s \in {"whole", "cut"} : files' = [files EXCEPT ![n] = File(sync.of, s)]
         /\ sync'.got = sync.got \cup {n}
      \/ files' = files /\ sync'.got = sync.got
  BY <1>a, <1>b DEF Syncs
<1>3. sync' \in Syncs /\ sync'.pc = "fetch" /\ sync'.of = sync.of /\ ~sync'.wrote
  BY <1>0, <1>1, <1>a, <1>b DEF Syncs
<1>4. /\ files' \in [Name -> Content \cup {Absent}]
      /\ \A x \in Name : files[x] # Absent => files'[x] # Absent
      /\ \A x \in Name : files'[x] = files[x] \/ (x \in sync'.got /\ files'[x].of = sync.of)
      /\ sync.got \subseteq sync'.got
      /\ \A x \in sync'.got : x \in sync.got \/ files'[x].of = sync.of
  BY <1>0, <1>1, <1>2 DEF MirrorInv, MirrorTypes, Syncs, Content, File, Absent
<1>5. MirrorTypes'
  BY <1>1, <1>3, <1>4 DEF MirrorInv, MirrorTypes
<1>6. SyncOK'
  BY <1>0, <1>1, <1>3, <1>4 DEF MirrorInv, SyncOK, Syncs, Name
<1>7. CompleteOK'
  BY <1>1, <1>3 DEF MirrorInv, CompleteOK
<1>8. ASSUME NEW p \in Platform PROVE Offered(p)'
  BY <1>1, <1>3, <1>4 DEF MirrorInv, Offered
<1>9. ASSUME NEW r \in Reader PROVE DownloadOK(r)'
  BY <1>1 DEF MirrorInv, DownloadOK
<1>10. ServedWhole'
  BY <1>1 DEF MirrorInv, ServedWhole
<1> QED BY <1>5, <1>6, <1>7, <1>8, <1>9, <1>10 DEF MirrorInv

LEMMA ScanKeeps ==
    ASSUME MirrorInv, NEW readAll \in BOOLEAN, manifest' \in Scanned(readAll),
           UNCHANGED <<files, versionFile>>
    PROVE  /\ \A p \in Platform : Offered(p)'
           /\ manifest' \in [version : Nat, offer : [Platform -> Name \cup {NoFile}],
                             hash : [Platform -> Content \cup {Absent}]]
           /\ readAll => manifest'.version = versionFile'
<1>1. versionFile \in Nat /\ files \in [Name -> Content \cup {Absent}]
  BY DEF MirrorInv, MirrorTypes
<1> DEFINE m == manifest'
<1>2. m \in Scanned(readAll)
  OBVIOUS
<1> HIDE DEF m
<1>3. /\ m \in [version : Nat, offer : [Platform -> Name \cup {NoFile}],
                hash : [Platform -> Content \cup {Absent}]]
      /\ readAll => m.version = versionFile
      /\ \A p \in Platform : m.offer[p] # NoFile =>
           /\ m.offer[p] \in Name /\ PlatformOf[m.offer[p]] = p
           /\ files[m.offer[p]] # Absent
           /\ m.hash[p] = files[m.offer[p]]
  BY <1>1, <1>2, ScanFacts
<1>4. ASSUME NEW p \in Platform PROVE Offered(p)'
  BY <1>3 DEF Offered, m
<1> QED BY <1>3, <1>4 DEF m

(* SyncEnd scans if the sync got anything; the rest of the directory is as *)
(* the last scan found it.                                                 *)
LEMMA SyncEndKeeps == ASSUME MirrorInv, SyncEnd PROVE MirrorInv'
<1> USE MirrorAssumption
<1>0. sync \in Syncs /\ complete' \in BOOLEAN
  BY DEF MirrorInv, MirrorTypes, SyncEnd
<1>1. /\ UNCHANGED <<release, files, versionFile, served>>
      /\ sync.pc = "end" /\ sync' = NoSync
      /\ complete' => sync.got = Mirrored /\ sync.wrote
  BY DEF SyncEnd
<1>2. CASE sync.got = {}
  <2>1. UNCHANGED <<manifest, download>>
    BY <1>2 DEF SyncEnd
  <2>2. MirrorTypes'
    BY <1>0, <1>1, <2>1 DEF MirrorInv, MirrorTypes, NoSync, Syncs
  <2>3. SyncOK' /\ CompleteOK'
    BY <1>0, <1>1, <1>2 DEF SyncOK, CompleteOK, NoSync
  <2>4. ASSUME NEW p \in Platform PROVE Offered(p)'
    BY <1>1, <1>2, <2>1 DEF MirrorInv, Offered
  <2>5. ASSUME NEW r \in Reader PROVE DownloadOK(r)'
    BY <2>1 DEF MirrorInv, DownloadOK
  <2>6. ServedWhole'
    BY <1>1 DEF MirrorInv, ServedWhole
  <2> QED BY <2>2, <2>3, <2>4, <2>5, <2>6 DEF MirrorInv
<1>3. CASE sync.got # {}
  <2>1. /\ download' = [r \in Reader |-> [download[r] EXCEPT !.rescanned = TRUE]]
        /\ \E readAll \in BOOLEAN :
             manifest' \in Scanned(readAll) /\ (complete' => readAll)
    BY <1>3 DEF SyncEnd, Scan
  <2>2. PICK readAll \in BOOLEAN : manifest' \in Scanned(readAll) /\ (complete' => readAll)
    BY <2>1
  <2>3. /\ \A p \in Platform : Offered(p)'
        /\ manifest' \in [version : Nat, offer : [Platform -> Name \cup {NoFile}],
                          hash : [Platform -> Content \cup {Absent}]]
        /\ readAll => manifest'.version = versionFile'
    BY <1>1, <2>2, ScanKeeps
  <2>4. MirrorTypes'
    <3>0. ASSUME NEW d \in Downloads PROVE [d EXCEPT !.rescanned = TRUE] \in Downloads
      BY DEF Downloads
    <3>1. download' \in [Reader -> Downloads]
      BY <2>1, <3>0 DEF MirrorInv, MirrorTypes
    <3>2. sync' \in Syncs
      BY <1>1 DEF NoSync, Syncs
    <3> QED BY <1>0, <1>1, <2>3, <3>1, <3>2 DEF MirrorInv, MirrorTypes
  <2>5. SyncOK' /\ CompleteOK'
    BY <1>0, <1>1, <2>2, <2>3 DEF MirrorInv, SyncOK, CompleteOK, NoSync
  <2>6. ASSUME NEW r \in Reader PROVE DownloadOK(r)'
    <3>0. download[r] \in Downloads
      BY DEF MirrorInv, MirrorTypes
    <3>1. /\ download'[r].pc = download[r].pc /\ download'[r].platform = download[r].platform
          /\ download'[r].from = download[r].from /\ download'[r].bytes = download[r].bytes
          /\ download'[r].rescanned
      BY <2>1, <3>0 DEF Downloads
    <3> QED BY <2>3, <3>1 DEF MirrorInv, DownloadOK
  <2>7. ServedWhole'
    BY <1>1 DEF MirrorInv, ServedWhole
  <2> QED BY <2>3, <2>4, <2>5, <2>6, <2>7 DEF MirrorInv
<1> QED BY <1>2, <1>3

(* A restart reads the directory as it is.                                 *)
LEMMA RestartKeeps == ASSUME MirrorInv, Restart PROVE MirrorInv'
<1> USE MirrorAssumption
<1>1. /\ UNCHANGED <<release, files, versionFile, served>>
      /\ sync' = NoSync /\ download' = [r \in Reader |-> NoDownload]
  BY DEF Restart
<1>2. PICK readAll \in BOOLEAN :
        /\ manifest' \in Scanned(readAll)
        /\ complete' = (complete /\ sync.pc = "idle" /\ readAll)
  BY DEF Restart
<1>3. /\ \A p \in Platform : Offered(p)'
      /\ manifest' \in [version : Nat, offer : [Platform -> Name \cup {NoFile}],
                        hash : [Platform -> Content \cup {Absent}]]
      /\ readAll => manifest'.version = versionFile'
  BY <1>1, <1>2, ScanKeeps
<1>4. MirrorTypes'
  BY <1>1, <1>2, <1>3 DEF MirrorInv, MirrorTypes, NoSync, Syncs, Downloads, NoDownload
<1>5. SyncOK' /\ CompleteOK'
  BY <1>1, <1>2, <1>3 DEF MirrorInv, SyncOK, CompleteOK, NoSync
<1>6. ASSUME NEW r \in Reader PROVE DownloadOK(r)'
  BY <1>1 DEF DownloadOK, NoDownload
<1>7. ServedWhole'
  BY <1>1 DEF MirrorInv, ServedWhole
<1> QED BY <1>3, <1>4, <1>5, <1>6, <1>7 DEF MirrorInv

(* Has, Load, DownloadName: between the calls a scan may change what is    *)
(* offered, or that anything is.                                           *)
LEMMA DownloadKeeps ==
    ASSUME MirrorInv, NEW r \in Reader,
           (\E p \in Platform : Has(r, p)) \/ Load(r) \/ DownloadName(r)
    PROVE  MirrorInv'
<1> USE MirrorAssumption
<1>1. UNCHANGED <<release, files, versionFile, manifest, sync, complete>>
  BY DEF Has, Load, DownloadName
<1>2. SyncOK' /\ CompleteOK'
  BY <1>1 DEF MirrorInv, SyncOK, CompleteOK
<1>3. ASSUME NEW p \in Platform PROVE Offered(p)'
  BY <1>1 DEF MirrorInv, Offered
<1>4. download \in [Reader -> Downloads]
  BY DEF MirrorInv, MirrorTypes
<1>5. SUFFICES /\ download' \in [Reader -> Downloads]
               /\ DownloadOK(r)'
               /\ \A x \in Reader \ {r} : download'[x] = download[x]
               /\ ServedWhole'
  <2>1. ASSUME NEW x \in Reader \ {r}, download'[x] = download[x] PROVE DownloadOK(x)'
    BY <1>1, <2>1 DEF MirrorInv, DownloadOK
  <2>2. ASSUME download' \in [Reader -> Downloads] PROVE MirrorTypes'
    BY <1>1, <2>2 DEF MirrorInv, MirrorTypes
  <2> QED BY <1>2, <1>3, <2>1, <2>2 DEF MirrorInv
<1>6. ASSUME NEW p \in Platform, Has(r, p)
      PROVE  /\ download' \in [Reader -> Downloads] /\ DownloadOK(r)'
             /\ \A x \in Reader \ {r} : download'[x] = download[x]
             /\ ServedWhole'
  <2> DEFINE e == [NoDownload EXCEPT !.pc = "load", !.platform = p]
  <2>0. NoDownload \in Downloads
    BY DEF NoDownload, Downloads
  <2>1. e \in Downloads /\ e.pc = "load" /\ e.platform = p
    BY <2>0 DEF Downloads
  <2>2. /\ download' = [download EXCEPT ![r] = e]
        /\ manifest.offer[p] # NoFile /\ served' = served
    BY <1>6 DEF Has
  <2> HIDE DEF e
  <2>3. ServedWhole'
    BY <2>2 DEF MirrorInv, ServedWhole
  <2>4. download'[r] = e /\ download' \in [Reader -> Downloads]
        /\ \A x \in Reader \ {r} : download'[x] = download[x]
    BY <1>4, <2>1, <2>2
  <2> QED BY <1>1, <2>1, <2>2, <2>3, <2>4 DEF DownloadOK
<1>7. ASSUME Load(r), download' # [download EXCEPT ![r] = NoDownload]
      PROVE  /\ download' \in [Reader -> Downloads] /\ DownloadOK(r)'
             /\ \A x \in Reader \ {r} : download'[x] = download[x]
             /\ ServedWhole'
  <2> DEFINE d == download[r]
             n == manifest.offer[d.platform]
  <2>1. d \in Downloads /\ d.pc = "load" /\ d.platform \in Platform /\ n # NoFile
    BY <1>4, <1>7 DEF Load, MirrorInv, DownloadOK
  <2>2. n \in Name /\ PlatformOf[n] = d.platform /\ files[n] \in Content
    BY <2>1 DEF MirrorInv, Offered, MirrorTypes
  <2>3. /\ download' = [download EXCEPT ![r] =
             [d EXCEPT !.pc = "name", !.from = n, !.bytes = files[n], !.rescanned = FALSE]]
        /\ served' = served
    BY <1>4, <1>7 DEF Load
  <2>4. ServedWhole'
    BY <2>3 DEF MirrorInv, ServedWhole
  <2> DEFINE e == [d EXCEPT !.pc = "name", !.from = n, !.bytes = files[n], !.rescanned = FALSE]
  <2>5. /\ e \in Downloads /\ e.pc = "name" /\ e.platform = d.platform /\ e.from = n
        /\ e.bytes = files[n]
    BY <2>1, <2>2 DEF Downloads
  <2>6. download'[r] = e /\ download' \in [Reader -> Downloads]
        /\ \A x \in Reader \ {r} : download'[x] = download[x]
    BY <1>4, <2>3, <2>5
  <2> HIDE DEF e
  <2>7. DownloadOK(r)'
    BY <1>1, <2>1, <2>2, <2>5, <2>6 DEF DownloadOK, Content
  <2> QED BY <2>4, <2>6, <2>7
<1>8. ASSUME DownloadName(r), manifest.offer[download[r].platform] # NoFile
      PROVE  /\ download' \in [Reader -> Downloads] /\ DownloadOK(r)'
             /\ \A x \in Reader \ {r} : download'[x] = download[x]
             /\ ServedWhole'
  <2> DEFINE d == download[r]
             s == [platform |-> d.platform, bytes |-> d.bytes, from |-> d.from,
                   as |-> manifest.offer[d.platform], rescanned |-> d.rescanned]
  <2>1. /\ d.pc = "name" /\ served' = served \cup {s}
        /\ download' = [download EXCEPT ![r] = NoDownload]
    BY <1>8 DEF DownloadName
  <2>2. /\ s.bytes.state \in {"whole", "cut"} /\ PlatformOf[s.from] = s.platform
        /\ s.as = s.from \/ s.rescanned
    BY <2>1 DEF MirrorInv, DownloadOK
  <2>3. ServedWhole'
    BY <2>1, <2>2 DEF MirrorInv, ServedWhole
  <2>4. NoDownload \in Downloads /\ NoDownload.pc = "idle"
    BY DEF NoDownload, Downloads
  <2> QED BY <1>4, <2>1, <2>3, <2>4 DEF DownloadOK
<1>9. ASSUME download' = [download EXCEPT ![r] = NoDownload], served' = served
      PROVE  /\ download' \in [Reader -> Downloads] /\ DownloadOK(r)'
             /\ \A x \in Reader \ {r} : download'[x] = download[x]
             /\ ServedWhole'
  <2>1. ServedWhole'
    BY <1>9 DEF MirrorInv, ServedWhole
  <2>2. NoDownload \in Downloads /\ NoDownload.pc = "idle"
    BY DEF NoDownload, Downloads
  <2> QED BY <1>4, <1>9, <2>1, <2>2 DEF DownloadOK
<1>10. Load(r) => served' = served
  BY DEF Load
<1>11. DownloadName(r) /\ manifest.offer[download[r].platform] = NoFile =>
         served' = served /\ download' = [download EXCEPT ![r] = NoDownload]
  BY DEF DownloadName
<1> QED BY <1>6, <1>7, <1>8, <1>9, <1>10, <1>11

(* Everything else the process does leaves the directory alone.            *)
LEMMA MirrorInvStep == ASSUME MirrorInv, [Next]_vars PROVE MirrorInv'
<1> USE HttpAssumption
<1>1. CASE UNCHANGED mirrorVars
  <2>1. UNCHANGED <<release, files, versionFile, manifest, sync, download, served, complete>>
    BY <1>1 DEF mirrorVars
  <2>2. ASSUME NEW p \in Platform PROVE Offered(p)' = Offered(p)
    BY <2>1 DEF Offered
  <2>3. ASSUME NEW r \in Reader PROVE DownloadOK(r)' = DownloadOK(r)
    BY <2>1 DEF DownloadOK
  <2> QED BY <2>1, <2>2, <2>3 DEF MirrorInv, MirrorTypes, SyncOK, CompleteOK, ServedWhole
<1>2. CASE Restart
  BY <1>2, RestartKeeps
<1>3. ASSUME NEW c \in Pool, NEW p \in Platform, Has(c, p) PROVE MirrorInv'
  BY <1>3, DownloadKeeps
<1>4. CASE MirrorStep
  <2>1. \/ \/ \E r \in {release, release + 1}, assets \in SUBSET Mirrored :
                SyncBegin(r, assets)
           \/ \E n \in Mirrored : FetchStart(n)
           \/ TruncateVersion \/ WriteVersion
        \/ FetchEnd \/ SyncEnd
        \/ \E r \in Reader : Load(r) \/ DownloadName(r)
    BY <1>4 DEF MirrorStep
  <2> QED BY <2>1, SyncMoves, FetchEndKeeps, SyncEndKeeps, DownloadKeeps
<1>5. \/ UNCHANGED mirrorVars \/ Restart \/ MirrorStep
      \/ \E c \in Pool, p \in Platform : Has(c, p)
  BY DEF Next, vars, DiagnosticHandler, SetConfigHandler, GetConfigHandler,
         AgentCommandsHandler, RunCommandHandler, Forward, DeleteAgentHandler,
         InstallerDownloadHandler, CollectorRestart
<1> QED BY <1>1, <1>2, <1>3, <1>4, <1>5

(* InstallerDist, ReleaseMirror, the download handler: however syncs,      *)
(* scans, restarts and downloads interleave.                               *)
THEOREM MirrorInvariant == Spec => []MirrorInv
<1>1. Init => MirrorInv
  BY MirrorInitial DEF Init
<1> QED BY <1>1, MirrorInvStep, PTL DEF Spec

(* While no sync is under way the manifest shows the hash of the file a    *)
(* download reads, and after a sync that got every installer and wrote     *)
(* version.txt, read back without error, the version it names is theirs:   *)
(* for any release, platform and file set.                                 *)
THEOREM ManifestHonestHolds == Spec => []ManifestHonest
<1>1. MirrorInv => ManifestHonest
  BY DEF MirrorInv, Offered, CompleteOK, ManifestHonest
<1> QED BY <1>1, MirrorInvariant, PTL

(* A download delivers a finished file of the platform asked for, under    *)
(* its own name unless a scan came in between: for any number of threads.  *)
THEOREM ServedWholeHolds == Spec => []ServedWhole
<1>1. MirrorInv => ServedWhole
  BY DEF MirrorInv
<1> QED BY <1>1, MirrorInvariant, PTL

-----------------------------------------------------------------------------
(* The registry.                                                           *)

LEMMA NoBeatApart == NoBeat \notin Beats
<1>1. \A b \in Beats : b.at \in Seen
  BY DEF Beats
<1>2. \A p \in Seen : p.endpoint \in Address
  BY DEF Seen
<1>3. NoBeat.at.endpoint = Nowhere
  BY DEF NoBeat, NoPlace
<1> QED BY <1>1, <1>2, <1>3, RegistryAssumption

LEMMA SpanFacts ==
    ASSUME NEW n \in Nat
    PROVE  Span(n) \in Nat /\ Span(n + 1) = Span(n) + BeatDeadline /\ n + 1 \in Nat
<1>1. BeatDeadline \in Nat
  BY RegistryAssumption
<1> QED BY <1>1 DEF Span

(* reconnect: an endpoint that was found out just now.                     *)
LEMMA AdvertiseFacts ==
    ASSUME NEW a \in Agent, NEW ad \in Address, NEW move \in Nat, NEW resolved \in BOOLEAN
    PROVE  /\ Advertise(a, ad, move, resolved) \in Places
           /\ Advertise(a, ad, move, resolved).move = move
           /\ Advertise(a, ad, move, resolved).own
                => Advertise(a, ad, move, resolved).endpoint = ad
<1> DEFINE e == IF Configured[a] # Nowhere THEN Configured[a]
                ELSE IF resolved THEN Inside[ad] ELSE Nowhere
<1>1. e \in Address \cup {Nowhere}
  BY RegistryAssumption
<1>2. Advertise(a, ad, move, resolved) = [endpoint |-> e, move |-> move, own |-> e = ad]
  BY DEF Advertise
<1> HIDE DEF e
<1>3. [endpoint |-> e, move |-> move, own |-> e = ad] \in Places
  BY <1>1, Zenon DEF Places
<1>4. [endpoint |-> e, move |-> move, own |-> e = ad].own => e = ad
  BY Zenon
<1> QED BY <1>2, <1>3, <1>4

(* What a step may do to the whereabouts of an agent.                      *)
Onward(a) ==
    \/ moves'[a] = moves[a] /\ addr'[a] = addr[a]
    \/ moves'[a] > moves[a]

LocatedNext(a, p) ==
    /\ p.move <= moves'[a]
    /\ p.move = moves'[a] /\ p.own /\ p.endpoint # Nowhere => p.endpoint = addr'[a]

LEMMA LocatedKept ==
    ASSUME NEW a, NEW p, p.move \in Nat, moves[a] \in Nat, moves'[a] \in Nat, Onward(a),
           Located(a, p)
    PROVE  LocatedNext(a, p)
  BY DEF Onward, Located, LocatedNext

LEMMA HeardKept ==
    ASSUME RegistryTypes, RegistryTypes', \A a \in Agent : Onward(a), NEW b \in Beats, Heard(b)
    PROVE  LocatedNext(b.from, b.at) /\ LocatedNext(b.from, b.advert)
<1>1. b.from \in Agent /\ b.at \in Seen /\ b.advert \in Places
  BY DEF Beats
<1>2. b.at.move \in Nat /\ b.advert.move \in Nat
  BY <1>1 DEF Places, Seen
<1>3. moves[b.from] \in Nat /\ moves'[b.from] \in Nat /\ Onward(b.from)
  BY <1>1 DEF RegistryTypes
<1> QED BY <1>2, <1>3, LocatedKept DEF Heard

(* A step of one agent, or of its entry: the others stay as they are.      *)
Same(a) ==
    /\ since'[a] = since[a] /\ pace'[a] = pace[a] /\ beat'[a] = beat[a]
    /\ entry'[a] = entry[a] /\ losses'[a] = losses[a] /\ excused'[a] = excused[a]
    /\ a \in here' <=> a \in here
    /\ addr'[a] = Nowhere <=> addr[a] = Nowhere

LEMMA SameKeeps ==
    ASSUME NEW a \in Agent, BeatOK(a), AgeOK(a), Same(a) PROVE BeatOK(a)' /\ AgeOK(a)'
<1>1. BeatOK(a)'
  BY DEF BeatOK, Beating, Same
<1>2. Unexcused(a)' <=> Unexcused(a)
  BY DEF Unexcused, Same
<1>3. AgeOK(a)'
  BY <1>2 DEF AgeOK, Beating, Same
<1> QED BY <1>1, <1>3

LEMMA OneAgent ==
    ASSUME RegistryInv, RegistryTypes', NEW x \in Agent, \A a \in Agent : Onward(a),
           \A a \in Agent \ {x} : Same(a) /\ advert'[a] = advert[a],
           \A b \in late' : b \in late \/ (Beating(x) /\ b = beat[x]),
           LocatedNext(x, advert'[x]), LocatedNext(x, entry'[x].place),
           beat'[x] # NoBeat => /\ beat'[x].from = x
                                /\ LocatedNext(x, beat'[x].at)
                                /\ LocatedNext(x, beat'[x].advert),
           BeatOK(x)', AgeOK(x)'
    PROVE  RegistryInv'
<1>0. RegistryTypes
  BY DEF RegistryInv
<1>1. ASSUME NEW b \in late' PROVE Heard(b)'
  <2>1. b \in Beats /\ Heard(b)
    BY <1>0 DEF RegistryInv, RegistryTypes, PlaceOK, Beating
  <2>2. LocatedNext(b.from, b.at) /\ LocatedNext(b.from, b.advert)
    BY <1>0, <2>1, HeardKept
  <2> QED BY <2>2 DEF Heard, Located, LocatedNext
<1>2. ASSUME NEW a \in Agent \ {x} PROVE PlaceOK(a)' /\ BeatOK(a)' /\ AgeOK(a)'
  <2>1. PlaceOK(a) /\ BeatOK(a) /\ AgeOK(a) /\ Same(a) /\ advert'[a] = advert[a] /\ Onward(a)
    BY DEF RegistryInv
  <2>2. advert[a] \in Places /\ entry[a].place \in Places /\ moves[a] \in Nat /\ moves'[a] \in Nat
    BY <1>0 DEF RegistryTypes, Entries
  <2>3. advert[a].move \in Nat /\ entry[a].place.move \in Nat
    BY <2>2 DEF Places
  <2>4. LocatedNext(a, advert[a]) /\ LocatedNext(a, entry[a].place)
    BY <2>1, <2>2, <2>3, LocatedKept DEF PlaceOK
  <2>5. ASSUME beat[a] # NoBeat
        PROVE  /\ beat[a].from = a
               /\ LocatedNext(a, beat[a].at) /\ LocatedNext(a, beat[a].advert)
    <3>1. beat[a] \in Beats /\ Heard(beat[a]) /\ beat[a].from = a
      BY <1>0, <2>1, <2>5 DEF RegistryTypes, PlaceOK, Beating
    <3>2. LocatedNext(beat[a].from, beat[a].at) /\ LocatedNext(beat[a].from, beat[a].advert)
      BY <1>0, <3>1, HeardKept
    <3> QED BY <3>1, <3>2
  <2>6. PlaceOK(a)'
    BY <2>1, <2>4, <2>5 DEF PlaceOK, Beating, Same, Heard, Located, LocatedNext
  <2> QED BY <2>1, <2>6, SameKeeps
<1>3. PlaceOK(x)'
  BY DEF PlaceOK, Beating, Heard, Located, LocatedNext
<1> QED BY <1>1, <1>2, <1>3 DEF RegistryInv

(* What is known of one agent and stays.                                   *)
LEMMA AgentFacts ==
    ASSUME RegistryInv, NEW x \in Agent
    PROVE  /\ addr[x] \in Address \cup {Nowhere} /\ advert[x] \in Places
           /\ since[x] \in Nat /\ entry[x] \in Entries /\ losses[x] \in Nat
           /\ moves[x] \in Nat /\ entry[x].age \in Nat
           /\ Beating(x) => beat[x] \in Beats /\ beat[x].age \in Nat /\ beat[x].from = x
           /\ PlaceOK(x) /\ BeatOK(x) /\ AgeOK(x)
           /\ (moves'[x] \in Nat /\ Onward(x) =>
                /\ LocatedNext(x, advert[x]) /\ LocatedNext(x, entry[x].place)
                /\ Beating(x) => /\ LocatedNext(x, beat[x].at)
                                 /\ LocatedNext(x, beat[x].advert))
<1>1. /\ addr[x] \in Address \cup {Nowhere} /\ advert[x] \in Places
      /\ since[x] \in Nat /\ entry[x] \in Entries /\ losses[x] \in Nat
      /\ moves[x] \in Nat /\ PlaceOK(x) /\ BeatOK(x) /\ AgeOK(x)
      /\ Beating(x) => beat[x] \in Beats
  BY DEF RegistryInv, RegistryTypes, Beating
<1>2. /\ entry[x].age \in Nat /\ entry[x].place \in Places
      /\ Beating(x) => /\ beat[x].age \in Nat /\ beat[x].at \in Seen
                       /\ beat[x].advert \in Places
  BY <1>1 DEF Entries, Beats
<1>3. /\ advert[x].move \in Nat /\ entry[x].place.move \in Nat
      /\ Beating(x) => beat[x].at.move \in Nat /\ beat[x].advert.move \in Nat
  BY <1>1, <1>2 DEF Places, Seen
<1>4. ASSUME moves'[x] \in Nat, Onward(x)
      PROVE  /\ LocatedNext(x, advert[x]) /\ LocatedNext(x, entry[x].place)
             /\ Beating(x) => LocatedNext(x, beat[x].at) /\ LocatedNext(x, beat[x].advert)
  BY <1>1, <1>3, <1>4, LocatedKept DEF PlaceOK, Heard
<1> QED BY <1>1, <1>2, <1>4 DEF PlaceOK

LEMMA RegistryInitial ==
    ASSUME NEW resolved \in BOOLEAN, RegistryInit(resolved),
           addr \in [Agent -> Address \cup {Nowhere}]
    PROVE  RegistryInv
<1> USE RegistryAssumption
<1>0. NoPlace \in Places /\ NoPlace.move = 0 /\ NoPlace.endpoint = Nowhere
  BY DEF NoPlace, Places
<1>1. ASSUME NEW a \in Agent
      PROVE  /\ advert[a] \in Places /\ advert[a].move = 0
             /\ advert[a].own /\ advert[a].endpoint # Nowhere => advert[a].endpoint = addr[a]
  <2>1. CASE addr[a] = Nowhere
    BY <1>0, <2>1 DEF RegistryInit
  <2>2. CASE addr[a] # Nowhere
    BY <2>2, AdvertiseFacts DEF RegistryInit
  <2> QED BY <2>1, <2>2
<1>2. Unknown \in Entries /\ Unknown.place = NoPlace /\ ~Unknown.known
  BY <1>0 DEF Unknown, Entries
<1>3. RegistryTypes
  BY <1>1, <1>2 DEF RegistryInit, RegistryTypes
<1>4. ASSUME NEW a \in Agent PROVE PlaceOK(a) /\ BeatOK(a) /\ AgeOK(a)
  BY <1>0, <1>1, <1>2 DEF RegistryInit, PlaceOK, Located, BeatOK, Beating, AgeOK, Unexcused
<1>5. late = {}
  BY DEF RegistryInit
<1> QED BY <1>3, <1>4, <1>5 DEF RegistryInv

(* An address is given or taken: what was heard before is from an earlier  *)
(* move.                                                                   *)
LEMMA MoveFacts ==
    ASSUME RegistryInv, NEW x \in Agent, NEW ad,
           addr' = [addr EXCEPT ![x] = ad], moves' = [moves EXCEPT ![x] = @ + 1]
    PROVE  /\ \A a \in Agent : Onward(a)
           /\ moves' \in [Agent -> Nat] /\ moves'[x] = moves[x] + 1 /\ addr'[x] = ad
           /\ \A a \in Agent \ {x} : addr'[a] = addr[a]
  BY DEF RegistryInv, RegistryTypes, Onward

LEMMA StartKeeps ==
    ASSUME RegistryInv, NEW x \in Agent, NEW ad \in Address, NEW resolved \in BOOLEAN,
           Start(x, ad, resolved)
    PROVE  RegistryInv'
<1> DEFINE p == Advertise(x, ad, moves[x] + 1, resolved)
<1>0. RegistryTypes /\ moves[x] + 1 \in Nat
  BY AgentFacts DEF RegistryInv
<1>1. /\ addr' = [addr EXCEPT ![x] = ad] /\ moves' = [moves EXCEPT ![x] = @ + 1]
      /\ here' = IF x \in Home THEN here \cup {x} ELSE here \ {x}
      /\ advert' = [advert EXCEPT ![x] = p]
      /\ since' = [since EXCEPT ![x] = Backoff] /\ pace' = [pace EXCEPT ![x] = "even"]
      /\ excused' = [excused EXCEPT ![x] = TRUE]
      /\ UNCHANGED <<beat, late, entry, losses>>
  BY DEF Start
<1>2. p \in Places /\ p.move = moves[x] + 1 /\ (p.own => p.endpoint = ad)
  BY <1>0, AdvertiseFacts
<1> HIDE DEF p
<1>3. RegistryTypes'
  BY <1>0, <1>1, <1>2, MoveFacts, RegistryAssumption DEF RegistryTypes
<1>4. ASSUME NEW a \in Agent \ {x} PROVE Same(a) /\ advert'[a] = advert[a]
  BY <1>0, <1>1 DEF RegistryTypes, Same
<1>5. LocatedNext(x, advert'[x])
  BY <1>0, <1>1, <1>2, MoveFacts DEF RegistryTypes, LocatedNext
<1>6. moves'[x] \in Nat /\ \A a \in Agent : Onward(a)
  BY <1>0, <1>1, MoveFacts
<1>7. BeatOK(x)'
  BY <1>0, <1>1, AgentFacts, RegistryAssumption DEF RegistryTypes, BeatOK, Beating
<1>8. AgeOK(x)'
  BY <1>0, <1>1 DEF RegistryTypes, AgeOK, Unexcused
<1> QED BY <1>1, <1>3, <1>4, <1>5, <1>6, <1>7, <1>8, AgentFacts, OneAgent DEF Beating

LEMMA StopKeeps == ASSUME RegistryInv, NEW x \in Agent, Stop(x) PROVE RegistryInv'
<1>0. RegistryTypes
  BY DEF RegistryInv
<1>1. /\ addr' = [addr EXCEPT ![x] = Nowhere] /\ moves' = [moves EXCEPT ![x] = @ + 1]
      /\ beat' = [beat EXCEPT ![x] = NoBeat]
      /\ late' = IF Beating(x) THEN late \cup GivenUp(beat[x]) ELSE late
      /\ UNCHANGED <<here, advert, since, pace, entry, losses, excused>>
  BY DEF Stop
<1>2. \A b \in late' : b \in late \/ (Beating(x) /\ b = beat[x])
  BY <1>1 DEF GivenUp
<1>3. RegistryTypes'
  <2>1. late' \subseteq Beats
    BY <1>0, <1>2, AgentFacts DEF RegistryTypes
  <2> QED BY <1>0, <1>1, <2>1, MoveFacts DEF RegistryTypes
<1>4. ASSUME NEW a \in Agent \ {x} PROVE Same(a) /\ advert'[a] = advert[a]
  BY <1>0, <1>1 DEF RegistryTypes, Same
<1>5. moves'[x] \in Nat /\ \A a \in Agent : Onward(a)
  BY <1>0, <1>1, MoveFacts
<1>6. beat'[x] = NoBeat /\ addr'[x] = Nowhere
  BY <1>0, <1>1 DEF RegistryTypes
<1>7. BeatOK(x)' /\ AgeOK(x)'
  BY <1>6 DEF BeatOK, AgeOK, Beating, Unexcused
<1> QED BY <1>1, <1>2, <1>3, <1>4, <1>5, <1>6, <1>7, AgentFacts, OneAgent

LEMMA ReaddressKeeps ==
    ASSUME RegistryInv, NEW x \in Agent, NEW ad \in Address, Readdress(x, ad)
    PROVE  RegistryInv'
<1>0. RegistryTypes
  BY DEF RegistryInv
<1>1. /\ addr' = [addr EXCEPT ![x] = ad] /\ moves' = [moves EXCEPT ![x] = @ + 1]
      /\ addr[x] # Nowhere
      /\ UNCHANGED <<here, advert, since, pace, beat, late, entry, losses, excused>>
  BY DEF Readdress
<1>2. RegistryTypes'
  BY <1>0, <1>1, MoveFacts DEF RegistryTypes
<1>3. ASSUME NEW a \in Agent PROVE Same(a) /\ advert'[a] = advert[a]
  BY <1>0, <1>1, RegistryAssumption DEF RegistryTypes, Same
<1>4. moves'[x] \in Nat /\ \A a \in Agent : Onward(a)
  BY <1>0, <1>1, MoveFacts
<1>5. BeatOK(x)' /\ AgeOK(x)'
  BY <1>3, SameKeeps, AgentFacts
<1> QED BY <1>1, <1>2, <1>3, <1>4, <1>5, AgentFacts, OneAgent DEF Beating

(* From here on nobody moves.                                              *)
LEMMA StayFacts ==
    ASSUME RegistryInv, UNCHANGED <<addr, moves>>
    PROVE  /\ \A a \in Agent : Onward(a) /\ moves'[a] \in Nat
           /\ addr' \in [Agent -> Address \cup {Nowhere}] /\ moves' \in [Agent -> Nat]
  BY DEF RegistryInv, RegistryTypes, Onward

LEMMA FailOverKeeps ==
    ASSUME RegistryInv, NEW x \in Agent, NEW to \in BOOLEAN, NEW resolved \in BOOLEAN,
           FailOver(x, to, resolved)
    PROVE  RegistryInv'
<1> DEFINE p == Advertise(x, addr[x], moves[x], resolved)
<1>0. RegistryTypes /\ moves[x] \in Nat /\ addr[x] \in Address
  BY AgentFacts DEF RegistryInv, FailOver
<1>1. /\ ~Beating(x) /\ here' = IF to THEN here \cup {x} ELSE here \ {x}
      /\ advert' = [advert EXCEPT ![x] = p]
      /\ excused' = [excused EXCEPT ![x] = @ \/ x \notin here]
      /\ UNCHANGED <<addr, pace, beat, late, entry, losses, moves>>
  BY DEF FailOver
<1>2. PICK s \in Nat : since' = [since EXCEPT ![x] = s] /\ (x \in here => s = since[x])
  BY AgentFacts DEF FailOver
<1>3. p \in Places /\ p.move = moves[x] /\ (p.own => p.endpoint = addr[x])
  BY <1>0, AdvertiseFacts
<1> HIDE DEF p
<1>4. RegistryTypes'
  BY <1>0, <1>1, <1>2, <1>3 DEF RegistryTypes
<1>5. ASSUME NEW a \in Agent \ {x} PROVE Same(a) /\ advert'[a] = advert[a]
  BY <1>0, <1>1, <1>2 DEF RegistryTypes, Same
<1>6. LocatedNext(x, advert'[x])
  BY <1>0, <1>1, <1>3 DEF RegistryTypes, LocatedNext
<1>7. BeatOK(x)'
  BY <1>1 DEF BeatOK, Beating
<1>8. AgeOK(x)'
  <2>1. CASE x \in here
    <3>1. Unexcused(x)' => Unexcused(x)
      BY <1>0, <1>1, <2>1 DEF RegistryTypes, Unexcused
    <3>2. since' = since
      BY <1>0, <1>2, <2>1 DEF RegistryTypes
    <3> QED BY <1>1, <3>1, <3>2, AgentFacts DEF AgeOK, Beating
  <2>2. CASE x \notin here
    BY <1>0, <1>1, <2>2 DEF RegistryTypes, AgeOK, Unexcused
  <2> QED BY <2>1, <2>2
<1> QED BY <1>1, <1>4, <1>5, <1>6, <1>7, <1>8, StayFacts, AgentFacts, OneAgent DEF Beating

LEMMA SetPaceKeeps ==
    ASSUME RegistryInv, NEW x \in Agent, NEW p \in {"even", "backoff", "sending"}, SetPace(x, p)
    PROVE  RegistryInv'
<1>0. RegistryTypes
  BY DEF RegistryInv
<1>1. /\ pace' = [pace EXCEPT ![x] = p] /\ excused' = [excused EXCEPT ![x] = TRUE]
      /\ UNCHANGED <<addr, here, advert, since, beat, late, entry, losses, moves>>
  BY DEF SetPace
<1>2. RegistryTypes'
  BY <1>0, <1>1 DEF RegistryTypes
<1>3. ASSUME NEW a \in Agent \ {x} PROVE Same(a) /\ advert'[a] = advert[a]
  BY <1>0, <1>1 DEF RegistryTypes, Same
<1>4. BeatOK(x)'
  BY <1>1, AgentFacts DEF BeatOK, Beating
<1>5. AgeOK(x)'
  BY <1>0, <1>1 DEF RegistryTypes, AgeOK, Unexcused
<1> QED BY <1>1, <1>2, <1>3, <1>4, <1>5, StayFacts, AgentFacts, OneAgent DEF Beating

LEMMA SendKeeps == ASSUME RegistryInv, NEW x \in Agent, SendHeartbeat(x) PROVE RegistryInv'
<1> DEFINE at == [endpoint |-> addr[x], move |-> moves[x], own |-> TRUE]
           b == [from |-> x, at |-> at, advert |-> advert[x], age |-> 0, recorded |-> FALSE]
<1>0. RegistryTypes
  BY DEF RegistryInv
<1>1. /\ since' = [since EXCEPT ![x] = 0] /\ beat' = [beat EXCEPT ![x] = b]
      /\ UNCHANGED <<addr, here, advert, pace, late, entry, losses, excused, moves>>
      /\ addr[x] # Nowhere /\ ~Beating(x)
  BY DEF SendHeartbeat, Due
<1>2. at \in Seen /\ at.move = moves[x] /\ at.endpoint = addr[x]
  BY <1>1, AgentFacts DEF Seen
<1>3. b \in Beats /\ b.from = x /\ b.age = 0 /\ ~b.recorded /\ b.at = at /\ b.advert = advert[x]
  BY <1>2, AgentFacts DEF Beats
<1> HIDE DEF at, b
<1>4. RegistryTypes' /\ beat'[x] = b /\ since'[x] = 0
  BY <1>0, <1>1, <1>3 DEF RegistryTypes
<1>5. ASSUME NEW a \in Agent \ {x} PROVE Same(a) /\ advert'[a] = advert[a]
  BY <1>0, <1>1 DEF RegistryTypes, Same
<1>6. LocatedNext(x, beat'[x].at)
  BY <1>1, <1>2, <1>3, <1>4, AgentFacts DEF LocatedNext
<1>7. BeatOK(x)'
  BY <1>3, <1>4, RegistryAssumption DEF BeatOK
<1>8. AgeOK(x)'
  <2>1. Unexcused(x)' => Unexcused(x)
    BY <1>1 DEF Unexcused
  <2>2. Span(losses[x] + 1) \in Nat
    BY AgentFacts, SpanFacts
  <2>3. beat'[x] # NoBeat
    BY <1>3, <1>4, NoBeatApart
  <2> QED BY <1>1, <1>3, <1>4, <2>1, <2>2, <2>3, AgentFacts DEF AgeOK, Beating
<1> QED BY <1>1, <1>3, <1>4, <1>5, <1>6, <1>7, <1>8, StayFacts, AgentFacts, OneAgent

(* The loop goes on: the answer has come, or none is awaited any longer.   *)
LEMMA EndKeeps ==
    ASSUME RegistryInv, NEW x \in Agent, Beating(x),
           beat' = [beat EXCEPT ![x] = NoBeat],
           UNCHANGED <<addr, here, advert, since, pace, entry, excused, moves>>,
           \A b \in late' : b \in late \/ b = beat[x],
           \/ losses' = losses /\ beat[x].recorded
           \/ losses' = [losses EXCEPT ![x] = UpTo(losses[x] + 1, Window)]
    PROVE  RegistryInv'
<1>0. RegistryTypes
  BY DEF RegistryInv
<1>1. losses[x] \in Nat /\ Window \in Nat
      /\ UpTo(losses[x] + 1, Window) \in Nat
      /\ (UpTo(losses[x] + 1, Window) < Window => UpTo(losses[x] + 1, Window) = losses[x] + 1)
  BY AgentFacts, RegistryAssumption DEF UpTo
<1>2. late' \subseteq Beats
  BY <1>0, AgentFacts DEF RegistryTypes
<1>3. RegistryTypes' /\ beat'[x] = NoBeat
  BY <1>0, <1>1, <1>2 DEF RegistryTypes
<1>4. ASSUME NEW a \in Agent \ {x} PROVE Same(a) /\ advert'[a] = advert[a]
  BY <1>0 DEF RegistryTypes, Same
<1>5. BeatOK(x)'
  BY <1>3 DEF BeatOK, Beating
<1>6. AgeOK(x)'
  <2>1. SUFFICES ASSUME Unexcused(x), losses'[x] < Window
                 PROVE  /\ entry[x].age <= Span(losses'[x] + 1)
                        /\ since[x] = 0 => entry[x].age <= Span(losses'[x])
    BY <1>3 DEF AgeOK, Beating, Unexcused
  <2>2. \/ losses'[x] = losses[x] /\ beat[x].recorded
        \/ losses'[x] = losses[x] + 1
    BY <1>0, <1>1, <2>1 DEF RegistryTypes
  <2>3. /\ entry[x].age \in Nat /\ beat[x].age \in Nat /\ beat[x].age <= BeatDeadline
        /\ since[x] = 0 => beat[x].age = 0
    BY AgentFacts DEF BeatOK
  <2>4. entry[x].age <= beat[x].age
        \/ (~beat[x].recorded /\ entry[x].age <= Span(losses[x] + 1) + beat[x].age)
    BY <1>1, <2>1, <2>2, AgentFacts DEF AgeOK
  <2>5. /\ Span(losses[x]) \in Nat /\ Span(losses[x] + 1) = Span(losses[x]) + BeatDeadline
        /\ Span(losses[x] + 2) = Span(losses[x] + 1) + BeatDeadline
        /\ BeatDeadline \in Nat
    <3>1. Span((losses[x] + 1) + 1) = Span(losses[x] + 1) + BeatDeadline
      BY <1>1, SpanFacts
    <3> QED BY <1>1, <3>1, SpanFacts, RegistryAssumption
  <2>6. CASE losses'[x] = losses[x] /\ beat[x].recorded
    BY <2>3, <2>4, <2>5, <2>6
  <2>7. CASE losses'[x] = losses[x] + 1
    <3>1. losses'[x] + 1 = losses[x] + 2
      BY <1>1, <2>7
    <3> QED BY <2>3, <2>4, <2>5, <2>7, <3>1
  <2> QED BY <2>2, <2>6, <2>7
<1> QED BY <1>3, <1>4, <1>5, <1>6, StayFacts, AgentFacts, OneAgent

(* A heartbeat is recorded, in time or late.                               *)
LEMMA RecordKeeps ==
    ASSUME RegistryInv, NEW x \in Agent, NEW b \in Beats, Heard(b), b.from = x,
           RecordHeartbeat(b), UNCHANGED <<addr, here, advert, since, pace, moves>>,
           late' \subseteq late,
           beat' = beat \/ (Beating(x) /\ beat' = [beat EXCEPT ![x].recorded = TRUE])
    PROVE  RegistryInv'
<1> DEFINE r == Recorded(b)
<1>0. RegistryTypes
  BY DEF RegistryInv
<1>1. /\ entry' = [entry EXCEPT ![x] = r] /\ losses' = [losses EXCEPT ![x] = 0]
      /\ excused' = [excused EXCEPT ![x] = FALSE]
  BY DEF RecordHeartbeat
<1>2. /\ r \in Entries /\ r.age = 0 /\ LocatedNext(x, r.place)
  <2>1. LocatedNext(x, b.at) /\ LocatedNext(x, b.advert)
    BY DEF Heard, Located, LocatedNext
  <2>2. b.at \in Places /\ b.advert \in Places
    BY DEF Beats, Seen, Places
  <2>3. NoPlace \in Places /\ LocatedNext(x, NoPlace)
    BY AgentFacts DEF NoPlace, Places, LocatedNext
  <2>4. EndpointOf(b) \in {b.at, b.advert, NoPlace}
    BY DEF EndpointOf, DiagnosticEndpointFromPeer
  <2>5. EndpointOf(b) \in Places /\ LocatedNext(x, EndpointOf(b))
    BY <2>1, <2>2, <2>3, <2>4
  <2> QED BY <2>5 DEF Recorded, Entries
<1> HIDE DEF r
<1>3. /\ beat' \in [Agent -> Beats \cup {NoBeat}]
      /\ \A a \in Agent \ {x} : beat'[a] = beat[a]
      /\ (beat'[x] # NoBeat) => /\ Beating(x) /\ beat'[x].from = x
                                /\ beat'[x].age = beat[x].age /\ beat'[x].at = beat[x].at
                                /\ beat'[x].advert = beat[x].advert
  <2>1. CASE beat' = beat
    BY <1>0, <2>1, AgentFacts DEF RegistryTypes, Beating
  <2>2. CASE Beating(x) /\ beat' = [beat EXCEPT ![x].recorded = TRUE]
    <3> DEFINE d == [beat[x] EXCEPT !.recorded = TRUE]
    <3>1. beat[x] \in Beats /\ beat[x].from = x
      BY <2>2, AgentFacts
    <3>2. /\ d \in Beats /\ d.from = x /\ d.age = beat[x].age /\ d.at = beat[x].at
          /\ d.advert = beat[x].advert
      BY <3>1 DEF Beats
    <3>3. beat' = [beat EXCEPT ![x] = d]
      BY <2>2
    <3> HIDE DEF d
    <3> QED BY <1>0, <2>2, <3>2, <3>3 DEF RegistryTypes
  <2> QED BY <2>1, <2>2
<1>4. RegistryTypes'
  BY <1>0, <1>1, <1>2, <1>3 DEF RegistryTypes
<1>5. ASSUME NEW a \in Agent \ {x} PROVE Same(a) /\ advert'[a] = advert[a]
  BY <1>0, <1>1, <1>3 DEF RegistryTypes, Same
<1>6. entry'[x] = r /\ losses'[x] = 0
  BY <1>0, <1>1 DEF RegistryTypes
<1>7. BeatOK(x)'
  BY <1>3, AgentFacts DEF BeatOK, Beating
<1>8. AgeOK(x)'
  <2>1. Span(0) \in Nat /\ Span(0 + 1) \in Nat
    BY SpanFacts
  <2>2. beat'[x] # NoBeat => beat'[x].age \in Nat
    BY <1>3, AgentFacts
  <2> QED BY <1>2, <1>6, <2>1, <2>2 DEF AgeOK, Beating
<1> QED BY <1>2, <1>3, <1>4, <1>5, <1>6, <1>7, <1>8, StayFacts, AgentFacts, OneAgent

(* The entry of a removed agent; all entries, and what is under way, after *)
(* a restart.                                                              *)
LEMMA ForgetKeeps ==
    ASSUME RegistryInv, entry' \in [Agent -> Entries],
           beat' \in [Agent -> Beats \cup {NoBeat}],
           \A a \in Agent : \/ entry'[a] = entry[a] /\ beat'[a] = beat[a]
                            \/ /\ entry'[a] = Unknown
                               /\ beat'[a] = beat[a] \/ beat'[a] = NoBeat,
           late' \subseteq late,
           UNCHANGED <<addr, here, advert, since, pace, losses, excused, moves>>
    PROVE  RegistryInv'
<1>1. RegistryTypes'
  BY DEF RegistryInv, RegistryTypes
<1>2. ASSUME NEW b \in late' PROVE Heard(b)'
  BY DEF RegistryInv, Heard, Located
<1>3. ASSUME NEW a \in Agent PROVE PlaceOK(a)' /\ BeatOK(a)' /\ AgeOK(a)'
  <2>1. beat'[a] = beat[a] \/ beat'[a] = NoBeat
    OBVIOUS
  <2>2. BeatOK(a)'
    BY <2>1, AgentFacts DEF BeatOK, Beating
  <2>3. AgeOK(a)'
    <3>1. CASE entry'[a] = entry[a] /\ beat'[a] = beat[a]
      BY <3>1, AgentFacts DEF AgeOK, Beating, Unexcused
    <3>2. CASE entry'[a] = Unknown
      BY <3>2 DEF AgeOK, Unexcused, Unknown
    <3> QED BY <3>1, <3>2
  <2>4. Located(a, entry[a].place)'
    <3>1. CASE entry'[a] = entry[a]
      BY <3>1, AgentFacts DEF PlaceOK, Located
    <3>2. CASE entry'[a] = Unknown
      BY <3>2, AgentFacts DEF Unknown, NoPlace, Located
    <3> QED BY <3>1, <3>2
  <2>5. PlaceOK(a)'
    BY <2>1, <2>4, AgentFacts DEF PlaceOK, Heard, Located, Beating
  <2> QED BY <2>2, <2>3, <2>5
<1> QED BY <1>1, <1>2, <1>3 DEF RegistryInv

(* A tick finds every due heartbeat sent and none overdue.                 *)
LEMMA TickKeeps == ASSUME RegistryInv, TickRegistry PROVE RegistryInv'
<1>0. RegistryTypes /\ Backoff \in Nat /\ Backoff > 0 /\ BeatDeadline \in Nat
      /\ BeatDeadline > 0 /\ Window \in Nat
  BY RegistryAssumption DEF RegistryInv
<1>1. /\ since' = [a \in Agent |-> UpTo(since[a] + 1, Backoff)]
      /\ beat' = [a \in Agent |->
                    IF Beating(a) THEN [beat[a] EXCEPT !.age = @ + 1] ELSE NoBeat]
      /\ entry' = [a \in Agent |-> [entry[a] EXCEPT !.age = UpTo(@ + 1, Window)]]
      /\ UNCHANGED <<addr, here, advert, pace, late, losses, excused, moves>>
      /\ ~Urgent
  BY DEF TickRegistry
<1>2. ASSUME NEW a \in Agent
      PROVE  /\ since'[a] \in Nat /\ beat'[a] \in Beats \cup {NoBeat} /\ entry'[a] \in Entries
             /\ PlaceOK(a)' /\ BeatOK(a)' /\ AgeOK(a)'
  <2>0. /\ since[a] \in Nat /\ entry[a] \in Entries /\ entry[a].age \in Nat
        /\ losses[a] \in Nat /\ PlaceOK(a) /\ BeatOK(a) /\ AgeOK(a)
        /\ Beating(a) => beat[a] \in Beats /\ beat[a].age \in Nat
    BY AgentFacts
  <2>1. ~Due(a) /\ (Beating(a) => beat[a].age < BeatDeadline)
    BY <1>0, <1>1, <2>0 DEF Urgent
  <2>2. since'[a] \in Nat /\ since'[a] > 0
    BY <1>0, <1>1, <2>0 DEF UpTo
  <2> DEFINE e == [entry[a] EXCEPT !.age = UpTo(entry[a].age + 1, Window)]
  <2>3. /\ e \in Entries /\ e.age <= entry[a].age + 1 /\ e.age \in Nat
        /\ e.place = entry[a].place /\ e.known = entry[a].known
    BY <1>0, <2>0 DEF Entries, UpTo
  <2>4. entry'[a] = e
    BY <1>1
  <2> HIDE DEF e
  <2>5. Unexcused(a)' => Unexcused(a)
    BY <1>1, <2>3, <2>4 DEF Unexcused
  <2>6. Located(a, advert[a])' /\ Located(a, entry[a].place)'
    BY <1>1, <2>0, <2>3, <2>4 DEF PlaceOK, Located
  <2>7. CASE ~Beating(a)
    <3>1. beat'[a] = NoBeat
      BY <1>1, <2>7
    <3>2. AgeOK(a)'
      <4>1. SUFFICES ASSUME Unexcused(a), losses[a] < Window
                     PROVE  e.age <= Span(losses[a] + 1)
        BY <1>1, <2>2, <2>4, <2>5, <3>1 DEF AgeOK, Beating
      <4>2. since[a] = 0
        BY <2>0, <2>1, <2>7, <4>1 DEF Due, Interval, Unexcused
      <4>3. entry[a].age <= Span(losses[a])
        BY <2>0, <2>7, <4>1, <4>2 DEF AgeOK
      <4>4. Span(losses[a]) \in Nat /\ Span(losses[a] + 1) = Span(losses[a]) + BeatDeadline
        BY <2>0, SpanFacts
      <4> QED BY <1>0, <2>0, <2>3, <4>3, <4>4
    <3> QED BY <2>2, <2>3, <2>4, <2>6, <3>1, <3>2 DEF PlaceOK, BeatOK, Beating
  <2>8. CASE Beating(a)
    <3> DEFINE b == [beat[a] EXCEPT !.age = beat[a].age + 1]
    <3>1. /\ b \in Beats /\ b.age = beat[a].age + 1 /\ b.from = beat[a].from
          /\ b.at = beat[a].at /\ b.advert = beat[a].advert
      BY <2>0, <2>8 DEF Beats
    <3>r. b.recorded = beat[a].recorded
      BY <2>0, <2>8 DEF Beats
    <3>2. beat'[a] = b /\ b # NoBeat
      BY <1>1, <2>8, <3>1, NoBeatApart
    <3> HIDE DEF b
    <3>3. BeatOK(a)'
      BY <1>0, <2>0, <2>1, <2>2, <2>8, <3>1, <3>2 DEF BeatOK
    <3>4. PlaceOK(a)'
      BY <1>1, <2>0, <2>6, <2>8, <3>1, <3>2 DEF PlaceOK, Heard, Located, Beating
    <3>5. AgeOK(a)'
      <4>1. SUFFICES ASSUME Unexcused(a), losses[a] < Window
                     PROVE  e.age <= b.age
                            \/ (~b.recorded /\ e.age <= Span(losses[a] + 1) + b.age)
        BY <1>1, <2>4, <2>5, <3>2 DEF AgeOK, Beating
      <4>2. entry[a].age <= beat[a].age
            \/ (~beat[a].recorded /\ entry[a].age <= Span(losses[a] + 1) + beat[a].age)
        BY <2>0, <2>8, <4>1 DEF AgeOK
      <4>3. Span(losses[a] + 1) \in Nat
        BY <2>0, SpanFacts
      <4> QED BY <2>0, <2>3, <2>8, <3>1, <3>r, <4>2, <4>3
    <3> QED BY <2>2, <2>3, <2>4, <3>1, <3>2, <3>3, <3>4, <3>5
  <2> QED BY <2>7, <2>8
<1>3. RegistryTypes'
  BY <1>0, <1>1, <1>2 DEF RegistryTypes
<1>4. ASSUME NEW b \in late' PROVE Heard(b)'
  BY <1>1 DEF RegistryInv, Heard, Located
<1> QED BY <1>2, <1>3, <1>4 DEF RegistryInv

(* Every step, as far as agents are concerned.                             *)
LEMMA RegistryCases ==
    ASSUME [Next]_vars
    PROVE  \/ UNCHANGED agentVars \/ CollectorRestart \/ TickRegistry \/ RegistryStep
           \/ \E x \in Agent : RemoveAgent(x) \/ Stop(x)
<1>1. CASE CallStep
  BY <1>1 DEF CallStep, Tick, Killed, Dispatch, CheckAlive, Arrive, Unreachable,
              DeadlineExceeded, NextTool, Answer, registryVars
<1>2. CASE Next /\ ~CallStep
  BY <1>2 DEF Next, DiagnosticHandler, SetConfigHandler, GetConfigHandler,
       AgentCommandsHandler, RunCommandHandler, Forward, Request, DeleteAgentHandler,
       InstallerDownloadHandler, registryVars
<1>3. CASE UNCHANGED vars
  BY <1>3 DEF vars, registryVars
<1> QED BY <1>1, <1>2, <1>3

LEMMA RegistryInvStep == ASSUME RegistryInv, [Next]_vars PROVE RegistryInv'
<1>0. RegistryTypes /\ Unknown \in Entries
  BY RegistryAssumption DEF RegistryInv, Unknown, Entries, NoPlace, Places
<1>1. CASE UNCHANGED agentVars
  <2>1. UNCHANGED <<addr, here, advert, since, pace, beat, late, entry, losses, excused, moves>>
    BY <1>1 DEF agentVars
  <2> QED BY <1>0, <2>1, ForgetKeeps DEF RegistryTypes
<1>2. ASSUME NEW x \in Agent, RemoveAgent(x) PROVE RegistryInv'
  <2>1. /\ entry' = [entry EXCEPT ![x] = Unknown]
        /\ UNCHANGED <<addr, here, advert, since, pace, beat, late, losses, excused, moves>>
    BY <1>2 DEF RemoveAgent
  <2> QED BY <1>0, <2>1, ForgetKeeps DEF RegistryTypes
<1>3. CASE CollectorRestart
  <2>1. /\ entry' = [a \in Agent |-> Unknown] /\ beat' = [a \in Agent |-> NoBeat]
        /\ late' = {}
        /\ UNCHANGED <<addr, here, advert, since, pace, losses, excused, moves>>
    BY <1>3 DEF CollectorRestart
  <2> QED BY <1>0, <2>1, ForgetKeeps
<1>4. CASE RegistryStep
  <2>1. ASSUME NEW x \in Agent, Receive(x) PROVE RegistryInv'
    <3>1. beat[x] \in Beats /\ Heard(beat[x]) /\ beat[x].from = x
      BY <2>1, AgentFacts DEF Receive, PlaceOK
    <3>2. /\ RecordHeartbeat(beat[x]) /\ Beating(x)
          /\ beat' = [beat EXCEPT ![x].recorded = TRUE]
          /\ UNCHANGED <<addr, here, advert, since, pace, late, moves>>
      BY <2>1 DEF Receive
    <3>3. PICK b \in Beats : b = beat[x]
      BY <3>1
    <3> QED BY <3>1, <3>2, <3>3, RecordKeeps
  <2>2. ASSUME NEW b \in late, ReceiveLate(b) PROVE RegistryInv'
    <3>1. b \in Beats /\ Heard(b) /\ b.from \in Agent
      BY <1>0 DEF RegistryInv, RegistryTypes, Beats
    <3>2. /\ RecordHeartbeat(b) /\ late' \subseteq late
          /\ UNCHANGED <<addr, here, advert, since, pace, beat, moves>>
      BY <2>2 DEF ReceiveLate
    <3> QED BY <3>1, <3>2, RecordKeeps
  <2>3. ASSUME NEW x \in Agent, HeartbeatAnswered(x) PROVE RegistryInv'
    <3>1. /\ Beating(x) /\ beat[x].recorded /\ beat' = [beat EXCEPT ![x] = NoBeat]
          /\ UNCHANGED <<addr, here, advert, since, pace, late, entry, losses, excused, moves>>
      BY <2>3 DEF HeartbeatAnswered
    <3> QED BY <3>1, EndKeeps
  <2>4. ASSUME NEW x \in Agent, NEW arrives \in BOOLEAN, LoseHeartbeat(x, arrives)
        PROVE  RegistryInv'
    <3>1. /\ Beating(x) /\ beat' = [beat EXCEPT ![x] = NoBeat]
          /\ UNCHANGED <<addr, here, advert, since, pace, entry, excused, moves>>
          /\ losses' = [losses EXCEPT ![x] = IF beat[x].recorded THEN losses[x]
                                             ELSE UpTo(losses[x] + 1, Window)]
      BY <2>4 DEF LoseHeartbeat
    <3>2. \A b \in late' : b \in late \/ b = beat[x]
      BY <2>4 DEF LoseHeartbeat, GivenUp
    <3>3. \/ losses' = losses /\ beat[x].recorded
          \/ losses' = [losses EXCEPT ![x] = UpTo(losses[x] + 1, Window)]
      BY <1>0, <3>1 DEF RegistryTypes
    <3> QED BY <3>1, <3>2, <3>3, EndKeeps
  <2> QED BY <1>4, <2>1, <2>2, <2>3, <2>4, StartKeeps, ReaddressKeeps, FailOverKeeps,
             SetPaceKeeps, SendKeeps DEF RegistryStep
<1> QED BY <1>1, <1>2, <1>3, <1>4, RegistryCases, TickKeeps, StopKeeps

(* The heartbeats, their losses and their record: for any number of agents *)
(* and any deadline, window and interval.                                  *)
THEOREM RegistryInvariant == Spec => []RegistryInv
<1>1. Init => RegistryInv
  <2> SUFFICES ASSUME Init PROVE RegistryInv
    OBVIOUS
  <2>1. PICK s \in Scenarios : addr \in s.start /\ RegistryInit(s.resolved)
    BY DEF Init
  <2>2. addr \in [Agent -> Address \cup {Nowhere}] /\ s.resolved \in BOOLEAN
    BY <2>1, HttpAssumption
  <2> QED BY <2>1, <2>2, RegistryInitial
<1> QED BY <1>1, RegistryInvStep, PTL DEF Spec

(* IsAgentAlive: a known agent that runs here at its own pace is not shown *)
(* dead before the heartbeats it lost in a row, with a late answer before  *)
(* and a slow one after them, have used up the window.                     *)
THEOREM DeadExplainedHolds == Spec => []DeadExplained
<1>1. RegistryInv => DeadExplained
  <2> SUFFICES ASSUME RegistryInv, NEW a \in Agent, entry[a].known, ~IsAgentAlive(a),
                      addr[a] # Nowhere, a \in here, pace[a] = "even", ~excused[a]
               PROVE  Span(losses[a] + 2) >= Window
    BY DEF DeadExplained, Span
  <2>0. Window \in Nat /\ BeatDeadline \in Nat /\ BeatDeadline > 0
    BY RegistryAssumption
  <2>1. /\ losses[a] \in Nat /\ entry[a].age \in Nat /\ AgeOK(a) /\ BeatOK(a)
        /\ Beating(a) => beat[a].age \in Nat
    BY AgentFacts
  <2>2. entry[a].age >= Window
    BY <2>0, <2>1 DEF IsAgentAlive
  <2>3. /\ Span(losses[a]) \in Nat /\ Span(losses[a] + 1) = Span(losses[a]) + BeatDeadline
        /\ Span((losses[a] + 1) + 1) = Span(losses[a] + 1) + BeatDeadline
        /\ (losses[a] + 1) + 1 = losses[a] + 2
    BY <2>1, SpanFacts
  <2>4. CASE losses[a] < Window
    <3>1. entry[a].age <= Span(losses[a] + 1) + BeatDeadline
      BY <2>0, <2>1, <2>3, <2>4 DEF AgeOK, BeatOK, Unexcused
    <3> QED BY <2>0, <2>1, <2>2, <2>3, <3>1
  <2>5. CASE losses[a] >= Window
    <3>1. losses[a] * BeatDeadline >= losses[a]
      BY <2>0, <2>1
    <3> QED BY <2>0, <2>1, <2>3, <2>5, <3>1 DEF Span
  <2> QED BY <2>0, <2>1, <2>4, <2>5
<1> QED BY <1>1, RegistryInvariant, PTL

-----------------------------------------------------------------------------
(* The calls.                                                              *)

LEMMA LimitFacts ==
    /\ VersionLimit \in Nat /\ ToolLimit \in Nat /\ TraceLimit \in Nat /\ TraceTime \in Nat
    /\ QuickDeadline \in Nat /\ HttpDeadline \in Nat /\ WorkerDeadline \in Nat
    /\ Bursts \subseteq Nat /\ Captures \subseteq Nat
    /\ Pool \cap Worker = {} /\ Asked \subseteq Command /\ Scheduled \subseteq Command
  BY CallsAssumption

(* The plans of every kind of call.                                        *)
LEMMA PlanTypes ==
    ASSUME NEW kind \in Kinds, NEW plan \in Plans(kind) PROVE plan \in Seq(Limits)
<1> USE LimitFacts DEF Limits
<1>1. << >> \in Seq(Limits)
  OBVIOUS
<1>2. ASSUME NEW x \in Limits PROVE <<x>> \in Seq(Limits)
  OBVIOUS
<1>3. ASSUME NEW x \in Limits, NEW y \in Limits PROVE <<x, y>> \in Seq(Limits)
  OBVIOUS
<1>4. CASE kind = "speedtest"
  <2>1. plan = << >> \/ \E v \in {<<VersionLimit>>, <<VersionLimit, VersionLimit>>},
                           s \in {<<ToolLimit>>, <<ToolLimit, ToolLimit>>} : plan = v \o s
    BY <1>4 DEF Plans, RunSpeedtest
  <2>2. ASSUME NEW v \in {<<VersionLimit>>, <<VersionLimit, VersionLimit>>},
               NEW s \in {<<ToolLimit>>, <<ToolLimit, ToolLimit>>}
        PROVE  v \o s \in Seq(Limits)
    <3>1. v \in Seq(Limits) /\ s \in Seq(Limits)
      BY <1>2, <1>3
    <3> QED BY <3>1, ConcatProperties
  <2> QED BY <1>1, <2>1, <2>2
<1>5. CASE kind = "hdd_check"
  BY <1>1, <1>2, <1>5 DEF Plans, RunHddCheck
<1>6. CASE kind = "ping_burst"
  BY <1>2, <1>6 DEF Plans, RunPingBurst
<1>7. CASE kind = "route_quality"
  BY <1>2, <1>7 DEF Plans, RunRouteQuality
<1>8. CASE kind = "diagnostic"
  <2>1. \E s \in {<< >>, <<TraceTime>>}, q \in {<< >>} \cup {<<d>> : d \in Captures} :
            plan = s \o q
    BY <1>8 DEF Plans, RunDiagnostic
  <2>2. ASSUME NEW s \in {<< >>, <<TraceTime>>},
               NEW q \in {<< >>} \cup {<<d>> : d \in Captures}
        PROVE  s \o q \in Seq(Limits)
    <3>1. s \in Seq(Limits) /\ q \in Seq(Limits)
      BY <1>1, <1>2
    <3> QED BY <3>1, ConcatProperties
  <2> QED BY <2>1, <2>2
<1>9. CASE kind \notin {"speedtest", "hdd_check", "ping_burst", "route_quality", "diagnostic"}
  BY <1>1, <1>9 DEF Plans, RunNothing
<1> QED BY <1>4, <1>5, <1>6, <1>7, <1>8, <1>9

(* RunSpeedtest: m questions for the version, then n runs of the tool.     *)
LEMMA SpeedtestPlans ==
    ASSUME NEW plan \in RunSpeedtest, plan # << >>
    PROVE  \E m \in {1, 2}, n \in {1, 2} :
             /\ plan \in Seq(Nat) /\ Len(plan) = m + n
             /\ \A i \in 1 .. m + n : plan[i] = IF i <= m THEN VersionLimit ELSE ToolLimit
             /\ n = 2 => Repeated(plan)
<1> USE LimitFacts
<1>1. PICK v \in {<<VersionLimit>>, <<VersionLimit, VersionLimit>>},
           s \in {<<ToolLimit>>, <<ToolLimit, ToolLimit>>} : plan = v \o s
  BY DEF RunSpeedtest
<1>2. /\ v \in Seq(Nat) /\ Len(v) \in {1, 2} /\ \A i \in 1 .. Len(v) : v[i] = VersionLimit
      /\ s \in Seq(Nat) /\ Len(s) \in {1, 2} /\ \A i \in 1 .. Len(s) : s[i] = ToolLimit
  <2>1. ASSUME NEW x \in Nat, NEW q \in {<<x>>, <<x, x>>}
        PROVE  q \in Seq(Nat) /\ Len(q) \in {1, 2} /\ \A i \in 1 .. Len(q) : q[i] = x
    <3>1. CASE q = <<x>>
      BY <3>1
    <3>2. CASE q = <<x, x>>
      BY <3>2
    <3> QED BY <3>1, <3>2
  <2>2. v \in Seq(Nat) /\ Len(v) \in {1, 2} /\ \A i \in 1 .. Len(v) : v[i] = VersionLimit
    BY <2>1, Zenon
  <2>3. s \in Seq(Nat) /\ Len(s) \in {1, 2} /\ \A i \in 1 .. Len(s) : s[i] = ToolLimit
    BY <2>1, Zenon
  <2> QED BY <2>2, <2>3
<1>3. PICK m \in {1, 2}, n \in {1, 2} : m = Len(v) /\ n = Len(s)
  BY <1>2
<1>4. /\ plan \in Seq(Nat) /\ Len(plan) = m + n
      /\ \A i \in 1 .. m + n : plan[i] = IF i <= m THEN v[i] ELSE s[i - m]
  BY <1>1, <1>2, <1>3, ConcatProperties
<1>5. \A i \in 1 .. m + n : plan[i] = IF i <= m THEN VersionLimit ELSE ToolLimit
  <2> TAKE i \in 1 .. m + n
  <2>1. CASE i <= m
    BY <1>2, <1>3, <1>4, <2>1
  <2>2. CASE i > m
    <3>1. i - m \in 1 .. n
      BY <2>2
    <3>2. s[i - m] = ToolLimit
      BY <1>2, <1>3, <3>1
    <3> QED BY <1>4, <2>2, <3>2
  <2> QED BY <2>1, <2>2
<1>6. CASE n = 2
  <2>1. {i \in DOMAIN plan : plan[i] = ToolLimit} = {m + 1, m + 2}
    <3>1. DOMAIN plan = 1 .. m + 2
      BY <1>4, <1>6, LenProperties
    <3> QED BY <1>5, <1>6, <3>1, CallsAssumption
  <2>2. IsFiniteSet({m + 1}) /\ Cardinality({m + 1}) = 1
    BY FS_Singleton
  <2>3. {m + 1} \cup {m + 2} = {m + 1, m + 2} /\ m + 2 \notin {m + 1}
    OBVIOUS
  <2>4. Cardinality({m + 1} \cup {m + 2}) = Cardinality({m + 1}) + 1
    BY <2>2, <2>3, FS_AddElement
  <2>5. Cardinality({m + 1, m + 2}) = 2
    BY <2>2, <2>3, <2>4
  <2>6. Repeated(plan)
    BY <2>1, <2>5 DEF Repeated
  <2> QED BY <1>4, <1>5, <2>6
<1>7. CASE n = 1
  BY <1>4, <1>5, <1>7
<1> QED BY <1>6, <1>7

(* What an agent may run for a call that is not exempt fits into the       *)
(* deadline of the call.                                                   *)
LEMMA PlanFits ==
    ASSUME NEW c \in Caller, NEW kind \in Kinds, NEW plan \in Plans(kind),
           c \in Worker => kind \in Command,
           ~Exempt(kind, plan, c \in Worker)
    PROVE  /\ Len(plan) <= 4 /\ plan \in Seq(Nat)
           /\ LimitAt(plan, 1) + LimitAt(plan, 2) + LimitAt(plan, 3) + LimitAt(plan, 4)
                < Deadline(c, kind)
<1> USE LimitFacts
<1>1. kind \notin {"ping_burst", "hdd_check", "diagnostic"}
  BY DEF Exempt
<1>d. /\ kind \in Command /\ c \notin Worker => Deadline(c, kind) = HttpDeadline
      /\ c \in Worker => Deadline(c, kind) = WorkerDeadline
      /\ Deadline(c, kind) \in {HttpDeadline, WorkerDeadline, QuickDeadline}
  BY DEF Deadline
<1>e. /\ HttpDeadline > 0 /\ WorkerDeadline > 0 /\ QuickDeadline > 0
      /\ 2 * VersionLimit + 2 * ToolLimit < HttpDeadline
      /\ 2 * VersionLimit + ToolLimit < WorkerDeadline /\ TraceLimit <= ToolLimit
  BY CallsAssumption
<1>f. CASE plan = << >>
  <2>1. plan \in Seq(Nat) /\ Len(plan) = 0
    BY <1>f
  <2>2. \A i \in 1 .. 4 : LimitAt(plan, i) = 0
    BY <2>1 DEF LimitAt
  <2> QED BY <1>d, <1>e, <2>1, <2>2
<1>2. CASE kind = "speedtest" /\ plan # << >>
  <2>1. plan \in RunSpeedtest /\ (c \in Worker => ~Repeated(plan)) /\ kind \in Command
    BY <1>2 DEF Exempt, Plans, Command
  <2>2. PICK m \in {1, 2}, n \in {1, 2} :
             /\ plan \in Seq(Nat) /\ Len(plan) = m + n
             /\ \A i \in 1 .. m + n : plan[i] = IF i <= m THEN VersionLimit ELSE ToolLimit
             /\ n = 2 => Repeated(plan)
    BY <1>2, <2>1, SpeedtestPlans
  <2>3. \A i \in 1 .. 4 : LimitAt(plan, i) = IF i <= m THEN VersionLimit
                                             ELSE IF i <= m + n THEN ToolLimit ELSE 0
    BY <2>2 DEF LimitAt
  <2>4. CASE c \in Worker
    BY <1>d, <1>e, <2>1, <2>2, <2>3, <2>4
  <2>5. CASE c \notin Worker
    BY <1>d, <1>e, <2>1, <2>2, <2>3, <2>5
  <2> QED BY <2>4, <2>5
<1>3. CASE kind = "route_quality"
  <2>1. PICK x \in {ToolLimit, TraceLimit} : plan = <<x>>
    BY <1>3 DEF Plans, RunRouteQuality
  <2>2. plan \in Seq(Nat) /\ Len(plan) = 1 /\ plan[1] = x
    BY <2>1
  <2>3. LimitAt(plan, 1) = x /\ LimitAt(plan, 2) = 0 /\ LimitAt(plan, 3) = 0
        /\ LimitAt(plan, 4) = 0
    BY <2>2 DEF LimitAt
  <2>4. kind \in Command
    BY <1>3 DEF Command
  <2> QED BY <1>d, <1>e, <2>2, <2>3, <2>4
<1>4. CASE kind \notin {"speedtest", "route_quality"}
  <2>1. plan = << >>
    BY <1>1, <1>4 DEF Plans, RunNothing
  <2> QED BY <1>f, <2>1
<1> QED BY <1>f, <1>2, <1>3, <1>4

LEMMA CallFacts ==
    ASSUME CallInv, NEW c \in Caller
    PROVE  /\ Active(c) <=> call[c] \in Calls
           /\ Active(c) <=> call[c].pc # "idle"
           /\ Active(c) => call[c].id \in Nat /\ call[c].id > callsLeft /\ call[c].for \in Agent
                           /\ call[c].kind \in Kinds /\ call[c].left \in Nat
                           /\ call[c].place \in Places /\ call[c].place.move \in Nat
           /\ ~Active(c) => call[c].id = 0
           /\ callsLeft \in Nat
<1>1. call[c] \in Calls \cup {NoCall} /\ CallOK(c) /\ callsLeft \in Nat
  BY DEF CallInv, CallTypes
<1>2. NoCall.pc = "idle" /\ NoCall.id = 0
  BY DEF NoCall
<1>3. call[c] \in Calls => call[c].pc # "idle"
  BY DEF Calls
<1>4. call[c] \in Calls => call[c].id \in Nat /\ call[c].for \in Agent /\ call[c].kind \in Kinds
                           /\ call[c].left \in Nat /\ call[c].place \in Places
  BY DEF Calls
<1>5. call[c] \in Calls => call[c].place.move \in Nat
  BY <1>4 DEF Places
<1> QED BY <1>1, <1>2, <1>3, <1>4, <1>5 DEF Active, CallOK

AllOnward == \A a \in Agent : Onward(a) /\ moves'[a] \in Nat

LEMMA Staying == ASSUME RegistryTypes, UNCHANGED <<addr, moves>> PROVE AllOnward
  BY DEF RegistryTypes, AllOnward, Onward

(* What is called and executed stays true while nothing new begins, and    *)
(* while agents move.                                                      *)
LEMMA CallKept ==
    ASSUME RegistryTypes, CallInv, NEW c \in Caller, call'[c] = call[c],
           callsLeft' <= callsLeft, callsLeft' \in Nat,
           AllOnward,
           c \in Worker /\ Active(c) => call[c].for \in busy'
    PROVE  CallOK(c)'
<1>1. SUFFICES ASSUME Active(c) PROVE CallOK(c)'
  BY DEF CallOK, Active
<1>2. /\ call[c].id \in Nat /\ call[c].id > callsLeft /\ call[c].for \in Agent
      /\ call[c].place.move \in Nat /\ callsLeft \in Nat /\ CallOK(c)
  BY <1>1, CallFacts DEF CallInv
<1>3. PICK a, q : a = call[c].for /\ q = call[c].place /\ a \in Agent /\ q.move \in Nat
  BY <1>2
<1>4. Located(a, q) /\ moves[a] \in Nat /\ moves'[a] \in Nat /\ Onward(a)
  BY <1>1, <1>2, <1>3 DEF CallOK, AllOnward, RegistryTypes
<1>5. LocatedNext(a, q)
  BY <1>3, <1>4, LocatedKept
<1>6. Located(call[c].for, call[c].place)'
  BY <1>3, <1>5 DEF Located, LocatedNext
<1>7. call[c].id > callsLeft'
  BY <1>2
<1> QED BY <1>1, <1>2, <1>6, <1>7 DEF CallOK, Active

(* Calls end, executions disappear, agents move.                           *)
LEMMA FewerKeeps ==
    ASSUME RegistryTypes, CallInv, exec' \subseteq exec, callsLeft' = callsLeft,
           call' \in [Caller -> Calls \cup {NoCall}],
           \A c \in Caller : call'[c] = call[c] \/ call'[c] = NoCall,
           AllOnward,
           \A c \in Worker : call'[c] = call[c] /\ Active(c) => call[c].for \in busy'
    PROVE  CallInv'
<1>0. callsLeft \in Nat
  BY DEF CallInv, CallTypes
<1>1. CallTypes'
  BY <1>0 DEF CallInv, CallTypes
<1>2. ASSUME NEW c \in Caller PROVE CallOK(c)'
  <2>1. CASE call'[c] = NoCall
    BY <2>1 DEF CallOK, Active
  <2>2. CASE call'[c] = call[c]
    BY <1>0, <2>2, CallKept
  <2> QED BY <2>1, <2>2
<1>3. CallsApart'
  <2> SUFFICES ASSUME NEW c \in Caller, NEW d \in Caller, call'[c] # NoCall, call'[d] # NoCall,
                      c # d
               PROVE  /\ call'[c].id # call'[d].id
                      /\ {c, d} \subseteq Worker => call'[c].for # call'[d].for
    BY DEF CallsApart, Active
  <2>1. call'[c] = call[c] /\ call'[d] = call[d]
    OBVIOUS
  <2> QED BY <2>1 DEF CallInv, CallsApart, Active
<1>4. ASSUME NEW e \in exec' PROVE ExecOK(e)'
  BY DEF CallInv, ExecOK
<1>5. ASSUME NEW e \in exec', NEW c \in Caller PROVE Matched(e, c)'
  <2>1. CASE call'[c] = NoCall
    <3>1. call'[c].id = 0
      BY <2>1 DEF NoCall
    <3>2. e.id \in Nat /\ e.id > callsLeft
      BY DEF CallInv, CallTypes, Execs, ExecOK
    <3> QED BY <1>0, <3>1, <3>2 DEF Matched
  <2>2. CASE call'[c] = call[c]
    BY <2>2 DEF CallInv, Matched
  <2> QED BY <2>1, <2>2
<1> QED BY <1>1, <1>2, <1>3, <1>4, <1>5 DEF CallInv

(* The end of one call.                                                    *)
LEMMA ReleaseKeeps ==
    ASSUME RegistryTypes, CallInv, NEW c \in Caller, Active(c), Release(c),
           exec' \subseteq exec, UNCHANGED <<addr, moves, callsLeft>>
    PROVE  CallInv'
<1>1. call \in [Caller -> Calls \cup {NoCall}] /\ call' = [call EXCEPT ![c] = NoCall]
  BY DEF CallInv, CallTypes, Release
<1>2. /\ call' \in [Caller -> Calls \cup {NoCall}]
      /\ \A d \in Caller : call'[d] = call[d] \/ call'[d] = NoCall
      /\ call'[c] = NoCall
  BY <1>1
<1>3. ASSUME NEW d \in Worker, call'[d] = call[d], Active(d) PROVE call[d].for \in busy'
  <2>1. d # c /\ d \in Caller
    BY <1>2, <1>3 DEF Active, Caller
  <2>2. call[d].for \in busy
    BY <1>3, <2>1 DEF CallInv, CallOK
  <2>3. c \in Worker => call[d].for # call[c].for
    BY <1>3, <2>1 DEF CallInv, CallsApart
  <2> QED BY <2>2, <2>3 DEF Release
<1> QED BY <1>2, <1>3, Staying, FewerKeeps

(* PrepareAgentCall, and a worker that takes a run.                        *)
LEMMA BeginKeeps ==
    ASSUME RegistryInv, CallInv, NEW c \in Caller, NEW kind \in Kinds, NEW a \in Agent,
           NEW pc \in {"found", "dialled"}, call[c].pc = "idle", callsLeft > 0,
           call' = [call EXCEPT ![c] = Begun(c, kind, a, pc)],
           callsLeft' = callsLeft - 1, exec' = exec, UNCHANGED <<addr, moves>>,
           pc = "dialled" => GetDiagnosticEndpoint(a) # Nowhere,
           IF c \in Worker THEN kind \in Scheduled /\ a \notin busy /\ busy' = busy \cup {a}
           ELSE busy' = busy
    PROVE  CallInv'
<1>0. /\ callsLeft \in Nat /\ ~Active(c) /\ RegistryTypes
      /\ call \in [Caller -> Calls \cup {NoCall}] /\ callsLeft' \in Nat
      /\ callsLeft' < callsLeft /\ entry[a] \in Entries
  BY CallFacts DEF CallInv, CallTypes, RegistryInv, RegistryTypes
<1>k. PICK k : k = Begun(c, kind, a, pc)
  OBVIOUS
<1>1. /\ k \in Calls /\ k.id = callsLeft /\ k.kind = kind /\ k.for = a /\ k.pc = pc
      /\ k.place = entry[a].place
      /\ k.left = Deadline(c, kind)
  <2>1. Deadline(c, kind) \in Nat
    BY LimitFacts DEF Deadline
  <2>2. entry[a].place \in Places
    BY <1>0 DEF Entries
  <2>3. pc \in {"found", "dialled", "waiting"}
    OBVIOUS
  <2> QED BY <1>0, <1>k, <2>1, <2>2, <2>3 DEF Begun, Calls, GetDiagnosticEndpoint
<1>2. /\ call'[c] = k /\ \A d \in Caller \ {c} : call'[d] = call[d]
      /\ call' \in [Caller -> Calls \cup {NoCall}]
  BY <1>0, <1>1, <1>k
<1>3. k # NoCall
  BY <1>1 DEF Calls, NoCall
<1>4. CallTypes'
  BY <1>0, <1>2 DEF CallInv, CallTypes
<1>5. ASSUME NEW d \in Caller PROVE CallOK(d)'
  <2>1. CASE d # c
    <3>1. d \in Worker /\ Active(d) => call[d].for \in busy'
      BY DEF CallInv, CallOK
    <3> QED BY <1>0, <1>2, <2>1, <3>1, Staying, CallKept
  <2>2. CASE d = c
    <3>1. PICK q : q = entry[a].place /\ Located(a, q)
      BY AgentFacts DEF PlaceOK
    <3>4. Located(a, k.place)'
      BY <1>1, <3>1 DEF Located
    <3>5. /\ k.id > callsLeft'
          /\ k.pc \in {"dialled", "waiting"} => k.place.endpoint # Nowhere
          /\ c \in Worker => k.for \in busy' /\ k.kind \in Scheduled
      BY <1>0, <1>1 DEF GetDiagnosticEndpoint
    <3> QED BY <1>1, <1>2, <2>2, <3>4, <3>5 DEF CallOK, Located
  <2> QED BY <2>1, <2>2
<1>6. CallsApart'
  <2>1. ASSUME NEW d \in Caller, d # c, Active(d)
        PROVE  /\ call[d].id # k.id
               /\ d \in Worker /\ c \in Worker => call[d].for # k.for
    <3>1. call[d].id \in Nat /\ call[d].id > callsLeft
      BY <2>1, CallFacts
    <3>2. d \in Worker => call[d].for \in busy
      BY <2>1 DEF CallInv, CallOK
    <3> QED BY <1>0, <1>1, <3>1, <3>2
  <2> SUFFICES ASSUME NEW d \in Caller, NEW f \in Caller, call'[d] # NoCall, call'[f] # NoCall,
                      d # f
               PROVE  /\ call'[d].id # call'[f].id
                      /\ {d, f} \subseteq Worker => call'[d].for # call'[f].for
    BY DEF CallsApart, Active
  <2>2. CASE d = c
    BY <1>2, <2>1, <2>2 DEF Active
  <2>3. CASE f = c
    BY <1>2, <2>1, <2>3 DEF Active
  <2>4. CASE d # c /\ f # c
    <3>1. call'[d] = call[d] /\ call'[f] = call[f]
      BY <1>2, <2>4
    <3> QED BY <3>1 DEF CallInv, CallsApart, Active
  <2> QED BY <2>2, <2>3, <2>4
<1>7. ASSUME NEW e \in exec' PROVE ExecOK(e)'
  <2>1. e \in exec /\ e.id \in Nat /\ ExecOK(e)
    BY DEF CallInv, CallTypes, Execs
  <2> QED BY <1>0, <2>1 DEF ExecOK
<1>8. ASSUME NEW e \in exec', NEW d \in Caller PROVE Matched(e, d)'
  <2>1. e \in exec /\ e.id \in Nat /\ e.id > callsLeft
    BY DEF CallInv, CallTypes, Execs, ExecOK
  <2>2. CASE d = c
    BY <1>0, <1>1, <1>2, <2>1, <2>2 DEF Matched
  <2>3. CASE d # c
    BY <1>2, <2>1, <2>3 DEF CallInv, Matched
  <2> QED BY <2>2, <2>3
<1> QED BY <1>4, <1>5, <1>6, <1>7, <1>8 DEF CallInv

(* A call goes on: found, dialled, waiting.                                *)
LEMMA OnwardCall ==
    ASSUME RegistryTypes, CallInv, NEW c \in Caller, Active(c),
           NEW pc \in {"dialled", "waiting"}, call' = [call EXCEPT ![c].pc = pc],
           call[c].place.endpoint # Nowhere, call[c].pc \in {"found", "dialled"},
           UNCHANGED <<addr, moves, busy, callsLeft>>
    PROVE  /\ CallsApart' /\ call' \in [Caller -> Calls \cup {NoCall}]
           /\ \A d \in Caller : CallOK(d)'
           /\ \A e \in exec, d \in Caller : Matched(e, d)'
           /\ call'[c].pc = pc /\ call'[c].id = call[c].id /\ call'[c].kind = call[c].kind
           /\ call'[c].for = call[c].for /\ call'[c].left = call[c].left
           /\ \A d \in Caller : call'[d].id = call[d].id
<1>0. call \in [Caller -> Calls \cup {NoCall}] /\ call[c] \in Calls /\ callsLeft \in Nat
  BY CallFacts DEF CallInv, CallTypes
<1>k. PICK k : k = [call[c] EXCEPT !.pc = pc]
  OBVIOUS
<1>1. /\ k \in Calls /\ k.pc = pc /\ k.id = call[c].id /\ k.kind = call[c].kind
      /\ k.for = call[c].for /\ k.left = call[c].left /\ k.place = call[c].place
  BY <1>0, <1>k DEF Calls
<1>2. /\ call'[c] = k /\ \A d \in Caller \ {c} : call'[d] = call[d]
      /\ call' \in [Caller -> Calls \cup {NoCall}]
  BY <1>0, <1>1, <1>k
<1>3. ASSUME NEW d \in Caller PROVE CallOK(d)'
  <2>1. CASE d # c
    <3>1. d \in Worker /\ Active(d) => call[d].for \in busy'
      BY DEF CallInv, CallOK
    <3> QED BY <1>0, <1>2, <2>1, <3>1, Staying, CallKept
  <2>2. CASE d = c
    <3>1. CallOK(c)
      BY DEF CallInv
    <3>2. /\ k.id > callsLeft /\ Located(k.for, k.place)
          /\ k.place.endpoint # Nowhere /\ k.left = Deadline(c, k.kind)
          /\ c \in Worker => k.for \in busy /\ k.kind \in Scheduled
      BY <1>1, <3>1 DEF CallOK
    <3> QED BY <1>2, <2>2, <3>2 DEF CallOK, Located
  <2> QED BY <2>1, <2>2
<1>4. \A d \in Caller : call'[d].id = call[d].id /\ call'[d].for = call[d].for
                        /\ (call'[d] # NoCall => Active(d))
  BY <1>1, <1>2 DEF Active
<1>5. CallsApart'
  BY <1>4 DEF CallInv, CallsApart, Active
<1>6. ASSUME NEW e \in exec, NEW d \in Caller PROVE Matched(e, d)'
  <2>0. Matched(e, d)
    BY DEF CallInv
  <2>1. CASE d = c
    BY <1>1, <1>2, <2>0, <2>1 DEF Matched
  <2>2. CASE d # c
    BY <1>2, <2>0, <2>2 DEF Matched
  <2> QED BY <2>1, <2>2
<1> QED BY <1>1, <1>2, <1>3, <1>4, <1>5, <1>6

LEMMA CheckAliveKeeps ==
    ASSUME RegistryInv, CallInv, NEW w \in Worker, CheckAlive(w) PROVE CallInv'
<1>0. w \in Caller /\ RegistryTypes /\ Active(w)
  BY CallFacts DEF Caller, RegistryInv, CheckAlive
<1>1. UNCHANGED <<addr, moves, exec, callsLeft>> /\ call[w].pc = "found"
  BY DEF CheckAlive, registryVars, agentVars
<1>2. CASE Release(w)
  BY <1>0, <1>1, <1>2, ReleaseKeeps
<1>3. CASE /\ call[w].place.endpoint # Nowhere
           /\ call' = [call EXCEPT ![w].pc = "dialled"] /\ busy' = busy
  <2>1. /\ CallsApart' /\ call' \in [Caller -> Calls \cup {NoCall}]
        /\ \A d \in Caller : CallOK(d)'
        /\ \A e \in exec, d \in Caller : Matched(e, d)'
    BY <1>0, <1>1, <1>3, OnwardCall
  <2>2. ASSUME NEW e \in exec PROVE ExecOK(e)'
    BY <1>1 DEF CallInv, ExecOK
  <2> QED BY <1>1, <2>1, <2>2 DEF CallInv, CallTypes
<1> QED BY <1>2, <1>3 DEF CheckAlive

(* The agent that answers begins its plan.                                 *)
LEMMA ArriveKeeps ==
    ASSUME RegistryInv, CallInv, NEW c \in Caller, NEW b \in Agent,
           NEW plan \in Plans(call[c].kind), Arrive(c, b, plan)
    PROVE  CallInv'
<1>0. RegistryTypes /\ Active(c) /\ CallOK(c)
  BY CallFacts DEF RegistryInv, CallInv, Arrive
<1>1. /\ call[c].pc = "dialled" /\ call[c].place.endpoint # Nowhere /\ call[c].id > callsLeft
      /\ call[c].left = Deadline(c, call[c].kind)
      /\ c \in Worker => call[c].kind \in Command
  BY <1>0, LimitFacts DEF Arrive, CallOK
<1>2. /\ call[c].id \in Nat /\ call[c].for \in Agent /\ call[c].kind \in Kinds
      /\ callsLeft \in Nat /\ call[c].left \in Nat
  BY <1>0, CallFacts
<1>e. PICK e : e = [id |-> call[c].id, for |-> call[c].for, on |-> b, kind |-> call[c].kind,
                    adhoc |-> c \in Pool, plan |-> plan, step |-> 1,
                    left |-> LimitAt(plan, 1)]
  OBVIOUS
<1>3. /\ call' = [call EXCEPT ![c].pc = "waiting"] /\ exec' = exec \cup {e}
      /\ UNCHANGED <<addr, moves, busy, callsLeft>>
  BY <1>e DEF Arrive, registryVars, agentVars
<1>4. /\ e.id = call[c].id /\ e.for = call[c].for /\ e.kind = call[c].kind /\ e.plan = plan
      /\ e.step = 1 /\ e.left = LimitAt(plan, 1)
      /\ e.adhoc <=> c \in Pool
  BY <1>e
<1>5. LimitAt(plan, 1) \in Limits /\ plan \in Seq(Limits)
  <2>1. plan \in Seq(Limits)
    BY <1>2, PlanTypes
  <2> QED BY <2>1, ElementOfSeq DEF LimitAt, Limits
<1>6. e \in Execs
  BY <1>2, <1>5, <1>e DEF Execs
<1>7. /\ CallsApart' /\ call' \in [Caller -> Calls \cup {NoCall}]
      /\ \A d \in Caller : CallOK(d)'
      /\ \A f \in exec, d \in Caller : Matched(f, d)'
      /\ call'[c].pc = "waiting" /\ call'[c].id = call[c].id /\ call'[c].kind = call[c].kind
      /\ call'[c].for = call[c].for /\ call'[c].left = call[c].left
      /\ \A d \in Caller : call'[d].id = call[d].id
  BY <1>0, <1>1, <1>3, OnwardCall
<1>8. \A f \in exec : f.id # e.id
  BY <1>1, <1>4 DEF CallInv, Matched
<1>9. ASSUME NEW f \in exec' PROVE ExecOK(f)'
  <2>1. CASE f = e
    BY <1>1, <1>3, <1>4, <1>8, <2>1 DEF ExecOK
  <2>2. CASE f \in exec
    BY <1>3, <1>8, <2>2 DEF CallInv, ExecOK
  <2> QED BY <1>3, <2>1, <2>2
<1>10. ASSUME NEW d \in Caller, call[d].id = call[c].id PROVE d = c
  <2>1. Active(d)
    BY <1>1, <1>2, <1>10, CallFacts
  <2> QED BY <1>0, <1>10, <2>1 DEF CallInv, CallsApart
<1>11. Matched(e, c)'
  <2>1. ASSUME ~Exempt(e.kind, e.plan, c \in Worker)
        PROVE  e.left \in Nat /\ call[c].left > Rest(e)
    <3>1. /\ Len(plan) <= 4 /\ plan \in Seq(Nat)
          /\ LimitAt(plan, 1) + LimitAt(plan, 2) + LimitAt(plan, 3) + LimitAt(plan, 4)
                < Deadline(c, call[c].kind)
      BY <1>1, <1>2, <1>4, <2>1, PlanFits
    <3>2. \A i \in 1 .. 4 : LimitAt(plan, i) \in Nat
      BY <3>1, ElementOfSeq, LenProperties DEF LimitAt
    <3> QED BY <1>1, <1>4, <3>1, <3>2 DEF Rest
  <2> QED BY <1>4, <1>7, <2>1 DEF Matched
<1>12. ASSUME NEW f \in exec', NEW d \in Caller PROVE Matched(f, d)'
  <2>1. CASE f = e /\ d = c
    BY <1>11, <2>1
  <2>2. CASE f = e /\ d # c
    BY <1>4, <1>7, <1>10, <2>2 DEF Matched
  <2>3. CASE f \in exec
    BY <1>7, <2>3
  <2> QED BY <1>3, <2>1, <2>2, <2>3
<1>13. CallTypes'
  BY <1>3, <1>6, <1>7 DEF CallInv, CallTypes
<1> QED BY <1>7, <1>9, <1>12, <1>13 DEF CallInv

(* What is left of a plan, and of the wait for it.                         *)
LEMMA RestFacts ==
    ASSUME CallInv, NEW e \in exec, NEW c \in Caller, call[c].id = e.id,
           ~Exempt(e.kind, e.plan, c \in Worker)
    PROVE  /\ Active(c) /\ call[c].left \in Nat /\ call[c].left > Rest(e)
           /\ e.left \in Nat /\ e.step \in Nat /\ e.step > 0
           /\ Len(e.plan) <= 4 /\ e.plan \in Seq(Nat)
           /\ LimitAt(e.plan, e.step + 1) \in Nat /\ LimitAt(e.plan, e.step + 2) \in Nat
           /\ LimitAt(e.plan, e.step + 3) \in Nat
<1>1. Matched(e, c) /\ ExecOK(e) /\ e \in Execs /\ callsLeft \in Nat
  BY DEF CallInv, CallTypes
<1>2. Active(c) /\ call[c].left \in Nat
  <2>1. e.id \in Nat /\ e.id > callsLeft
    BY <1>1 DEF Execs, ExecOK
  <2> QED BY <1>1, <2>1, CallFacts
<1>3. c \in Worker => e.kind \in Command
  BY <1>1, <1>2, LimitFacts DEF Matched, CallInv, CallOK
<1>4. e.kind \in Kinds /\ e.step \in Nat /\ e.step > 0 /\ e.plan \in Plans(e.kind)
  BY <1>1 DEF Execs, ExecOK
<1>5. e.plan \in Seq(Nat) /\ Len(e.plan) <= 4
  BY <1>3, <1>4, PlanFits
<1>6. ASSUME NEW i \in Nat, i > 0 PROVE LimitAt(e.plan, i) \in Nat
  BY <1>5, <1>6, ElementOfSeq, LenProperties DEF LimitAt
<1> QED BY <1>1, <1>2, <1>4, <1>5, <1>6 DEF Matched

(* A tool ends in time: the rest of the plan is shorter.                   *)
LEMMA NextToolKeeps ==
    ASSUME RegistryInv, CallInv, NEW e \in exec, NextTool(e) PROVE CallInv'
<1>0. e \in Execs /\ ExecOK(e) /\ e.step \in Nat /\ e.step > 0 /\ e.plan \in Seq(Limits)
      /\ e.kind \in Kinds /\ e.left \in Limits
  BY DEF CallInv, CallTypes, Execs, ExecOK
<1>e. PICK g : g = [e EXCEPT !.step = @ + 1, !.left = LimitAt(e.plan, e.step + 1)]
  OBVIOUS
<1>1. /\ exec' = (exec \ {e}) \cup {g}
      /\ UNCHANGED <<addr, moves, call, busy, callsLeft>>
  BY <1>e DEF NextTool, registryVars, agentVars
<1>2. LimitAt(e.plan, e.step + 1) \in Limits
  BY <1>0, ElementOfSeq, LenProperties DEF LimitAt, Limits
<1>3. /\ g \in Execs /\ g.id = e.id /\ g.for = e.for /\ g.kind = e.kind /\ g.plan = e.plan
      /\ g.adhoc = e.adhoc /\ g.step = e.step + 1 /\ g.left = LimitAt(e.plan, e.step + 1)
  <2>1. PICK n \in Nat, l \in Limits : n = e.step + 1 /\ l = LimitAt(e.plan, e.step + 1)
    BY <1>0, <1>2
  <2>2. g = [e EXCEPT !.step = n, !.left = l]
    BY <1>0, <1>e, <2>1
  <2>3. /\ g \in Execs /\ g.id = e.id /\ g.for = e.for /\ g.kind = e.kind /\ g.plan = e.plan
        /\ g.step = n /\ g.left = l
    BY <1>0, <2>2 DEF Execs
  <2>4. g.adhoc = e.adhoc
    BY <1>0, <2>2 DEF Execs
  <2> QED BY <2>1, <2>3, <2>4
<1>4. ASSUME NEW f \in exec' PROVE ExecOK(f)'
  <2>1. ASSUME NEW h \in exec', h.id = e.id PROVE h = g
    BY <1>0, <1>1, <2>1 DEF ExecOK
  <2>2. CASE f = g
    BY <1>0, <1>1, <1>3, <2>1, <2>2 DEF ExecOK
  <2>3. CASE f \in exec \ {e}
    <3>1. ExecOK(f)
      BY <2>3 DEF CallInv
    <3>2. f.id # e.id
      BY <2>3, <3>1 DEF ExecOK
    <3> QED BY <1>1, <1>3, <2>3, <3>1, <3>2 DEF ExecOK
  <2> QED BY <1>1, <2>2, <2>3
<1>5. ASSUME NEW c \in Caller PROVE Matched(g, c)'
  <2>1. SUFFICES ASSUME call[c].id = e.id PROVE Matched(g, c)'
    BY <1>1, <1>3 DEF Matched
  <2>2. Matched(e, c)
    BY DEF CallInv
  <2>5. ASSUME ~Exempt(e.kind, e.plan, c \in Worker)
        PROVE  g.left \in Nat /\ call[c].left > Rest(g)
    <3>1. /\ call[c].left \in Nat /\ call[c].left > Rest(e)
          /\ e.left \in Nat /\ Len(e.plan) <= 4 /\ e.plan \in Seq(Nat)
          /\ LimitAt(e.plan, e.step + 1) \in Nat /\ LimitAt(e.plan, e.step + 2) \in Nat
          /\ LimitAt(e.plan, e.step + 3) \in Nat
      BY <2>1, <2>5, RestFacts
    <3>3. LimitAt(e.plan, e.step + 4) = 0
      BY <1>0, <3>1, LenProperties DEF LimitAt
    <3>6. Rest(g) = LimitAt(e.plan, e.step + 1) + LimitAt(e.plan, e.step + 2)
                    + LimitAt(e.plan, e.step + 3) + LimitAt(e.plan, e.step + 4)
      <4>1. /\ (e.step + 1) + 1 = e.step + 2 /\ (e.step + 1) + 2 = e.step + 3
            /\ (e.step + 1) + 3 = e.step + 4
        BY <1>0
      <4> QED BY <1>3, <4>1 DEF Rest
    <3> QED BY <1>3, <3>1, <3>3, <3>6 DEF Rest
  <2> QED BY <1>1, <1>3, <2>1, <2>2, <2>5 DEF Matched
<1>6. ASSUME NEW f \in exec', NEW c \in Caller PROVE Matched(f, c)'
  <2>1. CASE f = g
    BY <1>5, <2>1
  <2>2. CASE f \in exec
    BY <1>1, <2>2 DEF CallInv, Matched
  <2> QED BY <1>1, <2>1, <2>2
<1>7. ASSUME NEW c \in Caller PROVE CallOK(c)'
  <2>1. callsLeft \in Nat /\ RegistryTypes
    BY DEF CallInv, CallTypes, RegistryInv
  <2>2. c \in Worker /\ Active(c) => call[c].for \in busy'
    BY <1>1 DEF CallInv, CallOK
  <2> QED BY <1>1, <2>1, <2>2, Staying, CallKept
<1>8. CallTypes' /\ CallsApart'
  BY <1>1, <1>3 DEF CallInv, CallTypes, CallsApart, Active
<1> QED BY <1>4, <1>6, <1>7, <1>8 DEF CallInv

(* A tick takes as much from the wait as from the tool.                    *)
LEMMA TickCallKeeps == ASSUME RegistryInv, CallInv, Tick PROVE CallInv'
<1>0. /\ call \in [Caller -> Calls \cup {NoCall}] /\ exec \subseteq Execs
      /\ callsLeft \in Nat /\ RegistryTypes
  BY DEF CallInv, CallTypes, RegistryInv
<1> DEFINE Later(e) == IF e.left = Forever THEN e ELSE [e EXCEPT !.left = @ - 1]
<1>1. /\ call' = [c \in Caller |-> IF call[c].pc = "waiting"
                                   THEN [call[c] EXCEPT !.left = @ - 1] ELSE call[c]]
      /\ exec' = {Later(e) : e \in exec}
      /\ UNCHANGED <<addr, moves, busy, callsLeft>>
      /\ ~UrgentCall
  BY DEF Tick, TickRegistry
<1>2. ASSUME NEW c \in Caller
      PROVE  /\ call'[c] \in Calls \cup {NoCall}
             /\ call'[c] # NoCall => Active(c)
             /\ call'[c].id = call[c].id /\ call'[c].pc = call[c].pc
             /\ call'[c].for = call[c].for /\ call'[c].kind = call[c].kind
             /\ call'[c].place = call[c].place
             /\ Active(c) => call[c].pc = "waiting" /\ call'[c].left = call[c].left - 1
  <2>1. CASE ~Active(c)
    BY <1>1, <2>1 DEF Active, NoCall
  <2>2. CASE Active(c)
    <3>1. call[c] \in Calls
      BY <2>2, CallFacts
    <3>2. call[c].pc = "waiting" /\ call[c].left \in Nat /\ call[c].left # 0
      BY <1>1, <3>1 DEF UrgentCall, Calls
    <3>3. PICK l \in Nat : l = call[c].left - 1
      BY <3>2
    <3>4. call'[c] = [call[c] EXCEPT !.left = l]
      BY <1>1, <3>2, <3>3
    <3> QED BY <2>2, <3>1, <3>2, <3>3, <3>4 DEF Calls
  <2> QED BY <2>1, <2>2
<1>3. ASSUME NEW e \in exec
      PROVE  /\ Later(e) \in Execs /\ Later(e).id = e.id /\ Later(e).for = e.for
             /\ Later(e).kind = e.kind /\ Later(e).plan = e.plan /\ Later(e).step = e.step
             /\ Later(e).adhoc = e.adhoc
             /\ e.left # Forever => e.left \in Nat /\ e.left > 0 /\ Later(e).left = e.left - 1
  <2>1. CASE e.left = Forever
    BY <1>0, <2>1
  <2>2. CASE e.left # Forever
    <3>1. e \in Execs /\ e.left \in Nat /\ e.left # 0
      BY <1>0, <1>1, <2>2 DEF UrgentCall, Execs, Limits
    <3>2. PICK l \in Nat : l = e.left - 1
      BY <3>1
    <3>3. Later(e) = [e EXCEPT !.left = l] /\ l \in Limits
      BY <2>2, <3>2 DEF Limits
    <3> HIDE DEF Later
    <3>4. /\ Later(e) \in Execs /\ Later(e).id = e.id /\ Later(e).for = e.for
          /\ Later(e).kind = e.kind /\ Later(e).plan = e.plan /\ Later(e).step = e.step
          /\ Later(e).left = l
      BY <3>1, <3>3 DEF Execs
    <3>5. Later(e).adhoc = e.adhoc
      BY <3>1, <3>3 DEF Execs
    <3> QED BY <3>1, <3>2, <3>4, <3>5
  <2> QED BY <2>1, <2>2
<1> HIDE DEF Later
<1>4. CallTypes'
  <2>1. exec' \subseteq Execs
    BY <1>1, <1>3
  <2>2. call' \in [Caller -> Calls \cup {NoCall}]
    BY <1>1, <1>2
  <2> QED BY <1>0, <1>1, <2>1, <2>2 DEF CallTypes
<1>5. ASSUME NEW c \in Caller PROVE CallOK(c)'
  <2>1. SUFFICES ASSUME call'[c] # NoCall PROVE CallOK(c)'
    BY DEF CallOK, Active
  <2>2. Active(c) /\ CallOK(c)
    BY <1>2, <2>1 DEF CallInv
  <2> QED BY <1>1, <1>2, <2>2 DEF CallOK, Located
<1>6. CallsApart'
  BY <1>2 DEF CallInv, CallsApart, Active
<1>7. ASSUME NEW f \in exec' PROVE ExecOK(f)'
  <2>1. PICK e \in exec : f = Later(e)
    BY <1>1
  <2>2. ExecOK(e) /\ f.id = e.id /\ f.step = e.step /\ f.plan = e.plan /\ f.kind = e.kind
    BY <1>3, <2>1 DEF CallInv
  <2>3. ASSUME NEW h \in exec', h.id = f.id PROVE h = f
    <3>1. PICK d \in exec : h = Later(d)
      BY <1>1
    <3>2. d.id = e.id
      BY <1>3, <2>2, <2>3, <3>1
    <3>3. d = e
      BY <2>2, <3>2 DEF ExecOK
    <3> QED BY <2>1, <3>1, <3>3
  <2> QED BY <1>1, <2>2, <2>3 DEF ExecOK
<1>8. ASSUME NEW f \in exec', NEW c \in Caller PROVE Matched(f, c)'
  <2>1. PICK e \in exec : f = Later(e)
    BY <1>1
  <2>2. /\ f.id = e.id /\ f.for = e.for /\ f.kind = e.kind /\ f.plan = e.plan
        /\ f.step = e.step /\ f.adhoc = e.adhoc
        /\ e.left # Forever => e.left \in Nat /\ e.left > 0 /\ f.left = e.left - 1
    BY <1>3, <2>1
  <2>3. SUFFICES ASSUME call[c].id = e.id PROVE Matched(f, c)'
    BY <1>2, <2>2 DEF Matched
  <2>4. Matched(e, c) /\ Active(c)
    <3>1. e \in Execs /\ ExecOK(e)
      BY <1>0 DEF CallInv
    <3>2. e.id \in Nat /\ e.id > callsLeft
      BY <3>1 DEF Execs, ExecOK
    <3> QED BY <1>0, <2>3, <3>2, CallFacts DEF CallInv
  <2>7. ASSUME ~Exempt(e.kind, e.plan, c \in Worker)
        PROVE  f.left \in Nat /\ call[c].left - 1 > Rest(f)
    <3>1. /\ call[c].left \in Nat /\ call[c].left > Rest(e) /\ e.left \in Nat
          /\ LimitAt(e.plan, e.step + 1) \in Nat /\ LimitAt(e.plan, e.step + 2) \in Nat
          /\ LimitAt(e.plan, e.step + 3) \in Nat
      BY <2>3, <2>7, RestFacts
    <3>2. e.left # Forever
      BY <3>1, CallsAssumption
    <3>6. Rest(f) = Rest(e) - 1 /\ Rest(e) \in Nat
      BY <2>2, <3>1, <3>2 DEF Rest
    <3> QED BY <2>2, <3>1, <3>2, <3>6
  <2>8. call'[c].left = call[c].left - 1 /\ call'[c].pc = "waiting"
        /\ call'[c].for = f.for /\ call'[c].kind = f.kind
        /\ (f.adhoc <=> c \in Pool)
    BY <1>2, <2>2, <2>3, <2>4 DEF Matched
  <2> QED BY <2>2, <2>7, <2>8 DEF Matched
<1> QED BY <1>4, <1>5, <1>6, <1>7, <1>8 DEF CallInv

LEMMA CallsInitial == ASSUME CallsInit, callsLeft \in Nat PROVE CallInv
<1>1. CallTypes
  BY DEF CallsInit, CallTypes
<1>2. \A c \in Caller : ~Active(c)
  BY DEF CallsInit, Active
<1>3. exec = {}
  BY DEF CallsInit
<1> QED BY <1>1, <1>2, <1>3 DEF CallInv, CallOK, CallsApart

(* Every step, as far as calls are concerned.                              *)
LEMMA CallCases ==
    ASSUME [Next]_vars
    PROVE  \/ UNCHANGED callVars
           \/ \E c \in Pool, kind \in Kinds, a \in Agent : Request(c, kind, a)
           \/ \E w \in Worker, kind \in Scheduled, a \in Agent : Dispatch(w, kind, a)
           \/ \E w \in Worker : CheckAlive(w)
           \/ \E c \in Caller, b \in Agent : \E plan \in Plans(call[c].kind) : Arrive(c, b, plan)
           \/ \E c \in Caller : Unreachable(c) \/ DeadlineExceeded(c)
           \/ \E e \in exec : NextTool(e) \/ Answer(e)
           \/ \E a \in Agent : Killed(a)
           \/ Tick \/ CollectorRestart
<1>1. CASE CallStep
  BY <1>1 DEF CallStep
<1>2. CASE UNCHANGED vars
  BY <1>2 DEF vars, callVars, registryVars, agentVars
<1>3. CASE MirrorStep /\ UNCHANGED <<registryVars, callVars>>
  BY <1>3 DEF callVars, registryVars, agentVars
<1>4. ASSUME NEW c \in Pool, NEW p \in Platform, InstallerDownloadHandler(c, p)
      PROVE  UNCHANGED callVars
  BY <1>4 DEF InstallerDownloadHandler, callVars, registryVars, agentVars
<1>5. ASSUME NEW c \in Pool, NEW a \in Agent, DeleteAgentHandler(c, a)
      PROVE  UNCHANGED callVars
  BY <1>5 DEF DeleteAgentHandler, callVars
<1>6. ASSUME NEW c \in Pool, NEW a \in Agent,
             \/ DiagnosticHandler(c, a) \/ SetConfigHandler(c, a) \/ GetConfigHandler(c, a)
             \/ AgentCommandsHandler(c, a) \/ RunCommandHandler(c, a)
      PROVE  \E kind \in Kinds : Request(c, kind, a)
  BY <1>6, LimitFacts DEF DiagnosticHandler, SetConfigHandler, GetConfigHandler,
         AgentCommandsHandler, RunCommandHandler, Forward, Kinds
<1> QED BY <1>1, <1>2, <1>3, <1>4, <1>5, <1>6 DEF Next

(* No step takes an agent back to where it was.                            *)
LEMMA OnwardStep == ASSUME RegistryInv, [Next]_vars PROVE AllOnward
<1>1. CASE UNCHANGED <<addr, moves>>
  BY <1>1, Staying DEF RegistryInv
<1>2. ASSUME NEW x \in Agent, NEW ad, addr' = [addr EXCEPT ![x] = ad],
             moves' = [moves EXCEPT ![x] = @ + 1]
      PROVE  AllOnward
  BY <1>2, MoveFacts DEF AllOnward
<1>3. CASE RegistryStep
  <2>1. ASSUME NEW x \in Agent, NEW ad \in Address, NEW resolved \in BOOLEAN,
               Start(x, ad, resolved)
        PROVE  AllOnward
    BY <1>2, <2>1 DEF Start
  <2>2. ASSUME NEW x \in Agent, NEW ad \in Address, Readdress(x, ad) PROVE AllOnward
    BY <1>2, <2>2 DEF Readdress
  <2>3. \/ UNCHANGED <<addr, moves>>
        \/ \E x \in Agent, ad \in Address : \E resolved \in BOOLEAN : Start(x, ad, resolved)
        \/ \E x \in Agent, ad \in Address : Readdress(x, ad)
    BY <1>3 DEF RegistryStep, FailOver, SetPace, SendHeartbeat, Receive, HeartbeatAnswered,
                LoseHeartbeat, ReceiveLate
  <2> QED BY <1>1, <2>1, <2>2, <2>3
<1>4. ASSUME NEW x \in Agent, Stop(x) PROVE AllOnward
  BY <1>2, <1>4 DEF Stop
<1>5. CASE UNCHANGED agentVars \/ CollectorRestart \/ TickRegistry \/ \E x \in Agent : RemoveAgent(x)
  BY <1>1, <1>5 DEF agentVars, CollectorRestart, TickRegistry, RemoveAgent
<1> QED BY <1>3, <1>4, <1>5, RegistryCases

LEMMA CallInvStep == ASSUME RegistryInv, CallInv, [Next]_vars PROVE CallInv'
<1>0. /\ RegistryTypes /\ call \in [Caller -> Calls \cup {NoCall}] /\ callsLeft \in Nat
      /\ AllOnward
      /\ \A c \in Worker : c \in Caller /\ (Active(c) => call[c].for \in busy)
  BY OnwardStep DEF RegistryInv, CallInv, CallTypes, CallOK, Caller
<1>1. CASE UNCHANGED callVars
  <2>1. UNCHANGED <<call, exec, busy, callsLeft>>
    BY <1>1 DEF callVars
  <2> QED BY <1>0, <1>1, <2>1, FewerKeeps
<1>2. ASSUME NEW c \in Pool, NEW kind \in Kinds, NEW a \in Agent, Request(c, kind, a)
      PROVE  CallInv'
  <2>1. c \in Caller /\ c \notin Worker
    BY LimitFacts DEF Caller
  <2>2. /\ call[c].pc = "idle" /\ callsLeft > 0 /\ GetDiagnosticEndpoint(a) # Nowhere
        /\ call' = [call EXCEPT ![c] = Begun(c, kind, a, "dialled")]
        /\ callsLeft' = callsLeft - 1 /\ UNCHANGED <<addr, moves, exec, busy>>
    BY <1>2 DEF Request, registryVars, agentVars
  <2> QED BY <2>1, <2>2, BeginKeeps
<1>3. ASSUME NEW w \in Worker, NEW kind \in Scheduled, NEW a \in Agent, Dispatch(w, kind, a)
      PROVE  CallInv'
  <2>1. w \in Caller /\ kind \in Kinds
    BY LimitFacts DEF Caller, Kinds
  <2>2. /\ call[w].pc = "idle" /\ callsLeft > 0 /\ a \notin busy /\ busy' = busy \cup {a}
        /\ call' = [call EXCEPT ![w] = Begun(w, kind, a, "found")]
        /\ callsLeft' = callsLeft - 1 /\ UNCHANGED <<addr, moves, exec>>
    BY <1>3 DEF Dispatch, registryVars, agentVars
  <2> QED BY <2>1, <2>2, BeginKeeps
<1>4. ASSUME NEW c \in Caller, Unreachable(c) \/ DeadlineExceeded(c) PROVE CallInv'
  <2>1. Release(c) /\ UNCHANGED <<addr, moves, exec, callsLeft>> /\ call[c].pc # "idle"
    BY <1>4 DEF Unreachable, DeadlineExceeded, registryVars, agentVars
  <2>2. Active(c)
    BY <2>1, CallFacts
  <2> QED BY <1>0, <2>1, <2>2, ReleaseKeeps
<1>5. ASSUME NEW e \in exec, Answer(e) PROVE CallInv'
  <2>1. exec' \subseteq exec /\ UNCHANGED <<addr, moves, callsLeft>>
    BY <1>5 DEF Answer, registryVars, agentVars
  <2>2. ASSUME NEW c \in Caller, call[c].id = e.id, Release(c) PROVE CallInv'
    <3>1. e.id \in Nat /\ e.id > callsLeft
      BY DEF CallInv, CallTypes, Execs, ExecOK
    <3>2. Active(c)
      BY <1>0, <2>2, <3>1, CallFacts
    <3> QED BY <1>0, <2>1, <2>2, <3>2, ReleaseKeeps
  <2>3. CASE UNCHANGED <<call, busy>>
    BY <1>0, <2>1, <2>3, FewerKeeps
  <2> QED BY <1>5, <2>2, <2>3 DEF Answer
<1>6. ASSUME NEW a \in Agent, Killed(a) PROVE CallInv'
  <2>1. /\ exec' \subseteq exec /\ UNCHANGED <<call, busy, callsLeft>>
    BY <1>6 DEF Killed
  <2> QED BY <1>0, <2>1, FewerKeeps
<1>7. CASE CollectorRestart
  <2>1. /\ call' = [c \in Caller |-> NoCall]
        /\ UNCHANGED <<addr, moves, exec, callsLeft>>
    BY <1>7 DEF CollectorRestart
  <2>2. \A c \in Worker : call'[c] = call[c] /\ Active(c) => call[c].for \in busy'
    BY <1>0, <2>1 DEF Active
  <2>3. call' \in [Caller -> Calls \cup {NoCall}] /\ \A c \in Caller : call'[c] = NoCall
    BY <2>1
  <2> QED BY <1>0, <2>1, <2>2, <2>3, FewerKeeps
<1> QED BY <1>1, <1>2, <1>3, <1>4, <1>5, <1>6, <1>7, CallCases, CheckAliveKeeps, ArriveKeeps,
           NextToolKeeps, TickCallKeeps

(* Which calls reach another agent: only Arrive records one.               *)
LEMMA RightAgentStep ==
    ASSUME RegistryInv, CallInv, RightAgent, [Next]_vars PROVE RightAgent'
<1>1. ASSUME NEW c \in Caller, NEW b \in Agent, NEW plan \in Plans(call[c].kind),
             Arrive(c, b, plan)
      PROVE  RightAgent'
  <2> DEFINE k == call[c]
             r == [moved |-> k.place.move # moves[k.for], shared |-> addr[k.for] = addr[b],
                   own |-> k.place.own]
  <2>1. wrong' = wrong \/ wrong' = wrong \cup {r}
    BY <1>1 DEF Arrive
  <2>2. Active(c) /\ CallOK(c) /\ k.pc = "dialled" /\ addr[b] = k.place.endpoint
    BY <1>1, CallFacts DEF Arrive, CallInv
  <2>3. k.place.move = moves[k.for] /\ k.place.own => k.place.endpoint = addr[k.for]
    BY <2>2 DEF CallOK, Located
  <2>4. r.moved \/ r.shared \/ ~r.own
    BY <2>2, <2>3
  <2> HIDE DEF r
  <2> QED BY <2>1, <2>4 DEF RightAgent
<1>2. CASE UNCHANGED wrong
  BY <1>2 DEF RightAgent
<1>3. UNCHANGED wrong
      \/ \E c \in Caller, b \in Agent : \E plan \in Plans(call[c].kind) : Arrive(c, b, plan)
  BY CallCases DEF callVars, Request, Dispatch, CheckAlive, Unreachable, DeadlineExceeded,
       NextTool, Answer, Killed, Tick, CollectorRestart
<1> QED BY <1>1, <1>2, <1>3

(* What is given up: only DeadlineExceeded records it.                     *)
LEMMA ResultInTimeStep == ASSUME CallInv, ResultInTime, [Next]_vars PROVE ResultInTime'
<1>1. ASSUME NEW c \in Caller, DeadlineExceeded(c) PROVE ResultInTime'
  <2>1. /\ call[c].left = 0
        /\ gaveUp' = gaveUp \cup {[kind |-> e.kind, plan |-> e.plan, worker |-> c \in Worker] :
                                    e \in {x \in exec : x.id = call[c].id}}
    BY <1>1 DEF DeadlineExceeded
  <2>2. ASSUME NEW e \in exec, e.id = call[c].id PROVE Exempt(e.kind, e.plan, c \in Worker)
    <3>1. SUFFICES ASSUME ~Exempt(e.kind, e.plan, c \in Worker) PROVE FALSE
      OBVIOUS
    <3>2. /\ call[c].left > Rest(e) /\ e.left \in Nat
          /\ LimitAt(e.plan, e.step + 1) \in Nat /\ LimitAt(e.plan, e.step + 2) \in Nat
          /\ LimitAt(e.plan, e.step + 3) \in Nat
      BY <2>2, <3>1, RestFacts
    <3> QED BY <2>1, <3>2 DEF Rest
  <2>3. ASSUME NEW g \in gaveUp' PROVE Exempt(g.kind, g.plan, g.worker)
    <3>1. CASE g \in gaveUp
      BY <3>1 DEF ResultInTime, Exempt
    <3>2. ASSUME NEW e \in exec, e.id = call[c].id,
                 g = [kind |-> e.kind, plan |-> e.plan, worker |-> c \in Worker]
          PROVE  Exempt(g.kind, g.plan, g.worker)
      BY <2>2, <3>2
    <3> QED BY <2>1, <3>1, <3>2
  <2> QED BY <2>3 DEF ResultInTime, Exempt
<1>2. CASE UNCHANGED gaveUp
  BY <1>2 DEF ResultInTime
<1>3. UNCHANGED gaveUp \/ \E c \in Caller : DeadlineExceeded(c)
  BY CallCases DEF callVars, Request, Dispatch, CheckAlive, Unreachable, Arrive,
       NextTool, Answer, Killed, Tick, CollectorRestart
<1> QED BY <1>1, <1>2, <1>3

(* The inductive invariant of the calls, with the two histories.           *)
CallsSafe == RegistryInv /\ CallInv /\ RightAgent /\ ResultInTime

THEOREM CallInvariant == Spec => []CallsSafe
<1>1. Init => CallsSafe
  <2> SUFFICES ASSUME Init PROVE CallsSafe
    OBVIOUS
  <2>0. PICK s \in Scenarios : addr \in s.start /\ callsLeft = s.calls /\ RegistryInit(s.resolved)
    BY DEF Init
  <2>1. RegistryInv
    BY <2>0, RegistryInitial, HttpAssumption
  <2>2. CallsInit /\ callsLeft \in Nat
    BY <2>0, HttpAssumption DEF Init
  <2>3. RightAgent /\ ResultInTime
    BY <2>2 DEF CallsInit, RightAgent, ResultInTime
  <2> QED BY <2>1, <2>2, <2>3, CallsInitial DEF CallsSafe
<1>2. CallsSafe /\ [Next]_vars => CallsSafe'
  BY RegistryInvStep, CallInvStep, RightAgentStep, ResultInTimeStep DEF CallsSafe
<1> QED BY <1>1, <1>2, PTL DEF Spec

(* A call is executed by the agent it is meant for unless that has moved   *)
(* since it found out the endpoint it advertises (or was heard), shares    *)
(* its address or advertised an endpoint that never was its own.           *)
THEOREM RightAgentHolds == Spec => []RightAgent
<1>1. CallsSafe => RightAgent
  BY DEF CallsSafe
<1> QED BY <1>1, CallInvariant, PTL

(* No result of a tool with a limit is lost to the deadline of its call,   *)
(* but for a repeated speedtest of the scheduler: for all time limits in   *)
(* the order of the code's.                                                *)
THEOREM ResultInTimeHolds == Spec => []ResultInTime
<1>1. CallsSafe => ResultInTime
  BY DEF CallsSafe
<1> QED BY <1>1, CallInvariant, PTL

(* The scheduler never has two commands of its own running on one agent    *)
(* while it waits for both: for any number of workers and agents.          *)
THEOREM HeavyApartHolds == Spec => []HeavyApart
<1>1. CallInv => HeavyApart
  <2> SUFFICES ASSUME CallInv, NEW e \in exec, NEW f \in exec, e # f, e.on = f.on,
                      ~e.adhoc, ~f.adhoc, ~Abandoned(e), ~Abandoned(f), e.for = e.on, f.for = f.on
               PROVE  FALSE
    BY DEF HeavyApart
  <2>1. PICK c \in Caller, d \in Caller : call[c].id = e.id /\ call[d].id = f.id
    BY DEF Abandoned
  <2>2. Matched(e, c) /\ Matched(f, d) /\ e.id # f.id
    BY DEF CallInv, ExecOK
  <2>3. c # d /\ c \in Worker /\ d \in Worker /\ call[c].for = call[d].for
    BY <2>1, <2>2 DEF Matched, Caller
  <2>4. Active(c) /\ Active(d)
    BY <2>1, <2>2, CallFacts DEF Matched
  <2> QED BY <2>3, <2>4 DEF CallInv, CallsApart
<1> QED BY <1>1, CallInvariant, PTL DEF CallsSafe

=============================================================================
