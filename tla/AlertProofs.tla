---------------------------- MODULE AlertProofs ----------------------------
(***************************************************************************)
(* Proofs about AlertManager for every number of handler threads, every    *)
(* set of rules, agents and batches, and every history limit.              *)
(***************************************************************************)
EXTENDS AlertManager, SequenceTheorems, TLAPS

-----------------------------------------------------------------------------
(* The inductive invariant.                                                *)

(* Only a thread inside the lock has rules to compare, and only while it   *)
(* has a metric.                                                           *)
TodoInside ==
    \A t \in Thread : /\ pc[t] # "eval" => todo[t] = {}
                      /\ todo[t] # {} => batch[t] # << >>

(* m_mutex: a thread that evaluates is alone, no edit is under way, and    *)
(* what it still has to compare are rules in force.                        *)
Exclusive ==
    \A t \in Thread : pc[t] = "eval" =>
        /\ edit.op = "none"
        /\ todo[t] \subseteq rules
        /\ \A u \in Thread : pc[u] = "eval" => u = t

(* Every rule id in force that is not among the deleted ones is in R.      *)
Keeps(gone, R) == \A r \in rules : r.id \in gone \/ \E q \in R : q.id = r.id

(* While an edit is written the file does not load, and the edit drops no  *)
(* rule id but those it deletes.                                           *)
EditPending ==
    edit.op # "none" => ~file.ok /\ Keeps(edit.gone, edit.rules)

(* A thread reads the clock under the lock: no record is younger.          *)
Stamped ==
    \A t \in Thread : pc[t] = "eval" =>
        /\ stamp[t] <= now
        /\ \A i \in DOMAIN history : history[i].time <= stamp[t]

(* A collector that is down holds nothing.                                 *)
DownEmpty ==
    ~up => edit.op = "none" /\ firing = {} /\ \A t \in Thread : pc[t] = "idle"

LockInv == TodoInside /\ Exclusive /\ EditPending /\ DownEmpty

(* Nothing recorded about an active alert is younger than the time its     *)
(* repeat interval counts from.                                            *)
Counted ==
    \A i \in DOMAIN history :
        history[i].key \in firing => history[i].time <= lastNotified[history[i].key]

StoryInv == HistoryAgrees /\ RepeatSpacing /\ Counted

(* A thread holds notifications of its own agent only, and only until it   *)
(* has sent them.                                                          *)
NotesMine ==
    \A t \in Thread : /\ pc[t] \in {"idle", "enter"} => notes[t] = << >>
                      /\ \A i \in DOMAIN notes[t] : notes[t][i].key[2] = agent[t]

(* Two threads with batches of one agent are a race.                       *)
Alone ==
    \A t, u \in Thread :
        pc[t] # "idle" /\ pc[u] # "idle" /\ agent[t] = agent[u] => t = u \/ agent[t] \in raced

LastNote(t, k, i) ==
    /\ notes[t][i].key = k
    /\ \A j \in DOMAIN notes[t] : j > i => notes[t][j].key # k

(* The last notification of a key that is still to be sent says what its   *)
(* state is.                                                               *)
LastNoteAgrees ==
    \A t \in Thread, k \in Key : \A i \in DOMAIN notes[t] :
        LastNote(t, k, i) =>
            \/ notes[t][i].status = "firing" <=> k \in firing
            \/ k \in forgotten
            \/ k[2] \in raced

NoteInv == NotesMine /\ Alone /\ LastNoteAgrees /\ AnnouncementsAgree

-----------------------------------------------------------------------------
(* Facts about the operators of the model.                                 *)

(* The key of the state a thread compares a rule with.                     *)
LEMMA KeyFacts ==
    ASSUME TypeOK, TodoInside, NEW t \in Thread, NEW r \in todo[t]
    PROVE  KeyOf(t, r) \in Key /\ KeyOf(t, r)[1] = r.id
<1>1. r \in Rule /\ agent[t] \in Agent /\ batch[t] \in Seq(Metric)
  BY DEF TypeOK
<1>2. batch[t] # << >>
  BY DEF TodoInside
<1>3. Head(batch[t]) \in Metric
  BY <1>1, <1>2, HeadTailProperties
<1>4. Head(batch[t]).target \in Target
  BY <1>3 DEF Metric
<1>5. r.id \in RuleId
  BY <1>1 DEF RuleId
<1> QED BY <1>1, <1>4, <1>5 DEF KeyOf, Key

(* Matching selects among the rules in force, and none without a metric.   *)
LEMMA MatchingFacts ==
    ASSUME NEW a, NEW b
    PROVE  Matching(a, b) \subseteq rules /\ (Matching(a, b) # {} => b # << >>)
BY DEF Matching

(* Report and TrimHistory: one more record, of the thread's time, and the  *)
(* oldest one gone if there were too many.                                 *)
LEMMA HistoryFacts ==
    ASSUME NEW h \in Seq(Record), Len(h) <= MaxHistory, NEW rec \in Record
    PROVE  LET g == TrimHistory(Append(h, rec))
           IN  /\ g \in Seq(Record) /\ Len(g) <= MaxHistory /\ Len(g) > 0
               /\ \E d \in {0, 1} :
                    /\ Len(g) = Len(h) + 1 - d
                    /\ \A i \in 1 .. Len(g) :
                         g[i] = IF i + d <= Len(h) THEN h[i + d] ELSE rec
<1> DEFINE a == Append(h, rec)
<1>1. /\ a \in Seq(Record) /\ a # << >>
      /\ Len(a) = Len(h) + 1
      /\ \A i \in 1 .. Len(h) : a[i] = h[i]
      /\ a[Len(h) + 1] = rec
  BY AppendProperties
<1>2. Len(h) \in Nat /\ MaxHistory \in Nat \ {0}
  BY LenProperties, AlertAssumption
<1>3. /\ Tail(a) \in Seq(Record)
      /\ Len(Tail(a)) = Len(a) - 1
      /\ \A i \in 1 .. Len(Tail(a)) : Tail(a)[i] = a[i + 1]
  BY <1>1, HeadTailProperties
<1> HIDE DEF a
<1>4. CASE Len(a) > MaxHistory
  <2> DEFINE g == Tail(a)
  <2>1. Len(g) = Len(h) /\ Len(g) <= MaxHistory /\ Len(g) > 0
    BY <1>1, <1>2, <1>3, <1>4
  <2>2. \A i \in 1 .. Len(g) : g[i] = IF i + 1 <= Len(h) THEN h[i + 1] ELSE rec
    <3> SUFFICES ASSUME NEW i \in 1 .. Len(h)
                 PROVE  Tail(a)[i] = IF i + 1 <= Len(h) THEN h[i + 1] ELSE rec
      BY <2>1
    <3>1. Tail(a)[i] = a[i + 1]
      BY <1>3, <2>1
    <3>2. CASE i + 1 <= Len(h)
      BY <1>1, <1>2, <3>1, <3>2
    <3>3. CASE ~(i + 1 <= Len(h))
      <4>1. i = Len(h)
        BY <1>2, <3>3
      <4> QED BY <1>1, <3>1, <3>3, <4>1
    <3> QED BY <3>2, <3>3
  <2>3. TrimHistory(a) = g
    BY <1>4 DEF TrimHistory
  <2> HIDE DEF g
  <2>4. Len(g) = Len(h) + 1 - 1
    BY <2>1, <1>2
  <2> QED BY <2>1, <2>2, <2>3, <2>4, <1>3 DEF a, g
<1>5. CASE ~(Len(a) > MaxHistory)
  <2>1. TrimHistory(a) = a
    BY <1>5 DEF TrimHistory
  <2>2. Len(a) <= MaxHistory /\ Len(a) = Len(h) + 1 - 0 /\ Len(a) > 0
    BY <1>1, <1>2, <1>5
  <2>3. \A i \in 1 .. Len(a) : a[i] = IF i + 0 <= Len(h) THEN h[i + 0] ELSE rec
    <3> SUFFICES ASSUME NEW i \in 1 .. Len(h) + 1
                 PROVE  a[i] = IF i <= Len(h) THEN h[i] ELSE rec
      BY <1>1, <1>2
    <3>1. CASE i <= Len(h)
      BY <1>1, <1>2, <3>1
    <3>2. CASE ~(i <= Len(h))
      <4>1. i = Len(h) + 1
        BY <1>2, <3>2
      <4> QED BY <1>1, <3>2, <4>1
    <3> QED BY <3>1, <3>2
  <2> QED BY <1>1, <2>1, <2>2, <2>3 DEF a
<1> QED BY <1>4, <1>5

-----------------------------------------------------------------------------
(* Type correctness.                                                       *)

LEMMA ReportTypes ==
    ASSUME TypeOK, TodoInside, NEW t \in Thread, NEW r \in todo[t],
           NEW status \in Status, NEW first \in BOOLEAN,
           Report(t, r, status, first)
    PROVE  /\ history' \in Seq(Record) /\ Len(history') <= MaxHistory
           /\ notes' \in [Thread -> Seq(Record)]
<1> DEFINE rec == [rule |-> r, key |-> KeyOf(t, r), status |-> status,
                   time |-> stamp[t], first |-> first]
<1>1. r \in Rule /\ stamp[t] \in Nat /\ KeyOf(t, r) \in Key
  BY KeyFacts DEF TypeOK
<1>2. rec \in Record
  BY <1>1 DEF Record
<1>3. /\ history' = TrimHistory(Append(history, rec))
      /\ notes' = [notes EXCEPT ![t] = Append(@, rec)]
  BY DEF Report
<1> HIDE DEF rec
<1>4. history \in Seq(Record) /\ Len(history) <= MaxHistory
      /\ notes \in [Thread -> Seq(Record)]
  BY DEF TypeOK
<1>5. Append(notes[t], rec) \in Seq(Record)
  BY <1>2, <1>4, AppendProperties
<1> QED BY <1>2, <1>3, <1>4, <1>5, HistoryFacts

Outcome(t, r) ==
    Fire(t, r) \/ Renotify(t, r) \/ Hold(t, r) \/ Resolve(t, r) \/ Quiet(t, r)

LEMMA OutcomeTypes ==
    ASSUME TypeOK, TodoInside, NEW t \in Thread, NEW r \in todo[t], Outcome(t, r)
    PROVE  /\ firing' \subseteq Key /\ acked' \subseteq Key /\ forgotten' \subseteq Key
           /\ lastNotified' \in [Key -> Nat]
           /\ history' \in Seq(Record) /\ Len(history') <= MaxHistory
           /\ notes' \in [Thread -> Seq(Record)]
<1>1. KeyOf(t, r) \in Key
  BY KeyFacts
<1>2. /\ firing \subseteq Key /\ acked \subseteq Key /\ forgotten \subseteq Key
      /\ lastNotified \in [Key -> Nat] /\ stamp[t] \in Nat
      /\ history \in Seq(Record) /\ Len(history) <= MaxHistory
      /\ notes \in [Thread -> Seq(Record)]
  BY DEF TypeOK
<1>3. {"firing", "resolved"} = Status /\ TRUE \in BOOLEAN /\ FALSE \in BOOLEAN
  BY DEF Status
<1>4. CASE Fire(t, r)
  <2>1. Report(t, r, "firing", TRUE)
    BY <1>4 DEF Fire
  <2>2. /\ history' \in Seq(Record) /\ Len(history') <= MaxHistory
        /\ notes' \in [Thread -> Seq(Record)]
    BY <1>3, <2>1, ReportTypes
  <2> QED BY <1>1, <1>2, <1>4, <2>2 DEF Fire
<1>5. CASE Renotify(t, r)
  <2>1. Report(t, r, "firing", FALSE)
    BY <1>5 DEF Renotify
  <2>2. /\ history' \in Seq(Record) /\ Len(history') <= MaxHistory
        /\ notes' \in [Thread -> Seq(Record)]
    BY <1>3, <2>1, ReportTypes
  <2> QED BY <1>1, <1>2, <1>5, <2>2 DEF Renotify
<1>6. CASE Hold(t, r) \/ Quiet(t, r)
  BY <1>2, <1>6 DEF Hold, Quiet, alertVars
<1>7. CASE Resolve(t, r)
  <2>1. Report(t, r, "resolved", TRUE)
    BY <1>7 DEF Resolve
  <2>2. /\ history' \in Seq(Record) /\ Len(history') <= MaxHistory
        /\ notes' \in [Thread -> Seq(Record)]
    BY <1>3, <2>1, ReportTypes
  <2> QED BY <1>1, <1>2, <1>7, <2>2 DEF Resolve
<1> QED BY <1>4, <1>5, <1>6, <1>7 DEF Outcome

(* What an evaluation step leaves to Outcome.                              *)
LEMMA RuleOutcome ==
    ASSUME NEW t, NEW r, EvalRule(t, r)
    PROVE  /\ up /\ pc[t] = "eval" /\ r \in todo[t]
           /\ Outcome(t, r)
           /\ todo' = [todo EXCEPT ![t] = @ \ {r}]
           /\ UNCHANGED <<up, now, ruleVars, pc, agent, batch, stamp, announced,
                          edits, stops, raced>>
BY DEF EvalRule, Outcome

LEMMA CommitTypes ==
    ASSUME TypeOK, NEW gone, NEW R \in SUBSET Rule, CommitEdit(gone, R)
    PROVE  /\ rules' = R /\ rules' \subseteq Rule /\ edit' = NoEdit
           /\ firing' = {k \in firing : k[1] \notin gone} /\ firing' \subseteq Key
           /\ acked' = {k \in acked : k[1] \notin gone} /\ acked' \subseteq Key
           /\ forgotten' \subseteq Key
           /\ lastNotified' \in [Key -> Nat]
BY DEF CommitEdit, TypeOK

EditType == [op : {"none", "upsert", "delete"}, gone : SUBSET RuleId, rules : SUBSET Rule]

(* UpsertRule and DeleteRule in common terms.                              *)
LEMMA EditChosen ==
    ASSUME TypeOK, UpsertRule \/ DeleteRule
    PROVE  \E op \in {"upsert", "delete"}, gone \in SUBSET RuleId, R \in SUBSET Rule :
             BeginEdit(op, gone, R) /\ Keeps(gone, R)
<1>1. rules \subseteq Rule
  BY DEF TypeOK
<1>2. CASE UpsertRule
  <2>1. PICK r \in Rule : \E R \in Upserted(r) : BeginEdit("upsert", {}, R)
    BY <1>2 DEF UpsertRule
  <2>2. PICK R \in Upserted(r) : BeginEdit("upsert", {}, R)
    BY <2>1
  <2>3. R \in SUBSET Rule /\ Keeps({}, R)
    <3>1. CASE {q \in rules : q.id = r.id} = {}
      BY <1>1, <2>2, <3>1 DEF Upserted, Keeps
    <3>2. CASE {q \in rules : q.id = r.id} # {}
      <4>1. PICK q \in rules : q.id = r.id /\ R = (rules \ {q}) \cup {r}
        BY <2>2, <3>2 DEF Upserted
      <4> QED BY <1>1, <4>1 DEF Keeps
    <3> QED BY <3>1, <3>2
  <2> QED BY <2>2, <2>3
<1>3. CASE DeleteRule
  <2>1. PICK id \in RuleId : BeginEdit("delete", {id}, {r \in rules : r.id # id})
    BY <1>3 DEF DeleteRule
  <2>2. {r \in rules : r.id # id} \in SUBSET Rule
        /\ Keeps({id}, {r \in rules : r.id # id})
    BY <1>1 DEF Keeps
  <2> QED BY <2>1, <2>2
<1> QED BY <1>2, <1>3

LEMMA NoEditType == NoEdit \in EditType
BY DEF NoEdit, EditType

LEMMA InitTypes == Init => TypeOK
<1> SUFFICES ASSUME Init PROVE TypeOK
  OBVIOUS
<1>1. AnyAgent \in Agent
  BY AlertAssumption DEF AnyAgent
<1>2. /\ << >> \in Seq(Record) /\ Len(<< >>) <= MaxHistory
      /\ << >> \in Seq(Metric)
  BY EmptySeq, AlertAssumption
<1>3. /\ 0 \in 0 .. MaxTime /\ 0 \in 0 .. MaxEdits /\ 0 \in 0 .. MaxStops
  BY AlertAssumption
<1>4. file \in File
  <2>1. InitialRules \subseteq SUBSET Rule
    BY AlertAssumption
  <2>2. \/ \E R \in InitialRules : file = [ok |-> TRUE, rules |-> R]
        \/ file = [ok |-> FALSE, rules |-> {}]
    BY DEF Init
  <2>3. \A R \in InitialRules : [ok |-> TRUE, rules |-> R] \in File
    BY <2>1 DEF File
  <2>4. [ok |-> FALSE, rules |-> {}] \in File
    BY DEF File
  <2> QED BY <2>2, <2>3, <2>4
<1>5. edit \in EditType
  BY NoEditType DEF Init, InitMemory
<1>6. up \in BOOLEAN /\ hasPath \in BOOLEAN
  BY Zenon DEF Init, InitMemory
<1>7. history \in Seq(Record) /\ Len(history) <= MaxHistory
  BY <1>2 DEF Init, InitMemory
<1>8. /\ pc \in [Thread -> {"idle", "enter", "eval", "notify"}]
      /\ agent \in [Thread -> Agent]
      /\ batch \in [Thread -> Seq(Metric)]
      /\ todo \in [Thread -> SUBSET Rule]
      /\ stamp \in [Thread -> Nat]
      /\ notes \in [Thread -> Seq(Record)]
  BY <1>1, <1>2 DEF Init, InitMemory
<1>9. /\ lastNotified \in [Key -> Nat] /\ announced \in [Key -> Status]
  BY DEF Init, InitMemory, Status
<1>10. /\ rules \subseteq Rule
       /\ firing \subseteq Key /\ acked \subseteq Key /\ forgotten \subseteq Key
       /\ raced \subseteq Agent
       /\ now \in 0 .. MaxTime /\ edits \in 0 .. MaxEdits /\ stops \in 0 .. MaxStops
  BY <1>3 DEF Init, InitMemory
<1> QED BY <1>4, <1>5, <1>6, <1>7, <1>8, <1>9, <1>10 DEF TypeOK, EditType

(* Every edit step, whatever becomes of it, leaves well-typed rules,       *)
(* states and files.                                                       *)
LEMMA EditTypes ==
    ASSUME TypeOK, UpsertRule \/ DeleteRule \/ EditWritten \/ EditFailed
    PROVE  /\ rules' \subseteq Rule /\ file' \in File /\ edit' \in EditType
           /\ firing' \subseteq Key /\ acked' \subseteq Key /\ forgotten' \subseteq Key
           /\ lastNotified' \in [Key -> Nat]
           /\ edits' \in 0 .. MaxEdits
           /\ UNCHANGED <<up, now, hasPath, history, evalVars, announced, stops, raced>>
<1>1. /\ rules \subseteq Rule /\ file \in File /\ edit \in EditType
      /\ firing \subseteq Key /\ acked \subseteq Key /\ forgotten \subseteq Key
      /\ lastNotified \in [Key -> Nat] /\ edits \in 0 .. MaxEdits
  BY DEF TypeOK, EditType
<1>2. MaxEdits \in Nat
  BY AlertAssumption
<1>3. [ok |-> FALSE, rules |-> {}] \in File
  BY DEF File
<1>4. CASE UpsertRule \/ DeleteRule
  <2>1. PICK op \in {"upsert", "delete"}, gone \in SUBSET RuleId, R \in SUBSET Rule :
          BeginEdit(op, gone, R)
    BY <1>4, EditChosen
  <2>2. edits' \in 0 .. MaxEdits
        /\ UNCHANGED <<up, now, hasPath, history, evalVars, announced, stops, raced>>
    BY <1>1, <1>2, <2>1 DEF BeginEdit
  <2>3. CASE CommitEdit(gone, R) /\ UNCHANGED file
    <3>1. CommitEdit(gone, R) /\ file' = file
      BY <2>3
    <3> QED BY <1>1, <2>2, <3>1, CommitTypes, NoEditType
  <2>4. CASE OpenFailed(gone, R)
    BY <1>1, <2>2, <2>4 DEF OpenFailed
  <2>5. CASE /\ file' = [ok |-> FALSE, rules |-> {}]
             /\ edit' = [op |-> op, gone |-> gone, rules |-> R]
             /\ UNCHANGED <<rules, firing, acked, lastNotified, forgotten>>
    <3>1. edit' \in EditType
      BY <2>5 DEF EditType
    <3> QED BY <1>1, <1>3, <2>2, <2>5, <3>1
  <2> QED BY <2>1, <2>3, <2>4, <2>5 DEF BeginEdit
<1>5. CASE EditWritten
  <2>1. edit.gone \in SUBSET RuleId /\ edit.rules \in SUBSET Rule
    BY <1>1 DEF EditType
  <2>2. CommitEdit(edit.gone, edit.rules)
    BY <1>5 DEF EditWritten
  <2>3. [ok |-> TRUE, rules |-> edit.rules] \in File
    BY <2>1 DEF File
  <2>4. file' \in File
    BY <1>1, <1>5, <2>3 DEF EditWritten
  <2>5. edits' = edits
        /\ UNCHANGED <<up, now, hasPath, history, evalVars, announced, stops, raced>>
    BY <1>5 DEF EditWritten
  <2> QED BY <1>1, <2>1, <2>2, <2>4, <2>5, CommitTypes, NoEditType
<1>6. CASE EditFailed
  BY <1>1, <1>6, NoEditType DEF EditFailed, alertVars
<1> QED BY <1>4, <1>5, <1>6

LEMMA NextTypes ==
    ASSUME TypeOK, TodoInside, [Next]_vars
    PROVE  TypeOK'
<1> USE DEF ruleVars, alertVars, evalVars
<1>1. CASE UNCHANGED vars \/ EvalDisabled
  BY <1>1 DEF TypeOK, vars, EvalDisabled
<1>2. CASE AdvanceTime
  <2>1. now' \in 0 .. MaxTime
    BY <1>2, AlertAssumption DEF AdvanceTime, TypeOK
  <2> QED BY <1>2, <2>1 DEF AdvanceTime, TypeOK
<1>3. CASE Start
  <2>1. rules' \subseteq Rule
    <3>1. file.rules \subseteq Rule
      BY DEF TypeOK, File
    <3> QED BY <1>3, <3>1 DEF Start
  <2>2. hasPath' \in BOOLEAN
    <3>1. file.ok \in BOOLEAN
      BY DEF TypeOK, File
    <3>2. hasPath' = file.ok
      BY <1>3 DEF Start
    <3> QED BY <3>1, <3>2, Zenon
  <2>3. up' \in BOOLEAN
    BY <1>3, Zenon DEF Start
  <2> QED BY <1>3, <2>1, <2>2, <2>3 DEF Start, TypeOK
<1>4. CASE Stop
  <2>1. AnyAgent \in Agent
    BY AlertAssumption DEF AnyAgent
  <2>2. << >> \in Seq(Record) /\ Len(<< >>) <= MaxHistory /\ << >> \in Seq(Metric)
    BY EmptySeq, AlertAssumption
  <2>3. history' \in Seq(Record) /\ Len(history') <= MaxHistory
    BY <1>4, <2>2 DEF Stop
  <2>4. up' \in BOOLEAN /\ hasPath' \in BOOLEAN
    BY <1>4, Zenon DEF Stop
  <2>5. /\ pc' \in [Thread -> {"idle", "enter", "eval", "notify"}]
        /\ agent' \in [Thread -> Agent]
        /\ batch' \in [Thread -> Seq(Metric)]
        /\ todo' \in [Thread -> SUBSET Rule]
        /\ stamp' \in [Thread -> Nat]
        /\ notes' \in [Thread -> Seq(Record)]
    BY <1>4, <2>1, <2>2 DEF Stop
  <2>6. lastNotified' \in [Key -> Nat] /\ announced' \in [Key -> Status]
    BY <1>4 DEF Stop, Status
  <2>7. edit' \in EditType
    BY <1>4, NoEditType DEF Stop
  <2>8. stops' \in 0 .. MaxStops
    BY <1>4, AlertAssumption DEF Stop, TypeOK
  <2>9. /\ rules' \subseteq Rule
        /\ firing' \subseteq Key /\ acked' \subseteq Key /\ forgotten' \subseteq Key
        /\ raced' \subseteq Agent
        /\ now' \in 0 .. MaxTime /\ file' \in File /\ edits' \in 0 .. MaxEdits
    BY <1>4 DEF Stop, TypeOK
  <2> QED BY <2>3, <2>4, <2>5, <2>6, <2>7, <2>8, <2>9 DEF TypeOK, EditType
<1>5. CASE UpsertRule \/ DeleteRule \/ EditWritten \/ EditFailed
  BY <1>5, EditTypes DEF TypeOK, EditType
<1>6. ASSUME NEW k \in Key, Ack(k) PROVE TypeOK'
  BY <1>6 DEF Ack, TypeOK
<1>7. ASSUME NEW t \in Thread, NEW a \in Agent, NEW b \in Batches, EvalEnter(t, a, b)
      PROVE  TypeOK'
  <2>1. b \in Seq(Metric)
    BY AlertAssumption
  <2>2. raced' \subseteq Agent
    BY <1>7 DEF EvalEnter, TypeOK
  <2>3. /\ pc' \in [Thread -> {"idle", "enter", "eval", "notify"}]
        /\ agent' \in [Thread -> Agent]
        /\ batch' \in [Thread -> Seq(Metric)]
    BY <1>7, <2>1 DEF EvalEnter, TypeOK
  <2> QED BY <1>7, <2>2, <2>3 DEF EvalEnter, TypeOK
<1>8. ASSUME NEW t \in Thread, EvalLock(t) PROVE TypeOK'
  <2>1. Matching(agent[t], batch[t]) \subseteq Rule
    BY MatchingFacts DEF TypeOK
  <2>2. now \in Nat
    BY AlertAssumption DEF TypeOK
  <2> QED BY <1>8, <2>1, <2>2 DEF EvalLock, TypeOK
<1>9. ASSUME NEW t \in Thread, NEW r \in Rule, EvalRule(t, r) PROVE TypeOK'
  <2>1. r \in todo[t] /\ Outcome(t, r)
    BY <1>9, RuleOutcome
  <2>2. todo' \in [Thread -> SUBSET Rule]
    <3>1. todo' = [todo EXCEPT ![t] = @ \ {r}]
      BY <1>9, RuleOutcome
    <3> QED BY <3>1 DEF TypeOK
  <2>3. /\ firing' \subseteq Key /\ acked' \subseteq Key /\ forgotten' \subseteq Key
        /\ lastNotified' \in [Key -> Nat]
        /\ history' \in Seq(Record) /\ Len(history') <= MaxHistory
        /\ notes' \in [Thread -> Seq(Record)]
    BY <2>1, OutcomeTypes
  <2> QED BY <1>9, <2>2, <2>3, RuleOutcome DEF TypeOK
<1>10. ASSUME NEW t \in Thread, EvalNext(t) PROVE TypeOK'
  <2> DEFINE rest == IF batch[t] = << >> THEN << >> ELSE Tail(batch[t])
  <2>1. rest \in Seq(Metric)
    <3>1. batch[t] \in Seq(Metric)
      BY DEF TypeOK
    <3> QED BY <3>1, EmptySeq, HeadTailProperties
  <2>2. Matching(agent[t], rest) \subseteq Rule
    BY MatchingFacts DEF TypeOK
  <2>3. /\ batch' = [batch EXCEPT ![t] = rest]
        /\ todo' = [todo EXCEPT ![t] = Matching(agent[t], rest)]
        /\ pc' = [pc EXCEPT ![t] = IF rest = << >> THEN "notify" ELSE "eval"]
    BY <1>10 DEF EvalNext
  <2> HIDE DEF rest
  <2>4. pc' \in [Thread -> {"idle", "enter", "eval", "notify"}]
    BY <2>3 DEF TypeOK
  <2>5. batch' \in [Thread -> Seq(Metric)] /\ todo' \in [Thread -> SUBSET Rule]
    BY <2>1, <2>2, <2>3 DEF TypeOK
  <2> QED BY <1>10, <2>4, <2>5 DEF EvalNext, TypeOK
<1>11. ASSUME NEW t \in Thread, Notify(t) PROVE TypeOK'
  <2>1. notes[t] \in Seq(Record) /\ notes[t] # << >>
    BY <1>11 DEF Notify, TypeOK
  <2>2. Head(notes[t]) \in Record /\ Tail(notes[t]) \in Seq(Record)
    BY <2>1, HeadTailProperties
  <2>3. Head(notes[t]).status \in Status
    BY <2>2 DEF Record
  <2>4. announced' \in [Key -> Status]
    BY <1>11, <2>3 DEF Notify, TypeOK
  <2>5. notes' \in [Thread -> Seq(Record)]
    BY <1>11, <2>2 DEF Notify, TypeOK
  <2> QED BY <1>11, <2>4, <2>5 DEF Notify, TypeOK
<1>12. ASSUME NEW t \in Thread, EvalReturn(t) PROVE TypeOK'
  <2>1. AnyAgent \in Agent
    BY AlertAssumption DEF AnyAgent
  <2> QED BY <1>12, <2>1 DEF EvalReturn, TypeOK
<1> QED
  BY <1>1, <1>2, <1>3, <1>4, <1>5, <1>6, <1>7, <1>8, <1>9, <1>10, <1>11, <1>12
  DEF Next, EvalStep

-----------------------------------------------------------------------------
(* The lock.                                                               *)

LEMMA InitLock == Init => LockInv
BY DEF Init, InitMemory, NoEdit, LockInv, TodoInside, Exclusive, EditPending, DownEmpty

(* What the steps of an edit do to file, rules and states.                 *)
LEMMA EditEffect ==
    ASSUME TypeOK, LockInv, UpsertRule \/ DeleteRule \/ EditWritten \/ EditFailed
    PROVE  /\ up /\ \A t \in Thread : pc[t] # "eval"
           /\ \/ /\ UNCHANGED <<file, rules, edit, firing, acked>>
              \/ /\ edit.op # "none" /\ edit'.op = "none"
                 /\ UNCHANGED <<file, rules, firing, acked>>
              \/ /\ edit'.op # "none" /\ ~file'.ok /\ UNCHANGED <<rules, firing, acked>>
                 /\ Keeps(edit'.gone, edit'.rules)
              \/ /\ edit'.op = "none"
                 /\ hasPath /\ file'.ok => file'.rules = rules'
                 /\ \E gone, R : /\ Keeps(gone, R) /\ rules' = R
                                 /\ firing' = {k \in firing : k[1] \notin gone}
                                 /\ acked' = {k \in acked : k[1] \notin gone}
<1>1. NoEdit.op = "none"
  BY DEF NoEdit
<1>2. CASE UpsertRule \/ DeleteRule
  <2>1. PICK op \in {"upsert", "delete"}, gone \in SUBSET RuleId, R \in SUBSET Rule :
          BeginEdit(op, gone, R) /\ Keeps(gone, R)
    BY <1>2, EditChosen
  <2>2. up /\ \A t \in Thread : pc[t] # "eval"
    BY <2>1 DEF BeginEdit, Free
  <2>3. CASE ~hasPath /\ CommitEdit(gone, R)
    <3>1. /\ rules' = R /\ edit'.op = "none"
          /\ firing' = {k \in firing : k[1] \notin gone}
          /\ acked' = {k \in acked : k[1] \notin gone}
      BY <1>1, <2>3, CommitTypes
    <3> QED BY <2>1, <2>2, <2>3, <3>1
  <2>4. CASE OpenFailed(gone, R)
    BY <2>2, <2>4 DEF OpenFailed
  <2>5. CASE /\ file' = [ok |-> FALSE, rules |-> {}]
             /\ edit' = [op |-> op, gone |-> gone, rules |-> R]
             /\ UNCHANGED <<rules, firing, acked, lastNotified, forgotten>>
    <3>1. edit'.op = op /\ edit'.gone = gone /\ edit'.rules = R /\ ~file'.ok
      BY <2>5
    <3>2. op # "none"
      OBVIOUS
    <3>3. Keeps(edit'.gone, edit'.rules)
      BY <2>1, <3>1
    <3> QED BY <2>2, <2>5, <3>1, <3>2, <3>3
  <2> QED BY <2>1, <2>3, <2>4, <2>5 DEF BeginEdit
<1>3. CASE EditWritten
  <2>1. up /\ edit.op # "none" /\ CommitEdit(edit.gone, edit.rules)
        /\ file' \in {[ok |-> TRUE, rules |-> edit.rules], file}
    BY <1>3 DEF EditWritten
  <2>2. \A t \in Thread : pc[t] # "eval"
    BY <2>1 DEF LockInv, Exclusive
  <2>3. ~file.ok /\ Keeps(edit.gone, edit.rules)
    BY <2>1 DEF LockInv, EditPending
  <2>4. edit.rules \in SUBSET Rule
    BY DEF TypeOK
  <2>5. /\ rules' = edit.rules /\ edit'.op = "none"
        /\ firing' = {k \in firing : k[1] \notin edit.gone}
        /\ acked' = {k \in acked : k[1] \notin edit.gone}
    BY <1>1, <2>1, <2>4, CommitTypes
  <2>6. file'.ok => file'.rules = rules'
    BY <2>1, <2>3, <2>5
  <2> QED BY <2>1, <2>2, <2>3, <2>5, <2>6
<1>4. CASE EditFailed
  <2>1. up /\ edit.op # "none" /\ edit' = NoEdit
        /\ UNCHANGED <<file, rules, firing, acked>>
    BY <1>4 DEF EditFailed, alertVars
  <2>2. \A t \in Thread : pc[t] # "eval"
    BY <2>1 DEF LockInv, Exclusive
  <2> QED BY <1>1, <2>1, <2>2
<1> QED BY <1>2, <1>3, <1>4

LEMMA NextLock ==
    ASSUME TypeOK, LockInv, [Next]_vars
    PROVE  LockInv'
<1> USE DEF ruleVars, alertVars, evalVars
<1>0. TodoInside /\ Exclusive /\ EditPending /\ DownEmpty
  BY DEF LockInv
<1>1. CASE UNCHANGED vars \/ EvalDisabled
  BY <1>0, <1>1 DEF vars, EvalDisabled, LockInv, TodoInside, Exclusive, EditPending,
                   Keeps, DownEmpty
<1>2. CASE AdvanceTime
  BY <1>0, <1>2 DEF AdvanceTime, LockInv, TodoInside, Exclusive, EditPending, Keeps,
                   DownEmpty
<1>3. CASE Start
  <2>1. edit.op = "none" /\ \A t \in Thread : pc[t] = "idle"
    BY <1>0, <1>3 DEF Start, DownEmpty
  <2>2. up' /\ UNCHANGED <<edit, pc, todo, batch>>
    BY <1>3 DEF Start
  <2> QED BY <1>0, <2>1, <2>2 DEF LockInv, TodoInside, Exclusive, EditPending, DownEmpty
<1>4. CASE Stop
  <2>1. edit'.op = "none" /\ firing' = {} /\ \A t \in Thread : pc'[t] = "idle" /\ todo'[t] = {}
    BY <1>4 DEF Stop, NoEdit
  <2> QED BY <2>1 DEF LockInv, TodoInside, Exclusive, EditPending, DownEmpty
<1>5. CASE UpsertRule \/ DeleteRule \/ EditWritten \/ EditFailed
  <2>1. UNCHANGED <<up, pc, todo, batch>>
    BY <1>5, EditTypes
  <2>2. up /\ \A t \in Thread : pc[t] # "eval"
    BY <1>5, EditEffect
  <2>3. EditPending'
    <3>1. \/ UNCHANGED <<file, rules, edit>>
          \/ edit'.op = "none"
          \/ ~file'.ok /\ rules' = rules /\ Keeps(edit'.gone, edit'.rules)
      BY <1>5, EditEffect
    <3> QED BY <1>0, <3>1 DEF EditPending, Keeps
  <2> QED BY <1>0, <2>1, <2>2, <2>3 DEF LockInv, TodoInside, Exclusive, DownEmpty
<1>6. ASSUME NEW k \in Key, Ack(k) PROVE LockInv'
  BY <1>0, <1>6 DEF Ack, LockInv, TodoInside, Exclusive, EditPending, Keeps, DownEmpty
<1>7. ASSUME NEW t \in Thread, NEW a \in Agent, NEW b \in Batches, EvalEnter(t, a, b)
      PROVE  LockInv'
  <2>1. up /\ pc[t] = "idle" /\ pc' = [pc EXCEPT ![t] = "enter"]
        /\ batch' = [batch EXCEPT ![t] = b]
        /\ UNCHANGED <<up, edit, rules, file, todo, firing>>
    BY <1>7 DEF EvalEnter
  <2>2. todo[t] = {}
    BY <1>0, <2>1 DEF TodoInside
  <2>3. \A u \in Thread : /\ pc'[u] = "eval" <=> pc[u] = "eval"
                          /\ u # t => batch'[u] = batch[u]
    BY <2>1 DEF TypeOK
  <2> QED BY <1>0, <2>1, <2>2, <2>3 DEF LockInv, TodoInside, Exclusive, EditPending, Keeps,
                                      DownEmpty
<1>8. ASSUME NEW t \in Thread, EvalLock(t) PROVE LockInv'
  <2>1. up /\ pc' = [pc EXCEPT ![t] = "eval"]
        /\ todo' = [todo EXCEPT ![t] = Matching(agent[t], batch[t])]
        /\ UNCHANGED <<up, edit, rules, file, batch, firing>>
    BY <1>8 DEF EvalLock
  <2>2. edit.op = "none" /\ \A u \in Thread : pc[u] # "eval"
    BY <1>8 DEF EvalLock, Free
  <2>3. /\ pc'[t] = "eval" /\ todo'[t] = Matching(agent[t], batch[t])
        /\ \A u \in Thread : u # t => pc'[u] = pc[u] /\ todo'[u] = todo[u]
    BY <2>1 DEF TypeOK
  <2>4. todo'[t] \subseteq rules /\ (todo'[t] # {} => batch[t] # << >>)
    BY <2>3, MatchingFacts
  <2> QED BY <1>0, <2>1, <2>2, <2>3, <2>4 DEF LockInv, TodoInside, Exclusive, EditPending,
                                             DownEmpty
<1>9. ASSUME NEW t \in Thread, NEW r \in Rule, EvalRule(t, r) PROVE LockInv'
  <2>1. up /\ pc[t] = "eval" /\ todo' = [todo EXCEPT ![t] = @ \ {r}]
        /\ UNCHANGED <<up, edit, rules, file, batch, pc>>
    BY <1>9, RuleOutcome
  <2>2. \A u \in Thread : todo'[u] \subseteq todo[u]
    BY <2>1 DEF TypeOK
  <2> QED BY <1>0, <2>1, <2>2 DEF LockInv, TodoInside, Exclusive, EditPending, Keeps,
                                 DownEmpty
<1>10. ASSUME NEW t \in Thread, EvalNext(t) PROVE LockInv'
  <2> DEFINE rest == IF batch[t] = << >> THEN << >> ELSE Tail(batch[t])
  <2>1. up /\ pc[t] = "eval"
        /\ batch' = [batch EXCEPT ![t] = rest]
        /\ todo' = [todo EXCEPT ![t] = Matching(agent[t], rest)]
        /\ pc' = [pc EXCEPT ![t] = IF rest = << >> THEN "notify" ELSE "eval"]
        /\ UNCHANGED <<up, edit, rules, file, firing>>
    BY <1>10 DEF EvalNext
  <2> HIDE DEF rest
  <2>2. /\ batch'[t] = rest /\ todo'[t] = Matching(agent[t], rest)
        /\ pc'[t] = IF rest = << >> THEN "notify" ELSE "eval"
    BY <2>1 DEF TypeOK
  <2>3. \A u \in Thread : u # t => pc'[u] = pc[u] /\ todo'[u] = todo[u] /\ batch'[u] = batch[u]
    BY <2>1 DEF TypeOK
  <2>4. todo'[t] \subseteq rules /\ (todo'[t] # {} => batch'[t] # << >>)
    BY <2>2, MatchingFacts
  <2>5. pc'[t] # "eval" => todo'[t] = {}
    BY <2>2, <2>4
  <2>6. TodoInside'
    BY <1>0, <2>3, <2>4, <2>5 DEF TodoInside
  <2>7. Exclusive'
    <3>1. edit.op = "none" /\ \A u \in Thread : pc[u] = "eval" => u = t
      BY <1>0, <2>1 DEF Exclusive
    <3>2. \A u \in Thread : pc'[u] = "eval" => u = t
      BY <2>3, <3>1
    <3> QED BY <2>1, <2>4, <3>1, <3>2 DEF Exclusive
  <2>8. EditPending' /\ DownEmpty'
    BY <1>0, <2>1 DEF EditPending, Keeps, DownEmpty
  <2> QED BY <2>6, <2>7, <2>8 DEF LockInv
<1>11. ASSUME NEW t \in Thread, Notify(t) PROVE LockInv'
  BY <1>0, <1>11 DEF Notify, LockInv, TodoInside, Exclusive, EditPending, Keeps, DownEmpty
<1>12. ASSUME NEW t \in Thread, EvalReturn(t) PROVE LockInv'
  <2>1. up /\ pc[t] = "notify" /\ pc' = [pc EXCEPT ![t] = "idle"]
        /\ UNCHANGED <<up, edit, rules, file, todo, batch, firing>>
    BY <1>12 DEF EvalReturn
  <2>2. \A u \in Thread : pc'[u] = "eval" <=> pc[u] = "eval"
    BY <2>1 DEF TypeOK
  <2> QED BY <1>0, <2>1, <2>2 DEF LockInv, TodoInside, Exclusive, EditPending, Keeps,
                                 DownEmpty
<1> QED
  BY <1>1, <1>2, <1>3, <1>4, <1>5, <1>6, <1>7, <1>8, <1>9, <1>10, <1>11, <1>12
  DEF Next, EvalStep

-----------------------------------------------------------------------------
(* Rules, states and file.                                                 *)

LEMMA OutcomeEffect ==
    ASSUME TypeOK, TodoInside, NEW t \in Thread, NEW r \in todo[t], Outcome(t, r)
    PROVE  /\ firing' \subseteq firing \cup {KeyOf(t, r)}
           /\ acked \subseteq firing => acked' \subseteq firing'
           /\ \/ history' = history
              \/ \E rec \in Record : /\ rec.time = stamp[t]
                                     /\ history' = TrimHistory(Append(history, rec))
<1> DEFINE rec(status, first) == [rule |-> r, key |-> KeyOf(t, r), status |-> status,
                                  time |-> stamp[t], first |-> first]
<1>1. r \in Rule /\ stamp[t] \in Nat /\ KeyOf(t, r) \in Key
  BY KeyFacts DEF TypeOK
<1>2. \A status \in Status, first \in BOOLEAN :
        rec(status, first) \in Record /\ rec(status, first).time = stamp[t]
  BY <1>1 DEF Record
<1>3. ASSUME NEW status \in Status, NEW first \in BOOLEAN, Report(t, r, status, first)
      PROVE  \E e \in Record : /\ e.time = stamp[t]
                               /\ history' = TrimHistory(Append(history, e))
  <2>1. history' = TrimHistory(Append(history, rec(status, first)))
    BY <1>3 DEF Report
  <2> HIDE DEF rec
  <2> QED BY <1>2, <2>1
<1>4. "firing" \in Status /\ "resolved" \in Status /\ TRUE \in BOOLEAN /\ FALSE \in BOOLEAN
  BY DEF Status
<1> HIDE DEF rec
<1>5. CASE Fire(t, r)
  <2>1. Report(t, r, "firing", TRUE)
    BY <1>5 DEF Fire
  <2>2. \E e \in Record : e.time = stamp[t] /\ history' = TrimHistory(Append(history, e))
    BY <1>3, <1>4, <2>1
  <2>3. firing' = firing \cup {KeyOf(t, r)} /\ acked' = acked
    BY <1>5 DEF Fire
  <2> QED BY <2>2, <2>3
<1>6. CASE Renotify(t, r)
  <2>1. Report(t, r, "firing", FALSE)
    BY <1>6 DEF Renotify
  <2>2. \E e \in Record : e.time = stamp[t] /\ history' = TrimHistory(Append(history, e))
    BY <1>3, <1>4, <2>1
  <2>3. firing' = firing /\ acked' = acked
    BY <1>6 DEF Renotify
  <2> QED BY <2>2, <2>3
<1>7. CASE Resolve(t, r)
  <2>1. Report(t, r, "resolved", TRUE)
    BY <1>7 DEF Resolve
  <2>2. \E e \in Record : e.time = stamp[t] /\ history' = TrimHistory(Append(history, e))
    BY <1>3, <1>4, <2>1
  <2>3. firing' = firing \ {KeyOf(t, r)} /\ acked' = acked \ {KeyOf(t, r)}
    BY <1>7 DEF Resolve
  <2> QED BY <2>2, <2>3
<1>8. CASE Hold(t, r) \/ Quiet(t, r)
  BY <1>8 DEF Hold, Quiet, alertVars
<1> QED BY <1>5, <1>6, <1>7, <1>8 DEF Outcome

StateInv == NeverStale /\ NoOrphan /\ AckOnlyFiring

LEMMA InitState == Init => StateInv
BY DEF Init, InitMemory, StateInv, NeverStale, NoOrphan, AckOnlyFiring

LEMMA NextState ==
    ASSUME TypeOK, LockInv, StateInv, [Next]_vars
    PROVE  StateInv'
<1> USE DEF ruleVars, alertVars, evalVars
<1>0. TodoInside /\ NeverStale /\ NoOrphan /\ AckOnlyFiring
  BY DEF LockInv, StateInv
<1>1. ASSUME UNCHANGED <<rules, hasPath, file, firing, acked>> PROVE StateInv'
  BY <1>0, <1>1 DEF StateInv, NeverStale, NoOrphan, AckOnlyFiring
<1>2. CASE Start
  <2>1. firing = {} /\ UNCHANGED <<firing, acked, file>>
    BY <1>2 DEF Start, LockInv, DownEmpty
  <2>2. hasPath' = file.ok /\ rules' = IF file.ok THEN file.rules ELSE {}
    BY <1>2 DEF Start
  <2>3. NeverStale'
    BY <2>1, <2>2 DEF NeverStale
  <2>4. NoOrphan' /\ AckOnlyFiring'
    BY <1>0, <2>1 DEF NoOrphan, AckOnlyFiring
  <2> QED BY <2>3, <2>4 DEF StateInv
<1>3. CASE Stop
  BY <1>3 DEF Stop, StateInv, NeverStale, NoOrphan, AckOnlyFiring
<1>4. CASE UpsertRule \/ DeleteRule \/ EditWritten \/ EditFailed
  <2>1. hasPath' = hasPath
    BY <1>4, EditTypes
  <2>2. CASE UNCHANGED <<file, rules, firing, acked>>
    BY <1>1, <2>1, <2>2
  <2>3. CASE ~file'.ok /\ UNCHANGED <<rules, firing, acked>>
    BY <1>0, <2>3 DEF StateInv, NeverStale, NoOrphan, AckOnlyFiring
  <2>4. CASE /\ hasPath /\ file'.ok => file'.rules = rules'
             /\ \E gone, R : /\ Keeps(gone, R) /\ rules' = R
                             /\ firing' = {k \in firing : k[1] \notin gone}
                             /\ acked' = {k \in acked : k[1] \notin gone}
    <3>1. NeverStale'
      BY <2>1, <2>4 DEF NeverStale
    <3>2. PICK gone, R : /\ Keeps(gone, R) /\ rules' = R
                         /\ firing' = {k \in firing : k[1] \notin gone}
                         /\ acked' = {k \in acked : k[1] \notin gone}
      BY <2>4
    <3>3. NoOrphan'
      <4> SUFFICES ASSUME NEW k \in firing, k[1] \notin gone
                   PROVE  \E q \in R : q.id = k[1]
        BY <3>2 DEF NoOrphan
      <4>1. PICK q \in rules : q.id = k[1]
        BY <1>0 DEF NoOrphan
      <4> QED BY <3>2, <4>1 DEF Keeps
    <3>4. AckOnlyFiring'
      BY <1>0, <3>2 DEF AckOnlyFiring
    <3> QED BY <3>1, <3>3, <3>4 DEF StateInv
  <2> QED BY <1>4, <2>2, <2>3, <2>4, EditEffect
<1>5. ASSUME NEW k \in Key, Ack(k) PROVE StateInv'
  BY <1>0, <1>5 DEF Ack, StateInv, NeverStale, NoOrphan, AckOnlyFiring
<1>6. ASSUME NEW t \in Thread, NEW r \in Rule, EvalRule(t, r) PROVE StateInv'
  <2>1. pc[t] = "eval" /\ r \in todo[t] /\ Outcome(t, r)
        /\ UNCHANGED <<rules, hasPath, file>>
    BY <1>6, RuleOutcome
  <2>2. r \in rules
    BY <2>1 DEF LockInv, Exclusive
  <2>3. KeyOf(t, r)[1] = r.id
    BY <1>0, <2>1, KeyFacts
  <2>4. firing' \subseteq firing \cup {KeyOf(t, r)} /\ acked' \subseteq firing'
    BY <1>0, <2>1, OutcomeEffect DEF AckOnlyFiring
  <2>5. NoOrphan'
    BY <1>0, <2>1, <2>2, <2>3, <2>4 DEF NoOrphan
  <2>6. NeverStale'
    BY <1>0, <2>1 DEF NeverStale
  <2> QED BY <2>4, <2>5, <2>6 DEF StateInv, AckOnlyFiring
<1>7. CASE UNCHANGED vars \/ EvalDisabled \/ AdvanceTime
  BY <1>1, <1>7 DEF vars, EvalDisabled, AdvanceTime
<1>8. ASSUME NEW t \in Thread, NEW a \in Agent, NEW b \in Batches, EvalEnter(t, a, b)
      PROVE  StateInv'
  BY <1>1, <1>8 DEF EvalEnter
<1>9. ASSUME NEW t \in Thread,
             EvalLock(t) \/ EvalNext(t) \/ Notify(t) \/ EvalReturn(t)
      PROVE  StateInv'
  BY <1>1, <1>9 DEF EvalLock, EvalNext, Notify, EvalReturn
<1> QED
  BY <1>2, <1>3, <1>4, <1>5, <1>6, <1>7, <1>8, <1>9 DEF Next, EvalStep

-----------------------------------------------------------------------------
(* The history.                                                            *)

TimeInv == HistoryOrdered /\ Stamped

LEMMA InitTime == Init => TimeInv
<1> SUFFICES ASSUME Init PROVE TimeInv
  OBVIOUS
<1>1. history = << >> /\ \A t \in Thread : pc[t] = "idle"
  BY DEF Init, InitMemory
<1>2. DOMAIN history = {}
  BY <1>1
<1> QED BY <1>1, <1>2 DEF TimeInv, HistoryOrdered, Stamped

(* A record of the thread's own time goes to the end of an ordered         *)
(* history without records younger than that.                              *)
LEMMA AppendOrdered ==
    ASSUME TypeOK, NEW m \in Nat, NEW rec \in Record, rec.time = m,
           \A i, j \in DOMAIN history : i < j => history[i].time <= history[j].time,
           \A i \in DOMAIN history : history[i].time <= m,
           history' = TrimHistory(Append(history, rec))
    PROVE  /\ \A i, j \in DOMAIN history' : i < j => history'[i].time <= history'[j].time
           /\ \A i \in DOMAIN history' : history'[i].time <= m
<1>1. /\ history \in Seq(Record) /\ Len(history) \in Nat
      /\ DOMAIN history = 1 .. Len(history) /\ Len(history) <= MaxHistory
  BY LenProperties DEF TypeOK
<1>2. /\ history' \in Seq(Record)
      /\ \E d \in {0, 1} :
           /\ Len(history') = Len(history) + 1 - d
           /\ \A i \in 1 .. Len(history') :
                history'[i] = IF i + d <= Len(history) THEN history[i + d] ELSE rec
  <2> DEFINE g == TrimHistory(Append(history, rec))
  <2>1. /\ g \in Seq(Record)
        /\ \E d \in {0, 1} :
             /\ Len(g) = Len(history) + 1 - d
             /\ \A i \in 1 .. Len(g) :
                  g[i] = IF i + d <= Len(history) THEN history[i + d] ELSE rec
    BY ONLY <1>1, HistoryFacts, rec \in Record
  <2>2. history' = g
    OBVIOUS
  <2> HIDE DEF g
  <2> QED BY ONLY <2>1, <2>2
<1>3. PICK d \in {0, 1} :
           /\ Len(history') = Len(history) + 1 - d
           /\ \A i \in 1 .. Len(history') :
                history'[i] = IF i + d <= Len(history) THEN history[i + d] ELSE rec
  BY <1>2
<1>4. DOMAIN history' = 1 .. Len(history')
  BY <1>2, LenProperties
<1>5. ASSUME NEW i \in 1 .. Len(history') PROVE history'[i].time <= m
  <2>1. CASE i + d <= Len(history)
    <3>1. i + d \in 1 .. Len(history)
      BY <1>1, <1>3, <2>1
    <3> QED BY <1>1, <1>3, <2>1, <3>1
  <2>2. CASE ~(i + d <= Len(history))
    BY <1>3, <2>2
  <2> QED BY <2>1, <2>2
<1>6. ASSUME NEW i \in 1 .. Len(history'), NEW j \in 1 .. Len(history'), i < j
      PROVE  history'[i].time <= history'[j].time
  <2>1. CASE j + d <= Len(history)
    <3>1. i + d \in 1 .. Len(history) /\ j + d \in 1 .. Len(history) /\ i + d < j + d
      BY <1>1, <1>3, <1>6, <2>1
    <3>2. history'[i] = history[i + d] /\ history'[j] = history[j + d]
      BY <1>3, <2>1, <3>1
    <3> QED BY <1>1, <3>1, <3>2
  <2>2. CASE ~(j + d <= Len(history))
    <3>1. history'[j].time = m
      BY <1>3, <2>2
    <3> QED BY <1>5, <3>1
  <2> QED BY <2>1, <2>2
<1> QED BY <1>4, <1>5, <1>6

LEMMA NextTime ==
    ASSUME TypeOK, LockInv, TimeInv, [Next]_vars
    PROVE  TimeInv'
<1> USE DEF ruleVars, alertVars, evalVars
<1>0. HistoryOrdered /\ Stamped
  BY DEF TimeInv
<1>1. now \in Nat /\ \A i \in DOMAIN history : history[i].time \in Nat
  <2>1. history \in Seq(Record)
    BY DEF TypeOK
  <2>2. \A i \in DOMAIN history : history[i] \in Record
    BY <2>1, ElementOfSeq, LenProperties
  <2> QED BY <2>2, AlertAssumption DEF TypeOK, Record
<1>2. ASSUME UNCHANGED <<history, now>>,
             \A u \in Thread : pc'[u] = "eval" => pc[u] = "eval" /\ stamp'[u] = stamp[u]
      PROVE  TimeInv'
  BY <1>0, <1>2 DEF TimeInv, HistoryOrdered, Stamped
<1>3. CASE AdvanceTime
  <2>1. UNCHANGED <<history, pc, stamp>> /\ now' = now + 1
    BY <1>3 DEF AdvanceTime
  <2>2. stamp \in [Thread -> Nat]
    BY DEF TypeOK
  <2> QED BY <1>0, <1>1, <2>1, <2>2 DEF TimeInv, HistoryOrdered, Stamped
<1>4. CASE Stop
  <2>1. history' = << >> /\ \A t \in Thread : pc'[t] = "idle"
    BY <1>4 DEF Stop
  <2>2. DOMAIN history' = {}
    BY <2>1
  <2> QED BY <2>1, <2>2 DEF TimeInv, HistoryOrdered, Stamped
<1>5. ASSUME NEW t \in Thread, EvalLock(t) PROVE TimeInv'
  <2>1. /\ pc' = [pc EXCEPT ![t] = "eval"] /\ stamp' = [stamp EXCEPT ![t] = now]
        /\ UNCHANGED <<history, now>>
    BY <1>5 DEF EvalLock
  <2>2. \A u \in Thread : pc[u] # "eval"
    BY <1>5 DEF EvalLock, Free
  <2>3. /\ stamp'[t] = now
        /\ \A u \in Thread : pc'[u] = "eval" => u = t
    BY <2>1, <2>2 DEF TypeOK
  <2> QED BY <1>0, <1>1, <2>1, <2>3 DEF TimeInv, HistoryOrdered, Stamped
<1>6. ASSUME NEW t \in Thread, NEW r \in Rule, EvalRule(t, r) PROVE TimeInv'
  <2>1. pc[t] = "eval" /\ r \in todo[t] /\ Outcome(t, r) /\ UNCHANGED <<pc, stamp, now>>
    BY <1>6, RuleOutcome
  <2>2. CASE history' = history
    BY <1>2, <2>1, <2>2
  <2>3. CASE \E rec \in Record : /\ rec.time = stamp[t]
                                 /\ history' = TrimHistory(Append(history, rec))
    <3>1. stamp[t] \in Nat /\ stamp[t] <= now
          /\ \A i \in DOMAIN history : history[i].time <= stamp[t]
      BY <1>0, <2>1 DEF TypeOK, Stamped
    <3>2. /\ \A i, j \in DOMAIN history' : i < j => history'[i].time <= history'[j].time
          /\ \A i \in DOMAIN history' : history'[i].time <= stamp[t]
      BY <1>0, <2>3, <3>1, AppendOrdered DEF HistoryOrdered
    <3>3. \A i \in DOMAIN history' : history'[i].time \in Nat
      <4>1. history' \in Seq(Record)
        BY <2>1, OutcomeTypes DEF LockInv
      <4>2. \A i \in DOMAIN history' : history'[i] \in Record
        BY <4>1, ElementOfSeq, LenProperties
      <4> QED BY <4>2 DEF Record
    <3>4. HistoryOrdered'
      BY <1>1, <2>1, <3>1, <3>2, <3>3 DEF HistoryOrdered
    <3>5. Stamped'
      <4>1. \A u \in Thread : pc[u] = "eval" => u = t
        BY <2>1 DEF LockInv, Exclusive
      <4> QED BY <2>1, <3>1, <3>2, <4>1 DEF Stamped
    <3> QED BY <3>4, <3>5 DEF TimeInv
  <2> QED BY <2>1, <2>2, <2>3, OutcomeEffect DEF LockInv
<1>7. CASE UNCHANGED vars \/ EvalDisabled \/ Start
  BY <1>2, <1>7 DEF vars, EvalDisabled, Start
<1>8. CASE UpsertRule \/ DeleteRule \/ EditWritten \/ EditFailed
  BY <1>2, <1>8, EditTypes
<1>9. ASSUME NEW k \in Key, Ack(k) PROVE TimeInv'
  BY <1>2, <1>9 DEF Ack
<1>10. ASSUME NEW t \in Thread, NEW a \in Agent, NEW b \in Batches, EvalEnter(t, a, b)
       PROVE  TimeInv'
  <2>1. pc' = [pc EXCEPT ![t] = "enter"] /\ UNCHANGED <<history, now, stamp>>
    BY <1>10 DEF EvalEnter
  <2>2. \A u \in Thread : pc'[u] = "eval" => pc[u] = "eval"
    BY <2>1 DEF TypeOK
  <2> QED BY <1>2, <2>1, <2>2
<1>11. ASSUME NEW t \in Thread, EvalNext(t) PROVE TimeInv'
  <2>1. pc[t] = "eval" /\ UNCHANGED <<history, now, stamp>>
        /\ \E c : pc' = [pc EXCEPT ![t] = c]
    BY <1>11 DEF EvalNext
  <2>2. \A u \in Thread : pc'[u] = "eval" => pc[u] = "eval"
    BY <2>1 DEF TypeOK
  <2> QED BY <1>2, <2>1, <2>2
<1>12. ASSUME NEW t \in Thread, Notify(t) PROVE TimeInv'
  BY <1>2, <1>12 DEF Notify
<1>13. ASSUME NEW t \in Thread, EvalReturn(t) PROVE TimeInv'
  <2>1. /\ pc' = [pc EXCEPT ![t] = "idle"] /\ stamp' = [stamp EXCEPT ![t] = 0]
        /\ UNCHANGED <<history, now>>
    BY <1>13 DEF EvalReturn
  <2>2. \A u \in Thread : pc'[u] = "eval" => pc[u] = "eval" /\ stamp'[u] = stamp[u]
    BY <2>1 DEF TypeOK
  <2> QED BY <1>2, <2>1, <2>2
<1> QED
  BY <1>3, <1>4, <1>5, <1>6, <1>7, <1>8, <1>9, <1>10, <1>11, <1>12, <1>13
  DEF Next, EvalStep

-----------------------------------------------------------------------------
(* What the history tells.                                                 *)

(* An outcome of the comparison either changes nothing, or it reports one  *)
(* record of the key's new state.                                          *)
Reported(t, k, rec) ==
    /\ rec \in Record /\ rec.key = k /\ rec.time = stamp[t]
    /\ history' = TrimHistory(Append(history, rec))
    /\ notes' = [notes EXCEPT ![t] = Append(@, rec)]
    /\ k \in firing' <=> rec.status = "firing"
    /\ rec.status \in Status
    /\ k \in firing' => lastNotified'[k] = stamp[t]
    /\ ~rec.first => k \in firing /\ stamp[t] >= lastNotified[k] + rec.rule.repeat
    /\ \A j \in Key : j # k => /\ j \in firing' <=> j \in firing
                               /\ j \in forgotten' <=> j \in forgotten
                               /\ lastNotified'[j] = lastNotified[j]

LEMMA OutcomeReport ==
    ASSUME TypeOK, TodoInside, NEW t \in Thread, NEW r \in todo[t], Outcome(t, r)
    PROVE  \/ UNCHANGED <<firing, lastNotified, history, notes, forgotten>>
           \/ \E rec : Reported(t, KeyOf(t, r), rec)
<1> DEFINE rec(status, first) == [rule |-> r, key |-> KeyOf(t, r), status |-> status,
                                  time |-> stamp[t], first |-> first]
<1>1. r \in Rule /\ stamp[t] \in Nat /\ KeyOf(t, r) \in Key
  BY KeyFacts DEF TypeOK
<1>2. \A status \in Status, first \in BOOLEAN :
        /\ rec(status, first) \in Record /\ rec(status, first).time = stamp[t]
        /\ rec(status, first).key = KeyOf(t, r) /\ rec(status, first).status = status
        /\ rec(status, first).first = first /\ rec(status, first).rule = r
  BY <1>1 DEF Record
<1>3. \A status, first : Report(t, r, status, first) =>
        /\ history' = TrimHistory(Append(history, rec(status, first)))
        /\ notes' = [notes EXCEPT ![t] = Append(@, rec(status, first))]
  BY DEF Report
<1>4. "firing" \in Status /\ "resolved" \in Status /\ TRUE \in BOOLEAN /\ FALSE \in BOOLEAN
  BY DEF Status
<1>5. lastNotified \in [Key -> Nat]
  BY DEF TypeOK
<1> HIDE DEF rec
<1>6. PICK k \in Key : k = KeyOf(t, r)
  BY <1>1
<1>7. CASE Fire(t, r)
  <2>1. PICK e : e = rec("firing", TRUE)
    OBVIOUS
  <2>2. /\ e \in Record /\ e.key = k /\ e.time = stamp[t] /\ e.status = "firing" /\ e.first
    BY <1>2, <1>4, <1>6, <2>1
  <2>3. /\ history' = TrimHistory(Append(history, e))
        /\ notes' = [notes EXCEPT ![t] = Append(@, e)]
    BY <1>3, <1>7, <2>1 DEF Fire
  <2>4. /\ firing' = firing \cup {k} /\ forgotten' = forgotten \ {k}
        /\ lastNotified' = [lastNotified EXCEPT ![k] = stamp[t]]
    BY <1>6, <1>7 DEF Fire
  <2>5. lastNotified'[k] = stamp[t] /\ \A j \in Key : j # k => lastNotified'[j] = lastNotified[j]
    BY <1>5, <2>4
  <2>6. Reported(t, k, e)
    BY <1>4, <2>2, <2>3, <2>4, <2>5 DEF Reported
  <2> QED BY <1>6, <2>6
<1>8. CASE Renotify(t, r)
  <2>1. PICK e : e = rec("firing", FALSE)
    OBVIOUS
  <2>2. /\ e \in Record /\ e.key = k /\ e.time = stamp[t] /\ e.status = "firing"
        /\ e.rule = r
    BY <1>2, <1>4, <1>6, <2>1
  <2>3. /\ history' = TrimHistory(Append(history, e))
        /\ notes' = [notes EXCEPT ![t] = Append(@, e)]
    BY <1>3, <1>8, <2>1 DEF Renotify
  <2>4. /\ k \in firing /\ firing' = firing /\ forgotten' = forgotten
        /\ stamp[t] >= lastNotified[k] + r.repeat
        /\ lastNotified' = [lastNotified EXCEPT ![k] = stamp[t]]
    BY <1>6, <1>8 DEF Renotify
  <2>5. lastNotified'[k] = stamp[t] /\ \A j \in Key : j # k => lastNotified'[j] = lastNotified[j]
    BY <1>5, <2>4
  <2>6. Reported(t, k, e)
    BY <1>4, <2>2, <2>3, <2>4, <2>5 DEF Reported
  <2> QED BY <1>6, <2>6
<1>9. CASE Resolve(t, r)
  <2>1. PICK e : e = rec("resolved", TRUE)
    OBVIOUS
  <2>2. /\ e \in Record /\ e.key = k /\ e.time = stamp[t] /\ e.status = "resolved" /\ e.first
    BY <1>2, <1>4, <1>6, <2>1
  <2>3. /\ history' = TrimHistory(Append(history, e))
        /\ notes' = [notes EXCEPT ![t] = Append(@, e)]
    BY <1>3, <1>9, <2>1 DEF Resolve
  <2>4. /\ firing' = firing \ {k} /\ forgotten' = forgotten
        /\ lastNotified' = [lastNotified EXCEPT ![k] = 0]
    BY <1>6, <1>9 DEF Resolve
  <2>5. \A j \in Key : j # k => lastNotified'[j] = lastNotified[j]
    BY <1>5, <2>4
  <2>6. Reported(t, k, e)
    BY <1>4, <2>2, <2>3, <2>4, <2>5 DEF Reported
  <2> QED BY <1>6, <2>6
<1>10. CASE Hold(t, r) \/ Quiet(t, r)
  BY <1>10 DEF Hold, Quiet, alertVars
<1> QED BY <1>7, <1>8, <1>9, <1>10 DEF Outcome

(* Every entry of the new history but the last is an entry of the old one, *)
(* and later ones follow it in the same order.                             *)
LEMMA HistoryGrows ==
    ASSUME TypeOK, NEW rec \in Record, history' = TrimHistory(Append(history, rec))
    PROVE  \E d \in {0, 1}, n \in Nat :
             /\ DOMAIN history' = 1 .. n /\ DOMAIN history = 1 .. n + d - 1
             /\ \A i \in 1 .. n - 1 : history'[i] = history[i + d]
             /\ n > 0 /\ history'[n] = rec
<1>1. /\ history \in Seq(Record) /\ Len(history) \in Nat
      /\ DOMAIN history = 1 .. Len(history) /\ Len(history) <= MaxHistory
  BY LenProperties DEF TypeOK
<1>2. /\ history' \in Seq(Record) /\ Len(history') > 0
      /\ \E d \in {0, 1} :
           /\ Len(history') = Len(history) + 1 - d
           /\ \A i \in 1 .. Len(history') :
                history'[i] = IF i + d <= Len(history) THEN history[i + d] ELSE rec
  <2> DEFINE g == TrimHistory(Append(history, rec))
  <2>1. /\ g \in Seq(Record) /\ Len(g) > 0
        /\ \E d \in {0, 1} :
             /\ Len(g) = Len(history) + 1 - d
             /\ \A i \in 1 .. Len(g) :
                  g[i] = IF i + d <= Len(history) THEN history[i + d] ELSE rec
    BY ONLY <1>1, HistoryFacts, rec \in Record
  <2>2. history' = g
    OBVIOUS
  <2> HIDE DEF g
  <2> QED BY ONLY <2>1, <2>2
<1>3. PICK d \in {0, 1} :
           /\ Len(history') = Len(history) + 1 - d
           /\ \A i \in 1 .. Len(history') :
                history'[i] = IF i + d <= Len(history) THEN history[i + d] ELSE rec
  BY <1>2
<1>4. PICK n \in Nat : n = Len(history') /\ DOMAIN history' = 1 .. n
  BY <1>2, LenProperties
<1>5. /\ n > 0 /\ DOMAIN history = 1 .. n + d - 1 /\ history'[n] = rec
  BY <1>1, <1>2, <1>3, <1>4
<1>6. \A i \in 1 .. n - 1 : history'[i] = history[i + d]
  BY <1>1, <1>3, <1>4
<1> QED BY <1>4, <1>5, <1>6

LEMMA InitStory == Init => StoryInv
BY DEF Init, InitMemory, StoryInv, HistoryAgrees, RepeatSpacing, Counted

(* Counted and HistoryAgrees for one more record.                          *)
LEMMA ReportStory ==
    ASSUME TypeOK, StoryInv, NEW t \in Thread, NEW k \in Key, NEW rec, Reported(t, k, rec),
           \A i \in DOMAIN history : history[i].time <= stamp[t]
    PROVE  StoryInv'
<1>0. HistoryAgrees /\ RepeatSpacing /\ Counted
  BY DEF StoryInv
<1>1. /\ rec \in Record /\ rec.key = k /\ rec.time = stamp[t]
      /\ k \in firing' <=> rec.status = "firing"
      /\ rec.status \in {"firing", "resolved"}
      /\ k \in firing' => lastNotified'[k] = stamp[t]
      /\ ~rec.first => k \in firing /\ stamp[t] >= lastNotified[k] + rec.rule.repeat
      /\ \A j \in Key : j # k => /\ j \in firing' <=> j \in firing
                                 /\ j \in forgotten' <=> j \in forgotten
                                 /\ lastNotified'[j] = lastNotified[j]
  BY DEF Reported, Status
<1>2. PICK d \in {0, 1}, n \in Nat :
             /\ DOMAIN history' = 1 .. n /\ DOMAIN history = 1 .. n + d - 1
             /\ \A i \in 1 .. n - 1 : history'[i] = history[i + d]
             /\ n > 0 /\ history'[n] = rec
  <2>1. history' = TrimHistory(Append(history, rec))
    BY DEF Reported
  <2> QED BY <1>1, <2>1, HistoryGrows
<1>3. \A i \in DOMAIN history : history[i].key \in Key /\ history[i].time \in Nat
  <2>1. history \in Seq(Record)
    BY DEF TypeOK
  <2>2. \A i \in DOMAIN history : history[i] \in Record
    BY <2>1, ElementOfSeq, LenProperties
  <2> QED BY <2>2 DEF Record
<1>4. stamp[t] \in Nat /\ lastNotified \in [Key -> Nat]
  BY DEF TypeOK
<1>5. \A i \in 1 .. n - 1 : i + d \in DOMAIN history /\ i \in 1 .. n
  BY <1>2
<1>6. Counted'
  <2> SUFFICES ASSUME NEW i \in 1 .. n, history'[i].key \in firing'
               PROVE  history'[i].time <= lastNotified'[history'[i].key]
    BY <1>2 DEF Counted
  <2>1. CASE history'[i].key = k
    <3>1. history'[i].time <= stamp[t]
      <4>1. CASE i = n
        BY <1>1, <1>2, <1>4, <4>1
      <4>2. CASE i # n
        BY <1>2, <1>5, <4>2
      <4> QED BY <4>1, <4>2
    <3> QED BY <1>1, <2>1, <3>1
  <2>2. CASE history'[i].key # k
    <3>1. i \in 1 .. n - 1
      BY <1>1, <1>2, <2>2
    <3>2. i + d \in DOMAIN history /\ history'[i] = history[i + d] /\ history[i + d].key \in Key
      BY <1>2, <1>3, <1>5, <3>1
    <3>3. history[i + d].key \in firing
      BY <1>1, <2>2, <3>2
    <3>4. history[i + d].time <= lastNotified[history[i + d].key]
      BY <1>0, <3>2, <3>3 DEF Counted
    <3> QED BY <1>1, <2>2, <3>2, <3>4
  <2> QED BY <2>1, <2>2
<1>7. RepeatSpacing'
  <2> SUFFICES ASSUME NEW i \in 1 .. n, NEW j \in 1 .. n, i < j,
                      history'[i].key = history'[j].key, ~history'[j].first
               PROVE  history'[j].time >= history'[i].time + history'[j].rule.repeat
    BY <1>2 DEF RepeatSpacing
  <2>0. i \in 1 .. n - 1
    BY <1>2
  <2>1. i + d \in DOMAIN history /\ history'[i] = history[i + d]
    BY <1>2, <1>5, <2>0
  <2>2. CASE j = n
    <3>1. history'[j] = rec /\ ~rec.first
      BY <1>2, <2>2
    <3>2. history[i + d].key = k /\ k \in firing /\ stamp[t] >= lastNotified[k] + rec.rule.repeat
      BY <1>1, <2>1, <3>1
    <3>3. history[i + d].time <= lastNotified[k]
      BY <1>0, <2>1, <3>2 DEF Counted
    <3>4. rec.rule \in Rule /\ rec.rule.repeat \in Nat
      BY <1>1, AlertAssumption DEF Record
    <3>5. history[i + d].time \in Nat /\ lastNotified[k] \in Nat
      BY <1>3, <1>4, <2>1
    <3>6. stamp[t] >= history[i + d].time + rec.rule.repeat
      BY <1>4, <3>2, <3>3, <3>4, <3>5
    <3> QED BY <1>1, <2>1, <3>1, <3>6
  <2>3. CASE j # n
    <3>1. j \in 1 .. n - 1
      BY <2>3
    <3>2. j + d \in DOMAIN history /\ history'[j] = history[j + d]
      BY <1>2, <1>5, <3>1
    <3>3. d \in Int /\ i \in Int /\ j \in Int
      OBVIOUS
    <3>4. i + d < j + d
      BY ONLY <3>3, i < j
    <3> QED BY <1>0, <2>1, <3>2, <3>4 DEF RepeatSpacing
  <2> QED BY <2>2, <2>3
<1>8. HistoryAgrees'
  <2> SUFFICES ASSUME NEW i \in 1 .. n, NEW c, c = history'[i].key,
                      \A j \in 1 .. n : j > i => history'[j].key # c
               PROVE  IF c \in firing'
                      THEN history'[i].status = "firing" /\ history'[i].time = lastNotified'[c]
                      ELSE history'[i].status = "resolved" \/ c \in forgotten'
    BY <1>2 DEF HistoryAgrees, Last
  <2>1. CASE i = n
    BY <1>1, <1>2, <2>1
  <2>2. CASE i # n
    <3>1. i \in 1 .. n - 1
      BY <2>2
    <3>2. c # k
      BY <1>1, <1>2, <3>1
    <3>3. i + d \in DOMAIN history /\ history'[i] = history[i + d] /\ c \in Key
          /\ history[i + d].key = c
      BY <1>2, <1>3, <1>5, <3>1
    <3>4. ASSUME NEW j \in DOMAIN history, j > i + d PROVE history[j].key # c
      <4>0. d \in Int /\ j \in 1 .. n + d - 1 /\ i \in 1 .. n - 1 /\ j > i + d
        BY <1>2, <3>1, <3>4
      <4>1. j - d \in 1 .. n - 1 /\ j - d > i /\ (j - d) + d = j
        BY ONLY <4>0, n \in Nat
      <4>2. history'[j - d] = history[j]
        BY <1>2, <4>1
      <4>3. j - d \in 1 .. n
        BY <1>5, <4>1
      <4> QED BY <4>1, <4>2, <4>3
    <3>5. Last(c, i + d)
      BY <3>3, <3>4 DEF Last
    <3>6. IF c \in firing
          THEN history[i + d].status = "firing" /\ history[i + d].time = lastNotified[c]
          ELSE history[i + d].status = "resolved" \/ c \in forgotten
      BY <1>0, <3>3, <3>5 DEF HistoryAgrees
    <3> QED BY <1>1, <3>2, <3>3, <3>6
  <2> QED BY <2>1, <2>2
<1> QED BY <1>6, <1>7, <1>8 DEF StoryInv

(* CommitEdit: what is erased is remembered as forgotten.                  *)
LEMMA EditForgets ==
    ASSUME TypeOK, UpsertRule \/ DeleteRule \/ EditWritten \/ EditFailed
    PROVE  /\ firing' \subseteq firing /\ forgotten \subseteq forgotten'
           /\ \A k \in Key : /\ k \in firing /\ k \notin firing' => k \in forgotten'
                             /\ k \in firing' => lastNotified'[k] = lastNotified[k]
<1>1. \/ UNCHANGED <<firing, forgotten, lastNotified>>
      \/ \E gone, R : CommitEdit(gone, R)
  <2>1. CASE UpsertRule \/ DeleteRule
    <3>1. PICK op, gone, R : BeginEdit(op, gone, R)
      BY <2>1, EditChosen
    <3> QED BY <3>1 DEF BeginEdit, OpenFailed
  <2>2. CASE EditWritten
    BY <2>2 DEF EditWritten
  <2>3. CASE EditFailed
    BY <2>3 DEF EditFailed, alertVars
  <2> QED BY <2>1, <2>2, <2>3
<1>2. CASE UNCHANGED <<firing, forgotten, lastNotified>>
  BY <1>2
<1>3. ASSUME NEW gone, NEW R, CommitEdit(gone, R)
      PROVE  /\ firing' \subseteq firing /\ forgotten \subseteq forgotten'
             /\ \A k \in Key : /\ k \in firing /\ k \notin firing' => k \in forgotten'
                               /\ k \in firing' => lastNotified'[k] = lastNotified[k]
  BY <1>3 DEF CommitEdit
<1> QED BY <1>1, <1>2, <1>3

LEMMA NextStory ==
    ASSUME TypeOK, LockInv, TimeInv, StoryInv, [Next]_vars
    PROVE  StoryInv'
<1> USE DEF ruleVars, alertVars, evalVars
<1>0. HistoryAgrees /\ RepeatSpacing /\ Counted /\ TodoInside
  BY DEF StoryInv, LockInv
<1>1. ASSUME UNCHANGED <<history, firing, lastNotified, forgotten>> PROVE StoryInv'
  BY <1>0, <1>1 DEF StoryInv, HistoryAgrees, RepeatSpacing, Counted, Last
<1>2. CASE Stop
  <2>1. history' = << >>
    BY <1>2 DEF Stop
  <2>2. DOMAIN history' = {}
    BY <2>1
  <2> QED BY <2>2 DEF StoryInv, HistoryAgrees, RepeatSpacing, Counted
<1>3. CASE UpsertRule \/ DeleteRule \/ EditWritten \/ EditFailed
  <2>1. history' = history
    BY <1>3, EditTypes
  <2>2. /\ firing' \subseteq firing /\ forgotten \subseteq forgotten'
        /\ \A k \in Key : /\ k \in firing /\ k \notin firing' => k \in forgotten'
                          /\ k \in firing' => lastNotified'[k] = lastNotified[k]
    BY <1>3, EditForgets
  <2>3. \A i \in DOMAIN history : history[i].key \in Key
    <3>1. history \in Seq(Record)
      BY DEF TypeOK
    <3>2. \A i \in DOMAIN history : history[i] \in Record
      BY <3>1, ElementOfSeq, LenProperties
    <3> QED BY <3>2 DEF Record
  <2>4. Counted' /\ RepeatSpacing'
    BY <1>0, <2>1, <2>2, <2>3 DEF Counted, RepeatSpacing
  <2>5. HistoryAgrees'
    <3> SUFFICES ASSUME NEW i \in DOMAIN history, NEW c, c = history[i].key, Last(c, i)
                 PROVE  IF c \in firing'
                        THEN history[i].status = "firing" /\ history[i].time = lastNotified'[c]
                        ELSE history[i].status = "resolved" \/ c \in forgotten'
      BY <2>1 DEF HistoryAgrees, Last
    <3>1. IF c \in firing
          THEN history[i].status = "firing" /\ history[i].time = lastNotified[c]
          ELSE history[i].status = "resolved" \/ c \in forgotten
      BY <1>0 DEF HistoryAgrees
    <3> QED BY <2>2, <2>3, <3>1
  <2> QED BY <2>4, <2>5 DEF StoryInv
<1>4. ASSUME NEW t \in Thread, NEW r \in Rule, EvalRule(t, r) PROVE StoryInv'
  <2>1. pc[t] = "eval" /\ r \in todo[t] /\ Outcome(t, r)
    BY <1>4, RuleOutcome
  <2>2. CASE UNCHANGED <<firing, lastNotified, history, notes, forgotten>>
    BY <1>1, <2>2
  <2>3. CASE \E rec : Reported(t, KeyOf(t, r), rec)
    <3>1. \A i \in DOMAIN history : history[i].time <= stamp[t]
      BY <2>1 DEF TimeInv, Stamped
    <3>2. KeyOf(t, r) \in Key
      BY <1>0, <2>1, KeyFacts
    <3> QED BY <2>3, <3>1, <3>2, ReportStory
  <2> QED BY <1>0, <2>1, <2>2, <2>3, OutcomeReport
<1>5. CASE UNCHANGED vars \/ EvalDisabled \/ AdvanceTime \/ Start
  BY <1>1, <1>5 DEF vars, EvalDisabled, AdvanceTime, Start
<1>6. ASSUME NEW k \in Key, Ack(k) PROVE StoryInv'
  BY <1>1, <1>6 DEF Ack
<1>7. ASSUME NEW t \in Thread, NEW a \in Agent, NEW b \in Batches, EvalEnter(t, a, b)
      PROVE  StoryInv'
  BY <1>1, <1>7 DEF EvalEnter
<1>8. ASSUME NEW t \in Thread, EvalLock(t) \/ EvalNext(t) \/ Notify(t) \/ EvalReturn(t)
      PROVE  StoryInv'
  BY <1>1, <1>8 DEF EvalLock, EvalNext, Notify, EvalReturn
<1> QED
  BY <1>2, <1>3, <1>4, <1>5, <1>6, <1>7, <1>8 DEF Next, EvalStep

-----------------------------------------------------------------------------
(* What the notifiers are told.                                            *)

Pending(k) == \E t \in Thread : \E i \in DOMAIN notes[t] : notes[t][i].key = k

LEMMA InitNotes == Init => NoteInv
<1> SUFFICES ASSUME Init PROVE NoteInv
  OBVIOUS
<1>0. \A t \in Thread : pc[t] = "idle" /\ notes[t] = << >>
  BY DEF Init, InitMemory
<1>1. \A t \in Thread : pc[t] = "idle" /\ notes[t] = << >> /\ DOMAIN notes[t] = {}
  <2>1. DOMAIN << >> = {}
    OBVIOUS
  <2> QED BY <1>0, <2>1, Zenon
<1>2. firing = {} /\ \A k \in Key : announced[k] = "resolved"
  BY DEF Init, InitMemory
<1> QED BY <1>1, <1>2 DEF NoteInv, NotesMine, Alone, LastNoteAgrees, AnnouncementsAgree

LEMMA ReportNotes ==
    ASSUME TypeOK, NoteInv, NEW t \in Thread, pc[t] = "eval",
           NEW k \in Key, k[2] = agent[t], NEW rec, Reported(t, k, rec),
           UNCHANGED <<pc, agent, announced, raced>>
    PROVE  NoteInv'
<1>0. NotesMine /\ Alone /\ LastNoteAgrees /\ AnnouncementsAgree
  BY DEF NoteInv
<1>1. /\ rec \in Record /\ rec.key = k
      /\ k \in firing' <=> rec.status = "firing"
      /\ \A j \in Key : j # k => /\ j \in firing' <=> j \in firing
                                 /\ j \in forgotten' <=> j \in forgotten
  BY DEF Reported
<1>2. /\ notes'[t] = Append(notes[t], rec)
      /\ \A u \in Thread : u # t => notes'[u] = notes[u]
  BY DEF Reported, TypeOK
<1>3. PICK n \in Nat : n = Len(notes[t]) /\ DOMAIN notes[t] = 1 .. n
  BY LenProperties DEF TypeOK
<1>4. /\ DOMAIN notes'[t] = 1 .. n + 1 /\ notes'[t][n + 1] = rec
      /\ \A i \in 1 .. n : notes'[t][i] = notes[t][i]
  <2>1. notes[t] \in Seq(Record)
    BY DEF TypeOK
  <2>2. /\ Append(notes[t], rec) \in Seq(Record)
        /\ Len(Append(notes[t], rec)) = n + 1
        /\ Append(notes[t], rec)[n + 1] = rec
        /\ \A i \in 1 .. n : Append(notes[t], rec)[i] = notes[t][i]
    BY <1>1, <1>3, <2>1, AppendProperties
  <2> QED BY <1>2, <2>2, LenProperties
<1>5. NotesMine'
  <2>1. ASSUME NEW u \in Thread, pc[u] \in {"idle", "enter"} PROVE notes'[u] = << >>
    BY <1>0, <1>2, <2>1 DEF NotesMine
  <2>2. ASSUME NEW u \in Thread, NEW i \in DOMAIN notes'[u] PROVE notes'[u][i].key[2] = agent[u]
    <3>1. CASE u # t
      BY <1>0, <1>2, <2>2, <3>1 DEF NotesMine
    <3>2. CASE u = t
      <4>1. CASE i = n + 1
        BY <1>1, <1>4, <3>2, <4>1
      <4>2. CASE i # n + 1
        <5>1. i \in 1 .. n
          BY <1>4, <2>2, <3>2, <4>2
        <5> QED BY <1>0, <1>3, <1>4, <3>2, <5>1 DEF NotesMine
      <4> QED BY <4>1, <4>2
    <3> QED BY <3>1, <3>2
  <2> QED BY <2>1, <2>2 DEF NotesMine
<1>6. Alone'
  BY <1>0 DEF Alone
<1>7. LastNoteAgrees'
  <2> SUFFICES ASSUME NEW u \in Thread, NEW c \in Key, NEW i \in DOMAIN notes'[u],
                      LastNote(u, c, i)'
               PROVE  \/ notes'[u][i].status = "firing" <=> c \in firing'
                      \/ c \in forgotten'
                      \/ c[2] \in raced
    BY DEF LastNoteAgrees
  <2>0. /\ notes'[u][i].key = c
        /\ \A j \in DOMAIN notes'[u] : j > i => notes'[u][j].key # c
    BY DEF LastNote
  <2>1. CASE u # t /\ c # k
    <3>1. LastNote(u, c, i) /\ i \in DOMAIN notes[u] /\ notes'[u] = notes[u]
      BY <1>2, <2>0, <2>1 DEF LastNote
    <3>2. \/ notes[u][i].status = "firing" <=> c \in firing
          \/ c \in forgotten
          \/ c[2] \in raced
      BY <1>0, <3>1 DEF LastNoteAgrees
    <3> QED BY <1>1, <2>1, <3>1, <3>2
  <2>2. CASE u # t /\ c = k
    <3>1. notes[u] = notes'[u] /\ i \in DOMAIN notes[u] /\ notes[u][i].key = k
      BY <1>2, <2>0, <2>2
    <3>2. agent[u] = agent[t] /\ notes[u] # << >>
      BY <1>0, <3>1 DEF NotesMine
    <3>3. pc[u] # "idle"
      BY <1>0, <3>2 DEF NotesMine
    <3> QED BY <1>0, <2>2, <3>2, <3>3 DEF Alone
  <2>3. CASE u = t /\ i = n + 1
    BY <1>1, <1>4, <2>0, <2>3
  <2>4. CASE u = t /\ i # n + 1
    <3>1. i \in 1 .. n /\ n + 1 > i /\ n + 1 \in DOMAIN notes'[t]
      BY <1>4, <2>4
    <3>2. c # k
      BY <1>1, <1>4, <2>0, <2>4, <3>1
    <3>3. LastNote(t, c, i)
      <4>1. ASSUME NEW j \in DOMAIN notes[t], j > i PROVE notes[t][j].key # c
        <5>1. j \in 1 .. n /\ j \in DOMAIN notes'[t]
          BY <1>3, <1>4
        <5> QED BY <1>4, <2>0, <2>4, <4>1, <5>1
      <4> QED BY <1>4, <2>0, <2>4, <3>1, <4>1 DEF LastNote
    <3>4. \/ notes[t][i].status = "firing" <=> c \in firing
          \/ c \in forgotten
          \/ c[2] \in raced
      BY <1>0, <1>3, <3>1, <3>3 DEF LastNoteAgrees
    <3> QED BY <1>1, <1>4, <2>4, <3>1, <3>2, <3>4
  <2> QED BY <2>1, <2>2, <2>3, <2>4
<1>8. AnnouncementsAgree'
  <2> SUFFICES ASSUME NEW c \in Key
               PROVE  \/ Pending(c)'
                      \/ announced[c] = "firing" <=> c \in firing'
                      \/ c \in forgotten'
                      \/ c[2] \in raced
    BY DEF AnnouncementsAgree, Pending
  <2>1. CASE c = k
    BY <1>1, <1>4, <2>1 DEF Pending
  <2>2. CASE c # k
    <3>1. Pending(c) => Pending(c)'
      BY <1>2, <1>3, <1>4 DEF Pending
    <3>2. \/ Pending(c)
          \/ announced[c] = "firing" <=> c \in firing
          \/ c \in forgotten
          \/ c[2] \in raced
      BY <1>0 DEF AnnouncementsAgree, Pending
    <3> QED BY <1>1, <2>2, <3>1, <3>2
  <2> QED BY <2>1, <2>2
<1> QED BY <1>5, <1>6, <1>7, <1>8 DEF NoteInv

(* The oldest notification goes out. If it is the last one of its key, it  *)
(* says what the state of that key is.                                     *)
LEMMA SentNotes ==
    ASSUME TypeOK, NoteInv, NEW t \in Thread, Notify(t)
    PROVE  NoteInv'
<1>0. NotesMine /\ Alone /\ LastNoteAgrees /\ AnnouncementsAgree
  BY DEF NoteInv
<1>1. /\ notes[t] # << >> /\ notes[t] \in Seq(Record) /\ notes \in [Thread -> Seq(Record)]
      /\ UNCHANGED <<pc, agent, raced, firing, forgotten>>
  BY DEF Notify, TypeOK, alertVars
<1>2. PICK n \in Nat : n = Len(notes[t]) /\ DOMAIN notes[t] = 1 .. n
  BY <1>1, LenProperties
<1>3. PICK e : e = Head(notes[t]) /\ e = notes[t][1] /\ e \in Record
  BY <1>1, HeadTailProperties
<1>4. e.key \in Key
  BY <1>3 DEF Record
<1>5. /\ announced'[e.key] = e.status
      /\ \A c \in Key : c # e.key => announced'[c] = announced[c]
  BY <1>3, <1>4 DEF Notify, TypeOK
<1>6. /\ notes'[t] = Tail(notes[t])
      /\ \A u \in Thread : u # t => notes'[u] = notes[u]
  BY <1>1 DEF Notify
<1>7. /\ DOMAIN notes'[t] = 1 .. n - 1 /\ n > 0
      /\ \A i \in 1 .. n - 1 : notes'[t][i] = notes[t][i + 1]
  <2>1. /\ Tail(notes[t]) \in Seq(Record) /\ Len(Tail(notes[t])) = n - 1
        /\ \A i \in 1 .. n - 1 : Tail(notes[t])[i] = notes[t][i + 1]
    BY <1>1, <1>2, HeadTailProperties
  <2>2. n > 0
    BY <1>1, <1>2, EmptySeq
  <2> QED BY <1>6, <2>1, <2>2, LenProperties
<1>8. \A i \in 1 .. n - 1 : i + 1 \in DOMAIN notes[t]
  BY <1>2
<1>9. NotesMine'
  <2>1. \A u \in Thread : pc[u] \in {"idle", "enter"} => u # t
    BY DEF Notify
  <2>2. \A i \in DOMAIN notes'[t] : notes'[t][i].key[2] = agent[t]
    BY <1>0, <1>7, <1>8 DEF NotesMine
  <2>3. \A u \in Thread : /\ pc[u] \in {"idle", "enter"} => notes'[u] = << >>
                          /\ \A i \in DOMAIN notes'[u] : notes'[u][i].key[2] = agent[u]
    BY <1>0, <1>6, <2>1, <2>2 DEF NotesMine
  <2> QED BY <1>1, <2>3 DEF NotesMine
<1>10. Alone'
  BY <1>0, <1>1 DEF Alone
<1>11. LastNoteAgrees'
  <2> SUFFICES ASSUME NEW u \in Thread, NEW c \in Key, NEW i \in DOMAIN notes'[u],
                      LastNote(u, c, i)'
               PROVE  \/ notes'[u][i].status = "firing" <=> c \in firing
                      \/ c \in forgotten
                      \/ c[2] \in raced
    BY <1>1 DEF LastNoteAgrees
  <2>0. /\ notes'[u][i].key = c
        /\ \A j \in DOMAIN notes'[u] : j > i => notes'[u][j].key # c
    BY DEF LastNote
  <2>1. CASE u # t
    <3>1. notes'[u] = notes[u] /\ LastNote(u, c, i)
      BY <1>6, <2>0, <2>1 DEF LastNote
    <3> QED BY <1>0, <3>1 DEF LastNoteAgrees
  <2>2. CASE u = t
    <3>1. i \in 1 .. n - 1 /\ i + 1 \in DOMAIN notes[t] /\ notes'[t][i] = notes[t][i + 1]
      BY <1>7, <1>8, <2>2
    <3>2. ASSUME NEW j \in DOMAIN notes[t], j > i + 1 PROVE notes[t][j].key # c
      <4>1. j - 1 \in 1 .. n - 1 /\ j - 1 > i /\ (j - 1) + 1 = j
        BY <1>2, <3>1, <3>2
      <4> QED BY <1>7, <2>0, <2>2, <4>1
    <3>3. LastNote(t, c, i + 1)
      BY <2>0, <2>2, <3>1, <3>2 DEF LastNote
    <3> QED BY <1>0, <2>2, <3>1, <3>3 DEF LastNoteAgrees
  <2> QED BY <2>1, <2>2
<1>12. AnnouncementsAgree'
  <2> SUFFICES ASSUME NEW c \in Key, ~Pending(c)'
               PROVE  \/ announced'[c] = "firing" <=> c \in firing
                      \/ c \in forgotten
                      \/ c[2] \in raced
    BY <1>1 DEF AnnouncementsAgree, Pending
  <2>0. \A j \in DOMAIN notes[t] : j > 1 => notes[t][j].key # c
    <3> SUFFICES ASSUME NEW j \in DOMAIN notes[t], j > 1 PROVE notes[t][j].key # c
      OBVIOUS
    <3>1. j - 1 \in 1 .. n - 1 /\ (j - 1) + 1 = j
      BY <1>2
    <3>2. notes'[t][j - 1] = notes[t][j] /\ j - 1 \in DOMAIN notes'[t]
      BY <1>7, <3>1
    <3> QED BY <3>2 DEF Pending
  <2>1. CASE c = e.key
    <3>1. 1 \in DOMAIN notes[t]
      BY <1>2, <1>7
    <3>2. LastNote(t, c, 1)
      BY <1>3, <2>0, <2>1, <3>1 DEF LastNote
    <3> QED BY <1>0, <1>3, <1>5, <2>1, <3>1, <3>2 DEF LastNoteAgrees
  <2>2. CASE c # e.key
    <3>1. ~Pending(c)
      <4> SUFFICES ASSUME NEW u \in Thread, NEW i \in DOMAIN notes[u], notes[u][i].key = c
                   PROVE  FALSE
        BY DEF Pending
      <4>1. CASE u # t
        BY <1>6, <4>1 DEF Pending
      <4>2. CASE u = t
        <5>1. i = 1
          BY <1>2, <2>0, <4>2
        <5> QED BY <1>3, <2>2, <4>2, <5>1
      <4> QED BY <4>1, <4>2
    <3> QED BY <1>0, <1>5, <2>2, <3>1 DEF AnnouncementsAgree, Pending
  <2> QED BY <2>1, <2>2
<1> QED BY <1>9, <1>10, <1>11, <1>12 DEF NoteInv

LEMMA NextNotes ==
    ASSUME TypeOK, LockInv, NoteInv, [Next]_vars
    PROVE  NoteInv'
<1> USE DEF ruleVars, alertVars, evalVars
<1>0. NotesMine /\ Alone /\ LastNoteAgrees /\ AnnouncementsAgree /\ TodoInside
  BY DEF NoteInv, LockInv
<1>1. ASSUME UNCHANGED <<notes, announced, firing, forgotten>>, raced \subseteq raced',
             NotesMine', Alone'
      PROVE  NoteInv'
  BY <1>0, <1>1 DEF NoteInv, LastNoteAgrees, LastNote, AnnouncementsAgree
<1>2. ASSUME UNCHANGED <<notes, announced, firing, forgotten, raced, agent, pc>>
      PROVE  NoteInv'
  <2>1. NotesMine' /\ Alone'
    BY <1>0, <1>2 DEF NotesMine, Alone
  <2> QED BY <1>1, <1>2, <2>1
<1>3. CASE Stop
  <2>1. \A t \in Thread : pc'[t] = "idle" /\ notes'[t] = << >> /\ DOMAIN notes'[t] = {}
    BY <1>3 DEF Stop
  <2>2. firing' = {} /\ \A k \in Key : announced'[k] = "resolved"
    BY <1>3 DEF Stop
  <2> QED BY <2>1, <2>2 DEF NoteInv, NotesMine, Alone, LastNoteAgrees, AnnouncementsAgree
<1>4. CASE UpsertRule \/ DeleteRule \/ EditWritten \/ EditFailed
  <2>1. UNCHANGED <<notes, announced, raced, agent, pc>>
    BY <1>4, EditTypes
  <2>2. /\ firing' \subseteq firing /\ forgotten \subseteq forgotten'
        /\ \A k \in Key : k \in firing /\ k \notin firing' => k \in forgotten'
    BY <1>4, EditForgets
  <2>3. NotesMine' /\ Alone'
    BY <1>0, <2>1 DEF NotesMine, Alone
  <2>4. LastNoteAgrees' /\ AnnouncementsAgree'
    BY <1>0, <2>1, <2>2 DEF LastNoteAgrees, LastNote, AnnouncementsAgree
  <2> QED BY <2>3, <2>4 DEF NoteInv
<1>5. ASSUME NEW t \in Thread, NEW a \in Agent, NEW b \in Batches, EvalEnter(t, a, b)
      PROVE  NoteInv'
  <2>1. /\ pc[t] = "idle" /\ UNCHANGED <<notes, announced, firing, forgotten>>
        /\ pc' = [pc EXCEPT ![t] = "enter"] /\ agent' = [agent EXCEPT ![t] = a]
        /\ raced' = raced \cup {c \in {a} : \E u \in Thread : pc[u] # "idle" /\ agent[u] = c}
    BY <1>5 DEF EvalEnter
  <2>2. /\ pc'[t] = "enter" /\ agent'[t] = a
        /\ \A u \in Thread : u # t => pc'[u] = pc[u] /\ agent'[u] = agent[u]
    BY <2>1 DEF TypeOK
  <2>3. notes[t] = << >> /\ DOMAIN notes[t] = {}
    BY <1>0, <2>1 DEF NotesMine
  <2>4. NotesMine'
    BY <1>0, <2>1, <2>2, <2>3 DEF NotesMine
  <2>5. Alone'
    BY <1>0, <2>1, <2>2 DEF Alone
  <2> QED BY <1>1, <2>1, <2>4, <2>5
<1>6. ASSUME NEW t \in Thread, EvalLock(t) PROVE NoteInv'
  <2>1. /\ pc[t] = "enter" /\ pc' = [pc EXCEPT ![t] = "eval"]
        /\ UNCHANGED <<notes, announced, firing, forgotten, raced, agent>>
    BY <1>6 DEF EvalLock
  <2>2. pc'[t] = "eval" /\ \A u \in Thread : u # t => pc'[u] = pc[u]
    BY <2>1 DEF TypeOK
  <2>3. NotesMine' /\ Alone'
    BY <1>0, <2>1, <2>2 DEF NotesMine, Alone
  <2> QED BY <1>1, <2>1, <2>3
<1>7. ASSUME NEW t \in Thread, NEW r \in Rule, EvalRule(t, r) PROVE NoteInv'
  <2>1. /\ pc[t] = "eval" /\ r \in todo[t] /\ Outcome(t, r)
        /\ UNCHANGED <<pc, agent, announced, raced>>
    BY <1>7, RuleOutcome
  <2>2. CASE UNCHANGED <<firing, lastNotified, history, notes, forgotten>>
    BY <1>2, <2>1, <2>2
  <2>3. CASE \E rec : Reported(t, KeyOf(t, r), rec)
    <3>1. KeyOf(t, r) \in Key /\ KeyOf(t, r)[2] = agent[t]
      BY <1>0, <2>1, KeyFacts DEF KeyOf
    <3>2. PICK k, rec : k \in Key /\ k[2] = agent[t] /\ Reported(t, k, rec)
      BY <2>3, <3>1
    <3> QED BY <2>1, <3>2, ReportNotes
  <2> QED BY <1>0, <2>1, <2>2, <2>3, OutcomeReport
<1>8. ASSUME NEW t \in Thread, EvalNext(t) PROVE NoteInv'
  <2>1. /\ pc[t] = "eval" /\ UNCHANGED <<notes, announced, firing, forgotten, raced, agent>>
        /\ \E c \in {"notify", "eval"} : pc' = [pc EXCEPT ![t] = c]
    BY <1>8 DEF EvalNext
  <2>2. /\ pc'[t] \in {"notify", "eval"} /\ \A u \in Thread : u # t => pc'[u] = pc[u]
    BY <2>1 DEF TypeOK
  <2>3. NotesMine' /\ Alone'
    BY <1>0, <2>1, <2>2 DEF NotesMine, Alone
  <2> QED BY <1>1, <2>1, <2>3
<1>9. ASSUME NEW t \in Thread, Notify(t) PROVE NoteInv'
  BY <1>9, SentNotes
<1>10. ASSUME NEW t \in Thread, EvalReturn(t) PROVE NoteInv'
  <2>1. /\ notes[t] = << >> /\ UNCHANGED <<notes, announced, firing, forgotten, raced>>
        /\ pc' = [pc EXCEPT ![t] = "idle"] /\ agent' = [agent EXCEPT ![t] = AnyAgent]
    BY <1>10 DEF EvalReturn
  <2>2. /\ pc'[t] = "idle" /\ DOMAIN notes[t] = {}
        /\ \A u \in Thread : u # t => pc'[u] = pc[u] /\ agent'[u] = agent[u]
    BY <2>1 DEF TypeOK
  <2>3. NotesMine' /\ Alone'
    BY <1>0, <2>1, <2>2 DEF NotesMine, Alone
  <2> QED BY <1>1, <2>1, <2>3
<1>11. CASE UNCHANGED vars \/ EvalDisabled \/ AdvanceTime \/ Start
  BY <1>2, <1>11 DEF vars, EvalDisabled, AdvanceTime, Start
<1>12. ASSUME NEW k \in Key, Ack(k) PROVE NoteInv'
  BY <1>2, <1>12 DEF Ack
<1> QED
  BY <1>3, <1>4, <1>5, <1>6, <1>7, <1>8, <1>9, <1>10, <1>11, <1>12 DEF Next, EvalStep

-----------------------------------------------------------------------------
IInv == TypeOK /\ LockInv /\ StateInv /\ TimeInv /\ StoryInv /\ NoteInv

LEMMA AlertInvariance == Spec => []IInv
<1>1. Init => IInv
  BY InitTypes, InitLock, InitState, InitTime, InitStory, InitNotes DEF IInv
<1>2. IInv /\ [Next]_vars => IInv'
  <2> SUFFICES ASSUME IInv, [Next]_vars PROVE IInv'
    OBVIOUS
  <2>1. TypeOK /\ LockInv /\ StateInv /\ TimeInv /\ StoryInv /\ NoteInv /\ TodoInside
    BY DEF IInv, LockInv
  <2> QED BY <2>1, NextTypes, NextLock, NextState, NextTime, NextStory, NextNotes DEF IInv
<1> QED BY <1>1, <1>2, PTL DEF Spec

(* AlertManager: every variable keeps its type and m_history never holds   *)
(* more than kMaxHistory records.                                          *)
THEOREM AlertTypes == Spec => []TypeOK
<1>1. IInv => TypeOK
  BY DEF IInv
<1> QED BY <1>1, AlertInvariance, PTL

(* UpsertRule, DeleteRule: a rules file that loads holds the rules in      *)
(* force, whatever write failed and wherever the process stopped.          *)
THEOREM FileNeverStale == Spec => []NeverStale
<1>1. IInv => NeverStale
  BY DEF IInv, StateInv
<1> QED BY <1>1, AlertInvariance, PTL

(* DeleteRule, Evaluate: an active alert always belongs to a rule in force. *)
THEOREM AlertsHaveRules == Spec => []NoOrphan
<1>1. IInv => NoOrphan
  BY DEF IInv, StateInv
<1> QED BY <1>1, AlertInvariance, PTL

(* Ack, Evaluate: only active alerts are acknowledged.                     *)
THEOREM AcksEnd == Spec => []AckOnlyFiring
<1>1. IInv => AckOnlyFiring
  BY DEF IInv, StateInv
<1> QED BY <1>1, AlertInvariance, PTL

(* Evaluate: the history is in the order of time however many threads add  *)
(* to it.                                                                  *)
THEOREM HistoryInOrder == Spec => []HistoryOrdered
<1>1. IInv => HistoryOrdered
  BY DEF IInv, TimeInv
<1> QED BY <1>1, AlertInvariance, PTL

(* Evaluate, AlertHistoryJson: the last record of an alert says what its   *)
(* state is and when its repeat interval began, unless its rule was        *)
(* deleted, whatever the limit has cut off.                                *)
THEOREM HistoryTells == Spec => []HistoryAgrees
<1>1. IInv => HistoryAgrees
  BY DEF IInv, StoryInv
<1> QED BY <1>1, AlertInvariance, PTL

(* Evaluate: however many threads report it, an active alert is repeated   *)
(* no sooner than the interval of the rule allows.                         *)
THEOREM RepeatsSpaced == Spec => []RepeatSpacing
<1>1. IInv => RepeatSpacing
  BY DEF IInv, StoryInv
<1> QED BY <1>1, AlertInvariance, PTL

(* Evaluate: once the notifications of a key are out, the last one told    *)
(* its state, unless two threads evaluated its agent at once or its rule   *)
(* was deleted.                                                            *)
THEOREM NotifiersAgree == Spec => []AnnouncementsAgree
<1>1. IInv => AnnouncementsAgree
  BY DEF IInv, NoteInv
<1> QED BY <1>1, AlertInvariance, PTL

=============================================================================
