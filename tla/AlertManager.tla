---------------------------- MODULE AlertManager ----------------------------
(***************************************************************************)
(* The collector's alert state machine and its rules file                  *)
(* (collector/src/alerting/alert_manager.cpp). The gRPC handler threads    *)
(* evaluate the batches of the agents; the HTTP handlers edit the rules    *)
(* and acknowledge alerts. One mutex guards the rules, the firing states   *)
(* and the history; notifications are sent after it is released.           *)
(*                                                                         *)
(* A rule is [id, kind, scope, repeat]: kind is "failure" for on_failure   *)
(* rules and "above" or "below" for threshold rules, scope holds the       *)
(* agent, target and check type combinations its fields select. A metric   *)
(* is [target, check, reading]: the probe "failed", has "none" of the      *)
(* rule's field, or has a value "low", "equal" or "high" with respect to   *)
(* the threshold. m_rules is a set: the order in which the rules of one    *)
(* metric are evaluated is left open. Values, names and severities are     *)
(* left out.                                                               *)
(***************************************************************************)
EXTENDS Naturals, Sequences

CONSTANTS
    Thread,         \* handler threads of the gRPC server
    Agent, Target, Check,
    Rule,           \* the rules ParseRule accepts
    Batches,        \* the metrics an agent may send in one batch
    InitialRules,   \* rule sets the file may hold at first
    MaxHistory,     \* kMaxHistory
    MaxTime,        \* bound: last value of the clock
    MaxEdits,       \* bound: rule edits
    MaxStops        \* bound: process ends

Kind == {"failure", "above", "below"}
Reading == {"failed", "none", "low", "equal", "high"}
Metric == [target : Target, check : Check, reading : Reading]
RuleId == {r.id : r \in Rule}
Key == RuleId \X Agent \X Target        \* StateKey
Status == {"firing", "resolved"}
Record == [rule : Rule, key : Key, status : Status, time : Nat, first : BOOLEAN]
File == [ok : BOOLEAN, rules : SUBSET Rule]
AnyAgent == CHOOSE a \in Agent : TRUE   \* an idle thread's agent is irrelevant
NoEdit == [op |-> "none", gone |-> {}, rules |-> {}]

ASSUME AlertAssumption ==
    /\ Agent # {}
    /\ \A r \in Rule : /\ r.kind \in Kind
                       /\ r.scope \subseteq Agent \X Target \X Check
                       /\ r.repeat \in Nat
    /\ Batches \subseteq Seq(Metric)
    /\ InitialRules \subseteq SUBSET Rule
    /\ {MaxTime, MaxEdits, MaxStops} \subseteq Nat
    /\ MaxHistory \in Nat \ {0}

VARIABLES
    up, now,
    rules, hasPath, \* m_rules, m_rules_path is not empty
    file,           \* the rules file; not ok: missing, cut short or invalid
    edit,           \* the edit whose file is being written, with the lock held
    firing, acked,  \* keys whose FiringState is firing, acknowledged
    lastNotified,   \* last_notified_ms
    history,        \* m_history
    pc, agent, batch, todo, stamp, notes,       \* Evaluate in each thread
    announced,      \* history: what the notifiers were told last about a key
    forgotten,      \* history: firing keys erased by DeleteRule, not fired since
    raced,          \* history: agents with two batches evaluated at once
    edits, stops

alertVars == <<firing, acked, lastNotified, history>>
ruleVars == <<rules, hasPath, file, edit>>
evalVars == <<pc, agent, batch, todo, stamp, notes>>
vars == <<up, now, ruleVars, alertVars, evalVars, announced, forgotten, raced,
          edits, stops>>

(* Nobody holds m_mutex. *)
Free ==
    /\ edit.op = "none"
    /\ \A t \in Thread : pc[t] # "eval"

InitMemory ==
    /\ rules = {} /\ hasPath = FALSE
    /\ edit = NoEdit
    /\ firing = {} /\ acked = {}
    /\ lastNotified = [k \in Key |-> 0]
    /\ history = << >>
    /\ pc = [t \in Thread |-> "idle"]
    /\ agent = [t \in Thread |-> AnyAgent]
    /\ batch = [t \in Thread |-> << >>]
    /\ todo = [t \in Thread |-> {}]
    /\ stamp = [t \in Thread |-> 0]
    /\ notes = [t \in Thread |-> << >>]
    /\ announced = [k \in Key |-> "resolved"]
    /\ forgotten = {} /\ raced = {}

Init ==
    /\ up = FALSE
    /\ now = 0
    /\ file \in {[ok |-> TRUE, rules |-> R] : R \in InitialRules}
                  \cup {[ok |-> FALSE, rules |-> {}]}
    /\ InitMemory
    /\ edits = 0 /\ stops = 0

-----------------------------------------------------------------------------
(* The process.                                                            *)

(* system_clock, assumed not to step back.                                 *)
AdvanceTime ==
    /\ now < MaxTime
    /\ now' = now + 1
    /\ UNCHANGED <<up, ruleVars, alertVars, evalVars, announced, forgotten,
                   edits, stops, raced>>

(* LoadRulesFromFile: only a file that parses is remembered as the place   *)
(* of later edits. Otherwise the collector starts without rules.           *)
Start ==
    /\ ~up
    /\ up' = TRUE
    /\ rules' = IF file.ok THEN file.rules ELSE {}
    /\ hasPath' = file.ok
    /\ UNCHANGED <<now, file, edit, alertVars, evalVars, announced, forgotten,
                   edits, stops, raced>>

(* The process ends, perhaps in the middle of an edit or an evaluation.    *)
Stop ==
    /\ up
    /\ stops < MaxStops
    /\ stops' = stops + 1
    /\ up' = FALSE
    /\ rules' = {} /\ hasPath' = FALSE
    /\ edit' = NoEdit
    /\ firing' = {} /\ acked' = {}
    /\ lastNotified' = [k \in Key |-> 0]
    /\ history' = << >>
    /\ pc' = [t \in Thread |-> "idle"]
    /\ agent' = [t \in Thread |-> AnyAgent]
    /\ batch' = [t \in Thread |-> << >>]
    /\ todo' = [t \in Thread |-> {}]
    /\ stamp' = [t \in Thread |-> 0]
    /\ notes' = [t \in Thread |-> << >>]
    /\ announced' = [k \in Key |-> "resolved"]
    /\ forgotten' = {} /\ raced' = {}
    /\ UNCHANGED <<now, file, edits>>

-----------------------------------------------------------------------------
(* Edits of the rules: UpsertRule and DeleteRule.                          *)

(* The rules after an upsert: one rule with the id is replaced.            *)
Upserted(r) ==
    LET same == {q \in rules : q.id = r.id}
    IN  IF same = {} THEN {rules \cup {r}}
                     ELSE {(rules \ {q}) \cup {r} : q \in same}

(* Mutant: DeleteRule keeps the firing state of the deleted rule.          *)
CommitEdit_keepsState(gone, R) ==
    /\ rules' = R
    /\ edit' = NoEdit
    /\ forgotten' = forgotten \cup {k \in firing : k[1] \in gone}
    /\ UNCHANGED <<firing, acked, lastNotified>>

(* m_rules = candidate; the states of a deleted rule are erased, those of  *)
(* a replaced rule are kept.                                               *)
CommitEdit(gone, R) ==
    /\ rules' = R
    /\ edit' = NoEdit
    /\ firing' = {k \in firing : k[1] \notin gone}
    /\ acked' = {k \in acked : k[1] \notin gone}
    /\ lastNotified' = [k \in Key |-> IF k[1] \in gone THEN 0 ELSE lastNotified[k]]
    /\ forgotten' = forgotten \cup {k \in firing : k[1] \in gone}

(* Mutant: the rules are committed although the file was not opened.       *)
OpenFailed_commits(gone, R) ==
    /\ hasPath
    /\ CommitEdit(gone, R)
    /\ UNCHANGED file

OpenFailed(gone, R) ==
    /\ hasPath
    /\ UNCHANGED <<file, rules, edit, firing, acked, lastNotified, forgotten>>

(* The lock is taken. Without a file the edit is committed at once; with   *)
(* one, opening it cuts it to nothing, or fails and rejects the edit.      *)
BeginEdit(op, gone, R) ==
    /\ up /\ Free
    /\ edits < MaxEdits
    /\ edits' = edits + 1
    /\ \/ ~hasPath /\ CommitEdit(gone, R) /\ UNCHANGED file
       \/ OpenFailed(gone, R)
       \/ /\ hasPath
          /\ file' = [ok |-> FALSE, rules |-> {}]
          /\ edit' = [op |-> op, gone |-> gone, rules |-> R]
          /\ UNCHANGED <<rules, firing, acked, lastNotified, forgotten>>
    /\ UNCHANGED <<up, now, hasPath, history, evalVars, announced, stops, raced>>

UpsertRule ==
    \E r \in Rule : \E R \in Upserted(r) : BeginEdit("upsert", {}, R)

DeleteRule ==
    \E id \in RuleId :
        /\ \E r \in rules : r.id = id
        /\ BeginEdit("delete", {id}, {r \in rules : r.id # id})

(* The document reaches the file, or only the stream's buffer: good() then *)
(* says yes and the failed flush of the destructor goes unnoticed.         *)
EditWritten ==
    /\ up /\ edit.op # "none"
    /\ file' \in {[ok |-> TRUE, rules |-> edit.rules], file}
    /\ CommitEdit(edit.gone, edit.rules)
    /\ UNCHANGED <<up, now, hasPath, history, evalVars, announced, edits, stops, raced>>

(* good() says no: the edit is rejected, the file stays cut short.         *)
EditFailed ==
    /\ up /\ edit.op # "none"
    /\ edit' = NoEdit
    /\ UNCHANGED <<up, now, rules, hasPath, file, alertVars, evalVars, announced,
                   forgotten, edits, stops, raced>>

Ack(k) ==
    /\ up /\ Free
    /\ k \in firing /\ k \notin acked
    /\ acked' = acked \cup {k}
    /\ UNCHANGED <<up, now, ruleVars, firing, lastNotified, history, evalVars,
                   announced, forgotten, edits, stops, raced>>

-----------------------------------------------------------------------------
(* Evaluate.                                                               *)

Matches(r, a, m) == <<a, m.target, m.check>> \in r.scope

(* A failed probe, and one without the field, never violates a threshold.  *)
Violated(r, m) ==
    m.reading = CASE r.kind = "failure" -> "failed"
                  [] r.kind = "above"   -> "high"
                  [] r.kind = "below"   -> "low"

(* The rules the first metric of b has to be compared with.                *)
Matching(a, b) == IF b = << >> THEN {} ELSE {r \in rules : Matches(r, a, Head(b))}

KeyOf(t, r) == <<r.id, agent[t], Head(batch[t]).target>>

(* The unlocked m_rules.empty() test, then the wait for the lock. An agent *)
(* that gave up waiting for the answer may send again meanwhile.           *)
EvalEnter(t, a, b) ==
    /\ up /\ pc[t] = "idle"
    /\ rules # {}
    /\ pc' = [pc EXCEPT ![t] = "enter"]
    /\ agent' = [agent EXCEPT ![t] = a]
    /\ batch' = [batch EXCEPT ![t] = b]
    /\ raced' = raced \cup {c \in {a} : \E u \in Thread : pc[u] # "idle" /\ agent[u] = c}
    /\ UNCHANGED <<up, now, ruleVars, alertVars, todo, stamp, notes, announced,
                   forgotten, edits, stops>>

(* Mutant: the states are read and written without the lock.               *)
EvalLock_unlocked(t) ==
    /\ up /\ pc[t] = "enter"
    /\ pc' = [pc EXCEPT ![t] = "eval"]
    /\ stamp' = [stamp EXCEPT ![t] = now]
    /\ todo' = [todo EXCEPT ![t] = Matching(agent[t], batch[t])]
    /\ UNCHANGED <<up, now, ruleVars, alertVars, agent, batch, notes, announced,
                   forgotten, edits, stops, raced>>

(* The clock is read once, under the lock.                                 *)
EvalLock(t) ==
    /\ up /\ pc[t] = "enter"
    /\ Free
    /\ pc' = [pc EXCEPT ![t] = "eval"]
    /\ stamp' = [stamp EXCEPT ![t] = now]
    /\ todo' = [todo EXCEPT ![t] = Matching(agent[t], batch[t])]
    /\ UNCHANGED <<up, now, ruleVars, alertVars, agent, batch, notes, announced,
                   forgotten, edits, stops, raced>>

(* Mutant: the history may hold one record too many.                       *)
TrimHistory_late(h) == IF Len(h) > MaxHistory + 1 THEN Tail(h) ELSE h

TrimHistory(h) == IF Len(h) > MaxHistory THEN Tail(h) ELSE h

(* push_back of the record, TrimHistory, and the notification for later.   *)
Report(t, r, status, first) ==
    LET rec == [rule |-> r, key |-> KeyOf(t, r), status |-> status,
                time |-> stamp[t], first |-> first]
    IN  /\ history' = TrimHistory(Append(history, rec))
        /\ notes' = [notes EXCEPT ![t] = Append(@, rec)]

Fire(t, r) ==
    LET k == KeyOf(t, r)
    IN  /\ k \notin firing
        /\ firing' = firing \cup {k}
        /\ lastNotified' = [lastNotified EXCEPT ![k] = stamp[t]]
        /\ forgotten' = forgotten \ {k}
        /\ Report(t, r, "firing", TRUE)
        /\ UNCHANGED acked

(* Mutant: a repeated notification does not restart the interval.          *)
Renotify_noStamp(t, r) ==
    LET k == KeyOf(t, r)
    IN  /\ k \in firing
        /\ stamp[t] >= lastNotified[k] + r.repeat
        /\ Report(t, r, "firing", FALSE)
        /\ UNCHANGED <<firing, acked, lastNotified, forgotten>>

Renotify(t, r) ==
    LET k == KeyOf(t, r)
    IN  /\ k \in firing
        /\ stamp[t] >= lastNotified[k] + r.repeat
        /\ lastNotified' = [lastNotified EXCEPT ![k] = stamp[t]]
        /\ Report(t, r, "firing", FALSE)
        /\ UNCHANGED <<firing, acked, forgotten>>

Hold(t, r) ==
    LET k == KeyOf(t, r)
    IN  /\ k \in firing
        /\ stamp[t] < lastNotified[k] + r.repeat
        /\ UNCHANGED <<alertVars, notes, forgotten>>

(* Mutant: the acknowledgement outlives the alert.                         *)
Resolve_keepsAck(t, r) ==
    LET k == KeyOf(t, r)
    IN  /\ k \in firing
        /\ firing' = firing \ {k}
        /\ lastNotified' = [lastNotified EXCEPT ![k] = 0]
        /\ Report(t, r, "resolved", TRUE)
        /\ UNCHANGED <<acked, forgotten>>

(* Mutant: the state is reset but nothing is recorded.                     *)
Resolve_silent(t, r) ==
    LET k == KeyOf(t, r)
    IN  /\ k \in firing
        /\ firing' = firing \ {k}
        /\ acked' = acked \ {k}
        /\ lastNotified' = [lastNotified EXCEPT ![k] = 0]
        /\ UNCHANGED <<history, notes, forgotten>>

(* Mutant: an acknowledged alert is left alone.                            *)
Resolve_unacked(t, r) ==
    LET k == KeyOf(t, r)
    IN  /\ k \in firing
        /\ \/ /\ k \notin acked
              /\ firing' = firing \ {k}
              /\ lastNotified' = [lastNotified EXCEPT ![k] = 0]
              /\ Report(t, r, "resolved", TRUE)
           \/ /\ k \in acked
              /\ UNCHANGED <<firing, lastNotified, history, notes>>
        /\ UNCHANGED <<acked, forgotten>>

Resolve(t, r) ==
    LET k == KeyOf(t, r)
    IN  /\ k \in firing
        /\ firing' = firing \ {k}
        /\ acked' = acked \ {k}
        /\ lastNotified' = [lastNotified EXCEPT ![k] = 0]
        /\ Report(t, r, "resolved", TRUE)
        /\ UNCHANGED forgotten

Quiet(t, r) ==
    /\ KeyOf(t, r) \notin firing
    /\ UNCHANGED <<alertVars, notes, forgotten>>

(* One rule is compared with the current metric.                           *)
EvalRule(t, r) ==
    /\ up /\ pc[t] = "eval"
    /\ r \in todo[t]
    /\ \/ Violated(r, Head(batch[t])) /\ (Fire(t, r) \/ Renotify(t, r) \/ Hold(t, r))
       \/ ~Violated(r, Head(batch[t])) /\ (Resolve(t, r) \/ Quiet(t, r))
    /\ todo' = [todo EXCEPT ![t] = @ \ {r}]
    /\ UNCHANGED <<up, now, ruleVars, pc, agent, batch, stamp, announced, edits,
                   stops, raced>>

(* On to the next metric, or unlock and notify.                            *)
EvalNext(t) ==
    /\ up /\ pc[t] = "eval"
    /\ todo[t] = {}
    /\ LET rest == IF batch[t] = << >> THEN << >> ELSE Tail(batch[t])
       IN  /\ batch' = [batch EXCEPT ![t] = rest]
           /\ todo' = [todo EXCEPT ![t] = Matching(agent[t], rest)]
           /\ pc' = [pc EXCEPT ![t] = IF rest = << >> THEN "notify" ELSE "eval"]
    /\ UNCHANGED <<up, now, ruleVars, alertVars, agent, stamp, notes, announced,
                   forgotten, edits, stops, raced>>

(* Mutant: the notifications are sent newest first.                        *)
Notify_newestFirst(t) ==
    /\ up /\ pc[t] = "notify"
    /\ notes[t] # << >>
    /\ LET n == notes[t][Len(notes[t])]
       IN  announced' = [announced EXCEPT ![n.key] = n.status]
    /\ notes' = [notes EXCEPT ![t] = SubSeq(@, 1, Len(@) - 1)]
    /\ UNCHANGED <<up, now, ruleVars, alertVars, pc, agent, batch, todo, stamp,
                   forgotten, edits, stops, raced>>

(* Every notifier is handed the oldest notification; failures of the       *)
(* webhook are only logged.                                                *)
Notify(t) ==
    /\ up /\ pc[t] = "notify"
    /\ notes[t] # << >>
    /\ LET n == Head(notes[t])
       IN  announced' = [announced EXCEPT ![n.key] = n.status]
    /\ notes' = [notes EXCEPT ![t] = Tail(@)]
    /\ UNCHANGED <<up, now, ruleVars, alertVars, pc, agent, batch, todo, stamp,
                   forgotten, edits, stops, raced>>

EvalReturn(t) ==
    /\ up /\ pc[t] = "notify"
    /\ notes[t] = << >>
    /\ pc' = [pc EXCEPT ![t] = "idle"]
    /\ stamp' = [stamp EXCEPT ![t] = 0]
    /\ agent' = [agent EXCEPT ![t] = AnyAgent]
    /\ UNCHANGED <<up, now, ruleVars, alertVars, batch, todo, notes,
                   announced, forgotten, edits, stops, raced>>

(* The unlocked test finds no rules: nothing is evaluated.                 *)
EvalDisabled ==
    /\ up /\ rules = {}
    /\ UNCHANGED vars

EvalStep(t) ==
    \/ EvalLock(t)
    \/ \E r \in Rule : EvalRule(t, r)
    \/ EvalNext(t)
    \/ Notify(t)
    \/ EvalReturn(t)

-----------------------------------------------------------------------------
Next ==
    \/ AdvanceTime
    \/ Start
    \/ Stop
    \/ UpsertRule
    \/ DeleteRule
    \/ EditWritten
    \/ EditFailed
    \/ \E k \in Key : Ack(k)
    \/ \E t \in Thread, a \in Agent, b \in Batches : EvalEnter(t, a, b)
    \/ \E t \in Thread : EvalStep(t)
    \/ EvalDisabled

Spec == Init /\ [][Next]_vars

(* A handler keeps running, a blocked edit ends, the collector is          *)
(* restarted, and every agent goes on sending each of its batches.         *)
Fairness ==
    /\ WF_vars(Start)
    /\ WF_vars(EditWritten \/ EditFailed)
    /\ \A t \in Thread : SF_vars(EvalStep(t))
    /\ \A a \in Agent, b \in Batches :
         SF_vars(\E t \in Thread : EvalEnter(t, a, b))

FairSpec == Spec /\ Fairness

-----------------------------------------------------------------------------
(* Properties.                                                             *)

(* The types of the variables; the history never outgrows kMaxHistory.     *)
TypeOK ==
    /\ up \in BOOLEAN
    /\ now \in 0 .. MaxTime
    /\ rules \subseteq Rule
    /\ hasPath \in BOOLEAN
    /\ file \in File
    /\ edit \in [op : {"none", "upsert", "delete"}, gone : SUBSET RuleId,
                 rules : SUBSET Rule]
    /\ firing \subseteq Key /\ acked \subseteq Key /\ forgotten \subseteq Key
    /\ raced \subseteq Agent
    /\ lastNotified \in [Key -> Nat]
    /\ history \in Seq(Record) /\ Len(history) <= MaxHistory
    /\ pc \in [Thread -> {"idle", "enter", "eval", "notify"}]
    /\ agent \in [Thread -> Agent]
    /\ batch \in [Thread -> Seq(Metric)]
    /\ todo \in [Thread -> SUBSET Rule]
    /\ stamp \in [Thread -> Nat]
    /\ notes \in [Thread -> Seq(Record)]
    /\ announced \in [Key -> Status]
    /\ edits \in 0 .. MaxEdits
    /\ stops \in 0 .. MaxStops

(* UpsertRule, DeleteRule: whatever fails, and wherever the process stops, *)
(* a rules file that can be loaded holds the rules in force, never an      *)
(* older or a rejected set.                                                *)
NeverStale == hasPath /\ file.ok => file.rules = rules

(* DeleteRule and Evaluate: an active alert always belongs to a rule that  *)
(* still exists, so that it can be resolved and shown with its name.       *)
NoOrphan == \A k \in firing : \E r \in rules : r.id = k[1]

(* Ack: an acknowledgement ends with its alert; an alert that fires again  *)
(* has to be acknowledged again.                                           *)
AckOnlyFiring == acked \subseteq firing

(* Evaluate: the records of m_history are in the order of their times,     *)
(* and none is younger than the clock, although several threads add them.  *)
HistoryOrdered ==
    /\ \A i, j \in DOMAIN history : i < j => history[i].time <= history[j].time
    /\ \A i \in DOMAIN history : history[i].time <= now

Last(k, i) ==
    /\ history[i].key = k
    /\ \A j \in DOMAIN history : j > i => history[j].key # k

(* Evaluate, ActiveAlertsJson, AlertHistoryJson: the history and the list  *)
(* of active alerts tell the same story. The last record of an active      *)
(* alert says that it fired, at the time its repeat interval counts from;  *)
(* that of an inactive one says that it was resolved, unless its rule was  *)
(* deleted.                                                                *)
HistoryAgrees ==
    \A i \in DOMAIN history : LET k == history[i].key IN
        Last(k, i) =>
            IF k \in firing
            THEN history[i].status = "firing" /\ history[i].time = lastNotified[k]
            ELSE history[i].status = "resolved" \/ k \in forgotten

(* Evaluate: the notification of an alert that is already firing comes no  *)
(* sooner than the rule's repeat interval after the one before it.         *)
RepeatSpacing ==
    \A i, j \in DOMAIN history :
        /\ i < j
        /\ history[i].key = history[j].key
        /\ ~history[j].first
        => history[j].time >= history[i].time + history[j].rule.repeat

(* Evaluate notifies after it released the lock. Once the notifications of *)
(* a key are out, the last one said what its state is, unless two threads  *)
(* evaluated batches of its agent at once. A deleted rule's alerts are     *)
(* never announced as resolved.                                            *)
AnnouncementsAgree ==
    \A k \in Key :
        \/ \E t \in Thread : \E i \in DOMAIN notes[t] : notes[t][i].key = k
        \/ announced[k] = "firing" <=> k \in firing
        \/ k \in forgotten
        \/ k[2] \in raced

(* A reading of the rule's field that does not violate the rule.           *)
Good(r, m) == ~Violated(r, m) /\ m.reading \notin {"failed", "none"}

(* Good readings of the alert's target, within the scope of its rule as it *)
(* is now, are among what its agent keeps sending.                         *)
Covered(k) ==
    \E r \in rules, b \in Batches : \E i \in DOMAIN b :
      /\ r.id = k[1] /\ b[i].target = k[3]
      /\ Matches(r, k[2], b[i]) /\ Good(r, b[i])

(* Evaluate, UpsertRule: every active alert ends if its agent sends a good *)
(* reading of its target again and again, through edits of the rule,       *)
(* repeats, acknowledgements and restarts. Only an edit that takes these   *)
(* readings out of the rule's scope leaves it active for good.             *)
AlertsEnd == \A k \in Key : k \in firing ~> (k \notin firing \/ ~Covered(k))

(* What the comment in Evaluate claims: a failed probe neither fires nor   *)
(* resolves the alert of a threshold rule.                                 *)
FailedProbeKeepsAlert ==
    [][\A t \in Thread, r \in Rule :
          /\ pc[t] = "eval" /\ r \in todo[t] /\ r \notin todo'[t]
          /\ r.kind # "failure" /\ Head(batch[t]).reading = "failed"
          /\ up'
          => firing' = firing]_vars

=============================================================================
