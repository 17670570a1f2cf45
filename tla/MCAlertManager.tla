--------------------------- MODULE MCAlertManager ---------------------------
(* Rules, batches and agents for the runs of AlertManager.                 *)
EXTENDS AlertManager, TLC

CONSTANTS a1, r1, r2

OneAgent == {a1}
Everything == Agent \X Target \X Check

High1 == [id |-> r1, kind |-> "above", scope |-> Everything, repeat |-> 1]
Fail1 == [id |-> r1, kind |-> "failure", scope |-> Everything, repeat |-> 1]
Nothing1 == [id |-> r1, kind |-> "below", scope |-> {}, repeat |-> 1]
Fail2 == [Fail1 EXCEPT !.id = r2]

Edits == {High1, Fail1, Nothing1}
FewRules == {High1, Fail2}

M(x, c, v) == [target |-> x, check |-> c, reading |-> v]
Single == {<<M("x", "icmp", v)>> : v \in {"failed", "none", "high"}}
(* Each batch has good readings for one kind of rule and bad ones for the  *)
(* other: "low" ends what "high" set off, either ends a failure. Of one    *)
(* target the second batch clears and fires a failure rule in one call.    *)
Flapping == {<<M("x", "icmp", "high")>>, <<M("x", "tcp", "low"), M("x", "icmp", "failed")>>}
WithRules == {{High1, Fail2}, {}}
OnlyFirst == {{High1}}
=============================================================================
