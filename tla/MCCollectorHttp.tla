--------------------------- MODULE MCCollectorHttp ---------------------------
(* Each scenario stresses one part: the heartbeats; a call to an agent     *)
(* that moves, with another agent near; two calls at once and a restart;   *)
(* the mirror. The last one mixes a call, a sync and a download.           *)
EXTENDS CollectorHttp, TLC

CONSTANTS a, x, y, z

At(ada, adb) == {[n \in Agent |-> IF n = a THEN ada ELSE adb]}
Scenario(start, resolved, faults, calls, syncs, slips, downloads) ==
    [start |-> start, resolved |-> resolved, faults |-> faults, calls |-> calls,
     syncs |-> syncs, slips |-> slips, downloads |-> downloads]

MCScenarios == {
    Scenario(At(x, Nowhere), TRUE, 3, 0, 0, 0, 0),
    Scenario(At(x, x), TRUE, 1, 1, 0, 0, 0),
    Scenario(At(x, x), FALSE, 1, 1, 0, 0, 0),
    Scenario(At(z, y), TRUE, 0, 1, 0, 0, 0),
    Scenario(At(x, Nowhere), TRUE, 0, 2, 0, 1, 0),
    Scenario(At(Nowhere, Nowhere), TRUE, 0, 0, 2, 2, 1),
    Scenario(At(x, Nowhere), FALSE, 0, 1, 0, 0, 1)}

NotSet == [n \in Agent |-> Nowhere]
Local == [ad \in Address |-> IF ad \in Hidden THEN y ELSE ad]
Kind == [n \in Mirrored \cup Staged |-> IF n = "run" THEN "linux" ELSE "windows"]
Workers == Permutations(Worker)
=============================================================================
