------------------------- MODULE MCCommandScheduler -------------------------
(* Schedules that start at different times, each with an agent of its own; *)
(* the second slot of s2 comes early enough to meet its agent busy.        *)
EXTENDS CommandScheduler, TLC

CONSTANTS s1, s2

OneSchedule == {s1}
TwoSchedules == {s1, s2}
SameAgent == [s \in Schedule |-> "agent"]
OwnAgent == [s \in Schedule |-> s]
MCWindowStart == [s \in Schedule |-> IF s = s1 THEN 1 ELSE 0]
FromStart == [s \in Schedule |-> 0]
MCWindowEnd == [s \in Schedule |-> IF s = s1 THEN MaxTime + 1 ELSE 1]
SameCollectors == Permutations(Collector)
SameWorkers == Permutations(Worker)
MCInterval == [s \in Schedule |-> IF s = s1 THEN 3 ELSE 2]
=============================================================================
