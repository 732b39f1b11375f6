------------------------ MODULE MCMissionOrchestrator ------------------------
(* Instances of MissionOrchestrator: small graphs for TLC.                   *)
EXTENDS MissionOrchestrator

TwoTasks == 1..2
Independent == [t \in TwoTasks |-> {}]
Chain == [t \in TwoTasks |-> IF t = 1 THEN {} ELSE {1}]

\* A new mission, and one resumed after its process died in the middle of task 1.
New == [t \in TwoTasks |-> "pending"]
OnlyNew == {New}
NewAndResumed == {New, [t \in TwoTasks |-> IF t = 1 THEN "running" ELSE "failed"]}
=============================================================================
