------------------------------- MODULE MCState -------------------------------
(* Instances of the components that keep state on disk or report it: the       *)
(* mission as its commands see it, submissions and the status of a task, the   *)
(* git repository, task sequences and the shutdown of an agent.  Each is on    *)
(* its own: part says which of them a behaviour is about, Parts which of them  *)
(* an instance has.                                                            *)
EXTENDS MissionControl, PublicApplication, GitIntegration, TaskSequence, TertiaryShutdown, TLC

CONSTANTS
    Parts,
    c1, c2  \* the processes that run commands

VARIABLE part

\* The third task of a mission waits for the first one.
After1 == [t \in ChainTask |-> IF t = 3 THEN {1} ELSE {}]

\* The second task was done when the process ended.
PartlyDone == {[t \in ChainTask |-> IF t = 2 THEN "done" ELSE "pending"]}

\* The first two submissions have one key, the first and the third one task.
Keys  == [s \in Submission |-> IF s = 3 THEN "k2" ELSE "k1"]
Tasks == [s \in Submission |-> IF s = 2 THEN "t2" ELSE "t1"]

OneTier == [t \in SeqTask |-> 0]

\* Nothing tells the processes of a mission apart.
Alike == Permutations(Process)

StateInit ==
    /\ part \in Parts
    /\ ControlInit /\ SubmissionInit /\ MonitorInit /\ GitInit
    /\ TaskSequenceInit /\ ShutdownInit

applicationVars == <<submission, monitor>>
agentVars == <<taskSequenceVars, shutdownVars>>

StateNext ==
    /\ UNCHANGED part
    /\ \/ /\ part = "mission" /\ ControlNext
          /\ UNCHANGED <<applicationVars, git, agentVars>>
       \/ /\ part = "submission" /\ SubmissionNext
          /\ UNCHANGED <<control, monitor, git, agentVars>>
       \/ /\ part = "status" /\ MonitorNext
          /\ UNCHANGED <<control, submission, git, agentVars>>
       \/ /\ part = "git" /\ GitNext
          /\ UNCHANGED <<control, applicationVars, agentVars>>
       \/ /\ part = "sequence" /\ TaskSequenceNext
          /\ UNCHANGED <<control, applicationVars, git, shutdownVars>>
       \/ /\ part = "shutdown" /\ ShutdownNext
          /\ UNCHANGED <<control, applicationVars, git, taskSequenceVars>>

StateSpec == StateInit /\ [][StateNext]_<<part, control, applicationVars, git, agentVars>>
=============================================================================
