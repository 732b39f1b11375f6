------------------------------ MODULE TaskGraph ------------------------------
(***************************************************************************)
(* The task dependency graph of a mission (core/task-graph.ts).            *)
(*                                                                         *)
(* A task is a number: the order of numbers is the lexicographic order of  *)
(* task identifiers, which findRunnableTaskIds sorts by.  The constructor  *)
(* accepts a graph only if every dependency exists and there is no cycle;  *)
(* the assumptions below say what an accepted graph is.  The graph itself  *)
(* never changes afterwards, only the status of its nodes does, so the     *)
(* operators take the status function as a parameter.                      *)
(***************************************************************************)
EXTENDS Naturals, FiniteSets

CONSTANTS
    Task,        \* the identifiers of the chain's tasks
    DependsOn    \* DependsOn[t]: the tasks t waits for

ASSUME TaskAssumption == Task \subseteq Nat \ {0} /\ IsFiniteSet(Task)

\* validateDependencies: every dependency is a node of the same chain.
ASSUME DependsOnAssumption == DependsOn \in [Task -> SUBSET Task]

\* validateAcyclic: a cycle would be a set of tasks each waiting for another
\* task of the set.
ASSUME AcyclicAssumption ==
    \A S \in SUBSET Task :
        S # {} => \E t \in S : DependsOn[t] \cap S = {}

Status == {"pending", "running", "done", "failed", "blocked"}

\* Mutant: a failed dependency counts as settled.
RunnableAfterFailure(status) ==
    {t \in Task : /\ status[t] = "pending"
                  /\ \A d \in DependsOn[t] : status[d] \in {"done", "failed"}}

\* The tasks a round may start: pending, with every dependency done.
Runnable(status) ==
    {t \in Task : /\ status[t] = "pending"
                  /\ \A d \in DependsOn[t] : status[d] = "done"}

IsMissionComplete(status) == \A t \in Task : status[t] = "done"

\* Mutant: a finished task may be made pending again.
MayMarkDonePending(status, t) == status[t] # "pending"

\* transitionTo: the statuses each mark... method accepts.  A call from any
\* other status throws invalid-task-chain and changes nothing.
MayMarkRunning(status, t)         == status[t] = "pending"
MayMarkDone(status, t)            == status[t] = "running"
MayMarkFailed(status, t)          == status[t] \in {"running", "pending"}
MayMarkBlocked(status, t)         == status[t] \in {"pending", "running"}
MayMarkPendingForRetry(status, t) == status[t] \in {"running", "failed", "blocked"}

Mark(status, t, next) == [status EXCEPT ![t] = next]

\* Mutant: a status the schema does not have.
PropagateAsSkipped(status, failed) ==
    [t \in Task |-> IF status[t] = "pending" /\ failed \in DependsOn[t]
                    THEN "skipped" ELSE status[t]]

\* propagateFailureToDownstream: the pending tasks that depend directly on a
\* failed one become blocked; tasks further down stay pending.
PropagateFailure(status, failed) ==
    [t \in Task |-> IF status[t] = "pending" /\ failed \in DependsOn[t]
                    THEN "blocked" ELSE status[t]]
=============================================================================
