----------------------------- MODULE DagScheduler -----------------------------
(***************************************************************************)
(* The scheduler of one mission (orchestration/dag-scheduler.ts): which    *)
(* tasks are claimed and what every operation does to the graph.  Each     *)
(* operation of the class is one action; its in-memory part runs without   *)
(* an await, so it is one step.  The write of the chain that follows it is *)
(* in MissionOrchestrator, which composes this module.                     *)
(*                                                                         *)
(* Several operations delete the claim first and then call a transition    *)
(* that may throw: the action is then enabled with the deletion alone, and *)
(* the caller is told by the predicate MayMark... that it threw.           *)
(***************************************************************************)
EXTENDS TaskGraph

CONSTANTS
    Concurrency,    \* DagSchedulerOptions.concurrency
    Chains          \* the statuses the tasks of an initialChain may have

ASSUME ConcurrencyAssumption == Concurrency \in Nat \ {0}

\* No task of the chain got past pending before its dependencies were done.
InOrder(chain) ==
    \A t \in Task : chain[t] \in {"running", "done"} =>
        \A d \in DependsOn[t] : chain[d] = "done"

\* A new mission has a chain of pending tasks.  A resumed one has the chain a
\* former process left: its tasks may be running, failed or blocked.
ASSUME ChainsAssumption ==
    Chains \subseteq [Task -> Status] /\ \A chain \in Chains : InOrder(chain)

VARIABLES
    status,     \* TaskGraph.nodesById: the status of every task
    claimed     \* claimedTaskIds: the tasks a start-task action is out for

dagVars == <<status, claimed>>

\* The constructor takes the chain as it is, and nothing is claimed yet: a task
\* that another process left running runs in the graph without a claim.
DagInit ==
    /\ status \in Chains
    /\ claimed = {}

Candidates == Runnable(status) \ claimed

HasFreeSlot == Cardinality(claimed) < Concurrency

\* Mutant: one slot too many.
IsOversizedPick(S) ==
    /\ S \subseteq Candidates
    /\ Cardinality(S) + Cardinality(claimed) <= Concurrency + 1

\* The first availableSlots candidates in identifier order.
IsRoundPick(S) ==
    /\ S \subseteq Candidates
    /\ Cardinality(S) + Cardinality(claimed) <= Concurrency
    /\ \A t \in S, u \in Candidates \ S : t < u
    /\ S # Candidates => Cardinality(S) + Cardinality(claimed) = Concurrency

\* scheduleRound claims the tasks of S and marks them running.
ClaimRound(S) ==
    /\ IsRoundPick(S)
    /\ claimed' = claimed \cup S
    /\ status' = [t \in Task |-> IF t \in S THEN "running" ELSE status[t]]

\* finishTask: a result for a task that is not claimed is ignored.
FinishTaskDone(t) ==
    /\ t \in claimed
    /\ MayMarkDone(status, t)
    /\ claimed' = claimed \ {t}
    /\ status' = Mark(status, t, "done")

FinishTaskFailed(t) ==
    /\ t \in claimed
    /\ MayMarkFailed(status, t)
    /\ claimed' = claimed \ {t}
    /\ status' = PropagateFailure(Mark(status, t, "failed"), t)

FinishTaskIgnored(t) == t \notin claimed /\ UNCHANGED dagVars

\* The claim is given up and the task made pending again, or nothing but the
\* claim is touched because the transition throws.
BackToPending(t) ==
    /\ claimed' = claimed \ {t}
    /\ status' = IF MayMarkPendingForRetry(status, t)
                 THEN Mark(status, t, "pending") ELSE status

ReleaseTaskBackToPending(t) == BackToPending(t)

CancelTask(t) == BackToPending(t)

\* reassignTask also assigns an agent identifier, which is the same string
\* for every claim of a task (mission-orchestrator.ts:333) and decides nothing.
ReassignTask(t) == BackToPending(t)

\* Mutant: the claim is kept.
BlockKeepingClaim(t) ==
    /\ UNCHANGED claimed
    /\ status' = IF MayMarkBlocked(status, t)
                 THEN Mark(status, t, "blocked") ELSE status

BlockTaskForHumanDecision(t) ==
    /\ claimed' = claimed \ {t}
    /\ status' = IF MayMarkBlocked(status, t)
                 THEN Mark(status, t, "blocked") ELSE status

\* Mutant: the guard before it was made idempotent.
IsNotPending(t) == status[t] # "pending"

\* unblockTask: only a blocked task is touched.  For a pending, running,
\* done or failed one the instruction came late and is a no-op.
IsUnblockable(t) == status[t] = "blocked"

UnblockTask(t) ==
    /\ IsUnblockable(t)
    /\ status' = Mark(status, t, "pending")
    /\ UNCHANGED claimed

DagNext ==
    \/ \E S \in SUBSET Task : ClaimRound(S)
    \/ \E t \in Task :
          \/ FinishTaskDone(t)
          \/ FinishTaskFailed(t)
          \/ FinishTaskIgnored(t)
          \/ ReleaseTaskBackToPending(t)
          \/ BlockTaskForHumanDecision(t)
          \/ CancelTask(t)
          \/ ReassignTask(t)
          \/ UnblockTask(t)

DagSpec == DagInit /\ [][DagNext]_dagVars

-----------------------------------------------------------------------------

DagTypeOK ==
    /\ status \in [Task -> Status]
    /\ claimed \in SUBSET Task

\* A claimed task is running.
ClaimedAreRunning == \A t \in claimed : status[t] = "running"

\* Running in the graph, and no start-task action is out for it.
Orphans == {t \in Task : status[t] = "running" /\ t \notin claimed}

\* The claim set and the graph agree: a claimed task is running, and a running
\* one is claimed unless it came running with the chain and nobody touched it
\* since.  When they disagreed (a late unblock used to demote a running task),
\* finishTask(done) met a pending node and a finished result was reported as
\* blocked; a claim that outlives its run leaks a slot, and a run that outlives
\* its claim is a task nobody starts again.
ClaimsMatchRuns == [][ClaimedAreRunning' /\ Orphans' \subseteq Orphans]_dagVars

\* A task runs, or has run to its end, only after all its dependencies are
\* done, whatever retries, reassignments and late results happened since.
DependenciesFirst == InOrder(status)

\* The concurrency limit: claims never exceed the slots.
WithinConcurrency == Cardinality(claimed) <= Concurrency

\* No operation takes a task out of done: neither a late unblock, nor a
\* reassignment, nor the outcome of a second worker.
DoneIsFinal == [][\A t \in Task : status[t] = "done" => status'[t] = "done"]_dagVars
=============================================================================
