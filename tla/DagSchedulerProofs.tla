-------------------------- MODULE DagSchedulerProofs --------------------------
(***************************************************************************)
(* The scheduler's invariants hold for every graph, every limit and every  *)
(* order of calls, those included whose transition throws.                 *)
(***************************************************************************)
EXTENDS DagScheduler, FiniteSetTheorems, TLAPS

\* Every operation leaves the statuses and the claims well formed.
LEMMA TypingStep == DagTypeOK /\ [DagNext]_dagVars => DagTypeOK'
BY DEF DagTypeOK, DagNext, dagVars, ClaimRound, FinishTaskDone, FinishTaskFailed,
       FinishTaskIgnored, ReleaseTaskBackToPending, BlockTaskForHumanDecision, CancelTask,
       ReassignTask, UnblockTask, BackToPending, Mark, PropagateFailure, Status

\* The initial claims and statuses are well formed.
LEMMA TypingInit == DagInit => DagTypeOK
BY ChainsAssumption DEF DagInit, DagTypeOK

\* The scheduler's type invariant.
THEOREM DagTyping == DagSpec => []DagTypeOK
BY TypingInit, TypingStep, PTL DEF DagSpec

-----------------------------------------------------------------------------

\* What the two halves of ClaimsMatchRuns ask of one step.
KeepsClaims == ClaimedAreRunning' /\ Orphans' \subseteq Orphans

\* A step claims a task when it starts it and gives the claim up when it stops it.
LEMMA ClaimsStep ==
    DagTypeOK /\ ClaimedAreRunning /\ [DagNext]_dagVars => KeepsClaims
<1> SUFFICES ASSUME DagTypeOK, ClaimedAreRunning, [DagNext]_dagVars
             PROVE  KeepsClaims
  OBVIOUS
<1> USE DEF DagTypeOK, ClaimedAreRunning, Orphans, KeepsClaims
<1>1. ASSUME NEW S \in SUBSET Task, ClaimRound(S) PROVE KeepsClaims
  BY <1>1 DEF ClaimRound, IsRoundPick, Candidates, Runnable
<1>2. ASSUME NEW t \in Task, FinishTaskDone(t) PROVE KeepsClaims
  BY <1>2 DEF FinishTaskDone, Mark
<1>3. ASSUME NEW t \in Task, FinishTaskFailed(t) PROVE KeepsClaims
  BY <1>3 DEF FinishTaskFailed, Mark, PropagateFailure
<1>4. ASSUME NEW t \in Task, BackToPending(t) PROVE KeepsClaims
  BY <1>4 DEF BackToPending, Mark, MayMarkPendingForRetry
<1>5. ASSUME NEW t \in Task, BlockTaskForHumanDecision(t) PROVE KeepsClaims
  BY <1>5 DEF BlockTaskForHumanDecision, Mark, MayMarkBlocked
<1>6. ASSUME NEW t \in Task, UnblockTask(t) PROVE KeepsClaims
  BY <1>6 DEF UnblockTask, IsUnblockable, Mark
<1>7. CASE UNCHANGED dagVars
  BY <1>7 DEF dagVars
<1> QED
  BY <1>1, <1>2, <1>3, <1>4, <1>5, <1>6, <1>7
  DEF DagNext, FinishTaskIgnored, ReleaseTaskBackToPending, CancelTask, ReassignTask

\* The scheduler's claims (dag-scheduler.ts, claimedTaskIds) and the running tasks of the
\* graph: whatever chain the mission began with, a claimed task is running, and no operation
\* leaves a task running without a claim that was not so before.
THEOREM ClaimsAreRunningTasks == DagSpec => ClaimsMatchRuns
<1>1. DagInit => ClaimedAreRunning
  BY DEF DagInit, ClaimedAreRunning
<1>2. DagTypeOK /\ ClaimedAreRunning /\ [DagNext]_dagVars
        => ClaimedAreRunning' /\ [ClaimedAreRunning' /\ Orphans' \subseteq Orphans]_dagVars
  BY ClaimsStep DEF KeepsClaims
<1> QED
  BY <1>1, <1>2, DagTyping, PTL DEF DagSpec, ClaimsMatchRuns

-----------------------------------------------------------------------------

\* No operation takes a task out of done.
LEMMA DoneStep ==
    ASSUME DagTypeOK, [DagNext]_dagVars, NEW t \in Task, status[t] = "done"
    PROVE  status'[t] = "done"
<1> USE DEF DagTypeOK
<1>1. ASSUME NEW S \in SUBSET Task, ClaimRound(S) PROVE status'[t] = "done"
  BY <1>1 DEF ClaimRound, IsRoundPick, Candidates, Runnable
<1>2. ASSUME NEW u \in Task, FinishTaskDone(u) PROVE status'[t] = "done"
  BY <1>2 DEF FinishTaskDone, Mark
<1>3. ASSUME NEW u \in Task, FinishTaskFailed(u) PROVE status'[t] = "done"
  BY <1>3 DEF FinishTaskFailed, Mark, PropagateFailure, MayMarkFailed
<1>4. ASSUME NEW u \in Task, BackToPending(u) PROVE status'[t] = "done"
  BY <1>4 DEF BackToPending, Mark, MayMarkPendingForRetry
<1>5. ASSUME NEW u \in Task, BlockTaskForHumanDecision(u) PROVE status'[t] = "done"
  BY <1>5 DEF BlockTaskForHumanDecision, Mark, MayMarkBlocked
<1>6. ASSUME NEW u \in Task, UnblockTask(u) PROVE status'[t] = "done"
  BY <1>6 DEF UnblockTask, IsUnblockable, Mark
<1> QED
  BY <1>1, <1>2, <1>3, <1>4, <1>5, <1>6
  DEF DagNext, dagVars, FinishTaskIgnored, ReleaseTaskBackToPending, CancelTask, ReassignTask

\* The action property DoneIsFinal for every graph and limit.
THEOREM DoneTasksStayDone == DagSpec => DoneIsFinal
<1>1. DagTypeOK /\ [DagNext]_dagVars
        => [\A t \in Task : status[t] = "done" => status'[t] = "done"]_dagVars
  BY DoneStep
<1> QED
  BY <1>1, DagTyping, PTL DEF DagSpec, DoneIsFinal

-----------------------------------------------------------------------------

\* A task gets past pending only in ClaimRound, where its dependencies are
\* done, and they stay done.
LEMMA DependenciesStep ==
    DagTypeOK /\ DependenciesFirst /\ [DagNext]_dagVars => DependenciesFirst'
<1> SUFFICES ASSUME DagTypeOK, DependenciesFirst, [DagNext]_dagVars,
                    NEW t \in Task, status'[t] \in {"running", "done"},
                    NEW d \in DependsOn[t]
             PROVE  status'[d] = "done"
  BY DEF DependenciesFirst, InOrder
<1> d \in Task
  BY DependsOnAssumption
<1> SUFFICES status[d] = "done"
  BY DoneStep
<1> USE DEF DagTypeOK, DependenciesFirst, InOrder
<1>1. ASSUME NEW S \in SUBSET Task, ClaimRound(S) PROVE status[d] = "done"
  BY <1>1 DEF ClaimRound, IsRoundPick, Candidates, Runnable
<1>2. ASSUME NEW u \in Task, FinishTaskDone(u) PROVE status[d] = "done"
  BY <1>2 DEF FinishTaskDone, Mark, MayMarkDone
<1>3. ASSUME NEW u \in Task, FinishTaskFailed(u) PROVE status[d] = "done"
  BY <1>3 DEF FinishTaskFailed, Mark, PropagateFailure
<1>4. ASSUME NEW u \in Task, BackToPending(u) PROVE status[d] = "done"
  BY <1>4 DEF BackToPending, Mark
<1>5. ASSUME NEW u \in Task, BlockTaskForHumanDecision(u) PROVE status[d] = "done"
  BY <1>5 DEF BlockTaskForHumanDecision, Mark
<1>6. ASSUME NEW u \in Task, UnblockTask(u) PROVE status[d] = "done"
  BY <1>6 DEF UnblockTask, Mark
<1> QED
  BY <1>1, <1>2, <1>3, <1>4, <1>5, <1>6
  DEF DagNext, dagVars, FinishTaskIgnored, ReleaseTaskBackToPending, CancelTask, ReassignTask

\* No task ever runs, or counts as done, before its dependencies are done.
THEOREM DependenciesComeFirst == DagSpec => []DependenciesFirst
<1>1. DagInit => DependenciesFirst
  BY ChainsAssumption DEF DagInit, DependenciesFirst
<1> QED
  BY <1>1, DependenciesStep, DagTyping, PTL DEF DagSpec

-----------------------------------------------------------------------------

\* Giving claims back, or adding the picks of a round, respects the limit.
LEMMA ConcurrencyStep ==
    DagTypeOK /\ WithinConcurrency /\ [DagNext]_dagVars => WithinConcurrency'
<1> SUFFICES ASSUME DagTypeOK, WithinConcurrency, [DagNext]_dagVars
             PROVE  WithinConcurrency'
  OBVIOUS
<1>1. IsFiniteSet(claimed) /\ Cardinality(claimed) \in Nat /\ Concurrency \in Nat
  BY TaskAssumption, ConcurrencyAssumption, FS_Subset, FS_CardinalityType DEF DagTypeOK
<1>2. CASE claimed' \subseteq claimed
  BY <1>1, <1>2, FS_Subset, FS_CardinalityType DEF WithinConcurrency
<1>3. ASSUME NEW S \in SUBSET Task, ClaimRound(S) PROVE WithinConcurrency'
  <2>1. IsFiniteSet(S) /\ Cardinality(S) \in Nat
    BY TaskAssumption, FS_Subset, FS_CardinalityType
  <2>2. S \cap claimed = {}
    BY <1>3 DEF ClaimRound, IsRoundPick, Candidates
  <2>3. Cardinality(claimed \cup S) = Cardinality(claimed) + Cardinality(S)
    <3>1. Cardinality(claimed \cup S)
            = Cardinality(claimed) + Cardinality(S) - Cardinality(claimed \cap S)
      BY <1>1, <2>1, FS_Union
    <3>2. Cardinality(claimed \cap S) = 0
      BY <2>2, FS_EmptySet
    <3> QED
      BY <1>1, <2>1, <3>1, <3>2
  <2> QED
    BY <1>1, <1>3, <2>1, <2>3 DEF ClaimRound, IsRoundPick, WithinConcurrency
<1> QED
  BY <1>2, <1>3
  DEF DagNext, dagVars, FinishTaskDone, FinishTaskFailed, FinishTaskIgnored, BackToPending,
      ReleaseTaskBackToPending, CancelTask, ReassignTask, BlockTaskForHumanDecision, UnblockTask

\* The claims never exceed the configured concurrency.
THEOREM ConcurrencyIsRespected == DagSpec => []WithinConcurrency
<1>1. DagInit => WithinConcurrency
  BY FS_EmptySet, ConcurrencyAssumption DEF DagInit, WithinConcurrency
<1> QED
  BY <1>1, ConcurrencyStep, DagTyping, PTL DEF DagSpec
=============================================================================
