----------------------- MODULE MissionOrchestratorProofs -----------------------
(***************************************************************************)
(* The orchestrator implements the scheduler's specification, and its      *)
(* writes and wake-ups are right, for every graph, every limit and every   *)
(* number of workers, instructions and failures.                           *)
(*                                                                         *)
(* Most of the actions do one of a few things to the variables the         *)
(* invariants speak about: lemma StepKinds sorts them, and the invariants  *)
(* are proved kind by kind.                                                *)
(***************************************************************************)
EXTENDS MissionOrchestrator, DagSchedulerProofs

\* What is known before the order of the writes is looked at.
Typed == TypeOK /\ WorkersHaveTasks /\ CallsAreWellFormed /\ ClaimedAreRunning

WorkerRejection == {"block", "fail", "swallow", "unhandled"}

ResumeTyped == earlyStop \in SUBSET Task /\ resumes \in [Task -> 0..2]

\* A settling worker either changes the graph and queues a write, or leaves
\* the graph alone and wakes the loop.
SettlesByWriting(w) ==
    /\ DagNext
    /\ \E onRejection \in WorkerRejection : waiting' = Append(waiting, Write(w, onRejection))
    /\ MoveWorker(w, "settling")
    /\ UNCHANGED loop

SettlesQuietly(w) ==
    /\ UNCHANGED <<status, claimed, waiting>>
    /\ \E next \in {"gone", "reviewing", "rejected"} : MoveWorker(w, next)
    /\ Wake \/ UNCHANGED loop

Settles(w) == ResumeTyped' /\ (SettlesByWriting(w) \/ SettlesQuietly(w))

\* A claim of a task that cannot be made pending, or be blocked, does not exist:
\* the operation whose transition throws changes nothing.
LEMMA ThrowChangesNothing ==
    ASSUME Typed, NEW t \in Task
    PROVE  /\ BackToPending(t) /\ ~MayMarkPendingForRetry(status, t)
                => UNCHANGED <<status, claimed>>
           /\ BlockTaskForHumanDecision(t) /\ ~MayMarkBlocked(status, t)
                => UNCHANGED <<status, claimed>>
<1>1. claimed \in SUBSET Task /\ (t \in claimed => status[t] = "running")
  BY DEF Typed, TypeOK, DagTypeOK, ClaimedAreRunning
<1> QED
  BY <1>1 DEF BackToPending, BlockTaskForHumanDecision, MayMarkPendingForRetry, MayMarkBlocked

\* A bounded continuation (ResumeTask) is a way for a worker to settle.
LEMMA ResumeSettles ==
    ASSUME Typed, NEW w \in Worker, NEW t \in Task, ResumeTask(w, t)
    PROVE  Settles(w)
<1>1. ResumeTyped'
  BY DEF Typed, TypeOK, ResumeTyped, ResumeTask, MayResume
<1>2. CASE MayMarkPendingForRetry(status, t)
  BY <1>1, <1>2 DEF ResumeTask, Settles, SettlesByWriting, AwaitsWrite, PersistChain, DagNext,
                    WorkerRejection
<1>3. CASE ~MayMarkPendingForRetry(status, t)
  BY <1>1, <1>3, ThrowChangesNothing
  DEF ResumeTask, ReleaseTaskBackToPending, Settles, SettlesQuietly, EndsWithoutWrite
<1> QED
  BY <1>2, <1>3

\* So is the handling of a failure, continued or not, by handleWorkerOutcome.
LEMMA FailureSettles ==
    ASSUME Typed, NEW w \in Worker, NEW t \in Task, NEW onRejection \in WorkerRejection,
           HandleFailure(w, t, onRejection)
    PROVE  Settles(w)
<1>1. CASE ResumeTask(w, t)
  BY <1>1, ResumeSettles
<1>2. CASE ~ResumeTask(w, t)
  <2>1. ResumeTyped'
    BY <1>2 DEF Typed, TypeOK, ResumeTyped, HandleFailure, resumeVars
  <2>2. CASE FinishTaskFailed(t) /\ AwaitsWrite(w, onRejection)
    BY <2>1, <2>2 DEF Settles, SettlesByWriting, AwaitsWrite, PersistChain, DagNext
  <2>3. CASE FinishTaskIgnored(t) /\ EndsWithoutWrite(w)
    BY <2>1, <2>3 DEF Settles, SettlesQuietly, EndsWithoutWrite, FinishTaskIgnored, dagVars
  <2> QED
    BY <1>2, <2>2, <2>3 DEF HandleFailure
<1> QED
  BY <1>1, <1>2

\* So is a task blocked for a person where the transition may throw.
LEMMA BlockSettles ==
    ASSUME Typed, NEW w \in Worker, NEW t \in Task, NEW onRejection \in WorkerRejection,
           BlockQuietly(w, t, onRejection)
    PROVE  Settles(w)
<1>1. ResumeTyped'
  BY DEF Typed, TypeOK, ResumeTyped, BlockQuietly, resumeVars
<1>2. CASE MayMarkBlocked(status, t)
  BY <1>1, <1>2 DEF BlockQuietly, Settles, SettlesByWriting, AwaitsWrite, PersistChain, DagNext
<1>3. CASE ~MayMarkBlocked(status, t)
  BY <1>1, <1>3, ThrowChangesNothing DEF BlockQuietly, Settles, SettlesQuietly, EndsWithoutWrite
<1> QED
  BY <1>2, <1>3

\* So is the handling of a success, whose result may be ignored.
LEMMA SuccessSettles ==
    ASSUME Typed, NEW w \in Worker, NEW t \in Task, HandleSuccess(w, t)
    PROVE  Settles(w)
<1>1. ResumeTyped'
  BY DEF Typed, TypeOK, ResumeTyped, HandleSuccess, resumeVars
<1>2. CASE FinishTaskDone(t) /\ AwaitsWrite(w, "block")
  BY <1>1, <1>2 DEF Settles, SettlesByWriting, AwaitsWrite, PersistChain, DagNext, WorkerRejection
<1>3. CASE FinishTaskIgnored(t) /\ EndsWithoutWrite(w)
  BY <1>1, <1>3 DEF Settles, SettlesQuietly, EndsWithoutWrite, FinishTaskIgnored, dagVars
<1> QED
  BY <1>2, <1>3 DEF HandleSuccess

\* Whatever worker.run() reports, its handling settles the worker or sends it
\* to the review.
LEMMA OutcomeSettles ==
    ASSUME Typed, NEW w \in Worker, NEW t \in Task, NEW outcome, HandleOutcome(w, t, outcome)
    PROVE  Settles(w)
<1>0. "fail" \in WorkerRejection /\ "unhandled" \in WorkerRejection
  BY DEF WorkerRejection
<1>1. UNCHANGED resumeVars => ResumeTyped'
  BY DEF Typed, TypeOK, ResumeTyped, resumeVars
<1>2. CASE HandleFailure(w, t, "fail") \/ HandleFailure(w, t, "unhandled")
  BY <1>0, <1>2, FailureSettles
<1>3. CASE ResumeTask(w, t)
  BY <1>3, ResumeSettles
<1>4. CASE HandleSuccess(w, t)
  BY <1>4, SuccessSettles
<1>5. CASE BlockTaskForHumanDecision(t) /\ AwaitsWrite(w, "fail") /\ UNCHANGED resumeVars
  BY <1>0, <1>1, <1>5 DEF Settles, SettlesByWriting, AwaitsWrite, PersistChain, DagNext
<1>6. CASE ReleaseTaskBackToPending(t) /\ AwaitsWrite(w, "fail") /\ UNCHANGED resumeVars
  BY <1>0, <1>1, <1>6 DEF Settles, SettlesByWriting, AwaitsWrite, PersistChain, DagNext
<1>7. CASE MoveWorker(w, "reviewing") /\ UNCHANGED <<dagVars, loop, waiting, resumeVars>>
  BY <1>1, <1>7 DEF Settles, SettlesQuietly, dagVars
<1> QED
  BY <1>2, <1>3, <1>4, <1>5, <1>6, <1>7 DEF HandleOutcome, HandleQuestion, HandleCancelled

-----------------------------------------------------------------------------
(* The kinds of steps.                                                      *)

\* Nothing that a write depends on changes; the loop may move, but goes to
\* sleep only if there is no work for a round.
Quiet ==
    /\ UNCHANGED <<status, claimed, waiting, holder, disk, storeFailures>>
    /\ \/ UNCHANGED loop
       \/ loop # "persisting" /\ loop' \in {"ready", "scheduling", "done", "cancelled"}
       \/ loop # "persisting" /\ loop' = "sleeping" /\ ~WorkForRound

IsWorkerCall(call) == call.worker \in Worker /\ call.onRejection \in WorkerRejection

\* The graph changes and a write of it is queued.
Appends ==
    /\ DagNext
    /\ \E call \in WriteCall :
          /\ \/ call = Write(NoWorker, "escalate")
             \/ IsWorkerCall(call) /\ phase'[call.worker] = "settling"
          /\ waiting' = Append(waiting, call)
    /\ UNCHANGED <<loop, holder, disk, storeFailures>>

\* Only a step of LaunchStarting or of a worker changes a phase, and none makes
\* a worker unborn.
NoneUnborn == \A w \in Worker : phase[w] # "unborn" => phase'[w] # "unborn"

\* A step that at most wakes the loop, and touches nothing a write depends on, is
\* quiet.
LEMMA WakeIsQuiet ==
    ASSUME Wake \/ UNCHANGED loop,
           UNCHANGED <<status, claimed, waiting, holder, disk, storeFailures>>
    PROVE  Quiet
BY DEF Quiet, Wake

\* A settling worker appends one write of its own or none at all, and wakes the
\* loop in the second case.
LEMMA SettlingKind ==
    ASSUME Typed, NEW w \in Worker, Settles(w), UNCHANGED <<holder, disk, storeFailures>>
    PROVE  Quiet \/ Appends
<1>1. CASE SettlesQuietly(w)
  BY <1>1, WakeIsQuiet DEF SettlesQuietly
<1>2. CASE SettlesByWriting(w)
  <2> DEFINE call(onRejection) == Write(w, onRejection)
  <2>1. PICK onRejection \in WorkerRejection : waiting' = Append(waiting, call(onRejection))
    BY <1>2 DEF SettlesByWriting
  <2>2. call(onRejection) \in WriteCall /\ IsWorkerCall(call(onRejection))
    BY DEF WriteCall, Write, IsWorkerCall, WorkerRejection, OnRejection
  <2>3. phase'[w] = "settling"
    BY <1>2 DEF SettlesByWriting, MoveWorker, Typed, TypeOK
  <2>4. call(onRejection).worker = w
    BY DEF Write
  <2> QED
    BY <1>2, <2>1, <2>2, <2>3, <2>4 DEF SettlesByWriting, Appends
<1> QED
  BY <1>1, <1>2 DEF Settles

\* A worker that settles has a task.
LEMMA WorkersTask ==
    ASSUME Typed, NEW w \in Worker, phase[w] # "unborn"
    PROVE  taskOf[w] \in Task
BY DEF Typed, WorkersHaveTasks

\* A step of a worker queues one write or leaves the graph and the queue alone.
LEMMA WorkerKind ==
    ASSUME Typed, NEW w \in Worker, WorkerStep(w)
    PROVE  Quiet \/ Appends
<1> DEFINE t == taskOf[w]
<1>1. CASE LaunchSucceeds(w) \/ LaunchFails(w) \/ EarlyStopDetected(w)
  BY <1>1 DEF LaunchSucceeds, LaunchFails, EarlyStopDetected, Quiet, dagVars, loopVars, storeVars,
              boundVars
<1>2. ASSUME NEW outcome \in Outcome, WorkerReturns(w, outcome) PROVE Quiet \/ Appends
  <2>1. t \in Task
    BY <1>2, WorkersTask DEF WorkerReturns
  <2> QED
    BY <1>2, <2>1, OutcomeSettles, SettlingKind DEF WorkerReturns, boundVars
<1>3. CASE ReviewAccepts(w)
  <2>1. t \in Task
    BY <1>3, WorkersTask DEF ReviewAccepts
  <2> QED
    BY <1>3, <2>1, SuccessSettles, SettlingKind DEF ReviewAccepts, boundVars
<1>4. ASSUME NEW onRejection \in WorkerRejection, ReviewRefuses(w, onRejection)
      PROVE  Quiet \/ Appends
  <2>1. t \in Task
    BY <1>4, WorkersTask DEF ReviewRefuses
  <2> QED
    BY <1>4, <2>1, BlockSettles, SettlingKind DEF ReviewRefuses, boundVars
<1> QED
  BY <1>1, <1>2, <1>3, <1>4 DEF WorkerStep, WorkerRejection

\* An instruction that changes the graph queues exactly one write.
LEMMA EscalatingWriteAppends ==
    ASSUME DagNext, PersistChain(NoWorker, "escalate"), UNCHANGED <<loop, holder, disk, storeFailures>>
    PROVE  Appends
<1>1. Write(NoWorker, "escalate") \in WriteCall
  BY DEF Write, WriteCall, OnRejection
<1>2. waiting' = Append(waiting, Write(NoWorker, "escalate"))
  BY DEF PersistChain
<1> QED
  BY <1>1, <1>2 DEF Appends

\* An instruction queues a write, or leaves the graph alone.
LEMMA InstructionKind ==
    ASSUME Typed, NEW t \in Task, Instruction(t)
    PROVE  Quiet \/ Appends
<1>1. UNCHANGED <<holder, disk, storeFailures>>
  BY DEF Instruction
<1>2. CASE UnblockTask(t) /\ PersistChain(NoWorker, "escalate") /\ UNCHANGED loop
  <2>1. DagNext
    BY <1>2 DEF DagNext
  <2> QED
    BY <1>1, <1>2, <2>1, EscalatingWriteAppends
<1>3. CASE ~IsUnblockable(t) /\ Wake /\ UNCHANGED <<dagVars, waiting>>
  BY <1>1, <1>3, WakeIsQuiet DEF dagVars
<1>4. ASSUME BackToPending(t), UNCHANGED loop,
             IF MayMarkPendingForRetry(status, t)
             THEN PersistChain(NoWorker, "escalate") ELSE UNCHANGED waiting
      PROVE  Quiet \/ Appends
  <2>1. CASE MayMarkPendingForRetry(status, t)
    <3>1. DagNext
      BY <1>4 DEF DagNext, CancelTask
    <3> QED
      BY <1>1, <1>4, <2>1, <3>1, EscalatingWriteAppends
  <2>2. CASE ~MayMarkPendingForRetry(status, t)
    BY <1>1, <1>4, <2>2, ThrowChangesNothing, WakeIsQuiet
  <2> QED
    BY <2>1, <2>2
<1> QED
  BY <1>2, <1>3, <1>4 DEF Instruction, Unblock, Reconsider, ReassignTask, CancelTask

\* What the end of a rejected write does to its worker is a way of settling.
LEMMA RejectedWorkerSettles ==
    ASSUME Typed, NEW w \in Worker, phase[w] # "unborn",
           NEW onRejection, WorkerIsRejected(w, onRejection)
    PROVE  Settles(w)
<1>1. taskOf[w] \in Task
  BY WorkersTask
<1>2. "swallow" \in WorkerRejection /\ "unhandled" \in WorkerRejection
  BY DEF WorkerRejection
<1>3. CASE BlockQuietly(w, taskOf[w], "swallow")
  BY <1>1, <1>2, <1>3, BlockSettles
<1>4. CASE HandleFailure(w, taskOf[w], "unhandled")
  BY <1>1, <1>2, <1>4, FailureSettles
<1>5. CASE /\ \E next \in {"gone", "rejected"} : MoveWorker(w, next)
           /\ Wake
           /\ UNCHANGED <<dagVars, resumeVars, waiting>>
  <2>1. ResumeTyped'
    BY <1>5 DEF Typed, TypeOK, ResumeTyped, resumeVars
  <2> QED
    BY <1>5, <2>1 DEF Settles, SettlesQuietly, dagVars
<1> QED
  BY <1>3, <1>4, <1>5 DEF WorkerIsRejected

\* A rejected write: the loop crashes, nothing happens, or a worker settles.
LEMMA RejectionKind ==
    ASSUME Typed, ChainRejected
    PROVE  /\ storeFailures' = storeFailures + 1
           /\ holder' = {}
           /\ \E write \in holder : disk' = disk \/ disk' = write.document
           /\ \/ /\ \/ UNCHANGED loop
                    \/ loop' = "crashed" /\ \E write \in holder : IsRoundCall(write.call)
                 /\ UNCHANGED <<dagVars, phase, waiting, resumeVars>>
                 /\ UNCHANGED starting
              \/ /\ \E w \in Worker : Settles(w)
                 /\ UNCHANGED starting
<1>1. PICK write \in holder :
        /\ disk' \in {disk, write.document}
        /\ \/ /\ write.call.onRejection = "crash"
              /\ loop' = "crashed" /\ UNCHANGED starting
              /\ UNCHANGED <<dagVars, phase, resumeVars, waiting>>
           \/ /\ write.call.onRejection = "escalate"
              /\ UNCHANGED <<dagVars, loopVars, phase, resumeVars, waiting>>
           \/ /\ write.call.worker # NoWorker
              /\ WorkerIsRejected(write.call.worker, write.call.onRejection)
              /\ UNCHANGED starting
  BY DEF ChainRejected
<1>2. holder' = {} /\ storeFailures' = storeFailures + 1
  BY DEF ChainRejected
<1>3. write.call \in WriteCall /\ WellFormed(write.call)
  BY DEF Typed, TypeOK, CallsAreWellFormed
<1>4. CASE /\ write.call.worker # NoWorker
           /\ WorkerIsRejected(write.call.worker, write.call.onRejection)
           /\ UNCHANGED starting
  <2>1. write.call.worker \in Worker /\ phase[write.call.worker] # "unborn"
    BY <1>3, <1>4 DEF WriteCall, WellFormed
  <2>2. Settles(write.call.worker)
    BY <1>4, <2>1, RejectedWorkerSettles
  <2> QED
    BY <1>1, <1>2, <1>4, <2>1, <2>2
<1>5. CASE /\ write.call.onRejection = "crash"
           /\ loop' = "crashed" /\ UNCHANGED starting
           /\ UNCHANGED <<dagVars, phase, resumeVars, waiting>>
  BY <1>1, <1>2, <1>5 DEF IsRoundCall
<1>6. CASE /\ write.call.onRejection = "escalate"
           /\ UNCHANGED <<dagVars, loopVars, phase, resumeVars, waiting>>
  <2>1. UNCHANGED loop /\ UNCHANGED starting
    BY <1>6 DEF loopVars
  <2> QED
    BY <1>1, <1>2, <1>6, <2>1
<1> QED
  BY <1>1, <1>4, <1>5, <1>6

\* Every step is of one of these kinds.
LEMMA StepKinds ==
    ASSUME Typed, [Next]_vars
    PROVE  \/ Quiet \/ Appends
           \/ RoundPersists \/ BuildDocument \/ ChainWritten \/ ChainRejected
<1>1. CASE LoopCheck \/ RoundCompletes
  BY <1>1 DEF LoopCheck, RoundCompletes, Quiet, dagVars, storeVars, boundVars
<1>2. CASE RoundIdles
  <2>1. ~WorkForRound
    BY <1>2 DEF RoundIdles, WorkForRound
  <2> QED
    BY <1>2, <2>1 DEF RoundIdles, SleepUntilWake, Quiet, dagVars, storeVars, boundVars
<1>3. ASSUME NEW w \in Worker, WorkerStep(w) PROVE Quiet \/ Appends
  BY <1>3, WorkerKind
<1>4. ASSUME NEW t \in Task, Instruction(t) PROVE Quiet \/ Appends
  BY <1>4, InstructionKind
<1>5. CASE Cancel
  BY <1>5, WakeIsQuiet DEF Cancel, dagVars, storeVars, boundVars
<1>6. CASE CancelStep
  BY <1>6 DEF CancelStep, CancelStopsWaitingForWorkers, CancelGivesUp, CancelReturns,
              CancelProceeds, Quiet, dagVars, loopVars, storeVars, boundVars
<1>7. CASE LeaseLost
  BY <1>7 DEF LeaseLost, Quiet, dagVars, loopVars, storeVars, boundVars
<1>8. CASE UNCHANGED vars
  BY <1>8 DEF vars, Quiet, dagVars, loopVars, storeVars, boundVars
<1> QED
  BY <1>1, <1>2, <1>3, <1>4, <1>5, <1>6, <1>7, <1>8 DEF Next, LoopStep, StoreStep

\* Every step is a step of the scheduler, or leaves the scheduler alone.
LEMMA SchedulerStep ==
    ASSUME Typed, [Next]_vars
    PROVE  [DagNext]_dagVars
<1>1. CASE Quiet
  BY <1>1 DEF Quiet, dagVars
<1>2. CASE Appends
  BY <1>2 DEF Appends
<1>3. CASE RoundPersists
  BY <1>3 DEF RoundPersists, DagNext
<1>4. CASE BuildDocument \/ ChainWritten
  BY <1>4 DEF BuildDocument, ChainWritten, dagVars
<1>5. CASE ChainRejected
  <2>1. UNCHANGED dagVars \/ \E w \in Worker : Settles(w)
    BY <1>5, RejectionKind
  <2> QED
    BY <2>1 DEF Settles, SettlesByWriting, SettlesQuietly, dagVars
<1> QED
  BY <1>1, <1>2, <1>3, <1>4, <1>5, StepKinds

-----------------------------------------------------------------------------
(* Types.                                                                   *)

\* A settling worker leaves every variable in its type: resumes never passes 2.
LEMMA SettlingIsTyped ==
    ASSUME Typed, NEW w \in Worker, Settles(w)
    PROVE  /\ loop' \in LoopState
           /\ phase' \in [Worker -> Phase]
           /\ waiting' \in Seq(WriteCall)
           /\ earlyStop' \in SUBSET Task /\ resumes' \in [Task -> 0..2]
<1>1. loop \in LoopState /\ phase \in [Worker -> Phase] /\ waiting \in Seq(WriteCall)
  BY DEF Typed, TypeOK
<1>2. ResumeTyped'
  BY DEF Settles
<1>3. CASE SettlesByWriting(w)
  <2>1. \A onRejection \in WorkerRejection : Write(w, onRejection) \in WriteCall
    BY DEF Write, WriteCall, WorkerRejection, OnRejection
  <2> QED
    BY <1>1, <1>2, <1>3, <2>1 DEF SettlesByWriting, MoveWorker, Phase, ResumeTyped
<1>4. CASE SettlesQuietly(w)
  BY <1>1, <1>2, <1>4 DEF SettlesQuietly, MoveWorker, Phase, ResumeTyped, Wake, LoopState
<1> QED
  BY <1>3, <1>4 DEF Settles

\* The launch of a round leaves every variable in its type.
LEMMA LaunchingIsTyped ==
    ASSUME Typed, LaunchStarting
    PROVE  /\ loop' \in LoopState /\ starting' \in SUBSET Task
           /\ workerCount' \in Nat
           /\ taskOf' \in [Worker -> Task \cup {NoTask}]
           /\ phase' \in [Worker -> Phase]
           /\ inFlight' \in SUBSET Task
<1> USE DEF Typed, TypeOK, LaunchStarting
<1>1. loop' \in LoopState
  BY DEF SleepUntilWake, LoopState
<1>2. workerCount' \in Nat
  <2>1. Cardinality(starting) \in Nat
    BY TaskAssumption, FS_Subset, FS_CardinalityType
  <2> QED
    BY <2>1
<1>3. taskOf' \in [Worker -> Task \cup {NoTask}]
  OBVIOUS
<1>4. phase' \in [Worker -> Phase]
  BY DEF Phase
<1> QED
  BY <1>1, <1>2, <1>3, <1>4

\* Every step preserves the type invariant.
LEMMA TypeStep ==
    ASSUME Typed, [Next]_vars
    PROVE  TypeOK'
<1>0. DagTypeOK'
  BY SchedulerStep, TypingStep DEF Typed, TypeOK
<1> USE DEF Typed, TypeOK
<1>1. CASE LoopCheck \/ RoundCompletes \/ RoundIdles
  BY <1>0, <1>1 DEF LoopCheck, RoundCompletes, RoundIdles, SleepUntilWake, LoopState,
                    workerVars, resumeVars, storeVars, cancelVars, boundVars
<1>2. CASE RoundPersists
  <2>1. Write(NoWorker, "crash") \in WriteCall
    BY DEF Write, WriteCall, OnRejection
  <2>2. waiting' \in Seq(WriteCall)
    BY <1>2, <2>1 DEF RoundPersists, PersistChain
  <2> QED
    BY <1>0, <1>2, <2>2 DEF RoundPersists, LoopState, workerVars, resumeVars, cancelVars, boundVars
<1>3. ASSUME NEW w \in Worker, WorkerStep(w) PROVE TypeOK'
  <2>1. CASE LaunchSucceeds(w)
    BY <1>0, <2>1 DEF LaunchSucceeds, MoveWorker, Phase, loopVars, resumeVars, storeVars,
                      cancelVars, boundVars
  <2>2. CASE LaunchFails(w)
    BY <1>0, <2>2, OrchestratorAssumption
    DEF LaunchFails, MoveWorker, Phase, loopVars, resumeVars, storeVars, cancelVars
  <2>3. CASE EarlyStopDetected(w)
    <3>1. taskOf[w] \in Task
      BY <2>3, WorkersTask DEF EarlyStopDetected
    <3> QED
      BY <1>0, <2>3, <3>1 DEF EarlyStopDetected, MoveWorker, Phase, loopVars, storeVars,
                              cancelVars, boundVars
  <2>4. ASSUME Settles(w), UNCHANGED <<starting, workerCount, taskOf, holder, disk,
                                       cancelVars, boundVars>>,
               inFlight' \in SUBSET Task
        PROVE  TypeOK'
    BY <1>0, <2>4, SettlingIsTyped DEF cancelVars, boundVars
  <2>5. ASSUME NEW outcome \in Outcome, WorkerReturns(w, outcome) PROVE TypeOK'
    <3>1. taskOf[w] \in Task
      BY <2>5, WorkersTask DEF WorkerReturns
    <3>2. Settles(w)
      BY <2>5, <3>1, OutcomeSettles DEF WorkerReturns
    <3> QED
      BY <2>4, <2>5, <3>2 DEF WorkerReturns
  <2>6. CASE ReviewAccepts(w)
    <3>1. taskOf[w] \in Task
      BY <2>6, WorkersTask DEF ReviewAccepts
    <3>2. Settles(w)
      BY <2>6, <3>1, SuccessSettles DEF ReviewAccepts
    <3> QED
      BY <2>4, <2>6, <3>2 DEF ReviewAccepts
  <2>7. ASSUME NEW onRejection \in WorkerRejection, ReviewRefuses(w, onRejection) PROVE TypeOK'
    <3>1. taskOf[w] \in Task
      BY <2>7, WorkersTask DEF ReviewRefuses
    <3>2. Settles(w)
      BY <2>7, <3>1, BlockSettles DEF ReviewRefuses
    <3> QED
      BY <2>4, <2>7, <3>2 DEF ReviewRefuses
  <2> QED
    BY <1>3, <2>1, <2>2, <2>3, <2>5, <2>6, <2>7 DEF WorkerStep, WorkerRejection
<1>4. ASSUME NEW t \in Task, Instruction(t) PROVE TypeOK'
  <2>1. waiting' \in Seq(WriteCall) /\ loop' \in LoopState
    <3>1. CASE Quiet
      BY <3>1 DEF Quiet, LoopState
    <3>2. CASE Appends
      BY <3>2 DEF Appends
    <3> QED
      BY <1>4, <3>1, <3>2, InstructionKind
  <2> QED
    BY <1>0, <1>4, <2>1, OrchestratorAssumption
    DEF Instruction, workerVars, resumeVars, cancelVars
<1>5. CASE BuildDocument
  <2>1. Head(waiting) \in WriteCall /\ Tail(waiting) \in Seq(WriteCall)
    BY <1>5 DEF BuildDocument
  <2> QED
    BY <1>0, <1>5, <2>1 DEF BuildDocument, DagTypeOK, loopVars, workerVars, resumeVars,
                            cancelVars, boundVars
<1>6. CASE ChainWritten
  <2>1. PICK write \in holder :
          /\ disk' = write.document
          /\ ReturnFrom(write.call)
    BY <1>6 DEF ChainWritten
  <2>2. disk' \in [Task -> Status]
    BY <2>1
  <2>3. UNCHANGED <<resumeVars, waiting, cancelVars, boundVars>> /\ holder' = {}
    BY <1>6 DEF ChainWritten
  <2>4. CASE LaunchStarting
    BY <1>0, <2>2, <2>3, <2>4, LaunchingIsTyped DEF resumeVars, cancelVars, boundVars
  <2>5. CASE Wake /\ UNCHANGED <<starting, workerVars>>
    BY <1>0, <2>2, <2>3, <2>5 DEF resumeVars, cancelVars, boundVars, workerVars, Wake, LoopState
  <2>6. CASE /\ MoveWorker(write.call.worker, "gone")
             /\ Wake
             /\ UNCHANGED <<starting, workerCount, taskOf, inFlight>>
    <3>1. phase' \in [Worker -> Phase] /\ loop' \in LoopState
      BY <2>6 DEF MoveWorker, Phase, Wake, LoopState
    <3> QED
      BY <1>0, <2>2, <2>3, <2>6, <3>1 DEF resumeVars, cancelVars, boundVars
  <2> QED
    BY <2>1, <2>4, <2>5, <2>6 DEF ReturnFrom
<1>7. CASE ChainRejected
  <2>1. disk' \in [Task -> Status] /\ holder' = {} /\ storeFailures' \in 0..MaxStoreFailures
    BY <1>7, RejectionKind, OrchestratorAssumption DEF ChainRejected
  <2>2. UNCHANGED <<workerCount, taskOf, inFlight, cancelVars, instructions, launchFailures>>
    BY <1>7 DEF ChainRejected
  <2>3. /\ loop' \in LoopState /\ phase' \in [Worker -> Phase] /\ waiting' \in Seq(WriteCall)
        /\ earlyStop' \in SUBSET Task /\ resumes' \in [Task -> 0..2] /\ starting' \in SUBSET Task
    BY <1>7, RejectionKind, SettlingIsTyped DEF LoopState, resumeVars
  <2> QED
    BY <1>0, <2>1, <2>2, <2>3 DEF cancelVars
<1>8. CASE Cancel \/ CancelStep \/ LeaseLost \/ UNCHANGED vars
  BY <1>0, <1>8
  DEF Cancel, Wake, LoopState, CancelStep, CancelStopsWaitingForWorkers, CancelGivesUp, CancelReturns,
      CancelProceeds, LeaseLost, vars, loopVars, workerVars, resumeVars, storeVars, cancelVars, boundVars
<1> QED
  BY <1>1, <1>2, <1>3, <1>4, <1>5, <1>6, <1>7, <1>8 DEF Next, LoopStep, StoreStep

\* A worker gets its task with its first phase and keeps both: it never becomes
\* unborn again.
LEMMA WorkersStep ==
    ASSUME Typed, [Next]_vars
    PROVE  NoneUnborn /\ WorkersHaveTasks'
<1>0. phase \in [Worker -> Phase] /\ WorkersHaveTasks
  BY DEF Typed, TypeOK
<1> DEFINE Moves(w) == /\ UNCHANGED taskOf
                       /\ phase[w] # "unborn"
                       /\ \E next \in Phase \ {"unborn"} : MoveWorker(w, next)
<1>1. ASSUME NEW w \in Worker, Moves(w) PROVE NoneUnborn /\ WorkersHaveTasks'
  BY <1>0, <1>1 DEF NoneUnborn, WorkersHaveTasks, MoveWorker
<1>2. CASE UNCHANGED <<taskOf, phase>>
  BY <1>0, <1>2 DEF NoneUnborn, WorkersHaveTasks
<1>3. CASE LaunchStarting
  BY <1>0, <1>3 DEF LaunchStarting, NoneUnborn, WorkersHaveTasks, Typed, TypeOK
<1>4. ASSUME NEW w \in Worker, Settles(w), phase[w] # "unborn", UNCHANGED taskOf PROVE Moves(w)
  BY <1>4 DEF Settles, SettlesByWriting, SettlesQuietly, Phase
<1>5. ASSUME NEW w \in Worker, WorkerStep(w) PROVE Moves(w)
  <2>1. phase[w] # "unborn" /\ UNCHANGED taskOf
    BY <1>5 DEF WorkerStep, LaunchSucceeds, LaunchFails, EarlyStopDetected, WorkerReturns,
                ReviewAccepts, ReviewRefuses
  <2>2. taskOf[w] \in Task
    BY <2>1, WorkersTask
  <2>3. CASE LaunchSucceeds(w) \/ LaunchFails(w) \/ EarlyStopDetected(w)
    BY <2>1, <2>3 DEF LaunchSucceeds, LaunchFails, EarlyStopDetected, Phase
  <2>4. ASSUME NEW outcome \in Outcome, WorkerReturns(w, outcome) PROVE Settles(w)
    BY <2>2, <2>4, OutcomeSettles DEF WorkerReturns
  <2>5. CASE ReviewAccepts(w)
    BY <1>4, <2>1, <2>2, <2>5, SuccessSettles DEF ReviewAccepts
  <2>6. ASSUME NEW onRejection \in WorkerRejection, ReviewRefuses(w, onRejection) PROVE Settles(w)
    BY <2>2, <2>6, BlockSettles DEF ReviewRefuses
  <2> QED
    BY <1>4, <1>5, <2>1, <2>3, <2>4, <2>5, <2>6 DEF WorkerStep, WorkerRejection
<1>6. CASE ChainWritten
  <2>1. PICK write \in holder :
          \/ LaunchStarting
          \/ UNCHANGED <<starting, workerVars>>
          \/ /\ write.call.worker # NoWorker
             /\ MoveWorker(write.call.worker, "gone")
             /\ UNCHANGED <<starting, workerCount, taskOf, inFlight>>
    BY <1>6 DEF ChainWritten, ReturnFrom
  <2>2. write.call \in WriteCall /\ WellFormed(write.call)
    BY DEF Typed, TypeOK, CallsAreWellFormed
  <2>3. CASE /\ write.call.worker # NoWorker
             /\ MoveWorker(write.call.worker, "gone")
             /\ UNCHANGED <<starting, workerCount, taskOf, inFlight>>
    <3>1. write.call.worker \in Worker /\ phase[write.call.worker] # "unborn"
      BY <2>2, <2>3 DEF WellFormed, WriteCall
    <3>2. Moves(write.call.worker)
      BY <2>3, <3>1 DEF Phase
    <3> QED
      BY <1>1, <3>1, <3>2
  <2> QED
    BY <1>2, <1>3, <2>1, <2>3 DEF workerVars
<1>7. CASE ChainRejected
  <2>1. PICK write \in holder :
          \/ UNCHANGED phase
          \/ /\ write.call.worker # NoWorker
             /\ WorkerIsRejected(write.call.worker, write.call.onRejection)
    BY <1>7 DEF ChainRejected
  <2>2. UNCHANGED taskOf
    BY <1>7 DEF ChainRejected
  <2>3. write.call \in WriteCall /\ WellFormed(write.call)
    BY DEF Typed, TypeOK, CallsAreWellFormed
  <2>4. CASE /\ write.call.worker # NoWorker
             /\ WorkerIsRejected(write.call.worker, write.call.onRejection)
    <3>1. write.call.worker \in Worker /\ phase[write.call.worker] # "unborn"
      BY <2>3, <2>4 DEF WellFormed, WriteCall
    <3>2. Settles(write.call.worker)
      BY <2>4, <3>1, RejectedWorkerSettles
    <3> QED
      BY <1>1, <1>4, <2>2, <3>1, <3>2
  <2> QED
    BY <1>2, <2>1, <2>2, <2>4
<1>8. CASE LoopStep \/ BuildDocument \/ Cancel \/ CancelStep \/ LeaseLost \/ UNCHANGED vars
  BY <1>2, <1>8
  DEF LoopStep, LoopCheck, RoundCompletes, RoundPersists, RoundIdles, BuildDocument, Cancel, CancelStep,
      CancelStopsWaitingForWorkers, CancelGivesUp, CancelReturns, CancelProceeds, LeaseLost, vars,
      workerVars
<1>9. ASSUME NEW t \in Task, Instruction(t) PROVE NoneUnborn /\ WorkersHaveTasks'
  BY <1>2, <1>9 DEF Instruction, workerVars
<1> QED
  BY <1>1, <1>5, <1>6, <1>7, <1>8, <1>9 DEF Next, StoreStep

-----------------------------------------------------------------------------
(* What happens to the queue of writes.                                     *)

\* Calls leave the queue at its head, enter the mutex from there, and only a
\* round and a settling worker or an instruction add one, at the end.
LEMMA QueueStep ==
    ASSUME Typed, [Next]_vars
    PROVE  /\ waiting' \in Seq(WriteCall)
           /\ \/ UNCHANGED waiting
              \/ waiting # <<>> /\ waiting' = Tail(waiting)
                   /\ holder' = {[call |-> Head(waiting), document |-> status]}
              \/ RoundPersists /\ waiting' = Append(waiting, Write(NoWorker, "crash"))
              \/ \E call \in WriteCall :
                    /\ ~IsRoundCall(call) /\ WellFormed(call)'
                    /\ call.worker # NoWorker => phase'[call.worker] = "settling"
                    /\ waiting' = Append(waiting, call)
           /\ holder' \in {holder, {}} \/ BuildDocument
<1> DEFINE Adds == \E call \in WriteCall : /\ ~IsRoundCall(call) /\ WellFormed(call)'
                                           /\ call.worker # NoWorker => phase'[call.worker] = "settling"
                                           /\ waiting' = Append(waiting, call)
<1>0. waiting' \in Seq(WriteCall)
  BY TypeStep DEF TypeOK
<1>1. CASE Quiet
  BY <1>0, <1>1 DEF Quiet
<1>2. CASE Appends
  <2>1. PICK call \in WriteCall :
          /\ \/ call = Write(NoWorker, "escalate")
             \/ IsWorkerCall(call) /\ phase'[call.worker] = "settling"
          /\ waiting' = Append(waiting, call)
    BY <1>2 DEF Appends
  <2>2. /\ ~IsRoundCall(call) /\ WellFormed(call)'
        /\ call.worker # NoWorker => phase'[call.worker] = "settling"
    BY <2>1 DEF IsRoundCall, WellFormed, Write, IsWorkerCall, WorkerRejection, Worker, NoWorker
  <2>3. Adds
    BY <2>1, <2>2
  <2> QED
    BY <1>0, <1>2, <2>3 DEF Appends
<1>3. CASE RoundPersists
  BY <1>0, <1>3 DEF RoundPersists, PersistChain
<1>4. CASE BuildDocument
  BY <1>0, <1>4 DEF BuildDocument
<1>5. CASE ChainWritten
  BY <1>0, <1>5 DEF ChainWritten
<1>6. CASE ChainRejected
  <2>1. holder' = {}
    BY <1>6, RejectionKind
  <2>2. CASE UNCHANGED waiting
    BY <1>0, <2>1, <2>2
  <2>3. ASSUME NEW w \in Worker, SettlesByWriting(w) PROVE Adds
    <3>1. PICK onRejection \in WorkerRejection : waiting' = Append(waiting, Write(w, onRejection))
      BY <2>3 DEF SettlesByWriting
    <3>2. Write(w, onRejection) \in WriteCall /\ ~IsRoundCall(Write(w, onRejection))
      BY DEF Write, WriteCall, WorkerRejection, OnRejection, IsRoundCall
    <3>3. phase'[w] = "settling"
      BY <2>3 DEF SettlesByWriting, MoveWorker, Typed, TypeOK
    <3>4. /\ WellFormed(Write(w, onRejection))'
          /\ phase'[Write(w, onRejection).worker] = "settling"
      BY <3>3 DEF WellFormed, Write, WorkerRejection, Worker, NoWorker
    <3> QED
      BY <3>1, <3>2, <3>4
  <2>4. UNCHANGED waiting \/ \E w \in Worker : SettlesByWriting(w)
    BY <1>6, RejectionKind DEF Settles, SettlesQuietly
  <2> QED
    BY <1>0, <2>1, <2>2, <2>3, <2>4
<1> QED
  BY <1>1, <1>2, <1>3, <1>4, <1>5, <1>6, StepKinds

WellFormedCall == {call \in WriteCall : WellFormed(call)}

\* Every queued call keeps knowing who awaits it.
LEMMA CallsStep ==
    ASSUME Typed, [Next]_vars
    PROVE  CallsAreWellFormed'
<1>1. WellFormedCall \subseteq WellFormedCall'
  BY WorkersStep DEF NoneUnborn, WellFormedCall, WellFormed, WriteCall
<1>2. /\ waiting \in Seq(WriteCall)
      /\ \A i \in DOMAIN waiting : waiting[i] \in WellFormedCall
      /\ \A write \in holder : write.call \in WellFormedCall
  BY DEF Typed, TypeOK, CallsAreWellFormed, WellFormedCall
<1>3. \A i \in DOMAIN waiting' : waiting'[i] \in WellFormedCall'
  <2>1. CASE UNCHANGED waiting
    BY <1>1, <1>2, <2>1
  <2>2. CASE waiting # <<>> /\ waiting' = Tail(waiting)
    <3>1. \A i \in DOMAIN waiting' : i + 1 \in DOMAIN waiting /\ waiting'[i] = waiting[i + 1]
      BY <1>2, <2>2
    <3> QED
      BY <1>1, <1>2, <3>1
  <2>3. ASSUME NEW call \in WellFormedCall', waiting' = Append(waiting, call)
        PROVE  \A i \in DOMAIN waiting' : waiting'[i] \in WellFormedCall'
    <3>0. call \in WriteCall
      BY DEF WellFormedCall, WriteCall
    <3>1. \A i \in DOMAIN waiting' : \/ i \in DOMAIN waiting /\ waiting'[i] = waiting[i]
                                    \/ waiting'[i] = call
      BY <1>2, <2>3, <3>0
    <3> QED
      BY <1>1, <1>2, <2>3, <3>1
  <2>4. Write(NoWorker, "crash") \in WellFormedCall'
    BY DEF Write, WriteCall, OnRejection, WellFormed, WellFormedCall
  <2>5. \A call \in WriteCall : WellFormed(call)' => call \in WellFormedCall'
    BY DEF WellFormedCall, WriteCall
  <2> QED
    BY <2>1, <2>2, <2>3, <2>4, <2>5, QueueStep
<1>4. \A write \in holder' : write.call \in WellFormedCall'
  <2>1. CASE holder' \in {holder, {}}
    BY <1>1, <1>2, <2>1
  <2>2. CASE BuildDocument
    <3>1. 1 \in DOMAIN waiting /\ Head(waiting) = waiting[1]
      BY <1>2, <2>2 DEF BuildDocument
    <3> QED
      BY <1>1, <1>2, <2>2, <3>1 DEF BuildDocument
  <2> QED
    BY <2>1, <2>2, QueueStep
<1> QED
  BY <1>3, <1>4 DEF CallsAreWellFormed, WellFormedCall

\* The initial state satisfies the typing invariant.
LEMMA TypedInit == Init => Typed
<1> SUFFICES ASSUME Init PROVE Typed
  OBVIOUS
<1> USE DEF Init
<1>1. DagTypeOK /\ disk \in [Task -> Status]
  BY TypingInit DEF DagTypeOK
<1>2. loop \in LoopState /\ phase \in [Worker -> Phase] /\ taskOf \in [Worker -> Task \cup {NoTask}]
  BY DEF LoopState, Phase
<1>3. /\ waiting \in Seq(WriteCall)
      /\ instructions \in 0..MaxInstructions /\ storeFailures \in 0..MaxStoreFailures
      /\ launchFailures \in 0..MaxLaunchFailures
  BY OrchestratorAssumption
<1>4. TypeOK
  <2>1. resumes \in [Task -> 0..2] /\ workerCount \in Nat
    OBVIOUS
  <2>2. stopping \in BOOLEAN
    OBVIOUS
  <2>3. holder \in SUBSET [call : WriteCall, document : [Task -> Status]]
    OBVIOUS
  <2>4. starting \in SUBSET Task /\ inFlight \in SUBSET Task /\ earlyStop \in SUBSET Task
    OBVIOUS
  <2>5. canceller \in {"idle", "awaitingLoop", "awaitingWorkers", "awaitingLoopBounded",
                       "returned", "returnedQuiet"}
    OBVIOUS
  <2> HIDE DEF Init
  <2> QED
    BY <1>1, <1>2, <1>3, <2>1, <2>2, <2>3, <2>4, <2>5 DEF TypeOK
<1>5. WorkersHaveTasks /\ ClaimedAreRunning
  BY DEF WorkersHaveTasks, ClaimedAreRunning, DagInit
<1>6. CallsAreWellFormed
  BY DEF CallsAreWellFormed
<1> QED
  BY <1>4, <1>5, <1>6 DEF Typed

\* Every step preserves the typing invariant.
LEMMA TypedStep == Typed /\ [Next]_vars => Typed'
<1> SUFFICES ASSUME Typed, [Next]_vars PROVE Typed'
  OBVIOUS
<1>1. ClaimedAreRunning'
  BY SchedulerStep, ClaimsStep DEF Typed, TypeOK, KeepsClaims
<1> QED
  BY <1>1, TypeStep, WorkersStep, CallsStep DEF Typed

\* Types, the tasks of the workers and the form of the queued calls: the part of
\* the inductive invariant that every later proof uses.
THEOREM TypedAlways == Spec => []Typed
BY TypedInit, TypedStep, PTL DEF Spec

\* The type invariant of the orchestrator.
THEOREM OrchestratorTyping == Spec => []TypeOK
BY TypedAlways, PTL DEF Typed

\* Whatever the orchestrator does to the graph is a sequence of the scheduler's operations.
LEMMA ImplementsScheduler == Spec => DagSpec
<1>1. Init => DagInit
  BY DEF Init
<1>2. Typed /\ [Next]_vars => [DagNext]_dagVars
  BY SchedulerStep
<1> QED
  BY <1>1, <1>2, TypedAlways, PTL DEF Spec, DagSpec

\* What the scheduler promises of each call (dag-scheduler.ts) holds of a running mission,
\* new or resumed: claims match runs but for tasks that came running with the chain, tasks
\* start in dependency order and within the limit, and a finished task stays finished,
\* whatever the workers, the people and the store do.
THEOREM SchedulerPromisesHold ==
    Spec => ClaimsMatchRuns /\ [](DependenciesFirst /\ WithinConcurrency) /\ DoneIsFinal
BY ImplementsScheduler, ClaimsAreRunningTasks, DependenciesComeFirst, ConcurrencyIsRespected,
   DoneTasksStayDone, PTL

-----------------------------------------------------------------------------
(* The order of the writes.                                                 *)

OrderInv == Typed /\ MutexIsExclusive /\ OneRoundCall

\* The mutex admits one call, and the loop awaits the only round call there is.
LEMMA OrderStep == OrderInv /\ [Next]_vars => OrderInv'
<1> SUFFICES ASSUME OrderInv, [Next]_vars PROVE OrderInv'
  OBVIOUS
<1>0. Typed /\ Typed' /\ waiting \in Seq(WriteCall)
  BY TypedStep DEF OrderInv, Typed, TypeOK
<1>1. MutexIsExclusive'
  BY <1>0, QueueStep DEF OrderInv, MutexIsExclusive, BuildDocument
<1>2. OneRoundCall'
  <2>0. OneRoundCall
    BY DEF OrderInv
  <2>1. CASE Quiet
    BY <2>0, <2>1 DEF OneRoundCall, Quiet
  <2>2. ASSUME NEW call \in WriteCall, ~IsRoundCall(call), waiting' = Append(waiting, call),
               holder' \in {holder, {}}, loop' = loop \/ loop # "persisting"
        PROVE  OneRoundCall'
    <3>1. \A i \in DOMAIN waiting' : IsRoundCall(waiting'[i]) =>
             i \in DOMAIN waiting /\ waiting'[i] = waiting[i]
      BY <1>0, <2>2 DEF IsRoundCall
    <3> QED
      BY <2>0, <2>2, <3>1 DEF OneRoundCall, IsRoundCall
  <2>3. CASE Appends
    <3>1. loop' = loop /\ holder' = holder
      BY <2>3 DEF Appends
    <3>2. PICK call \in WriteCall : ~IsRoundCall(call) /\ waiting' = Append(waiting, call)
      BY <2>3 DEF Appends, IsWorkerCall, WorkerRejection, IsRoundCall, Write
    <3> QED
      BY <2>2, <3>1, <3>2
  <2>4. CASE RoundPersists
    <3>1. /\ loop = "scheduling" /\ loop' = "persisting" /\ holder' = holder
          /\ waiting' = Append(waiting, Write(NoWorker, "crash"))
      BY <2>4 DEF RoundPersists, PersistChain
    <3>2. /\ \A i \in DOMAIN waiting : ~IsRoundCall(waiting[i])
          /\ \A write \in holder : ~IsRoundCall(write.call)
      BY <2>0, <3>1 DEF OneRoundCall
    <3>3. Write(NoWorker, "crash") \in WriteCall
      BY DEF Write, WriteCall, OnRejection
    <3>4. \A i \in DOMAIN waiting' : IsRoundCall(waiting'[i]) => i = Len(waiting) + 1
      BY <1>0, <3>1, <3>2, <3>3 DEF IsRoundCall
    <3> QED
      BY <3>1, <3>2, <3>4 DEF OneRoundCall, IsRoundCall
  <2>5. CASE BuildDocument
    <3>1. /\ waiting # <<>> /\ waiting' = Tail(waiting) /\ loop' = loop
          /\ holder' = {[call |-> Head(waiting), document |-> status]}
      BY <2>5 DEF BuildDocument, loopVars
    <3>2. 1 \in DOMAIN waiting /\ Head(waiting) = waiting[1]
      BY <1>0, <3>1
    <3>3. \A i \in DOMAIN waiting' :
             i + 1 \in DOMAIN waiting /\ waiting'[i] = waiting[i + 1] /\ i \in Nat /\ i + 1 # 1
      BY <1>0, <3>1
    <3> QED
      BY <2>0, <3>1, <3>2, <3>3 DEF OneRoundCall, IsRoundCall
  <2>6. CASE ChainWritten
    <3>1. waiting' = waiting /\ holder' = {}
      BY <2>6 DEF ChainWritten
    <3>2. (\E write \in holder : IsRoundCall(write.call)) \/ loop' = loop \/ loop # "persisting"
      BY <2>6 DEF ChainWritten, ReturnFrom, IsRoundCall, Wake
    <3> QED
      BY <2>0, <3>1, <3>2 DEF OneRoundCall, IsRoundCall
  <2>7. CASE ChainRejected
    <3>1. holder' = {}
      BY <1>0, <2>7, RejectionKind
    <3>2. ASSUME NEW w \in Worker, Settles(w) PROVE OneRoundCall'
      <4>1. CASE SettlesQuietly(w)
        BY <2>0, <3>1, <4>1 DEF SettlesQuietly, Wake, OneRoundCall
      <4>2. CASE SettlesByWriting(w)
        <5>1. PICK onRejection \in WorkerRejection : waiting' = Append(waiting, Write(w, onRejection))
          BY <4>2 DEF SettlesByWriting
        <5>2. Write(w, onRejection) \in WriteCall /\ ~IsRoundCall(Write(w, onRejection))
          BY DEF Write, WriteCall, WorkerRejection, OnRejection, IsRoundCall
        <5> QED
          BY <2>2, <3>1, <4>2, <5>1, <5>2 DEF SettlesByWriting
      <4> QED
        BY <3>2, <4>1, <4>2 DEF Settles
    <3>3. CASE /\ \/ UNCHANGED loop
                  \/ loop' = "crashed" /\ \E write \in holder : IsRoundCall(write.call)
               /\ UNCHANGED waiting
      BY <2>0, <3>1, <3>3 DEF OneRoundCall, IsRoundCall
    <3> QED
      BY <1>0, <2>7, <3>2, <3>3, RejectionKind
  <2> QED
    BY <1>0, <2>1, <2>3, <2>4, <2>5, <2>6, <2>7, StepKinds
<1> QED
  BY <1>0, <1>1, <1>2 DEF OrderInv

\* The mission's mutex is exclusive (infra/async-mutex.ts), and the loop awaits the
\* only round call there is.
THEOREM OrderAlways == Spec => []OrderInv
<1>1. Init => OrderInv
  <2>1. Init => Typed
    BY TypedInit
  <2>2. Init => MutexIsExclusive /\ OneRoundCall
    BY DEF Init, MutexIsExclusive, OneRoundCall
  <2> QED
    BY <2>1, <2>2 DEF OrderInv
<1> QED
  BY <1>1, OrderStep, PTL DEF Spec

-----------------------------------------------------------------------------
(* Wake-ups.                                                                *)

WakeInv == LaterCallFollows /\ NoLostWakeup

\* A round takes everything it may take: afterwards there is no free slot or
\* nothing left to start.
LEMMA RoundLeavesNoWork ==
    ASSUME Typed, RoundPersists
    PROVE  ~WorkForRound'
<1>1. PICK S \in SUBSET Task : ClaimRound(S)
  BY DEF RoundPersists
<1>2. DagTypeOK
  BY DEF Typed, TypeOK
<1>3. ~IsMissionComplete(status)'
  <2>1. PICK t \in Task : status[t] # "done"
    BY DEF RoundPersists, IsMissionComplete
  <2>2. status'[t] # "done"
    BY <1>1, <1>2, <2>1 DEF ClaimRound, DagTypeOK
  <2> QED
    BY <2>2 DEF IsMissionComplete
<1>4. Candidates' \subseteq Candidates \ S
  BY <1>1, <1>2, DependsOnAssumption DEF ClaimRound, Candidates, Runnable, DagTypeOK
<1>5. CASE S = Candidates
  BY <1>3, <1>4, <1>5 DEF WorkForRound
<1>6. CASE S # Candidates
  <2>1. Cardinality(S) + Cardinality(claimed) = Concurrency /\ S \subseteq Candidates
    BY <1>1, <1>6 DEF ClaimRound, IsRoundPick
  <2>2. IsFiniteSet(S) /\ IsFiniteSet(claimed)
    BY <1>2, TaskAssumption, FS_Subset DEF DagTypeOK
  <2>3. claimed \cap S = {}
    BY <2>1 DEF Candidates
  <2>4. Cardinality(claimed \cup S) = Cardinality(claimed) + Cardinality(S) - Cardinality(claimed \cap S)
    BY <2>2, FS_Union
  <2>5. Cardinality(claimed \cap S) = 0
    BY <2>3, FS_EmptySet
  <2>6. Cardinality(S) \in Nat /\ Cardinality(claimed) \in Nat
    BY <2>2, FS_CardinalityType
  <2>7. Cardinality(claimed') = Concurrency
    BY <1>1, <2>1, <2>4, <2>5, <2>6, ConcurrencyAssumption DEF ClaimRound
  <2> QED
    BY <1>3, <2>7, ConcurrencyAssumption DEF WorkForRound, HasFreeSlot
<1> QED
  BY <1>5, <1>6

\* Every step preserves the invariant behind the wake-ups: work that appears
\* during a round, or while the loop sleeps, came with a call that will wake it.
LEMMA WakeStep == OrderInv /\ WakeInv /\ [Next]_vars => WakeInv'
<1> SUFFICES ASSUME OrderInv, WakeInv, [Next]_vars PROVE WakeInv'
  OBVIOUS
<1>0. /\ Typed /\ waiting \in Seq(WriteCall) /\ LaterCallFollows /\ NoLostWakeup
      /\ OneRoundCall /\ MutexIsExclusive
      /\ storeFailures \in Nat
  BY DEF OrderInv, WakeInv, Typed, TypeOK
<1>1. CASE Quiet
  <2>1. WorkForRound' <=> WorkForRound
    BY <1>1 DEF Quiet, WorkForRound, IsMissionComplete, HasFreeSlot, Candidates, Runnable
  <2>2. UNCHANGED <<waiting, holder, storeFailures>>
    BY <1>1 DEF Quiet
  <2>3. LaterCallFollows'
    BY <1>0, <1>1, <2>1, <2>2 DEF Quiet, LaterCallFollows
  <2>4. NoLostWakeup'
    BY <1>0, <1>1, <2>1, <2>2 DEF Quiet, NoLostWakeup, NoWrite
  <2> QED
    BY <2>3, <2>4 DEF WakeInv
<1>2. CASE Appends
  <2>1. PICK call \in WriteCall : ~IsRoundCall(call) /\ waiting' = Append(waiting, call)
    BY <1>2 DEF Appends, IsWorkerCall, WorkerRejection, IsRoundCall, Write
  <2>2. waiting' # <<>> /\ waiting'[Len(waiting')] = call
    BY <1>0, <2>1
  <2> QED
    BY <2>1, <2>2 DEF WakeInv, LaterCallFollows, NoLostWakeup, NoWrite
<1>3. CASE RoundPersists
  <2>1. loop' = "persisting"
    BY <1>3 DEF RoundPersists
  <2> QED
    BY <1>0, <1>3, <2>1, RoundLeavesNoWork DEF WakeInv, LaterCallFollows, NoLostWakeup
<1>4. CASE BuildDocument
  <2>1. /\ waiting # <<>> /\ waiting' = Tail(waiting)
        /\ holder' = {[call |-> Head(waiting), document |-> status]}
        /\ loop' = loop /\ storeFailures' = storeFailures /\ status' = status /\ claimed' = claimed
    BY <1>4 DEF BuildDocument, loopVars, boundVars, dagVars
  <2>2. WorkForRound' <=> WorkForRound
    BY <2>1 DEF WorkForRound, IsMissionComplete, HasFreeSlot, Candidates, Runnable
  <2>3. IF waiting' = <<>> THEN Head(waiting) = waiting[Len(waiting)]
                           ELSE waiting'[Len(waiting')] = waiting[Len(waiting)]
    <3>1. Len(waiting) \in Nat /\ Len(waiting) > 0 /\ Len(waiting') = Len(waiting) - 1
      BY <1>0, <2>1
    <3>2. CASE Len(waiting) = 1
      BY <1>0, <2>1, <3>1, <3>2
    <3>3. CASE Len(waiting) > 1
      <4>1. \A i \in 1..Len(waiting') : waiting'[i] = waiting[i + 1]
        BY <1>0, <2>1, <3>1
      <4>2. Len(waiting') \in 1..Len(waiting') /\ Len(waiting') + 1 = Len(waiting)
        BY <3>1, <3>3
      <4>3. waiting' # <<>>
        <5>1. Len(waiting') # 0
          BY <3>1, <3>3
        <5> QED
          BY <5>1
      <4> QED
        BY <4>1, <4>2, <4>3
    <3> QED
      BY <3>1, <3>2, <3>3
  <2>4. LaterCallFollows'
    BY <1>0, <2>1, <2>2, <2>3 DEF LaterCallFollows
  <2>5. NoLostWakeup'
    BY <2>1 DEF NoLostWakeup, NoWrite
  <2> QED
    BY <2>4, <2>5 DEF WakeInv
<1>5. CASE ChainWritten
  <2>1. PICK write \in holder :
          \/ IsRoundCall(write.call) /\ loop' # "persisting"
          \/ Wake
    BY <1>5 DEF ChainWritten, ReturnFrom, IsRoundCall, LaunchStarting, SleepUntilWake
  <2>2. holder' = {} /\ UNCHANGED <<waiting, storeFailures, status, claimed>>
    BY <1>5 DEF ChainWritten, boundVars, dagVars
  <2>3. WorkForRound' <=> WorkForRound
    BY <2>2 DEF WorkForRound, IsMissionComplete, HasFreeSlot, Candidates, Runnable
  <2>4. CASE IsRoundCall(write.call) /\ loop' # "persisting"
    <3>1. loop = "persisting"
      BY <1>0, <2>4 DEF OneRoundCall
    <3>2. WorkForRound /\ storeFailures = 0 => waiting # <<>>
      BY <1>0, <2>4, <3>1 DEF LaterCallFollows
    <3> QED
      BY <2>2, <2>3, <2>4, <3>2 DEF WakeInv, LaterCallFollows, NoLostWakeup, NoWrite
  <2>5. CASE Wake
    <3>1. loop' # "sleeping" /\ (loop' = "persisting" => loop = "persisting")
      BY <2>5 DEF Wake
    <3> QED
      BY <1>0, <2>2, <2>3, <3>1 DEF WakeInv, LaterCallFollows, NoLostWakeup
  <2> QED
    BY <2>1, <2>4, <2>5
<1>6. CASE ChainRejected
  <2>1. storeFailures' # 0
    BY <1>0, <1>6, RejectionKind
  <2> QED
    BY <2>1 DEF WakeInv, LaterCallFollows, NoLostWakeup
<1> QED
  BY <1>0, <1>1, <1>2, <1>3, <1>4, <1>5, <1>6, StepKinds

\* The loop never sleeps through work: while it sleeps with a task to start or a
\* mission to finish, and no write has failed, a write is under way that will
\* wake it.
THEOREM NoWakeupIsLost == Spec => []NoLostWakeup
<1>1. Init => WakeInv
  BY DEF Init, WakeInv, LaterCallFollows, NoLostWakeup
<1>2. Spec => []WakeInv
  BY <1>1, WakeStep, OrderAlways, PTL DEF Spec
<1> QED
  BY <1>2, PTL DEF WakeInv

-----------------------------------------------------------------------------
(* The file.                                                                *)

FileInv ==
    /\ DocumentIsCurrent /\ QuietChainIsPersisted
    /\ DocumentDoneIsDone /\ RecordedDoneIsDone

\* Every step preserves the agreement of graph, document and file.
LEMMA FileStep == OrderInv /\ FileInv /\ [Next]_vars => FileInv'
<1> SUFFICES ASSUME OrderInv, FileInv, [Next]_vars PROVE FileInv'
  OBVIOUS
<1>0. /\ Typed /\ waiting \in Seq(WriteCall) /\ storeFailures \in Nat /\ MutexIsExclusive
      /\ DocumentIsCurrent /\ QuietChainIsPersisted /\ DocumentDoneIsDone /\ RecordedDoneIsDone
  BY DEF OrderInv, FileInv, Typed, TypeOK
<1>1. \A t \in Task : status[t] = "done" => status'[t] = "done"
  BY <1>0, SchedulerStep, DoneStep DEF Typed, TypeOK
<1>2. CASE Quiet
  BY <1>0, <1>2 DEF Quiet, FileInv, DocumentIsCurrent, QuietChainIsPersisted, DocumentDoneIsDone,
                    RecordedDoneIsDone, NoWrite
<1>3. CASE Appends \/ RoundPersists
  <2>1. UNCHANGED <<holder, disk, storeFailures>>
    BY <1>3 DEF Appends, RoundPersists, boundVars
  <2>2. waiting' # <<>>
    <3>1. PICK call \in WriteCall : waiting' = Append(waiting, call)
      BY <1>3 DEF Appends, RoundPersists, PersistChain, Write, WriteCall, OnRejection
    <3> QED
      BY <1>0, <3>1
  <2> QED
    BY <1>0, <1>1, <2>1, <2>2 DEF FileInv, DocumentIsCurrent, QuietChainIsPersisted,
                                  DocumentDoneIsDone, RecordedDoneIsDone, NoWrite
<1>4. CASE BuildDocument
  <2>1. /\ UNCHANGED <<status, disk, storeFailures>>
        /\ holder' = {[call |-> Head(waiting), document |-> status]}
    BY <1>4 DEF BuildDocument, dagVars, boundVars
  <2>2. \A write \in holder' : write.document = status'
    BY <2>1
  <2>3. holder' # {}
    BY <2>1
  <2> QED
    BY <1>0, <2>1, <2>2, <2>3 DEF FileInv, DocumentIsCurrent, QuietChainIsPersisted,
                                  DocumentDoneIsDone, RecordedDoneIsDone, NoWrite
<1>5. CASE ChainWritten
  <2>1. PICK write \in holder : disk' = write.document
    BY <1>5 DEF ChainWritten
  <2>2. holder' = {} /\ UNCHANGED <<waiting, storeFailures, status>>
    BY <1>5 DEF ChainWritten, boundVars, dagVars
  <2> QED
    BY <1>0, <2>1, <2>2 DEF FileInv, DocumentIsCurrent, QuietChainIsPersisted, DocumentDoneIsDone,
                            RecordedDoneIsDone, NoWrite
<1>6. CASE ChainRejected
  <2>1. holder' = {} /\ storeFailures' # 0 /\ \E write \in holder : disk' \in {disk, write.document}
    BY <1>0, <1>6, RejectionKind
  <2>2. RecordedDoneIsDone'
    BY <1>0, <1>1, <2>1 DEF DocumentDoneIsDone, RecordedDoneIsDone
  <2> QED
    BY <2>1, <2>2 DEF FileInv, DocumentIsCurrent, QuietChainIsPersisted, DocumentDoneIsDone
<1> QED
  BY <1>0, <1>2, <1>3, <1>4, <1>5, <1>6, StepKinds

\* Graph, document under way and file agree in every reachable state: a document
\* is stale only while a later call waits.
THEOREM FileAlways == Spec => []FileInv
<1>1. Init => FileInv
  BY DEF Init, FileInv, DocumentIsCurrent, QuietChainIsPersisted, DocumentDoneIsDone,
         RecordedDoneIsDone, NoWrite
<1> QED
  BY <1>1, FileStep, OrderAlways, PTL DEF Spec

\* Whenever no write is queued, and none has failed, the file holds the graph.
THEOREM QuietFileIsCurrent == Spec => []QuietChainIsPersisted
BY FileAlways, PTL DEF FileInv

\* The file never records a task as done that is not, also when writes fail.
THEOREM FileClaimsNothingUndone == Spec => []RecordedDoneIsDone
BY FileAlways, PTL DEF FileInv

-----------------------------------------------------------------------------
(* No slot leaks.                                                           *)

\* The phases in which a worker holds the claim it was launched for.
HoldingPhase == LivePhase \cup {"stranded"}
SettledPhase == {"settling", "gone", "rejected"}

\* Workers are numbered in the order they are launched, and the round under way
\* has numbers left for the tasks it starts.
WorkersAreNumbered ==
    /\ workerCount + Cardinality(starting) <= MaxLaunches
    /\ \A w \in Worker : w > workerCount => phase[w] = "unborn" /\ taskOf[w] = NoTask

\* Tasks wait for their worker only while the round that claimed them is written.
OnlyRoundsStart == loop \notin {"persisting", "crashed"} => starting = {}

\* A worker with a write under way has given up its claim before.
SettledCalls ==
    {call \in WriteCall : call.worker # NoWorker => phase[call.worker] \in SettledPhase}

CallersAreSettled ==
    /\ \A i \in DOMAIN waiting : waiting[i] \in SettledCalls
    /\ \A write \in holder : write.call \in SettledCalls

SlotInv == WorkersAreNumbered /\ OnlyRoundsStart /\ CallersAreSettled /\ ClaimHasWorker

\* A worker that settles gives up the claim of its task.
GivesUp(w) ==
    /\ claimed' \subseteq claimed /\ taskOf[w] \notin claimed'
    /\ \E next \in SettledPhase : MoveWorker(w, next)

\* However a failure is handled (handleWorkerOutcome), the claim goes with it.
LEMMA FailureGivesUp ==
    ASSUME NEW w \in Worker, NEW onRejection, HandleFailure(w, taskOf[w], onRejection)
    PROVE  GivesUp(w)
<1>1. MoveWorker(w, "settling") \/ MoveWorker(w, "gone")
  BY DEF HandleFailure, ResumeTask, AwaitsWrite, EndsWithoutWrite
<1>2. claimed' \subseteq claimed /\ taskOf[w] \notin claimed'
  BY DEF HandleFailure, ResumeTask, ReleaseTaskBackToPending, BackToPending, FinishTaskFailed,
         FinishTaskIgnored, dagVars
<1> QED
  BY <1>1, <1>2 DEF GivesUp, SettledPhase

\* The same of a task that is blocked for a person.
LEMMA BlockGivesUp ==
    ASSUME NEW w \in Worker, NEW onRejection, BlockQuietly(w, taskOf[w], onRejection)
    PROVE  GivesUp(w)
<1>1. MoveWorker(w, "settling") \/ MoveWorker(w, "gone")
  BY DEF BlockQuietly, AwaitsWrite, EndsWithoutWrite
<1>2. claimed' \subseteq claimed /\ taskOf[w] \notin claimed'
  BY DEF BlockQuietly, BlockTaskForHumanDecision
<1> QED
  BY <1>1, <1>2 DEF GivesUp, SettledPhase

\* The same of a success, whose result may be ignored.
LEMMA SuccessGivesUp ==
    ASSUME NEW w \in Worker, HandleSuccess(w, taskOf[w])
    PROVE  GivesUp(w)
<1>1. MoveWorker(w, "settling") \/ MoveWorker(w, "gone")
  BY DEF HandleSuccess, AwaitsWrite, EndsWithoutWrite
<1>2. claimed' \subseteq claimed /\ taskOf[w] \notin claimed'
  BY DEF HandleSuccess, FinishTaskDone, FinishTaskIgnored, dagVars
<1> QED
  BY <1>1, <1>2 DEF GivesUp, SettledPhase

\* The same of every outcome, save that a contribution under review keeps its claim.
LEMMA OutcomeGivesUp ==
    ASSUME NEW w \in Worker, NEW outcome, HandleOutcome(w, taskOf[w], outcome)
    PROVE  GivesUp(w) \/ (MoveWorker(w, "reviewing") /\ UNCHANGED claimed)
<1> DEFINE t == taskOf[w]
<1>1. CASE \E onRejection : HandleFailure(w, t, onRejection)
  BY <1>1, FailureGivesUp
<1>2. CASE ResumeTask(w, t)
  BY <1>2, FailureGivesUp DEF HandleFailure
<1>3. CASE HandleSuccess(w, t)
  BY <1>3, SuccessGivesUp
<1>4. CASE (BlockTaskForHumanDecision(t) \/ ReleaseTaskBackToPending(t)) /\ AwaitsWrite(w, "fail")
  <2>1. claimed' \subseteq claimed /\ t \notin claimed' /\ MoveWorker(w, "settling")
    BY <1>4 DEF BlockTaskForHumanDecision, ReleaseTaskBackToPending, BackToPending, AwaitsWrite
  <2> QED
    BY <2>1 DEF GivesUp, SettledPhase
<1>5. CASE MoveWorker(w, "reviewing") /\ UNCHANGED dagVars
  BY <1>5 DEF dagVars
<1> QED
  BY <1>1, <1>2, <1>3, <1>4, <1>5 DEF HandleOutcome, HandleQuestion, HandleCancelled

\* A step that launches nothing: no claim is made, and a worker that ends gives up its own.
Keeps ==
    /\ claimed' \subseteq claimed
    /\ UNCHANGED <<workerCount, taskOf>>
    /\ \A v \in Worker :
          /\ phase[v] = "unborn" => phase'[v] = "unborn"
          /\ phase[v] \in SettledPhase => phase'[v] \in SettledPhase
          /\ phase[v] \in HoldingPhase =>
                phase'[v] \in HoldingPhase \/ taskOf[v] \notin claimed'
    /\ UNCHANGED starting
    /\ loop \in {"persisting", "crashed"} => loop' \in {"persisting", "crashed"}

\* A step of a round that is being made or launched.
StartsTasks ==
    \/ RoundPersists
    \/ /\ LaunchStarting /\ loop = "persisting"
       /\ UNCHANGED <<claimed, waiting>> /\ holder' = {}

\* A worker that moves as GivesUp says, or settles further, leaks nothing.
LEMMA MovingKeeps ==
    ASSUME Typed, NEW w \in Worker, phase[w] # "unborn",
           \/ GivesUp(w)
           \/ /\ UNCHANGED claimed
              /\ \E next : /\ MoveWorker(w, next)
                           /\ \/ next \in HoldingPhase /\ phase[w] \in LivePhase
                              \/ next \in SettledPhase /\ phase[w] \in SettledPhase,
           UNCHANGED <<starting, workerCount, taskOf>>,
           Wake \/ UNCHANGED loop
    PROVE  Keeps
<1>1. phase \in [Worker -> Phase]
  BY DEF Typed, TypeOK
<1>2. \A v \in Worker : v # w => phase'[v] = phase[v]
  BY <1>1 DEF GivesUp, MoveWorker
<1>3. /\ phase[w] \in SettledPhase => phase'[w] \in SettledPhase
      /\ phase[w] \in HoldingPhase => phase'[w] \in HoldingPhase \/ taskOf[w] \notin claimed'
  BY <1>1 DEF GivesUp, MoveWorker, SettledPhase, HoldingPhase, LivePhase
<1>4. claimed' \subseteq claimed
  BY DEF GivesUp
<1>5. loop \in {"persisting", "crashed"} => loop' \in {"persisting", "crashed"}
  BY DEF Wake
<1> QED
  BY <1>1, <1>2, <1>3, <1>4, <1>5 DEF Keeps

\* No step but those of a round makes a claim or a worker.
LEMMA SlotKinds ==
    ASSUME OrderInv, CallersAreSettled, [Next]_vars
    PROVE  Keeps \/ StartsTasks
<1>0. Typed /\ phase \in [Worker -> Phase]
  BY DEF OrderInv, Typed, TypeOK
<1>1. ASSUME UNCHANGED <<starting, workerVars>>, claimed' \subseteq claimed,
             \/ Wake \/ UNCHANGED loop
             \/ loop = "scheduling" /\ loop' \in {"done", "ready", "sleeping"}
             \/ loop = "ready" /\ loop' \in {"cancelled", "scheduling"}
      PROVE  Keeps
  BY <1>0, <1>1 DEF Keeps, workerVars, Wake
<1>2. CASE LoopCheck \/ RoundCompletes \/ RoundIdles \/ BuildDocument \/ Cancel \/ CancelStep \/ LeaseLost
           \/ UNCHANGED vars
  BY <1>1, <1>2 DEF LoopCheck, RoundCompletes, RoundIdles, SleepUntilWake, BuildDocument, Cancel,
     CancelStep, CancelStopsWaitingForWorkers, CancelGivesUp, CancelReturns, CancelProceeds, LeaseLost,
     vars, dagVars, loopVars, boundVars
<1>3. ASSUME NEW t \in Task, Instruction(t) PROVE Keeps
  <2>1. claimed' \subseteq claimed /\ (Wake \/ UNCHANGED loop)
    BY <1>3 DEF Instruction, Unblock, Reconsider, UnblockTask, ReassignTask, CancelTask, BackToPending,
                dagVars
  <2>2. UNCHANGED <<starting, workerVars>>
    BY <1>3 DEF Instruction
  <2> QED
    BY <1>1, <2>1, <2>2
<1>4. ASSUME NEW w \in Worker, WorkerStep(w) PROVE Keeps
  <2>1. CASE LaunchSucceeds(w) \/ LaunchFails(w) \/ EarlyStopDetected(w)
    BY <1>0, <2>1, MovingKeeps
    DEF LaunchSucceeds, LaunchFails, EarlyStopDetected, HoldingPhase, LivePhase, dagVars, loopVars
  <2>3. ASSUME NEW outcome \in Outcome, WorkerReturns(w, outcome) PROVE Keeps
    <3>1. Wake \/ UNCHANGED loop
      BY <2>3 DEF WorkerReturns, HandleOutcome, HandleFailure, HandleQuestion, HandleCancelled, HandleSuccess,
                  ResumeTask, AwaitsWrite, EndsWithoutWrite
    <3>2. phase[w] \in LivePhase /\ phase[w] # "unborn"
      BY <2>3 DEF WorkerReturns, LivePhase
    <3> QED
      BY <1>0, <2>3, <3>1, <3>2, OutcomeGivesUp, MovingKeeps DEF WorkerReturns, HoldingPhase, LivePhase
  <2>4. CASE ReviewAccepts(w)
    <3>1. Wake \/ UNCHANGED loop
      BY <2>4 DEF ReviewAccepts, HandleSuccess, AwaitsWrite, EndsWithoutWrite
    <3> QED
      BY <1>0, <2>4, <3>1, SuccessGivesUp, MovingKeeps DEF ReviewAccepts, boundVars
  <2>5. ASSUME NEW onRejection, ReviewRefuses(w, onRejection) PROVE Keeps
    <3>1. Wake \/ UNCHANGED loop
      BY <2>5 DEF ReviewRefuses, BlockQuietly, AwaitsWrite, EndsWithoutWrite
    <3> QED
      BY <1>0, <2>5, <3>1, BlockGivesUp, MovingKeeps DEF ReviewRefuses, boundVars
  <2> QED
    BY <1>4, <2>1, <2>3, <2>4, <2>5 DEF WorkerStep
<1>5. CASE ChainWritten
  <2>1. PICK write \in holder : ReturnFrom(write.call) /\ holder' = {}
                                /\ UNCHANGED <<dagVars, waiting, boundVars>>
    BY <1>5 DEF ChainWritten
  <2>2. write.call \in SettledCalls /\ (IsRoundCall(write.call) => loop = "persisting")
    BY DEF CallersAreSettled, OrderInv, OneRoundCall
  <2>3. CASE write.call.onRejection = "crash" /\ LaunchStarting
    BY <2>1, <2>2, <2>3 DEF StartsTasks, IsRoundCall, dagVars, boundVars
  <2>4. CASE Wake /\ UNCHANGED <<starting, workerVars>>
    BY <1>1, <2>1, <2>4 DEF dagVars, boundVars
  <2>5. CASE /\ write.call.worker # NoWorker
             /\ MoveWorker(write.call.worker, "gone")
             /\ Wake
             /\ UNCHANGED <<starting, workerCount, taskOf, inFlight>>
    <3>1. write.call.worker \in Worker /\ phase[write.call.worker] \in SettledPhase
      BY <2>2, <2>5 DEF SettledCalls, WriteCall
    <3>2. phase[write.call.worker] # "unborn" /\ "gone" \in SettledPhase
      BY <3>1 DEF SettledPhase
    <3> QED
      BY <1>0, <2>1, <2>5, <3>1, <3>2, MovingKeeps DEF dagVars, boundVars
  <2> QED
    BY <2>1, <2>3, <2>4, <2>5 DEF ReturnFrom
<1>6. CASE ChainRejected
  <2>1. PICK write \in holder :
           \/ /\ loop' = "crashed" /\ UNCHANGED starting
              /\ UNCHANGED <<dagVars, phase>>
           \/ UNCHANGED <<dagVars, loopVars, phase>>
           \/ /\ write.call.worker # NoWorker
              /\ WorkerIsRejected(write.call.worker, write.call.onRejection)
              /\ UNCHANGED starting
    BY <1>6 DEF ChainRejected
  <2>2. UNCHANGED <<workerCount, taskOf, inFlight>>
    BY <1>6 DEF ChainRejected
  <2>3. CASE loop' = "crashed" /\ UNCHANGED <<dagVars, starting, phase>>
    BY <1>0, <2>2, <2>3 DEF Keeps, dagVars
  <2>4. CASE UNCHANGED <<dagVars, loopVars, phase>>
    BY <1>1, <2>2, <2>4 DEF dagVars, loopVars, workerVars
  <2>5. CASE /\ write.call.worker # NoWorker
             /\ WorkerIsRejected(write.call.worker, write.call.onRejection)
             /\ UNCHANGED starting
    <3> DEFINE w == write.call.worker
    <3>1. w \in Worker /\ phase[w] \in SettledPhase
      BY <2>5 DEF CallersAreSettled, SettledCalls, WriteCall
    <3>2. phase[w] # "unborn"
      BY <3>1 DEF SettledPhase
    <3>3. Wake \/ UNCHANGED loop
      BY <2>5 DEF WorkerIsRejected, HandleFailure, BlockQuietly, ResumeTask, AwaitsWrite, EndsWithoutWrite
    <3>4. \/ GivesUp(w)
          \/ UNCHANGED claimed /\ \E next \in SettledPhase : MoveWorker(w, next)
      BY <2>5, <3>1, FailureGivesUp, BlockGivesUp DEF WorkerIsRejected, SettledPhase, dagVars
    <3> HIDE DEF w
    <3> QED
      BY <1>0, <2>2, <3>1, <3>2, <3>3, <3>4, <2>5, MovingKeeps
  <2> QED
    BY <2>1, <2>3, <2>4, <2>5
<1> QED
  BY <1>2, <1>3, <1>4, <1>5, <1>6 DEF Next, LoopStep, StoreStep, StartsTasks

\* No slot leaks in a step that launches nothing.
LEMMA KeepingStep ==
    ASSUME OrderInv, SlotInv, Keeps
    PROVE  WorkersAreNumbered' /\ OnlyRoundsStart' /\ ClaimHasWorker'
<1>0. Typed
  BY DEF OrderInv
<1>1. WorkersAreNumbered' /\ OnlyRoundsStart'
  BY DEF SlotInv, WorkersAreNumbered, OnlyRoundsStart, Keeps
<1>2. ClaimHasWorker'
  <2> SUFFICES ASSUME NEW t \in claimed' \ starting'
               PROVE  \E w \in Worker : IsNewestFor(w, t)' /\ phase'[w] \in HoldingPhase
    BY DEF ClaimHasWorker, HoldingPhase
  <2>1. PICK w \in Worker : IsNewestFor(w, t) /\ phase[w] \in HoldingPhase
    BY DEF Keeps, SlotInv, ClaimHasWorker, HoldingPhase
  <2>2. IsNewestFor(w, t)' /\ taskOf[w] = t
    BY <2>1 DEF IsNewestFor, Keeps
  <2>3. phase'[w] \in HoldingPhase
    BY <2>1, <2>2 DEF Keeps
  <2> QED
    BY <2>2, <2>3
<1> QED
  BY <1>1, <1>2

\* A round claims the tasks it will start, and there are numbers for their workers.
LEMMA RoundStep ==
    ASSUME OrderInv, SlotInv, RoundPersists
    PROVE  WorkersAreNumbered' /\ OnlyRoundsStart' /\ ClaimHasWorker'
<1>1. PICK S \in SUBSET Task :
         /\ workerCount + Cardinality(S) <= MaxLaunches
         /\ ClaimRound(S) /\ starting' = S
  BY DEF RoundPersists
<1>2. /\ UNCHANGED <<workerCount, taskOf, phase>>
      /\ loop = "scheduling" /\ loop' = "persisting"
  BY DEF RoundPersists, workerVars
<1>3. ClaimHasWorker'
  BY <1>1, <1>2 DEF SlotInv, ClaimHasWorker, OnlyRoundsStart, ClaimRound, IsNewestFor
<1> QED
  BY <1>1, <1>2, <1>3 DEF SlotInv, WorkersAreNumbered, OnlyRoundsStart

\* launchWorker gives the tasks of a round the next numbers, one each.
LEMMA NumbersAreFresh ==
    ASSUME OrderInv, SlotInv
    PROVE  /\ \A t \in starting : /\ InstanceFor(t) \in Worker
                                  /\ InstanceFor(t) > workerCount
                                  /\ InstanceFor(t) <= workerCount + Cardinality(starting)
           /\ \A t, u \in starting : InstanceFor(t) = InstanceFor(u) => t = u
<1> DEFINE Upto(t) == {u \in starting : u <= t}
<1>0. IsFiniteSet(starting) /\ starting \subseteq Nat /\ workerCount \in Nat /\ MaxLaunches \in Nat
  BY TaskAssumption, OrchestratorAssumption, FS_Subset DEF OrderInv, Typed, TypeOK
<1>1. ASSUME NEW t \in starting
      PROVE  /\ IsFiniteSet(Upto(t)) /\ Cardinality(Upto(t)) \in Nat
             /\ Cardinality(Upto(t)) <= Cardinality(starting) /\ Cardinality(starting) \in Nat
             /\ Cardinality(Upto(t)) # 0
  <2>1. Upto(t) \in SUBSET starting /\ t \in Upto(t)
    BY <1>0
  <2>2. IsFiniteSet(Upto(t)) /\ Cardinality(Upto(t)) <= Cardinality(starting)
    BY <1>0, <2>1, FS_Subset
  <2>3. Cardinality(Upto(t)) # 0
    BY <2>1, <2>2, FS_EmptySet
  <2> QED
    BY <1>0, <2>2, <2>3, FS_CardinalityType
<1>2. ASSUME NEW t \in starting, NEW u \in starting, t < u
      PROVE  Cardinality(Upto(t)) # Cardinality(Upto(u))
  <2>1. Upto(t) \in SUBSET Upto(u)
    <3>1. ASSUME NEW v \in starting, v <= t PROVE v <= u
      <4>1. t \in Nat /\ u \in Nat /\ v \in Nat
        BY <1>0
      <4> QED
        BY <1>2, <3>1, <4>1
    <3> QED
      BY <3>1
  <2>2. u \in Upto(u) /\ u \notin Upto(t)
    BY <1>0, <1>2
  <2>3. IsFiniteSet(Upto(u))
    BY <1>1
  <2> HIDE DEF Upto
  <2> QED
    BY <2>1, <2>2, <2>3, FS_Subset
<1>3. ASSUME NEW t \in starting PROVE InstanceFor(t) = workerCount + Cardinality(Upto(t))
  BY DEF InstanceFor
<1>4. ASSUME NEW t \in starting
      PROVE  /\ InstanceFor(t) \in Worker
             /\ InstanceFor(t) > workerCount
             /\ InstanceFor(t) <= workerCount + Cardinality(starting)
  <2> DEFINE n == Cardinality(Upto(t))
  <2>1. n \in Nat /\ n # 0 /\ n <= Cardinality(starting) /\ Cardinality(starting) \in Nat
    BY <1>1, <1>4
  <2>2. workerCount + Cardinality(starting) <= MaxLaunches
    BY DEF SlotInv, WorkersAreNumbered
  <2>3. InstanceFor(t) = workerCount + n
    BY <1>3, <1>4
  <2> HIDE DEF n
  <2> QED
    BY <1>0, <2>1, <2>2, <2>3 DEF Worker
<1>5. ASSUME NEW t \in starting, NEW u \in starting, InstanceFor(t) = InstanceFor(u) PROVE t = u
  <2>1. Cardinality(Upto(t)) = Cardinality(Upto(u))
    BY <1>0, <1>1, <1>3, <1>5
  <2>2. t \in Nat /\ u \in Nat
    BY <1>0
  <2> QED
    BY <1>2, <2>1, <2>2
<1> QED
  BY <1>4, <1>5

\* The launch of a round replaces no worker, and every task it starts gets one.
LEMMA LaunchStep ==
    ASSUME OrderInv, SlotInv, LaunchStarting, UNCHANGED claimed, loop = "persisting"
    PROVE  WorkersAreNumbered' /\ OnlyRoundsStart' /\ ClaimHasWorker'
<1>0. /\ phase \in [Worker -> Phase] /\ taskOf \in [Worker -> Task \cup {NoTask}]
      /\ workerCount \in Nat /\ Cardinality(starting) \in Nat /\ MaxLaunches \in Nat
  BY TaskAssumption, OrchestratorAssumption, FS_Subset, FS_CardinalityType DEF OrderInv, Typed, TypeOK
<1>1. /\ workerCount' = workerCount + Cardinality(starting) /\ starting' = {}
      /\ Cardinality(starting') = 0
  BY FS_EmptySet DEF LaunchStarting
<1>2. ASSUME NEW w \in Worker, \A t \in starting : w # InstanceFor(t)
      PROVE  taskOf'[w] = taskOf[w] /\ phase'[w] = phase[w]
  BY <1>2 DEF LaunchStarting
<1>3. ASSUME NEW t \in starting
      PROVE  /\ InstanceFor(t) \in Worker
             /\ taskOf'[InstanceFor(t)] = t /\ phase'[InstanceFor(t)] = "launching"
  <2>1. InstanceFor(t) \in Worker /\ \A u \in starting : InstanceFor(t) = InstanceFor(u) => u = t
    BY NumbersAreFresh
  <2>2. (CHOOSE u \in starting : InstanceFor(t) = InstanceFor(u)) = t
    BY <2>1
  <2> QED
    BY <2>1, <2>2 DEF LaunchStarting
<1>4. WorkersAreNumbered'
  <2>1. ASSUME NEW w \in Worker, w > workerCount' PROVE phase'[w] = "unborn" /\ taskOf'[w] = NoTask
    <3>1. w \in Nat /\ w > workerCount /\ \A t \in starting : w # InstanceFor(t)
      <4>1. w \in Nat
        BY DEF Worker
      <4>2. \A t \in starting : InstanceFor(t) \in Nat /\ InstanceFor(t) <= workerCount'
        BY <1>1, NumbersAreFresh DEF Worker
      <4> QED
        BY <1>0, <1>1, <2>1, <4>1, <4>2
    <3> QED
      BY <1>2, <3>1 DEF SlotInv, WorkersAreNumbered
  <2> QED
    BY <1>0, <1>1, <2>1 DEF SlotInv, WorkersAreNumbered
<1>5. OnlyRoundsStart'
  BY <1>1 DEF OnlyRoundsStart
<1>6. ClaimHasWorker'
  <2>0. /\ \A v \in Worker : v \in Nat /\ (taskOf[v] # NoTask => v <= workerCount)
        /\ NoTask \notin Task
    BY <1>0, TaskAssumption DEF SlotInv, WorkersAreNumbered, Worker, NoTask
  <2>1. \A v \in Worker : \A t \in Task : taskOf'[v] = t =>
           (taskOf[v] = t /\ v <= workerCount) \/ (t \in starting /\ v = InstanceFor(t))
    <3> SUFFICES ASSUME NEW v \in Worker, NEW t \in Task, taskOf'[v] = t
                 PROVE  (taskOf[v] = t /\ v <= workerCount) \/ (t \in starting /\ v = InstanceFor(t))
      OBVIOUS
    <3>1. CASE \A u \in starting : v # InstanceFor(u)
      BY <1>2, <2>0, <3>1
    <3>2. ASSUME NEW u \in starting, v = InstanceFor(u) PROVE t \in starting /\ v = InstanceFor(t)
      BY <1>3, <3>2
    <3> QED
      BY <3>1, <3>2
  <2> SUFFICES ASSUME NEW t \in claimed
               PROVE  \E w \in Worker : IsNewestFor(w, t)' /\ phase'[w] \in HoldingPhase
    BY DEF ClaimHasWorker, HoldingPhase
  <2>2. t \in Task
    BY DEF OrderInv, Typed, TypeOK, DagTypeOK
  <2>3. CASE t \in starting
    <3>1. PICK w \in Worker : w = InstanceFor(t)
      BY <2>3, NumbersAreFresh
    <3>2. w \in Nat /\ w > workerCount
      BY <2>3, <3>1, NumbersAreFresh DEF Worker
    <3>3. \A v \in Worker : taskOf'[v] = t => v <= w
      BY <1>0, <2>0, <2>1, <2>2, <3>1, <3>2
    <3>4. taskOf'[w] = t /\ phase'[w] = "launching"
      BY <1>3, <2>3, <3>1
    <3> QED
      BY <3>3, <3>4 DEF IsNewestFor, HoldingPhase, LivePhase
  <2>4. CASE t \notin starting
    <3>1. PICK w \in Worker : IsNewestFor(w, t) /\ phase[w] \in HoldingPhase
      BY <2>4 DEF SlotInv, ClaimHasWorker, HoldingPhase
    <3>2. w \in Nat /\ w <= workerCount
      BY <2>0, <2>2, <3>1 DEF IsNewestFor
    <3>3. \A u \in starting : w # InstanceFor(u)
      <4>1. \A u \in starting : InstanceFor(u) \in Nat /\ InstanceFor(u) > workerCount
        BY NumbersAreFresh DEF Worker
      <4> QED
        BY <1>0, <3>2, <4>1
    <3>4. taskOf'[w] = t /\ phase'[w] \in HoldingPhase
      BY <1>2, <3>1, <3>3 DEF IsNewestFor
    <3>5. \A v \in Worker : taskOf'[v] = t => v <= w
      BY <2>1, <2>2, <2>4, <3>1 DEF IsNewestFor
    <3> QED
      BY <3>4, <3>5 DEF IsNewestFor
  <2> QED
    BY <2>3, <2>4
<1> QED
  BY <1>4, <1>5, <1>6

\* A worker whose write is under way stays settled, so no claim is given up twice.
LEMMA CallersStep == OrderInv /\ SlotInv /\ [Next]_vars => CallersAreSettled'
<1> SUFFICES ASSUME OrderInv, SlotInv, [Next]_vars PROVE CallersAreSettled'
  OBVIOUS
<1>0. Typed /\ waiting \in Seq(WriteCall) /\ CallersAreSettled
  BY DEF OrderInv, Typed, TypeOK, SlotInv
<1>1. SettledCalls \subseteq SettledCalls'
  <2>1. \A w \in Worker : phase[w] \in SettledPhase => phase'[w] \in SettledPhase
    <3>1. CASE Keeps
      BY <3>1 DEF Keeps
    <3>2. CASE RoundPersists
      BY <3>2 DEF RoundPersists, workerVars
    <3>3. CASE LaunchStarting
      <4> SUFFICES ASSUME NEW w \in Worker, phase[w] \in SettledPhase PROVE phase'[w] = phase[w]
        OBVIOUS
      <4>1. w \in Nat /\ ~(w > workerCount)
        BY DEF SettledPhase, SlotInv, WorkersAreNumbered, Worker
      <4>2. \A t \in starting : w # InstanceFor(t)
        BY <4>1, NumbersAreFresh
      <4> QED
        BY <3>3, <4>2 DEF LaunchStarting
    <3> QED
      BY <1>0, <3>1, <3>2, <3>3, SlotKinds DEF StartsTasks
  <2> QED
    BY <2>1 DEF SettledCalls, WriteCall
<1>2. \A i \in DOMAIN waiting' : waiting'[i] \in SettledCalls'
  <2>1. CASE UNCHANGED waiting
    BY <1>0, <1>1, <2>1 DEF CallersAreSettled
  <2>2. CASE waiting # <<>> /\ waiting' = Tail(waiting)
    <3>1. \A i \in DOMAIN waiting' : i + 1 \in DOMAIN waiting /\ waiting'[i] = waiting[i + 1]
      BY <1>0, <2>2
    <3> QED
      BY <1>0, <1>1, <3>1 DEF CallersAreSettled
  <2>3. ASSUME NEW call \in WriteCall, call \in SettledCalls', waiting' = Append(waiting, call)
        PROVE  \A i \in DOMAIN waiting' : waiting'[i] \in SettledCalls'
    <3>1. \A i \in DOMAIN waiting' : \/ i \in DOMAIN waiting /\ waiting'[i] = waiting[i]
                                    \/ waiting'[i] = call
      BY <1>0, <2>3
    <3> QED
      BY <1>0, <1>1, <2>3, <3>1 DEF CallersAreSettled
  <2>4. Write(NoWorker, "crash") \in WriteCall /\ Write(NoWorker, "crash") \in SettledCalls'
    BY DEF Write, WriteCall, OnRejection, SettledCalls
  <2>5. \A call \in WriteCall :
           (call.worker # NoWorker => phase'[call.worker] = "settling") => call \in SettledCalls'
    BY DEF SettledCalls, WriteCall, SettledPhase
  <2> QED
    BY <1>0, <2>1, <2>2, <2>3, <2>4, <2>5, QueueStep
<1>3. \A write \in holder' : write.call \in SettledCalls'
  <2>1. CASE holder' \in {holder, {}}
    BY <1>0, <1>1, <2>1 DEF CallersAreSettled
  <2>2. CASE BuildDocument
    <3>1. 1 \in DOMAIN waiting /\ Head(waiting) = waiting[1]
      BY <1>0, <2>2 DEF BuildDocument
    <3> QED
      BY <1>0, <1>1, <2>2, <3>1 DEF BuildDocument, CallersAreSettled
  <2> QED
    BY <1>0, <2>1, <2>2, QueueStep
<1> QED
  BY <1>2, <1>3 DEF CallersAreSettled

\* Every step keeps the workers, the claims and their callers together.
LEMMA SlotStep == OrderInv /\ SlotInv /\ [Next]_vars => SlotInv'
<1> SUFFICES ASSUME OrderInv, SlotInv, [Next]_vars PROVE SlotInv'
  OBVIOUS
<1>1. CallersAreSettled'
  BY CallersStep
<1>2. WorkersAreNumbered' /\ OnlyRoundsStart' /\ ClaimHasWorker'
  <2>1. CallersAreSettled
    BY DEF SlotInv
  <2> QED
    BY <2>1, SlotKinds, KeepingStep, RoundStep, LaunchStep DEF StartsTasks
<1> QED
  BY <1>1, <1>2 DEF SlotInv

\* No slot leaks (mission-orchestrator.ts launchWorker, handleWorkerOutcome): for every graph,
\* limit, chain and number of workers and failures, the worker launched last for a claimed task
\* is at work and will give the claim back, unless that very launch failed, or the task belongs
\* to a round whose write is under way or was rejected.
THEOREM NoSlotLeaks == Spec => []ClaimHasWorker
<1>1. Init => SlotInv
  <2> SUFFICES ASSUME Init PROVE SlotInv
    OBVIOUS
  <2>1. WorkersAreNumbered
    BY FS_EmptySet, OrchestratorAssumption DEF Init, WorkersAreNumbered
  <2>2. OnlyRoundsStart /\ CallersAreSettled /\ ClaimHasWorker
    BY DEF Init, DagInit, OnlyRoundsStart, CallersAreSettled, ClaimHasWorker
  <2> QED
    BY <2>1, <2>2 DEF SlotInv
<1>2. SlotInv => ClaimHasWorker
  BY DEF SlotInv
<1> QED
  BY <1>1, <1>2, SlotStep, OrderAlways, PTL DEF Spec
=============================================================================
