-------------------------- MODULE MissionOrchestrator --------------------------
(***************************************************************************)
(* A mission being run (orchestration/mission-orchestrator.ts): the        *)
(* scheduling loop, the workers it launches, the instructions that arrive  *)
(* from people while workers run, cancel(), and the writes of the task     *)
(* chain, which go through the store one at a time (infra/task-store.ts,   *)
(* infra/async-mutex.ts).                                                  *)
(*                                                                         *)
(* The process is one JavaScript thread: code between two awaits is one    *)
(* step, and so is what the microtask queue runs before the next I/O       *)
(* event.  Steps interleave where the code awaits I/O: the store, a        *)
(* worker's run, a git review, the making of a worker, a message.          *)
(***************************************************************************)
EXTENDS DagScheduler, Sequences

CONSTANTS
    Outcome,            \* the outcomes a worker may report in this instance
    GitTask,            \* the tasks whose contribution is reviewed (gitAllocations)
    ResumeEnabled,      \* isCheckpointResumeEnabled
    CancelEnabled,      \* whether cancel() is ever called
    LeaseEnabled,       \* missionLeaseStore is assembled, so the lease can be lost
    MaxLaunches,        \* bound: worker instances
    MaxInstructions,    \* bound: instructions received
    MaxStoreFailures,   \* bound: writes of the chain that fail
    MaxLaunchFailures   \* bound: launches that fail or return early

ASSUME OrchestratorAssumption ==
    /\ Outcome \subseteq {"success", "failure", "ambiguous", "permission-ask", "cancelled"}
    /\ GitTask \subseteq Task
    /\ {ResumeEnabled, CancelEnabled, LeaseEnabled} \subseteq BOOLEAN
    /\ MaxLaunches \in Nat /\ MaxInstructions \in Nat
    /\ MaxStoreFailures \in Nat /\ MaxLaunchFailures \in Nat

Worker == 1..MaxLaunches     \* nextWorkerInstanceId: never reused
NoWorker == 0
NoTask == 0                  \* a worker that was not launched yet

VARIABLES
    loop,           \* where runLoop is
    starting,       \* the start-task actions of the round being persisted
    stopping,       \* the stopping flag
    workerCount,    \* workerInstanceCounter
    taskOf,         \* the task each worker was launched for
    phase,          \* where each worker's promise is
    inFlight,       \* inFlightTaskIds
    earlyStop,      \* tasks with an entry in earlyStopObservationsByTask
    resumes,        \* resumeAttemptsByTask
    waiting,        \* the calls of persistChain that wait for the mission's mutex
    holder,         \* {} or {the call that holds it, with the document it built}
    disk,           \* the statuses in task-chain.json
    canceller,      \* where the call of cancel() is
    instructions,   \* bound: instructions received
    storeFailures,  \* bound: failed writes
    launchFailures  \* bound: failed launches

loopVars   == <<loop, starting>>
workerVars == <<workerCount, taskOf, phase, inFlight>>
resumeVars == <<earlyStop, resumes>>
storeVars  == <<waiting, holder, disk>>
cancelVars == <<stopping, canceller>>
boundVars  == <<instructions, storeFailures, launchFailures>>
vars == <<dagVars, loopVars, workerVars, resumeVars, storeVars, cancelVars, boundVars>>

LoopState ==
    {"ready",        \* at the while condition, or renewing the lease, after which
                     \* stopping is looked at again
     "scheduling",   \* past both conditions: awaits ensureGitIntegrationSession
     "persisting",   \* scheduleRound awaits its write of the chain
     "sleeping",     \* sleepUntilWake: wakeResolve is set
     "done",         \* finishMission("done") and returned
     "cancelled",    \* finishMission("cancelled") and returned
     "crashed"}      \* scheduleRound rejected: runLoop rejects, nothing is reported

Phase ==
    {"unborn",
     "launching",    \* launchWorker awaits an attachment, a worktree, a transport
     "stranded",     \* launchWorker failed or returned before making the worker
     "running",      \* worker.run()
     "stoppedEarly", \* run() has recorded an early stop and is about to end
     "reviewing",    \* submitGitContribution
     "settling",     \* handleWorkerOutcome awaits a write of the chain
     "rejected",     \* the worker's promise is rejected and nobody handles it
     "gone"}         \* the worker's promise is settled

\* What a rejected write of the chain does to the caller that awaits it.
OnRejection ==
    {"crash",        \* scheduleRound: the loop rejects
     "escalate",     \* an instruction: reported, and the loop is not woken
     "block",        \* the try block of a success: blockTaskForHumanDecision
     "fail",         \* first handling of another outcome: handled again as a failure
     "swallow",      \* .catch(() => null)
     "unhandled"}    \* already in the catch of launchWorker: nobody catches it

Write(worker, onRejection) == [worker |-> worker, onRejection |-> onRejection]

LoopEnded == loop \in {"done", "cancelled", "crashed"}

Init ==
    /\ DagInit
    /\ loop = "ready" /\ starting = {}
    /\ workerCount = 0
    /\ taskOf = [w \in Worker |-> NoTask]
    /\ phase = [w \in Worker |-> "unborn"]
    /\ inFlight = {}
    /\ earlyStop = {} /\ resumes = [t \in Task |-> 0]
    /\ waiting = <<>> /\ holder = {} /\ disk = status
    /\ stopping = FALSE /\ canceller = "idle"
    /\ instructions = 0 /\ storeFailures = 0 /\ launchFailures = 0

-----------------------------------------------------------------------------
(* The loop.                                                                *)

\* wake(): resolves the promise the loop sleeps on, if there is one.  A loop
\* that is not sleeping does not notice.
Wake == loop' = IF loop = "sleeping" THEN "ready" ELSE loop

PersistChain(worker, onRejection) ==
    waiting' = Append(waiting, Write(worker, onRejection))

\* sleepUntilWake returns at once when the mission is stopping.
SleepUntilWake == IF stopping THEN "ready" ELSE "sleeping"

\* Mutant: the flag is only looked at before the first round.
LoopCheckIgnoringStop ==
    /\ loop = "ready"
    /\ loop' = "scheduling"
    /\ UNCHANGED <<dagVars, starting, workerVars, resumeVars, storeVars, cancelVars, boundVars>>

LoopCheck ==
    /\ loop = "ready"
    /\ loop' = IF stopping THEN "cancelled" ELSE "scheduling"
    /\ UNCHANGED <<dagVars, starting, workerVars, resumeVars, storeVars, cancelVars, boundVars>>

\* scheduleRound finds every task done: complete-mission.
RoundCompletes ==
    /\ loop = "scheduling"
    /\ IsMissionComplete(status)
    /\ loop' = "done"
    /\ UNCHANGED <<dagVars, starting, workerVars, resumeVars, storeVars, cancelVars, boundVars>>

SomeTaskBlocked == \E t \in Task : status[t] = "blocked"

\* scheduleRound claims tasks, or only reports blocked ones, and writes the
\* chain; without a free slot it returns before the write.
RoundPersists ==
    /\ loop = "scheduling"
    /\ ~IsMissionComplete(status)
    /\ HasFreeSlot
    /\ \E S \in SUBSET Task :
          /\ S # {} \/ SomeTaskBlocked
          /\ workerCount + Cardinality(S) <= MaxLaunches
          /\ ClaimRound(S)
          /\ starting' = S
    /\ loop' = "persisting"
    /\ PersistChain(NoWorker, "crash")
    /\ UNCHANGED <<workerVars, resumeVars, holder, disk, cancelVars, boundVars>>

\* Nothing to claim and nothing to write: the round has no actionable action,
\* so the loop goes to sleep.
RoundIdles ==
    /\ loop = "scheduling"
    /\ ~IsMissionComplete(status)
    /\ ~HasFreeSlot \/ (Candidates = {} /\ ~SomeTaskBlocked)
    /\ loop' = SleepUntilWake
    /\ UNCHANGED <<dagVars, starting, workerVars, resumeVars, storeVars, cancelVars, boundVars>>

\* The round's write is over: one launchWorker per start-task action, up to its
\* first await, then sleepUntilWake.  The loop does not look at stopping first.
InstanceFor(t) == workerCount + Cardinality({u \in starting : u <= t})

LaunchStarting ==
    /\ workerCount' = workerCount + Cardinality(starting)
    /\ taskOf' = [w \in Worker |->
                    IF \E t \in starting : w = InstanceFor(t)
                    THEN CHOOSE t \in starting : w = InstanceFor(t) ELSE taskOf[w]]
    /\ phase' = [w \in Worker |->
                    IF \E t \in starting : w = InstanceFor(t)
                    THEN "launching" ELSE phase[w]]
    /\ inFlight' = inFlight \cup starting
    /\ starting' = {}
    /\ loop' = IF inFlight' # {} \/ starting = {} THEN SleepUntilWake ELSE "ready"

-----------------------------------------------------------------------------
(* Workers.                                                                 *)

MoveWorker(w, next) == phase' = [phase EXCEPT ![w] = next]

LaunchSucceeds(w) ==
    /\ phase[w] = "launching"
    /\ MoveWorker(w, "running")
    /\ UNCHANGED <<dagVars, loopVars, workerCount, taskOf, inFlight, resumeVars, storeVars,
                   cancelVars, boundVars>>

\* A factory throws or the worktree cannot be allocated: reported, no more.
\* The claim, the running status and the inFlightTaskIds entry all stay.
LaunchFails(w) ==
    /\ phase[w] = "launching"
    /\ launchFailures < MaxLaunchFailures
    /\ launchFailures' = launchFailures + 1
    /\ MoveWorker(w, "stranded")
    /\ UNCHANGED <<dagVars, loopVars, workerCount, taskOf, inFlight, resumeVars, storeVars,
                   cancelVars, instructions, storeFailures>>

\* Mutant: the observation is kept under the worker instead of its task.
EarlyStopOfWorker(w) ==
    /\ ResumeEnabled
    /\ phase[w] = "running"
    /\ earlyStop' = earlyStop \cup {w}
    /\ MoveWorker(w, "stoppedEarly")
    /\ UNCHANGED <<dagVars, loopVars, workerCount, taskOf, inFlight, resumes, storeVars,
                   cancelVars, boundVars>>

\* onEarlyStopDetected: the run ended in an error or without a completion event.
\* run() will report a failure, or a permission it was refused before that.
EarlyStopDetected(w) ==
    /\ ResumeEnabled
    /\ phase[w] = "running"
    /\ earlyStop' = earlyStop \cup {taskOf[w]}
    /\ MoveWorker(w, "stoppedEarly")
    /\ UNCHANGED <<dagVars, loopVars, workerCount, taskOf, inFlight, resumes, storeVars,
                   cancelVars, boundVars>>

\* handleWorkerOutcome is over without a write: the promise settles, wake().
EndsWithoutWrite(w) ==
    /\ MoveWorker(w, "gone")
    /\ Wake
    /\ UNCHANGED waiting

AwaitsWrite(w, onRejection) ==
    /\ MoveWorker(w, "settling")
    /\ PersistChain(w, onRejection)
    /\ UNCHANGED loop

MayResume(t) == ResumeEnabled /\ t \in earlyStop /\ resumes[t] < 2

\* The bounded continuation of a run that stopped early.
ResumeTask(w, t) ==
    /\ MayResume(t)
    /\ earlyStop' = earlyStop \ {t}
    /\ resumes' = [resumes EXCEPT ![t] = @ + 1]
    /\ ReleaseTaskBackToPending(t)
    /\ IF MayMarkPendingForRetry(status, t)
       THEN AwaitsWrite(w, "swallow") ELSE EndsWithoutWrite(w)

HandleFailure(w, t, onRejection) ==
    \/ ResumeTask(w, t)
    \/ /\ ~MayResume(t)
       /\ UNCHANGED resumeVars
       /\ \/ FinishTaskFailed(t) /\ AwaitsWrite(w, onRejection)
          \/ FinishTaskIgnored(t) /\ EndsWithoutWrite(w)

HandleSuccess(w, t) ==
    /\ UNCHANGED resumeVars
    /\ \/ FinishTaskDone(t) /\ AwaitsWrite(w, "block")
       \/ FinishTaskIgnored(t) /\ EndsWithoutWrite(w)

\* Information or a permission is missing.  When the transition throws, the
\* catch of launchWorker handles the run again, as a failure.
HandleQuestion(w, t) ==
    \/ /\ MayMarkBlocked(status, t)
       /\ BlockTaskForHumanDecision(t)
       /\ AwaitsWrite(w, "fail")
       /\ UNCHANGED resumeVars
    \/ ~MayMarkBlocked(status, t) /\ HandleFailure(w, t, "unhandled")

HandleCancelled(w, t) ==
    \/ /\ MayMarkPendingForRetry(status, t)
       /\ ReleaseTaskBackToPending(t)
       /\ AwaitsWrite(w, "fail")
       /\ UNCHANGED resumeVars
    \/ ~MayMarkPendingForRetry(status, t) /\ HandleFailure(w, t, "unhandled")

HandleOutcome(w, t, outcome) ==
    \/ outcome = "failure" /\ HandleFailure(w, t, "fail")
    \/ outcome = "ambiguous" /\ MayResume(t) /\ ResumeTask(w, t)
    \/ outcome = "ambiguous" /\ ~MayResume(t) /\ HandleQuestion(w, t)
    \/ outcome = "permission-ask" /\ HandleQuestion(w, t)
    \/ outcome = "cancelled" /\ HandleCancelled(w, t)
    \/ outcome = "success" /\ t \notin GitTask /\ HandleSuccess(w, t)
    \/ /\ outcome = "success" /\ t \in GitTask
       /\ MoveWorker(w, "reviewing")
       /\ UNCHANGED <<dagVars, loop, waiting, resumeVars>>

\* worker.run() returns or throws (a throw is a failure).
WorkerReturns(w, outcome) ==
    /\ \/ phase[w] = "running"
       \/ phase[w] = "stoppedEarly" /\ outcome \in {"failure", "permission-ask"}
    /\ inFlight' = inFlight \ {taskOf[w]}
    /\ HandleOutcome(w, taskOf[w], outcome)
    /\ UNCHANGED <<starting, workerCount, taskOf, holder, disk, cancelVars, boundVars>>

ReviewAccepts(w) ==
    /\ phase[w] = "reviewing"
    /\ HandleSuccess(w, taskOf[w])
    /\ UNCHANGED <<starting, workerCount, taskOf, inFlight, holder, disk, cancelVars, boundVars>>

\* blockTaskForHumanDecision where a transition that throws is swallowed.
BlockQuietly(w, t, onRejection) ==
    /\ BlockTaskForHumanDecision(t)
    /\ IF MayMarkBlocked(status, t)
       THEN AwaitsWrite(w, onRejection) ELSE EndsWithoutWrite(w)
    /\ UNCHANGED resumeVars

\* The review rejects (its write is inside the try block) or fails (its write
\* is in the catch).
ReviewRefuses(w, onRejection) ==
    /\ phase[w] = "reviewing"
    /\ BlockQuietly(w, taskOf[w], onRejection)
    /\ UNCHANGED <<starting, workerCount, taskOf, inFlight, holder, disk, cancelVars, boundVars>>

-----------------------------------------------------------------------------
(* The writes of the chain: updateTaskChain under the mission's mutex.      *)

\* The next call gets the mutex, reads the file and builds the new document
\* from the graph as it is by then.
BuildDocument ==
    /\ holder = {} /\ waiting # <<>>
    /\ holder' = {[call |-> Head(waiting), document |-> status]}
    /\ waiting' = Tail(waiting)
    /\ UNCHANGED <<dagVars, loopVars, workerVars, resumeVars, disk, cancelVars, boundVars>>

\* Mutants: the end of an instruction, or of a worker, wakes nobody.
ReturnFromSilentInstruction(call) ==
    \/ call.onRejection = "crash" /\ LaunchStarting
    \/ call.onRejection = "escalate" /\ UNCHANGED <<loop, starting, workerVars>>
    \/ /\ call.worker # NoWorker
       /\ MoveWorker(call.worker, "gone")
       /\ Wake
       /\ UNCHANGED <<starting, workerCount, taskOf, inFlight>>

ReturnFromSilentWorker(call) ==
    \/ call.onRejection = "crash" /\ LaunchStarting
    \/ call.onRejection = "escalate" /\ Wake /\ UNCHANGED <<starting, workerVars>>
    \/ /\ call.worker # NoWorker
       /\ MoveWorker(call.worker, "gone")
       /\ UNCHANGED <<loop, starting, workerCount, taskOf, inFlight>>

\* What runs next after a call of persistChain has returned.
ReturnFrom(call) ==
    \/ call.onRejection = "crash" /\ LaunchStarting
    \/ call.onRejection = "escalate" /\ Wake /\ UNCHANGED <<starting, workerVars>>
    \/ /\ call.worker # NoWorker
       /\ MoveWorker(call.worker, "gone")
       /\ Wake
       /\ UNCHANGED <<starting, workerCount, taskOf, inFlight>>

\* The file is replaced and the call returns; what awaits it runs before the
\* next I/O event.
ChainWritten ==
    \E write \in holder :
        /\ disk' = write.document
        /\ ReturnFrom(write.call)
        /\ holder' = {}
        /\ UNCHANGED <<dagVars, resumeVars, waiting, cancelVars, boundVars>>

\* What the worker whose write was rejected does next.
WorkerIsRejected(w, onRejection) ==
    \/ onRejection = "block" /\ BlockQuietly(w, taskOf[w], "swallow")
    \/ onRejection = "fail" /\ HandleFailure(w, taskOf[w], "unhandled")
    \/ /\ onRejection \in {"swallow", "unhandled"}
       /\ MoveWorker(w, IF onRejection = "swallow" THEN "gone" ELSE "rejected")
       /\ Wake
       /\ UNCHANGED <<dagVars, resumeVars, waiting>>

\* The store fails: before the file is replaced, or after it (the copy to .bak).
ChainRejected ==
    \E write \in holder :
        /\ storeFailures < MaxStoreFailures
        /\ storeFailures' = storeFailures + 1
        /\ disk' \in {disk, write.document}
        /\ \/ /\ write.call.onRejection = "crash"
              /\ loop' = "crashed"
              /\ UNCHANGED <<dagVars, starting, phase, resumeVars, waiting>>
           \/ /\ write.call.onRejection = "escalate"
              /\ UNCHANGED <<dagVars, loopVars, phase, resumeVars, waiting>>
           \/ /\ write.call.worker # NoWorker
              /\ WorkerIsRejected(write.call.worker, write.call.onRejection)
              /\ UNCHANGED starting
        /\ holder' = {}
        /\ UNCHANGED <<workerCount, taskOf, inFlight, cancelVars, instructions, launchFailures>>

-----------------------------------------------------------------------------
(* Instructions of a person (assist-scheduler.ts, devolve-scheduler.ts).    *)

\* "reassign" and "retry" reassign the task, "cancel" gives it back.  An
\* instruction whose transition throws is escalated and wakes nobody.
Reconsider(t) ==
    /\ ReassignTask(t) \/ CancelTask(t)
    /\ IF MayMarkPendingForRetry(status, t)
       THEN PersistChain(NoWorker, "escalate") ELSE UNCHANGED waiting
    /\ UNCHANGED loop

\* Mutant: the graph changes and the file does not.
UnblockUnsaved(t) ==
    /\ UnblockTask(t) \/ (~IsUnblockable(t) /\ UNCHANGED dagVars)
    /\ Wake
    /\ UNCHANGED waiting

Unblock(t) ==
    \/ UnblockTask(t) /\ PersistChain(NoWorker, "escalate") /\ UNCHANGED loop
    \/ ~IsUnblockable(t) /\ Wake /\ UNCHANGED <<dagVars, waiting>>

Instruction(t) ==
    /\ instructions < MaxInstructions
    /\ instructions' = instructions + 1
    /\ \/ Unblock(t)
       \/ Reconsider(t)
    /\ UNCHANGED <<starting, workerVars, resumeVars, holder, disk, cancelVars,
                   storeFailures, launchFailures>>

-----------------------------------------------------------------------------
(* Stopping.                                                                *)

\* inFlightWorkers: made, and not yet settled.
InFlightWorkers ==
    {w \in Worker : phase[w] \in {"running", "stoppedEarly", "reviewing", "settling"}}

\* Mutant: the loop is not woken.
CancelWithoutWake ==
    /\ CancelEnabled /\ canceller = "idle"
    /\ stopping' = TRUE
    /\ UNCHANGED loop
    /\ canceller' = IF InFlightWorkers = {} THEN "awaitingLoop" ELSE "awaitingWorkers"
    /\ UNCHANGED <<dagVars, starting, workerVars, resumeVars, storeVars, boundVars>>

\* cancel(): stop, wake the loop, abort the workers, then wait.  An aborted
\* worker still returns; which outcome it reports depends on its runtime.
Cancel ==
    /\ CancelEnabled /\ canceller = "idle"
    /\ stopping' = TRUE
    /\ Wake
    /\ canceller' = IF InFlightWorkers = {} THEN "awaitingLoop" ELSE "awaitingWorkers"
    /\ UNCHANGED <<dagVars, starting, workerVars, resumeVars, storeVars, boundVars>>

CancelProceeds(from, to) ==
    /\ canceller = from
    /\ canceller' = to
    /\ UNCHANGED <<dagVars, loopVars, workerVars, resumeVars, storeVars, stopping, boundVars>>

\* Both waits of the branch with workers in flight give up after two seconds.
CancelStopsWaitingForWorkers == CancelProceeds("awaitingWorkers", "awaitingLoopBounded")
CancelGivesUp                == CancelProceeds("awaitingLoopBounded", "returned")

\* Without workers in flight cancel() returns when the loop has ended.
CancelReturns == LoopEnded /\ CancelProceeds("awaitingLoop", "returnedQuiet")

\* stopDueToLostLease from the renewal timer: the flag is set, nobody is woken.
LeaseLost ==
    /\ LeaseEnabled /\ ~stopping /\ ~LoopEnded
    /\ stopping' = TRUE
    /\ UNCHANGED <<dagVars, loopVars, workerVars, resumeVars, storeVars, canceller, boundVars>>

-----------------------------------------------------------------------------

LoopStep == LoopCheck \/ RoundCompletes \/ RoundPersists \/ RoundIdles

StoreStep == BuildDocument \/ ChainWritten \/ ChainRejected

WorkerStep(w) ==
    \/ LaunchSucceeds(w) \/ LaunchFails(w)
    \/ EarlyStopDetected(w)
    \/ \E outcome \in Outcome : WorkerReturns(w, outcome)
    \/ ReviewAccepts(w) \/ ReviewRefuses(w, "block") \/ ReviewRefuses(w, "swallow")

CancelStep == CancelStopsWaitingForWorkers \/ CancelGivesUp \/ CancelReturns

Next ==
    \/ LoopStep
    \/ StoreStep
    \/ \E w \in Worker : WorkerStep(w)
    \/ \E t \in Task : Instruction(t)
    \/ Cancel \/ CancelStep \/ LeaseLost

Spec == Init /\ [][Next]_vars

\* The event loop runs what is runnable; the store answers; a worker ends
\* because maxLoopIterations bounds its tool loop.  People promise nothing.
Fairness ==
    /\ WF_vars(LoopStep) /\ WF_vars(StoreStep) /\ WF_vars(CancelStep)
    /\ \A w \in Worker : WF_vars(WorkerStep(w))

FairSpec == Spec /\ Fairness

-----------------------------------------------------------------------------

WriteCall == [worker : Worker \cup {NoWorker}, onRejection : OnRejection]

TypeOK ==
    /\ DagTypeOK
    /\ loop \in LoopState /\ starting \in SUBSET Task
    /\ workerCount \in Nat
    /\ taskOf \in [Worker -> Task \cup {NoTask}]
    /\ phase \in [Worker -> Phase]
    /\ inFlight \in SUBSET Task
    /\ earlyStop \in SUBSET Task /\ resumes \in [Task -> 0..2]
    /\ waiting \in Seq(WriteCall)
    /\ holder \in SUBSET [call : WriteCall, document : [Task -> Status]]
    /\ disk \in [Task -> Status]
    /\ stopping \in BOOLEAN
    /\ canceller \in {"idle", "awaitingLoop", "awaitingWorkers", "awaitingLoopBounded",
                      "returned", "returnedQuiet"}
    /\ instructions \in 0..MaxInstructions
    /\ storeFailures \in 0..MaxStoreFailures
    /\ launchFailures \in 0..MaxLaunchFailures

\* There is something for a round to do: start a task or report the end.
WorkForRound == IsMissionComplete(status) \/ (HasFreeSlot /\ Candidates # {})

NoWrite == holder = {} /\ waiting = <<>>

\* No wake-up is lost.  While the loop sleeps and a round would have something
\* to do, a write of the chain is under way whose end wakes the loop: a change of
\* the graph that falls between a round and its sleep is never missed.
NoLostWakeup ==
    loop = "sleeping" /\ WorkForRound /\ storeFailures = 0 => ~NoWrite

\* The chain on disk is the graph in memory whenever no write is queued, though
\* the graph is changed before its writer holds the mutex and a write may carry
\* the changes of the calls behind it.
QuietChainIsPersisted == NoWrite /\ storeFailures = 0 => disk = status

\* The file never claims more than happened: a task recorded as done is done,
\* also when writes fail at any point.
RecordedDoneIsDone == \A t \in Task : disk[t] = "done" => status[t] = "done"

\* The parts of the inductive invariant behind the three properties above.

\* A worker that exists was launched for a task, and only such workers write.
WorkersHaveTasks == \A w \in Worker : phase[w] # "unborn" => taskOf[w] \in Task

WellFormed(call) ==
    IF call.worker = NoWorker THEN call.onRejection \in {"crash", "escalate"}
    ELSE /\ call.onRejection \in {"block", "fail", "swallow", "unhandled"}
         /\ phase[call.worker] # "unborn"

CallsAreWellFormed ==
    /\ \A i \in DOMAIN waiting : WellFormed(waiting[i])
    /\ \A write \in holder : WellFormed(write.call)

IsRoundCall(call) == call.onRejection = "crash"

\* At most one call is that of a round, and the loop awaits it.
OneRoundCall ==
    /\ \A i \in DOMAIN waiting : IsRoundCall(waiting[i]) =>
          /\ loop = "persisting"
          /\ \A j \in DOMAIN waiting : IsRoundCall(waiting[j]) => i = j
          /\ \A write \in holder : ~IsRoundCall(write.call)
    /\ \A write \in holder : IsRoundCall(write.call) => loop = "persisting"

\* Work that appears while a round awaits its write came with a later call,
\* which ends after the loop has gone to sleep.
LaterCallFollows ==
    loop = "persisting" /\ WorkForRound /\ storeFailures = 0 =>
        IF waiting = <<>> THEN \A write \in holder : ~IsRoundCall(write.call)
        ELSE ~IsRoundCall(waiting[Len(waiting)])

\* The document under way is up to date unless a later call waits.
DocumentIsCurrent ==
    storeFailures = 0 /\ waiting = <<>> => \A write \in holder : write.document = status

MutexIsExclusive == \A write, other \in holder : write = other

DocumentDoneIsDone ==
    \A write \in holder, t \in Task : write.document[t] = "done" => status[t] = "done"

WriteInv ==
    /\ WorkersHaveTasks /\ CallsAreWellFormed
    /\ MutexIsExclusive /\ OneRoundCall /\ LaterCallFollows /\ NoLostWakeup
    /\ DocumentIsCurrent /\ QuietChainIsPersisted
    /\ DocumentDoneIsDone /\ RecordedDoneIsDone

LivePhase == {"launching", "running", "stoppedEarly", "reviewing"}

\* The worker launched last for a task.
IsNewestFor(w, t) == taskOf[w] = t /\ \A v \in Worker : taskOf[v] = t => v <= w

\* No slot leaks.  A claimed task is about to be launched, or the last worker
\* launched for it is at work and gives the claim back when it ends; only the
\* claim whose own launch failed stays behind, and those of the very round whose
\* write was rejected.  Another worker's failure is no excuse, and neither is an
\* earlier failure of the same task that was given back and launched again.
ClaimHasWorker ==
    \A t \in claimed \ starting :
        \E w \in Worker : IsNewestFor(w, t) /\ phase[w] \in LivePhase \cup {"stranded"}

\* Liveness.  A task that may start does start, unless the mission is stopped.
RunnableStarts ==
    \A t \in Task : t \in Runnable(status) ~> (t \notin Runnable(status) \/ LoopEnded \/ stopping)

\* A complete mission is reported: the loop is woken by the last worker.
CompletionIsReported == IsMissionComplete(status) ~> LoopEnded

\* A mission that is cancelled ends its loop, also when the lease was lost before.
CancelEndsLoop == (canceller # "idle") ~> LoopEnded

\* A lost lease wakes nobody, but the loop ends all the same if it is not asleep
\* or if a worker is at work, whose end wakes it.  (A loop that sleeps because all
\* its tasks wait for people sleeps on.)
LostLeaseEndsLoop ==
    (stopping /\ (loop # "sleeping" \/ \E w \in Worker : phase[w] \in LivePhase)) ~> LoopEnded

\* cancel() itself returns.
CancelReturnsEventually == (canceller # "idle") ~> (canceller \in {"returned", "returnedQuiet"})


\* The scheduling of a mission makes progress until it is over.
MissionProgresses == RunnableStarts /\ CompletionIsReported

\* cancel() ends the loop and returns, at whichever point of it it comes.
CancelIsAnswered == CancelEndsLoop /\ CancelReturnsEventually
=============================================================================
