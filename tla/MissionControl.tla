---------------------------- MODULE MissionControl ----------------------------
(***************************************************************************)
(* One mission seen from outside: the processes that create it, resume it, *)
(* recover it with execution, cancel it or abandon it                      *)
(* (orchestration/main-controller.ts, mission-manager.ts,                  *)
(* recovery-center-controller.ts and the commands of tui/src/cli), what    *)
(* they leave on disk (the summary, the task chain, the lease) and the     *)
(* scheduler each of them may run.                                         *)
(*                                                                         *)
(* A process runs one command.  The scheduler is MissionOrchestrator with  *)
(* its interior hidden: a round starts what is runnable, a task ends done  *)
(* or blocked, and each write of the chain is one step.  The lease is      *)
(* MissionLease with punctual renewals: it expires only when its owner is  *)
(* dead.  A takeover has the steps it has there; a renewal and a release,  *)
(* whose read and write nothing but a takeover can separate, are one each. *)
(***************************************************************************)
EXTENDS Naturals, Sequences, FiniteSets

CONSTANTS
    ChainTask,      \* the tasks the prompt is decomposed into
    Before,         \* Before[t]: the tasks t depends on
    Process,        \* the processes that run a command
    Command,        \* the commands they may run in this instance
    Nobody,
    Earlier,        \* a process that ended before: it has left a mission behind
    Takeover,       \* the identifier all takeovers share
    LeftChains,     \* the chains it may have left in this instance
    MaxRenewals,    \* bound: renewals of one lease
    MaxCrashes      \* bound: processes that end in the middle of a command

ASSUME ControlAssumption ==
    /\ Before \in [ChainTask -> SUBSET ChainTask]
    /\ {Nobody, Earlier, Takeover} \cap Process = {}
    /\ Nobody # Earlier /\ Nobody # Takeover
    /\ LeftChains \subseteq [ChainTask -> {"pending", "running", "blocked", "done"}]
    /\ MaxRenewals \in Nat /\ MaxCrashes \in Nat
    /\ Command \subseteq {"create", "resume", "execute", "cancel", "abandon"}

VARIABLES
    chain,      \* task-chain.json: the status of each task, or "absent"
    summary,    \* summary.json: the status, or "none"
    lease,      \* mission-lease.json: owner, whether it is fresh, and revision
    at,         \* where the command of each process is
    expected,   \* the revision a takeover has read (staleLease.leaseRevision)
    scheduler,  \* the scheduler of each process (activeOrchestrators)
    ownChain,   \* the tasks the scheduler was launched with, and their status
    claimed,    \* the tasks a worker of the process runs
    writes,     \* updateMissionStatus calls that wait for summaryWriteMutex
    finished,   \* history: the tasks that were done once
    raced,      \* history: a takeover passed its check while another had
    crashes     \* bound

files == <<chain, summary, lease>>
recovery == <<expected, raced>>
control == <<files, at, recovery, scheduler, ownChain, claimed, writes, finished, crashes>>

NoTasks == [t \in ChainTask |-> "absent"]
InChain(tasks) == {t \in ChainTask : tasks[t] # "absent"}
Incomplete(tasks) == {t \in InChain(tasks) : tasks[t] # "done"}
ReadyIn(tasks) ==
    {t \in ChainTask : tasks[t] = "pending" /\ \A d \in Before[t] : tasks[d] = "done"}

\* Mutant: only what nobody has started is resumed.
PendingOnly(tasks) ==
    [t \in ChainTask |-> IF tasks[t] = "pending" THEN tasks[t] ELSE "absent"]

\* resumeMission: the initial chain of the new scheduler has the tasks that are
\* not done, with the status they have on disk.
ToResume(tasks) ==
    [t \in ChainTask |-> IF t \in Incomplete(tasks) THEN tasks[t] ELSE "absent"]

\* TaskGraph: a dependency that is not in the chain is refused.
Constructs(tasks) == \A t \in InChain(tasks) : Before[t] \subseteq InChain(tasks)

Free == [owner |-> Nobody, fresh |-> FALSE, revision |-> 0]
LeaseOf(p, revision) == [owner |-> p, fresh |-> TRUE, revision |-> revision]
Alive(p) == p \in Process /\ at[p] \notin {"off", "over"}

\* A new mission, or one whose process ended with the lease in its hands.
ControlInit ==
    /\ \/ chain = NoTasks /\ summary = "none" /\ lease = Free
       \/ chain \in LeftChains /\ summary = "running" /\ lease = LeaseOf(Earlier, 1)
    /\ expected = [p \in Process |-> 0] /\ raced = FALSE
    /\ at = [p \in Process |-> "off"]
    /\ scheduler = [p \in Process |-> "none"]
    /\ ownChain = [p \in Process |-> NoTasks]
    /\ claimed = [p \in Process |-> {}] /\ writes = [p \in Process |-> <<>>]
    /\ finished = {t \in ChainTask : chain[t] = "done"} /\ crashes = 0

Takes(p, from, to) == at[p] = from /\ at' = [at EXCEPT ![p] = to]

\* updateMissionStatus: a mission without a summary keeps none.
SummaryBecomes(status) == summary' = IF summary = "none" THEN "none" ELSE status

\* launch...Mission: the scheduler is entered in activeOrchestrators and its
\* start() is not awaited.  A chain TaskGraph refuses makes the call throw.
Launch(p, tasks) ==
    IF Constructs(tasks)
    THEN /\ scheduler' = [scheduler EXCEPT ![p] = "starting"]
         /\ ownChain' = [ownChain EXCEPT ![p] = tasks]
         /\ at' = [at EXCEPT ![p] = "waits"]
    ELSE at' = [at EXCEPT ![p] = "over"] /\ UNCHANGED <<scheduler, ownChain>>

-----------------------------------------------------------------------------
(* The commands.                                                            *)

\* handleUserMessage: the chain, the summary, then the launch.
CreatesChain(p) ==
    /\ "create" \in Command /\ Takes(p, "off", "created") /\ chain = NoTasks
    /\ chain' = [t \in ChainTask |-> "pending"]
    /\ UNCHANGED <<summary, lease, scheduler, ownChain, claimed, writes, finished, crashes, recovery>>

CreatesSummary(p) ==
    /\ at[p] = "created" /\ summary' = "running"
    /\ Launch(p, [t \in ChainTask |-> "pending"])
    /\ UNCHANGED <<chain, lease, claimed, writes, finished, crashes, recovery>>

\* refuseIfMissionActiveElsewhere and its counterpart in recover resume
ActiveElsewhere == lease.owner # Nobody /\ lease.fresh

ResumeChecks(p) ==
    /\ "resume" \in Command /\ Incomplete(chain) # {} /\ ~ActiveElsewhere
    /\ Takes(p, "off", "resumes")
    /\ UNCHANGED <<files, scheduler, ownChain, claimed, writes, finished, crashes, recovery>>

\* MainController.resumeMission: the chain is read ...
ResumeReads(p) ==
    /\ at[p] = "resumes"
    /\ at' = [at EXCEPT ![p] = IF Incomplete(chain) = {} THEN "over" ELSE "hasRead"]
    /\ ownChain' = [ownChain EXCEPT ![p] = ToResume(chain)]
    /\ UNCHANGED <<files, scheduler, claimed, writes, finished, crashes, recovery>>

\* ... the summary set to running, and the scheduler launched.
ResumeLaunches(p) ==
    /\ at[p] = "hasRead" /\ SummaryBecomes("running") /\ Launch(p, ownChain[p])
    /\ UNCHANGED <<chain, lease, claimed, writes, finished, crashes, recovery>>

\* recover resume --execute: the guard, RecoveryCenterController.resumeMission
\* (a trusted checkpoint without open questions), the takeover of an expired
\* lease and its release, then as above.
ExecuteChecks(p) ==
    /\ "execute" \in Command /\ chain # NoTasks /\ ~ActiveElsewhere
    /\ Takes(p, "off", "probes")
    /\ UNCHANGED <<files, scheduler, ownChain, claimed, writes, finished, crashes, recovery>>

CenterProbes(p) ==
    /\ at[p] = "probes"
    /\ at' = [at EXCEPT ![p] = IF summary \in {"done", "cancelled"} THEN "over" ELSE "probed"]
    /\ UNCHANGED <<files, scheduler, ownChain, claimed, writes, finished, crashes, recovery>>

CenterResumes(p) ==
    /\ Takes(p, "probed", "takesOver") /\ SummaryBecomes("running")
    /\ UNCHANGED <<chain, lease, scheduler, ownChain, claimed, writes, finished, crashes, recovery>>

unmovedByTakeover == <<chain, summary, scheduler, ownChain, claimed, writes, finished, crashes>>

\* Mutant: the lease is taken whatever its age.
AnyLease == lease.owner # Nobody

Expired == lease.owner # Nobody /\ ~lease.fresh

\* readLease: without a lease there is nothing to take over.
InspectsLease(p) ==
    /\ Takes(p, "takesOver", IF lease.owner = Nobody THEN "resumes" ELSE "confirms")
    /\ expected' = [expected EXCEPT ![p] = lease.revision]
    /\ UNCHANGED <<lease, raced, unmovedByTakeover>>

\* readLeaseSummary: an active lease is left to the session that follows.
ConfirmsExpiry(p) ==
    /\ Takes(p, "confirms", IF ActiveElsewhere THEN "resumes" ELSE "checks")
    /\ UNCHANGED <<lease, recovery, unmovedByTakeover>>

\* Past the check of takeOverExpiredLease, before the release is over.
TakingOver(p) == at[p] \in {"renames", "returns", "drops"}

\* takeOverExpiredLease: the lease is read and compared; an error ends the command ...
ChecksTakeover(p) ==
    /\ Takes(p, "checks",
             IF Expired /\ lease.revision = expected[p] THEN "renames" ELSE "over")
    /\ raced' = (raced \/ (at'[p] = "renames" /\ \E q \in Process : TakingOver(q)))
    /\ UNCHANGED <<lease, expected, unmovedByTakeover>>

\* ... and replaced, whatever it is by now.
TakesOver(p) ==
    /\ Takes(p, "renames", "returns")
    /\ lease' = LeaseOf(Takeover, expected[p] + 1)
    /\ UNCHANGED <<recovery, unmovedByTakeover>>

\* releaseLease: a lease of another owner or revision ends the command, ...
ReadsTakenOver(p) ==
    /\ Takes(p, "returns",
             IF lease.owner = Nobody THEN "resumes"
             ELSE IF lease.owner = Takeover /\ lease.revision = expected[p] + 1 THEN "drops" ELSE "over")
    /\ UNCHANGED <<lease, recovery, unmovedByTakeover>>

\* ... the file is removed by its name.
DropsTakenOver(p) ==
    /\ Takes(p, "drops", "resumes") /\ lease' = Free
    /\ UNCHANGED <<recovery, unmovedByTakeover>>

CancelChecks(p) ==
    /\ "cancel" \in Command /\ chain # NoTasks /\ ~ActiveElsewhere
    /\ Takes(p, "off", "cancels")
    /\ UNCHANGED <<files, scheduler, ownChain, claimed, writes, finished, crashes, recovery>>

\* cancelMission in a process that has no scheduler, and abandonMission: only
\* the summary changes.
CancelWrites(p) ==
    /\ Takes(p, "cancels", "over") /\ SummaryBecomes("cancelled")
    /\ UNCHANGED <<chain, lease, scheduler, ownChain, claimed, writes, finished, crashes, recovery>>

Abandons(p) ==
    /\ "abandon" \in Command /\ chain # NoTasks
    /\ Takes(p, "off", "over") /\ SummaryBecomes("cancelled")
    /\ UNCHANGED <<chain, lease, scheduler, ownChain, claimed, writes, finished, crashes, recovery>>

\* waitForResumeResult sees a final status: the process shuts its scheduler down.
StopsWaiting(p) ==
    /\ Takes(p, "waits", "closes")
    /\ summary \in {"done", "cancelled", "blocked"}
    /\ UNCHANGED <<files, scheduler, ownChain, claimed, writes, finished, crashes, recovery>>

\* cancelMission in the process that runs the mission: cancel(), then the summary.
CancelsOwn(p) ==
    /\ "cancel" \in Command /\ Takes(p, "waits", "cancelsOwn")
    /\ UNCHANGED <<files, scheduler, ownChain, claimed, writes, finished, crashes, recovery>>

Closing(p) == at[p] \in {"closes", "cancelsOwn"}

Leaves(p) ==
    /\ Closing(p) /\ scheduler[p] \in {"none", "ended"} /\ writes[p] = <<>> /\ claimed[p] = {}
    /\ IF at[p] = "cancelsOwn" THEN SummaryBecomes("cancelled") ELSE UNCHANGED summary
    /\ at' = [at EXCEPT ![p] = "over"]
    /\ UNCHANGED <<chain, lease, scheduler, ownChain, claimed, writes, finished, crashes, recovery>>

-----------------------------------------------------------------------------
(* The scheduler of a process.                                              *)

AsksFor(p, status) == writes' = [writes EXCEPT ![p] = Append(@, status)]
Persist(p, tasks) == ownChain' = [ownChain EXCEPT ![p] = tasks] /\ chain' = tasks

\* Mutant: a session takes an expired lease itself.
IsFreeOrExpired == lease.owner = Nobody \/ ~lease.fresh

IsFree == lease.owner = Nobody

\* start(): with the lease it runs (and ends at once when it was cancelled
\* meanwhile); without it it is removed from activeOrchestrators and the mission
\* is set to blocked.
Acquires(p) ==
    /\ scheduler[p] = "starting" /\ IsFree
    /\ lease' = LeaseOf(p, 1)
    /\ scheduler' = [scheduler EXCEPT ![p] = "running"]
    /\ UNCHANGED <<chain, summary, at, ownChain, claimed, writes, finished, crashes, recovery>>

IsLockedOut(p) ==
    /\ scheduler[p] = "starting" /\ lease.owner # Nobody
    /\ scheduler' = [scheduler EXCEPT ![p] = "none"]
    /\ AsksFor(p, "blocked")
    /\ UNCHANGED <<files, at, ownChain, claimed, finished, crashes, recovery>>

Renews(p) ==
    /\ scheduler[p] = "running" /\ lease.owner = p /\ lease.revision <= MaxRenewals
    /\ lease' = LeaseOf(p, lease.revision + 1)
    /\ UNCHANGED <<chain, summary, at, scheduler, ownChain, claimed, writes, finished, crashes, recovery>>

StartsTasks(p) ==
    /\ scheduler[p] = "running" /\ at[p] = "waits"
    /\ ReadyIn(ownChain[p]) # {}
    /\ Persist(p, [t \in ChainTask |->
                    IF t \in ReadyIn(ownChain[p]) THEN "running" ELSE ownChain[p][t]])
    /\ claimed' = [claimed EXCEPT ![p] = @ \cup ReadyIn(ownChain[p])]
    /\ UNCHANGED <<summary, lease, at, scheduler, writes, finished, crashes, recovery>>

\* a worker ends: the task is done, blocked for a decision, or pending again
\* because the scheduler was cancelled; its scheduler may have ended by then
TaskEnds(p, t, status) ==
    /\ t \in claimed[p]
    /\ status = "pending" => Closing(p)
    /\ Persist(p, [ownChain[p] EXCEPT ![t] = status])
    /\ claimed' = [claimed EXCEPT ![p] = @ \ {t}]
    /\ finished' = IF status = "done" THEN finished \cup {t} ELSE finished
    /\ UNCHANGED <<summary, lease, at, scheduler, writes, crashes, recovery>>

\* the loop ends when every task of its graph is done, when it is cancelled or when
\* the renewal finds that the lease is lost.  It waits for no worker: it is cancel()
\* that waits for them (for at most two seconds; after that the process ends, which
\* is Crashes below)
MayEnd(p) == Incomplete(ownChain[p]) = {} \/ Closing(p) \/ lease.owner # p

LoopEnds(p) ==
    /\ scheduler[p] = "running" /\ MayEnd(p)
    /\ scheduler' = [scheduler EXCEPT ![p] = "releases"]
    /\ AsksFor(p, IF Incomplete(ownChain[p]) = {} THEN "done" ELSE "cancelled")
    /\ UNCHANGED <<files, at, ownChain, claimed, finished, crashes, recovery>>

Releases(p) ==
    /\ scheduler[p] = "releases"
    /\ scheduler' = [scheduler EXCEPT ![p] = "ended"]
    /\ lease' = IF lease.owner = p THEN Free ELSE lease
    /\ UNCHANGED <<chain, summary, at, ownChain, claimed, writes, finished, crashes, recovery>>

StatusWritten(p) ==
    /\ writes[p] # <<>>
    /\ SummaryBecomes(Head(writes[p]))
    /\ writes' = [writes EXCEPT ![p] = Tail(@)]
    /\ UNCHANGED <<chain, lease, at, scheduler, ownChain, claimed, finished, crashes, recovery>>

\* The process ends here, whatever it was doing.
Crashes(p) ==
    /\ Alive(p) /\ crashes < MaxCrashes /\ crashes' = crashes + 1
    /\ at' = [at EXCEPT ![p] = "over"]
    /\ scheduler' = [scheduler EXCEPT ![p] = "none"]
    /\ claimed' = [claimed EXCEPT ![p] = {}] /\ writes' = [writes EXCEPT ![p] = <<>>]
    /\ UNCHANGED <<files, ownChain, finished, recovery>>

LeaseExpires ==
    /\ lease.owner # Nobody /\ ~Alive(lease.owner) /\ lease.fresh
    /\ lease' = [lease EXCEPT !.fresh = FALSE]
    /\ UNCHANGED <<chain, summary, at, scheduler, ownChain, claimed, writes, finished, crashes, recovery>>

ControlNext ==
    \/ LeaseExpires
    \/ \E p \in Process :
        \/ CreatesChain(p) \/ CreatesSummary(p)
        \/ ResumeChecks(p) \/ ResumeReads(p) \/ ResumeLaunches(p)
        \/ ExecuteChecks(p) \/ CenterProbes(p) \/ CenterResumes(p)
        \/ InspectsLease(p) \/ ConfirmsExpiry(p) \/ ChecksTakeover(p)
        \/ TakesOver(p) \/ ReadsTakenOver(p) \/ DropsTakenOver(p)
        \/ CancelChecks(p) \/ CancelWrites(p) \/ Abandons(p)
        \/ StopsWaiting(p) \/ CancelsOwn(p) \/ Leaves(p)
        \/ Acquires(p) \/ IsLockedOut(p) \/ Renews(p) \/ StartsTasks(p)
        \/ \E t \in ChainTask, status \in {"done", "blocked", "pending"} : TaskEnds(p, t, status)
        \/ LoopEnds(p) \/ Releases(p)
        \/ StatusWritten(p) \/ Crashes(p)

ControlSpec == ControlInit /\ [][ControlNext]_control

-----------------------------------------------------------------------------
(* Properties.                                                              *)

\* A task that is no longer in the chain was done: whatever commands overlap,
\* no write of a chain drops unfinished work.
NoTaskIsLost ==
    chain # NoTasks => ChainTask \ InChain(chain) \subseteq finished

\* Two processes never schedule the mission at the same time, and a worker runs only
\* while its process owns the lease or shuts down (the loop releases the lease
\* without waiting for the workers that cancel() aborts).  This is so until a
\* takeover passes its check while another one has not released its lease
\* (commands.ts:3480, mission-lease-store.ts:228): what then happens is two_recoveries.
OneProcessWorks ==
    raced \/ \A p \in Process :
        /\ scheduler[p] \in {"running", "releases"} => lease.owner = p
        /\ claimed[p] # {} => lease.owner = p \/ Closing(p)

\* After it was created the chain on disk is only ever replaced by the chain of the
\* process that owns the lease, or of one that shuts down; the same overlap of two
\* takeovers excepted.
OnlyTheOwnerWrites ==
    [][chain' # chain /\ chain # NoTasks /\ ~raced =>
          \E p \in Process : chain' = ownChain'[p] /\ (lease.owner = p \/ Closing(p))]_control

\* recover resume --execute goes on with the mission "to complete its unfinished
\* tasks" (tui/src/cli/commands.ts:3397): a task the resumed scheduler has as
\* running has a worker.
ResumedTasksHaveWorkers ==
    \A p \in Process :
        scheduler[p] = "running" => {t \in ChainTask : ownChain[p][t] = "running"} \subseteq claimed[p]

\* The chain and the lease of a mission, whichever commands overlap and crash.
ControlInv == NoTaskIsLost /\ OneProcessWorks
=============================================================================
