# Verification of Astarray's mission engine

TLA+ modules, TLC configurations and TLAPS proofs about the program that runs
missions of several model-driven agents (`src/packages/core`, and the commands of
`src/packages/tui` that start, resume, cancel and recover missions). Everything is
translated from the source; line numbers are in `PROJECT.json`.

## The system

| Component | State | Operations | Interaction | Hard behaviour | What makes it correct |
|---|---|---|---|---|---|
| Task graph `core/task-graph.ts` | status per task | `mark…`, `propagateFailureToDownstream` | called by the scheduler | guarded transitions that throw | legal transitions, dependency order |
| DAG scheduler `orchestration/dag-scheduler.ts` | the graph, `claimedTaskIds` | `scheduleRound`, `finishTask`, `release…`, `block…`, `cancelTask`, `reassignTask`, `unblockTask` | called by the orchestrator and by instructions; writes through the store | operations in any order, late and repeated, a chain resumed with running tasks | claims and runs agree, slots, done is final |
| Mission orchestrator `orchestration/mission-orchestrator.ts` (and its two callers, `assist-scheduler.ts`, `devolve-scheduler.ts`) | loop, `stopping`, in-flight sets, early stops, resumptions, lease revision | `runLoop`, `launchWorker`, `handleWorkerOutcome`, `cancel`, instructions, lease timer | everything below | asynchronous interleavings, failing writes, stop during a round | no lost wake-up, no leaked claim, file follows graph, cancel returns |
| Chain store `infra/task-store.ts`, `infra/async-mutex.ts`, `infra/atomic-json.ts` | a JSON file and its `.bak` per mission, one mutex per mission | `updateTaskChain`, `saveTaskChain` | called by scheduler and mission manager | failing writes, several processes | the file never claims what is not so |
| Mission lease `infra/mission-lease-store.ts` | a lease file with revision and expiry | `tryAcquire`, `renewLease`, `releaseLease`, takeover | between processes; the orchestrator's timer | races of processes, clock, crash after create | one holder at a time, a lost lease is noticed |
| Controllers and commands `main-controller.ts`, `mission-manager.ts`, `recovery-center-controller.ts`, `tui/src/cli/commands.ts` | chain, summary and lease on disk; `activeOrchestrators` per process | create, resume, `recover resume --execute`, cancel, abandon | processes meet in the files | checks before the lease is held, crashes | one process works, no task is lost |
| Worker run `orchestration/worker-agent.ts`, `runtime/tool-loop.ts` | conversation, tool failures, progress guard, call ledger | `run`, tool calls, completion gate | asks tools, a provider, guidance | several calls in a turn, successive workers of a task | success is earned, the loop is bounded |
| Feedback process `feedback-process/*` | mailbox journals, statuses, timers in a child process | enqueue, deliver, acknowledge, replay, restart | IPC; supervisor | overlapping read-change-write, crashes, repeated delivery | no accepted message is forgotten, mailboxes drain, a child comes back |
| Runtime guidance `runtime-guidance/*` | queue, acceptance, journals | submit, safe point, change, cancel a long tool | user interface → worker | late, repeated and superseded directions, background writes | each applied once, what was told stays decided |
| Git integration `git-*.ts` | session report, branches, HEAD, allocations | start, allocate, submit, finalize | orchestrator → git | submissions that overlap in one checkout, conflicts, restarts | only what was accepted and tested is merged |
| Permission questions `permission-ask-*.ts` | requests with revision and status | ask, decide | worker → person | repeated, overlapping and late decisions | an answer is final |
| Agent task sequences `task-sequence-*.ts`, `agent-task-sequence-store.ts` | a partial order, bundles, audit | publish, insert, move, bundle | several publishers, one file | a change and its audit in two writes | acyclic, chains stay chains, done is traced |
| Context closure and review `context-node-lifecycle.ts`, `local-context-graph-store.ts`, `human-verification-controller.ts` | a graph with counters, capsules, entries for review | complete, close, accept, reject, reopen | worker → person | three writes per closing, graph moves in between | counters right, what is closed can be reviewed |
| Tertiary lifecycle `tertiary-lifecycle.ts` | phase and results, in memory and on disk | `shutdown`, `resume` | hooks of the agent | crash between phases, calls that overlap | phases in order, the handoff last |
| Public application `public-sdk.ts`, `application/application-runtime.ts` | task records, idempotency ledger, monitors | `submitTask`, `queryTask`, `cancelTask`, `shutdown` | user interfaces → controllers | overlapping calls, overlapping writes, crash | a key runs once, a reported end is real |
| Instruction window `orchestration/instruction-window-store.ts` | records by key, capacity, a file with a fingerprint | admit, receipt, capacity | worker, other processes | retries, several outcomes, guarded writes, faults | nothing in two places or in none, the queue is served |
| Local preservation `local-preservation-service.ts` | points: manifest and snapshot directory per reading of a repository | create, reuse, restore | git commands beside a person at work | reads at different moments, failing commands, crash | a ready point restores what was there |
| Cross-project copies `cross-project-authorization-store.ts` | authorizations, receipts, a file | grant, import, read | two projects, several calls | claims, placeholders, many failures | one import per content, a receipt has its copy |
| Gate and permissions `scope-authorization-gate.ts`, `session-permission-elevation.ts` | reservations, grants, an audit record; elevations per session | reserve, settle, grant; add, revoke, close | before and after each tool call | overlapping calls, repetition, unknown results, one array for all sessions | a grant is spent once; what is revoked stays revoked |
| Backups `backup-vault.ts`, `agent-edit-intent-guard.ts`, `builtins.ts` | manifest, copies, baselines | back up, restore, delete with consent | tools, people at the same files | edits at any moment, deletion while asking | what is overwritten has a copy, edits not seen are respected |
| Tool packages `toolkit/tool-package-version-*.ts` | versions and locks, records of consent | register, lock, enable, upgrade, roll back, disable | each command is a process | whole documents saved without a lock | no side effect nobody agreed to |
| Summaries `summarization/*`, `summarizeArchivedMission` | a manifest and a draft per mission, made of the archives of its agents | summarise, read pages | processes of the command line and the application share the files; agents go on recording | archives read one after the other, a draft left behind, overlapping publications | every record once, nothing reported is lost |
| Decision tables, providers, user interfaces | see `PROJECT.json` | | | | |

## What is modelled

Components with state that interact are composed: `MissionOrchestrator` EXTENDS
`DagScheduler`, which EXTENDS `TaskGraph`; `Mailbox` instantiates `FeedbackQueue`; `RuntimeGuidance`,
`PublicApplication`, `FeedbackProcess` and `PermittedTools` put together what reaches a task, what a caller sees, a child with its
supervisor, and what an agent may use.
Components whose interleavings do not meet are checked side by side in one run: a
variable `part` of `MCAgents`, `MCState`, `MCStores` and `MCFeedback` chooses, in the initial state, the one
that moves. Their invariants speak of one part each, so nothing is lost by it.

| Module | Models | State ↔ code | Actions ↔ code |
|---|---|---|---|
| `TaskGraph` | `core/task-graph.ts` as operators on a status function | `Task`, `DependsOn` = `nodesById`; the constructor's two validations are the assumptions `DependsOnAssumption` and `AcyclicAssumption` | `Runnable`, `IsMissionComplete`, `MayMark…` (the accepted previous statuses), `PropagateFailure` |
| `DagScheduler` | `dag-scheduler.ts` | `status`, `claimed` = `claimedTaskIds` | one action per public operation |
| `MissionOrchestrator` | `mission-orchestrator.ts`, the instructions of `assist-scheduler.ts` and `devolve-scheduler.ts`, the write queue of `task-store.ts` | `loop` = where `runLoop` is; `starting` = the start-task actions of the round being written; `phase`, `taskOf`, `workerCount` = the workers; `inFlight` = `inFlightTaskIds`; `earlyStop`, `resumes` = the maps of the bounded resumption; `waiting`, `holder`, `disk` = calls of `persistChain` queued on the mutex, the one inside it, and the file; `stopping`, `canceller` = `cancel()` | one action per stretch of code between two awaits |
| `MissionLease` | `mission-lease-store.ts`, the lease session of `mission-orchestrator.ts`, `recover resume --execute` | `file`, `empty` = `mission-lease.json` with and without content; `session` = where a process is; `held` = the lease it was told it has; `asking`, `renewing` = renewals before and after their read | one action per file operation |
| `MissionControl` | `main-controller.ts`, `mission-manager.ts`, `recovery-center-controller.ts`, the mission commands of `commands.ts` | `chain`, `summary`, `lease` = the three files; `at` = where a command is; `scheduler`, `ownChain`, `claimed` = the orchestrator of a process and its graph; `writes` = `summaryWriteMutex` | one action per file operation of a command, the five of a takeover included; the scheduler is `MissionOrchestrator` with its interior hidden, the lease `MissionLease` with punctual renewals |
| `ToolLoop` | `tool-loop.ts`, `worker-agent.ts`, `local-progress-and-cycle-guard.ts`, `task-call-budget-ledger.ts` | `loop` = the iteration and the calls of the turn; the worker's failed, attempted and succeeded writes; `isGuarded` = whether the guard is enabled, its counts and last results | a turn of the model, a tool before and after its call, the end of a worker, the next worker |
| `Guidance` | `runtime-guidance.ts`, `guidance-control-queue.ts`, `guidance-submission-journal.ts` | what was accepted, what waits, what was applied, and the journal with its readers | acceptance, a second delivery, a safe point, a read and a write of the journal |
| `GuidanceChanges` | `guidance-change-intent*.ts`, `applyGuidanceChange` | decided changes, snapshots on their way to disk, the file | a change arrives, its snapshot lands, a restart |
| `LongToolCancellation` | `long-tool-checkpoint.ts` | executions and requests | begin, request, checkpoint, acknowledgement, declaration of completion, watchdog |
| `RuntimeGuidance` | the three above as one component | no state in common | their specifications conjoined |
| `PermissionAsk` | `permission-ask-request-store.ts`, `permission-ask-decision-entry.ts` | requests, and what a caller has read | register and decide, each in two steps |
| `Mailbox` | `mailbox-journal.ts`, `entrypoint.ts`, `delivery-worker.ts`, `transport.ts` | `mailbox` = the journals; `asked`, `saving` = tasks of the child before and after their read; `timer`, `attempts`, `status`; `delivering`, `keys`, `handling` = the client; `outcome` = what the sender knows | a step per file operation, message and timer; `ChildCrashes`, `ChildRestarts` |
| `FeedbackQueue` | the promise of the feedback process for one message | `stage` | forward moves only; progress |
| `FeedbackSupervisor` | `process-supervisor.ts` | children by number, health requests, restart timers, counters | exits, health checks, timeouts, restarts, `stop()` |
| `FeedbackProcess` | the mailboxes and their supervisor as one component | what the supervisor does reaches the mailboxes as crashes and restarts of the child | their specifications conjoined |
| `GitIntegration` | `git-integration-coordinator.ts`, `git-worktree-allocator.ts` and the calls of `mission-orchestrator.ts` | `head`, `integration`, `target`, `openMerge` = the repository; a branch is the set of contributions in it; `report` = the report on disk, `seen` what a submission has read of it | one action per git command and file operation |
| `TaskSequence` | `task-sequence-controllers.ts`, `task-sequence-partial-order.ts`, `agent-task-sequence-store.ts`, `task-bundle-planner.ts` | the document with its revision; each publisher's call with the revision it has read | a call reads, writes, and writes its audit |
| `ContextClosure` | `context-node-lifecycle.ts`, `local-context-graph-store.ts`, `human-verification-controller.ts`, `recordVerificationDecision` | `graph` = states, edges and counters under one revision; `capsules`, `entries`, `acceptances` = the stores; `closing`, `ruling` = calls under way | a step per write |
| `TertiaryShutdown` | `tertiary-lifecycle.ts` | `lifecycle` = the controller, `lifecycleFile` = the file, `closer` = calls under way | a step per hook and per write; `ProcessEnds` |
| `TaskSubmission` | `submitTask` of `public-sdk.ts` and its ledger | `ledger`, `stored` = the map and its file; `snapshot` = writes under way | a step per await, and the next process |
| `TaskMonitor` | polls, `queryTask` and `cancelTask` of `public-sdk.ts` | `record`, `call`, `answer`, `monitored` | each call in its steps |
| `PublicApplication` | the two above as one component | no state in common | their specifications conjoined |
| `LocalPreservation` | `local-preservation-service.ts`, parsing of `git status` | `work` = the repository as the person has it; `saving` = calls under way with what they have read; `points` = the directories | one action per reading, per write and for the person |
| `CrossProjectImport` | `cross-project-authorization-store.ts`, its two services in `public-sdk.ts` | `memory`, `disk` = the map and its file; `queue`, `writing` = its writes; `importing` = imports, `reader` = the reading service's own store | one action per stretch between awaits, one per way to fail |
| `InstructionWindow` | `instruction-window-store.ts` | `window` = the map in memory, `windowFile` = the file, `waiting`, `commit` = the chain of writes | admit, receive, resize; a write with its guard, rename and second look |
| `BackupVault` | `backup-vault.ts`, `agent-edit-intent-guard.ts`, the file tools of `builtins.ts` | `file` = content in the project; `baseline` = the guard's; `tool` = calls; `manifest`, `manifestFile`, `data` = the vault | one action per file operation; `PersonEdits` |
| `ScopeGate` | `scope-authorization-gate.ts`, `scope-resolution.ts`, `policy-wrapper.ts`, the grant of `main-controller.ts` | `reservation`, `armed` = the gate's maps, `record` = what is recorded, `allowed` = the tool policy's, `caller` = calls | preview, authorization, decision, execution, settlement |
| `ToolPackages` | `tool-package-version-controller.ts` and its stores, the upgrade commands | `document`, `consents` = the files; `command` = processes with the controller they loaded | load and decide, read and write the consents, save |
| `SummaryIndex` | `summarizeArchivedMission`, `readSummaryView`, `summary-generation-service.ts`, `summary-index-store.ts`, `appendSummarySource` | `author`, `written` = the records of the agents; `manifest`, `draft` = the two files; `summarizer` = calls with what they have read; `page` = a reader's cursor | a step per archive and per file operation; an agent stamps a record and then writes it; `Dies` |
| `SessionElevations` | `session-permission-elevation.ts`, its callers in `main-controller.ts` | `records` = the shared array, `files` = one file per session, `elevating` = calls | load, change, remove files, write |
| `PermittedTools` | `ToolPackages` and `SessionElevations` as one component | no state in common | their specifications conjoined |

`MissionOrchestrator`: the process is one JavaScript thread. What happens between two
awaits is one step, and so is a chain of promises that the microtask queue runs before
the next I/O event (the end of a write, the end of the worker that awaited it, the
wake-up of the loop). Steps of the loop, the workers, the store and people interleave
wherever the code awaits I/O. Tasks are numbers, because `findRunnableTaskIds` sorts
identifiers. A worker's run is the outcome it reports, chosen freely from `Outcome`; a
worker whose run stopped early has recorded that before it returns and then reports a
failure, or the permission question it was left with. A write fails before the
rename or after it (the copy to `.bak`). `LaunchFails` is a factory that throws or a
worktree that cannot be allocated; the code reports it and keeps the claim, and so
does the model.

In `MissionLease` the processes share the file and a clock, and nothing but the
exclusive creation of the file is atomic between them. A process runs one session; a
restart is another process, since identifiers are not reused.

### Abstractions

* Message texts, prompts, archives, diagnostics and samples are left out: the code
  swallows their failures, and nothing modelled reads them. Identifiers, priorities and
  paths are model values or small numbers.
* In `MissionOrchestrator` the review of a Git contribution is its verdict, and whether
  a task has a worktree (`gitAllocations`) is fixed per instance (`GitTask`);
  `GitIntegration` has the contribution and takes the end of the worker for granted.
* In `MissionOrchestrator` the lease is a step that may set `stopping` at any time
  (`LeaseLost`); in `MissionLease` the mission is a session that may end at any time.
  `LostLeaseIsNoticed` joins them: `LeaseLost` comes when it has to.
* A rename and the assignment of the renewed revision that follows it are one step. A
  read of a lease meets the whole file or an empty one. Windows' retries of a rename are left out.
* `finishMission` is the last step of the loop in `MissionOrchestrator`: it writes no chain.
* `cancel()` is called at most once. That the aborted workers end, and how, is left
  open: they return whatever outcome they like, or keep running past the two seconds.
* In `Mailbox` `Unhurried` says that no file operation lasts longer than the two
  seconds of the shortest back-off; without it a message may be sent again while
  it is being acknowledged, which only repeats what crashes show anyway.
* In `ContextClosure` an edge is named by its ends, so that there is one at most for each pair: two required
  edges of one pair would raise the counter twice, and closing the child lowers it once
  (`local-context-graph-store.ts:247`). Edges that are not required count nowhere and are left out; they could only make
  `wouldCreateCycle` refuse more.
* In `TertiaryShutdown` `overlapped` records which agents had calls under way together. `OneAgentAtATime`, a condition of
  `PhasesInOrder`, says that no two agents had: the code has one controller for all agents, whose phase a second agent's
  call finds as the first one left it. The run has one agent, for which the condition always holds; the proof any number.
* In `GitIntegration` nobody else uses the checkout, and a conflict is a choice.
* In `ToolLoop` the ledger of calls can be written, and a tool's result is good, failed
  or a question for permission. The progress guard and the call budget are off unless they are enabled
  (`public-sdk.ts:1640`, `application-runtime.ts:1092`): `isGuarded` is chosen at the start, for all workers of the task,
  and `LoopIsBounded` speaks of the loops where it is set.
* In `MissionControl` a renewal and a release of the lease, which read and then write, are one step each, and a lease
  expires only when its owner is dead; a takeover reads, confirms, checks, renames, reads again and removes in separate
  steps, as in the code. `MissionLease` has the separate steps of all of them.
* `DagScheduler` starts from any chain of `Chains`, new or left by a former process, in which no task runs before its
  dependencies are done. That is what a chain written by this scheduler satisfies (`DependenciesComeFirst`).
* In `Mailbox` calls that mark one message at the same time are one call: a second mark of the same kind writes nothing new.
* In `ContextClosure` the state `superseded` is left out: no code gives it to a node.
* In `LocalPreservation` a repository is its HEAD, its index, one file and its references, each by the
  number of its version; git commands fail whole.
* In `BackupVault` there is one file; a content is a number, and every edit and every write makes a new one.
* In `ToolPackages` a version's content stands for its hash and its declared side effects.
* In `SummaryIndex` a chunk is the record it holds; narratives and fingerprints are left out, and a
  file is replaced whole.
* In `ScopeGate` an operation is inside or outside of the project; the tables of paths
  and rules that say so are left out, and so are the recorded texts.
## What the runs check

Every bound is a constant of its module, named `Max…`, and a guard of the action that
spends it. Deadlock checking is off: missions end, calls return, and bounds are used up.

| Run | Instance | Shows |
|---|---|---|
| `orchestrator` | two independent tasks, new, or resumed with one running and the other failed; two slots, three workers, all outcomes, early stops, one failing write, one failing launch, an instruction, one task under review | `TypeOK` with the bound of two resumptions, `NoLostWakeup`, `QuietChainIsPersisted`, `RecordedDoneIsDone`, and `ClaimHasWorker`, where a failed launch excuses its own claim and no other. Three workers run a task, replace it and resume it. |
| `orchestrator_liveness` | a chain of two tasks, one slot, instructions, `cancel()` and a lost lease at any time, fair | `MissionProgresses` (`RunnableStarts` and `CompletionIsReported`), `CancelIsAnswered` (`CancelEndsLoop` and `CancelReturnsEventually`), `LostLeaseEndsLoop`. The second task can only start because a worker's end wakes the sleeping loop. |
| `lease_noticed` | a session and a recover command, loop and timer renew, leases of two ticks expire under a running session, fair | `LeaseTypeOK`, `LostLeaseIsNoticed`. Three revisions: renewed once and then taken over. |
| `lease_recovery` | two sessions, one recover command, one crash, the timer renews, no lease of a live process expires | `OneHolder`, `RecoveryInv` (the strengthening the proof uses). Three ticks and three revisions let a lease be renewed, released, re-created by a late renewal, acquired, expire and be taken over. The sessions are symmetric. |
| `feedback` | two messages of two priorities to one agent that may be busy once, one crash of the child; a supervisor with two restarts and two faults; fair | `QueuePromise`: the deliveries implement `FeedbackQueue`, safety and progress. `FeedbackInv` (`JournalInv`, `AcceptedIsKept`, `RestartsAreCounted`, `NeverForgotten`), `MailboxesDrain`, `ChildComesBack`. Two messages are the fewest that can overwrite each other; two faults hit a child and its successor. |
| `agents` | a diamond of five tasks on two slots, new or resumed with its first task running; two workers of one task with two calls a turn, one failing writer and one reader, with and without the guard; three events of guidance, two of them revisions of one; two changes; a long tool with two executions and three requests; two questions and three deciders; a summary of two records of two agents by four calls, two at a time, and one end of a process; two contexts, which nothing tells apart, and six changes of their graph | the scheduler's `DagTypeOK`, `ClaimsMatchRuns`, `DependenciesFirst`, `WithinConcurrency`, `DoneIsFinal`; `LoopInv` (`SuccessIsEarned`, `LoopIsBounded`); `RuntimeGuidanceInv` (`AppliedOnce`, `QuietJournalIsCurrent`, `ToldStaysDecided`, `DeliveredOnce`, `ResumeIsSettled`), `UnknownBlocksCompletion`; `AskInv` (`AnswersAreFinal`); `SummaryInv` (`ChunksAreTheSource`, `NobodyIsBarred`, `ReportedIsKept`, `PagesFit`); `ContextInv` (`CountersAreRight`, `ClosedIsReviewable`). Six changes are the fewest that add, verify, close, open, verify and close a context, and that open a required child of another again. Two workers are the fewest that can inherit failures and budgets. |
| `state` | a mission of three tasks in two processes, new or left behind with one task done and its lease in the hands of a dead process; three submissions, two of one key and two of one task; a poll, a query and a cancellation; two tasks submitted to one checkout with a restart; two publishers of two tasks; two calls that close an agent | `ControlInv` (`NoTaskIsLost`, `OneProcessWorks`), `OnlyTheOwnerWrites`; `ApplicationInv` (`KeyRunsOncePerProcess`, `ReportedEndIsReal`); `GitInv` (`OnlyVerifiedIsMerged`, `TargetIsTested`); `SequenceInv` (`ChainsStayChains`, `DoneIsTraced`), `NothingIsUndone`; `ShutdownInv` (`PhasesInOrder`, `HandoffIsTheLast`). Two actors meet everywhere, and each file survives one process. |
| `stores` | preservation: two edits, two points, one restoration, one failure. Copies: two callers, a change, four calls, one failure. Window: four requests, one of them a repetition, a capacity of one or two, six calls, one fault. Backups: two agents, one of which also restores and deletes, one edit. Gate: two workers, an operation outside and one inside, all modes, two grants, three tool calls. Packages: two processes, two versions, five commands, two consents, one crash. Elevations: two sessions, two callers, four calls, one crash | `PreservationInv`; `CrossInv` (`RealReceiptHasCopy`, `OneImportPerContent`, `PlaceholderHasImport`); `WindowInv` (`AcceptedIsQueued`, `SlotsAreBounded`, `QueueIsServed`, `OneInstructionPerKey`, `AnsweredIsKept`); `VaultInv` (`PreImagesAreKept`, `DeletionsAreAsAsked`, `EditsAreRespected`); `ScopeInv` (`GrantsAreSpentOnce`, `OutsideIsGuarded`); `PermittedToolsInv` (`EffectsAreAgreed`, `ConsentsAreSpentOnce`, `RevokedStaysRevoked`, `ElevationsAreKept`) |

`Punctual` in the lease runs is the assumption that no lease expires before its process
has crashed. It is off in `lease_noticed` and on where exclusivity is checked with a
recovery, because a process that sleeps longer than its lease does run beside the one
that recovered its mission until its next renewal; no lease can exclude that.

Several of these invariants say under which condition they hold, because the code does
not keep them otherwise: consents are spent once unless two commands read the
records at the same time (`mixed`), elevations are kept as long as calls do not meet
(`crowded`) and one session changes, grants are spent once while nobody is in mode
devolve, a summary is complete and keeps what was reported as long as every call has read the archives as of one moment (`torn`)
and no two calls were between comparison and rename (`overlapped`). One process works and writes the chain until a takeover of the lease passes its check while another is under way (`raced`);
a closed context has its entry unless a rejection took it (`stripped`); a placeholder has its import unless it was inherited or
an uncaught error left it (`stranded`); an accepted message is kept unless another save wrote over it (`overwritten`); an unknown
outcome blocks unless a request of the same identifier was written over it; an edit is respected that was there when the guard
looked; a preserved point is of one moment if its git commands succeeded; the loop is bounded if the guard is on.
The histories these conditions are made of are part of the modules, and what happens outside of
them is under "Departures".

Four runs show where the code departs from its own comments and documents; each is a
finding in `PROJECT.json` with the text it quotes:

| Run | What happens |
|---|---|
| `two_recoveries` | two recover commands take the same expired lease over, the second one removes what the first one's session has acquired, and both run |
| `stuck_resume` | a process ends while a task is running; the mission is resumed with that task running, and nobody runs it |
| `accepted_not_merged` | two contributions are submitted at once; one is merged into the detached HEAD the other has left, and is reported as merged |
| `double_reservation` | two concurrent calls of one operation pass the gate, and both run |

### Departures without a run

Met while modelling; the models show them, the texts they contradict are named:

* The loop's renewal and the timer's both read revision k and write two different
  leases of revision k+1 (`mission-lease-store.ts:31`); a session that meets the lease
  file before its first write reports `journal-corrupted` (`:9`); a renewal the timer
  has started re-creates the lease after the session has released it
  (`mission-orchestrator.ts:346`).
* A lease lost while `scheduleRound` awaits its write does not stop the launches of that
  round (`mission-orchestrator.ts:395`); `cancel()` that comes at that moment returns
  before the worker's last write (`:458`); the result of a replaced worker settles the
  run of its replacement (`dag-scheduler.ts:92`); a write that fails twice leaves a
  rejected promise (`mission-orchestrator.ts:819`); a run that stops early and ends in
  a permission question leaves its observation to a later run (`:1006`).
* A concurrent save of a mailbox removes a message nobody has received
  (`docs/architecture.md:54`); a recipient that becomes idle does not reset the back-off (`:55`).
* A mission resumed twice at the same time runs a task a second time
  (`tui/src/cli/commands.ts:3406`).
* Guidance that arrives between two tools stands between the calls and their results, which
  the protocol wants in a row; a permission question may name the arguments of another call of the same turn
  (`worker-agent.ts:550`).
* A submission of guidance is missing from the journal, and with it from a later query, because a
  status written in the background was read before it (`public-sdk.ts:3354`); superseded revisions
  are applied at the next safe point, and one task's safe point drops what waits for another
  (`docs/adr/0038`, lines 65-67); a change sent again is submitted a second time (`public-sdk.ts:3868`).
* A stop whose outcome is unknown can be superseded by a later request
  (`long-tool-checkpoint.ts:320`), or overwritten: the identifier of a successor is made from the latest request and the
  revision, so a second convergence may write a new request over an earlier successor whose outcome is unknown, and that
  no longer blocks (`:339-352`). Nothing in production calls it yet.
* The loop ends, and releases the lease, without waiting for its workers: only `cancel()` does, for two seconds
  (`mission-orchestrator.ts:485-570`). Workers of a process that shuts down may so write the chain when another process has the lease.
* A loop that sleeps while all its tasks wait for people is not woken by the loss of its lease (`mission-orchestrator.ts:438`).
* Two people decide one question with different answers (`permission-ask-decision-entry.ts:159`).
* A phase of a shutdown whose result was not yet written runs again
  after a crash; one controller serves all tertiary agents, so the phases of one may end up in the file of another, and a closed
  one closes the next; the `.bak` of the file is never read.
* A health request answered late is reported as a failure of the next child.
* A change of a task sequence whose audit entry fails stays unaudited, and the backup
  is taken after the write (`docs/adr/0013:53-54`); a running task cannot become done (`task-sequence-controllers.ts:204`).
* The idempotency ledger's writes overlap, so a crash may bring an older one back and a key
  runs again (`public-sdk.ts:1673`); a query that sees the end of a task first silences `task-finished`.
* Call budgets count each call as the first one when the ledger cannot be read
  (`task-call-budget-ledger.ts:53`).

* A poll and `cancelTask` both report the end of a task (`public-sdk.ts:4119`,
  `docs/tasks/T07D_R1…`, line 65); a rejection opens the node before it removes the entries for review, which are
  only listed for closed nodes, so nothing is removed (`human-verification-controller.ts:613`, `:633`): the stale entry stays, listed again when the node closes;
  and if the node was closed again in between, its new entry is the one that goes. A closing call files its entry for the state it
  had read, also when the node was opened meanwhile (`context-node-lifecycle.ts:177`, `:227`). `FinishedOnce`
  of `TaskMonitor` states the first; no run checks it.
* Preservation: a git command that fails reads as "no changes" (`local-preservation-service.ts:11`);
  untracked contents are not in the fingerprint; a reused point has no second
  reading; a crash while restoring leaves a manifest that was being rewritten in place;
  HEAD is read before the changes and not compared again (`:705`).
* Copies: an import reports `reused-existing-copy` for a receipt that is a placeholder without a file
  (`cross-project-authorization-store.ts:966`, `:727`); asking whether the source or the copy exists is outside of any `try`
  (`:1112`, `:1195`), and the port in use throws there for a path outside of the workspace (`public-sdk.ts:1688-1697`,
  `controlled-cross-project-resource-io.ts:89-90`, `workspace-boundary.ts:41-45`): the placeholder stays and bars this copy; a load counts as done before the file is read (`:313`), so
  calls made meanwhile see no receipts; the reading service has a store of its own, which never sees later grants (`public-sdk.ts:4531`).
* Window: two processes overwrite each other in the gaps between guard, rename and second look
  (`instruction-window-store.ts:108`); a second receipt with another outcome frees a slot again (`:16`);
  a receipt for an instruction that is still queued is taken (`:384`), and leaves it in the queue as well, so it is dispatched once more:
  then, with a capacity that was lowered, every slot may belong to an instruction that is also queued;
  calls during the first load are lost from the queue; a retry after a failed write is answered as a duplicate; a
  raised capacity is not filled. `submitReceipt` and `setWindowCapacity` are called by tests only.
* Backups: an edit between the guard and the capture is overwritten without rejection
  (`builtins.ts:553`; `EditsBeforeBackupAreRespected` is a definition no run checks); manifest writes overlap and an
  older one may land last (`docs/adr/0009:13`); a restoration moves no baseline; the quarantine of a
  deletion that crashed is never purged; another process overwrites the manifest.
* Gate: in mode devolve an overlapping call's settlement arms a grant again, so that two grants have
  three effects; the settlement of an overlapped reservation throws after the tool has succeeded.
* Tool packages: `enableForProject` followed by `rollbackProjectVersion`, a lock, or a version registered anew
  brings side effects without a consent, though `upgradeProjectVersion` is called the only way to switch
  (`tool-package-version-controller.ts:265`; `SwitchesAreAuthorized` is a definition no run checks); a stale or refused
  command saves its document over another's switch; a consent is consumed before the switch is saved,
  so a crash between them loses it; two commands that overlap may spend one consent twice, or
  bring it back. Pending switches, runs in flight and deprecation are recorded by nothing in production, and
  the command line takes `issuedBy` as the authenticated user.
* Elevations: an addition or a revocation in one session removes the files of all other sessions
  (`session-permission-elevation.ts:93`); a list between a revocation and its write brings the record
  back although the revocation was reported.

* Summaries: each call makes a store, so the single flight ("并发请求只执行一次", `summary-index-store.ts:790`) and
  the lock of the publication hold within a call only: of two publications that overlap between comparison and
  rename one is lost, though stale ones are to be refused (`:8`), and the revision may name two manifests, so that pages of
  both are put together. When the older of the two lands last and a third call goes on with a draft made over the newer
  one, the manifest has a gap, until a call finds the missing record new. The archives are read one after the other: a record that sorts before one already
  summarised moves the revisions, and then one record is summarised twice and another never
  ("不得双计", `summary-source-adapters.ts:73`); if the call ends before it has published, the draft holds two
  facts of one revision and every later call throws, though it is to go on (`summary-index-store.ts:9`).

### Fairness

`FairSpec` asks for weak fairness of the loop's steps, of the store's, of each
worker's and of `cancel()`'s. The event loop runs what is ready; a file operation
completes; `maxLoopIterations` bounds a worker's tool loop and its provider calls
have timeouts; both waits of `cancel()` end by a timer. Nothing is asked of people:
instructions, `cancel()` and the loss of a lease may never come. `RunnableStarts`
and `CompletionIsReported` are checked on a new chain (a task that is resumed as running has nobody to end it: `stuck_resume`)
and without failed writes or launches, because a
rejected write of a round ends the loop silently and a failed launch keeps its slot
(both are listed as hazards). A lost lease does not wake a sleeping loop; so
`LostLeaseEndsLoop` states the end of the loop for a loss that finds it awake or a worker at
work, whose end wakes it, and `CancelEndsLoop` for every `cancel()`.

`FairLeaseSpec` asks for weak fairness of each process's renewals: the interval fires
and file operations complete. The clock need not advance and nobody need recover.

`MailboxFairness`: the child's event loop runs its tasks, IPC messages arrive, handlers end,
timers fire, agents report that they are idle (`worker-agent.ts:681`), and a crashed child is
restarted; `SupervisorFairness` says why it is: timers fire, exits are handled, and a
child that hangs does not answer its health checks in time.

## What is proved

For every graph that satisfies the assumptions, every set of processes, agents, tasks, calls and people,
every limit, and every bound on steps and failures:

| Module | Theorems |
|---|---|
| `DagSchedulerProofs` | `DagTyping`, `ClaimsAreRunningTasks`, `DoneTasksStayDone`, `DependenciesComeFirst`, `ConcurrencyIsRespected` |
| `MissionOrchestratorProofs` | `SchedulerPromisesHold`, through the lemma `ImplementsScheduler` (each step is a sequence of the scheduler's operations); `OrchestratorTyping`; `NoWakeupIsLost`; `QuietFileIsCurrent`, `FileClaimsNothingUndone`; `NoSlotLeaks` |
| `MissionLeaseProofs` | `LeaseTyping`; `LeaseIsExclusive` without recovery; `RecoveryIsExclusive` and `OneProcessRunsWithRecovery` with one recover command at a time, under `Punctual` |
| `WorkerProofs` | `LoopIsSound`, `AnswersStayFinal`, `GuidanceIsSound`, `UnknownStopsBlock`, `SummaryIsComplete` |
| `FeedbackProofs` | `FeedbackIsSound`; `DeliveriesImplementQueue` (`MailboxSpec => QueueSafety` of `FeedbackQueue`) |
| `ApplicationProofs` | `MissionIsOneProcess`, `ChainHasOneWriter`, `ApplicationIsTrue`, `OnlyVerifiedReachesTarget` |
| `StateProofs` | `SequenceIsTraced`, `WrittenStays`, `ShutdownIsOrderly`, `ClosedStaysReviewable` |
| `StoresProofs` | `GrantsAreObeyed`, `OnlyPermittedToolsRun`, `ReceiptsAreEarned`, `PreImagesAreSafe`, `ReadyPointsAreOneMoment`, `DocumentsAreServed`, `InstructionsAreKept` |

The assumptions used are those on the constants, named `…Assumption` where they are declared: sets of tasks and nodes
are finite, dependencies are tasks, limits and bounds are naturals, and the like. That the task graph has no cycle is
not needed by the proofs. None of the properties is inductive as it stands; each has an inductive invariant, whose name
ends in `IInv` (or `Inv` in the three oldest modules), and which TLC has checked on the instances of the runs as well.

**The scheduler.** It may start with tasks that run and that nobody has claimed, so the claims are not the running tasks:
`ClaimsMatchRuns` says that claimed tasks run, and that the running tasks which are not claimed are some of those the chain came with.
Both parts are inductive with the types alone; `DependenciesFirst` rests on
`DoneStep`, since a dependency that is done stays done; `ConcurrencyIsRespected` on the cardinality of a union of
finite sets.

**The orchestrator.** `StepKinds` sorts the steps: quiet ones, those that
change the graph and append a call to the queue, those of a round, those that move a call into the
mutex, write it or see it rejected. The invariants are then proved kind by kind, in layers.

1. `Typed`: the types, the tasks of the workers, the form of the queued calls and
   `ClaimedAreRunning`. The last is what makes an operation whose transition throws
   harmless: it deletes a claim that is not there (`ThrowChangesNothing`).
2. `OrderInv`: the mutex is exclusive and at most one call is a round's, the one the loop awaits.
3. On top of these, invariants that are not inductive without a second part.
   `NoLostWakeup` speaks of a sleeping loop; a loop that awaits a round's write will
   sleep when it ends, so `LaterCallFollows` says that work which appeared meanwhile
   came with a later call of the queue (`RoundLeavesNoWork`: the round itself took
   all there was). `QuietChainIsPersisted` and `RecordedDoneIsDone` speak of the file;
   `DocumentIsCurrent` and `DocumentDoneIsDone` say the same of the document about to replace it.
4. `SlotInv`, for `ClaimHasWorker`, which asks for the worker launched last for the very task (`IsNewestFor`): workers are numbered in the order of their launch, so that a new one is nobody
   else's (`WorkersAreNumbered`); only a round being written has starts (`OnlyRoundsStart`); and a worker whose call
   is queued has given up its task already (`CallersAreSettled`), so that the end of the call takes no claim from a live worker.

**The lease.** Without recovery `OneHolder` is inductive: only the process
that created the file removes it, so others are kept out until it does, and late renewals
replace the file but never remove it. With a recovery it is not. `RecoveryInv`
adds that the file a holder sees belongs to a live process (`HolderSeesLiveLease`), whose
lease has not expired (`LiveLeasesLast`), so that a takeover that saw an expired lease
knows that there is no holder (`TakeoverIsAlone`). That a renewal left over by another session
may have replaced the holder's file is why the first of these does not say "the
holder's own lease"; `LeasesAreActed` is what makes it survive a crash. One recovery at a time is
needed for the step that removes the taken over file; `two_recoveries` shows that it is.
Exclusivity of sessions without recovery and without `Punctual` is left to the proof.

**A worker.** `SuccessIsEarned` needs that what a writing tool left undone stays in the worker's record
(`UndoneIsRemembered`), also after events that arrive late or twice. `LoopIsBounded`, for loops with the guard, relates what was executed to the ledger and to the workers of the
task (`ExecutionsAreCounted`: the guard counts a call before it is executed and again after it, except
when that second look refuses it and ends the worker) and to the guard's counts (`StallsAreCounted`). For questions, a decision that is being written
has read a pending request, and another that has read it counts as overlapping (`DecisionsReadPending`, `DecisionsAreAlone`).

**Guidance.** What a safe point has dropped was applied, or came back by another delivery (`QueueIsRemembered`). The
journal is current when it is quiet, because until then each verdict is in it or in a write on its way
(`JournalCatchesUp`). Changes stay as they were told, because every snapshot on its way is a part of what the process knows
(`SnapshotsAreOld`), and so is the file unless a snapshot was overtaken (`FileIsOld`). Of the requests of a task one stands
(`OneStands`), so that its result is delivered once and an unknown one blocks the completion until a request of its own identifier is written over it.

**Deliveries.** A message that was written down is in its mailbox, or received, or removed by the save of another task (`Known`), and
every step on its way to the recipient has such a ground (`TasksHaveGrounds`). That a journal holds a message once and numbers its
messages in order holds also of each document on its way to disk (`JournalsAreNumbered`), because a message is
enqueued by one task, which has not yet read the journal (`EnqueuedOnce`). The refinement maps a message to its stage;
that a stage never goes back rests on the same grounds (`MessagesGoForward`). The
supervisor's counts are inductive as they are.

**The mission and its commands.** `OneProcessWorks` needs to know that the process with a scheduler is the owner of the lease
and that the owner of an expired lease has ended (`OwnersHaveBegun`, `SchedulersAreWaitedFor`). A takeover renames over whatever the
lease is by then; that it meets the lease it has checked is so as long as it is alone (`TakeoverIsAlone`), because nobody else replaces
the lease of a dead process, and what it removes is then what it wrote. A second takeover past its check sets `raced`, and nothing more is
said: that is the finding `two_recoveries`. That no task is lost
needs the same of every copy of the chain: on disk, in a process that has read it, in a scheduler (`NothingIsDropped`).
`ChainHasOneWriter` is an action property of the same invariant, and allows for the workers of a process that shuts down.

**Submissions and reports.** A key is held by one call at a time (`ClaimsAreExclusive`), and whatever says it is settled, in memory, on disk or in
a write under way, was started (`SettledWasStarted`). Every end in a record or on its way to one comes from the mission
(`EndsComeFromMission`).

**Git.** A contribution is reviewed before it is in any branch (`ReviewedFirst`); while the final tests run and until
their result is used, what they have seen is what would be merged (`TestsSeeAll`): no submission is under way once every task is done.

**Task sequences.** A change is audited under the next revision, so no audit entry is newer than the document
(`AuditsFollowChanges`), who owes an entry has written its change (`AuditingHasChanged`), and every
task that is named exists (`KnownTasks`), which is what an insertion needs to close no cycle.

**Shutdown.** `CallsGoInOrder` holds whatever overlaps: a call is at the first phase it does not take for over. That this phase is
the first that has not run needs the controller's state to be about the agent of the call (`OneAgentIsServed`), which is where the
condition `OneAgentAtATime` comes from; that the handoff is the last result needs a single call (`ResultIsKept`).

**Contexts.** A call that writes compares revisions, so what it has read is current when it does
(`SeenIsCurrent`), and its capsule is the newest of its node (`CapsulesAreOrdered`). Whether it owes an entry was settled when it read the state; a call
that owes none ends with a node that is not deferred (`LastOwesNothing`). The counter of a parent changes with
its children one by one (`ClosingCounts`, `ReopeningCounts`, `AddEdgeCounts`), which needs that an edge is there once. That the graph has no cycle is
stated as "every set of nodes has one that requires none of the others"; a new edge
closes none, because a set that contradicted it would lead from the child to the parent, which `wouldCreateCycle` excludes.

**The gate.** For each operation outside of the project: calls that reach the user are armed by a grant (`CallsAreAsked`), an execution holds the
reservation of its operation and is alone (`ExecutionsAreReserved`), nothing runs while the result of an earlier execution is unknown
(`NothingUnknownRuns`), and effects, executions under way and grants still held add up to the grants given (`GrantsCover`).

**Packages and elevations.** A lock is sound if it names what is registered and nothing the user has not accepted. Since a
command saves all of the document it has loaded, this is said of every document that may still be saved (`DocumentsAreSound`), which is why
a stale save brings nothing new. A process that alone has read the records of consent knows what they are when it writes them
(`ConsentsAreRead`), so each spends its own (`ConsentsAreCounted`). For elevations, records are numbered without gaps and belong to sessions that changed
(`RecordsAreCreated`); a call that meets no other knows the file of its session at each of its awaits (`CallsAreConsistent`), and what was
reported is in the file, or in the records on their way to it (`OwedIsKept`).

**Copies between projects.** A receipt that says a copy was made is in memory, on disk or in a write under way; wherever it is, the copy was made
(`CopiesWereMade`). A caller that copies holds the claim of its content, and loading the file takes it from nobody, because the file is
read once, by the call that found the store unread (`WorkersHaveClaims`, `FileIsReadOnce`); so a content is copied by one call at a time. A placeholder nobody works on is one the file
had or one an uncaught error left (`PlaceholderHasImport`); no other way out leaves one.

**Backups.** A tool that goes on after its copy was stored has it, or somebody gave it up (`CopiesAreKept`). That a copy which is removed was given up
needs to be known of every manifest: the one in memory, the one on disk, which a new process begins with, and those about to be renamed
(`ManifestsArePast`). A deletion knows the listing of the revision it was shown, and revisions only grow within a
process (`DeletionsKnow`). What an agent has not seen is apart from its baseline, from what the guard saw and from what it
writes itself (`EditsAreApart`).

**Preserved repositories.** Contents are numbered, so the moments of a call are in an order, and what it has read was so at moments that
follow each other (`ReadingsAreMoments`). Where two readings are equal, the index was the same between the last command of the first and that of
the second, so both patches are those of the third command of one or of the other (`EqualReadings`). A point that is found again is of
a moment which a call under way either knows or began after (`PointsAreMoments`); then its base and its status say enough for the one
reading (`FoundReading`). `PointsTypeOK` allows an output to be any of three kinds of sets, which TLC does not compare; all other
parts of `PreservationIInv` it has checked.

**Window of instructions.** Every copy of the document is sound (`DocumentIsSound`), in memory, in the write under way and on disk: each
operation keeps that of the copy it changes, and a load with nothing in memory takes the file as it is. The slots that stay when the capacity is
lowered are counted by their ranks: the places of the records are numbers of their own, so there are as many ranks as records
(`RanksAreOwn`, `FirstStay`), and the ones that go back to the queue come in the order of theirs (`InOrderEnumerates`). A receipt for an
instruction without a slot is counted in `strays`, and only those may exceed the capacity. For what callers were told, memory has all that the
write has, and that all that the file has (`AnswersAreHeld`); two processes break this, so `InstructionsAreKept` is about one store
and `DocumentsAreServed` about any number. Both assume `~Overlapping`: calls that come while the first load is reading lose the queue.

**Summaries.** When every call has read whole archives, a fact has the number of its item for its revision, so no two
contradict each other (`FactsAreItems`, `WholeEntries`). While no two calls overlap, the revision tells whether a manifest that
was read is the present one (`RevisionsTell`: a publication is the same manifest or has a later revision, `AppendedTypes`), so what is
published is made of the manifest it replaces. Whatever draft a call goes on with, its own or one left behind, has with the
manifest all revisions before any of its own (`Follows`, in `ManifestIsWhole`), and with it every item the call has read (`DraftFollows`).

### What is only model-checked

* Liveness: `MissionProgresses`, `CancelIsAnswered`, `LostLeaseEndsLoop`, `LostLeaseIsNoticed`, `MailboxesDrain`, `ChildComesBack`, and the part of
  `QueuePromise` that says that a message gets on: the prover has no ENABLED.
* The four findings: they are counterexamples.

## Plan

Done so far: the core and its proofs, then a module for each component whose state others
race with. In this order, next:

1. Composition: `GitIntegration` in place of the free verdict of `MissionOrchestrator`, `ToolLoop` in place
   of the free choice of outcomes.
2. The temporary file, rename and recovery of `atomic-json.ts` as a module the stores share; each
   module now has the failing and the lost write in its own terms.

## Not modelled

The share of the lines that `map` names is small, and most of the rest has nothing a model
checker would add to:

* User interfaces, servers and the MCP bridge (`tui`, `gui`, `bridge`): presentation, parsing of arguments, I/O. Where a command
  has state of its own, it is in `MissionControl`, `MissionLease` or `ToolPackages`.
* `public-sdk.ts`: more than half of it forwards calls to the controllers above and translates their
  answers; the entries with state are in `TaskSubmission`, `TaskMonitor`, `Guidance`, `GuidanceChanges`, `CrossProjectImport`.
* Model providers, prompts, measurement, the texts of summaries: wire formats and text.
* The decision tables of the tool policies and the resolution of paths: pure functions over names, tested case by case.
* Scripts under `src/scripts`: builds and test harnesses.
* Global decisions, the craftsman workflow, registration of agents, promotion of packages, workflow recipes: sequential, or
  the same read-change-write as the stores that are modelled.
* The checkpoint recorder and the reconciliation that only reads: observations nothing else acts on.

## Running

    tlc -config orchestrator.cfg MCMissionOrchestrator
    tlapm MissionOrchestratorProofs.tla

`agents` (2.3 million states), `stores` (2.6 million) and `state` (2.4 million) take two to four minutes with two workers,
`orchestrator` (420 thousand) and the others less.
