---------------------------- MODULE GitIntegration ----------------------------
(***************************************************************************)
(* The git side of a mission: a writing task works in a worktree on a      *)
(* branch of its own, its commit is reviewed and merged into the           *)
(* integration branch, and the finished mission merges that branch into    *)
(* the target branch (orchestration/git-*.ts, driven by                    *)
(* mission-orchestrator.ts).                                               *)
(*                                                                         *)
(* Submissions of several tasks overlap: each awaits one git command after *)
(* the other, and they share the one checkout of the repository, its HEAD, *)
(* its index and the report of the session.  A branch is the set of        *)
(* contributions it contains.  Nobody else uses the checkout.              *)
(***************************************************************************)
EXTENDS Naturals, FiniteSets

CONSTANTS
    WritingTask,    \* the tasks whose type has allowed paths
    MaxLaunches,    \* bound: workers launched by one process
    MaxGitRestarts  \* bound: restarts of the process

ASSUME GitAssumption == MaxLaunches \in Nat \ {0} /\ MaxGitRestarts \in Nat

Contribution == WritingTask \X (1..MaxLaunches)
NoContribution == <<>>
NoReport == [open |-> FALSE, merged |-> FALSE, risks |-> FALSE]

VARIABLES
    session,        \* gitIntegrationSession: "none", "failed" or "open"
    launched,       \* workerInstanceCounter: counts from 0 in every process
    branches,       \* the worker branches of the repository
    allocation,     \* git-allocations/<task>.json: the branch of a task
    stage,          \* where each task is
    head,           \* HEAD: the branch it names, or what a detached one has
    integration,    \* the integration branch
    target,         \* the target branch
    openMerge,      \* a merge that stopped at a conflict is open in the index
    report,         \* the report of the session on disk
    seen,           \* the report a submission has read
    ending,         \* where finalizeIntegration is
    gitRestarts,    \* bound
    verified,       \* history: contributions the verifier accepted
    accepted,       \* history: contributions reported as accepted and merged
    tested          \* history: what was checked out when the final tests passed

repository == <<branches, head, integration, target, openMerge>>
disk == <<allocation, report>>
histories == <<verified, accepted, tested>>
git == <<session, launched, repository, disk, stage, seen, ending, gitRestarts, histories>>

HeadHas ==
    IF head.on = "integration" THEN integration
    ELSE IF head.on = "target" THEN target ELSE head.has

GitInit ==
    /\ session = "none" /\ launched = 0 /\ branches = {}
    /\ allocation = [t \in WritingTask |-> NoContribution]
    /\ stage = [t \in WritingTask |-> "idle"]
    /\ head = [on |-> "target", has |-> {}]
    /\ integration = {} /\ target = {} /\ openMerge = FALSE
    /\ report = NoReport /\ seen = [t \in WritingTask |-> NoReport]
    /\ ending = "no" /\ gitRestarts = 0
    /\ verified = {} /\ accepted = {} /\ tested = {}

Moves(t, from, to) == stage[t] = from /\ stage' = [stage EXCEPT ![t] = to]

-----------------------------------------------------------------------------
(* git: checkout is refused while a merge is open, merge adds to what HEAD   *)
(* names, a conflict leaves the merge open.                                  *)

Checkout(branch) == ~openMerge /\ head' = [on |-> branch, has |-> {}]

Detach == head' = IF openMerge THEN head ELSE [on |-> "nothing", has |-> HeadHas]

MergeIntoHead(contributions) ==
    /\ ~openMerge
    /\ integration' = IF head.on = "integration" THEN integration \cup contributions ELSE integration
    /\ target' = IF head.on = "target" THEN target \cup contributions ELSE target
    /\ head' = IF head.on = "nothing" THEN [head EXCEPT !.has = @ \cup contributions] ELSE head

-----------------------------------------------------------------------------
(* The mission: the session, the launch of a worker, the end of its work.    *)

\* ensureGitIntegrationSession: once per process, also when it fails; a session
\* starts with a new report and keeps an integration branch that is there.
StartSession(opens) ==
    /\ session = "none"
    /\ session' = IF opens THEN "open" ELSE "failed"
    /\ report' = IF opens THEN [NoReport EXCEPT !.open = TRUE] ELSE report
    /\ UNCHANGED <<launched, repository, allocation, stage, seen, ending, gitRestarts, histories>>

\* launchWorker and allocateWorker: without a session the task works in the
\* checkout itself; an allocation that is refused leaves the task where it is.
LaunchInWorktree(t) ==
    /\ session = "open" /\ launched < MaxLaunches /\ launched' = launched + 1
    /\ <<t, launched'>> \notin branches
    /\ Moves(t, "idle", "works")
    /\ branches' = branches \cup {<<t, launched'>>}
    /\ allocation' = [allocation EXCEPT ![t] = <<t, launched'>>]
    /\ UNCHANGED <<session, head, integration, target, openMerge, report, seen, ending,
                   gitRestarts, histories>>

LaunchRefused(t) ==
    /\ session = "open" /\ launched < MaxLaunches /\ launched' = launched + 1
    /\ Moves(t, "idle", "stranded")
    /\ UNCHANGED <<session, repository, disk, seen, ending, gitRestarts, histories>>

LaunchDirectly(t) ==
    /\ session = "failed" /\ launched < MaxLaunches /\ launched' = launched + 1
    /\ Moves(t, "idle", "done")
    /\ UNCHANGED <<session, repository, disk, seen, ending, gitRestarts, histories>>

\* submitGitContribution: what is clean, or cannot be told, is accepted as it is;
\* everything else is committed.
EndsClean(t) ==
    /\ Moves(t, "works", "done")
    /\ UNCHANGED <<session, launched, repository, disk, seen, ending, gitRestarts, histories>>

Commits(t) ==
    /\ Moves(t, "works", "committed")
    /\ UNCHANGED <<session, launched, repository, disk, seen, ending, gitRestarts, histories>>

\* A task that failed, was rejected or threw is blocked; a person lets it run again.
RunsAgain(t) ==
    /\ Moves(t, "blocked", "idle")
    /\ UNCHANGED <<session, launched, repository, disk, seen, ending, gitRestarts, histories>>

-----------------------------------------------------------------------------
(* GitIntegrationCoordinator.submitContribution, a step per await.           *)

\* Mutant: what needs rework is merged as well.
AfterAnyReview(passes) == "verified"

AfterReview(passes) == IF passes THEN "verified" ELSE "rejected"

Review(t, passes) ==
    /\ Moves(t, "committed", AfterReview(passes))
    /\ verified' = IF passes THEN verified \cup {allocation[t]} ELSE verified
    /\ UNCHANGED <<session, launched, repository, disk, seen, ending, gitRestarts, accepted, tested>>

ChecksOut(t) ==
    /\ Moves(t, "verified", "onBranch") /\ Checkout("integration")
    /\ UNCHANGED <<session, launched, branches, integration, target, openMerge, disk, seen, ending,
                   gitRestarts, histories>>

Merges(t) ==
    /\ Moves(t, "onBranch", "merged") /\ MergeIntoHead({allocation[t]})
    /\ UNCHANGED <<session, launched, branches, openMerge, disk, seen, ending, gitRestarts, histories>>

\* checkout, recovery point or merge throws; a conflict leaves the merge open
Throws(t, conflict) ==
    /\ stage[t] \in {"verified", "onBranch"}
    /\ stage' = [stage EXCEPT ![t] = "blocked"]
    /\ openMerge' = (openMerge \/ (conflict /\ stage[t] = "onBranch"))
    /\ UNCHANGED <<session, launched, branches, head, integration, target, disk, seen, ending,
                   gitRestarts, histories>>

Detaches(t) ==
    /\ Moves(t, "merged", "detached") /\ Detach
    /\ UNCHANGED <<session, launched, branches, integration, target, openMerge, disk, seen, ending,
                   gitRestarts, histories>>

ReadsReport(t) ==
    /\ \/ Moves(t, "detached", "reportsMerged")
       \/ Moves(t, "rejected", "reportsRejected")
    /\ seen' = [seen EXCEPT ![t] = report]
    /\ UNCHANGED <<session, launched, repository, disk, ending, gitRestarts, histories>>

\* integrationCommit is the tip of the branch, also after a rejection
SavesReport(t) ==
    /\ \/ Moves(t, "reportsMerged", "done") /\ accepted' = accepted \cup {allocation[t]}
       \/ Moves(t, "reportsRejected", "blocked") /\ UNCHANGED accepted
    /\ report' = [seen[t] EXCEPT !.merged = TRUE]
    /\ UNCHANGED <<session, launched, repository, allocation, seen, ending, gitRestarts, verified, tested>>

-----------------------------------------------------------------------------
(* finishMission and finalizeIntegration.                                    *)

\* Mutant: a failed test is noted and the merge goes on.
AfterAnyTests(pass) == "passed"

AfterTests(pass) == IF pass THEN "passed" ELSE "over"

\* The tests run in the checkout, on whatever is checked out; a risk is saved
\* and never taken back.
RunsTests(pass) ==
    /\ session = "open" /\ ending = "no" /\ \A t \in WritingTask : stage[t] = "done"
    /\ report.merged /\ ~report.risks
    /\ ending' = AfterTests(pass)
    /\ report' = [report EXCEPT !.risks = ~pass]
    /\ tested' = IF pass THEN HeadHas ELSE {}
    /\ UNCHANGED <<session, launched, repository, allocation, stage, seen, gitRestarts, verified, accepted>>

\* isTargetBranchMergeAllowed
NotAllowed ==
    /\ ending = "passed" /\ ending' = "over"
    /\ UNCHANGED <<session, launched, repository, disk, stage, seen, gitRestarts, histories>>

ChecksOutTarget ==
    /\ ending = "passed" /\ Checkout("target") /\ ending' = "onTarget"
    /\ UNCHANGED <<session, launched, branches, integration, target, openMerge, disk, stage,
                   seen, gitRestarts, histories>>

MergesTarget ==
    /\ ending = "onTarget" /\ MergeIntoHead(integration) /\ ending' = "merged"
    /\ UNCHANGED <<session, launched, branches, openMerge, disk, stage, seen, gitRestarts, histories>>

\* the merge fails: what came of it is asked and noted as a risk
TargetConflicts ==
    /\ ending = "onTarget" /\ ~openMerge /\ openMerge' = TRUE /\ ending' = "merged"
    /\ report' = [report EXCEPT !.risks = TRUE]
    /\ UNCHANGED <<session, launched, branches, head, integration, target, allocation, stage,
                   seen, gitRestarts, histories>>

EndsIntegration ==
    /\ ending = "merged" /\ Detach /\ ending' = "over"
    /\ report' = [report EXCEPT !.risks = @ \/ openMerge]
    /\ UNCHANGED <<session, launched, branches, integration, target, openMerge, allocation,
                   stage, seen, gitRestarts, histories>>

\* The process ends and another one resumes the mission.
RestartsGit ==
    /\ gitRestarts < MaxGitRestarts /\ gitRestarts' = gitRestarts + 1
    /\ session' = "none" /\ launched' = 0 /\ ending' = "no"
    /\ stage' = [t \in WritingTask |-> IF stage[t] = "done" THEN "done" ELSE "idle"]
    /\ seen' = [t \in WritingTask |-> NoReport]
    /\ UNCHANGED <<repository, disk, histories>>

GitNext ==
    \/ \E b \in BOOLEAN : StartSession(b) \/ RunsTests(b)
    \/ \E t \in WritingTask :
        \/ LaunchInWorktree(t) \/ LaunchRefused(t) \/ LaunchDirectly(t)
        \/ EndsClean(t) \/ Commits(t) \/ RunsAgain(t)
        \/ \E b \in BOOLEAN : Review(t, b) \/ Throws(t, b)
        \/ ChecksOut(t) \/ Merges(t) \/ Detaches(t)
        \/ ReadsReport(t) \/ SavesReport(t)
    \/ NotAllowed \/ ChecksOutTarget \/ MergesTarget \/ TargetConflicts \/ EndsIntegration
    \/ RestartsGit

GitSpec == GitInit /\ [][GitNext]_git

-----------------------------------------------------------------------------
(* Properties.                                                               *)

\* Whatever the submissions do to HEAD under each other, only what the verifier
\* accepted is in the integration branch or checked out, and the target branch has
\* nothing but what came over the integration branch.
OnlyVerifiedIsMerged ==
    /\ integration \cup HeadHas \subseteq verified
    /\ target \subseteq integration

\* What is in the target branch was checked out when the final tests passed: the
\* tests run on HEAD, not on the branch that is merged.
TargetIsTested == target \subseteq tested

\* "Verify, and if it passes merge it keeping its origin, then update the report"
\* (git-integration-coordinator.ts:129): what is reported as accepted is in the
\* integration branch.
AcceptedIsMerged == accepted \subseteq integration

\* What reaches the branches of the repository, however submissions overlap.
GitInv == OnlyVerifiedIsMerged /\ TargetIsTested
=============================================================================
