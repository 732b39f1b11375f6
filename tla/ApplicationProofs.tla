--------------------------- MODULE ApplicationProofs ---------------------------
(***************************************************************************)
(* What holds of a mission as its commands see it, of the public           *)
(* application and of the git repository, for every set of processes,      *)
(* tasks, submissions and polls, and every bound.                          *)
(***************************************************************************)
EXTENDS MissionControl, PublicApplication, GitIntegration, TLAPS

-----------------------------------------------------------------------------
(* The mission and its commands.                                            *)

TaskStatus == {"absent", "pending", "running", "blocked", "done"}
Chain == [ChainTask -> TaskStatus]
Watched == {"waits", "closes", "cancelsOwn"}
Taking == {"renames", "returns", "drops"}
Place == Watched \cup Taking \cup
    {"off", "created", "resumes", "hasRead", "probes", "probed", "takesOver", "confirms", "checks",
     "cancels", "over"}
SchedulerPhase == {"none", "starting", "running", "releases", "ended"}
LeaseFile == [owner : Process \cup {Nobody, Earlier, Takeover}, fresh : BOOLEAN, revision : Nat]

ControlTyped ==
    /\ chain \in Chain /\ ownChain \in [Process -> Chain] /\ lease \in LeaseFile
    /\ at \in [Process -> Place] /\ scheduler \in [Process -> SchedulerPhase]
    /\ claimed \in [Process -> SUBSET ChainTask]
    /\ expected \in [Process -> Nat] /\ raced \in BOOLEAN

\* A scheduler is there while the command of its process waits for it or shuts it down,
\* and what a worker runs its chain has as running.
SchedulersAreWaitedFor ==
    \A p \in Process :
        /\ scheduler[p] \in {"starting", "running", "releases"} => at[p] \in Watched
        /\ scheduler[p] = "ended" => at[p] \in Watched \cup {"over"}
        /\ claimed[p] # {} => at[p] \in Watched /\ scheduler[p] \in {"running", "releases", "ended"}
        /\ \A t \in claimed[p] : ownChain[p][t] = "running"

\* A process that owns the lease has begun, and has ended if the lease expired.
OwnersHaveBegun ==
    lease.owner \in Process => at[lease.owner] # "off" /\ (~lease.fresh => at[lease.owner] = "over")

\* Tasks that are done anywhere were done; those that a scheduler does not have, too.
AbsentIsFinished(tasks) == ChainTask \ InChain(tasks) \subseteq finished
DoneIsFinished(tasks) == \A t \in ChainTask : tasks[t] = "done" => t \in finished

NothingIsDropped ==
    /\ DoneIsFinished(chain) /\ \A p \in Process : DoneIsFinished(ownChain[p])
    /\ chain # NoTasks => AbsentIsFinished(chain)
    /\ \A p \in Process : scheduler[p] # "none" \/ at[p] = "hasRead" => AbsentIsFinished(ownChain[p])

\* The lease nobody who is alive owns.
Stale == lease.owner # Nobody /\ (lease.owner \in Process => at[lease.owner] = "over")

\* A takeover that has passed its check is the only one, and the lease is one it may replace.
TakeoverIsAlone ==
    raced \/ /\ \A p, q \in Process : TakingOver(p) /\ TakingOver(q) => p = q
             /\ \A p \in Process : TakingOver(p) => Stale

\* A scheduler that has not released the lease owns it; workers outlast it when it is closed.
SchedulersOwnTheLease ==
    raced \/ \A p \in Process :
        /\ scheduler[p] \in {"running", "releases"} => lease.owner = p
        /\ claimed[p] # {} => scheduler[p] = "running" \/ Closing(p)

ControlIInv ==
    /\ ControlTyped /\ SchedulersAreWaitedFor /\ OwnersHaveBegun /\ NothingIsDropped
    /\ TakeoverIsAlone /\ SchedulersOwnTheLease

-----------------------------------------------------------------------------
(* Submissions.                                                             *)

EntryStatus == {"none", "claimed", "settled"}
Entries == [Key -> EntryStatus]
BeforeStart == {"claims", "writesClaim", "claimed"}
Holding == BeforeStart \cup {"starts", "settles", "writesSettled"}
SubmissionPlace == Holding \cup {"off", "over"}

SubmissionTyped ==
    /\ ledger \in Entries /\ stored \in Entries /\ snapshot \in [Submission -> Entries]
    /\ step \in [Submission -> SubmissionPlace]
    /\ startedHere \in [Key -> Nat] /\ started \in [Key -> Nat]

\* The call that has claimed a key is the only one of that key, and before it starts the
\* mission none was started.
ClaimsAreExclusive ==
    /\ \A s \in Submission : step[s] \in Holding => ledger[KeyOf[s]] # "none"
    /\ \A s, r \in Submission :
          step[s] \in Holding /\ step[r] \in Holding /\ KeyOf[s] = KeyOf[r] => s = r
    /\ \A s \in Submission : step[s] \in BeforeStart => startedHere[KeyOf[s]] = 0
    /\ \A s \in Submission : step[s] = "starts" => startedHere[KeyOf[s]] = 1
    /\ \A k \in Key : /\ ledger[k] = "none" => startedHere[k] = 0
                      /\ startedHere[k] <= 1 /\ startedHere[k] <= started[k]

SettledWasStarted ==
    \A k \in Key :
        "settled" \in {ledger[k], stored[k]} \cup {snapshot[s][k] : s \in Submission} => started[k] > 0

SubmissionIInv == SubmissionTyped /\ ClaimsAreExclusive /\ SettledWasStarted

-----------------------------------------------------------------------------
(* The record of a task.                                                    *)

MissionStatus == Final \cup {"running", "blocked"}
CallPlace == {"idle", "asks", "knows", "reports", "cancels", "cancelled", "over"}

MonitorTyped ==
    /\ mission \in MissionStatus /\ record \in MissionStatus \cup {"accepted"}
    /\ monitored \in BOOLEAN /\ isClosed \in BOOLEAN
    /\ call \in [Caller -> CallPlace] /\ answer \in [Caller -> MissionStatus]
    /\ finishedEvents \in Nat

\* Whoever knows of an end or is about to report one has it from the mission.
EndsComeFromMission ==
    /\ record \in Final \/ finishedEvents > 0 => mission \in Final
    /\ \A c \in Caller :
          /\ answer[c] \in Final \/ call[c] \in {"reports", "cancelled"} => mission \in Final
          /\ call[c] = "reports" => ~monitored

MonitorIInv == MonitorTyped /\ EndsComeFromMission

-----------------------------------------------------------------------------
(* The git repository.                                                      *)

AllDone == \A t \in WritingTask : stage[t] = "done"

\* The final tests are over, or will not be run by this process.
BeyondTests ==
    AllDone /\ (ending \in {"onTarget", "merged", "over"} \/ ~(session = "open" /\ report.merged))

Stage ==
    {"idle", "works", "stranded", "committed", "verified", "rejected", "onBranch", "merged", "detached",
     "reportsMerged", "reportsRejected", "blocked", "done"}

GitTyped ==
    /\ stage \in [WritingTask -> Stage]
    /\ head \in [on : {"integration", "target", "nothing"}, has : SUBSET verified]
    /\ report \in [open : BOOLEAN, merged : BOOLEAN, risks : BOOLEAN]
    /\ seen \in [WritingTask -> [open : BOOLEAN, merged : BOOLEAN, risks : BOOLEAN]]

\* What is to be merged was verified, and not in the checkout of the target branch.
ReviewedFirst ==
    \A t \in WritingTask :
        /\ stage[t] \in {"verified", "onBranch"} => allocation[t] \in verified
        /\ stage[t] = "onBranch" => head.on # "target"

\* Until the final tests: the target branch is empty, and what is checked out has all of
\* the integration branch.
TestsSeeAll ==
    /\ ending # "no" => AllDone
    /\ BeyondTests \/ (target = {} /\ integration \subseteq HeadHas)
    /\ ending \in {"passed", "onTarget"} => integration \subseteq tested

GitIInv == GitTyped /\ ReviewedFirst /\ TestsSeeAll /\ OnlyVerifiedIsMerged /\ TargetIsTested
-----------------------------------------------------------------------------
(* Proof about the mission.                                                 *)

\* A chain that is written keeps what is known of its tasks.
LEMMA ChainTypes ==
    ASSUME ControlTyped, NEW p \in Process
    PROVE  /\ ToResume(chain) \in Chain
           /\ [t \in ChainTask |-> "pending"] \in Chain /\ NoTasks \in Chain
           /\ [t \in ChainTask |-> IF t \in ReadyIn(ownChain[p]) THEN "running" ELSE ownChain[p][t]] \in Chain
           /\ \A t \in ChainTask, status \in {"done", "blocked", "pending"} :
                 [ownChain[p] EXCEPT ![t] = status] \in Chain
<1>1. chain \in Chain /\ ownChain[p] \in Chain
  BY DEF ControlTyped
<1>2. ToResume(chain) \in Chain
  BY <1>1 DEF ToResume, Chain, TaskStatus
<1>3. [t \in ChainTask |-> "pending"] \in Chain /\ NoTasks \in Chain
  BY DEF NoTasks, Chain, TaskStatus
<1>4. [t \in ChainTask |-> IF t \in ReadyIn(ownChain[p]) THEN "running" ELSE ownChain[p][t]] \in Chain
  BY <1>1 DEF Chain, TaskStatus
<1>5. \A t \in ChainTask, status \in {"done", "blocked", "pending"} :
         [ownChain[p] EXCEPT ![t] = status] \in Chain
  BY <1>1 DEF Chain, TaskStatus
<1> QED
  BY <1>2, <1>3, <1>4, <1>5

\* A command that launches a scheduler gives it a chain, or ends.
LEMMA LaunchKinds ==
    ASSUME ControlTyped, NEW p \in Process, NEW tasks, Launch(p, tasks)
    PROVE  \/ /\ scheduler' = [scheduler EXCEPT ![p] = "starting"]
              /\ ownChain' = [ownChain EXCEPT ![p] = tasks]
              /\ at' = [at EXCEPT ![p] = "waits"]
           \/ at' = [at EXCEPT ![p] = "over"] /\ scheduler' = scheduler /\ ownChain' = ownChain
BY DEF Launch

\* A process that has not begun, or whose command still runs, has no expired lease.
LEMMA NotExpired ==
    ASSUME ControlIInv, NEW p \in Process, at[p] # "over"
    PROVE  lease.owner = p => lease.fresh /\ at[p] # "off"
BY DEF ControlIInv, OwnersHaveBegun

\* A process whose command has no scheduler to wait for has none, and no workers.
LEMMA NothingToWatch ==
    ASSUME ControlIInv, NEW p \in Process, at[p] \notin Watched \cup {"over"}
    PROVE  scheduler[p] = "none" /\ claimed[p] = {}
BY DEF ControlIInv, ControlTyped, SchedulersAreWaitedFor, SchedulerPhase

\* A command goes on, and nothing but the summary, the writes that wait for it and what a
\* takeover knows changes.
LEMMA CommandGoesOn ==
    ASSUME ControlIInv, NEW p \in Process, NEW to \in Place,
           at[p] # "over", at' = [at EXCEPT ![p] = to], to # "off",
           to = "hasRead" => AbsentIsFinished(ownChain[p]),
           \/ scheduler[p] = "none" /\ claimed[p] = {}
           \/ to \in {"closes", "cancelsOwn"}
           \/ to = "over" /\ scheduler[p] \in {"none", "ended"} /\ claimed[p] = {},
           UNCHANGED <<chain, lease, scheduler, ownChain, claimed, finished>>,
           expected' \in [Process -> Nat], raced' \in BOOLEAN, raced => raced',
           to \in Taking => raced' \/ at[p] \in Taking \/ (Stale /\ \A q \in Process : ~TakingOver(q))
    PROVE  ControlIInv'
<1>0. /\ ControlTyped /\ SchedulersAreWaitedFor /\ OwnersHaveBegun /\ NothingIsDropped
      /\ TakeoverIsAlone /\ SchedulersOwnTheLease
  BY DEF ControlIInv
<1>1. at \in [Process -> Place] /\ at'[p] = to /\ \A q \in Process \ {p} : at'[q] = at[q]
  BY <1>0 DEF ControlTyped
<1>2. ControlTyped'
  BY <1>0, <1>1 DEF ControlTyped
<1>3. SchedulersAreWaitedFor'
  BY <1>0, <1>1 DEF SchedulersAreWaitedFor, Watched
<1>4. OwnersHaveBegun'
  BY <1>0, <1>1, NotExpired DEF OwnersHaveBegun
<1>5. NothingIsDropped'
  <2>1. \A q \in Process : at'[q] = "hasRead" => at[q] = "hasRead" \/ AbsentIsFinished(ownChain[q])
    BY <1>1
  <2> QED
    BY <1>0, <2>1 DEF NothingIsDropped, DoneIsFinished, AbsentIsFinished, InChain
<1>6. TakeoverIsAlone'
  <2> SUFFICES ASSUME ~raced'
               PROVE  /\ \A q, r \in Process : at'[q] \in Taking /\ at'[r] \in Taking => q = r
                      /\ \A q \in Process : at'[q] \in Taking => Stale'
    BY DEF TakeoverIsAlone, TakingOver, Taking
  <2>1. /\ \A q, r \in Process : at[q] \in Taking /\ at[r] \in Taking => q = r
        /\ \A q \in Process : at[q] \in Taking => Stale
    BY <1>0 DEF TakeoverIsAlone, TakingOver, Taking
  <2>2. Stale => Stale'
    BY <1>1 DEF Stale
  <2>3. at'[p] \in Taking => at[p] \in Taking \/ (Stale /\ \A q \in Process : at[q] \notin Taking)
    BY <1>1 DEF TakingOver, Taking
  <2> QED
    BY <1>1, <2>1, <2>2, <2>3
<1>7. SchedulersOwnTheLease'
  BY <1>0, <1>1 DEF SchedulersOwnTheLease, Closing
<1> QED
  BY <1>2, <1>3, <1>4, <1>5, <1>6, <1>7 DEF ControlIInv

\* A scheduler is launched by a command that has none, with a chain that drops no task.
LEMMA Launches ==
    ASSUME ControlIInv, NEW p \in Process, NEW tasks \in Chain, Launch(p, tasks),
           at[p] \in {"created", "hasRead"},
           DoneIsFinished(tasks), AbsentIsFinished(tasks),
           UNCHANGED <<chain, lease, claimed, finished, expected, raced>>
    PROVE  ControlIInv'
<1>0. /\ ControlTyped /\ SchedulersAreWaitedFor /\ OwnersHaveBegun /\ NothingIsDropped
      /\ TakeoverIsAlone /\ SchedulersOwnTheLease
  BY DEF ControlIInv
<1>1. /\ scheduler[p] = "none" /\ claimed[p] = {} /\ (lease.owner = p => lease.fresh)
  BY NothingToWatch, NotExpired DEF Watched
<1>2. CASE at' = [at EXCEPT ![p] = "over"] /\ scheduler' = scheduler /\ ownChain' = ownChain
  <2>1. \E to \in Place : to = "over"
    BY DEF Place
  <2>2. expected' \in [Process -> Nat] /\ raced' \in BOOLEAN
    BY <1>0 DEF ControlTyped
  <2> QED
    BY <1>1, <1>2, <2>1, <2>2, CommandGoesOn DEF Taking
<1>3. CASE /\ scheduler' = [scheduler EXCEPT ![p] = "starting"]
           /\ ownChain' = [ownChain EXCEPT ![p] = tasks]
           /\ at' = [at EXCEPT ![p] = "waits"]
  <2>1. /\ at'[p] = "waits" /\ \A q \in Process \ {p} : at'[q] = at[q]
        /\ scheduler'[p] = "starting" /\ \A q \in Process \ {p} : scheduler'[q] = scheduler[q]
        /\ ownChain'[p] = tasks /\ \A q \in Process \ {p} : ownChain'[q] = ownChain[q]
    BY <1>0, <1>3 DEF ControlTyped
  <2>2. ControlTyped'
    <3>1. "waits" \in Place /\ "starting" \in SchedulerPhase
      BY DEF Place, Watched, SchedulerPhase
    <3> QED
      BY <1>0, <1>3, <3>1 DEF ControlTyped
  <2>3. SchedulersAreWaitedFor'
    BY <1>0, <1>1, <2>1 DEF SchedulersAreWaitedFor, Watched
  <2>4. OwnersHaveBegun'
    BY <1>0, <1>1, <2>1 DEF OwnersHaveBegun
  <2>5. NothingIsDropped'
    <3>1. \A q \in Process : DoneIsFinished(ownChain'[q])
      BY <1>0, <2>1 DEF NothingIsDropped
    <3>2. \A q \in Process :
             scheduler'[q] # "none" \/ at'[q] = "hasRead" => AbsentIsFinished(ownChain'[q])
      BY <1>0, <2>1 DEF NothingIsDropped
    <3> QED
      BY <1>0, <3>1, <3>2 DEF NothingIsDropped, DoneIsFinished, AbsentIsFinished
  <2>6. TakeoverIsAlone'
    BY <1>0, <2>1 DEF TakeoverIsAlone, TakingOver, Stale
  <2>7. SchedulersOwnTheLease'
    BY <1>0, <1>1, <2>1 DEF SchedulersOwnTheLease, Closing
  <2> QED
    BY <2>2, <2>3, <2>4, <2>5, <2>6, <2>7 DEF ControlIInv
<1> QED
  BY <1>0, <1>2, <1>3, LaunchKinds

\* The scheduler of a process takes its next step; the lease, if it moves, moves to or from it.
LEMMA SchedulerGoesOn ==
    ASSUME ControlIInv, ControlAssumption, NEW p \in Process, NEW to \in SchedulerPhase,
           scheduler' = [scheduler EXCEPT ![p] = to],
           scheduler[p] \in {"starting", "running", "releases"},
           \/ /\ lease' = lease /\ to \notin {"starting", "running"}
              /\ to = "releases" => scheduler[p] = "running"
           \/ /\ scheduler[p] = "starting" /\ to = "running"
              /\ lease.owner = Nobody /\ lease' = LeaseOf(p, 1)
           \/ /\ scheduler[p] = "releases" /\ to = "ended"
              /\ lease.owner = p /\ lease' = Free,
           to = "none" => scheduler[p] = "starting",
           to \in {"releases", "ended"} => raced \/ claimed[p] = {} \/ Closing(p),
           UNCHANGED <<chain, at, ownChain, claimed, finished, expected, raced>>
    PROVE  ControlIInv'
<1>0. /\ ControlTyped /\ SchedulersAreWaitedFor /\ OwnersHaveBegun /\ NothingIsDropped
      /\ TakeoverIsAlone /\ SchedulersOwnTheLease
  BY DEF ControlIInv
<1>1. scheduler'[p] = to /\ \A q \in Process \ {p} : scheduler'[q] = scheduler[q]
  BY <1>0 DEF ControlTyped
<1>2. at[p] \in Watched /\ at[p] \notin {"off", "over", "hasRead"} /\ p \notin {Nobody, Earlier, Takeover}
      /\ Nobody \notin Process
  BY <1>0 DEF SchedulersAreWaitedFor, ControlAssumption, Watched
<1>3. ControlTyped'
  <2>1. lease' \in LeaseFile
    <3>1. Free \in LeaseFile /\ LeaseOf(p, 1) \in LeaseFile
      BY DEF Free, LeaseOf, LeaseFile
    <3>2. lease \in LeaseFile
      BY <1>0 DEF ControlTyped
    <3> QED
      BY <3>1, <3>2
  <2> QED
    BY <1>0, <2>1 DEF ControlTyped
<1>4. SchedulersAreWaitedFor'
  <2>1. scheduler[p] = "starting" => claimed[p] = {}
    BY <1>0 DEF SchedulersAreWaitedFor
  <2> QED
    BY <1>0, <1>1, <1>2, <2>1 DEF SchedulersAreWaitedFor, SchedulerPhase
<1>5. OwnersHaveBegun'
  BY <1>0, <1>2 DEF OwnersHaveBegun, Free, LeaseOf
<1>6. NothingIsDropped'
  <2>1. \A q \in Process : scheduler'[q] # "none" => scheduler[q] # "none"
    BY <1>1
  <2> QED
    BY <1>0, <2>1 DEF NothingIsDropped, DoneIsFinished, AbsentIsFinished, InChain
<1>7. TakeoverIsAlone'
  <2>1. lease' = lease \/ ~Stale
    BY <1>2 DEF Stale
  <2> QED
    BY <1>0, <2>1 DEF TakeoverIsAlone, TakingOver, Stale
<1>8. SchedulersOwnTheLease'
  <2> SUFFICES ASSUME ~raced, NEW q \in Process
               PROVE  /\ scheduler'[q] \in {"running", "releases"} => lease'.owner = q
                      /\ claimed[q] # {} => scheduler'[q] = "running" \/ Closing(q)
    BY DEF SchedulersOwnTheLease, Closing
  <2>1. /\ scheduler[q] \in {"running", "releases"} => lease.owner = q
        /\ claimed[q] # {} => scheduler[q] = "running" \/ Closing(q)
    BY <1>0 DEF SchedulersOwnTheLease
  <2>2. scheduler[p] \in {"running", "releases"} => lease.owner = p
    BY <1>0 DEF SchedulersOwnTheLease
  <2>3. CASE q = p
    <3>1. to = "none" => claimed[p] = {}
      BY <1>0 DEF SchedulersAreWaitedFor
    <3> QED
      BY <1>1, <1>2, <2>1, <2>3, <3>1 DEF LeaseOf, SchedulerPhase
  <2>4. CASE q # p
    BY <1>1, <1>2, <2>1, <2>2, <2>4
  <2> QED
    BY <2>3, <2>4
<1> QED
  BY <1>3, <1>4, <1>5, <1>6, <1>7, <1>8 DEF ControlIInv

\* A scheduler that works, or one of its workers, writes its chain.
LEMMA ChainIsWritten ==
    ASSUME ControlIInv, NEW p \in Process, scheduler[p] = "running" \/ claimed[p] # {},
           NEW tasks \in Chain, Persist(p, tasks), finished \subseteq finished',
           \A t \in ChainTask : tasks[t] = "absent" => ownChain[p][t] = "absent",
           \A t \in ChainTask : tasks[t] = "done" => ownChain[p][t] = "done" \/ t \in finished',
           claimed' \in [Process -> SUBSET ChainTask],
           \A q \in Process \ {p} : claimed'[q] = claimed[q],
           \A t \in claimed'[p] : tasks[t] = "running",
           UNCHANGED <<lease, at, scheduler, expected, raced>>
    PROVE  ControlIInv'
<1>0. /\ ControlTyped /\ SchedulersAreWaitedFor /\ OwnersHaveBegun /\ NothingIsDropped
      /\ TakeoverIsAlone /\ SchedulersOwnTheLease
  BY DEF ControlIInv
<1>1. chain' = tasks /\ ownChain' = [ownChain EXCEPT ![p] = tasks]
  BY DEF Persist
<1>2. ownChain'[p] = tasks /\ \A q \in Process \ {p} : ownChain'[q] = ownChain[q]
  BY <1>0, <1>1 DEF ControlTyped
<1>3. ControlTyped'
  BY <1>0, <1>1 DEF ControlTyped
<1>4. SchedulersAreWaitedFor'
  BY <1>0, <1>2 DEF SchedulersAreWaitedFor
<1>5. OwnersHaveBegun'
  BY <1>0 DEF OwnersHaveBegun
<1>6. NothingIsDropped'
  <2>0. scheduler[p] # "none"
    BY <1>0 DEF SchedulersAreWaitedFor
  <2>1. \A t \in ChainTask : (tasks[t] = "done" => t \in finished') /\ (tasks[t] = "absent" => t \in finished')
    BY <1>0, <2>0 DEF NothingIsDropped, DoneIsFinished, AbsentIsFinished, InChain
  <2>2. \A q \in Process \ {p} : \A t \in ChainTask : ownChain'[q][t] = "done" => t \in finished'
    BY <1>0, <1>2 DEF NothingIsDropped, DoneIsFinished
  <2>3. \A q \in Process \ {p} :
           scheduler'[q] # "none" \/ at'[q] = "hasRead" =>
               \A t \in ChainTask : ownChain'[q][t] = "absent" => t \in finished'
    BY <1>0, <1>2 DEF NothingIsDropped, AbsentIsFinished, InChain
  <2> QED
    BY <1>1, <1>2, <2>1, <2>2, <2>3 DEF NothingIsDropped, DoneIsFinished, AbsentIsFinished, InChain
<1>7. TakeoverIsAlone'
  BY <1>0 DEF TakeoverIsAlone, TakingOver, Stale
<1>8. SchedulersOwnTheLease'
  BY <1>0 DEF SchedulersOwnTheLease, Closing
<1> QED
  BY <1>3, <1>4, <1>5, <1>6, <1>7, <1>8 DEF ControlIInv

\* The commands that change neither the lease, a chain nor a scheduler.
LEMMA PlainCommands ==
    ASSUME ControlIInv, NEW p \in Process,
           \/ ResumeChecks(p) \/ ExecuteChecks(p) \/ CenterProbes(p) \/ CenterResumes(p)
           \/ CancelChecks(p) \/ CancelWrites(p) \/ Abandons(p)
           \/ StopsWaiting(p) \/ CancelsOwn(p) \/ Leaves(p)
    PROVE  ControlIInv'
<1>1. /\ at[p] # "over" /\ UNCHANGED <<chain, lease, scheduler, ownChain, claimed, finished, expected, raced>>
      /\ \E to \in Place :
            /\ at' = [at EXCEPT ![p] = to] /\ to \notin {"off", "hasRead"} \cup Taking
            /\ \/ to \in {"closes", "cancelsOwn"}
               \/ at[p] \notin Watched
               \/ to = "over" /\ scheduler[p] \in {"none", "ended"} /\ claimed[p] = {}
  <2>1. CASE ResumeChecks(p) \/ ExecuteChecks(p) \/ CenterProbes(p) \/ CenterResumes(p)
    BY <2>1 DEF ResumeChecks, ExecuteChecks, CenterProbes, CenterResumes, Takes, files, recovery,
                Place, Watched, Taking
  <2>2. CASE CancelChecks(p) \/ CancelWrites(p) \/ Abandons(p)
    BY <2>2 DEF CancelChecks, CancelWrites, Abandons, Takes, files, recovery, Place, Watched, Taking
  <2>3. CASE StopsWaiting(p) \/ CancelsOwn(p)
    BY <2>3 DEF StopsWaiting, CancelsOwn, Takes, files, recovery, Place, Watched, Taking
  <2>4. CASE Leaves(p)
    BY <2>4 DEF Leaves, Closing, files, recovery, Place, Watched, Taking
  <2> QED
    BY <2>1, <2>2, <2>3, <2>4
<1>2. PICK to \in Place :
         /\ at' = [at EXCEPT ![p] = to] /\ to \notin {"off", "hasRead"} \cup Taking
         /\ \/ to \in {"closes", "cancelsOwn"}
            \/ at[p] \notin Watched
            \/ to = "over" /\ scheduler[p] \in {"none", "ended"} /\ claimed[p] = {}
  BY <1>1
<1>3. at[p] \notin Watched => scheduler[p] = "none" /\ claimed[p] = {}
  BY <1>1, NothingToWatch
<1>4. expected' \in [Process -> Nat] /\ raced' \in BOOLEAN
  BY <1>1 DEF ControlIInv, ControlTyped
<1> QED
  BY <1>1, <1>2, <1>3, <1>4, CommandGoesOn

LEMMA CreateSteps ==
    ASSUME ControlIInv, NEW p \in Process, CreatesChain(p) \/ CreatesSummary(p)
    PROVE  ControlIInv'
<1>0. /\ ControlTyped /\ SchedulersAreWaitedFor /\ OwnersHaveBegun /\ NothingIsDropped
      /\ TakeoverIsAlone /\ SchedulersOwnTheLease
  BY DEF ControlIInv
<1> DEFINE new == [t \in ChainTask |-> "pending"]
<1>1. new \in Chain
  BY DEF Chain, TaskStatus
<1>2. DoneIsFinished(new) /\ AbsentIsFinished(new)
  BY DEF DoneIsFinished, AbsentIsFinished, InChain
<1>3. CASE CreatesChain(p)
  <2>1. /\ at[p] = "off" /\ at' = [at EXCEPT ![p] = "created"] /\ chain' = new
        /\ UNCHANGED <<lease, scheduler, ownChain, claimed, finished, expected, raced>>
    BY <1>3 DEF CreatesChain, Takes, recovery
  <2> HIDE DEF new
  <2>2. at'[p] = "created" /\ \A q \in Process \ {p} : at'[q] = at[q]
    BY <1>0, <2>1 DEF ControlTyped
  <2>3. lease.owner # p /\ scheduler[p] = "none" /\ claimed[p] = {}
    BY <2>1, NotExpired, NothingToWatch DEF Watched
  <2>4. ControlTyped'
    <3>1. "created" \in Place
      BY DEF Place
    <3> QED
      BY <1>0, <1>1, <2>1, <3>1 DEF ControlTyped
  <2>5. SchedulersAreWaitedFor'
    BY <1>0, <2>1, <2>2, <2>3 DEF SchedulersAreWaitedFor
  <2>6. OwnersHaveBegun'
    BY <1>0, <2>1, <2>2, <2>3 DEF OwnersHaveBegun
  <2>7. NothingIsDropped'
    BY <1>0, <1>2, <2>1, <2>2 DEF NothingIsDropped, DoneIsFinished, AbsentIsFinished, InChain
  <2>8. TakeoverIsAlone'
    BY <1>0, <2>1, <2>2, <2>3 DEF TakeoverIsAlone, TakingOver, Stale
  <2>9. SchedulersOwnTheLease'
    BY <1>0, <2>1, <2>2, <2>3 DEF SchedulersOwnTheLease, Closing
  <2> QED
    BY <2>4, <2>5, <2>6, <2>7, <2>8, <2>9 DEF ControlIInv
<1>4. CASE CreatesSummary(p)
  <2>1. /\ at[p] = "created" /\ Launch(p, new)
        /\ UNCHANGED <<chain, lease, claimed, finished, expected, raced>>
    BY <1>4 DEF CreatesSummary, recovery
  <2> HIDE DEF new
  <2> QED
    BY <1>1, <1>2, <2>1, Launches
<1> QED
  BY <1>3, <1>4

LEMMA ResumeSteps ==
    ASSUME ControlIInv, NEW p \in Process, ResumeReads(p) \/ ResumeLaunches(p)
    PROVE  ControlIInv'
<1>0. /\ ControlTyped /\ SchedulersAreWaitedFor /\ OwnersHaveBegun /\ NothingIsDropped
      /\ TakeoverIsAlone /\ SchedulersOwnTheLease
  BY DEF ControlIInv
<1>1. CASE ResumeReads(p)
  <2> DEFINE new == ToResume(chain)
             to == IF Incomplete(chain) = {} THEN "over" ELSE "hasRead"
  <2>1. /\ at[p] = "resumes" /\ at' = [at EXCEPT ![p] = to]
        /\ ownChain' = [ownChain EXCEPT ![p] = new]
        /\ UNCHANGED <<chain, lease, scheduler, claimed, finished, expected, raced>>
    BY <1>1 DEF ResumeReads, files, recovery
  <2>2. new \in Chain /\ to \in Place /\ to \in {"over", "hasRead"}
    BY <1>0, ChainTypes DEF Place
  <2>3. DoneIsFinished(new)
    BY DEF ToResume, Incomplete, InChain, DoneIsFinished
  <2>4. to = "hasRead" => AbsentIsFinished(new)
    <3> SUFFICES ASSUME to = "hasRead", NEW t \in ChainTask, new[t] = "absent" PROVE t \in finished
      BY DEF AbsentIsFinished, InChain
    <3>1. chain # NoTasks
      BY DEF Incomplete, InChain, NoTasks
    <3>2. t \notin Incomplete(chain) \/ chain[t] = "absent"
      BY DEF ToResume
    <3>3. chain[t] = "absent" \/ chain[t] = "done"
      BY <3>2 DEF Incomplete, InChain
    <3> QED
      BY <1>0, <3>1, <3>3 DEF NothingIsDropped, DoneIsFinished, AbsentIsFinished, InChain
  <2> HIDE DEF new, to
  <2>5. /\ at'[p] = to /\ \A q \in Process \ {p} : at'[q] = at[q]
        /\ ownChain'[p] = new /\ \A q \in Process \ {p} : ownChain'[q] = ownChain[q]
    BY <1>0, <2>1 DEF ControlTyped
  <2>6. scheduler[p] = "none" /\ claimed[p] = {} /\ (lease.owner = p => lease.fresh)
    BY <2>1, NotExpired, NothingToWatch DEF Watched
  <2>7. ControlTyped'
    BY <1>0, <2>1, <2>2 DEF ControlTyped
  <2>8. SchedulersAreWaitedFor'
    BY <1>0, <2>1, <2>5, <2>6 DEF SchedulersAreWaitedFor
  <2>9. OwnersHaveBegun'
    BY <1>0, <2>1, <2>2, <2>5, <2>6 DEF OwnersHaveBegun
  <2>10. NothingIsDropped'
    <3>1. \A q \in Process : DoneIsFinished(ownChain'[q])
      BY <1>0, <2>3, <2>5 DEF NothingIsDropped
    <3>2. \A q \in Process :
             scheduler'[q] # "none" \/ at'[q] = "hasRead" => AbsentIsFinished(ownChain'[q])
      BY <1>0, <2>1, <2>4, <2>5, <2>6 DEF NothingIsDropped
    <3> QED
      BY <1>0, <2>1, <3>1, <3>2 DEF NothingIsDropped, DoneIsFinished, AbsentIsFinished
  <2>11. TakeoverIsAlone'
    BY <1>0, <2>1, <2>2, <2>5 DEF TakeoverIsAlone, TakingOver, Stale
  <2>12. SchedulersOwnTheLease'
    BY <1>0, <2>1, <2>5, <2>6 DEF SchedulersOwnTheLease, Closing
  <2> QED
    BY <2>7, <2>8, <2>9, <2>10, <2>11, <2>12 DEF ControlIInv
<1>2. CASE ResumeLaunches(p)
  <2>1. /\ at[p] = "hasRead" /\ Launch(p, ownChain[p])
        /\ UNCHANGED <<chain, lease, claimed, finished, expected, raced>>
    BY <1>2 DEF ResumeLaunches, recovery
  <2>2. ownChain[p] \in Chain /\ DoneIsFinished(ownChain[p]) /\ AbsentIsFinished(ownChain[p])
    BY <1>0, <2>1 DEF ControlTyped, NothingIsDropped
  <2> QED
    BY <2>1, <2>2, Launches
<1> QED
  BY <1>1, <1>2

\* The steps of a takeover that only read the lease.
LEMMA TakeoverReads ==
    ASSUME ControlIInv, NEW p \in Process,
           InspectsLease(p) \/ ConfirmsExpiry(p) \/ ChecksTakeover(p) \/ ReadsTakenOver(p)
    PROVE  ControlIInv'
<1>0. ControlTyped /\ OwnersHaveBegun
  BY DEF ControlIInv
<1>1. /\ at[p] \in {"takesOver", "confirms", "checks", "returns"}
      /\ UNCHANGED <<chain, lease, scheduler, ownChain, claimed, finished>>
  BY DEF InspectsLease, ConfirmsExpiry, ChecksTakeover, ReadsTakenOver, unmovedByTakeover, Takes
<1>2. scheduler[p] = "none" /\ claimed[p] = {}
  BY <1>1, NothingToWatch DEF Watched
<1>3. expected' \in [Process -> Nat]
  <2>1. lease.revision \in Nat
    BY <1>0 DEF ControlTyped, LeaseFile
  <2> QED
    BY <1>0, <2>1 DEF InspectsLease, ConfirmsExpiry, ChecksTakeover, ReadsTakenOver, recovery, ControlTyped
<1>4. raced' \in BOOLEAN /\ (raced => raced')
  BY <1>0 DEF InspectsLease, ConfirmsExpiry, ChecksTakeover, ReadsTakenOver, recovery, ControlTyped
<1>5. \E to \in Place :
         /\ at' = [at EXCEPT ![p] = to] /\ to \notin {"off", "hasRead"}
         /\ to \in Taking =>
               raced' \/ at[p] \in Taking \/ (Stale /\ \A q \in Process : ~TakingOver(q))
  <2>1. CASE InspectsLease(p) \/ ConfirmsExpiry(p)
    BY <2>1 DEF InspectsLease, ConfirmsExpiry, Takes, Place, Taking
  <2>2. CASE ReadsTakenOver(p)
    BY <2>2 DEF ReadsTakenOver, Takes, Place, Taking
  <2>3. CASE ChecksTakeover(p)
    <3>1. CASE ~(Expired /\ lease.revision = expected[p])
      <4>1. at' = [at EXCEPT ![p] = "over"]
        BY <2>3, <3>1 DEF ChecksTakeover, Takes
      <4>2. "over" \in Place /\ "over" \notin {"off", "hasRead"} \cup Taking
        BY DEF Place, Taking
      <4> QED
        BY <4>1, <4>2
    <3>2. CASE Expired /\ lease.revision = expected[p]
      <4>1. at' = [at EXCEPT ![p] = "renames"] /\ at'[p] = "renames"
        BY <1>0, <2>3, <3>2 DEF ChecksTakeover, Takes, ControlTyped
      <4>2. raced' \/ \A q \in Process : ~TakingOver(q)
        BY <2>3, <4>1 DEF ChecksTakeover
      <4>3. Stale
        BY <1>0, <3>2 DEF Stale, Expired, OwnersHaveBegun
      <4>4. "renames" \in Place
        BY DEF Place, Taking
      <4> QED
        BY <4>1, <4>2, <4>3, <4>4
    <3> QED
      BY <3>1, <3>2
  <2> QED
    BY <2>1, <2>2, <2>3
<1>6. PICK to \in Place :
         /\ at' = [at EXCEPT ![p] = to] /\ to \notin {"off", "hasRead"}
         /\ to \in Taking =>
               raced' \/ at[p] \in Taking \/ (Stale /\ \A q \in Process : ~TakingOver(q))
  BY <1>5
<1> QED
  BY <1>1, <1>2, <1>3, <1>4, <1>6, CommandGoesOn

\* An expired lease is replaced and released by another process only when its owner has ended.
LEMMA TakeoverWrites ==
    ASSUME ControlIInv, ControlAssumption, NEW p \in Process, TakesOver(p) \/ DropsTakenOver(p)
    PROVE  ControlIInv'
<1>0. /\ ControlTyped /\ SchedulersAreWaitedFor /\ OwnersHaveBegun /\ NothingIsDropped
      /\ TakeoverIsAlone /\ SchedulersOwnTheLease
  BY DEF ControlIInv
<1> DEFINE to == IF at[p] = "renames" THEN "returns" ELSE "resumes"
<1>1. /\ at[p] \in {"renames", "drops"} /\ at' = [at EXCEPT ![p] = to]
      /\ lease' = Free \/ lease' = LeaseOf(Takeover, expected[p] + 1)
      /\ to = "returns" => lease' = LeaseOf(Takeover, expected[p] + 1)
      /\ UNCHANGED <<chain, scheduler, ownChain, claimed, finished, expected, raced>>
  BY DEF TakesOver, DropsTakenOver, Takes, unmovedByTakeover, recovery
<1>2. to \in {"returns", "resumes"}
  OBVIOUS
<1> HIDE DEF to
<1>3. at'[p] = to /\ \A q \in Process \ {p} : at'[q] = at[q]
  BY <1>0, <1>1 DEF ControlTyped
<1>4. scheduler[p] = "none" /\ claimed[p] = {}
  BY <1>1, NothingToWatch DEF Watched
<1>5. ControlTyped'
  <2>1. lease' \in LeaseFile
    <3>1. expected[p] + 1 \in Nat
      BY <1>0 DEF ControlTyped
    <3> QED
      <4>1. Free \in LeaseFile /\ LeaseOf(Takeover, expected[p] + 1) \in LeaseFile
        BY <3>1 DEF Free, LeaseOf, LeaseFile
      <4> QED
        BY <1>1, <4>1
  <2>2. to \in Place
    BY <1>2 DEF Place, Taking
  <2> QED
    BY <1>0, <1>1, <2>1, <2>2 DEF ControlTyped
<1>6. SchedulersAreWaitedFor'
  BY <1>0, <1>1, <1>3, <1>4 DEF SchedulersAreWaitedFor
<1>7. lease'.owner \notin Process /\ (to = "returns" => lease'.owner # Nobody)
  BY <1>1 DEF ControlAssumption, Free, LeaseOf
<1>8. OwnersHaveBegun'
  BY <1>7 DEF OwnersHaveBegun
<1>9. NothingIsDropped'
  BY <1>0, <1>1, <1>2, <1>3 DEF NothingIsDropped, DoneIsFinished, AbsentIsFinished, InChain
<1>10. TakeoverIsAlone'
  <2> SUFFICES ASSUME ~raced
               PROVE  /\ \A q, r \in Process : at'[q] \in Taking /\ at'[r] \in Taking => q = r
                      /\ \A q \in Process : at'[q] \in Taking => Stale'
    BY <1>1 DEF TakeoverIsAlone, TakingOver, Taking
  <2>1. \A q \in Process \ {p} : at[q] \notin Taking
    BY <1>0, <1>1 DEF TakeoverIsAlone, TakingOver, Taking
  <2>2. \A q \in Process : at'[q] \in Taking => q = p /\ to = "returns"
    BY <1>2, <1>3, <2>1 DEF Taking
  <2> QED
    BY <1>7, <2>2 DEF Stale
<1>11. SchedulersOwnTheLease'
  <2> SUFFICES ASSUME ~raced, NEW q \in Process
               PROVE  /\ scheduler'[q] \in {"running", "releases"} => lease'.owner = q
                      /\ claimed'[q] # {} => scheduler'[q] = "running" \/ Closing(q)'
    BY <1>1 DEF SchedulersOwnTheLease
  <2>1. Stale
    BY <1>0, <1>1 DEF TakeoverIsAlone, TakingOver
  <2>2. scheduler[q] \notin {"running", "releases"}
    BY <1>0, <2>1 DEF SchedulersOwnTheLease, SchedulersAreWaitedFor, Stale, Watched
  <2>3. claimed[q] # {} => q # p /\ Closing(q)
    BY <1>0, <1>4, <2>2 DEF SchedulersOwnTheLease
  <2> QED
    BY <1>1, <1>3, <2>2, <2>3 DEF Closing
<1> QED
  BY <1>5, <1>6, <1>8, <1>9, <1>10, <1>11 DEF ControlIInv

LEMMA SchedulerSteps ==
    ASSUME ControlIInv, ControlAssumption, NEW p \in Process,
           Acquires(p) \/ IsLockedOut(p) \/ LoopEnds(p) \/ Releases(p)
    PROVE  ControlIInv'
<1>0. ControlTyped /\ SchedulersAreWaitedFor /\ SchedulersOwnTheLease
  BY DEF ControlIInv
<1>1. scheduler[p] = "starting" => claimed[p] = {}
  BY <1>0 DEF SchedulersAreWaitedFor
<1>2. CASE Acquires(p)
  <2>1. \E to \in SchedulerPhase : to = "running"
    BY DEF SchedulerPhase
  <2> QED
    BY <1>1, <1>2, <2>1, SchedulerGoesOn DEF Acquires, IsFree, recovery
<1>3. CASE IsLockedOut(p)
  <2>1. \E to \in SchedulerPhase : to = "none"
    BY DEF SchedulerPhase
  <2> QED
    BY <1>1, <1>3, <2>1, SchedulerGoesOn DEF IsLockedOut, files, recovery
<1>4. CASE LoopEnds(p)
  <2>1. \E to \in SchedulerPhase : to = "releases"
    BY DEF SchedulerPhase
  <2>2. raced \/ claimed[p] = {} \/ Closing(p)
    <3>1. Incomplete(ownChain[p]) = {} => claimed[p] = {}
      <4>1. claimed[p] \subseteq ChainTask
        BY <1>0 DEF ControlTyped
      <4> QED
        BY <1>0, <4>1 DEF SchedulersAreWaitedFor, Incomplete, InChain
    <3>2. lease.owner # p => raced
      BY <1>0, <1>4 DEF SchedulersOwnTheLease, LoopEnds
    <3> QED
      BY <1>4, <3>1, <3>2 DEF LoopEnds, MayEnd
  <2> QED
    BY <1>4, <2>1, <2>2, SchedulerGoesOn DEF LoopEnds, files, recovery
<1>5. CASE Releases(p)
  <2>1. \E to \in SchedulerPhase : to = "ended"
    BY DEF SchedulerPhase
  <2>2. raced \/ claimed[p] = {} \/ Closing(p)
    BY <1>0, <1>5 DEF SchedulersOwnTheLease, Releases
  <2>3. lease' = lease \/ (lease.owner = p /\ lease' = Free)
    BY <1>5 DEF Releases
  <2> QED
    BY <1>5, <2>1, <2>2, <2>3, SchedulerGoesOn DEF Releases, recovery
<1> QED
  BY <1>2, <1>3, <1>4, <1>5

\* The owner renews its lease, or a lease nobody renews expires.
LEMMA LeaseAges ==
    ASSUME ControlIInv, (\E p \in Process : Renews(p)) \/ LeaseExpires
    PROVE  ControlIInv'
<1>0. /\ ControlTyped /\ SchedulersAreWaitedFor /\ OwnersHaveBegun /\ NothingIsDropped
      /\ TakeoverIsAlone /\ SchedulersOwnTheLease
  BY DEF ControlIInv
<1>1. UNCHANGED <<chain, at, scheduler, ownChain, claimed, finished, expected, raced>>
  BY DEF Renews, LeaseExpires, recovery
<1>2. /\ lease' \in LeaseFile /\ lease'.owner = lease.owner
      /\ lease'.fresh \/ (lease.owner \in Process => at[lease.owner] = "over")
  <2>1. lease \in LeaseFile /\ lease.revision + 1 \in Nat
    BY <1>0 DEF ControlTyped, LeaseFile
  <2>2. CASE \E p \in Process : Renews(p)
    BY <2>1, <2>2 DEF Renews, LeaseOf, LeaseFile
  <2>3. CASE LeaseExpires
    <3>1. lease' = [lease EXCEPT !.fresh = FALSE] /\ ~Alive(lease.owner)
      BY <2>3 DEF LeaseExpires
    <3>2. lease' \in LeaseFile /\ lease'.owner = lease.owner
      BY <2>1, <3>1 DEF LeaseFile
    <3> QED
      BY <1>0, <3>1, <3>2 DEF Alive, OwnersHaveBegun
  <2> QED
    BY <2>2, <2>3
<1>3. ControlTyped'
  BY <1>0, <1>1, <1>2 DEF ControlTyped
<1>4. OwnersHaveBegun'
  BY <1>0, <1>1, <1>2 DEF OwnersHaveBegun
<1>5. SchedulersAreWaitedFor' /\ TakeoverIsAlone' /\ SchedulersOwnTheLease'
  BY <1>0, <1>1, <1>2 DEF SchedulersAreWaitedFor, TakeoverIsAlone, TakingOver, Stale, SchedulersOwnTheLease,
                          Closing
<1>6. NothingIsDropped'
  BY <1>0, <1>1 DEF NothingIsDropped, DoneIsFinished, AbsentIsFinished, InChain
<1> QED
  BY <1>3, <1>4, <1>5, <1>6 DEF ControlIInv

LEMMA StartsTasksStep ==
    ASSUME ControlIInv, NEW p \in Process, StartsTasks(p)
    PROVE  ControlIInv'
<1> DEFINE new == [t \in ChainTask |-> IF t \in ReadyIn(ownChain[p]) THEN "running" ELSE ownChain[p][t]]
<1>1. /\ scheduler[p] = "running" /\ Persist(p, new)
      /\ claimed' = [claimed EXCEPT ![p] = @ \cup ReadyIn(ownChain[p])]
      /\ UNCHANGED <<lease, at, scheduler, finished, expected, raced>>
  BY DEF StartsTasks, recovery
<1>2. new \in Chain
  BY ChainTypes DEF ControlIInv
<1>3. \A t \in ChainTask : /\ new[t] = "absent" => ownChain[p][t] = "absent"
                           /\ new[t] = "done" => ownChain[p][t] = "done"
  OBVIOUS
<1>4. /\ claimed' \in [Process -> SUBSET ChainTask]
      /\ \A q \in Process \ {p} : claimed'[q] = claimed[q]
      /\ claimed'[p] = claimed[p] \cup ReadyIn(ownChain[p])
  BY <1>1 DEF ControlIInv, ControlTyped, ReadyIn
<1>5. \A t \in claimed'[p] : new[t] = "running"
  <2>1. claimed'[p] \subseteq ChainTask
    BY <1>4
  <2> QED
    BY <1>4, <2>1 DEF ControlIInv, SchedulersAreWaitedFor
<1> HIDE DEF new
<1> QED
  BY <1>1, <1>2, <1>3, <1>4, <1>5, ChainIsWritten

LEMMA TaskEndsStep ==
    ASSUME ControlIInv, NEW p \in Process, NEW t \in ChainTask,
           NEW status \in {"done", "blocked", "pending"}, TaskEnds(p, t, status)
    PROVE  ControlIInv'
<1> DEFINE new == [ownChain[p] EXCEPT ![t] = status]
<1>1. /\ claimed[p] # {} /\ Persist(p, new)
      /\ claimed' = [claimed EXCEPT ![p] = @ \ {t}]
      /\ finished' = IF status = "done" THEN finished \cup {t} ELSE finished
      /\ UNCHANGED <<lease, at, scheduler, expected, raced>>
  BY DEF TaskEnds, recovery
<1>2. new \in Chain /\ ownChain[p] \in Chain
  BY ChainTypes DEF ControlIInv, ControlTyped
<1>3. \A u \in ChainTask : /\ new[u] = "absent" => ownChain[p][u] = "absent"
                           /\ new[u] = "done" => ownChain[p][u] = "done" \/ u \in finished'
  BY <1>1, <1>2 DEF Chain
<1>4. /\ claimed' \in [Process -> SUBSET ChainTask]
      /\ \A q \in Process \ {p} : claimed'[q] = claimed[q]
      /\ claimed'[p] = claimed[p] \ {t} /\ claimed[p] \subseteq ChainTask
  BY <1>1 DEF ControlIInv, ControlTyped
<1>5. \A u \in claimed'[p] : new[u] = "running"
  BY <1>2, <1>4 DEF ControlIInv, SchedulersAreWaitedFor, Chain
<1> HIDE DEF new
<1> QED
  BY <1>1, <1>2, <1>3, <1>4, <1>5, ChainIsWritten

LEMMA CrashStep ==
    ASSUME ControlIInv, NEW p \in Process, Crashes(p)
    PROVE  ControlIInv'
<1>0. /\ ControlTyped /\ SchedulersAreWaitedFor /\ OwnersHaveBegun /\ NothingIsDropped
      /\ TakeoverIsAlone /\ SchedulersOwnTheLease
  BY DEF ControlIInv
<1>1. /\ at' = [at EXCEPT ![p] = "over"] /\ scheduler' = [scheduler EXCEPT ![p] = "none"]
      /\ claimed' = [claimed EXCEPT ![p] = {}]
      /\ UNCHANGED <<chain, lease, ownChain, finished, expected, raced>>
  BY DEF Crashes, files, recovery
<1>2. /\ at'[p] = "over" /\ \A q \in Process \ {p} : at'[q] = at[q]
      /\ scheduler'[p] = "none" /\ \A q \in Process \ {p} : scheduler'[q] = scheduler[q]
      /\ claimed'[p] = {} /\ \A q \in Process \ {p} : claimed'[q] = claimed[q]
  BY <1>0, <1>1 DEF ControlTyped
<1>3. ControlTyped'
  <2>1. "over" \in Place /\ "none" \in SchedulerPhase
    BY DEF Place, SchedulerPhase
  <2> QED
    BY <1>0, <1>1, <2>1 DEF ControlTyped
<1>4. SchedulersAreWaitedFor'
  BY <1>0, <1>1, <1>2 DEF SchedulersAreWaitedFor
<1>5. OwnersHaveBegun'
  BY <1>0, <1>1, <1>2 DEF OwnersHaveBegun
<1>6. NothingIsDropped'
  BY <1>0, <1>1, <1>2 DEF NothingIsDropped, DoneIsFinished, AbsentIsFinished, InChain
<1>7. TakeoverIsAlone'
  BY <1>0, <1>1, <1>2 DEF TakeoverIsAlone, TakingOver, Stale
<1>8. SchedulersOwnTheLease'
  BY <1>0, <1>1, <1>2 DEF SchedulersOwnTheLease, Closing
<1> QED
  BY <1>3, <1>4, <1>5, <1>6, <1>7, <1>8 DEF ControlIInv

LEMMA ControlStep ==
    ASSUME ControlIInv, ControlAssumption, [ControlNext]_control
    PROVE  ControlIInv'
<1>1. ASSUME NEW p \in Process,
             \/ ResumeChecks(p) \/ ExecuteChecks(p) \/ CenterProbes(p) \/ CenterResumes(p)
             \/ CancelChecks(p) \/ CancelWrites(p) \/ Abandons(p)
             \/ StopsWaiting(p) \/ CancelsOwn(p) \/ Leaves(p)
      PROVE  ControlIInv'
  BY <1>1, PlainCommands
<1>2. ASSUME NEW p \in Process, CreatesChain(p) \/ CreatesSummary(p) PROVE ControlIInv'
  BY <1>2, CreateSteps
<1>3. ASSUME NEW p \in Process, ResumeReads(p) \/ ResumeLaunches(p) PROVE ControlIInv'
  BY <1>3, ResumeSteps
<1>4. ASSUME NEW p \in Process,
             InspectsLease(p) \/ ConfirmsExpiry(p) \/ ChecksTakeover(p) \/ ReadsTakenOver(p)
      PROVE  ControlIInv'
  BY <1>4, TakeoverReads
<1>5. ASSUME NEW p \in Process, TakesOver(p) \/ DropsTakenOver(p) PROVE ControlIInv'
  BY <1>5, TakeoverWrites
<1>6. ASSUME NEW p \in Process, Acquires(p) \/ IsLockedOut(p) \/ LoopEnds(p) \/ Releases(p)
      PROVE  ControlIInv'
  BY <1>6, SchedulerSteps
<1>7. ASSUME NEW p \in Process, StartsTasks(p) PROVE ControlIInv'
  BY <1>7, StartsTasksStep
<1>8. ASSUME NEW p \in Process, NEW t \in ChainTask, NEW status \in {"done", "blocked", "pending"},
             TaskEnds(p, t, status)
      PROVE  ControlIInv'
  BY <1>8, TaskEndsStep
<1>9. ASSUME NEW p \in Process, Crashes(p) PROVE ControlIInv'
  BY <1>9, CrashStep
<1>10. ASSUME UNCHANGED <<chain, lease, at, scheduler, ownChain, claimed, finished, expected, raced>>
       PROVE  ControlIInv'
  BY <1>10 DEF ControlIInv, ControlTyped, SchedulersAreWaitedFor, OwnersHaveBegun, NothingIsDropped,
               TakeoverIsAlone, TakingOver, Stale, SchedulersOwnTheLease, Closing, DoneIsFinished,
               AbsentIsFinished, InChain
<1>11. ASSUME NEW p \in Process, StatusWritten(p) PROVE ControlIInv'
  BY <1>10, <1>11 DEF StatusWritten, recovery
<1>12. CASE UNCHANGED control
  BY <1>10, <1>12 DEF control, files, recovery
<1>13. CASE (\E p \in Process : Renews(p)) \/ LeaseExpires
  BY <1>13, LeaseAges
<1> QED
  BY <1>1, <1>2, <1>3, <1>4, <1>5, <1>6, <1>7, <1>8, <1>9, <1>11, <1>12, <1>13 DEF ControlNext

LEMMA ControlStarts == ControlAssumption /\ ControlInit => ControlIInv
<1> SUFFICES ASSUME ControlAssumption, ControlInit PROVE ControlIInv
  OBVIOUS
<1>1. /\ at = [p \in Process |-> "off"] /\ scheduler = [p \in Process |-> "none"]
      /\ ownChain = [p \in Process |-> NoTasks] /\ claimed = [p \in Process |-> {}]
      /\ expected = [p \in Process |-> 0] /\ raced = FALSE
      /\ finished = {t \in ChainTask : chain[t] = "done"}
  BY DEF ControlInit
<1>2. /\ chain = NoTasks \/ chain \in [ChainTask -> {"pending", "running", "blocked", "done"}]
      /\ lease \in {Free, LeaseOf(Earlier, 1)}
  BY DEF ControlInit, ControlAssumption
<1>3. ControlTyped
  <2>1. lease \in LeaseFile
    <3>1. Free \in LeaseFile /\ LeaseOf(Earlier, 1) \in LeaseFile
      BY DEF Free, LeaseOf, LeaseFile
    <3> QED
      BY <1>2, <3>1
  <2>2. chain \in Chain /\ NoTasks \in Chain
    BY <1>2 DEF NoTasks, Chain, TaskStatus
  <2>3. "off" \in Place /\ "none" \in SchedulerPhase
    BY DEF Place, SchedulerPhase
  <2> QED
    BY <1>1, <2>1, <2>2, <2>3 DEF ControlTyped
<1>4. lease.owner \notin Process
  BY <1>2 DEF ControlAssumption, Free, LeaseOf
<1>5. SchedulersAreWaitedFor /\ OwnersHaveBegun /\ TakeoverIsAlone /\ SchedulersOwnTheLease
  BY <1>1, <1>4 DEF SchedulersAreWaitedFor, OwnersHaveBegun, TakeoverIsAlone, TakingOver,
                    SchedulersOwnTheLease
<1>6. NothingIsDropped
  <2>1. chain # NoTasks => \A t \in ChainTask : chain[t] # "absent"
    BY <1>2
  <2> QED
    BY <1>1, <2>1 DEF NothingIsDropped, DoneIsFinished, AbsentIsFinished, InChain, NoTasks
<1> QED
  BY <1>3, <1>5, <1>6 DEF ControlIInv

LEMMA ControlIInvGives == ControlIInv => ControlInv
<1> SUFFICES ASSUME ControlIInv PROVE NoTaskIsLost /\ OneProcessWorks
  BY DEF ControlInv
<1>1. NoTaskIsLost
  BY DEF ControlIInv, NothingIsDropped, AbsentIsFinished, NoTaskIsLost
<1>2. OneProcessWorks
  BY DEF ControlIInv, SchedulersOwnTheLease, OneProcessWorks
<1> QED
  BY <1>1, <1>2

\* Whichever commands of whichever processes overlap and crash: no write of the chain drops
\* a task that was not done, and, until two takeovers overlap between their checks and
\* their releases, only the owner of the lease has a scheduler at work.
THEOREM MissionIsOneProcess == ControlSpec => []ControlInv
<1>1. ControlIInv /\ [ControlNext]_control => ControlIInv'
  BY ControlAssumption, ControlStep
<1>2. ControlInit => ControlIInv
  BY ControlAssumption, ControlStarts
<1> QED
  BY <1>1, <1>2, ControlIInvGives, PTL DEF ControlSpec

\* Once it is created, the chain on disk is only replaced by the chain of the process that
\* owns the lease or of one that shuts down, until two takeovers overlap.
THEOREM ChainHasOneWriter == ControlSpec => OnlyTheOwnerWrites
<1>1. ControlIInv /\ [ControlNext]_control =>
         [chain' # chain /\ chain # NoTasks /\ ~raced =>
             \E p \in Process : chain' = ownChain'[p] /\ (lease.owner = p \/ Closing(p))]_control
  <2> SUFFICES ASSUME ControlIInv, [ControlNext]_control, chain' # chain, chain # NoTasks, ~raced
               PROVE  \E p \in Process : chain' = ownChain'[p] /\ (lease.owner = p \/ Closing(p))
    OBVIOUS
  <2>1. ASSUME NEW p \in Process, NEW tasks, Persist(p, tasks), scheduler[p] = "running" \/ claimed[p] # {}
        PROVE  chain' = ownChain'[p] /\ (lease.owner = p \/ Closing(p))
    <3>1. chain' = ownChain'[p]
      BY <2>1 DEF Persist, ControlIInv, ControlTyped
    <3>2. lease.owner = p \/ Closing(p)
      BY <2>1 DEF ControlIInv, SchedulersOwnTheLease
    <3> QED
      BY <3>1, <3>2
  <2>2. ASSUME NEW p \in Process,
               \/ CreatesChain(p) \/ CreatesSummary(p) \/ ResumeChecks(p) \/ ResumeReads(p)
               \/ ResumeLaunches(p) \/ ExecuteChecks(p) \/ CenterProbes(p) \/ CenterResumes(p)
               \/ CancelChecks(p) \/ CancelWrites(p) \/ Abandons(p)
        PROVE  FALSE
    BY <2>2 DEF CreatesChain, CreatesSummary, ResumeChecks, ResumeReads, ResumeLaunches, ExecuteChecks,
                CenterProbes, CenterResumes, CancelChecks, CancelWrites, Abandons, files
  <2>3. ASSUME NEW p \in Process,
               \/ InspectsLease(p) \/ ConfirmsExpiry(p) \/ ChecksTakeover(p) \/ TakesOver(p)
               \/ ReadsTakenOver(p) \/ DropsTakenOver(p)
        PROVE  FALSE
    BY <2>3 DEF InspectsLease, ConfirmsExpiry, ChecksTakeover, TakesOver, ReadsTakenOver, DropsTakenOver,
                unmovedByTakeover
  <2>4. ASSUME NEW p \in Process,
               \/ StopsWaiting(p) \/ CancelsOwn(p) \/ Leaves(p) \/ Acquires(p) \/ IsLockedOut(p)
               \/ Renews(p) \/ LoopEnds(p) \/ Releases(p) \/ StatusWritten(p) \/ Crashes(p)
        PROVE  FALSE
    BY <2>4 DEF StopsWaiting, CancelsOwn, Leaves, Acquires, IsLockedOut, Renews, LoopEnds, Releases,
                StatusWritten, Crashes, files
  <2>5. ASSUME NEW p \in Process, StartsTasks(p)
        PROVE  chain' = ownChain'[p] /\ (lease.owner = p \/ Closing(p))
    <3>1. PICK tasks : Persist(p, tasks)
      BY <2>5 DEF StartsTasks
    <3> QED
      BY <2>1, <2>5, <3>1 DEF StartsTasks
  <2>6. ASSUME NEW p \in Process, NEW t \in ChainTask, NEW status \in {"done", "blocked", "pending"},
               TaskEnds(p, t, status)
        PROVE  chain' = ownChain'[p] /\ (lease.owner = p \/ Closing(p))
    <3>1. PICK tasks : Persist(p, tasks)
      BY <2>6 DEF TaskEnds
    <3> QED
      BY <2>1, <2>6, <3>1 DEF TaskEnds
  <2>7. ~LeaseExpires /\ ~UNCHANGED control
    BY DEF LeaseExpires, control, files
  <2> QED
    BY <2>2, <2>3, <2>4, <2>5, <2>6, <2>7 DEF ControlNext
<1>2. ControlIInv /\ [ControlNext]_control => ControlIInv'
  BY ControlAssumption, ControlStep
<1>3. ControlInit => ControlIInv
  BY ControlAssumption, ControlStarts
<1> QED
  BY <1>1, <1>2, <1>3, PTL DEF ControlSpec, OnlyTheOwnerWrites

-----------------------------------------------------------------------------
(* Proof about submissions.                                                 *)

\* A call changes its place, and what is known of its key with it.
LEMMA SubmissionStep ==
    ASSUME SubmissionIInv, [SubmissionNext]_submission
    PROVE  SubmissionIInv'
<1>0. SubmissionTyped /\ ClaimsAreExclusive /\ SettledWasStarted
  BY DEF SubmissionIInv
<1>a. \A s \in Submission : KeyOf[s] \in Key
  BY DEF Key
<1>1. ASSUME NEW s \in Submission, SubmitsTask(s) PROVE SubmissionIInv'
  <2> DEFINE k == KeyOf[s]
  <2>0. UNCHANGED <<stored, knownTasks, snapshot, startedHere, started, applications>>
    BY <1>1 DEF SubmitsTask
  <2>1. CASE ledger[k] = "none"
    <3>1. step[s] = "off" /\ step' = [step EXCEPT ![s] = "claims"]
          /\ ledger' = [ledger EXCEPT ![k] = "claimed"]
      BY <1>1, <2>1 DEF SubmitsTask, Passes, Claimed
    <3>2. /\ step'[s] = "claims" /\ \A r \in Submission \ {s} : step'[r] = step[r]
          /\ ledger'[k] = "claimed" /\ \A j \in Key \ {k} : ledger'[j] = ledger[j]
      BY <1>0, <1>a, <3>1 DEF SubmissionTyped, Entries
    <3>3. SubmissionTyped'
      BY <1>0, <1>a, <2>0, <3>1 DEF SubmissionTyped, Entries, EntryStatus, SubmissionPlace, Holding, BeforeStart
    <3>4. ClaimsAreExclusive'
      <4>1. \A r \in Submission : step[r] \in Holding => KeyOf[r] # k
        BY <1>0, <2>1 DEF ClaimsAreExclusive
      <4>2. startedHere[k] = 0
        BY <1>0, <1>a, <2>1 DEF ClaimsAreExclusive
      <4>3. \A r \in Submission : step'[r] \in Holding => ledger'[KeyOf[r]] # "none"
        BY <1>0, <1>a, <3>2 DEF ClaimsAreExclusive
      <4>4. \A r, q \in Submission :
               step'[r] \in Holding /\ step'[q] \in Holding /\ KeyOf[r] = KeyOf[q] => r = q
        BY <1>0, <3>2, <4>1 DEF ClaimsAreExclusive
      <4>5. \A r \in Submission : /\ step'[r] \in BeforeStart => startedHere[KeyOf[r]] = 0
                                  /\ step'[r] = "starts" => startedHere[KeyOf[r]] = 1
        BY <1>0, <3>2, <4>2 DEF ClaimsAreExclusive
      <4>6. \A j \in Key : ledger'[j] = "none" => startedHere[j] = 0
        BY <1>0, <3>2 DEF ClaimsAreExclusive
      <4> QED
        BY <1>0, <2>0, <4>3, <4>4, <4>5, <4>6 DEF ClaimsAreExclusive
    <3>5. SettledWasStarted'
      BY <1>0, <2>0, <3>2 DEF SettledWasStarted
    <3> QED
      BY <3>3, <3>4, <3>5 DEF SubmissionIInv
  <2>2. CASE ledger[k] # "none"
    <3>1. step' = [step EXCEPT ![s] = "over"] /\ ledger' = ledger
      BY <1>1, <2>2 DEF SubmitsTask, Passes
    <3>2. step'[s] = "over" /\ \A r \in Submission \ {s} : step'[r] = step[r]
      BY <1>0, <3>1 DEF SubmissionTyped
    <3>3. SubmissionTyped'
      BY <1>0, <2>0, <3>1 DEF SubmissionTyped, SubmissionPlace
    <3>4. ClaimsAreExclusive'
      BY <1>0, <2>0, <3>1, <3>2 DEF ClaimsAreExclusive, Holding, BeforeStart
    <3>5. SettledWasStarted'
      BY <1>0, <2>0, <3>1 DEF SettledWasStarted
    <3> QED
      BY <3>3, <3>4, <3>5 DEF SubmissionIInv
  <2> QED
    BY <2>1, <2>2
\* A call that goes on without touching the ledger and the missions it counts.
<1>2. ASSUME NEW s \in Submission, NEW to \in SubmissionPlace, step' = [step EXCEPT ![s] = to],
             to \in Holding => step[s] \in Holding, to \in BeforeStart => step[s] \in BeforeStart,
             to # "starts", UNCHANGED <<ledger, startedHere, started>>
      PROVE  ClaimsAreExclusive'
  <2>1. step'[s] = to /\ \A r \in Submission \ {s} : step'[r] = step[r]
    BY <1>0, <1>2 DEF SubmissionTyped
  <2>2. \A r \in Submission : /\ step'[r] \in Holding => step[r] \in Holding
                              /\ step'[r] \in BeforeStart => step[r] \in BeforeStart
                              /\ step'[r] = "starts" => step[r] = "starts"
    BY <1>2, <2>1
  <2> QED
    BY <1>0, <1>2, <2>2 DEF ClaimsAreExclusive
<1>3. ASSUME NEW s \in Submission, WritesLedger(s) PROVE SubmissionIInv'
  <2>1. /\ snapshot' = [snapshot EXCEPT ![s] = ledger]
        /\ UNCHANGED <<ledger, stored, startedHere, started>>
    BY <1>3 DEF WritesLedger
  <2>2. \E to \in SubmissionPlace : /\ step' = [step EXCEPT ![s] = to] /\ to # "starts"
                           /\ step[s] \in Holding /\ (to \in BeforeStart => step[s] \in BeforeStart)
    BY <1>3 DEF WritesLedger, Passes, SubmissionPlace, Holding, BeforeStart
  <2>3. ClaimsAreExclusive'
    BY <1>2, <2>1, <2>2
  <2>4. SubmissionTyped'
    BY <1>0, <2>1, <2>2 DEF SubmissionTyped
  <2>5. SettledWasStarted'
    <3>1. \A r \in Submission : snapshot'[r] \in {ledger, snapshot[r]}
      BY <1>0, <2>1 DEF SubmissionTyped
    <3> QED
      BY <1>0, <2>1, <3>1 DEF SettledWasStarted
  <2> QED
    BY <2>3, <2>4, <2>5 DEF SubmissionIInv
<1>4. ASSUME NEW s \in Submission, LedgerLands(s) PROVE SubmissionIInv'
  <2>1. stored' = snapshot[s] /\ UNCHANGED <<ledger, snapshot, startedHere, started>>
    BY <1>4 DEF LedgerLands
  <2>2. \E to \in SubmissionPlace : /\ step' = [step EXCEPT ![s] = to] /\ to # "starts"
                           /\ step[s] \in Holding /\ (to \in BeforeStart => step[s] \in BeforeStart)
    BY <1>4 DEF LedgerLands, Passes, SubmissionPlace, Holding, BeforeStart
  <2>3. ClaimsAreExclusive'
    BY <1>2, <2>1, <2>2
  <2>4. SubmissionTyped'
    BY <1>0, <2>1, <2>2 DEF SubmissionTyped
  <2>5. SettledWasStarted'
    BY <1>0, <2>1 DEF SettledWasStarted
  <2> QED
    BY <2>3, <2>4, <2>5 DEF SubmissionIInv
<1>5. ASSUME NEW s \in Submission, EndsUnstarted(s) \/ MissionFails(s) PROVE SubmissionIInv'
  <2>1. step' = [step EXCEPT ![s] = "over"] /\ UNCHANGED <<ledger, stored, snapshot, startedHere, started>>
    BY <1>5 DEF EndsUnstarted, MissionFails, Passes
  <2>2. \E to \in SubmissionPlace : to = "over" /\ to \notin Holding /\ to \notin BeforeStart
    BY DEF SubmissionPlace, Holding, BeforeStart
  <2>3. ClaimsAreExclusive'
    BY <1>2, <2>1, <2>2
  <2>4. SubmissionTyped'
    BY <1>0, <2>1 DEF SubmissionTyped, SubmissionPlace
  <2>5. SettledWasStarted'
    BY <1>0, <2>1 DEF SettledWasStarted
  <2> QED
    BY <2>3, <2>4, <2>5 DEF SubmissionIInv
<1>6. ASSUME NEW s \in Submission, StartsMission(s) PROVE SubmissionIInv'
  <2> DEFINE k == KeyOf[s]
  <2>1. /\ step[s] = "claimed" /\ step' = [step EXCEPT ![s] = "starts"]
        /\ startedHere' = [startedHere EXCEPT ![k] = @ + 1] /\ started' = [started EXCEPT ![k] = @ + 1]
        /\ UNCHANGED <<ledger, stored, snapshot>>
    BY <1>6 DEF StartsMission, Passes
  <2>2. startedHere[k] = 0 /\ started[k] \in Nat /\ k \in Key
    BY <1>0, <1>a, <2>1 DEF ClaimsAreExclusive, BeforeStart, SubmissionTyped
  <2>3. /\ step'[s] = "starts" /\ \A r \in Submission \ {s} : step'[r] = step[r]
        /\ startedHere'[k] = 1 /\ \A j \in Key \ {k} : startedHere'[j] = startedHere[j]
        /\ started'[k] = started[k] + 1 /\ \A j \in Key \ {k} : started'[j] = started[j]
    BY <1>0, <2>1, <2>2 DEF SubmissionTyped
  <2>4. SubmissionTyped'
    BY <1>0, <2>1, <2>2 DEF SubmissionTyped, SubmissionPlace, Holding
  <2>5. \A r \in Submission \ {s} : step[r] \in Holding => KeyOf[r] # k
    BY <1>0, <2>1 DEF ClaimsAreExclusive, Holding, BeforeStart
  <2>6. ClaimsAreExclusive'
    <3>1. \A r \in Submission : step'[r] \in Holding => step[r] \in Holding
      BY <2>1, <2>3 DEF Holding, BeforeStart
    <3>2. \A r \in Submission : /\ step'[r] \in BeforeStart => startedHere'[KeyOf[r]] = 0
                                /\ step'[r] = "starts" => startedHere'[KeyOf[r]] = 1
      BY <1>0, <1>a, <2>3, <2>5 DEF ClaimsAreExclusive, Holding, BeforeStart
    <3>3. \A j \in Key : /\ ledger[j] = "none" => startedHere'[j] = 0
                         /\ startedHere'[j] <= 1 /\ startedHere'[j] <= started'[j]
      <4>1. ledger[k] # "none"
        BY <1>0, <2>1 DEF ClaimsAreExclusive, Holding, BeforeStart
      <4> QED
        BY <1>0, <2>2, <2>3, <4>1 DEF ClaimsAreExclusive
    <3> QED
      BY <1>0, <2>1, <3>1, <3>2, <3>3 DEF ClaimsAreExclusive
  <2>7. SettledWasStarted'
    <3>1. \A j \in Key : started[j] > 0 => started'[j] > 0
      BY <2>2, <2>3
    <3> QED
      BY <1>0, <2>1, <3>1 DEF SettledWasStarted
  <2> QED
    BY <2>4, <2>6, <2>7 DEF SubmissionIInv
<1>7. ASSUME NEW s \in Submission, MissionStarted(s) PROVE SubmissionIInv'
  <2> DEFINE k == KeyOf[s]
  <2>1. /\ step[s] = "starts" /\ step' = [step EXCEPT ![s] = "settles"]
        /\ ledger' = [ledger EXCEPT ![k] = IF @ = "none" THEN @ ELSE "settled"]
        /\ UNCHANGED <<stored, snapshot, startedHere, started>>
    BY <1>7 DEF MissionStarted, Passes
  <2>2. k \in Key /\ started[k] > 0
    BY <1>0, <1>a, <2>1 DEF ClaimsAreExclusive, SubmissionTyped
  <2>3. /\ step'[s] = "settles" /\ \A r \in Submission \ {s} : step'[r] = step[r]
        /\ \A j \in Key : ledger'[j] = "none" <=> ledger[j] = "none"
        /\ \A j \in Key : ledger'[j] = "settled" => ledger[j] = "settled" \/ j = k
    BY <1>0, <2>1, <2>2 DEF SubmissionTyped, Entries
  <2>4. SubmissionTyped'
    BY <1>0, <2>1, <2>2 DEF SubmissionTyped, Entries, EntryStatus, SubmissionPlace, Holding
  <2>5. ClaimsAreExclusive'
    <3>1. \A r \in Submission : /\ step'[r] \in Holding => step[r] \in Holding
                                /\ step'[r] \in BeforeStart => step[r] \in BeforeStart
                                /\ step'[r] = "starts" => step[r] = "starts"
      BY <2>1, <2>3 DEF Holding, BeforeStart
    <3> QED
      BY <1>0, <1>a, <2>1, <2>3, <3>1 DEF ClaimsAreExclusive
  <2>6. SettledWasStarted'
    BY <1>0, <2>1, <2>2, <2>3 DEF SettledWasStarted
  <2> QED
    BY <2>4, <2>5, <2>6 DEF SubmissionIInv
<1>8. CASE NextApplication
  <2>1. /\ ledger' = stored /\ step' = [s \in Submission |-> "off"]
        /\ snapshot' = [s \in Submission |-> NoEntries] /\ startedHere' = [k \in Key |-> 0]
        /\ UNCHANGED <<stored, started>>
    BY <1>8 DEF NextApplication
  <2>2. NoEntries \in Entries /\ \A k \in Key : NoEntries[k] = "none"
    BY DEF NoEntries, Entries, EntryStatus
  <2>3. SubmissionTyped'
    BY <1>0, <2>1, <2>2 DEF SubmissionTyped, SubmissionPlace
  <2>4. ClaimsAreExclusive'
    BY <1>0, <2>1 DEF ClaimsAreExclusive, Holding, BeforeStart, SubmissionTyped
  <2>5. SettledWasStarted'
    BY <1>0, <2>1, <2>2 DEF SettledWasStarted
  <2> QED
    BY <2>3, <2>4, <2>5 DEF SubmissionIInv
<1>9. CASE UNCHANGED submission
  BY <1>9 DEF submission, SubmissionIInv, SubmissionTyped, ClaimsAreExclusive, SettledWasStarted
<1> QED
  BY <1>1, <1>3, <1>4, <1>5, <1>6, <1>7, <1>8, <1>9 DEF SubmissionNext

LEMMA SubmissionStarts == SubmissionInit => SubmissionIInv
<1> SUFFICES ASSUME SubmissionInit PROVE SubmissionIInv
  OBVIOUS
<1>1. NoEntries \in Entries /\ \A k \in Key : NoEntries[k] = "none"
  BY DEF NoEntries, Entries, EntryStatus
<1>2. SubmissionTyped
  BY <1>1 DEF SubmissionInit, SubmissionTyped, SubmissionPlace
<1>3. ClaimsAreExclusive /\ SettledWasStarted
  BY <1>1 DEF SubmissionInit, ClaimsAreExclusive, SettledWasStarted, Holding, BeforeStart
<1> QED
  BY <1>2, <1>3 DEF SubmissionIInv

LEMMA SubmissionImplied == SubmissionIInv => KeyRunsOncePerProcess
BY DEF SubmissionIInv, ClaimsAreExclusive, SettledWasStarted, KeyRunsOncePerProcess

-----------------------------------------------------------------------------
(* Proof about the record of a task.                                        *)

LEMMA MonitorStep ==
    ASSUME MonitorIInv, [MonitorNext]_monitor
    PROVE  MonitorIInv'
<1>0. MonitorTyped /\ EndsComeFromMission
  BY DEF MonitorIInv
<1>1. ASSUME NEW status \in {"running", "blocked", "done", "failed", "cancelled"}, MissionMoves(status)
      PROVE  MonitorIInv'
  <2>1. /\ mission \notin Final /\ mission' = status
        /\ UNCHANGED <<record, monitored, call, answer, finishedEvents, isClosed>>
    BY <1>1 DEF MissionMoves
  <2>2. MonitorTyped'
    BY <1>0, <2>1 DEF MonitorTyped, MissionStatus, Final
  <2> QED
    BY <1>0, <2>1, <2>2 DEF MonitorIInv, EndsComeFromMission
\* A caller goes on with the mission as it is, or over.
<1>2. ASSUME NEW c \in Caller, NEW to \in CallPlace, call' = [call EXCEPT ![c] = to],
             mission' = mission \/ mission' = "cancelled", isClosed' = isClosed,
             to \in {"reports", "cancelled"} => mission' \in Final, to = "reports" => ~monitored',
             monitored' = monitored \/ monitored' = FALSE,
             \/ answer' = answer
             \/ \E status \in {mission, "blocked"} : answer' = [answer EXCEPT ![c] = status],
             record' = record \/ record' = answer[c] \/ (record' = "cancelled" /\ mission \in Final),
             finishedEvents' = finishedEvents \/ (finishedEvents' = finishedEvents + 1 /\ mission \in Final)
      PROVE  MonitorIInv'
  <2>1. mission \in MissionStatus /\ "blocked" \in MissionStatus /\ "cancelled" \in Final
    BY <1>0 DEF MonitorTyped, MissionStatus, Final
  <2>2. mission \in Final => mission' \in Final
    BY <1>2, <2>1
  <2>3. /\ call'[c] = to /\ \A d \in Caller \ {c} : call'[d] = call[d]
        /\ answer' \in [Caller -> MissionStatus]
        /\ \A d \in Caller : answer'[d] \in {answer[d], mission, "blocked"}
    BY <1>0, <1>2, <2>1 DEF MonitorTyped
  <2>4. MonitorTyped'
    <3>1. mission' \in MissionStatus /\ record' \in MissionStatus \cup {"accepted"}
      BY <1>0, <1>2, <2>1 DEF MonitorTyped, MissionStatus
    <3>2. finishedEvents' \in Nat
      BY <1>0, <1>2 DEF MonitorTyped
    <3>3. monitored' \in BOOLEAN
      BY <1>0, <1>2 DEF MonitorTyped
    <3>4. isClosed' \in BOOLEAN /\ call' \in [Caller -> CallPlace]
      BY <1>0, <1>2 DEF MonitorTyped
    <3> QED
      BY <2>3, <3>1, <3>2, <3>3, <3>4 DEF MonitorTyped
  <2>5. record' \in Final \/ finishedEvents' > 0 => mission' \in Final
    BY <1>0, <1>2, <2>2 DEF EndsComeFromMission
  <2>6. \A d \in Caller : answer'[d] \in Final => mission' \in Final
    BY <1>0, <2>2, <2>3 DEF EndsComeFromMission, Final
  <2>7. \A d \in Caller : /\ call'[d] \in {"reports", "cancelled"} => mission' \in Final
                          /\ call'[d] = "reports" => ~monitored'
    BY <1>0, <1>2, <2>2, <2>3 DEF EndsComeFromMission
  <2> QED
    BY <2>4, <2>5, <2>6, <2>7 DEF MonitorIInv, EndsComeFromMission
<1>3. ASSUME NEW c \in Caller, Asks(c) PROVE MonitorIInv'
  <2>1. \E to \in CallPlace : to = "asks"
    BY DEF CallPlace
  <2> QED
    BY <1>2, <1>3, <2>1 DEF Asks, Steps
<1>4. ASSUME NEW c \in Caller, Reads(c) PROVE MonitorIInv'
  <2>1. \E to \in CallPlace : to = "knows"
    BY DEF CallPlace
  <2> QED
    BY <1>2, <1>4, <2>1 DEF Reads, Steps, Unreadable
<1>5. ASSUME NEW c \in Caller, Polled(c) PROVE MonitorIInv'
  <2>1. CASE isClosed \/ answer[c] = record
    <3>1. \E to \in CallPlace : to = "idle"
      BY DEF CallPlace
    <3> QED
      BY <1>2, <1>5, <2>1, <3>1 DEF Polled, Steps
  <2>2. CASE ~(isClosed \/ answer[c] = record)
    <3> DEFINE next == IF answer[c] \in Final THEN "reports" ELSE "idle"
    <3>1. /\ call' = [call EXCEPT ![c] = next] /\ record' = answer[c]
          /\ monitored' = (monitored /\ answer[c] \notin Final)
          /\ UNCHANGED <<mission, answer, finishedEvents, isClosed>>
      BY <1>5, <2>2 DEF Polled, Steps
    <3>2. next \in CallPlace /\ (next = "reports" => answer[c] \in Final) /\ next # "cancelled"
      BY DEF CallPlace
    <3> HIDE DEF next
    <3>3. next = "reports" => mission \in Final /\ ~monitored'
      BY <1>0, <3>1, <3>2 DEF EndsComeFromMission
    <3>4. monitored' = monitored \/ monitored' = FALSE
      BY <3>1
    <3> QED
      BY <1>2, <3>1, <3>2, <3>3, <3>4
  <2> QED
    BY <2>1, <2>2
<1>6. ASSUME NEW c \in Caller, Queried(c) PROVE MonitorIInv'
  <2>1. \E to \in CallPlace : to = "idle"
    BY DEF CallPlace
  <2> QED
    BY <1>2, <1>6, <2>1 DEF Queried, Steps
<1>7. ASSUME NEW c \in Caller, Reports(c) PROVE MonitorIInv'
  <2>1. \E to \in CallPlace : to = "idle"
    BY DEF CallPlace
  <2>2. mission \in Final
    BY <1>0, <1>7 DEF Reports, Steps, EndsComeFromMission
  <2> QED
    BY <1>2, <1>7, <2>1, <2>2 DEF Reports, Steps
<1>8. ASSUME NEW c \in Caller, Cancels(c) PROVE MonitorIInv'
  <2>1. \E to \in CallPlace : to = "cancels"
    BY DEF CallPlace
  <2> QED
    BY <1>2, <1>8, <2>1 DEF Cancels, Steps
<1>9. ASSUME NEW c \in Caller, CancelsMission(c) PROVE MonitorIInv'
  <2>1. \E to \in CallPlace : to = "cancelled"
    BY DEF CallPlace
  <2>2. "cancelled" \in Final
    BY DEF Final
  <2> QED
    BY <1>2, <1>9, <2>1, <2>2 DEF CancelsMission, Steps
<1>10. ASSUME NEW c \in Caller, CancelReports(c) PROVE MonitorIInv'
  <2>1. \E to \in CallPlace : to = "over"
    BY DEF CallPlace
  <2>2. mission \in Final
    BY <1>0, <1>10 DEF CancelReports, Steps, EndsComeFromMission
  <2> QED
    BY <1>2, <1>10, <2>1, <2>2 DEF CancelReports, Steps
<1>11. CASE ClosesApplication
  BY <1>0, <1>11 DEF ClosesApplication, MonitorIInv, MonitorTyped, EndsComeFromMission
<1>12. CASE UNCHANGED monitor
  BY <1>0, <1>12 DEF monitor, MonitorIInv, MonitorTyped, EndsComeFromMission
<1> QED
  BY <1>1, <1>3, <1>4, <1>5, <1>6, <1>7, <1>8, <1>9, <1>10, <1>11, <1>12 DEF MonitorNext

LEMMA MonitorStarts == MonitorInit => MonitorIInv
<1> SUFFICES ASSUME MonitorInit PROVE MonitorIInv
  OBVIOUS
<1>1. MonitorTyped
  BY DEF MonitorInit, MonitorTyped, MissionStatus, CallPlace
<1>2. EndsComeFromMission
  BY DEF MonitorInit, EndsComeFromMission, Final
<1> QED
  BY <1>1, <1>2 DEF MonitorIInv

LEMMA MonitorImplied == MonitorIInv => ReportedEndIsReal
BY DEF MonitorIInv, EndsComeFromMission, ReportedEndIsReal, Caller

\* However submissions of a key overlap and the ledger is written and read back: a process
\* starts one mission per key; and no poll, query or cancellation reports an end that the
\* mission has not.
THEOREM ApplicationIsTrue == ApplicationSpec => []ApplicationInv
<1>1. SubmissionSpec => []KeyRunsOncePerProcess
  <2>1. SubmissionIInv /\ [SubmissionNext]_submission => SubmissionIInv'
    BY SubmissionStep
  <2> QED
    BY <2>1, SubmissionStarts, SubmissionImplied, PTL DEF SubmissionSpec
<1>2. MonitorSpec => []ReportedEndIsReal
  <2>1. MonitorIInv /\ [MonitorNext]_monitor => MonitorIInv'
    BY MonitorStep
  <2> QED
    BY <2>1, MonitorStarts, MonitorImplied, PTL DEF MonitorSpec
<1>3. KeyRunsOncePerProcess /\ ReportedEndIsReal <=> ApplicationInv
  BY DEF ApplicationInv
<1> QED
  BY <1>1, <1>2, <1>3, PTL DEF ApplicationSpec

-----------------------------------------------------------------------------
(* Proof about the git repository.                                          *)

\* Steps that leave the branches and the checkout as they are.
LEMMA RepositoryRests ==
    ASSUME GitIInv, UNCHANGED <<head, integration, target, verified, tested>>,
           stage' \in [WritingTask -> Stage], GitTyped',
           \A t \in WritingTask : stage'[t] \in {"verified", "onBranch"} =>
               stage'[t] = stage[t] /\ allocation'[t] = allocation[t],
           ending' # "no" => ending # "no" /\ AllDone',
           ending' \in {"passed", "onTarget"} => ending' = ending,
           BeyondTests => BeyondTests'
    PROVE  GitIInv'
<1>0. GitTyped /\ ReviewedFirst /\ TestsSeeAll /\ OnlyVerifiedIsMerged /\ TargetIsTested
  BY DEF GitIInv
<1>1. ReviewedFirst'
  BY <1>0 DEF ReviewedFirst
<1>2. HeadHas' = HeadHas
  BY DEF HeadHas
<1>3. TestsSeeAll'
  BY <1>0, <1>2 DEF TestsSeeAll
<1>4. OnlyVerifiedIsMerged' /\ TargetIsTested'
  BY <1>0, <1>2 DEF OnlyVerifiedIsMerged, TargetIsTested
<1> QED
  BY <1>1, <1>3, <1>4 DEF GitIInv

\* A task that moves on was not done, so the tests have not run.
LEMMA TaskMoves ==
    ASSUME GitIInv, NEW t \in WritingTask, NEW from \in Stage \ {"done"}, NEW to \in Stage,
           Moves(t, from, to)
    PROVE  /\ stage' \in [WritingTask -> Stage] /\ stage'[t] = to
           /\ \A u \in WritingTask \ {t} : stage'[u] = stage[u]
           /\ ~AllDone /\ ~BeyondTests /\ ending = "no" /\ target = {} /\ integration \subseteq HeadHas
<1>1. stage \in [WritingTask -> Stage] /\ stage[t] = from /\ stage' = [stage EXCEPT ![t] = to]
  BY DEF GitIInv, GitTyped, Moves
<1>2. ~AllDone
  BY <1>1 DEF AllDone
<1> QED
  BY <1>1, <1>2 DEF GitIInv, TestsSeeAll, BeyondTests

\* A task moves on without a merge, a review or a checkout.
LEMMA QuietMoves ==
    ASSUME GitIInv, NEW t \in WritingTask, NEW from \in Stage \ {"done"},
           NEW to \in Stage \ {"verified", "onBranch"}, Moves(t, from, to),
           UNCHANGED <<head, integration, target, verified, tested, ending>>,
           \A u \in WritingTask \ {t} : allocation'[u] = allocation[u],
           report' = report \/ report' \in [open : BOOLEAN, merged : BOOLEAN, risks : BOOLEAN],
           seen' = seen \/ seen' = [seen EXCEPT ![t] = report]
    PROVE  GitIInv'
<1>1. /\ stage' \in [WritingTask -> Stage] /\ stage'[t] = to
      /\ \A u \in WritingTask \ {t} : stage'[u] = stage[u]
      /\ ~BeyondTests /\ ending = "no"
  BY TaskMoves
<1>2. GitTyped'
  BY <1>1 DEF GitIInv, GitTyped
<1>3. \A u \in WritingTask : stage'[u] \in {"verified", "onBranch"} =>
         stage'[u] = stage[u] /\ allocation'[u] = allocation[u]
  BY <1>1
<1> QED
  BY <1>1, <1>2, <1>3, RepositoryRests

LEMMA QuietSteps ==
    ASSUME GitIInv, NEW t \in WritingTask,
           \/ LaunchInWorktree(t) \/ LaunchRefused(t) \/ LaunchDirectly(t) \/ EndsClean(t)
           \/ Commits(t) \/ RunsAgain(t) \/ ReadsReport(t) \/ SavesReport(t)
    PROVE  GitIInv'
<1> DEFINE Same == /\ UNCHANGED <<head, integration, target, verified, tested, ending>>
                   /\ \A u \in WritingTask \ {t} : allocation'[u] = allocation[u]
           Quiet == \E from \in Stage \ {"done"}, to \in Stage \ {"verified", "onBranch"} : Moves(t, from, to)
<1>1. CASE LaunchInWorktree(t)
  <2>1. Quiet /\ report' = report /\ seen' = seen
    BY <1>1, Zenon DEF LaunchInWorktree, Stage
  <2>2. UNCHANGED <<head, integration, target, verified, tested, ending>>
    BY <1>1 DEF LaunchInWorktree, histories
  <2>3. \A u \in WritingTask \ {t} : allocation'[u] = allocation[u]
    BY <1>1 DEF LaunchInWorktree
  <2> QED
    BY <2>1, <2>2, <2>3, QuietMoves
<1>2. CASE LaunchRefused(t) \/ LaunchDirectly(t) \/ EndsClean(t) \/ Commits(t) \/ RunsAgain(t)
  <2>1. Quiet
    BY <1>2, Zenon DEF LaunchRefused, LaunchDirectly, EndsClean, Commits, RunsAgain, Stage
  <2>2. Same /\ report' = report /\ seen' = seen
    BY <1>2 DEF LaunchRefused, LaunchDirectly, EndsClean, Commits, RunsAgain, repository, disk, histories
  <2> QED
    BY <2>1, <2>2, QuietMoves
<1>3. CASE ReadsReport(t)
  <2>1. Quiet
    BY <1>3, Zenon DEF ReadsReport, Stage
  <2>2. Same /\ report' = report /\ seen' = [seen EXCEPT ![t] = report]
    BY <1>3 DEF ReadsReport, repository, disk, histories
  <2> QED
    BY <2>1, <2>2, QuietMoves
<1>4. CASE SavesReport(t)
  <2>1. Quiet
    BY <1>4, Zenon DEF SavesReport, Stage
  <2>2. Same /\ report' = [seen[t] EXCEPT !.merged = TRUE] /\ seen' = seen
    BY <1>4 DEF SavesReport, repository
  <2>3. seen[t] \in [open : BOOLEAN, merged : BOOLEAN, risks : BOOLEAN]
    BY DEF GitIInv, GitTyped
  <2>4. report' \in [open : BOOLEAN, merged : BOOLEAN, risks : BOOLEAN]
    BY <2>2, <2>3
  <2> QED
    BY <2>1, <2>2, <2>4, QuietMoves
<1> QED
  BY <1>1, <1>2, <1>3, <1>4

LEMMA SessionSteps ==
    ASSUME GitIInv, \/ \E opens \in BOOLEAN : StartSession(opens)
                    \/ NotAllowed \/ TargetConflicts \/ RestartsGit
    PROVE  GitIInv'
<1>0. GitTyped /\ TestsSeeAll
  BY DEF GitIInv
<1>1. ASSUME NEW opens \in BOOLEAN, StartSession(opens) PROVE GitIInv'
  <2>1. /\ session' = IF opens THEN "open" ELSE "failed"
        /\ report' = IF opens THEN [NoReport EXCEPT !.open = TRUE] ELSE report
        /\ UNCHANGED <<head, integration, target, verified, tested, stage, allocation, seen, ending>>
    BY <1>1 DEF StartSession, repository, histories
  <2>2. /\ report' \in [open : BOOLEAN, merged : BOOLEAN, risks : BOOLEAN]
        /\ ~(session' = "open" /\ report'.merged)
    BY <1>0, <2>1 DEF NoReport, GitTyped
  <2>3. GitTyped'
    BY <1>0, <2>1, <2>2 DEF GitTyped
  <2>4. AllDone' = AllDone
    BY <2>1 DEF AllDone
  <2>5. BeyondTests => BeyondTests'
    BY <2>1, <2>2, <2>4 DEF BeyondTests
  <2>6. stage' \in [WritingTask -> Stage] /\ (ending' # "no" => AllDone')
    BY <1>0, <2>1, <2>4 DEF GitTyped, TestsSeeAll
  <2> QED
    BY <2>1, <2>3, <2>5, <2>6, RepositoryRests
<1>2. ASSUME NotAllowed \/ TargetConflicts PROVE GitIInv'
  <2>1. /\ ending # "no" /\ ending' \in {"merged", "over"}
        /\ UNCHANGED <<head, integration, target, verified, tested, stage, allocation, seen, session>>
    BY <1>2 DEF NotAllowed, TargetConflicts, repository, disk, histories
  <2>2. report' = report \/ report' = [report EXCEPT !.risks = TRUE]
    BY <1>2 DEF NotAllowed, TargetConflicts, disk
  <2>3. report' \in [open : BOOLEAN, merged : BOOLEAN, risks : BOOLEAN]
    BY <1>0, <2>2 DEF GitTyped
  <2>4. GitTyped'
    BY <1>0, <2>1, <2>3 DEF GitTyped
  <2>5. AllDone /\ AllDone'
    BY <1>0, <2>1 DEF AllDone, TestsSeeAll
  <2>6. BeyondTests'
    BY <2>1, <2>5 DEF BeyondTests
  <2>7. stage' \in [WritingTask -> Stage]
    BY <1>0, <2>1 DEF GitTyped
  <2> QED
    BY <2>1, <2>4, <2>5, <2>6, <2>7, RepositoryRests
<1>3. ASSUME RestartsGit PROVE GitIInv'
  <2>1. /\ session' = "none" /\ ending' = "no"
        /\ stage' = [t \in WritingTask |-> IF stage[t] = "done" THEN "done" ELSE "idle"]
        /\ seen' = [t \in WritingTask |-> NoReport]
        /\ UNCHANGED <<head, integration, target, verified, tested, allocation, report>>
    BY <1>3 DEF RestartsGit, repository, disk, histories
  <2>2. NoReport \in [open : BOOLEAN, merged : BOOLEAN, risks : BOOLEAN]
    BY DEF NoReport
  <2>3. GitTyped'
    BY <1>0, <2>1, <2>2 DEF GitTyped, Stage
  <2>4. BeyondTests => BeyondTests'
    BY <2>1 DEF BeyondTests, AllDone
  <2>5. \A t \in WritingTask : stage'[t] \notin {"verified", "onBranch"}
    BY <2>1
  <2>6. stage' \in [WritingTask -> Stage]
    BY <2>3 DEF GitTyped
  <2> QED
    BY <2>1, <2>3, <2>4, <2>5, <2>6, RepositoryRests
<1> QED
  BY <1>1, <1>2, <1>3

LEMMA ReviewStep ==
    ASSUME GitIInv, NEW t \in WritingTask, NEW passes \in BOOLEAN, Review(t, passes)
    PROVE  GitIInv'
<1> DEFINE to == IF passes THEN "verified" ELSE "rejected"
<1>0. GitTyped /\ ReviewedFirst /\ TestsSeeAll /\ OnlyVerifiedIsMerged /\ TargetIsTested
  BY DEF GitIInv
<1>1. /\ Moves(t, "committed", to)
      /\ verified' = IF passes THEN verified \cup {allocation[t]} ELSE verified
      /\ UNCHANGED <<head, integration, target, tested, allocation, report, seen, ending, session>>
  BY DEF Review, AfterReview, repository, disk
<1>2. to \in Stage /\ to # "onBranch" /\ (to = "verified" => passes)
  BY DEF Stage
<1> HIDE DEF to
<1>3. /\ stage' \in [WritingTask -> Stage] /\ stage'[t] = to
      /\ \A u \in WritingTask \ {t} : stage'[u] = stage[u]
      /\ ~BeyondTests /\ ending = "no" /\ target = {} /\ integration \subseteq HeadHas
  <2>1. \E from \in Stage \ {"done"} : Moves(t, from, to)
    BY <1>1, Zenon DEF Stage
  <2> QED
    BY <1>2, <2>1, TaskMoves
<1>4. verified \subseteq verified' /\ HeadHas' = HeadHas
  BY <1>1 DEF HeadHas
<1>5. GitTyped'
  BY <1>0, <1>1, <1>3, <1>4 DEF GitTyped
<1>6. ReviewedFirst'
  BY <1>0, <1>1, <1>2, <1>3, <1>4 DEF ReviewedFirst
<1>7. TestsSeeAll'
  BY <1>1, <1>3, <1>4 DEF TestsSeeAll
<1>8. OnlyVerifiedIsMerged' /\ TargetIsTested'
  BY <1>0, <1>1, <1>4 DEF OnlyVerifiedIsMerged, TargetIsTested
<1> QED
  BY <1>5, <1>6, <1>7, <1>8 DEF GitIInv

\* The steps of a submission at the one checkout of the repository.
LEMMA CheckoutSteps ==
    ASSUME GitIInv, NEW t \in WritingTask, ChecksOut(t) \/ Merges(t) \/ Detaches(t)
    PROVE  GitIInv'
<1>0. GitTyped /\ ReviewedFirst /\ TestsSeeAll /\ OnlyVerifiedIsMerged /\ TargetIsTested
  BY DEF GitIInv
<1>1. /\ UNCHANGED <<verified, tested, allocation, report, seen, ending, session>>
      /\ \E from \in {"verified", "onBranch", "merged"}, to \in {"onBranch", "merged", "detached"} :
            Moves(t, from, to) /\ (to = "onBranch" => ChecksOut(t) /\ from = "verified")
  BY DEF ChecksOut, Merges, Detaches, disk, histories
<1>2. PICK from \in {"verified", "onBranch", "merged"}, to \in {"onBranch", "merged", "detached"} :
         Moves(t, from, to) /\ (to = "onBranch" => ChecksOut(t) /\ from = "verified")
  BY <1>1
<1>3. from \in Stage \ {"done"} /\ to \in Stage
  BY DEF Stage
<1>4. /\ stage' \in [WritingTask -> Stage] /\ stage'[t] = to
      /\ \A u \in WritingTask \ {t} : stage'[u] = stage[u]
      /\ ending = "no" /\ target = {} /\ integration \subseteq HeadHas
  BY <1>2, <1>3, TaskMoves
<1>5. /\ head' \in [on : {"integration", "target", "nothing"}, has : SUBSET verified]
      /\ target' = {} /\ integration' \subseteq HeadHas' /\ HeadHas' \subseteq verified
      /\ head'.on = "target" => head.on = "target" /\ ~ChecksOut(t)
  <2>1. CASE ChecksOut(t)
    <3>1. head' = [on |-> "integration", has |-> {}] /\ UNCHANGED <<integration, target>>
      BY <2>1 DEF ChecksOut, Checkout
    <3>2. head' \in [on : {"integration", "target", "nothing"}, has : SUBSET verified]
      BY <3>1
    <3>3. head'.on = "integration"
      BY <3>1
    <3> QED
      BY <1>0, <1>4, <3>1, <3>2, <3>3 DEF HeadHas, OnlyVerifiedIsMerged
  <2>2. CASE Merges(t)
    <3> DEFINE c == {allocation[t]}
    <3>1. /\ stage[t] = "onBranch"
          /\ integration' = IF head.on = "integration" THEN integration \cup c ELSE integration
          /\ target' = IF head.on = "target" THEN target \cup c ELSE target
          /\ head' = IF head.on = "nothing" THEN [head EXCEPT !.has = @ \cup c] ELSE head
      BY <2>2 DEF Merges, Moves, MergeIntoHead
    <3>2. c \subseteq verified /\ head.on # "target"
      BY <1>0, <3>1 DEF ReviewedFirst
    <3> HIDE DEF c
    <3>3. CASE head.on = "integration"
      BY <1>0, <1>4, <3>1, <3>2, <3>3 DEF HeadHas, OnlyVerifiedIsMerged, GitTyped
    <3>4. CASE head.on = "nothing"
      <4>1. head' = [head EXCEPT !.has = @ \cup c] /\ integration' = integration /\ target' = target
        BY <3>1, <3>4
      <4>2. head' \in [on : {"integration", "target", "nothing"}, has : SUBSET verified]
        BY <1>0, <3>2, <4>1 DEF GitTyped
      <4>3. head'.on = "nothing" /\ head'.has = head.has \cup c
        BY <1>0, <3>4, <4>1 DEF GitTyped
      <4> QED
        BY <1>0, <1>4, <3>2, <3>4, <4>1, <4>2, <4>3 DEF HeadHas, OnlyVerifiedIsMerged
    <3> QED
      BY <1>0, <3>2, <3>3, <3>4 DEF GitTyped
  <2>3. CASE Detaches(t)
    <3>1. /\ head' = IF openMerge THEN head ELSE [on |-> "nothing", has |-> HeadHas]
          /\ UNCHANGED <<integration, target>>
      BY <2>3 DEF Detaches, Detach
    <3>2. HeadHas' = HeadHas
      <4>1. CASE openMerge
        BY <3>1, <4>1 DEF HeadHas
      <4>2. CASE ~openMerge
        <5>1. head'.on = "nothing" /\ head'.has = HeadHas
          BY <3>1, <4>2
        <5> QED
          BY <5>1 DEF HeadHas
      <4> QED
        BY <4>1, <4>2
    <3>3. head' \in [on : {"integration", "target", "nothing"}, has : SUBSET verified]
      BY <1>0, <3>1 DEF GitTyped, OnlyVerifiedIsMerged
    <3>4. stage[t] = "merged" /\ (head'.on = "target" => head.on = "target")
      BY <2>3, <3>1 DEF Detaches, Moves
    <3> QED
      BY <1>0, <1>4, <3>1, <3>2, <3>3, <3>4 DEF OnlyVerifiedIsMerged, ChecksOut, Moves
  <2> QED
    BY <2>1, <2>2, <2>3
<1>6. GitTyped'
  BY <1>0, <1>1, <1>4, <1>5 DEF GitTyped
<1>7. ReviewedFirst'
  <2>1. \A u \in WritingTask : stage'[u] \in {"verified", "onBranch"} => allocation[u] \in verified
    BY <1>0, <1>2, <1>4 DEF ReviewedFirst, Moves
  <2>2. \A u \in WritingTask : stage'[u] = "onBranch" => head'.on # "target"
    BY <1>0, <1>2, <1>4, <1>5 DEF ReviewedFirst
  <2> QED
    BY <1>1, <2>1, <2>2 DEF ReviewedFirst
<1>8. TestsSeeAll'
  BY <1>1, <1>4, <1>5 DEF TestsSeeAll
<1>9. OnlyVerifiedIsMerged' /\ TargetIsTested'
  BY <1>1, <1>5 DEF OnlyVerifiedIsMerged, TargetIsTested
<1> QED
  BY <1>6, <1>7, <1>8, <1>9 DEF GitIInv

LEMMA ThrowsStep ==
    ASSUME GitIInv, NEW t \in WritingTask, NEW conflict \in BOOLEAN, Throws(t, conflict)
    PROVE  GitIInv'
<1>1. Moves(t, "verified", "blocked") \/ Moves(t, "onBranch", "blocked")
  BY DEF Throws, Moves
<1>2. \E from \in Stage \ {"done"}, to \in Stage \ {"verified", "onBranch"} : Moves(t, from, to)
  BY <1>1, Zenon DEF Stage
<1>3. UNCHANGED <<head, integration, target, verified, tested, ending, allocation, report, seen>>
  BY DEF Throws, disk, histories
<1> QED
  BY <1>2, <1>3, QuietMoves

\* The end of the mission: the tests, then the target branch.
LEMMA EndingSteps ==
    ASSUME GitIInv, \/ \E pass \in BOOLEAN : RunsTests(pass)
                    \/ ChecksOutTarget \/ MergesTarget \/ EndsIntegration
    PROVE  GitIInv'
<1>0. GitTyped /\ ReviewedFirst /\ TestsSeeAll /\ OnlyVerifiedIsMerged /\ TargetIsTested
  BY DEF GitIInv
<1>1. ASSUME NEW pass \in BOOLEAN, RunsTests(pass) PROVE GitIInv'
  <2>1. /\ session = "open" /\ ending = "no" /\ AllDone /\ report.merged
        /\ ending' = IF pass THEN "passed" ELSE "over"
        /\ report' = [report EXCEPT !.risks = ~pass]
        /\ tested' = IF pass THEN HeadHas ELSE {}
        /\ UNCHANGED <<head, integration, target, verified, allocation, stage, seen, session>>
    BY <1>1 DEF RunsTests, AfterTests, AllDone, repository
  <2>2. target = {} /\ integration \subseteq HeadHas /\ HeadHas' = HeadHas
    BY <1>0, <2>1 DEF TestsSeeAll, BeyondTests, HeadHas
  <2>3. GitTyped'
    <3>1. (~pass) \in BOOLEAN
      OBVIOUS
    <3>2. report' \in [open : BOOLEAN, merged : BOOLEAN, risks : BOOLEAN]
      BY <1>0, <2>1, <3>1 DEF GitTyped
    <3> QED
      BY <1>0, <2>1, <3>2 DEF GitTyped
  <2>4. AllDone'
    BY <2>1 DEF AllDone
  <2>5. ReviewedFirst'
    BY <1>0, <2>1 DEF ReviewedFirst
  <2>6. TestsSeeAll'
    BY <2>1, <2>2, <2>4 DEF TestsSeeAll
  <2>7. OnlyVerifiedIsMerged' /\ TargetIsTested'
    BY <1>0, <2>1, <2>2 DEF OnlyVerifiedIsMerged, TargetIsTested
  <2> QED
    BY <2>3, <2>5, <2>6, <2>7 DEF GitIInv
<1>2. ASSUME ChecksOutTarget \/ MergesTarget \/ EndsIntegration PROVE GitIInv'
  <2>1. /\ ending \in {"passed", "onTarget", "merged"} /\ ending' \in {"onTarget", "merged", "over"}
        /\ ending' = "onTarget" => ending = "passed"
        /\ UNCHANGED <<verified, tested, allocation, stage, seen, session>>
    BY <1>2 DEF ChecksOutTarget, MergesTarget, EndsIntegration, disk, histories
  <2>2. AllDone /\ AllDone' /\ BeyondTests'
    BY <1>0, <2>1 DEF TestsSeeAll, AllDone, BeyondTests
  <2>3. /\ head' \in [on : {"integration", "target", "nothing"}, has : SUBSET verified]
        /\ integration' = integration /\ target \subseteq target'
        /\ target' \subseteq target \cup (IF ending = "onTarget" THEN integration ELSE {})
        /\ HeadHas' \subseteq verified
    <3>1. CASE ChecksOutTarget
      <4>1. head' = [on |-> "target", has |-> {}] /\ UNCHANGED <<integration, target>>
        BY <3>1 DEF ChecksOutTarget, Checkout
      <4>2. head'.on = "target" /\ head' \in [on : {"integration", "target", "nothing"}, has : SUBSET verified]
        BY <4>1
      <4> QED
        BY <1>0, <4>1, <4>2 DEF HeadHas, OnlyVerifiedIsMerged
    <3>2. CASE MergesTarget
      <4>1. /\ ending = "onTarget"
            /\ integration' = IF head.on = "integration" THEN integration \cup integration ELSE integration
            /\ target' = IF head.on = "target" THEN target \cup integration ELSE target
            /\ head' = IF head.on = "nothing" THEN [head EXCEPT !.has = @ \cup integration] ELSE head
        BY <3>2 DEF MergesTarget, MergeIntoHead
      <4>2. integration' = integration
        BY <4>1
      <4>3. integration \subseteq verified /\ target \subseteq verified
        BY <1>0 DEF OnlyVerifiedIsMerged
      <4>4. CASE head.on = "nothing"
        <5>1. head' \in [on : {"integration", "target", "nothing"}, has : SUBSET verified]
          BY <1>0, <4>1, <4>3, <4>4 DEF GitTyped
        <5>2. head'.on = "nothing"
          BY <1>0, <4>1, <4>4 DEF GitTyped
        <5> QED
          BY <4>1, <4>2, <4>4, <5>1, <5>2 DEF HeadHas
      <4>5. CASE head.on # "nothing"
        BY <1>0, <4>1, <4>2, <4>3, <4>5 DEF HeadHas, GitTyped
      <4> QED
        BY <4>4, <4>5
    <3>3. CASE EndsIntegration
      <4>1. /\ head' = IF openMerge THEN head ELSE [on |-> "nothing", has |-> HeadHas]
            /\ UNCHANGED <<integration, target>>
        BY <3>3 DEF EndsIntegration, Detach
      <4>2. CASE openMerge
        BY <1>0, <4>1, <4>2 DEF HeadHas, GitTyped, OnlyVerifiedIsMerged
      <4>3. CASE ~openMerge
        <5>1. head' = [on |-> "nothing", has |-> HeadHas]
          BY <4>1, <4>3
        <5>2. head'.on = "nothing" /\ head'.has = HeadHas
          BY <5>1
        <5>3. HeadHas \subseteq verified
          BY <1>0 DEF OnlyVerifiedIsMerged
        <5>4. head' \in [on : {"integration", "target", "nothing"}, has : SUBSET verified]
          BY <5>1, <5>3
        <5> QED
          BY <4>1, <5>2, <5>3, <5>4 DEF HeadHas
      <4> QED
        BY <4>2, <4>3
    <3> QED
      BY <1>2, <3>1, <3>2, <3>3
  <2>4. report' \in [open : BOOLEAN, merged : BOOLEAN, risks : BOOLEAN]
    <3>1. report' = report \/ report' = [report EXCEPT !.risks = @ \/ openMerge]
      BY <1>2 DEF ChecksOutTarget, MergesTarget, EndsIntegration, disk
    <3>2. (report.risks \/ openMerge) \in BOOLEAN
      OBVIOUS
    <3> QED
      BY <1>0, <3>1, <3>2 DEF GitTyped
  <2>5. GitTyped'
    BY <1>0, <2>1, <2>3, <2>4 DEF GitTyped
  <2>6. ReviewedFirst'
    BY <2>1, <2>2 DEF ReviewedFirst, AllDone
  <2>7. TestsSeeAll'
    BY <1>0, <2>1, <2>2, <2>3 DEF TestsSeeAll
  <2>8. OnlyVerifiedIsMerged'
    BY <1>0, <2>1, <2>3 DEF OnlyVerifiedIsMerged
  <2>9. TargetIsTested'
    BY <1>0, <2>1, <2>3 DEF TargetIsTested, TestsSeeAll
  <2> QED
    BY <2>5, <2>6, <2>7, <2>8, <2>9 DEF GitIInv
<1> QED
  BY <1>1, <1>2

LEMMA GitStep ==
    ASSUME GitIInv, [GitNext]_git
    PROVE  GitIInv'
<1>1. ASSUME NEW b \in BOOLEAN, StartSession(b) \/ RunsTests(b) PROVE GitIInv'
  BY <1>1, SessionSteps, EndingSteps
<1>2. ASSUME NEW t \in WritingTask,
             \/ LaunchInWorktree(t) \/ LaunchRefused(t) \/ LaunchDirectly(t) \/ EndsClean(t)
             \/ Commits(t) \/ RunsAgain(t) \/ ReadsReport(t) \/ SavesReport(t)
      PROVE  GitIInv'
  BY <1>2, QuietSteps
<1>3. ASSUME NEW t \in WritingTask, NEW b \in BOOLEAN, Review(t, b) \/ Throws(t, b) PROVE GitIInv'
  BY <1>3, ReviewStep, ThrowsStep
<1>4. ASSUME NEW t \in WritingTask, ChecksOut(t) \/ Merges(t) \/ Detaches(t) PROVE GitIInv'
  BY <1>4, CheckoutSteps
<1>5. CASE NotAllowed \/ TargetConflicts \/ RestartsGit
  BY <1>5, SessionSteps
<1>6. CASE ChecksOutTarget \/ MergesTarget \/ EndsIntegration
  BY <1>6, EndingSteps
<1>7. CASE UNCHANGED git
  BY <1>7 DEF git, repository, disk, histories, GitIInv, GitTyped, ReviewedFirst, TestsSeeAll, BeyondTests,
              AllDone, HeadHas, OnlyVerifiedIsMerged, TargetIsTested
<1> QED
  BY <1>1, <1>2, <1>3, <1>4, <1>5, <1>6, <1>7 DEF GitNext

LEMMA GitStarts == GitInit => GitIInv
<1> SUFFICES ASSUME GitInit PROVE GitIInv
  OBVIOUS
<1>1. /\ integration = {} /\ target = {} /\ head = [on |-> "target", has |-> {}] /\ ending = "no"
      /\ stage = [t \in WritingTask |-> "idle"] /\ report = NoReport
      /\ seen = [t \in WritingTask |-> NoReport] /\ verified = {} /\ tested = {}
  BY DEF GitInit
<1>2. NoReport \in [open : BOOLEAN, merged : BOOLEAN, risks : BOOLEAN]
  BY DEF NoReport
<1>3. GitTyped
  BY <1>1, <1>2 DEF GitTyped, Stage
<1>4. head.on = "target" /\ HeadHas = {}
  BY <1>1 DEF HeadHas
<1>5. ReviewedFirst /\ TestsSeeAll
  BY <1>1, <1>4 DEF ReviewedFirst, TestsSeeAll
<1>6. OnlyVerifiedIsMerged /\ TargetIsTested
  BY <1>1, <1>4 DEF OnlyVerifiedIsMerged, TargetIsTested
<1> QED
  BY <1>3, <1>5, <1>6 DEF GitIInv

\* However submissions, conflicts, restarts and the end of the mission interleave at the one
\* checkout: the integration branch has only what the verifier accepted, and the target
\* branch only what was checked out when the final tests passed.
THEOREM OnlyVerifiedReachesTarget == GitSpec => []GitInv
<1>1. GitIInv /\ [GitNext]_git => GitIInv'
  BY GitStep
<1>2. GitIInv => GitInv
  BY DEF GitIInv, GitInv
<1> QED
  BY <1>1, <1>2, GitStarts, PTL DEF GitSpec
=============================================================================
