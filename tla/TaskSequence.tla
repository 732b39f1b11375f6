------------------------------ MODULE TaskSequence ------------------------------
(***************************************************************************)
(* The task sequence of an agent: a partial order of tasks and the bundles *)
(* handed to other agents, in one document with a revision                 *)
(* (orchestration/agent-task-sequence-store.ts, task-sequence-             *)
(* controllers.ts, task-sequence-partial-order.ts, task-bundle-            *)
(* planner.ts).  A call of the manage controller writes twice, each time   *)
(* under the expected revision: the change, and then its audit entry.      *)
(***************************************************************************)
EXTENDS Naturals, Sequences, FiniteSets

CONSTANTS
    SeqTask,        \* taskIds
    Tier,           \* Tier[t]: the priority tier a task is published with
    Publisher,      \* callers of the manage controller
    MaxSeqRevision  \* bound on the revisions of the document

ASSUME TaskSequenceAssumption ==
    IsFiniteSet(SeqTask) /\ Tier \in [SeqTask -> Nat] /\ MaxSeqRevision \in Nat

VARIABLES
    sequence,  \* the document: revision, status and predecessors of each task, bundles, audit entries
    publisher, \* publisher[p]: the revision it has seen, and the call it is in
    changes    \* history: the revisions that brought a change

taskSequenceVars == <<sequence, publisher, changes>>

NodeStatus == {"absent", "pending", "running", "blocked", "failed", "done", "cancelled"}
BundleStatus == {"prepared", "active", "completed", "failed"}

NoSequence == [revision |-> 0, status |-> [t \in SeqTask |-> "absent"],
               before |-> [t \in SeqTask |-> {}], bundles |-> {}, audits |-> {}]
Resting == [seen |-> 0, phase |-> "idle", change |-> 0, told |-> "nothing"]

TaskSequenceInit ==
    /\ sequence = NoSequence
    /\ publisher = [p \in Publisher |-> Resting]
    /\ changes = {}

Present == {t \in SeqTask : sequence.status[t] # "absent"}

\* validateAcyclic: a cycle is a set of tasks each with a predecessor in the set.
NoCycle(before) == \A S \in SUBSET SeqTask : S = {} \/ \E t \in S : before[t] \cap S = {}

--------------------------------------------------------------------------------
(* updateSequence: the change is made on the document as it is, if its     *)
(* revision is the one the caller expects.                                 *)

Writes(p, document) ==
    /\ sequence.revision < MaxSeqRevision
    /\ publisher[p].phase = "idle" /\ publisher[p].seen = sequence.revision
    /\ sequence' = [document EXCEPT !.revision = @ + 1]
    /\ changes' = changes \cup {sequence.revision + 1}
    /\ publisher' = [publisher EXCEPT ![p] =
                        [@ EXCEPT !.phase = "auditing", !.change = sequence.revision + 1, !.told = "nothing"]]

Publish(p, t) ==
    /\ sequence.revision = 0
    /\ Writes(p, [sequence EXCEPT !.status[t] = "pending"])

\* Mutant: an insertion is not checked for cycles.
FitsUnchecked(before) == TRUE

Fits(before) == NoCycle(before)

\* insertNode: between direct predecessors and direct successors, at least one of them given.
Insert(p, t, predecessors, successors) ==
    LET before == [u \in SeqTask |-> IF u = t THEN predecessors
                                     ELSE IF u \in successors THEN sequence.before[u] \cup {t}
                                     ELSE sequence.before[u]]
    IN  /\ t \notin Present /\ predecessors \cup successors # {}
        /\ predecessors \cup successors \subseteq Present
        /\ Fits(before)
        /\ Writes(p, [sequence EXCEPT !.status[t] = "pending", !.before = before])

\* Mutant: a task that is done may be moved.
MayMoveFinished(from, to) == from # "absent" /\ from # to

\* transitionTaskStatus: back to pending from running, blocked and failed; everything else
\* from pending and blocked only.  cancelTask: from anything but done and cancelled.
MayMove(from, to) ==
    CASE to = "pending" -> from \in {"running", "blocked", "failed"}
      [] to = "cancelled" -> from \in {"pending", "running", "blocked", "failed"}
      [] OTHER -> from \in {"pending", "blocked"}

Move(p, t, to) ==
    /\ to # "absent" /\ MayMove(sequence.status[t], to)
    /\ Writes(p, [sequence EXCEPT !.status[t] = to])

\* createBundle: pending tasks of one tier, each a direct predecessor of the next.
CanBeBundled(tasks) ==
    /\ \A i \in DOMAIN tasks : sequence.status[tasks[i]] = "pending" /\ Tier[tasks[i]] = Tier[tasks[1]]
    /\ \A i \in 1..Len(tasks)-1 : tasks[i] \in sequence.before[tasks[i+1]]

CreateBundle(p, tasks) ==
    /\ CanBeBundled(tasks)
    /\ Writes(p, [sequence EXCEPT !.bundles =
                    @ \cup {[tasks |-> tasks, made |-> sequence.revision, status |-> "prepared"]}])

\* transitionBundleStatus: from any status.
MoveBundle(p, b, to) ==
    Writes(p, [sequence EXCEPT !.bundles = (@ \ {b}) \cup {[b EXCEPT !.status = to]}])

--------------------------------------------------------------------------------
(* The rest of a call *)

\* Mutant: the call answers without looking at what became of its audit entry.
AnswerAlways(entered) == "done"

Answer(entered) == IF entered THEN "done" ELSE "stale-revision"

\* appendAuditEntry: a second update, which expects the revision the change has written.
\* If somebody else has written meanwhile, the call fails although its change stays.
Audits(p) ==
    LET entered == sequence.revision = publisher[p].change IN
    /\ publisher[p].phase = "auditing"
    /\ sequence' = IF entered
                   THEN [sequence EXCEPT !.revision = @ + 1, !.audits = @ \cup {publisher[p].change}]
                   ELSE sequence
    /\ publisher' = [publisher EXCEPT ![p] = [@ EXCEPT !.phase = "idle", !.told = Answer(entered)]]
    /\ UNCHANGED changes

\* getSnapshot or readSequence: the revision the next call will expect.
Looks(p) ==
    /\ publisher[p].phase = "idle" /\ publisher[p].seen # sequence.revision
    /\ publisher' = [publisher EXCEPT ![p].seen = sequence.revision]
    /\ UNCHANGED <<sequence, changes>>

\* A call with a revision that is no longer current changes nothing.
Refused(p) ==
    /\ publisher[p].phase = "idle" /\ publisher[p].seen # sequence.revision
    /\ publisher' = [publisher EXCEPT ![p].told = "stale-revision", ![p].change = 0]
    /\ UNCHANGED <<sequence, changes>>

\* The process ends: calls that have written their change never write their audit entry.
Dies ==
    /\ \E p \in Publisher : publisher[p].phase = "auditing"
    /\ publisher' = [p \in Publisher |-> Resting]
    /\ UNCHANGED <<sequence, changes>>

Chains == {<<t>> : t \in SeqTask} \cup {<<t, u>> : t, u \in SeqTask}

TaskSequenceNext ==
    \/ \E p \in Publisher, t \in SeqTask :
        \/ Publish(p, t)
        \/ \E predecessors, successors \in SUBSET (SeqTask \ {t}) : Insert(p, t, predecessors, successors)
        \/ \E to \in NodeStatus : Move(p, t, to)
    \/ \E p \in Publisher :
        \/ \E tasks \in Chains : CreateBundle(p, tasks)
        \/ \E b \in sequence.bundles, to \in BundleStatus \ {"prepared"} : MoveBundle(p, b, to)
        \/ Audits(p) \/ Looks(p) \/ Refused(p)
    \/ Dies

TaskSequenceSpec == TaskSequenceInit /\ [][TaskSequenceNext]_taskSequenceVars

--------------------------------------------------------------------------------
(* Properties *)

\* Whatever is inserted, moved and bundled, in whatever order and by whomever: the tasks stay
\* a partial order, and a bundle stays a chain of it (agent-task-sequence-store.ts:115).
ChainsStayChains ==
    /\ sequence.status \in [SeqTask -> NodeStatus]
    /\ NoCycle(sequence.before)
    /\ \A t \in SeqTask : sequence.before[t] \subseteq Present
    /\ \A b \in sequence.bundles : \A i \in 1..Len(b.tasks)-1 :
            b.tasks[i] \in sequence.before[b.tasks[i+1]]
    /\ sequence.revision = Cardinality(changes) + Cardinality(sequence.audits)

\* A caller that was told its change is done finds the change and its audit entry, whatever
\* others have done since (task-sequence-controllers.ts:145, :182, :220).
DoneIsTraced ==
    \A p \in Publisher : publisher[p].told = "done" =>
        publisher[p].change \in sequence.audits \cap changes

\* Nobody undoes what another has written: entries and bundles stay, predecessors are only
\* added, and a task that is done or cancelled remains so.
NothingIsUndone ==
    [][ /\ sequence.audits \subseteq sequence'.audits
        /\ \A b \in sequence.bundles : \E c \in sequence'.bundles : c.tasks = b.tasks /\ c.made = b.made
        /\ \A t \in SeqTask :
            /\ sequence.before[t] \subseteq sequence'.before[t]
            /\ sequence.status[t] \in {"done", "cancelled"} => sequence'.status[t] = sequence.status[t]
      ]_taskSequenceVars

\* The document of a sequence, and what its publishers were told about it.
SequenceInv == ChainsStayChains /\ DoneIsTraced
==============================================================================
