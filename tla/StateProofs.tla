------------------------------ MODULE StateProofs ------------------------------
(* The documents an agent keeps, and what they say whatever is written, by     *)
(* whomever and in whatever order: the sequence of its tasks, the graph of its *)
(* contexts with the capsules and entries for review, and the file of a        *)
(* shutdown.                                                                   *)
EXTENDS TaskSequence, ContextClosure, TertiaryShutdown, FiniteSetTheorems, TLAPS

(***************************************************************************)
(* The task sequence.                                                      *)
(***************************************************************************)

Bundle == [tasks : Seq(SeqTask), made : Nat, status : BundleStatus]

SequenceTyped ==
    /\ sequence \in [revision : Nat, status : [SeqTask -> NodeStatus],
                     before : [SeqTask -> SUBSET SeqTask], bundles : SUBSET Bundle, audits : SUBSET Nat]
    /\ publisher \in [Publisher -> [seen : Nat, phase : {"idle", "auditing"}, change : Nat,
                                    told : {"nothing", "done", "stale-revision"}]]
    /\ changes \subseteq 1 .. sequence.revision

\* A change is audited under the revision that follows it, so an entry is older than the document.
AuditsFollowChanges == sequence.audits \subseteq 1 .. (sequence.revision - 1)

\* Every revision is a change or the audit entry of one.
RevisionsAreCounted == sequence.revision = Cardinality(changes) + Cardinality(sequence.audits)

\* A call that owes an audit entry has written its change.
AuditingHasChanged == \A p \in Publisher : publisher[p].phase = "auditing" => publisher[p].change \in changes

\* A sequence nobody has written has no task.
NewIsEmpty == sequence.revision = 0 => Present = {}

\* Predecessors and members of a bundle are tasks that exist; so is a task that has a predecessor.
KnownTasks ==
    /\ \A t \in SeqTask : sequence.before[t] \subseteq Present /\ (t \in Present \/ sequence.before[t] = {})
    /\ \A b \in sequence.bundles : \A i \in 1 .. Len(b.tasks) : b.tasks[i] \in Present

BundlesAreChains ==
    \A b \in sequence.bundles : \A i \in 1 .. Len(b.tasks)-1 : b.tasks[i] \in sequence.before[b.tasks[i+1]]

SequenceIInv ==
    /\ SequenceTyped
    /\ AuditsFollowChanges
    /\ RevisionsAreCounted
    /\ AuditingHasChanged
    /\ NewIsEmpty
    /\ KnownTasks
    /\ BundlesAreChains
    /\ NoCycle(sequence.before)
    /\ DoneIsTraced

-----------------------------------------------------------------------------
\* What every change has in common: it brings a revision that nobody has brought before.
LEMMA WritesOnce ==
    ASSUME SequenceIInv, NEW p \in Publisher,
           NEW document \in [revision : Nat, status : [SeqTask -> NodeStatus],
                             before : [SeqTask -> SUBSET SeqTask], bundles : SUBSET Bundle, audits : SUBSET Nat],
           document.revision = sequence.revision, document.audits = sequence.audits,
           Writes(p, document)
    PROVE  /\ SequenceTyped' /\ AuditsFollowChanges' /\ RevisionsAreCounted' /\ AuditingHasChanged'
           /\ NewIsEmpty' /\ DoneIsTraced'
           /\ sequence'.status = document.status /\ sequence'.before = document.before
           /\ sequence'.bundles = document.bundles /\ sequence'.audits = sequence.audits
<1>1. sequence' = [revision |-> sequence.revision + 1, status |-> document.status, before |-> document.before,
                   bundles |-> document.bundles, audits |-> sequence.audits]
  BY DEF Writes
<1>2. changes' = changes \cup {sequence.revision + 1}
  BY DEF Writes
<1>3. publisher' = [publisher EXCEPT ![p] = [@ EXCEPT !.phase = "auditing", !.change = sequence.revision + 1, !.told = "nothing"]]
  BY DEF Writes
<1>4. sequence.revision \in Nat /\ changes \subseteq 1 .. sequence.revision
  BY DEF SequenceIInv, SequenceTyped
<1>5. SequenceTyped'
  <2>1. sequence' \in [revision : Nat, status : [SeqTask -> NodeStatus],
                       before : [SeqTask -> SUBSET SeqTask], bundles : SUBSET Bundle, audits : SUBSET Nat]
    BY <1>1, <1>4 DEF SequenceIInv, SequenceTyped
  <2>2. publisher' \in [Publisher -> [seen : Nat, phase : {"idle", "auditing"}, change : Nat,
                                      told : {"nothing", "done", "stale-revision"}]]
    <3> DEFINE Call == [seen : Nat, phase : {"idle", "auditing"}, change : Nat,
                        told : {"nothing", "done", "stale-revision"}]
               call == [publisher[p] EXCEPT !.phase = "auditing", !.change = sequence.revision + 1, !.told = "nothing"]
    <3>1. publisher \in [Publisher -> Call] /\ sequence.revision + 1 \in Nat
      BY <1>4 DEF SequenceIInv, SequenceTyped
    <3>2. call \in Call
      <4>1. ASSUME NEW n \in Nat, NEW old \in Call
            PROVE  [old EXCEPT !.phase = "auditing", !.change = n, !.told = "nothing"] \in Call
        OBVIOUS
      <4>2. publisher[p] \in Call
        BY <3>1
      <4> QED
        BY <3>1, <4>1, <4>2
    <3>3. publisher' = [publisher EXCEPT ![p] = call]
      BY <1>3
    <3> HIDE DEF Call, call
    <3>4. publisher' \in [Publisher -> Call]
      BY <3>1, <3>2, <3>3
    <3> QED
      BY <3>4 DEF Call
  <2>3. changes' \subseteq 1 .. sequence'.revision
    <3>1. sequence'.revision = sequence.revision + 1
      BY <1>1
    <3>2. changes' \subseteq 1 .. (sequence.revision + 1)
      <4>1. changes \subseteq 1 .. (sequence.revision + 1)
        BY <1>4
      <4>2. sequence.revision + 1 \in 1 .. (sequence.revision + 1)
        BY <1>4
      <4> QED
        BY <1>2, <4>1, <4>2
    <3> QED
      BY <3>1, <3>2
  <2> QED
    BY <2>1, <2>2, <2>3 DEF SequenceTyped
<1>6. AuditsFollowChanges'
  BY <1>1, <1>4 DEF SequenceIInv, AuditsFollowChanges
<1>7. RevisionsAreCounted'
  <2>0. 1 \in Int /\ sequence.revision \in Int /\ sequence.revision - 1 \in Int
    BY <1>4
  <2>1. IsFiniteSet(changes) /\ sequence.revision + 1 \notin changes
    <3>1. IsFiniteSet(1 .. sequence.revision)
      BY <2>0, FS_Interval
    <3>2. IsFiniteSet(changes)
      BY <1>4, <3>1, FS_Subset
    <3> QED
      BY <1>4, <3>2
  <2>2. Cardinality(changes') = Cardinality(changes) + 1
    BY <1>2, <2>1, FS_AddElement
  <2>3. IsFiniteSet(sequence.audits)
    <3>1. IsFiniteSet(1 .. (sequence.revision - 1))
      BY <2>0, FS_Interval
    <3> QED
      BY <3>1, FS_Subset DEF SequenceIInv, AuditsFollowChanges
  <2>4. Cardinality(changes) \in Nat /\ Cardinality(sequence.audits) \in Nat
    BY <2>1, <2>3, FS_CardinalityType
  <2> QED
    BY <1>1, <2>2, <2>4 DEF SequenceIInv, RevisionsAreCounted
<1>8. AuditingHasChanged'
  BY <1>2, <1>3 DEF SequenceIInv, SequenceTyped, AuditingHasChanged
<1>9. NewIsEmpty'
  BY <1>1, <1>4 DEF NewIsEmpty
<1>10. DoneIsTraced'
  BY <1>1, <1>2, <1>3 DEF SequenceIInv, SequenceTyped, DoneIsTraced
<1> QED
  BY <1>1, <1>5, <1>6, <1>7, <1>8, <1>9, <1>10

\* What others have written stays.
StaysWritten ==
    /\ sequence.audits \subseteq sequence'.audits
    /\ \A b \in sequence.bundles : \E c \in sequence'.bundles : c.tasks = b.tasks /\ c.made = b.made
    /\ \A t \in SeqTask :
        /\ sequence.before[t] \subseteq sequence'.before[t]
        /\ sequence.status[t] \in {"done", "cancelled"} => sequence'.status[t] = sequence.status[t]

\* When statuses change, and tasks stay present, chains and order are those there were.
LEMMA StatusOnly ==
    ASSUME SequenceIInv, sequence'.before = sequence.before, sequence'.bundles = sequence.bundles,
           Present \subseteq Present'
    PROVE  KnownTasks' /\ BundlesAreChains' /\ NoCycle(sequence.before)'
BY DEF SequenceIInv, KnownTasks, BundlesAreChains, NoCycle

LEMMA PublishHolds ==
    ASSUME SequenceIInv, NEW p \in Publisher, NEW t \in SeqTask, Publish(p, t)
    PROVE  SequenceIInv' /\ StaysWritten
<1> DEFINE document == [sequence EXCEPT !.status[t] = "pending"]
<1>1. /\ document \in [revision : Nat, status : [SeqTask -> NodeStatus],
                       before : [SeqTask -> SUBSET SeqTask], bundles : SUBSET Bundle, audits : SUBSET Nat]
      /\ document.revision = sequence.revision /\ document.audits = sequence.audits
      /\ document.before = sequence.before /\ document.bundles = sequence.bundles
      /\ document.status = [sequence.status EXCEPT ![t] = "pending"]
  BY DEF SequenceIInv, SequenceTyped, NodeStatus
<1>2. Writes(p, document) /\ sequence.revision = 0
  BY DEF Publish
<1> HIDE DEF document
<1>3. /\ SequenceTyped' /\ AuditsFollowChanges' /\ RevisionsAreCounted' /\ AuditingHasChanged'
      /\ NewIsEmpty' /\ DoneIsTraced'
      /\ sequence'.status = document.status /\ sequence'.before = document.before
      /\ sequence'.bundles = document.bundles /\ sequence'.audits = sequence.audits
  BY <1>1, <1>2, WritesOnce
<1>4. Present = {}
  BY <1>2 DEF SequenceIInv, NewIsEmpty
<1>5. KnownTasks' /\ BundlesAreChains' /\ NoCycle(sequence.before)'
  BY <1>1, <1>3, <1>4, StatusOnly
<1>6. StaysWritten
  BY <1>1, <1>3, <1>4 DEF StaysWritten, Present
<1> QED
  BY <1>3, <1>5, <1>6 DEF SequenceIInv

LEMMA MoveHolds ==
    ASSUME SequenceIInv, NEW p \in Publisher, NEW t \in SeqTask, NEW to \in NodeStatus, Move(p, t, to)
    PROVE  SequenceIInv' /\ StaysWritten
<1> DEFINE document == [sequence EXCEPT !.status[t] = to]
<1>1. /\ document \in [revision : Nat, status : [SeqTask -> NodeStatus],
                       before : [SeqTask -> SUBSET SeqTask], bundles : SUBSET Bundle, audits : SUBSET Nat]
      /\ document.revision = sequence.revision /\ document.audits = sequence.audits
      /\ document.before = sequence.before /\ document.bundles = sequence.bundles
      /\ document.status = [sequence.status EXCEPT ![t] = to]
  BY DEF SequenceIInv, SequenceTyped
<1>2. Writes(p, document) /\ to # "absent"
  BY DEF Move
<1> HIDE DEF document
<1>3. /\ SequenceTyped' /\ AuditsFollowChanges' /\ RevisionsAreCounted' /\ AuditingHasChanged'
      /\ NewIsEmpty' /\ DoneIsTraced'
      /\ sequence'.status = document.status /\ sequence'.before = document.before
      /\ sequence'.bundles = document.bundles /\ sequence'.audits = sequence.audits
  BY <1>1, <1>2, WritesOnce
<1>4. sequence.status[t] \notin {"absent", "done", "cancelled"}
  BY DEF Move, MayMove, SequenceIInv, SequenceTyped, NodeStatus
<1>5. sequence.status \in [SeqTask -> NodeStatus]
  BY DEF SequenceIInv, SequenceTyped
<1>6. Present \subseteq Present'
  BY <1>1, <1>2, <1>3, <1>5 DEF Present
<1>7. KnownTasks' /\ BundlesAreChains' /\ NoCycle(sequence.before)'
  BY <1>1, <1>3, <1>6, StatusOnly
<1>8. StaysWritten
  BY <1>1, <1>3, <1>4, <1>5 DEF StaysWritten
<1> QED
  BY <1>3, <1>7, <1>8 DEF SequenceIInv

LEMMA InsertHolds ==
    ASSUME SequenceIInv, NEW p \in Publisher, NEW t \in SeqTask,
           NEW predecessors \in SUBSET (SeqTask \ {t}), NEW successors \in SUBSET (SeqTask \ {t}),
           Insert(p, t, predecessors, successors)
    PROVE  SequenceIInv' /\ StaysWritten
<1> DEFINE before == [u \in SeqTask |-> IF u = t THEN predecessors
                                        ELSE IF u \in successors THEN sequence.before[u] \cup {t}
                                        ELSE sequence.before[u]]
           document == [sequence EXCEPT !.status[t] = "pending", !.before = before]
<1>0. /\ t \notin Present /\ predecessors \cup successors \subseteq Present
      /\ NoCycle(before) /\ Writes(p, document)
  BY DEF Insert, Fits
<1>1. sequence.before \in [SeqTask -> SUBSET SeqTask] /\ sequence.status \in [SeqTask -> NodeStatus]
  BY DEF SequenceIInv, SequenceTyped
<1>2. before \in [SeqTask -> SUBSET SeqTask] /\ \A u \in SeqTask : u # t => sequence.before[u] \subseteq before[u]
  BY <1>1
<1>3. before[t] = predecessors /\ \A u \in SeqTask : before[u] \subseteq sequence.before[u] \cup predecessors \cup {t}
  BY <1>1
<1>4. sequence.before[t] = {}
  BY <1>0 DEF SequenceIInv, KnownTasks
<1>5. /\ document \in [revision : Nat, status : [SeqTask -> NodeStatus],
                       before : [SeqTask -> SUBSET SeqTask], bundles : SUBSET Bundle, audits : SUBSET Nat]
      /\ document.revision = sequence.revision /\ document.audits = sequence.audits
      /\ document.before = before /\ document.bundles = sequence.bundles
      /\ document.status = [sequence.status EXCEPT ![t] = "pending"]
  <2> HIDE DEF before
  <2> QED
    BY <1>2 DEF SequenceIInv, SequenceTyped, NodeStatus
<1> HIDE DEF before, document
<1>6. /\ SequenceTyped' /\ AuditsFollowChanges' /\ RevisionsAreCounted' /\ AuditingHasChanged'
      /\ NewIsEmpty' /\ DoneIsTraced'
      /\ sequence'.status = document.status /\ sequence'.before = document.before
      /\ sequence'.bundles = document.bundles /\ sequence'.audits = sequence.audits
  BY <1>0, <1>5, WritesOnce
<1>7. Present' = Present \cup {t}
  BY <1>1, <1>5, <1>6 DEF Present
<1>8. KnownTasks'
  <2>1. ASSUME NEW u \in SeqTask
        PROVE  sequence'.before[u] \subseteq Present' /\ (u \in Present' \/ sequence'.before[u] = {})
    <3>1. before[u] \subseteq Present'
      BY <1>0, <1>3, <1>7 DEF SequenceIInv, KnownTasks
    <3>2. u \in Present' \/ before[u] = sequence.before[u]
      BY <1>0, <1>1, <1>7 DEF before
    <3> QED
      BY <1>5, <1>6, <1>7, <3>1, <3>2 DEF SequenceIInv, KnownTasks
  <2>2. \A b \in sequence'.bundles : \A i \in 1 .. Len(b.tasks) : b.tasks[i] \in Present'
    BY <1>5, <1>6, <1>7 DEF SequenceIInv, KnownTasks
  <2> QED
    BY <2>1, <2>2 DEF KnownTasks
<1>9. \A u \in SeqTask : sequence.before[u] \subseteq sequence'.before[u]
  BY <1>2, <1>4, <1>5, <1>6
<1>10. BundlesAreChains'
  <2> SUFFICES ASSUME NEW b \in sequence.bundles, NEW i \in 1 .. Len(b.tasks)-1
               PROVE  b.tasks[i] \in sequence'.before[b.tasks[i+1]]
    BY <1>5, <1>6 DEF BundlesAreChains
  <2>1. b.tasks \in Seq(SeqTask)
    BY DEF SequenceIInv, SequenceTyped, Bundle
  <2>2. b.tasks[i+1] \in SeqTask
    BY <2>1
  <2> QED
    BY <1>9, <2>2 DEF SequenceIInv, BundlesAreChains
<1>11. NoCycle(sequence.before)'
  BY <1>0, <1>5, <1>6 DEF NoCycle
<1>12. StaysWritten
  <2>1. sequence.status[t] = "absent"
    BY <1>0 DEF Present
  <2> QED
    BY <1>1, <1>5, <1>6, <1>9, <2>1 DEF StaysWritten
<1> QED
  BY <1>6, <1>8, <1>10, <1>11, <1>12 DEF SequenceIInv

\* What a step that moves no task keeps, when each bundle it leaves is one of the old ones or a chain.
LEMMA BundlesOnly ==
    ASSUME SequenceIInv, sequence'.before = sequence.before, sequence'.status = sequence.status,
           \A b \in sequence'.bundles :
                \/ \E c \in sequence.bundles : c.tasks = b.tasks
                \/ /\ \A i \in 1 .. Len(b.tasks) : b.tasks[i] \in Present
                   /\ \A i \in 1 .. Len(b.tasks)-1 : b.tasks[i] \in sequence.before[b.tasks[i+1]]
    PROVE  KnownTasks' /\ BundlesAreChains' /\ NoCycle(sequence.before)'
<1>1. Present' = Present
  BY DEF Present
<1>2. KnownTasks'
  BY <1>1, Zenon DEF SequenceIInv, KnownTasks
<1>3. BundlesAreChains'
  BY Zenon DEF SequenceIInv, BundlesAreChains
<1> QED
  BY <1>2, <1>3 DEF SequenceIInv, NoCycle

LEMMA CreateBundleHolds ==
    ASSUME SequenceIInv, NEW p \in Publisher, NEW tasks \in Chains, CreateBundle(p, tasks)
    PROVE  SequenceIInv' /\ StaysWritten
<1> DEFINE bundle == [tasks |-> tasks, made |-> sequence.revision, status |-> "prepared"]
           document == [sequence EXCEPT !.bundles = @ \cup {bundle}]
<1>1. tasks \in Seq(SeqTask)
  <2>1. \A t \in SeqTask : <<t>> \in Seq(SeqTask)
    OBVIOUS
  <2>2. \A t, u \in SeqTask : <<t, u>> \in Seq(SeqTask)
    OBVIOUS
  <2>3. (\E t \in SeqTask : tasks = <<t>>) \/ (\E t, u \in SeqTask : tasks = <<t, u>>)
    BY DEF Chains
  <2> QED
    BY <2>1, <2>2, <2>3, Zenon
<1>2. bundle \in Bundle
  BY <1>1 DEF Bundle, BundleStatus, SequenceIInv, SequenceTyped
<1>3. /\ document \in [revision : Nat, status : [SeqTask -> NodeStatus],
                       before : [SeqTask -> SUBSET SeqTask], bundles : SUBSET Bundle, audits : SUBSET Nat]
      /\ document.revision = sequence.revision /\ document.audits = sequence.audits
      /\ document.before = sequence.before /\ document.status = sequence.status
      /\ document.bundles = sequence.bundles \cup {bundle}
  <2> HIDE DEF bundle
  <2> QED
    BY <1>2 DEF SequenceIInv, SequenceTyped
<1>4. Writes(p, document) /\ CanBeBundled(tasks)
  BY DEF CreateBundle
<1>5. bundle.tasks = tasks
  OBVIOUS
<1> HIDE DEF document, bundle
<1>6. /\ SequenceTyped' /\ AuditsFollowChanges' /\ RevisionsAreCounted' /\ AuditingHasChanged'
      /\ NewIsEmpty' /\ DoneIsTraced'
      /\ sequence'.status = document.status /\ sequence'.before = document.before
      /\ sequence'.bundles = document.bundles /\ sequence'.audits = sequence.audits
  BY <1>3, <1>4, WritesOnce
<1>7. /\ \A i \in 1 .. Len(tasks) : tasks[i] \in Present
      /\ \A i \in 1 .. Len(tasks)-1 : tasks[i] \in sequence.before[tasks[i+1]]
  BY <1>1, <1>4 DEF CanBeBundled, Present
<1>8. KnownTasks' /\ BundlesAreChains' /\ NoCycle(sequence.before)'
  BY <1>3, <1>5, <1>6, <1>7, BundlesOnly
<1>9. StaysWritten
  BY <1>3, <1>6 DEF StaysWritten
<1> QED
  BY <1>6, <1>8, <1>9 DEF SequenceIInv

LEMMA MoveBundleHolds ==
    ASSUME SequenceIInv, NEW p \in Publisher, NEW b \in sequence.bundles,
           NEW to \in BundleStatus \ {"prepared"}, MoveBundle(p, b, to)
    PROVE  SequenceIInv' /\ StaysWritten
<1> DEFINE moved == [b EXCEPT !.status = to]
           document == [sequence EXCEPT !.bundles = (@ \ {b}) \cup {moved}]
<1>1. b \in Bundle /\ moved \in Bundle /\ moved.tasks = b.tasks /\ moved.made = b.made
  BY DEF Bundle, SequenceIInv, SequenceTyped
<1>2. /\ document \in [revision : Nat, status : [SeqTask -> NodeStatus],
                       before : [SeqTask -> SUBSET SeqTask], bundles : SUBSET Bundle, audits : SUBSET Nat]
      /\ document.revision = sequence.revision /\ document.audits = sequence.audits
      /\ document.before = sequence.before /\ document.status = sequence.status
      /\ document.bundles = (sequence.bundles \ {b}) \cup {moved}
  <2> HIDE DEF moved
  <2> QED
    BY <1>1 DEF SequenceIInv, SequenceTyped
<1>3. Writes(p, document)
  BY DEF MoveBundle
<1> HIDE DEF document, moved
<1>4. /\ SequenceTyped' /\ AuditsFollowChanges' /\ RevisionsAreCounted' /\ AuditingHasChanged'
      /\ NewIsEmpty' /\ DoneIsTraced'
      /\ sequence'.status = document.status /\ sequence'.before = document.before
      /\ sequence'.bundles = document.bundles /\ sequence'.audits = sequence.audits
  BY <1>2, <1>3, WritesOnce
<1>5. KnownTasks' /\ BundlesAreChains' /\ NoCycle(sequence.before)'
  BY <1>1, <1>2, <1>4, BundlesOnly
<1>6. StaysWritten
  BY <1>1, <1>2, <1>4 DEF StaysWritten
<1> QED
  BY <1>4, <1>5, <1>6 DEF SequenceIInv

\* The second write of a call.
LEMMA AuditsHold ==
    ASSUME SequenceIInv, NEW p \in Publisher, Audits(p)
    PROVE  SequenceIInv' /\ StaysWritten
<1> DEFINE change == publisher[p].change
           entered == sequence.revision = change
           Call == [seen : Nat, phase : {"idle", "auditing"}, change : Nat,
                    told : {"nothing", "done", "stale-revision"}]
           answered == [publisher[p] EXCEPT !.phase = "idle", !.told = Answer(entered)]
<1>1. /\ publisher[p].phase = "auditing" /\ changes' = changes
      /\ sequence' = IF entered THEN [sequence EXCEPT !.revision = @ + 1, !.audits = @ \cup {change}] ELSE sequence
      /\ publisher' = [publisher EXCEPT ![p] = answered]
  BY DEF Audits
<1>2. publisher \in [Publisher -> Call] /\ change \in Nat /\ sequence.revision \in Nat
  BY DEF SequenceIInv, SequenceTyped
<1>3. /\ answered \in Call /\ answered.change = change /\ answered.phase = "idle"
      /\ answered.told = "done" => entered
  BY <1>2 DEF Answer
<1>4. change \in changes /\ change \in 1 .. sequence.revision
  BY <1>1 DEF SequenceIInv, SequenceTyped, AuditingHasChanged
<1> HIDE DEF answered, Call
<1>5. publisher' \in [Publisher -> Call]
  BY <1>1, <1>2, <1>3
<1>6. AuditingHasChanged'
  BY <1>1, <1>2, <1>3 DEF SequenceIInv, AuditingHasChanged
<1>7. CASE ~entered
  <2>1. sequence' = sequence /\ changes' = changes
    BY <1>1, <1>7
  <2>2. SequenceTyped'
    BY <1>5, <2>1 DEF SequenceIInv, SequenceTyped, Call
  <2>3. DoneIsTraced'
    BY <1>1, <1>2, <1>3, <1>7, <2>1 DEF SequenceIInv, DoneIsTraced
  <2>4. /\ AuditsFollowChanges' /\ RevisionsAreCounted' /\ NewIsEmpty' /\ KnownTasks'
        /\ BundlesAreChains' /\ NoCycle(sequence.before)'
    BY <2>1 DEF SequenceIInv, AuditsFollowChanges, RevisionsAreCounted, NewIsEmpty, KnownTasks, BundlesAreChains,
                NoCycle, Present
  <2> QED
    BY <1>6, <2>1, <2>2, <2>3, <2>4 DEF SequenceIInv, StaysWritten
<1>8. CASE entered
  <2>1. /\ sequence'.revision = sequence.revision + 1 /\ sequence'.audits = sequence.audits \cup {change}
        /\ sequence'.before = sequence.before /\ sequence'.bundles = sequence.bundles
        /\ sequence'.status = sequence.status
        /\ sequence' \in [revision : Nat, status : [SeqTask -> NodeStatus],
                          before : [SeqTask -> SUBSET SeqTask], bundles : SUBSET Bundle, audits : SUBSET Nat]
    <3>1. sequence' = [sequence EXCEPT !.revision = @ + 1, !.audits = @ \cup {change}]
      BY <1>1, <1>8
    <3> DEFINE Document == [revision : Nat, status : [SeqTask -> NodeStatus],
                            before : [SeqTask -> SUBSET SeqTask], bundles : SUBSET Bundle, audits : SUBSET Nat]
    <3>2. sequence \in Document /\ sequence.revision + 1 \in Nat /\ sequence.audits \cup {change} \in SUBSET Nat
      BY <1>2 DEF SequenceIInv, SequenceTyped
    <3>3. sequence' = [revision |-> sequence.revision + 1, status |-> sequence.status, before |-> sequence.before,
                       bundles |-> sequence.bundles, audits |-> sequence.audits \cup {change}]
      <4> HIDE DEF change, entered
      <4> QED
        BY <3>1, <3>2
    <3> HIDE DEF change, entered
    <3> QED
      BY <3>2, <3>3
  <2>2. changes' \subseteq 1 .. sequence'.revision
    <3>1. changes \subseteq 1 .. (sequence.revision + 1)
      BY <1>2 DEF SequenceIInv, SequenceTyped
    <3> QED
      BY <1>1, <2>1, <3>1
  <2>3. SequenceTyped'
    BY <1>5, <2>1, <2>2 DEF SequenceTyped, Call
  <2>4. AuditsFollowChanges'
    <3>1. sequence.audits \cup {change} \subseteq 1 .. sequence.revision
      BY <1>2, <1>4 DEF SequenceIInv, AuditsFollowChanges
    <3>2. sequence'.revision - 1 = sequence.revision
      BY <1>2, <2>1
    <3> QED
      BY <2>1, <3>1, <3>2 DEF AuditsFollowChanges
  <2>5. RevisionsAreCounted'
    <3>1. change \notin sequence.audits
      BY <1>2, <1>8 DEF SequenceIInv, AuditsFollowChanges
    <3>2. IsFiniteSet(1 .. sequence.revision) /\ IsFiniteSet(1 .. (sequence.revision - 1))
      <4>1. 1 \in Int /\ sequence.revision \in Int /\ sequence.revision - 1 \in Int
        BY <1>2
      <4> QED
        BY <4>1, FS_Interval
    <3>3. IsFiniteSet(sequence.audits) /\ IsFiniteSet(changes)
      BY <3>2, FS_Subset DEF SequenceIInv, SequenceTyped, AuditsFollowChanges
    <3>4. Cardinality(sequence.audits) \in Nat /\ Cardinality(changes) \in Nat
      BY <3>3, FS_CardinalityType
    <3>5. Cardinality(sequence'.audits) = Cardinality(sequence.audits) + 1
      <4> HIDE DEF change
      <4>1. Cardinality(sequence.audits \cup {change}) = Cardinality(sequence.audits) + 1
        BY <3>1, <3>3, FS_AddElement
      <4> QED
        BY <2>1, <4>1
    <3> QED
      BY <1>1, <2>1, <3>4, <3>5 DEF SequenceIInv, RevisionsAreCounted
  <2>6. NewIsEmpty'
    BY <1>2, <2>1 DEF NewIsEmpty
  <2>7. KnownTasks' /\ BundlesAreChains' /\ NoCycle(sequence.before)'
    BY <2>1, StatusOnly DEF Present
  <2>8. DoneIsTraced'
    BY <1>1, <1>2, <1>3, <1>4, <2>1 DEF SequenceIInv, DoneIsTraced
  <2>9. StaysWritten
    BY <2>1 DEF StaysWritten
  <2> QED
    BY <1>6, <2>3, <2>4, <2>5, <2>6, <2>7, <2>8, <2>9 DEF SequenceIInv
<1> QED
  BY <1>7, <1>8

\* Steps that read the document, or end the process.
LEMMA ReadersHold ==
    ASSUME SequenceIInv,
           \/ \E p \in Publisher : Looks(p) \/ Refused(p)
           \/ Dies
           \/ UNCHANGED taskSequenceVars
    PROVE  SequenceIInv' /\ StaysWritten
<1>1. sequence' = sequence /\ changes' = changes
  BY DEF Looks, Refused, Dies, taskSequenceVars
<1>2. /\ AuditsFollowChanges' /\ RevisionsAreCounted' /\ NewIsEmpty' /\ KnownTasks'
      /\ BundlesAreChains' /\ NoCycle(sequence.before)' /\ StaysWritten
  BY <1>1 DEF SequenceIInv, AuditsFollowChanges, RevisionsAreCounted, NewIsEmpty, KnownTasks, BundlesAreChains,
              NoCycle, Present, StaysWritten
<1> DEFINE Call == [seen : Nat, phase : {"idle", "auditing"}, change : Nat,
                    told : {"nothing", "done", "stale-revision"}]
<1>3. publisher \in [Publisher -> Call] /\ sequence.revision \in Nat
  BY DEF SequenceIInv, SequenceTyped
<1>4. /\ publisher' \in [Publisher -> Call]
      /\ \A p \in Publisher :
            /\ publisher'[p].phase = "auditing" => publisher[p].phase = "auditing" /\ publisher'[p].change = publisher[p].change
            /\ publisher'[p].told = "done" => publisher[p].told = "done" /\ publisher'[p].change = publisher[p].change
  <2>1. CASE \E p \in Publisher : Looks(p)
    BY <1>3, <2>1 DEF Looks
  <2>2. CASE \E p \in Publisher : Refused(p)
    <3>1. PICK p \in Publisher : Refused(p)
      BY <2>2
    <3> DEFINE refused == [publisher[p] EXCEPT !.told = "stale-revision", !.change = 0]
    <3>2. publisher' = [publisher EXCEPT ![p] = refused] /\ publisher[p].phase = "idle"
      BY <1>3, <3>1 DEF Refused
    <3>3. refused \in Call /\ refused.phase = "idle" /\ refused.told = "stale-revision"
      BY <1>3, <3>2
    <3> HIDE DEF refused
    <3> QED
      BY <1>3, <3>2, <3>3
  <2>3. CASE Dies
    BY <2>3 DEF Dies, Resting
  <2>4. CASE UNCHANGED taskSequenceVars
    BY <1>3, <2>4 DEF taskSequenceVars
  <2> QED
    BY <2>1, <2>2, <2>3, <2>4
<1>5. SequenceTyped'
  BY <1>1, <1>4 DEF SequenceIInv, SequenceTyped
<1>6. AuditingHasChanged' /\ DoneIsTraced'
  BY <1>1, <1>4 DEF SequenceIInv, AuditingHasChanged, DoneIsTraced
<1> QED
  BY <1>2, <1>5, <1>6 DEF SequenceIInv

LEMMA SequenceInitHolds == TaskSequenceInit => SequenceIInv
<1> SUFFICES ASSUME TaskSequenceInit PROVE SequenceIInv
  OBVIOUS
<1> USE DEF TaskSequenceInit, NoSequence, Resting
<1>1. SequenceTyped
  BY DEF SequenceTyped, NodeStatus
<1>2. AuditsFollowChanges /\ AuditingHasChanged /\ NewIsEmpty /\ KnownTasks /\ BundlesAreChains /\ DoneIsTraced
  BY DEF AuditsFollowChanges, AuditingHasChanged, NewIsEmpty, KnownTasks, BundlesAreChains, DoneIsTraced, Present
<1>3. RevisionsAreCounted
  BY FS_EmptySet DEF RevisionsAreCounted
<1>4. NoCycle(sequence.before)
  BY DEF NoCycle
<1> QED
  BY <1>1, <1>2, <1>3, <1>4 DEF SequenceIInv

LEMMA SequenceStepHolds ==
    ASSUME SequenceIInv, [TaskSequenceNext]_taskSequenceVars
    PROVE  SequenceIInv' /\ StaysWritten
<1>1. ASSUME NEW p \in Publisher, NEW t \in SeqTask, Publish(p, t)
      PROVE  SequenceIInv' /\ StaysWritten
  BY <1>1, PublishHolds
<1>2. ASSUME NEW p \in Publisher, NEW t \in SeqTask, NEW predecessors \in SUBSET (SeqTask \ {t}),
             NEW successors \in SUBSET (SeqTask \ {t}), Insert(p, t, predecessors, successors)
      PROVE  SequenceIInv' /\ StaysWritten
  BY <1>2, InsertHolds
<1>3. ASSUME NEW p \in Publisher, NEW t \in SeqTask, NEW to \in NodeStatus, Move(p, t, to)
      PROVE  SequenceIInv' /\ StaysWritten
  BY <1>3, MoveHolds
<1>4. ASSUME NEW p \in Publisher, NEW tasks \in Chains, CreateBundle(p, tasks)
      PROVE  SequenceIInv' /\ StaysWritten
  BY <1>4, CreateBundleHolds
<1>5. ASSUME NEW p \in Publisher, NEW b \in sequence.bundles, NEW to \in BundleStatus \ {"prepared"}, MoveBundle(p, b, to)
      PROVE  SequenceIInv' /\ StaysWritten
  BY <1>5, MoveBundleHolds
<1>6. ASSUME NEW p \in Publisher, Audits(p)
      PROVE  SequenceIInv' /\ StaysWritten
  BY <1>6, AuditsHold
<1>7. ASSUME \/ \E p \in Publisher : Looks(p) \/ Refused(p)
             \/ Dies
             \/ UNCHANGED taskSequenceVars
      PROVE  SequenceIInv' /\ StaysWritten
  BY <1>7, ReadersHold
<1> QED
  BY <1>1, <1>2, <1>3, <1>4, <1>5, <1>6, <1>7, Zenon DEF TaskSequenceNext

\* Whatever is inserted, moved, bundled and audited, by however many publishers, the tasks stay
\* a partial order, bundles stay chains of it, every revision is a change or an audit entry, and
\* whoever was told its change is done finds both (agent-task-sequence-store.ts:115).
THEOREM SequenceIsTraced == TaskSequenceSpec => []SequenceInv
<1>1. SequenceIInv /\ [TaskSequenceNext]_taskSequenceVars => SequenceIInv'
  BY SequenceStepHolds
<1>2. SequenceIInv => SequenceInv
  BY DEF SequenceIInv, SequenceInv, ChainsStayChains, SequenceTyped, KnownTasks, RevisionsAreCounted, BundlesAreChains
<1> QED
  BY <1>1, <1>2, SequenceInitHolds, PTL DEF TaskSequenceSpec

\* No write undoes what another has written: audit entries and bundles stay, predecessors are
\* only added, and what is done or cancelled remains so (task-sequence-controllers.ts:204).
THEOREM WrittenStays == TaskSequenceSpec => NothingIsUndone
<1>1. SequenceIInv /\ [TaskSequenceNext]_taskSequenceVars => SequenceIInv'
  BY SequenceStepHolds
<1>2. SequenceIInv /\ [TaskSequenceNext]_taskSequenceVars =>
        [ /\ sequence.audits \subseteq sequence'.audits
          /\ \A b \in sequence.bundles : \E c \in sequence'.bundles : c.tasks = b.tasks /\ c.made = b.made
          /\ \A t \in SeqTask :
              /\ sequence.before[t] \subseteq sequence'.before[t]
              /\ sequence.status[t] \in {"done", "cancelled"} => sequence'.status[t] = sequence.status[t]
        ]_taskSequenceVars
  BY SequenceStepHolds DEF StaysWritten
<1> QED
  BY <1>1, <1>2, SequenceInitHolds, PTL DEF TaskSequenceSpec, NothingIsUndone

(***************************************************************************)
(* The shutdown of an agent.                                               *)
(***************************************************************************)

Doing == {"idle", "reading", "beginning", "running", "closing", "writing"}
AtWork == {k \in Closer : closer[k].doing \notin {"idle", "reading"}}

ShutdownTyped ==
    /\ lifecycleFile \in [Tertiary -> [over : SUBSET Phases, result : Nat, isClosed : BOOLEAN]]
    /\ lifecycle \in [agent : Tertiary \cup {"nobody"}, phase : Nat, result : Nat]
    /\ closer \in [Closer -> [doing : Doing, agent : Tertiary \cup {"nobody"}, over : SUBSET Phases, phase : Nat]]
    /\ hookRuns \in [Tertiary -> [Phases -> Nat]]
    /\ \A k \in Closer : Busy(k) => closer[k].agent \in Tertiary
    /\ AtWork # {} => lifecycle.agent \in Tertiary

\* A call is at the first of its phases that is not over, and closes when all of them are.
CallsGoInOrder ==
    /\ \A k \in Closer : closer[k].doing \in {"beginning", "running"} =>
        /\ closer[k].phase \in Phases \ closer[k].over
        /\ \A q \in Phases : q < closer[k].phase => q \in closer[k].over
    /\ \A k \in Closer : closer[k].doing \in {"closing", "writing"} => closer[k].over = Phases
    /\ \A a \in Tertiary : lifecycleFile[a].isClosed => lifecycleFile[a].over = Phases

\* While the controller is at work for one agent at a time, its state is about the agent of
\* every call, and what a call or a file takes for over has run.
OneCallee == \A j, k \in Closer : Busy(j) /\ Busy(k) => closer[j].agent = closer[k].agent
CallsHaveRun ==
    \A k \in AtWork :
        /\ lifecycle.agent = closer[k].agent
        /\ \A p \in closer[k].over : hookRuns[closer[k].agent][p] > 0
FilesHaveRun == \A a \in Tertiary : \A p \in lifecycleFile[a].over : hookRuns[a][p] > 0
RunsAreInOrder == \A a \in Tertiary, p, q \in Phases : q < p /\ hookRuns[a][p] > 0 => hookRuns[a][q] > 0
ClosedHasRun == \A p \in Phases : lifecycle.phase = ClosedPhase => hookRuns[lifecycle.agent][p] > 0
OneAgentIsServed ==
    OneAgentAtATime => OneCallee /\ CallsHaveRun /\ FilesHaveRun /\ RunsAreInOrder /\ ClosedHasRun

\* Without overlaps a call knows what the file knows, and the result that is kept is the last.
OneCall == \A j, k \in Closer : Busy(j) /\ Busy(k) => j = k
CallKnowsFile ==
    \A k \in AtWork :
        /\ lifecycleFile[closer[k].agent].over \subseteq closer[k].over
        /\ HandoffPhase \in closer[k].over => lifecycle.result = hookRuns[closer[k].agent][HandoffPhase]
FileKeepsResult ==
    \A a \in Tertiary : HandoffPhase \in lifecycleFile[a].over => lifecycleFile[a].result = hookRuns[a][HandoffPhase]
ResultIsKept == overlapped = {} => OneCall /\ CallKnowsFile /\ FileKeepsResult

ShutdownIInv == ShutdownTyped /\ CallsGoInOrder /\ OneAgentIsServed /\ ResultIsKept

-----------------------------------------------------------------------------

LEMMA Smallest ==
    ASSUME NEW S \in SUBSET Nat, S # {}
    PROVE  \E m \in S : \A n \in S : m <= n
<1>1. \E m \in S : \A n \in S : ~ (<<n, m>> \in OpToRel(<, Nat))
  BY WFMin, NatLessThanWellFounded, Zenon
<1>2. PICK m \in S : \A n \in S : ~ (<<n, m>> \in OpToRel(<, Nat))
  BY <1>1
<1>3. \A n \in S : ~(n < m)
  BY <1>2 DEF OpToRel
<1> QED
  BY <1>3

\* The phase a call goes on with is the first one that is not over.
LEMMA FirstRemaining ==
    ASSUME NEW over \in SUBSET Phases, Remaining(over) # {}
    PROVE  /\ FirstOf(Remaining(over)) \in Phases \ over
           /\ \A q \in Phases : q < FirstOf(Remaining(over)) => q \in over
<1> DEFINE S == Remaining(over)
           first == FirstOf(S)
<1>1. LastPhase \in Nat /\ S \in SUBSET Nat /\ S \subseteq Phases
  BY TertiaryShutdownAssumption DEF Remaining, Phases
<1>2. PICK m \in S : \A q \in S : m <= q
  BY <1>1, Smallest
<1>3. first \in S \cup {ClosedPhase} /\ \A q \in S : first <= q
  BY <1>2 DEF FirstOf
<1>4. ClosedPhase \in Nat /\ m < ClosedPhase /\ ~ (ClosedPhase <= m)
  BY <1>1 DEF Phases, ClosedPhase
<1>5. first \in S
  BY <1>2, <1>3, <1>4
<1>6. \A q \in Phases : q < first => q \notin S
  BY <1>1, <1>3, <1>5
<1> QED
  BY <1>5, <1>6 DEF Remaining

\* What a call looks like when it goes on.
LEMMA CallGoesOn ==
    ASSUME ShutdownTyped, NEW k \in Closer, NEW a \in Tertiary, NEW over \in SUBSET Phases, GoesOn(k, a, over)
    PROVE  /\ closer' \in [Closer -> [doing : Doing, agent : Tertiary \cup {"nobody"}, over : SUBSET Phases, phase : Nat]]
           /\ \A j \in Closer : j # k => closer'[j] = closer[j]
           /\ closer'[k].agent = a /\ closer'[k].over = over
           /\ \/ /\ closer'[k].doing = "beginning"
                 /\ closer'[k].phase \in Phases \ over
                 /\ \A q \in Phases : q < closer'[k].phase => q \in over
              \/ closer'[k].doing = "closing" /\ over = Phases
<1> DEFINE first == FirstOf(Remaining(over))
           call == [doing |-> IF Remaining(over) = {} THEN "closing" ELSE "beginning", agent |-> a, over |-> over,
                    phase |-> first]
<1>1. closer' = [closer EXCEPT ![k] = call]
  BY DEF GoesOn
<1>2. closer \in [Closer -> [doing : Doing, agent : Tertiary \cup {"nobody"}, over : SUBSET Phases, phase : Nat]]
  BY DEF ShutdownTyped
<1>3. LastPhase \in Nat /\ ClosedPhase \in Nat /\ Phases \subseteq Nat
  BY TertiaryShutdownAssumption DEF Phases, ClosedPhase
<1>4. CASE Remaining(over) = {}
  <2>1. first = ClosedPhase /\ over = Phases
    BY <1>4 DEF FirstOf, Remaining
  <2>2. call = [doing |-> "closing", agent |-> a, over |-> over, phase |-> ClosedPhase]
    BY <1>4, <2>1
  <2> HIDE DEF call
  <2> QED
    BY <1>1, <1>2, <1>3, <2>1, <2>2 DEF Doing
<1>5. CASE Remaining(over) # {}
  <2>1. first \in Phases \ over /\ \A q \in Phases : q < first => q \in over
    BY <1>5, FirstRemaining
  <2> HIDE DEF first
  <2>2. call = [doing |-> "beginning", agent |-> a, over |-> over, phase |-> first]
    BY <1>5
  <2> HIDE DEF call
  <2> QED
    BY <1>1, <1>2, <1>3, <2>1, <2>2 DEF Doing
<1> QED
  BY <1>4, <1>5

\* What overlaps does not end, and what is alone has one agent.
LEMMA OverlapsGrow ==
    ASSUME NEW a \in Tertiary, NEW others \in SUBSET Closer, Overlaps(a, others)
    PROVE  /\ OneAgentAtATime' => OneAgentAtATime /\ \A j \in others : Busy(j) => closer[j].agent = a
           /\ overlapped' = {} => overlapped = {} /\ \A j \in others : ~Busy(j)
<1>1. overlapped' = overlapped \cup {{a, closer[j].agent} : j \in {i \in others : Busy(i)}}
  BY DEF Overlaps
<1>2. ASSUME NEW j \in others, Busy(j)
      PROVE  {a, closer[j].agent} \in overlapped'
  BY <1>1, <1>2
<1>3. ASSUME OneAgentAtATime', NEW j \in others, Busy(j)
      PROVE  closer[j].agent = a
  <2>1. PICK c \in Tertiary : {a, closer[j].agent} = {c}
    BY <1>2, <1>3 DEF OneAgentAtATime
  <2> QED
    BY <2>1
<1>4. OneAgentAtATime' => OneAgentAtATime
  BY <1>1 DEF OneAgentAtATime
<1> QED
  BY <1>1, <1>2, <1>3, <1>4

LEMMA ShutsDownHolds ==
    ASSUME ShutdownIInv, NEW k \in Closer, NEW a \in Tertiary, ShutsDown(k, a)
    PROVE  ShutdownIInv'
<1> USE DEF ShutdownIInv
<1> DEFINE call == [NoCloser EXCEPT !.doing = "reading", !.agent = a]
<1>1. /\ lifecycleFile' = lifecycleFile /\ lifecycle' = lifecycle /\ hookRuns' = hookRuns
      /\ closer' = [closer EXCEPT ![k] = call] /\ Overlaps(a, Closer \ {k})
  BY DEF ShutsDown
<1>2. call.doing = "reading" /\ call.agent = a /\ call \in [doing : Doing, agent : Tertiary \cup {"nobody"}, over : SUBSET Phases, phase : Nat]
  BY DEF NoCloser, Doing
<1> HIDE DEF call
<1>3. /\ closer' \in [Closer -> [doing : Doing, agent : Tertiary \cup {"nobody"}, over : SUBSET Phases, phase : Nat]]
      /\ closer'[k] = call /\ \A j \in Closer \ {k} : closer'[j] = closer[j]
  BY <1>1, <1>2 DEF ShutdownTyped, Doing
<1>4. AtWork' = AtWork \ {k} /\ k \notin AtWork'
  BY <1>2, <1>3 DEF AtWork
<1>5. ShutdownTyped'
  BY <1>1, <1>2, <1>3, <1>4 DEF ShutdownTyped, Busy
<1>6. CallsGoInOrder'
  BY <1>1, <1>2, <1>3 DEF CallsGoInOrder
<1>7. /\ OneAgentAtATime' => OneAgentAtATime /\ \A j \in Closer \ {k} : Busy(j) => closer[j].agent = a
      /\ overlapped' = {} => overlapped = {} /\ \A j \in Closer \ {k} : ~Busy(j)
  BY <1>1, OverlapsGrow
<1>8. \A j \in AtWork' : j \in AtWork /\ closer'[j] = closer[j]
  BY <1>3, <1>4 DEF AtWork
<1>9. OneAgentIsServed'
  <2> SUFFICES ASSUME OneAgentAtATime'
               PROVE  (OneCallee /\ CallsHaveRun /\ FilesHaveRun /\ RunsAreInOrder /\ ClosedHasRun)'
    BY DEF OneAgentIsServed
  <2>1. OneCallee /\ CallsHaveRun /\ FilesHaveRun /\ RunsAreInOrder /\ ClosedHasRun
    BY <1>7 DEF OneAgentIsServed
  <2>2. \A j \in Closer : Busy(j)' => closer'[j].agent = a
    BY <1>2, <1>3, <1>7 DEF Busy
  <2>3. OneCallee'
    BY <2>2 DEF OneCallee
  <2>4. CallsHaveRun'
    BY <1>1, <1>8, <2>1 DEF CallsHaveRun
  <2>5. FilesHaveRun' /\ RunsAreInOrder' /\ ClosedHasRun'
    BY <1>1, <2>1 DEF FilesHaveRun, RunsAreInOrder, ClosedHasRun
  <2> QED
    BY <2>3, <2>4, <2>5
<1>10. ResultIsKept'
  <2> SUFFICES ASSUME overlapped' = {} PROVE (OneCall /\ CallKnowsFile /\ FileKeepsResult)'
    BY DEF ResultIsKept
  <2>1. OneCall'
    BY <1>3, <1>7 DEF OneCall, Busy
  <2>2. CallKnowsFile' /\ FileKeepsResult'
    BY <1>1, <1>7, <1>8 DEF ResultIsKept, CallKnowsFile, FileKeepsResult
  <2> QED
    BY <2>1, <2>2
<1> QED
  BY <1>5, <1>6, <1>9, <1>10

\* What the controller takes over from the file of an agent.
LEMMA FromFileHasRun ==
    ASSUME ShutdownIInv, NEW a \in Tertiary, NEW phase \in Nat, lifecycle' = FromFile(a, phase), hookRuns' = hookRuns,
           phase = ClosedPhase => lifecycleFile[a].over = Phases
    PROVE  /\ lifecycle' \in [agent : Tertiary \cup {"nobody"}, phase : Nat, result : Nat]
           /\ lifecycle'.agent = a /\ lifecycle'.result = lifecycleFile[a].result
           /\ FilesHaveRun => ClosedHasRun'
<1>1. ClosedPhase \in Nat /\ LastPhase \in Nat
  BY TertiaryShutdownAssumption DEF ClosedPhase
<1>2. lifecycleFile \in [Tertiary -> [over : SUBSET Phases, result : Nat, isClosed : BOOLEAN]]
  BY DEF ShutdownIInv, ShutdownTyped
<1>3. /\ lifecycle' \in [agent : Tertiary \cup {"nobody"}, phase : Nat, result : Nat]
      /\ lifecycle'.agent = a /\ lifecycle'.result = lifecycleFile[a].result
      /\ lifecycle'.phase = ClosedPhase => lifecycleFile[a].isClosed \/ phase = ClosedPhase
  BY <1>1, <1>2 DEF FromFile
<1>4. lifecycle'.phase = ClosedPhase => lifecycleFile[a].over = Phases
  BY <1>3 DEF ShutdownIInv, CallsGoInOrder
<1> QED
  BY <1>3, <1>4 DEF FilesHaveRun, ClosedHasRun

LEMMA ReadsFileHolds ==
    ASSUME ShutdownIInv, NEW k \in Closer, ReadsFile(k)
    PROVE  ShutdownIInv'
<1> USE DEF ShutdownIInv
<1> DEFINE a == closer[k].agent
           file == lifecycleFile[a]
           Calls == [doing : Doing, agent : Tertiary \cup {"nobody"}, over : SUBSET Phases, phase : Nat]
<1>1. /\ closer[k].doing = "reading" /\ lifecycle' = FromFile(a, 1)
      /\ IF file.isClosed THEN closer' = [closer EXCEPT ![k] = NoCloser] ELSE GoesOn(k, a, file.over)
      /\ lifecycleFile' = lifecycleFile /\ hookRuns' = hookRuns /\ overlapped' = overlapped
  BY DEF ReadsFile
<1>2. a \in Tertiary /\ Busy(k) /\ k \notin AtWork
  BY <1>1 DEF ShutdownTyped, Busy, AtWork
<1>3. file \in [over : SUBSET Phases, result : Nat, isClosed : BOOLEAN]
  BY <1>2 DEF ShutdownTyped
<1>4. 1 # ClosedPhase
  BY TertiaryShutdownAssumption DEF ClosedPhase
<1>5. /\ lifecycle' \in [agent : Tertiary \cup {"nobody"}, phase : Nat, result : Nat]
      /\ lifecycle'.agent = a /\ lifecycle'.result = file.result
      /\ FilesHaveRun => ClosedHasRun'
  BY <1>1, <1>2, <1>4, FromFileHasRun
<1>6. /\ closer' \in [Closer -> Calls]
      /\ \A j \in Closer : j # k => closer'[j] = closer[j]
      /\ \/ closer'[k].doing = "idle"
         \/ /\ closer'[k].agent = a /\ closer'[k].over = file.over
            /\ \/ /\ closer'[k].doing = "beginning"
                  /\ closer'[k].phase \in Phases \ file.over
                  /\ \A q \in Phases : q < closer'[k].phase => q \in file.over
               \/ closer'[k].doing = "closing" /\ file.over = Phases
  <2>1. CASE file.isClosed
    <3>1. NoCloser \in Calls /\ NoCloser.doing = "idle"
      BY DEF NoCloser, Doing
    <3>2. closer \in [Closer -> Calls] /\ closer' = [closer EXCEPT ![k] = NoCloser]
      BY <1>1, <2>1 DEF ShutdownTyped
    <3> HIDE DEF Calls
    <3> QED
      BY <3>1, <3>2
  <2>2. CASE ~file.isClosed
    <3>1. GoesOn(k, a, file.over) /\ file.over \in SUBSET Phases
      BY <1>1, <1>3, <2>2
    <3> HIDE DEF a, file
    <3> QED
      BY <1>2, <3>1, CallGoesOn
  <2> QED
    BY <2>1, <2>2
<1> HIDE DEF Calls, file
<1>7. /\ \A j \in AtWork' \ {k} : j \in AtWork /\ closer'[j] = closer[j]
      /\ \A j \in Closer : Busy(j)' => Busy(j) /\ closer'[j].agent = closer[j].agent
  BY <1>1, <1>2, <1>6 DEF AtWork, Busy
<1>8. ShutdownTyped'
  <2>1. \A j \in Closer : Busy(j)' => closer'[j].agent \in Tertiary
    BY <1>7 DEF ShutdownTyped
  <2> QED
    BY <1>1, <1>2, <1>5, <1>6, <2>1 DEF ShutdownTyped, Calls, Busy
<1>9. CallsGoInOrder'
  BY <1>1, <1>6 DEF CallsGoInOrder
<1>10. OneAgentIsServed'
  <2> SUFFICES ASSUME OneAgentAtATime'
               PROVE  (OneCallee /\ CallsHaveRun /\ FilesHaveRun /\ RunsAreInOrder /\ ClosedHasRun)'
    BY DEF OneAgentIsServed
  <2>1. OneCallee /\ CallsHaveRun /\ FilesHaveRun /\ RunsAreInOrder
    BY <1>1 DEF OneAgentIsServed, OneAgentAtATime
  <2>2. OneCallee'
    BY <1>7, <2>1 DEF OneCallee
  <2>3. CallsHaveRun'
    <3>1. ASSUME NEW j \in AtWork', j # k
          PROVE  lifecycle'.agent = closer'[j].agent /\ \A p \in closer'[j].over : hookRuns'[closer'[j].agent][p] > 0
      BY <1>1, <1>2, <1>5, <1>7, <2>1, <3>1 DEF CallsHaveRun, OneCallee, AtWork, Busy
    <3>2. ASSUME k \in AtWork'
          PROVE  lifecycle'.agent = closer'[k].agent /\ \A p \in closer'[k].over : hookRuns'[closer'[k].agent][p] > 0
      BY <1>1, <1>2, <1>5, <1>6, <2>1, <3>2 DEF FilesHaveRun, AtWork, file
    <3> QED
      BY <3>1, <3>2 DEF CallsHaveRun
  <2>4. FilesHaveRun' /\ RunsAreInOrder' /\ ClosedHasRun'
    BY <1>1, <1>5, <2>1 DEF FilesHaveRun, RunsAreInOrder
  <2> QED
    BY <2>2, <2>3, <2>4
<1>11. ResultIsKept'
  <2> SUFFICES ASSUME overlapped' = {} PROVE (OneCall /\ CallKnowsFile /\ FileKeepsResult)'
    BY DEF ResultIsKept
  <2>1. OneCall /\ FileKeepsResult
    BY <1>1 DEF ResultIsKept
  <2>2. OneCall'
    BY <1>7, <2>1 DEF OneCall
  <2>3. CallKnowsFile'
    <3>1. \A j \in AtWork' : j = k
      BY <1>2, <1>7, <2>1 DEF OneCall, AtWork, Busy
    <3> QED
      BY <1>1, <1>2, <1>5, <1>6, <2>1, <3>1 DEF CallKnowsFile, FileKeepsResult, AtWork, file
  <2> QED
    BY <1>1, <2>1, <2>2, <2>3 DEF FileKeepsResult
<1> QED
  BY <1>8, <1>9, <1>10, <1>11

LEMMA ResumesHolds ==
    ASSUME ShutdownIInv, NEW a \in Tertiary, Resumes(a)
    PROVE  ShutdownIInv'
<1> USE DEF ShutdownIInv
<1> DEFINE first == FirstOf(Remaining(lifecycleFile[a].over))
<1>1. /\ lifecycle' = FromFile(a, first) /\ Overlaps(a, Closer)
      /\ lifecycleFile' = lifecycleFile /\ hookRuns' = hookRuns /\ closer' = closer
  BY DEF Resumes
<1>2. lifecycleFile[a].over \in SUBSET Phases
  BY DEF ShutdownTyped
<1>3. first \in Nat /\ (first = ClosedPhase => lifecycleFile[a].over = Phases)
  <2>0. LastPhase \in Nat
    BY TertiaryShutdownAssumption
  <2>1. CASE Remaining(lifecycleFile[a].over) = {}
    <3>1. first = ClosedPhase
      BY <2>1 DEF FirstOf
    <3> QED
      BY <1>2, <2>0, <2>1, <3>1 DEF Remaining, ClosedPhase
  <2>2. CASE Remaining(lifecycleFile[a].over) # {}
    <3>1. first \in Phases
      BY <1>2, <2>2, FirstRemaining
    <3> QED
      BY <2>0, <3>1 DEF Phases, ClosedPhase
  <2> QED
    BY <2>1, <2>2
<1> HIDE DEF first
<1>4. /\ lifecycle' \in [agent : Tertiary \cup {"nobody"}, phase : Nat, result : Nat]
      /\ lifecycle'.agent = a
      /\ FilesHaveRun => ClosedHasRun'
  BY <1>1, <1>3, FromFileHasRun
<1>5. /\ OneAgentAtATime' => OneAgentAtATime /\ \A j \in Closer : Busy(j) => closer[j].agent = a
      /\ overlapped' = {} => overlapped = {} /\ \A j \in Closer : ~Busy(j)
  BY <1>1, OverlapsGrow
<1>6. ShutdownTyped' /\ CallsGoInOrder'
  BY <1>1, <1>4 DEF ShutdownTyped, CallsGoInOrder, Busy, AtWork
<1>7. OneAgentIsServed'
  BY <1>1, <1>4, <1>5 DEF OneAgentIsServed, OneCallee, CallsHaveRun, FilesHaveRun, RunsAreInOrder, Busy, AtWork
<1>8. ResultIsKept'
  BY <1>1, <1>5 DEF ResultIsKept, OneCall, CallKnowsFile, FileKeepsResult, Busy, AtWork
<1> QED
  BY <1>6, <1>7, <1>8

LEMMA PhaseBeginsHolds ==
    ASSUME ShutdownIInv, NEW k \in Closer, PhaseBegins(k)
    PROVE  ShutdownIInv'
<1> USE DEF ShutdownIInv
<1> DEFINE a == lifecycle.agent
           File == [over : SUBSET Phases, result : Nat, isClosed : BOOLEAN]
           file == [over |-> closer[k].over, result |-> lifecycle.result, isClosed |-> FALSE]
           Calls == [doing : Doing, agent : Tertiary \cup {"nobody"}, over : SUBSET Phases, phase : Nat]
<1>1. /\ closer[k].doing = "beginning" /\ lifecycle' = [lifecycle EXCEPT !.phase = closer[k].phase]
      /\ lifecycleFile' = [lifecycleFile EXCEPT ![a] = file]
      /\ closer' = [closer EXCEPT ![k].doing = "running"]
      /\ hookRuns' = hookRuns /\ overlapped' = overlapped
  BY DEF PhaseBegins
<1>2. a \in Tertiary /\ k \in AtWork /\ closer[k] \in Calls /\ closer \in [Closer -> Calls]
  BY <1>1 DEF ShutdownTyped, AtWork
<1>3. /\ lifecycle' \in [agent : Tertiary \cup {"nobody"}, phase : Nat, result : Nat]
      /\ lifecycle'.agent = a /\ lifecycle'.result = lifecycle.result /\ lifecycle'.phase = closer[k].phase
  BY <1>1, <1>2 DEF ShutdownTyped
<1>4. closer[k].phase \in Phases \ closer[k].over /\ closer[k].phase # ClosedPhase
  BY <1>1, TertiaryShutdownAssumption DEF CallsGoInOrder, Phases, ClosedPhase
<1>5. file \in File /\ file.over = closer[k].over /\ file.result = lifecycle.result /\ file.isClosed = FALSE
  BY <1>2 DEF ShutdownTyped
<1>6. /\ closer' \in [Closer -> Calls] /\ \A j \in Closer \ {k} : closer'[j] = closer[j]
      /\ closer'[k].doing = "running" /\ closer'[k].agent = closer[k].agent /\ closer'[k].over = closer[k].over
      /\ closer'[k].phase = closer[k].phase
  BY <1>1, <1>2 DEF Doing
<1>7. /\ AtWork' = AtWork /\ \A j \in Closer : Busy(j)' <=> Busy(j)
      /\ \A j \in Closer : closer'[j].agent = closer[j].agent /\ closer'[j].over = closer[j].over
  BY <1>1, <1>6 DEF AtWork, Busy
<1> HIDE DEF file, File, Calls, a
<1>8. lifecycleFile' \in [Tertiary -> File] /\ lifecycleFile'[a] = file
      /\ \A c \in Tertiary \ {a} : lifecycleFile'[c] = lifecycleFile[c]
  BY <1>1, <1>2, <1>5 DEF ShutdownTyped, File
<1>9. ShutdownTyped'
  BY <1>1, <1>2, <1>3, <1>6, <1>7, <1>8 DEF ShutdownTyped, File, Calls
<1>10. CallsGoInOrder'
  BY <1>1, <1>5, <1>6, <1>8 DEF CallsGoInOrder
<1>11. OneAgentIsServed'
  <2> SUFFICES ASSUME OneAgentAtATime'
               PROVE  (OneCallee /\ CallsHaveRun /\ FilesHaveRun /\ RunsAreInOrder /\ ClosedHasRun)'
    BY DEF OneAgentIsServed
  <2>1. OneCallee /\ CallsHaveRun /\ FilesHaveRun /\ RunsAreInOrder
    BY <1>1 DEF OneAgentIsServed, OneAgentAtATime
  <2>2. closer[k].agent = a /\ \A p \in closer[k].over : hookRuns[a][p] > 0
    BY <1>2, <2>1 DEF CallsHaveRun, a
  <2>3. OneCallee' /\ CallsHaveRun'
    BY <1>1, <1>3, <1>7, <2>1 DEF OneCallee, CallsHaveRun, a, Busy, AtWork
  <2>4. FilesHaveRun'
    BY <1>1, <1>5, <1>8, <2>1, <2>2 DEF FilesHaveRun
  <2>5. RunsAreInOrder' /\ ClosedHasRun'
    BY <1>1, <1>3, <1>4, <2>1 DEF RunsAreInOrder, ClosedHasRun
  <2> QED
    BY <2>3, <2>4, <2>5
<1>12. ResultIsKept'
  <2> SUFFICES ASSUME overlapped' = {} PROVE (OneCall /\ CallKnowsFile /\ FileKeepsResult)'
    BY DEF ResultIsKept
  <2>1. OneCall /\ CallKnowsFile /\ FileKeepsResult
    BY <1>1 DEF ResultIsKept
  <2>2. closer[k].agent = a
    BY <1>1, <1>2 DEF OneAgentIsServed, OneAgentAtATime, CallsHaveRun, a
  <2>3. OneCall'
    BY <1>7, <2>1 DEF OneCall
  <2>4. \A j \in AtWork' : j = k
    BY <1>2, <1>7, <2>1 DEF OneCall, Busy, AtWork
  <2>5. CallKnowsFile'
    BY <1>1, <1>2, <1>3, <1>5, <1>6, <1>8, <2>1, <2>2, <2>4 DEF CallKnowsFile
  <2>6. FileKeepsResult'
    BY <1>1, <1>2, <1>5, <1>8, <2>1, <2>2 DEF CallKnowsFile, FileKeepsResult
  <2> QED
    BY <2>3, <2>5, <2>6
<1> QED
  BY <1>9, <1>10, <1>11, <1>12

LEMMA HookEndsHolds ==
    ASSUME ShutdownIInv, NEW k \in Closer, HookEnds(k)
    PROVE  ShutdownIInv'
<1> USE DEF ShutdownIInv
<1> DEFINE a == closer[k].agent
           p == closer[k].phase
           over == closer[k].over \cup {p}
           Calls == [doing : Doing, agent : Tertiary \cup {"nobody"}, over : SUBSET Phases, phase : Nat]
<1>1. /\ closer[k].doing = "running" /\ hookRuns' = [hookRuns EXCEPT ![a][p] = @ + 1]
      /\ lifecycle' = IF p = HandoffPhase THEN [lifecycle EXCEPT !.result = hookRuns[a][p] + 1] ELSE lifecycle
      /\ GoesOn(k, a, over) /\ lifecycleFile' = lifecycleFile /\ overlapped' = overlapped
  BY DEF HookEnds
<1>2. /\ a \in Tertiary /\ k \in AtWork /\ closer[k] \in Calls
      /\ p \in Phases \ closer[k].over /\ \A q \in Phases : q < p => q \in closer[k].over
  BY <1>1 DEF ShutdownTyped, CallsGoInOrder, AtWork, Busy
<1>3. over \in SUBSET Phases
  BY <1>2
<1> HIDE DEF over, a
<1>4. /\ closer' \in [Closer -> Calls]
      /\ \A j \in Closer : j # k => closer'[j] = closer[j]
      /\ closer'[k].agent = a /\ closer'[k].over = over
      /\ \/ /\ closer'[k].doing = "beginning"
            /\ closer'[k].phase \in Phases \ over
            /\ \A q \in Phases : q < closer'[k].phase => q \in over
         \/ closer'[k].doing = "closing" /\ over = Phases
  BY <1>1, <1>2, <1>3, CallGoesOn
<1>5. /\ hookRuns' \in [Tertiary -> [Phases -> Nat]]
      /\ \A c \in Tertiary, q \in Phases : hookRuns[c][q] > 0 => hookRuns'[c][q] > 0
      /\ hookRuns'[a][p] = hookRuns[a][p] + 1 /\ hookRuns'[a][p] > 0
      /\ \A c \in Tertiary, q \in Phases : c # a \/ q # p => hookRuns'[c][q] = hookRuns[c][q]
  <2> HIDE DEF p
  <2>1. p \in Phases
    BY <1>2
  <2> QED
    BY <1>1, <1>2, <2>1 DEF ShutdownTyped
<1>6. /\ lifecycle' \in [agent : Tertiary \cup {"nobody"}, phase : Nat, result : Nat]
      /\ lifecycle'.agent = lifecycle.agent /\ lifecycle'.phase = lifecycle.phase
      /\ lifecycle'.result = IF p = HandoffPhase THEN hookRuns'[a][p] ELSE lifecycle.result
  <2> HIDE DEF p
  <2>1. hookRuns[a][p] + 1 \in Nat
    BY <1>2 DEF ShutdownTyped
  <2> QED
    BY <1>1, <1>5, <2>1 DEF ShutdownTyped
<1>7. /\ AtWork' = AtWork /\ \A j \in Closer : Busy(j)' <=> Busy(j)
      /\ \A j \in Closer : closer'[j].agent = closer[j].agent
  BY <1>1, <1>4 DEF AtWork, Busy, a
<1> HIDE DEF Calls, p
<1>8. ShutdownTyped'
  BY <1>1, <1>2, <1>4, <1>5, <1>6, <1>7 DEF ShutdownTyped, Calls
<1>9. CallsGoInOrder'
  BY <1>1, <1>4 DEF CallsGoInOrder
<1>10. OneAgentIsServed'
  <2> SUFFICES ASSUME OneAgentAtATime'
               PROVE  (OneCallee /\ CallsHaveRun /\ FilesHaveRun /\ RunsAreInOrder /\ ClosedHasRun)'
    BY DEF OneAgentIsServed
  <2>1. OneCallee /\ CallsHaveRun /\ FilesHaveRun /\ RunsAreInOrder /\ ClosedHasRun
    BY <1>1 DEF OneAgentIsServed, OneAgentAtATime
  <2>2. lifecycle.agent = a /\ \A q \in closer[k].over : hookRuns[a][q] > 0
    BY <1>2, <2>1 DEF CallsHaveRun, a
  <2>3. OneCallee'
    BY <1>7, <2>1 DEF OneCallee
  <2>4. CallsHaveRun'
    <3>1. ASSUME NEW j \in AtWork, j # k
          PROVE  lifecycle'.agent = closer'[j].agent /\ \A q \in closer'[j].over : hookRuns'[closer'[j].agent][q] > 0
      <4>1. closer[j] \in Calls /\ closer[j].agent \in Tertiary
        BY DEF AtWork, ShutdownTyped, Calls, Busy
      <4> QED
        BY <1>4, <1>5, <1>6, <2>1, <3>1, <4>1 DEF CallsHaveRun, AtWork, Calls
    <3>2. \A q \in over : hookRuns'[a][q] > 0
      BY <1>2, <1>3, <1>5, <2>2 DEF over
    <3> QED
      BY <1>4, <1>6, <1>7, <2>2, <3>1, <3>2 DEF CallsHaveRun
  <2>5. FilesHaveRun'
    BY <1>1, <1>5, <2>1 DEF FilesHaveRun, ShutdownTyped
  <2>6. RunsAreInOrder'
    <3> SUFFICES ASSUME NEW c \in Tertiary, NEW r \in Phases, NEW q \in Phases, q < r, hookRuns'[c][r] > 0
                 PROVE  hookRuns'[c][q] > 0
      BY DEF RunsAreInOrder
    <3>1. CASE c = a /\ r = p
      BY <1>2, <1>5, <2>2, <3>1
    <3>2. CASE c # a \/ r # p
      BY <1>5, <2>1, <3>2 DEF RunsAreInOrder
    <3> QED
      BY <3>1, <3>2
  <2>7. ClosedHasRun'
    BY <1>2, <1>5, <1>6, <2>1, <2>2 DEF ClosedHasRun
  <2> QED
    BY <2>3, <2>4, <2>5, <2>6, <2>7
<1>11. ResultIsKept'
  <2> SUFFICES ASSUME overlapped' = {} PROVE (OneCall /\ CallKnowsFile /\ FileKeepsResult)'
    BY DEF ResultIsKept
  <2>1. OneCall /\ CallKnowsFile /\ FileKeepsResult
    BY <1>1 DEF ResultIsKept
  <2>2. OneCall'
    BY <1>7, <2>1 DEF OneCall
  <2>3. \A j \in AtWork' : j = k
    BY <1>2, <1>7, <2>1 DEF OneCall, Busy, AtWork
  <2>4. HandoffPhase \in Phases
    BY TertiaryShutdownAssumption DEF Phases
  <2>5. /\ lifecycleFile[a].over \subseteq closer[k].over
        /\ HandoffPhase \in closer[k].over => lifecycle.result = hookRuns[a][HandoffPhase]
    BY <1>2, <2>1 DEF CallKnowsFile, a
  <2>6. lifecycleFile[a].over \subseteq over /\ (HandoffPhase \in over => lifecycle'.result = hookRuns'[a][HandoffPhase])
    <3>1. CASE HandoffPhase = p
      BY <1>6, <2>5, <3>1 DEF over
    <3>2. CASE HandoffPhase # p
      BY <1>2, <1>5, <1>6, <2>4, <2>5, <3>2 DEF over
    <3> QED
      BY <3>1, <3>2
  <2>7. CallKnowsFile'
    BY <1>1, <1>4, <2>3, <2>6 DEF CallKnowsFile
  <2>8. FileKeepsResult'
    <3> SUFFICES ASSUME NEW c \in Tertiary, HandoffPhase \in lifecycleFile[c].over
                 PROVE  lifecycleFile[c].result = hookRuns'[c][HandoffPhase]
      BY <1>1 DEF FileKeepsResult
    <3>1. c # a \/ HandoffPhase # p
      BY <1>2, <2>5
    <3> QED
      BY <1>5, <2>1, <2>4, <3>1 DEF FileKeepsResult
  <2> QED
    BY <2>2, <2>7, <2>8
<1> QED
  BY <1>8, <1>9, <1>10, <1>11

LEMMA HookFailsHolds ==
    ASSUME ShutdownIInv, NEW k \in Closer, HookFails(k)
    PROVE  ShutdownIInv'
<1> USE DEF ShutdownIInv
<1> DEFINE Calls == [doing : Doing, agent : Tertiary \cup {"nobody"}, over : SUBSET Phases, phase : Nat]
<1>1. /\ closer' = [closer EXCEPT ![k] = NoCloser]
      /\ lifecycleFile' = lifecycleFile /\ lifecycle' = lifecycle /\ hookRuns' = hookRuns /\ overlapped' = overlapped
  BY DEF HookFails, AfterFailure
<1>2. closer \in [Closer -> Calls] /\ NoCloser \in Calls /\ NoCloser.doing = "idle"
  BY DEF ShutdownTyped, NoCloser, Doing
<1> HIDE DEF Calls
<1>3. /\ closer' \in [Closer -> Calls] /\ closer'[k].doing = "idle"
      /\ \A j \in Closer \ {k} : closer'[j] = closer[j]
  BY <1>1, <1>2
<1>4. /\ AtWork' = AtWork \ {k} /\ \A j \in AtWork' : closer'[j] = closer[j]
      /\ \A j \in Closer : Busy(j)' => Busy(j) /\ closer'[j] = closer[j]
  BY <1>3 DEF AtWork, Busy
<1>5. ShutdownTyped'
  BY <1>1, <1>3, <1>4 DEF ShutdownTyped, Calls
<1>6. CallsGoInOrder'
  BY <1>1, <1>3 DEF CallsGoInOrder
<1>7. OneAgentIsServed'
  BY <1>1, <1>4 DEF OneAgentIsServed, OneAgentAtATime, OneCallee, CallsHaveRun, FilesHaveRun, RunsAreInOrder, ClosedHasRun
<1>8. ResultIsKept'
  BY <1>1, <1>4 DEF ResultIsKept, OneCall, CallKnowsFile, FileKeepsResult
<1> QED
  BY <1>5, <1>6, <1>7, <1>8

LEMMA ShutsHolds ==
    ASSUME ShutdownIInv, NEW k \in Closer, Shuts(k)
    PROVE  ShutdownIInv'
<1> USE DEF ShutdownIInv
<1> DEFINE Calls == [doing : Doing, agent : Tertiary \cup {"nobody"}, over : SUBSET Phases, phase : Nat]
<1>1. /\ closer[k].doing = "closing" /\ closer' = [closer EXCEPT ![k].doing = "writing"]
      /\ lifecycle' = [lifecycle EXCEPT !.phase = ClosedPhase]
      /\ lifecycleFile' = lifecycleFile /\ hookRuns' = hookRuns /\ overlapped' = overlapped
  BY DEF Shuts
<1>2. closer \in [Closer -> Calls] /\ k \in AtWork /\ closer[k].over = Phases /\ ClosedPhase \in Nat
  BY <1>1, TertiaryShutdownAssumption DEF ShutdownTyped, AtWork, CallsGoInOrder, ClosedPhase
<1>3. /\ closer' \in [Closer -> Calls] /\ closer'[k].doing = "writing" /\ closer'[k].over = closer[k].over
      /\ \A j \in Closer \ {k} : closer'[j] = closer[j]
      /\ \A j \in Closer : closer'[j].agent = closer[j].agent /\ closer'[j].over = closer[j].over
  BY <1>1, <1>2 DEF Doing
<1>4. /\ lifecycle' \in [agent : Tertiary \cup {"nobody"}, phase : Nat, result : Nat]
      /\ lifecycle'.agent = lifecycle.agent /\ lifecycle'.result = lifecycle.result
  BY <1>1, <1>2 DEF ShutdownTyped
<1> HIDE DEF Calls
<1>5. AtWork' = AtWork /\ \A j \in Closer : Busy(j)' <=> Busy(j)
  BY <1>1, <1>3 DEF AtWork, Busy
<1>6. ShutdownTyped'
  BY <1>1, <1>3, <1>4, <1>5 DEF ShutdownTyped, Calls
<1>7. CallsGoInOrder'
  BY <1>1, <1>2, <1>3 DEF CallsGoInOrder
<1>8. OneAgentIsServed'
  <2> SUFFICES ASSUME OneAgentAtATime'
               PROVE  (OneCallee /\ CallsHaveRun /\ FilesHaveRun /\ RunsAreInOrder /\ ClosedHasRun)'
    BY DEF OneAgentIsServed
  <2>1. OneCallee /\ CallsHaveRun /\ FilesHaveRun /\ RunsAreInOrder
    BY <1>1 DEF OneAgentIsServed, OneAgentAtATime
  <2>2. ClosedHasRun'
    BY <1>1, <1>2, <1>4, <2>1 DEF CallsHaveRun, ClosedHasRun
  <2> QED
    BY <1>1, <1>3, <1>4, <1>5, <2>1, <2>2 DEF OneCallee, CallsHaveRun, FilesHaveRun, RunsAreInOrder
<1>9. ResultIsKept'
  BY <1>1, <1>3, <1>4, <1>5 DEF ResultIsKept, OneCall, CallKnowsFile, FileKeepsResult
<1> QED
  BY <1>6, <1>7, <1>8, <1>9

LEMMA WritesClosedHolds ==
    ASSUME ShutdownIInv, NEW k \in Closer, WritesClosed(k)
    PROVE  ShutdownIInv'
<1> USE DEF ShutdownIInv
<1> DEFINE a == closer[k].agent
           File == [over : SUBSET Phases, result : Nat, isClosed : BOOLEAN]
           file == [over |-> Phases, result |-> lifecycle.result, isClosed |-> TRUE]
           Calls == [doing : Doing, agent : Tertiary \cup {"nobody"}, over : SUBSET Phases, phase : Nat]
<1>1. /\ closer[k].doing = "writing" /\ closer' = [closer EXCEPT ![k] = NoCloser]
      /\ lifecycleFile' = [lifecycleFile EXCEPT ![a] = file]
      /\ lifecycle' = lifecycle /\ hookRuns' = hookRuns /\ overlapped' = overlapped
  BY DEF WritesClosed
<1>2. /\ closer \in [Closer -> Calls] /\ NoCloser \in Calls /\ NoCloser.doing = "idle"
      /\ k \in AtWork /\ Busy(k) /\ a \in Tertiary /\ closer[k].over = Phases
  BY <1>1 DEF ShutdownTyped, NoCloser, Doing, AtWork, Busy, CallsGoInOrder
<1>3. file \in File /\ file.over = Phases /\ file.result = lifecycle.result
  BY DEF ShutdownTyped
<1> HIDE DEF Calls, file, File
<1>4. /\ closer' \in [Closer -> Calls] /\ closer'[k].doing = "idle"
      /\ \A j \in Closer \ {k} : closer'[j] = closer[j]
  BY <1>1, <1>2
<1>5. /\ AtWork' = AtWork \ {k} /\ \A j \in AtWork' : closer'[j] = closer[j]
      /\ \A j \in Closer : Busy(j)' => Busy(j) /\ closer'[j] = closer[j] /\ j # k
  BY <1>4 DEF AtWork, Busy
<1>6. /\ lifecycleFile' \in [Tertiary -> File] /\ lifecycleFile'[a] = file
      /\ \A c \in Tertiary \ {a} : lifecycleFile'[c] = lifecycleFile[c]
  BY <1>1, <1>2, <1>3 DEF ShutdownTyped, File
<1>7. ShutdownTyped'
  BY <1>1, <1>4, <1>5, <1>6 DEF ShutdownTyped, Calls, File
<1>8. CallsGoInOrder'
  BY <1>1, <1>3, <1>4, <1>6 DEF CallsGoInOrder
<1> HIDE DEF a
<1>9. OneAgentIsServed'
  <2> SUFFICES ASSUME OneAgentAtATime'
               PROVE  (OneCallee /\ CallsHaveRun /\ FilesHaveRun /\ RunsAreInOrder /\ ClosedHasRun)'
    BY DEF OneAgentIsServed
  <2>1. OneCallee /\ CallsHaveRun /\ FilesHaveRun /\ RunsAreInOrder /\ ClosedHasRun
    BY <1>1 DEF OneAgentIsServed, OneAgentAtATime
  <2>2. \A p \in Phases : hookRuns[a][p] > 0
    BY <1>2, <2>1 DEF CallsHaveRun, a
  <2>3. FilesHaveRun'
    BY <1>1, <1>3, <1>6, <2>1, <2>2 DEF FilesHaveRun
  <2> QED
    BY <1>1, <1>5, <2>1, <2>3 DEF OneCallee, CallsHaveRun, RunsAreInOrder, ClosedHasRun
<1>10. ResultIsKept'
  <2> SUFFICES ASSUME overlapped' = {} PROVE (OneCall /\ CallKnowsFile /\ FileKeepsResult)'
    BY DEF ResultIsKept
  <2>1. OneCall /\ CallKnowsFile /\ FileKeepsResult
    BY <1>1 DEF ResultIsKept
  <2>2. AtWork' = {} /\ \A j \in Closer : ~Busy(j)'
    BY <1>2, <1>5, <2>1 DEF OneCall, AtWork, Busy
  <2>3. lifecycle.result = hookRuns[a][HandoffPhase]
    BY <1>2, <2>1, TertiaryShutdownAssumption DEF CallKnowsFile, Phases, a
  <2>4. FileKeepsResult'
    BY <1>1, <1>3, <1>6, <2>1, <2>3 DEF FileKeepsResult
  <2> QED
    BY <2>2, <2>4 DEF OneCall, CallKnowsFile
<1> QED
  BY <1>7, <1>8, <1>9, <1>10

LEMMA ShutdownEndsHolds ==
    ASSUME ShutdownIInv, ProcessEnds \/ UNCHANGED shutdownVars
    PROVE  ShutdownIInv'
<1> USE DEF ShutdownIInv
<1>1. CASE UNCHANGED shutdownVars
  BY <1>1 DEF shutdownVars, ShutdownTyped, CallsGoInOrder, OneAgentIsServed, OneAgentAtATime, OneCallee, CallsHaveRun,
              FilesHaveRun, RunsAreInOrder, ClosedHasRun, ResultIsKept, OneCall, CallKnowsFile, FileKeepsResult,
              Busy, AtWork
<1>2. CASE ProcessEnds
  <2>1. PICK torn : lifecycleFile' = [a \in Tertiary |-> IF a \in torn THEN NoFile ELSE lifecycleFile[a]]
    BY <1>2 DEF ProcessEnds
  <2>2. lifecycle' = Off /\ closer' = [k \in Closer |-> NoCloser] /\ hookRuns' = hookRuns /\ overlapped' = overlapped
    BY <1>2 DEF ProcessEnds
  <2>3. \A k \in Closer : ~Busy(k)' /\ closer'[k] = NoCloser
    BY <2>2 DEF Busy, NoCloser
  <2>4. AtWork' = {}
    BY <2>2 DEF AtWork, NoCloser
  <2>5. \A a \in Tertiary : lifecycleFile'[a] = NoFile \/ lifecycleFile'[a] = lifecycleFile[a]
    BY <2>1
  <2>6. ShutdownTyped'
    <3>1. NoFile \in [over : SUBSET Phases, result : Nat, isClosed : BOOLEAN]
      BY DEF NoFile
    <3>2. lifecycleFile' \in [Tertiary -> [over : SUBSET Phases, result : Nat, isClosed : BOOLEAN]]
      BY <2>1, <3>1 DEF ShutdownTyped
    <3>3. lifecycle' \in [agent : Tertiary \cup {"nobody"}, phase : Nat, result : Nat]
      BY <2>2 DEF Off
    <3>4. closer' \in [Closer -> [doing : Doing, agent : Tertiary \cup {"nobody"}, over : SUBSET Phases, phase : Nat]]
      BY <2>2 DEF NoCloser, Doing
    <3> QED
      BY <2>2, <2>3, <2>4, <3>2, <3>3, <3>4 DEF ShutdownTyped
  <2>7. CallsGoInOrder'
    BY <2>3, <2>5 DEF CallsGoInOrder, NoCloser, NoFile
  <2>8. ClosedHasRun'
    BY <2>2, TertiaryShutdownAssumption DEF ClosedHasRun, Off, ClosedPhase
  <2>9. OneAgentIsServed'
    BY <2>2, <2>3, <2>4, <2>5, <2>8 DEF OneAgentIsServed, OneAgentAtATime, OneCallee, CallsHaveRun, FilesHaveRun,
       RunsAreInOrder, NoFile
  <2>10. ResultIsKept'
    BY <2>2, <2>3, <2>4, <2>5 DEF ResultIsKept, OneCall, CallKnowsFile, FileKeepsResult, NoFile
  <2> QED
    BY <2>6, <2>7, <2>9, <2>10
<1> QED
  BY <1>1, <1>2

LEMMA ShutdownInitHolds == ShutdownInit => ShutdownIInv
<1> SUFFICES ASSUME ShutdownInit PROVE ShutdownIInv
  OBVIOUS
<1> USE DEF ShutdownInit, NoFile, Off, NoCloser
<1>1. AtWork = {} /\ \A k \in Closer : ~Busy(k)
  BY DEF AtWork, Busy
<1>2. ShutdownTyped
  <2>1. lifecycleFile \in [Tertiary -> [over : SUBSET Phases, result : Nat, isClosed : BOOLEAN]]
    OBVIOUS
  <2>2. closer \in [Closer -> [doing : Doing, agent : Tertiary \cup {"nobody"}, over : SUBSET Phases, phase : Nat]]
    BY DEF Doing
  <2> QED
    BY <1>1, <2>1, <2>2 DEF ShutdownTyped
<1>3. CallsGoInOrder
  BY DEF CallsGoInOrder
<1>4. OneCallee /\ CallsHaveRun /\ FilesHaveRun /\ RunsAreInOrder
  BY <1>1 DEF OneCallee, CallsHaveRun, FilesHaveRun, RunsAreInOrder
<1>5. ClosedHasRun
  BY TertiaryShutdownAssumption DEF ClosedHasRun, ClosedPhase
<1>6. ResultIsKept
  BY <1>1 DEF ResultIsKept, OneCall, CallKnowsFile, FileKeepsResult
<1> QED
  BY <1>2, <1>3, <1>4, <1>5, <1>6 DEF ShutdownIInv, OneAgentIsServed

\* Whatever hooks fail, processes end, files are torn and calls overlap: as long as the one
\* controller serves one agent at a time, the phases of every agent run in their order, nothing
\* is called over that has not run, and without overlaps a closed agent keeps the handoff its
\* hook has made last (tertiary-lifecycle.ts:373, :442).
THEOREM ShutdownIsOrderly == ShutdownSpec => []ShutdownInv
<1>1. ShutdownIInv /\ [ShutdownNext]_shutdownVars => ShutdownIInv'
  <2> SUFFICES ASSUME ShutdownIInv, [ShutdownNext]_shutdownVars PROVE ShutdownIInv'
    OBVIOUS
  <2> QED
    BY ShutsDownHolds, ReadsFileHolds, ResumesHolds, PhaseBeginsHolds, HookEndsHolds, HookFailsHolds, ShutsHolds,
       WritesClosedHolds, ShutdownEndsHolds DEF ShutdownNext
<1>2. ShutdownIInv => ShutdownInv
  <2> SUFFICES ASSUME ShutdownIInv PROVE ShutdownInv
    OBVIOUS
  <2>1. PhasesInOrder
    BY DEF ShutdownIInv, PhasesInOrder, OneAgentIsServed, RunsAreInOrder, FilesHaveRun, ClosedHasRun
  <2>2. HandoffPhase \in Phases
    BY TertiaryShutdownAssumption DEF Phases
  <2>3. HandoffIsTheLast
    BY <2>2 DEF ShutdownIInv, CallsGoInOrder, ResultIsKept, FileKeepsResult, HandoffIsTheLast
  <2> QED
    BY <2>1, <2>3 DEF ShutdownInv
<1> QED
  BY <1>1, <1>2, ShutdownInitHolds, PTL DEF ShutdownSpec

(***************************************************************************)
(* The closure of contexts.                                                *)
(***************************************************************************)

ClosingPhase == {"idle", "adding", "begun", "verifying", "verified", "waiting", "closing", "capsule", "last", "entry"}
Graph == [revision : Nat \ {0}, state : [Node -> NodeState], open : [Node -> Nat], required : SUBSET (Node \X Node)]
Calls == [phase : ClosingPhase, seen : Nat]
Entry == [node : Node, id : Nat, revision : Nat]

ContextTyped ==
    /\ graph \in Graph
    /\ capsules \subseteq Node \X Nat
    /\ entries \subseteq Entry
    /\ closing \in [Node -> Calls]
    /\ ruling.phase # "idle" => ruling.entry \in Entry

\* What a call has seen is current as long as the revision is: nobody has written the node since.
SeenIsCurrent ==
    /\ \A n \in Node : closing[n].seen <= graph.revision
    /\ \A n \in Node : closing[n].seen = graph.revision =>
        /\ At(n, "adding") => graph.state[n] = "absent"
        /\ At(n, "verifying") => graph.state[n] \in {"active", "reopened"}
        /\ At(n, "waiting") => graph.state[n] \notin Closed

\* The capsule a call makes is the newest of its node.
CapsulesAreOrdered ==
    /\ \A c \in capsules : c[2] <= graph.revision
    /\ \A n \in Node : closing[n].phase \in {"capsule", "last", "entry"} =>
        closing[n].seen > 0 /\ \A c \in capsules : c[1] = n => c[2] <= closing[n].seen
    /\ \A n \in Node : At(n, "entry") => <<n, closing[n].seen>> \in capsules

\* The identifier of an entry is the task's own, or carries the revision of its capsule.
EntriesAreNamed ==
    \A e \in entries : e.id \in {BaseIdentifier, e.revision} /\ <<e.node, e.revision>> \in capsules

\* Only the call itself closes its node for a later review: none that owes no entry finds it closed so.
LastOwesNothing == \A n \in Node : At(n, "last") => graph.state[n] # "deferred-review-closed"

CompletedIsIdle == \A n \in concluded : n \in Node /\ At(n, "idle")

OpenChildren(p) == {c \in RequiredChildren(p) : graph.state[c] \notin Closed}
Counted == \A p \in Node : graph.open[p] = Cardinality(OpenChildren(p))
Acyclic == \A S \in SUBSET Node : S # {} => \E n \in S : RequiredChildren(n) \cap S = {}

Reviewable(n) ==
    graph.state[n] = "deferred-review-closed" =>
        \E c \in capsules :
            /\ c[1] = n /\ \A d \in capsules : d[1] = n => d[2] <= c[2]
            /\ c \in acceptances \/ \E e \in Listed : e.node = n /\ e.revision = c[2]

ContextIInv ==
    /\ ContextTyped
    /\ SeenIsCurrent
    /\ CapsulesAreOrdered
    /\ EntriesAreNamed
    /\ LastOwesNothing
    /\ CompletedIsIdle
    /\ Counted
    /\ Acyclic
    /\ \A n \in concluded \ stripped : Reviewable(n)

-----------------------------------------------------------------------------
LEMMA ChildrenAreFinite ==
    ASSUME NEW S \in SUBSET Node
    PROVE  IsFiniteSet(S) /\ Cardinality(S) \in Nat
<1>1. IsFiniteSet(S)
  BY ContextClosureAssumption, FS_Subset
<1> QED
  BY <1>1, FS_CardinalityType

\* A node that moves between states that are not closed leaves the counters as they are.
LEMMA CountsStay ==
    ASSUME ContextIInv, graph'.required = graph.required, graph'.open = graph.open,
           \A c \in Node : graph'.state[c] \in Closed <=> graph.state[c] \in Closed
    PROVE  Counted' /\ Acyclic'
<1>1. \A p \in Node : RequiredChildren(p)' = RequiredChildren(p) /\ RequiredChildren(p) \subseteq Node
  BY DEF RequiredChildren
<1>2. \A p \in Node : OpenChildren(p)' = OpenChildren(p)
  BY <1>1 DEF OpenChildren
<1> QED
  BY <1>1, <1>2 DEF ContextIInv, Counted, Acyclic

\* When a node closes, each required parent counts one child less ...
LEMMA ClosingCounts ==
    ASSUME ContextIInv, NEW n \in Node, NEW state \in Closed, graph.state[n] \notin Closed,
           graph' = ClosedAs(n, state)
    PROVE  graph' \in Graph /\ Counted' /\ Acyclic'
           /\ graph'.revision = graph.revision + 1 /\ graph'.required = graph.required
           /\ graph'.state = [graph.state EXCEPT ![n] = state]
<1> DEFINE open == [p \in Node |-> IF p \in RequiredParents(n) /\ graph.open[p] > 0 THEN graph.open[p] - 1 ELSE graph.open[p]]
<1>1. graph \in Graph /\ state \in NodeState
  BY DEF ContextIInv, ContextTyped, NodeState
<1>2. open \in [Node -> Nat]
  BY <1>1 DEF Graph
<1>3. graph' = [revision |-> graph.revision + 1, state |-> [graph.state EXCEPT ![n] = state], open |-> open,
                required |-> graph.required]
  BY <1>1 DEF ClosedAs, Marked, Graph
<1> HIDE DEF open
<1>4. graph' \in Graph
  BY <1>1, <1>2, <1>3 DEF Graph
<1>5. \A p \in Node : RequiredChildren(p)' = RequiredChildren(p) /\ RequiredChildren(p) \subseteq Node
  BY <1>3 DEF RequiredChildren
<1>6. \A c \in Node : c # n => graph'.state[c] = graph.state[c]
  BY <1>1, <1>3 DEF Graph
<1>7. graph'.state[n] \in Closed
  BY <1>1, <1>3 DEF Graph
<1>8. ASSUME NEW p \in Node
      PROVE  graph'.open[p] = Cardinality(OpenChildren(p)')
  <2>1. OpenChildren(p)' = OpenChildren(p) \ {n}
    BY <1>5, <1>6, <1>7 DEF OpenChildren
  <2>2. IsFiniteSet(OpenChildren(p)) /\ Cardinality(OpenChildren(p)) \in Nat
    <3>1. OpenChildren(p) \in SUBSET Node
      BY <1>5 DEF OpenChildren
    <3> QED
      BY <3>1, ChildrenAreFinite
  <2>3. graph.open[p] = Cardinality(OpenChildren(p))
    BY DEF ContextIInv, Counted
  <2>4. CASE p \in RequiredParents(n)
    <3>1. n \in OpenChildren(p)
      BY <2>4 DEF OpenChildren, RequiredChildren, RequiredParents
    <3>2. Cardinality(OpenChildren(p) \ {n}) = Cardinality(OpenChildren(p)) - 1 /\ Cardinality(OpenChildren(p)) # 0
      BY <2>2, <3>1, FS_RemoveElement, FS_EmptySet
    <3> QED
      BY <1>3, <2>1, <2>2, <2>3, <2>4, <3>2 DEF open
  <2>5. CASE p \notin RequiredParents(n)
    <3>1. OpenChildren(p) \ {n} = OpenChildren(p)
      BY <2>5 DEF OpenChildren, RequiredChildren, RequiredParents
    <3> QED
      BY <1>3, <2>1, <2>3, <2>5, <3>1 DEF open
  <2> QED
    BY <2>4, <2>5
<1> QED
  BY <1>3, <1>4, <1>5, <1>8 DEF ContextIInv, Counted, Acyclic

\* ... and when it opens again, one more.
LEMMA ReopeningCounts ==
    ASSUME ContextIInv, NEW n \in Node, graph.state[n] \in Closed, graph' = Reopened(n)
    PROVE  graph' \in Graph /\ Counted' /\ Acyclic'
           /\ graph'.revision = graph.revision + 1 /\ graph'.required = graph.required
           /\ graph'.state = [graph.state EXCEPT ![n] = "reopened"]
<1> DEFINE open == [p \in Node |-> IF p \in RequiredParents(n) THEN graph.open[p] + 1 ELSE graph.open[p]]
<1>1. graph \in Graph /\ "reopened" \in NodeState \ Closed
  BY DEF ContextIInv, ContextTyped, NodeState, Closed
<1>2. open \in [Node -> Nat]
  BY <1>1 DEF Graph
<1>3. graph' = [revision |-> graph.revision + 1, state |-> [graph.state EXCEPT ![n] = "reopened"], open |-> open,
                required |-> graph.required]
  BY <1>1 DEF Reopened, Marked, Graph
<1> HIDE DEF open
<1>4. graph' \in Graph
  BY <1>1, <1>2, <1>3 DEF Graph
<1>5. \A p \in Node : RequiredChildren(p)' = RequiredChildren(p) /\ RequiredChildren(p) \subseteq Node
  BY <1>3 DEF RequiredChildren
<1>6. \A c \in Node : c # n => graph'.state[c] = graph.state[c]
  BY <1>1, <1>3 DEF Graph
<1>7. graph'.state[n] \notin Closed
  BY <1>1, <1>3 DEF Graph
<1>8. ASSUME NEW p \in Node
      PROVE  graph'.open[p] = Cardinality(OpenChildren(p)')
  <2>1. OpenChildren(p)' = IF p \in RequiredParents(n) THEN OpenChildren(p) \cup {n} ELSE OpenChildren(p)
    BY <1>5, <1>6, <1>7 DEF OpenChildren, RequiredChildren, RequiredParents
  <2>2. IsFiniteSet(OpenChildren(p)) /\ n \notin OpenChildren(p)
    <3>1. OpenChildren(p) \in SUBSET Node
      BY <1>5 DEF OpenChildren
    <3> QED
      BY <3>1, ChildrenAreFinite DEF OpenChildren
  <2>3. graph.open[p] = Cardinality(OpenChildren(p))
    BY DEF ContextIInv, Counted
  <2>4. Cardinality(OpenChildren(p) \cup {n}) = Cardinality(OpenChildren(p)) + 1
    BY <2>2, FS_AddElement
  <2> QED
    BY <1>3, <2>1, <2>3, <2>4 DEF open
<1> QED
  BY <1>3, <1>4, <1>5, <1>8 DEF ContextIInv, Counted, Acyclic

\* A new edge is counted when its child is open, and closes no cycle.
LEMMA AddEdgeCounts ==
    ASSUME ContextIInv, NEW p \in Node, NEW c \in Node, AddEdge(p, c)
    PROVE  graph' \in Graph /\ Counted' /\ Acyclic'
           /\ graph'.revision = graph.revision + 1 /\ graph'.state = graph.state
<1> DEFINE more == IF graph.state[c] \in Closed THEN graph.open[p] ELSE graph.open[p] + 1
           open == [graph.open EXCEPT ![p] = more]
<1>1. graph \in Graph /\ p # c /\ <<p, c>> \notin graph.required /\ ~WouldCreateCycle(p, c)
  BY DEF ContextIInv, ContextTyped, AddEdge
<1>2. more \in Nat /\ open \in [Node -> Nat]
  BY <1>1 DEF Graph
<1>3. graph' = [revision |-> graph.revision + 1, state |-> graph.state, open |-> open,
                required |-> graph.required \cup {<<p, c>>}]
  BY <1>1 DEF AddEdge, Graph
<1>4. open[p] = more /\ \A q \in Node : q # p => open[q] = graph.open[q]
  BY <1>1 DEF Graph
<1> HIDE DEF open
<1>5. graph' \in Graph
  BY <1>1, <1>2, <1>3 DEF Graph
<1>6. RequiredChildren(p)' = RequiredChildren(p) \cup {c} /\ c \notin RequiredChildren(p)
  BY <1>1, <1>3 DEF RequiredChildren
<1>7. \A q \in Node : q # p => RequiredChildren(q)' = RequiredChildren(q)
  BY <1>3 DEF RequiredChildren
<1>8. ASSUME NEW q \in Node
      PROVE  graph'.open[q] = Cardinality(OpenChildren(q)')
  <2>1. graph.open[q] = Cardinality(OpenChildren(q)) /\ graph'.open[q] = open[q] /\ graph'.state = graph.state
    BY <1>3 DEF ContextIInv, Counted
  <2>2. CASE q # p
    BY <1>4, <1>7, <2>1, <2>2 DEF OpenChildren
  <2>3. CASE q = p /\ graph.state[c] \in Closed
    <3>1. OpenChildren(p)' = OpenChildren(p)
      BY <1>6, <2>1, <2>3 DEF OpenChildren
    <3> QED
      BY <1>4, <2>1, <2>3, <3>1
  <2>4. CASE q = p /\ graph.state[c] \notin Closed
    <3>1. OpenChildren(p)' = OpenChildren(p) \cup {c} /\ c \notin OpenChildren(p)
      BY <1>6, <2>1, <2>4 DEF OpenChildren
    <3>2. OpenChildren(p) \in SUBSET Node
      BY DEF OpenChildren, RequiredChildren
    <3>3. Cardinality(OpenChildren(p) \cup {c}) = Cardinality(OpenChildren(p)) + 1
      BY <3>1, <3>2, ChildrenAreFinite, FS_AddElement
    <3> QED
      BY <1>4, <2>1, <2>4, <3>1, <3>3
  <2> QED
    BY <2>2, <2>3, <2>4
<1>9. Acyclic'
  <2>1. PICK K \in SUBSET Node : /\ c \in K /\ p \notin K
                                 /\ \A e \in graph.required : e[1] \in K => e[2] \in K
    BY <1>1 DEF WouldCreateCycle
  <2>2. \A n \in K : RequiredChildren(n) \subseteq K
    BY <2>1 DEF RequiredChildren
  <2>3. SUFFICES ASSUME NEW S \in SUBSET Node, S # {}
                 PROVE  \E n \in S : RequiredChildren(n)' \cap S = {}
    BY DEF Acyclic
  <2>4. CASE S \cap K # {}
    <3>1. PICK n \in S \cap K : RequiredChildren(n) \cap (S \cap K) = {}
      BY <2>1, <2>4 DEF ContextIInv, Acyclic
    <3>2. RequiredChildren(n) \cap S = {} /\ n # p
      BY <2>1, <2>2, <3>1
    <3> QED
      BY <1>7, <3>1, <3>2
  <2>5. CASE S \cap K = {}
    <3>1. PICK n \in S : RequiredChildren(n) \cap S = {}
      BY <2>3 DEF ContextIInv, Acyclic
    <3>2. c \notin S
      BY <2>1, <2>5
    <3> QED
      BY <1>6, <1>7, <3>1, <3>2
  <2> QED
    BY <2>4, <2>5
<1> QED
  BY <1>3, <1>5, <1>8, <1>9 DEF Counted

\* A task stays reviewable as long as its node, its capsules and its entries are what they were:
\* an entry leaves the list only when its capsule is accepted.
LEMMA ReviewableStays ==
    ASSUME ContextIInv, NEW n \in Node, Reviewable(n),
           graph'.state[n] = graph.state[n],
           \A c \in Node \X Nat : c[1] = n => (c \in capsules <=> c \in capsules'),
           capsules' \subseteq Node \X Nat,
           \A e \in entries : e.node = n => e \in entries',
           acceptances \subseteq acceptances'
    PROVE  Reviewable(n)'
<1> SUFFICES ASSUME graph'.state[n] = "deferred-review-closed"
             PROVE  \E c \in capsules' :
                        /\ c[1] = n /\ \A d \in capsules' : d[1] = n => d[2] <= c[2]
                        /\ c \in acceptances' \/ \E e \in Listed' : e.node = n /\ e.revision = c[2]
  BY DEF Reviewable
<1>1. PICK c \in capsules :
        /\ c[1] = n /\ \A d \in capsules : d[1] = n => d[2] <= c[2]
        /\ c \in acceptances \/ \E e \in Listed : e.node = n /\ e.revision = c[2]
  BY DEF Reviewable
<1>2. capsules \subseteq Node \X Nat
  BY DEF ContextIInv, ContextTyped
<1>3. c \in capsules' /\ \A d \in capsules' : d[1] = n => d[2] <= c[2]
  BY <1>1, <1>2
<1>4. c \in acceptances' \/ \E e \in Listed' : e.node = n /\ e.revision = c[2]
  <2>1. CASE c \in acceptances
    BY <2>1
  <2>2. CASE \E e \in Listed : e.node = n /\ e.revision = c[2]
    <3>1. PICK e \in Listed : e.node = n /\ e.revision = c[2]
      BY <2>2
    <3>2. e \in entries' /\ c = <<e.node, e.revision>>
      BY <1>1, <1>2, <3>1 DEF Listed
    <3> QED
      BY <3>1, <3>2 DEF Listed
  <2> QED
    BY <1>1, <2>1, <2>2
<1> QED
  BY <1>1, <1>3, <1>4

\* Steps of one call that write nothing, or nothing but the state of its own node.
LEMMA CallStepHolds ==
    ASSUME ContextIInv, NEW n \in Node, NEW call \in Calls,
           closing' = [closing EXCEPT ![n] = call],
           graph' \in Graph, Counted', Acyclic',
           graph' = graph \/ graph'.revision = graph.revision + 1,
           \A m \in Node : m # n => graph'.state[m] = graph.state[m],
           graph'.state[n] = graph.state[n] \/ n \notin concluded',
           UNCHANGED <<capsules, entries, acceptances, stripped>>,
           ruling' = ruling,
           concluded' \subseteq concluded, call.phase = "idle" \/ n \notin concluded',
           call.seen <= graph'.revision,
           call.phase = "adding" => graph'.state[n] = "absent",
           call.phase = "verifying" => graph'.state[n] \in {"active", "reopened"},
           call.phase = "waiting" => graph'.state[n] \notin Closed,
           call.phase # "entry",
           call.phase \in {"capsule", "last"} => call.seen = graph'.revision,
           call.phase = "last" => graph'.state[n] # "deferred-review-closed"
    PROVE  ContextIInv'
<1> USE DEF ContextIInv
<1>1. graph \in Graph /\ graph.revision \in Nat /\ graph'.revision \in Nat /\ graph.revision <= graph'.revision
      /\ graph'.revision > 0
  <2>1. graph \in Graph
    BY DEF ContextTyped
  <2>2. graph.revision \in Nat \ {0} /\ graph'.revision \in Nat \ {0}
    BY <2>1 DEF Graph
  <2> QED
    BY <2>1, <2>2
<1>2. closing' \in [Node -> Calls] /\ closing'[n] = call /\ \A m \in Node : m # n => closing'[m] = closing[m]
  BY DEF ContextTyped
<1>3. ContextTyped'
  BY <1>2 DEF ContextTyped
<1>4. \A m \in Node : closing[m].seen \in Nat
  BY DEF ContextTyped, Calls
<1>5. SeenIsCurrent'
  <2>1. ASSUME NEW m \in Node
        PROVE  /\ closing'[m].seen <= graph'.revision
               /\ closing'[m].seen = graph'.revision =>
                    /\ closing'[m].phase = "adding" => graph'.state[m] = "absent"
                    /\ closing'[m].phase = "verifying" => graph'.state[m] \in {"active", "reopened"}
                    /\ closing'[m].phase = "waiting" => graph'.state[m] \notin Closed
    <3>1. CASE m = n
      BY <1>2, <3>1
    <3>2. CASE m # n
      BY <1>1, <1>2, <1>4, <3>2 DEF SeenIsCurrent, At
    <3> QED
      BY <3>1, <3>2
  <2> QED
    BY <2>1 DEF SeenIsCurrent, At
<1>6. CapsulesAreOrdered'
  <2>1. \A c \in capsules' : c[2] <= graph'.revision
    BY <1>1 DEF CapsulesAreOrdered, ContextTyped
  <2>2. ASSUME NEW m \in Node, closing'[m].phase \in {"capsule", "last", "entry"}
        PROVE  closing'[m].seen > 0 /\ \A c \in capsules' : c[1] = m => c[2] <= closing'[m].seen
    <3>1. CASE m = n
      BY <1>1, <1>2, <2>1, <2>2, <3>1
    <3>2. CASE m # n
      BY <1>2, <2>2, <3>2 DEF CapsulesAreOrdered
    <3> QED
      BY <3>1, <3>2
  <2>3. \A m \in Node : closing'[m].phase = "entry" => <<m, closing'[m].seen>> \in capsules'
    BY <1>2 DEF CapsulesAreOrdered, At
  <2> QED
    BY <2>1, <2>2, <2>3 DEF CapsulesAreOrdered, At
<1>7. EntriesAreNamed' /\ CompletedIsIdle'
  BY <1>2 DEF EntriesAreNamed, CompletedIsIdle, At
<1>9. LastOwesNothing'
  BY <1>2 DEF LastOwesNothing, At
<1>8. \A m \in concluded' \ stripped' : Reviewable(m)'
  <2> SUFFICES ASSUME NEW m \in concluded' \ stripped' PROVE Reviewable(m)'
    OBVIOUS
  <2>1. m \in Node /\ Reviewable(m) /\ graph'.state[m] = graph.state[m]
    BY DEF CompletedIsIdle
  <2>2. capsules' \subseteq Node \X Nat
    BY <1>3 DEF ContextTyped
  <2> QED
    BY <2>1, <2>2, ReviewableStays
<1> QED
  BY <1>3, <1>5, <1>6, <1>7, <1>8, <1>9

\* Writes of the graph from outside the calls.
LEMMA GraphStepHolds ==
    ASSUME ContextIInv, graph' \in Graph, Counted', Acyclic', graph'.revision = graph.revision + 1,
           UNCHANGED <<capsules, entries, acceptances, closing, concluded, stripped>>,
           ruling'.phase # "idle" => ruling'.entry \in Entry,
           \A m \in Node : graph'.state[m] = graph.state[m] \/ graph'.state[m] # "deferred-review-closed"
    PROVE  ContextIInv'
<1> USE DEF ContextIInv
<1>1. graph.revision \in Nat /\ graph'.revision > graph.revision
  <2>1. graph \in Graph
    BY DEF ContextTyped
  <2>2. graph.revision \in Nat
    BY <2>1 DEF Graph
  <2> QED
    BY <2>2
<1>2. ContextTyped'
  BY DEF ContextTyped
<1>3. SeenIsCurrent'
  <2>1. \A m \in Node : closing[m].seen \in Nat /\ closing[m].seen <= graph.revision
    BY DEF ContextTyped, Calls, SeenIsCurrent
  <2>2. \A m \in Node : closing'[m].seen <= graph'.revision /\ closing'[m].seen # graph'.revision
    BY <1>1, <2>1
  <2> QED
    BY <2>2 DEF SeenIsCurrent
<1>4. CapsulesAreOrdered'
  <2>1. \A c \in capsules' : c[2] <= graph'.revision
    BY <1>1 DEF CapsulesAreOrdered, ContextTyped
  <2> QED
    BY <2>1 DEF CapsulesAreOrdered, At
<1>5. EntriesAreNamed' /\ CompletedIsIdle' /\ LastOwesNothing'
  BY DEF EntriesAreNamed, CompletedIsIdle, LastOwesNothing, At
<1>6. \A m \in concluded' \ stripped' : Reviewable(m)'
  <2> SUFFICES ASSUME NEW m \in concluded' \ stripped', graph'.state[m] = "deferred-review-closed" PROVE Reviewable(m)'
    BY DEF Reviewable
  <2>1. m \in Node /\ Reviewable(m) /\ graph'.state[m] = graph.state[m]
    BY DEF CompletedIsIdle
  <2>2. capsules' \subseteq Node \X Nat
    BY DEF ContextTyped
  <2> QED
    BY <2>1, <2>2, ReviewableStays
<1> QED
  BY <1>2, <1>3, <1>4, <1>5, <1>6

\* Steps of a ruling that leave the graph alone.
LEMMA FileStepHolds ==
    ASSUME ContextIInv, UNCHANGED <<graph, capsules, closing>>,
           entries' \subseteq entries, acceptances \subseteq acceptances', concluded' = concluded,
           ruling'.phase # "idle" => ruling'.entry \in Entry,
           stripped \subseteq stripped',
           \A e \in entries : e.node \notin stripped' => e \in entries'
    PROVE  ContextIInv'
<1> USE DEF ContextIInv
<1>1. ContextTyped'
  BY DEF ContextTyped
<1>2. SeenIsCurrent' /\ CapsulesAreOrdered' /\ EntriesAreNamed' /\ CompletedIsIdle' /\ LastOwesNothing'
  BY DEF SeenIsCurrent, CapsulesAreOrdered, EntriesAreNamed, CompletedIsIdle, LastOwesNothing, At
<1>3. Counted' /\ Acyclic'
  BY CountsStay
<1>4. \A m \in concluded' \ stripped' : Reviewable(m)'
  <2> SUFFICES ASSUME NEW m \in concluded' \ stripped' PROVE Reviewable(m)'
    OBVIOUS
  <2>1. m \in Node /\ Reviewable(m) /\ graph'.state[m] = graph.state[m]
    BY DEF CompletedIsIdle
  <2>2. capsules' \subseteq Node \X Nat
    BY <1>1 DEF ContextTyped
  <2> QED
    BY <2>1, <2>2, ReviewableStays
<1> QED
  BY <1>1, <1>2, <1>3, <1>4

LEMMA OutsideStepsHold ==
    ASSUME ContextIInv,
           \/ \E p, c \in Node : AddEdge(p, c)
           \/ \E n \in Node : CloseAccepted(n)
           \/ \E e \in entries, phase \in {"accepting", "rejecting"} : Decides(e, phase)
           \/ RecordsAcceptance \/ OpensAgain \/ RemovesEntries \/ VerdictIsLost
           \/ UNCHANGED contextVars
    PROVE  ContextIInv'
<1>0. graph \in Graph /\ entries \subseteq Entry /\ (ruling.phase # "idle" => ruling.entry \in Entry)
  BY DEF ContextIInv, ContextTyped
<1>1. ASSUME NEW p \in Node, NEW c \in Node, AddEdge(p, c)
      PROVE  ContextIInv'
  <2>1. /\ graph' \in Graph /\ Counted' /\ Acyclic'
        /\ graph'.revision = graph.revision + 1 /\ graph'.state = graph.state
    BY <1>1, AddEdgeCounts
  <2>2. UNCHANGED <<capsules, entries, acceptances, closing, ruling, concluded, stripped>>
    BY <1>1 DEF AddEdge
  <2> QED
    BY <1>0, <2>1, <2>2, GraphStepHolds
<1>2. ASSUME NEW n \in Node, CloseAccepted(n)
      PROVE  ContextIInv'
  <2>1. graph' = ClosedAs(n, "accepted-closed") /\ graph.state[n] \notin Closed /\ "accepted-closed" \in Closed
    BY <1>2 DEF CloseAccepted, Closable, Closed
  <2>2. UNCHANGED <<capsules, entries, acceptances, closing, ruling, concluded, stripped>>
    BY <1>2 DEF CloseAccepted
  <2>3. \E state \in Closed : state = "accepted-closed" /\ graph' = ClosedAs(n, state)
    BY <2>1
  <2>4. PICK state \in Closed : state = "accepted-closed" /\ graph' = ClosedAs(n, state)
    BY <2>3
  <2>5. /\ graph' \in Graph /\ Counted' /\ Acyclic' /\ graph'.revision = graph.revision + 1
        /\ graph'.state = [graph.state EXCEPT ![n] = state]
    BY <2>1, <2>4, ClosingCounts
  <2>6. \A m \in Node : graph'.state[m] = graph.state[m] \/ graph'.state[m] # "deferred-review-closed"
    BY <1>0, <2>4, <2>5 DEF Graph
  <2> QED
    BY <1>0, <2>2, <2>5, <2>6, GraphStepHolds
<1>3. ASSUME NEW e \in entries, NEW phase \in {"accepting", "rejecting"}, Decides(e, phase)
      PROVE  ContextIInv'
  <2>1. UNCHANGED <<graph, capsules, entries, acceptances, closing, concluded, stripped>> /\ ruling'.entry \in Entry
    BY <1>0, <1>3 DEF Decides
  <2> QED
    BY <2>1, FileStepHolds
<1>4. ASSUME RecordsAcceptance \/ VerdictIsLost \/ UNCHANGED contextVars
      PROVE  ContextIInv'
  <2>1. /\ UNCHANGED <<graph, capsules, entries, closing, concluded, stripped>> /\ acceptances \subseteq acceptances'
        /\ ruling' = ruling \/ ruling'.phase = "idle"
    BY <1>4 DEF RecordsAcceptance, VerdictIsLost, contextVars, NoVerdict
  <2> QED
    BY <1>0, <2>1, FileStepHolds
<1>5. ASSUME RemovesEntries
      PROVE  ContextIInv'
  <2> DEFINE n == ruling.entry.node
             removed == {e \in Listed : e.node = n}
  <2>1. /\ UNCHANGED <<graph, capsules, acceptances, closing, concluded>> /\ ruling'.phase = "idle"
        /\ entries' = entries \ removed
        /\ stripped' = IF removed = {} THEN stripped ELSE stripped \cup {n}
    BY <1>5 DEF RemovesEntries, NoVerdict
  <2>2. \A e \in removed : e.node = n /\ n \in stripped'
    BY <2>1
  <2>3. /\ entries' \subseteq entries /\ stripped \subseteq stripped'
        /\ \A e \in entries : e.node \notin stripped' => e \in entries'
    BY <2>1, <2>2
  <2> HIDE DEF n, removed
  <2> QED
    BY <2>1, <2>3, FileStepHolds
<1>6. ASSUME OpensAgain
      PROVE  ContextIInv'
  <2> DEFINE n == ruling.entry.node
  <2>1. n \in Node /\ ruling'.entry \in Entry
        /\ UNCHANGED <<capsules, entries, acceptances, closing, concluded, stripped>>
    BY <1>0, <1>6 DEF OpensAgain, Entry
  <2>2. CASE graph.state[n] \notin Closed
    <3>1. graph' = graph
      BY <1>6, <2>2 DEF OpensAgain
    <3> QED
      BY <2>1, <3>1, FileStepHolds
  <2>3. CASE graph.state[n] \in Closed
    <3>1. graph' = Reopened(n)
      BY <1>6, <2>3 DEF OpensAgain
    <3> HIDE DEF n
    <3>2. /\ graph' \in Graph /\ Counted' /\ Acyclic' /\ graph'.revision = graph.revision + 1
          /\ graph'.state = [graph.state EXCEPT ![n] = "reopened"]
      BY <2>1, <2>3, <3>1, ReopeningCounts
    <3>3. \A m \in Node : graph'.state[m] = graph.state[m] \/ graph'.state[m] # "deferred-review-closed"
      BY <1>0, <3>2 DEF Graph
    <3> QED
      BY <2>1, <3>2, <3>3, GraphStepHolds
  <2> QED
    BY <2>2, <2>3
<1> QED
  BY <1>1, <1>2, <1>3, <1>4, <1>5, <1>6

\* The writes of a call, each under the revision it has seen.
LEMMA WritesStateHolds ==
    ASSUME ContextIInv, NEW n \in Node, Adds(n) \/ Verifies(n) \/ Waits(n)
    PROVE  ContextIInv'
<1>1. PICK phase, state, next : /\ WritesState(n, phase, state, next)
                                /\ <<phase, state, next>> \in {<<"adding", "active", "begun">>,
                                        <<"verifying", "locally-verified", "verified">>,
                                        <<"waiting", "awaiting-user-acceptance", "last">>}
  BY Zenon DEF Adds, Verifies, Waits
<1>2. /\ phase \in {"adding", "verifying", "waiting"} /\ state \in NodeState \ Closed
      /\ next \in {"begun", "verified", "last"}
  BY <1>1 DEF NodeState, Closed
<1> DEFINE call == [phase |-> next, seen |-> IF next = "last" THEN graph.revision + 1 ELSE 0]
<1>3. /\ At(n, phase) /\ closing[n].seen = graph.revision /\ graph' = Marked(n, state)
      /\ closing' = [closing EXCEPT ![n] = call]
      /\ UNCHANGED <<capsules, entries, acceptances, ruling, concluded, stripped>>
  BY <1>1 DEF WritesState
<1>4. graph \in Graph /\ graph.revision \in Nat
  BY DEF ContextIInv, ContextTyped, Graph
<1>5. graph' = [revision |-> graph.revision + 1, state |-> [graph.state EXCEPT ![n] = state], open |-> graph.open,
                required |-> graph.required]
  BY <1>3, <1>4 DEF Marked, Graph
<1>6. /\ graph' \in Graph /\ graph'.revision = graph.revision + 1 /\ graph'.state[n] = state
      /\ \A m \in Node : m # n => graph'.state[m] = graph.state[m]
      /\ graph'.required = graph.required /\ graph'.open = graph.open
  BY <1>2, <1>4, <1>5 DEF Graph
<1>7. graph.state[n] \notin Closed
  <2>1. phase = "adding" => graph.state[n] = "absent"
    BY <1>3 DEF ContextIInv, SeenIsCurrent
  <2>2. phase = "verifying" => graph.state[n] \in {"active", "reopened"}
    BY <1>3 DEF ContextIInv, SeenIsCurrent
  <2>3. phase = "waiting" => graph.state[n] \notin Closed
    BY <1>3 DEF ContextIInv, SeenIsCurrent
  <2> QED
    BY <1>2, <2>1, <2>2, <2>3 DEF Closed
<1>8. Counted' /\ Acyclic'
  BY <1>2, <1>6, <1>7, CountsStay
<1>9. n \notin concluded
  BY <1>2, <1>3 DEF ContextIInv, CompletedIsIdle, At
<1>10. /\ call \in Calls /\ call.seen <= graph'.revision
       /\ call.phase = next /\ (next = "last" => call.seen = graph'.revision)
  BY <1>2, <1>4, <1>6 DEF Calls, ClosingPhase
<1>11. state # "deferred-review-closed"
  BY <1>2 DEF Closed
<1> HIDE DEF call
<1> QED
  BY <1>2, <1>3, <1>6, <1>8, <1>9, <1>10, <1>11, CallStepHolds

LEMMA ClosesHolds ==
    ASSUME ContextIInv, NEW n \in Node, Closes(n)
    PROVE  ContextIInv'
<1> DEFINE call == [phase |-> "capsule", seen |-> graph.revision + 1]
<1>1. /\ At(n, "closing") /\ graph' = ClosedAs(n, "deferred-review-closed")
      /\ graph.state[n] \in {"locally-verified", "awaiting-user-acceptance"}
      /\ closing' = [closing EXCEPT ![n] = call]
      /\ UNCHANGED <<capsules, entries, acceptances, ruling, concluded, stripped>>
  BY DEF Closes, Closable
<1>2. graph \in Graph /\ graph.revision \in Nat
  BY DEF ContextIInv, ContextTyped, Graph
<1>3. PICK state \in Closed : state = "deferred-review-closed" /\ graph' = ClosedAs(n, state)
  BY <1>1 DEF Closed
<1>4. /\ graph' \in Graph /\ Counted' /\ Acyclic' /\ graph'.revision = graph.revision + 1
      /\ graph'.state = [graph.state EXCEPT ![n] = state]
  BY <1>1, <1>3, ClosingCounts DEF Closed
<1>5. \A m \in Node : m # n => graph'.state[m] = graph.state[m]
  BY <1>2, <1>4 DEF Graph
<1>6. n \notin concluded
  BY <1>1 DEF ContextIInv, CompletedIsIdle, At
<1>7. call \in Calls /\ call.phase = "capsule" /\ call.seen = graph'.revision /\ call.seen <= graph'.revision
  BY <1>2, <1>4 DEF Calls, ClosingPhase
<1> HIDE DEF call
<1> QED
  BY <1>1, <1>4, <1>5, <1>6, <1>7, CallStepHolds

\* The reads of a call.
LEMMA ReadsHold ==
    ASSUME ContextIInv, NEW n \in Node,
           \/ Completes(n) \/ ReadsToVerify(n) \/ GivesUp(n)
           \/ \E policy \in {"continue-with-deferred-review", "block-until-verified"} : ReadsToClose(n, policy)
    PROVE  ContextIInv'
<1>0. graph \in Graph /\ graph.revision \in Nat /\ closing \in [Node -> Calls]
  BY DEF ContextIInv, ContextTyped, Graph
<1>1. closing[n] \in Calls /\ closing[n].seen \in Nat /\ closing[n].seen <= graph.revision
  BY <1>0 DEF ContextIInv, SeenIsCurrent, Calls
<1>2. UNCHANGED <<graph, capsules, entries, acceptances, ruling, stripped>>
  BY DEF Completes, ReadsToVerify, GivesUp, ReadsToClose
<1>3. concluded' \subseteq concluded
  BY DEF Completes, ReadsToVerify, GivesUp, ReadsToClose
<1>4. ~At(n, "idle") => n \notin concluded
  BY DEF ContextIInv, CompletedIsIdle
<1>5. \E call \in Calls :
        /\ closing' = [closing EXCEPT ![n] = call]
        /\ call.phase = "idle" \/ n \notin concluded'
        /\ call.seen <= graph.revision
        /\ call.phase = "adding" => graph.state[n] = "absent"
        /\ call.phase = "verifying" => graph.state[n] \in {"active", "reopened"}
        /\ call.phase = "waiting" => graph.state[n] \notin Closed
        /\ call.phase # "entry"
        /\ call.phase \in {"capsule", "last"} => call.seen = graph.revision
        /\ call.phase = "last" => graph.state[n] # "deferred-review-closed"
  <2> DEFINE Goal(call) ==
        /\ closing' = [closing EXCEPT ![n] = call]
        /\ call.phase = "idle" \/ n \notin concluded'
        /\ call.seen <= graph.revision
        /\ call.phase = "adding" => graph.state[n] = "absent"
        /\ call.phase = "verifying" => graph.state[n] \in {"active", "reopened"}
        /\ call.phase = "waiting" => graph.state[n] \notin Closed
        /\ call.phase # "entry"
        /\ call.phase \in {"capsule", "last"} => call.seen = graph.revision
        /\ call.phase = "last" => graph.state[n] # "deferred-review-closed"
  <2> DEFINE kept(phase) == [phase |-> phase, seen |-> closing[n].seen]
             read(phase) == [phase |-> phase, seen |-> graph.revision]
  <2>0. \A phase \in ClosingPhase : kept(phase) \in Calls /\ read(phase) \in Calls
    BY <1>0, <1>1 DEF Calls
  <2>1. CASE Completes(n)
    <3>1. CASE graph.state[n] = "absent"
      <4>1. Goal(read("adding"))
        BY <1>0, <2>1, <3>1 DEF Completes, Goes
      <4> QED
        BY <2>0, <4>1 DEF ClosingPhase
    <3>2. CASE graph.state[n] # "absent"
      <4>1. Goal(kept("begun"))
        BY <1>0, <1>1, <2>1, <3>2 DEF Completes, Calls
      <4> QED
        BY <2>0, <4>1 DEF ClosingPhase
    <3> QED
      BY <3>1, <3>2
  <2>2. CASE ReadsToVerify(n)
    <3>0. n \notin concluded'
      BY <1>3, <1>4, <2>2 DEF ReadsToVerify, At
    <3>1. CASE graph.state[n] \in {"active", "reopened"}
      <4>1. Goal(read("verifying"))
        BY <1>0, <2>2, <3>0, <3>1 DEF ReadsToVerify, Goes
      <4> QED
        BY <2>0, <4>1 DEF ClosingPhase
    <3>2. CASE graph.state[n] \notin {"active", "reopened"}
      <4>1. Goal(kept("verified"))
        BY <1>0, <1>1, <2>2, <3>0, <3>2 DEF ReadsToVerify, Calls
      <4> QED
        BY <2>0, <4>1 DEF ClosingPhase
    <3> QED
      BY <3>1, <3>2
  <2>3. CASE GivesUp(n)
    <3>1. Goal(NotClosing) /\ NotClosing \in Calls
      BY <1>0, <2>3 DEF GivesUp, NotClosing, Calls, ClosingPhase
    <3> QED
      BY <3>1
  <2>4. CASE \E policy \in {"continue-with-deferred-review", "block-until-verified"} : ReadsToClose(n, policy)
    <3>0. n \notin concluded'
      BY <1>3, <1>4, <2>4 DEF ReadsToClose, At
    <3>1. PICK phase \in {"capsule", "last", "closing", "waiting"} :
            /\ closing' = [closing EXCEPT ![n] = read(phase)]
            /\ phase = "waiting" => graph.state[n] \notin Closed
            /\ phase = "last" => graph.state[n] # "deferred-review-closed"
      BY <2>4 DEF ReadsToClose, Goes, Closed
    <3>2. Goal(read(phase))
      BY <1>0, <3>0, <3>1
    <3> QED
      BY <2>0, <3>2 DEF ClosingPhase
  <2> QED
    BY <2>1, <2>2, <2>3, <2>4
<1>6. Counted' /\ Acyclic'
  BY <1>2, CountsStay
<1>7. PICK call \in Calls :
        /\ closing' = [closing EXCEPT ![n] = call]
        /\ call.phase = "idle" \/ n \notin concluded'
        /\ call.seen <= graph.revision
        /\ call.phase = "adding" => graph.state[n] = "absent"
        /\ call.phase = "verifying" => graph.state[n] \in {"active", "reopened"}
        /\ call.phase = "waiting" => graph.state[n] \notin Closed
        /\ call.phase # "entry"
        /\ call.phase \in {"capsule", "last"} => call.seen = graph.revision
        /\ call.phase = "last" => graph.state[n] # "deferred-review-closed"
  BY <1>5
<1> QED
  BY <1>0, <1>2, <1>3, <1>6, <1>7, CallStepHolds

LEMMA MakesCapsuleHolds ==
    ASSUME ContextIInv, NEW n \in Node, MakesCapsule(n)
    PROVE  ContextIInv'
<1> USE DEF ContextIInv
<1> DEFINE seen == closing[n].seen
           call == [closing[n] EXCEPT !.phase = "entry"]
<1>1. /\ At(n, "capsule") /\ capsules' = capsules \cup {<<n, seen>>} /\ closing' = [closing EXCEPT ![n] = call]
      /\ UNCHANGED <<graph, entries, acceptances, ruling, concluded, stripped>>
  BY DEF MakesCapsule, WithCapsule, ContextTyped
<1>2. /\ closing[n] \in Calls /\ seen \in Nat /\ seen > 0 /\ seen <= graph.revision
      /\ \A c \in capsules : c[1] = n => c[2] <= seen
  BY <1>1 DEF ContextTyped, Calls, CapsulesAreOrdered, SeenIsCurrent, At
<1>3. call \in Calls /\ call.phase = "entry" /\ call.seen = seen
  BY <1>2 DEF Calls, ClosingPhase
<1> HIDE DEF call, seen
<1>4. closing' \in [Node -> Calls] /\ closing'[n] = call /\ \A m \in Node : m # n => closing'[m] = closing[m]
  BY <1>1, <1>3 DEF ContextTyped
<1>5. ContextTyped'
  BY <1>1, <1>2, <1>4 DEF ContextTyped
<1>6. SeenIsCurrent'
  BY <1>1, <1>2, <1>3, <1>4 DEF SeenIsCurrent, At
<1>7. CapsulesAreOrdered'
  <2>1. \A c \in capsules' : c[2] <= graph'.revision
    BY <1>1, <1>2 DEF CapsulesAreOrdered
  <2>2. ASSUME NEW m \in Node, closing'[m].phase \in {"capsule", "last", "entry"}
        PROVE  closing'[m].seen > 0 /\ \A c \in capsules' : c[1] = m => c[2] <= closing'[m].seen
    <3>1. CASE m = n
      BY <1>1, <1>2, <1>3, <1>4, <3>1
    <3>2. CASE m # n
      BY <1>1, <1>4, <2>2, <3>2 DEF CapsulesAreOrdered
    <3> QED
      BY <3>1, <3>2
  <2>3. \A m \in Node : closing'[m].phase = "entry" => <<m, closing'[m].seen>> \in capsules'
    BY <1>1, <1>3, <1>4 DEF CapsulesAreOrdered, At
  <2> QED
    BY <2>1, <2>2, <2>3 DEF CapsulesAreOrdered, At
<1>8. EntriesAreNamed'
  BY <1>1 DEF EntriesAreNamed
<1>9. n \notin concluded
  BY <1>1 DEF CompletedIsIdle, At
<1>10. CompletedIsIdle' /\ LastOwesNothing'
  BY <1>1, <1>3, <1>4, <1>9 DEF CompletedIsIdle, LastOwesNothing, At
<1>11. Counted' /\ Acyclic'
  BY <1>1, CountsStay
<1>12. \A m \in concluded' \ stripped' : Reviewable(m)'
  <2> SUFFICES ASSUME NEW m \in concluded' \ stripped' PROVE Reviewable(m)'
    OBVIOUS
  <2>1. m \in Node /\ m # n /\ Reviewable(m) /\ graph'.state[m] = graph.state[m]
    BY <1>1, <1>9 DEF CompletedIsIdle
  <2>2. \A c \in Node \X Nat : c[1] = m => (c \in capsules <=> c \in capsules')
    BY <1>1, <2>1
  <2>3. capsules' \subseteq Node \X Nat
    BY <1>5 DEF ContextTyped
  <2>4. \A e \in entries : e.node = m => e \in entries'
    BY <1>1
  <2> QED
    BY <1>1, <2>1, <2>2, <2>3, <2>4, ReviewableStays
<1> QED
  BY <1>5, <1>6, <1>7, <1>8, <1>10, <1>11, <1>12

\* An entry is filed so that the capsule it is for can be reviewed, and no other node notices.
LEMMA FiledIsListed ==
    ASSUME ContextIInv, NEW n \in Node, NEW revision \in Nat \ {0}, <<n, revision>> \in capsules
    PROVE  /\ Filed(n, revision) \subseteq Entry
           /\ \A e \in Filed(n, revision) : e.id \in {BaseIdentifier, e.revision} /\ <<e.node, e.revision>> \in capsules
           /\ \A e \in entries : e.node # n => e \in Filed(n, revision)
           /\ \E e \in Filed(n, revision) : e.node = n /\ e.revision = revision
<1> DEFINE identifier == IF \E e \in Listed : e.node = n /\ e.id = BaseIdentifier THEN revision ELSE BaseIdentifier
           new == [node |-> n, id |-> identifier, revision |-> revision]
<1>1. entries \subseteq Entry /\ EntriesAreNamed /\ Listed \subseteq entries
  BY DEF ContextIInv, ContextTyped, Listed
<1>2. identifier \in Nat /\ identifier \in {BaseIdentifier, revision} /\ revision # BaseIdentifier
  BY DEF BaseIdentifier
<1> HIDE DEF identifier
<1>3. new \in Entry /\ new.node = n /\ new.revision = revision /\ new.id = identifier
  BY <1>2 DEF Entry
<1>4. CASE HasEntryFor(n, revision)
  <2>1. Filed(n, revision) = entries
    BY <1>4 DEF Filed
  <2> QED
    BY <1>1, <1>4, <2>1 DEF HasEntryFor, EntriesAreNamed
<1>5. CASE ~HasEntryFor(n, revision)
  <2>1. ~ \E e \in Listed : e.node = n /\ e.id = identifier
    <3>1. CASE \E e \in Listed : e.node = n /\ e.id = BaseIdentifier
      <4>1. identifier = revision
        BY <3>1 DEF identifier
      <4> QED
        BY <1>1, <1>2, <1>5, <4>1 DEF EntriesAreNamed, HasEntryFor
    <3>2. CASE ~ \E e \in Listed : e.node = n /\ e.id = BaseIdentifier
      <4>1. identifier = BaseIdentifier
        BY <3>2 DEF identifier
      <4> QED
        BY <3>2, <4>1
    <3> QED
      BY <3>1, <3>2
  <2>2. Filed(n, revision) = {e \in entries : ~(e.node = n /\ e.id = identifier)} \cup {new}
    BY <1>5, <2>1 DEF Filed, identifier
  <2> HIDE DEF new
  <2> QED
    BY <1>1, <1>2, <1>3, <2>2 DEF EntriesAreNamed
<1> QED
  BY <1>4, <1>5

\* A call that ends leaves its node reviewable, and every other node as it was.
LEMMA EndHolds ==
    ASSUME ContextIInv, NEW n \in Node, EndsClosing(n), UNCHANGED <<graph, acceptances, ruling>>,
           capsules' = WithCapsule(n), At(n, "last") \/ At(n, "entry"),
           entries' \subseteq Entry, EntriesAreNamed',
           \A e \in entries : e.node # n => e \in entries',
           At(n, "entry") => \E e \in entries' : e.node = n /\ e.revision = closing[n].seen
    PROVE  ContextIInv'
<1> USE DEF ContextIInv
<1> DEFINE seen == closing[n].seen
<1>1. /\ closing' = [closing EXCEPT ![n] = NotClosing] /\ concluded' = concluded \cup {n}
      /\ stripped' = stripped \ {n} /\ capsules' = capsules \cup {<<n, seen>>}
  BY DEF EndsClosing, WithCapsule
<1>2. /\ seen \in Nat \ {0} /\ seen <= graph.revision
      /\ \A c \in capsules : c[1] = n => c[2] <= seen
  BY DEF ContextTyped, Calls, CapsulesAreOrdered, SeenIsCurrent, At
<1>3. graph.state[n] = "deferred-review-closed" => \E e \in entries' : e.node = n /\ e.revision = seen
  BY DEF LastOwesNothing
<1> HIDE DEF seen
<1>4. /\ closing' \in [Node -> Calls] /\ closing'[n] = NotClosing /\ \A m \in Node : m # n => closing'[m] = closing[m]
  BY <1>1 DEF ContextTyped, NotClosing, Calls, ClosingPhase
<1>5. ContextTyped'
  BY <1>1, <1>2, <1>4 DEF ContextTyped
<1>6. graph.revision \in Nat
  BY DEF ContextTyped, Graph
<1>7. SeenIsCurrent'
  BY <1>1, <1>4, <1>6 DEF SeenIsCurrent, At, NotClosing
<1>8. CapsulesAreOrdered'
  <2>1. \A c \in capsules' : c[2] <= graph'.revision
    BY <1>1, <1>2 DEF CapsulesAreOrdered
  <2>2. ASSUME NEW m \in Node, closing'[m].phase \in {"capsule", "last", "entry"}
        PROVE  closing'[m].seen > 0 /\ \A c \in capsules' : c[1] = m => c[2] <= closing'[m].seen
    <3>1. m # n
      BY <1>4, <2>2 DEF NotClosing
    <3> QED
      BY <1>1, <1>4, <2>2, <3>1 DEF CapsulesAreOrdered
  <2>3. \A m \in Node : closing'[m].phase = "entry" => <<m, closing'[m].seen>> \in capsules'
    BY <1>1, <1>4 DEF CapsulesAreOrdered, At, NotClosing
  <2> QED
    BY <2>1, <2>2, <2>3 DEF CapsulesAreOrdered, At
<1>9. CompletedIsIdle' /\ LastOwesNothing'
  BY <1>1, <1>4 DEF CompletedIsIdle, LastOwesNothing, At, NotClosing
<1>10. Counted' /\ Acyclic'
  BY CountsStay
<1>11. \A m \in concluded' \ stripped' : Reviewable(m)'
  <2> SUFFICES ASSUME NEW m \in concluded' \ stripped' PROVE Reviewable(m)'
    OBVIOUS
  <2>1. CASE m = n
    <3> SUFFICES ASSUME graph.state[n] = "deferred-review-closed"
                 PROVE  \E c \in capsules' :
                            /\ c[1] = n /\ \A d \in capsules' : d[1] = n => d[2] <= c[2]
                            /\ c \in acceptances' \/ \E e \in Listed' : e.node = n /\ e.revision = c[2]
      BY <2>1 DEF Reviewable
    <3> DEFINE c == <<n, seen>>
    <3>1. c \in capsules' /\ c[1] = n /\ c[2] = seen /\ \A d \in capsules' : d[1] = n => d[2] <= c[2]
      BY <1>1, <1>2
    <3>2. PICK e \in entries' : e.node = n /\ e.revision = seen
      BY <1>3
    <3>3. c \in acceptances' \/ e \in Listed'
      BY <3>2 DEF Listed
    <3> QED
      BY <3>1, <3>2, <3>3
  <2>2. CASE m # n
    <3>1. m \in concluded \ stripped /\ m \in Node /\ Reviewable(m)
      BY <1>1, <2>2 DEF CompletedIsIdle
    <3>2. \A e \in entries : e.node = m => e \in entries'
      BY <2>2
    <3>3. capsules' \subseteq Node \X Nat
      BY <1>5 DEF ContextTyped
    <3>4. \A c \in Node \X Nat : c[1] = m => (c \in capsules <=> c \in capsules')
      BY <1>1, <2>2
    <3> QED
      BY <3>1, <3>2, <3>3, <3>4, ReviewableStays
  <2> QED
    BY <2>1, <2>2
<1> QED
  BY <1>5, <1>7, <1>8, <1>9, <1>10, <1>11

LEMMA MakesLastCapsuleHolds ==
    ASSUME ContextIInv, NEW n \in Node, MakesLastCapsule(n)
    PROVE  ContextIInv'
<1>1. /\ At(n, "last") /\ EndsClosing(n) /\ capsules' = WithCapsule(n)
      /\ UNCHANGED <<graph, entries, acceptances, ruling>>
  BY DEF MakesLastCapsule
<1>2. entries' \subseteq Entry /\ EntriesAreNamed' /\ ~At(n, "entry")
  BY <1>1 DEF ContextIInv, ContextTyped, EntriesAreNamed, WithCapsule, At
<1> QED
  BY <1>1, <1>2, EndHolds

LEMMA MakesEntryHolds ==
    ASSUME ContextIInv, NEW n \in Node, MakesEntry(n)
    PROVE  ContextIInv'
<1> DEFINE seen == closing[n].seen
<1>1. /\ At(n, "entry") /\ EndsClosing(n) /\ entries' = Filed(n, seen)
      /\ UNCHANGED <<graph, capsules, acceptances, ruling>>
  BY DEF MakesEntry
<1>2. seen \in Nat \ {0} /\ <<n, seen>> \in capsules /\ capsules' = WithCapsule(n)
  BY <1>1 DEF ContextIInv, ContextTyped, Calls, CapsulesAreOrdered, WithCapsule, At
<1>3. /\ Filed(n, seen) \subseteq Entry
      /\ \A e \in Filed(n, seen) : e.id \in {BaseIdentifier, e.revision} /\ <<e.node, e.revision>> \in capsules
      /\ \A e \in entries : e.node # n => e \in Filed(n, seen)
      /\ \E e \in Filed(n, seen) : e.node = n /\ e.revision = seen
  BY <1>2, FiledIsListed
<1>4. EntriesAreNamed'
  BY <1>1, <1>3 DEF EntriesAreNamed
<1> QED
  BY <1>1, <1>2, <1>3, <1>4, EndHolds

LEMMA ContextInitHolds == ContextInit => ContextIInv
<1> SUFFICES ASSUME ContextInit PROVE ContextIInv
  OBVIOUS
<1> USE DEF ContextInit, NotClosing, NoVerdict
<1>1. ContextTyped
  <2>1. graph \in Graph
    BY DEF Graph, NodeState
  <2>2. closing \in [Node -> Calls]
    BY DEF Calls, ClosingPhase
  <2> QED
    BY <2>1, <2>2 DEF ContextTyped
<1>2. SeenIsCurrent /\ CapsulesAreOrdered /\ EntriesAreNamed /\ LastOwesNothing /\ CompletedIsIdle
  BY DEF SeenIsCurrent, CapsulesAreOrdered, EntriesAreNamed, LastOwesNothing, CompletedIsIdle, At
<1>3. Counted /\ Acyclic
  <2>1. \A p \in Node : OpenChildren(p) = {} /\ RequiredChildren(p) = {}
    BY DEF OpenChildren, RequiredChildren
  <2> QED
    BY <2>1, FS_EmptySet DEF Counted, Acyclic
<1> QED
  BY <1>1, <1>2, <1>3 DEF ContextIInv

\* However tasks complete, are accepted and rejected while their graph is written by others: the
\* counters are the numbers of open required children, no node requires itself, every entry has
\* its capsule, and what a concluded task has closed for a later review can be reviewed, until a
\* rejection that is still at work takes the entry of a node that has closed again
\* (local-context-graph-store.ts:9, context-node-lifecycle.ts:227, human-verification-controller.ts:633).
THEOREM ClosedStaysReviewable == ContextSpec => []ContextInv
<1>1. ContextIInv /\ [ContextNext]_contextVars => ContextIInv'
  <2> SUFFICES ASSUME ContextIInv, [ContextNext]_contextVars PROVE ContextIInv'
    OBVIOUS
  <2>1. ASSUME NEW n \in Node, Adds(n) \/ Verifies(n) \/ Waits(n)
        PROVE  ContextIInv'
    BY <2>1, WritesStateHolds
  <2>2. ASSUME NEW n \in Node,
               \/ Completes(n) \/ ReadsToVerify(n) \/ GivesUp(n)
               \/ \E policy \in {"continue-with-deferred-review", "block-until-verified"} : ReadsToClose(n, policy)
        PROVE  ContextIInv'
    BY <2>2, ReadsHold
  <2>3. ASSUME NEW n \in Node, Closes(n) \/ MakesCapsule(n) \/ MakesLastCapsule(n) \/ MakesEntry(n)
        PROVE  ContextIInv'
    BY <2>3, ClosesHolds, MakesCapsuleHolds, MakesLastCapsuleHolds, MakesEntryHolds
  <2>4. ASSUME \/ \E p, c \in Node : AddEdge(p, c)
               \/ \E n \in Node : CloseAccepted(n)
               \/ \E e \in entries, phase \in {"accepting", "rejecting"} : Decides(e, phase)
               \/ RecordsAcceptance \/ OpensAgain \/ RemovesEntries \/ VerdictIsLost
               \/ UNCHANGED contextVars
        PROVE  ContextIInv'
    BY <2>4, OutsideStepsHold
  <2> QED
    BY <2>1, <2>2, <2>3, <2>4, Zenon DEF ContextNext
<1>2. ContextIInv => ContextInv
  <2> SUFFICES ASSUME ContextIInv PROVE ContextInv
    OBVIOUS
  <2>1. CountersAreRight
    BY DEF ContextIInv, ContextTyped, Graph, Counted, OpenChildren, Acyclic, EntriesAreNamed, CountersAreRight
  <2>2. ClosedIsReviewable
    BY DEF ContextIInv, Reviewable, ClosedIsReviewable
  <2> QED
    BY <2>1, <2>2 DEF ContextInv
<1> QED
  BY <1>1, <1>2, ContextInitHolds, PTL DEF ContextSpec
=============================================================================
