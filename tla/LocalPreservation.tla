------------------------- MODULE LocalPreservation -------------------------
(***************************************************************************)
(* orchestration/local-preservation-service.ts: after a failed             *)
(* synchronisation a caller preserves the repository (HEAD, index, working *)
(* tree, untracked files) in a point of its own, and a point can be        *)
(* restored into a new directory.  A snapshot is many git commands and     *)
(* file reads; a person goes on working between them.                      *)
(*                                                                         *)
(* A content is a number, a new one for every edit: nobody undoes a change *)
(* while a snapshot is taken.  The output of a git command is a set, and   *)
(* empty where the code has "", [] or null.                                *)
(***************************************************************************)
EXTENDS Naturals, Sequences, FiniteSets

CONSTANTS
    Saver,         \* who creates points
    File,           \* untracked files
    MaxEdits,       \* steps of the person
    MaxPoints,      \* snapshots that are begun
    MaxRestores,    \* restorations
    MaxSavingFaults     \* git commands and writes that fail, ends of the process

\* In a parsed status the names of the files are not the kinds of the changes.
ASSUME PreservationAssumption ==
    /\ File \cap {"staged", "unstaged"} = {}
    /\ MaxEdits \in Nat

VARIABLES
    work,           \* the repository: contents of HEAD, index, tree, files
    saving,           \* per caller: what it has read so far
    moments,        \* per caller: what the repository was since its call began
    points,         \* the published points
    restoring,      \* the restoration under way: a set of at most one
    edits, begun, restores, savingFaults      \* counters of the bounds

person == <<work, edits>>
preservationVars == <<work, saving, moments, points, restoring, edits, begun, restores, savingFaults>>

\* "lost" counts the commands that failed: what the code does not know.
NoSave == [at |-> "idle", id |-> 0, base |-> 0, refs |-> 0, out |-> <<>>, file |-> {}, failed |-> FALSE, lost |-> 0]

PreservationInit ==
    /\ work \in {[head |-> 0, index |-> i, tree |-> 2 * i, file |-> [f \in File |-> i]] : i \in {0, 1}}
    /\ saving = [c \in Saver |-> NoSave] /\ moments = [c \in Saver |-> {}]
    /\ points = {} /\ restoring = {}
    /\ edits = 0 /\ begun = 0 /\ restores = 0 /\ savingFaults = 0

-----------------------------------------------------------------------------
(* The person: external to the service.                                    *)

WorkBecomes(w) ==
    /\ edits < MaxEdits /\ w # work
    /\ work' = w /\ edits' = edits + 1
    /\ moments' = [c \in Saver |-> IF saving[c].at = "idle" THEN {} ELSE moments[c] \cup {w}]
    /\ UNCHANGED <<saving, points, restoring, begun, restores, savingFaults>>

PersonWorks ==
    \/ WorkBecomes([work EXCEPT !.tree = edits + 3])
    \/ WorkBecomes([work EXCEPT !.index = work.tree])
    \/ WorkBecomes([work EXCEPT !.head = work.index])
    \/ \E f \in File : \/ WorkBecomes([work EXCEPT !.file[f] = edits + 3])
                       \/ WorkBecomes([work EXCEPT !.file[f] = 0])

-----------------------------------------------------------------------------
(* Creating a point.                                                       *)

\* evaluateRemoteSyncPreservationTrigger.
RemoteSyncStatus == {"not-attempted", "attempting", "succeeded", "failed-network",
                     "failed-authentication", "failed-rejected", "failed-no-remote", "failed-unknown"}
ShouldPreserve(outcome) == outcome \notin {"succeeded", "not-attempted", "attempting"}

SaverAt(c, place) == saving[c].at = place
SaverGoes(c, record) == saving' = [saving EXCEPT ![c] = record]
SaverReturns(c) == SaverGoes(c, NoSave) /\ moments' = [moments EXCEPT ![c] = {}]

\* preserveAfterRemoteSyncOutcome; createPreservationPoint reads HEAD.
ReadHead(c) ==
    /\ SaverAt(c, "idle") /\ begun < MaxPoints
    /\ \E outcome \in RemoteSyncStatus : ShouldPreserve(outcome)
    /\ SaverGoes(c, [NoSave EXCEPT !.at = "refs", !.id = begun + 1, !.base = work.head])
    /\ begun' = begun + 1 /\ moments' = [moments EXCEPT ![c] = {work}]
    /\ UNCHANGED <<person, points, restoring, restores, savingFaults>>

\* readReferenceOids: here the one branch, which HEAD names.
ReadReferences(c) ==
    /\ SaverAt(c, "refs") /\ SaverGoes(c, [saving[c] EXCEPT !.at = "first", !.refs = work.head])
    /\ UNCHANGED <<person, moments, points, restoring, begun, restores, savingFaults>>

NewPoint(id, status, key, lost) ==
    [id |-> id, status |-> status, key |-> key, lost |-> lost, isRestored |-> FALSE, isReadable |-> TRUE]

\* The directory is no repository: a point that says so (persistManifest).
NoRepository(c) ==
    /\ SaverAt(c, "idle") /\ begun < MaxPoints /\ savingFaults < MaxSavingFaults
    /\ begun' = begun + 1 /\ savingFaults' = savingFaults + 1
    /\ points' = points \cup {NewPoint(begun + 1, "failed", <<>>, 0)}
    /\ UNCHANGED <<person, saving, moments, restoring, restores>>

Patch(from, to) == IF from = to THEN {} ELSE {<<from, to>>}
Untracked == {f \in File : work.file[f] # 0}

\* The four commands of readChangeState, in their order.  The parsed status has
\* the kinds of the changes and the names, and no contents.
Output(n) ==
    CASE n = 1 -> Untracked \cup {k \in {"staged", "unstaged"} :
                        IF k = "staged" THEN work.head # work.index ELSE work.index # work.tree}
      [] n = 2 -> Patch(work.head, work.index)
      [] n = 3 -> Patch(work.index, work.tree)
      [] n = 4 -> {work.index}

\* runGitOrNull: the output, or "" for a command that fails.
RunGit(n, output, failures) ==
    IF failures = 1 THEN output = {} /\ savingFaults < MaxSavingFaults /\ savingFaults' = savingFaults + 1
                    ELSE output = Output(n) /\ UNCHANGED savingFaults

Reads(c, output, failures) ==
    [saving[c] EXCEPT !.out = Append(@, output), !.lost = @ + failures]

\* A command of the first readChangeState; without the tree of the index the
\* snapshot is incomplete.
ReadFirst(c) ==
    LET n == Len(saving[c].out) + 1 IN
    /\ SaverAt(c, "first")
    /\ \E output \in {Output(n), {}}, failures \in 0..1 :
          /\ RunGit(n, output, failures)
          /\ SaverGoes(c, [Reads(c, output, failures) EXCEPT !.at = IF n = 4 THEN "files" ELSE @,
                                                    !.failed = @ \/ (n = 4 /\ output = {})])
    /\ UNCHANGED <<person, moments, points, restoring, begun, restores>>

\* The untracked files of the status are read one after the other; a file that
\* is gone makes the snapshot incomplete.
Listed(c) == File \cap saving[c].out[1]
ReadUntracked(c) ==
    /\ SaverAt(c, "files")
    /\ \E f \in Listed(c) \ {e[1] : e \in saving[c].file} :
          SaverGoes(c, [saving[c] EXCEPT !.file = @ \cup {<<f, work.file[f]>>}, !.failed = @ \/ work.file[f] = 0])
    /\ UNCHANGED <<person, moments, points, restoring, begun, restores, savingFaults>>

AllRead(c) == SaverAt(c, "files") /\ {e[1] : e \in saving[c].file} = Listed(c)

\* The key under which a point is found again: HEAD, references, status, the
\* two patches, the files.
ReuseKey(c) == <<saving[c].base, saving[c].refs, saving[c].out[1], saving[c].out[2], saving[c].out[3], saving[c].file>>

Reusable(c) ==
    {p \in points : p.isReadable /\ p.key = ReuseKey(c) /\ p.status = "ready" /\ ~p.isRestored}

\* findReusablePreservationPoint finds one: it is the answer, as it is.
ReusePoint(c) ==
    /\ AllRead(c) /\ Reusable(c) # {} /\ SaverReturns(c)
    /\ UNCHANGED <<person, points, restoring, begun, restores, savingFaults>>

\* Files, patches and the bundle of all objects are written to a temporary
\* directory and read back; what cannot be written makes the point incomplete,
\* and so does a clone that is shallow or sparse, has submodules or uses LFS.
WriteSnapshot(c) ==
    /\ AllRead(c) /\ Reusable(c) = {}
    /\ \E isPartial \in BOOLEAN : SaverGoes(c, [saving[c] EXCEPT !.at = "second", !.failed = @ \/ isPartial])
    /\ UNCHANGED <<person, moments, points, restoring, begun, restores, savingFaults>>

\* The commands once more, to detect that the repository was changed meanwhile.
ReadSecond(c) ==
    LET n == Len(saving[c].out) - 3 IN
    /\ SaverAt(c, "second") /\ n <= 4
    /\ \E output \in {Output(n), {}}, failures \in 0..1 :
          RunGit(n, output, failures) /\ SaverGoes(c, Reads(c, output, failures))
    /\ UNCHANGED <<person, moments, points, restoring, begun, restores>>

\* Mutant: the index and the tree are not compared again.
IsUnmodifiedStatus(c) == saving[c].out[1] = saving[c].out[5]

\* computeChangeFingerprint of both readings.
IsUnmodified(c) == \A n \in 1..4 : saving[c].out[n] = saving[c].out[n + 4]

IsComplete(c) == ~saving[c].failed /\ IsUnmodified(c)

\* publishManifest: the directory is renamed, with everything in it.
Publish(c) ==
    LET p == NewPoint(saving[c].id, IF IsComplete(c) THEN "ready" ELSE "incomplete", ReuseKey(c), saving[c].lost)
    IN /\ SaverAt(c, "second") /\ Len(saving[c].out) = 8
       /\ points' = points \cup {p} /\ SaverReturns(c)
       /\ UNCHANGED <<person, restoring, begun, restores, savingFaults>>

\* The process ends, a write throws, or the rename fails five times: a
\* temporary directory is left, which nobody lists.
Abandon(c) ==
    /\ ~SaverAt(c, "idle") /\ savingFaults < MaxSavingFaults /\ savingFaults' = savingFaults + 1
    /\ SaverReturns(c)
    /\ UNCHANGED <<person, points, restoring, begun, restores>>

-----------------------------------------------------------------------------
(* Restoring a point.                                                      *)

Replace(p, q) == points' = (points \ {p}) \cup {q}

\* readPreservationPoint with its hash, and the clone of the bundle, reset to
\* the base; the rewriting of the manifest begins with an empty file.
Restore ==
    /\ restoring = {} /\ restores < MaxRestores /\ restores' = restores + 1
    /\ \E p \in points :
          /\ p.isReadable /\ p.status # "failed"
          /\ LET q == [p EXCEPT !.isReadable = FALSE] IN Replace(p, q) /\ restoring' = {q}
    /\ UNCHANGED <<person, saving, moments, begun, savingFaults>>

\* writeManifestFiles, with the time of the restoration.
RestoreEnds ==
    /\ \E p \in restoring : Replace(p, [p EXCEPT !.isReadable = TRUE, !.isRestored = TRUE])
    /\ restoring' = {}
    /\ UNCHANGED <<person, saving, moments, begun, restores, savingFaults>>

\* The process ends while the manifest is written in place.
RestoreCrashes ==
    /\ restoring # {} /\ restoring' = {} /\ savingFaults < MaxSavingFaults /\ savingFaults' = savingFaults + 1
    /\ UNCHANGED <<person, saving, moments, points, begun, restores>>

PreservationNext ==
    \/ PersonWorks \/ Restore \/ RestoreEnds \/ RestoreCrashes
    \/ \E c \in Saver : \/ ReadHead(c) \/ ReadReferences(c) \/ NoRepository(c) \/ ReadFirst(c)
                         \/ ReadUntracked(c) \/ ReusePoint(c) \/ WriteSnapshot(c) \/ ReadSecond(c) \/ Publish(c) \/ Abandon(c)

PreservationSpec == PreservationInit /\ [][PreservationNext]_preservationVars
-----------------------------------------------------------------------------
\* What a restoration of the snapshot a call has read gives: HEAD reset to the
\* base, with the patches applied and the files copied.
Cached(c) == saving[c].out[2]
Unstaged(c) == saving[c].out[3]
After(from, patch) == IF patch = {} THEN from ELSE (CHOOSE e \in patch : TRUE)[2]
Restored(c) ==
    LET index == After(saving[c].base, Cached(c)) IN
    [head |-> saving[c].base, index |-> index, tree |-> After(index, Unstaged(c)),
     file |-> [f \in File |-> IF f \in Listed(c) THEN (CHOOSE e \in saving[c].file : e[1] = f)[2] ELSE 0]]

\* The call is about to answer with a point that is ready, new or found again,
\* and every git command it and that point rest on has succeeded.
AnswersReady(c) ==
    /\ saving[c].lost = 0
    /\ \/ SaverAt(c, "second") /\ Len(saving[c].out) = 8 /\ IsComplete(c)
       \/ AllRead(c) /\ \E p \in Reusable(c) : p.lost = 0

PreservationTypeOK ==
    /\ \A p, q \in points : p.id = q.id => p = q
    /\ \A c \in Saver : Len(saving[c].out) <= 8 /\ (SaverAt(c, "idle") <=> moments[c] = {})
    /\ \A p \in restoring : p \in points /\ ~p.isReadable

\* The two patches of a point that is ready are of one moment of the call: the
\* second reading, or the status in the key, notices what a person changed
\* between the commands.
PatchesAreOfOneMoment ==
    \A c \in Saver : AnswersReady(c) =>
        \E m \in moments[c] : Cached(c) = Patch(m.head, m.index) /\ Unstaged(c) = Patch(m.index, m.tree)

\* What a point that is ready restores is what the repository was at one moment
\* of the call.
ReadyIsAMoment == \A c \in Saver : AnswersReady(c) => Restored(c) \in moments[c]

PreservationInv == PreservationTypeOK /\ PatchesAreOfOneMoment
=============================================================================
