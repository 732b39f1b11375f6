----------------------------- MODULE BackupVault -----------------------------
(***************************************************************************)
(* tools/backup-vault.ts, orchestration/agent-edit-intent-guard.ts and the *)
(* calls of tools/builtins.ts that use both: a file is overwritten after a *)
(* copy of it has been stored, a copy can be restored and, with the user's  *)
(* consent, deleted.  The vault is one object in memory with a manifest on  *)
(* disk; its calls are those of the workers of one process.                 *)
(*                                                                         *)
(* One file, which exists.  Contents are numbers, a new one for every write *)
(* that is no restoration; so equal fingerprints are equal contents.        *)
(***************************************************************************)
EXTENDS Naturals, FiniteSets

CONSTANTS
    Agent,              \* workers, one task and one tool call at a time each
    Keeper,             \* those of them that restore and delete backups too
    MaxFileEdits,       \* of people beside them
    MaxContents, MaxBackups,
    MaxRevisions,       \* of the manifest
    MaxVaultFaults      \* manifests that cannot be written, ends of the process

ASSUME VaultAssumption == MaxBackups \in Nat /\ Keeper \subseteq Agent

VARIABLES
    file,           \* the content of the file
    contents,       \* contents so far
    edited,         \* edits of people so far
    baseline,       \* agent-edit-intents: the content an agent started from, {} if none
    tool,           \* per agent: the tool call under way
    manifest,       \* in memory: the revision and the status of each backup
    manifestFile,
    data,           \* the directory of copies: {content} or {}
    unseen,         \* per agent: edits of people since it first read the file
    overwritten,    \* contents a tool has looked at and then overwritten
    released,       \* contents whose copy was deleted, with the user's consent or in devolve mode
    surprised,      \* a deletion met other backups than the user was asked about
    backupFaults

counts == <<contents, edited>>
tools == <<tool, manifest>>
disks == <<manifestFile, data>>
history == <<unseen, overwritten, released, surprised>>
vaultVars == <<file, counts, baseline, tools, disks, history, backupFaults>>

Backup == 1..MaxBackups
NoManifest == [revision |-> 0, status |-> [b \in Backup |-> "none"]]
NoTool == [op |-> "none", at |-> "idle", guarded |-> {}, copy |-> 0, content |-> 0, backup |-> 0,
           document |-> NoManifest]

VaultInit ==
    /\ file = 1 /\ contents = 1 /\ edited = 0 /\ baseline = [a \in Agent |-> {}]
    /\ tool = [a \in Agent |-> NoTool]
    /\ manifest = [revision |-> 1, status |-> [b \in Backup |-> "none"]]
    /\ manifestFile = manifest /\ data = [b \in Backup |-> {}]
    /\ unseen = [a \in Agent |-> {}] /\ overwritten = {} /\ released = {} /\ surprised = FALSE /\ backupFaults = 0

ToolIdle(a) == tool[a].at = "idle"
ToolGoes(a, place) == tool' = [tool EXCEPT ![a].at = place]
ToolReturns(a) == tool' = [tool EXCEPT ![a] = NoTool]
Fault == backupFaults < MaxVaultFaults /\ backupFaults' = backupFaults + 1

-----------------------------------------------------------------------------
(* readFile and the person.                                                *)

\* Mutant: a file read again moves the baseline.
BaselineOfRead(known) == {file}

\* recordReadBaseline: the first read counts.
BaselineAtRead(known) == IF known = {} THEN {file} ELSE known

ReadFile(a) ==
    /\ ToolIdle(a) /\ baseline' = [baseline EXCEPT ![a] = BaselineAtRead(@)]
    /\ UNCHANGED <<file, counts, tools, disks, history, backupFaults>>

PersonEdits ==
    /\ edited < MaxFileEdits /\ edited' = edited + 1 /\ contents < MaxContents /\ contents' = contents + 1 /\ file' = contents + 1
    /\ unseen' = [a \in Agent |-> unseen[a] \cup IF baseline[a] = {} THEN {} ELSE {contents + 1}]
    /\ UNCHANGED <<baseline, tools, disks, overwritten, released, surprised, backupFaults>>

-----------------------------------------------------------------------------
(* replaceFileContent and restoreBackup.                                   *)

\* guardOverwrite: an agent without a baseline is not stopped.  The rejected
\* content is kept as a patch, one per agent and task.
MayOverwrite(a) == baseline[a] \in {{}, {file}}

BeginReplace(a) ==
    /\ ToolIdle(a) /\ contents < MaxContents /\ MayOverwrite(a)
    /\ tool' = [tool EXCEPT ![a] = [NoTool EXCEPT !.op = "replace", !.at = "capturing",
                                                !.content = contents + 1, !.guarded = {file}]]
    /\ contents' = contents + 1
    /\ UNCHANGED <<file, edited, baseline, manifest, disks, history, backupFaults>>

\* restoreBackup: a backup that is listed and not purged, whose data is there.
BeginRestore(a, b) ==
    /\ ToolIdle(a) /\ manifest.status[b] \in {"active", "quarantined"}
    /\ \E content \in data[b] :
          tool' = [tool EXCEPT ![a] = [NoTool EXCEPT !.op = "restore", !.at = "capturing",
                                                      !.content = content]]
    /\ UNCHANGED <<file, counts, baseline, manifest, disks, history, backupFaults>>

\* createPreMutationBackup reads the file and stores what it has read.
Capture(a) ==
    /\ tool[a].at = "capturing"
    /\ tool' = [tool EXCEPT ![a].at = "storing", ![a].copy = file]
    /\ UNCHANGED <<file, counts, baseline, manifest, disks, history, backupFaults>>

\* persistManifest begins with the revision, in the step that changes the entries.
Changed(b, status) ==
    /\ manifest.revision < MaxRevisions
    /\ manifest' = [revision |-> manifest.revision + 1,
                    status |-> IF b = 0 THEN manifest.status ELSE [manifest.status EXCEPT ![b] = status]]

\* A copy gets a name nothing else has.
Unused == {b \in Backup : data[b] = {} /\ manifest.status[b] = "none"}

StoreCopyAs(a, b) ==
    /\ tool[a].at = "storing"
    /\ data' = [data EXCEPT ![b] = {tool[a].copy}] /\ Changed(b, "active")
    /\ tool' = [tool EXCEPT ![a].at = "listed", ![a].backup = b]
    /\ UNCHANGED <<file, counts, baseline, manifestFile, history, backupFaults>>

StoreCopy(a) == \E b \in Unused : (\A other \in Unused : b <= other) /\ StoreCopyAs(a, b)

\* writeAtomicJson: the document is made of the manifest after an await, and
\* renamed after more of them.
Serialise(a) ==
    /\ tool[a].at \in {"listed", "quarantined", "purged"}
    /\ tool' = [tool EXCEPT ![a].document = manifest,
                            ![a].at = CASE @ = "listed" -> "saving" [] @ = "quarantined" -> "isolating"
                                        [] @ = "purged" -> "clearing"]
    /\ UNCHANGED <<file, counts, baseline, manifest, disks, history, backupFaults>>

Saving == {"saving", "isolating", "clearing"}

Rename(a) ==
    /\ tool[a].at \in Saving /\ manifestFile' = tool[a].document
    /\ tool' = [tool EXCEPT ![a] =
          CASE @.at = "saving" /\ @.op = "replace" -> [@ EXCEPT !.at = "verifying", !.document = NoManifest]
            [] @.at = "saving" /\ @.op = "restore" -> [@ EXCEPT !.at = "writing", !.document = NoManifest]
            [] @.at = "isolating" -> [@ EXCEPT !.at = "removing", !.document = NoManifest]
            [] @.at = "clearing" -> NoTool]
    /\ UNCHANGED <<file, counts, baseline, manifest, data, history, backupFaults>>

\* The tool fails; the entry and the revision in memory stay.
SaveFails(a) ==
    /\ tool[a].at \in Saving /\ Fault /\ ToolReturns(a)
    /\ UNCHANGED <<file, counts, baseline, manifest, disks, history>>

\* Mutant: the file is not compared with its copy again.
AnyTarget(copy) == TRUE

\* verifyTargetUnchanged.
TargetUnchanged(copy) == file = copy

Verify(a) ==
    /\ tool[a].at = "verifying"
    /\ \/ TargetUnchanged(tool[a].copy)
          /\ tool' = [tool EXCEPT ![a].at = "writing", ![a].copy = file]
       \/ ~TargetUnchanged(tool[a].copy) /\ ToolReturns(a)
    /\ UNCHANGED <<file, counts, baseline, manifest, disks, history, backupFaults>>

WriteFile(a) ==
    /\ tool[a].at = "writing" /\ file' = tool[a].content
    /\ overwritten' = overwritten \cup (IF file = tool[a].copy THEN {file} ELSE {})
    /\ IF tool[a].op = "replace" THEN ToolGoes(a, "noting") ELSE ToolReturns(a)
    /\ UNCHANGED <<counts, baseline, manifest, disks, unseen, released, surprised, backupFaults>>

\* recordOwnWrite; an agent that has read nothing keeps having no baseline.
NoteOwnWrite(a) ==
    /\ tool[a].at = "noting" /\ ToolReturns(a)
    /\ baseline' = [baseline EXCEPT ![a] = IF @ = {} THEN {} ELSE {tool[a].content}]
    /\ UNCHANGED <<file, counts, manifest, disks, history, backupFaults>>

-----------------------------------------------------------------------------
(* executeDeleteBackup, for one backup.  Its document until the quarantine  *)
(* is the manifest the call has read: the revision it compares and the      *)
(* listing at that moment.                                                 *)

BeginDelete(a, b, place) ==
    /\ ToolIdle(a)
    /\ tool' = [tool EXCEPT ![a] = [NoTool EXCEPT !.op = "delete", !.at = place, !.backup = b,
                                                !.document = manifest]]
    /\ UNCHANGED <<file, counts, baseline, manifest, disks, history, backupFaults>>

\* devolve: the entry of the audit log is the only wait.
DeleteUnasked(a, b) == BeginDelete(a, b, "authorized")

\* assist: the user is asked.
AskToDelete(a, b) == manifest.status[b] # "purged" /\ BeginDelete(a, b, "asked")

\* The user allows it, and the controller finds the revision unchanged; then
\* the audit log is written.
Allowed(a) ==
    /\ tool[a].at = "asked" /\ tool[a].document.revision = manifest.revision /\ ToolGoes(a, "authorized")
    /\ UNCHANGED <<file, counts, baseline, manifest, disks, history, backupFaults>>

\* The user refuses, the answer has expired, or the revision has changed.
DeletionRefused(a) ==
    /\ tool[a].at = "asked" /\ ToolReturns(a)
    /\ UNCHANGED <<file, counts, baseline, manifest, disks, history, backupFaults>>

\* Mutant: the revision is not compared again after the audit entry.
AuthorizedAnyway(a) == TRUE

StillAuthorized(a) == tool[a].document.revision = manifest.revision

\* quarantineBackups; a backup that is not active is skipped, and with it its purge.
Quarantine(a) ==
    LET b == tool[a].backup
        found == manifest.status
    IN
    /\ tool[a].at = "authorized" /\ StillAuthorized(a)
    /\ Changed(IF found[b] = "active" THEN b ELSE 0, "quarantined")
    /\ surprised' = (surprised \/ found # tool[a].document.status)
    /\ released' = released \cup (IF found[b] = "active" THEN data[b] ELSE {})
    /\ tool' = [tool EXCEPT ![a].at = "quarantined", ![a].backup = IF found[b] = "active" THEN b ELSE 0,
                            ![a].document = NoManifest]
    /\ UNCHANGED <<file, counts, baseline, disks, unseen, overwritten, backupFaults>>

QuarantineRefused(a) ==
    /\ tool[a].at = "authorized" /\ ~StillAuthorized(a) /\ ToolReturns(a)
    /\ UNCHANGED <<file, counts, baseline, manifest, disks, history, backupFaults>>

\* purgeQuarantinedBackups, after the next entry of the audit log.
Purge(a) ==
    LET b == tool[a].backup
        purges == b # 0 /\ manifest.status[b] = "quarantined"
    IN
    /\ tool[a].at = "removing" /\ ToolGoes(a, "purged")
    /\ Changed(IF purges THEN b ELSE 0, "purged")
    /\ data' = [d \in Backup |-> IF purges /\ d = b THEN {} ELSE data[d]]
    /\ UNCHANGED <<file, counts, baseline, manifestFile, history, backupFaults>>

-----------------------------------------------------------------------------
\* initialize of the next process: the manifest is the one on disk.
VaultProcessEnds ==
    /\ Fault /\ manifest' = manifestFile /\ tool' = [a \in Agent |-> NoTool]
    /\ UNCHANGED <<file, counts, baseline, disks, history>>

VaultNext ==
    \/ PersonEdits \/ VaultProcessEnds
    \/ \E a \in Agent :
          \/ ReadFile(a) \/ BeginReplace(a) \/ Capture(a) \/ StoreCopy(a) \/ Serialise(a) \/ Rename(a)
          \/ SaveFails(a) \/ Verify(a) \/ WriteFile(a) \/ NoteOwnWrite(a)
          \/ Allowed(a) \/ DeletionRefused(a) \/ Quarantine(a) \/ QuarantineRefused(a) \/ Purge(a)
    \/ \E a \in Keeper, b \in Backup : BeginRestore(a, b) \/ DeleteUnasked(a, b) \/ AskToDelete(a, b)

VaultSpec == VaultInit /\ [][VaultNext]_vaultVars
-----------------------------------------------------------------------------
\* What a tool has looked at and overwritten is in the vault, unless its
\* copy was deleted: whatever else is stored, restored, deleted, fails or
\* ends.
PreImagesAreKept == \A content \in overwritten : content \in released \cup UNION {data[b] : b \in Backup}

\* A deletion meets the backups the user was asked about, none more and none in
\* another state.
DeletionsAreAsAsked == ~surprised

\* An agent that has read the file does not overwrite what a person wrote
\* afterwards, when it was there at the time the guard looked.
EditsAreRespected ==
    \A a \in Agent :
        tool[a].at = "writing" /\ tool[a].op = "replace" /\ file \in tool[a].guarded
            => file \notin unseen[a]

VaultInv == PreImagesAreKept /\ DeletionsAreAsAsked /\ EditsAreRespected

\* "After the read and before the backup": the copy an agent is about to make
\* room for is not a person's edit that the agent has not seen.
EditsBeforeBackupAreRespected ==
    \A a \in Agent :
        tool[a].at = "writing" /\ tool[a].op = "replace" /\ file = tool[a].copy
            => file \notin unseen[a]
=============================================================================
