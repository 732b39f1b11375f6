------------------------- MODULE CrossProjectImport -------------------------
(***************************************************************************)
(* orchestration/cross-project-authorization-store.ts and its entries in   *)
(* public-sdk.ts: a resource of one project is read, or copied into        *)
(* another one, under an authorization a user has granted.  A copy leaves  *)
(* a receipt, under a key that contains the hash of the content, so that   *)
(* it is made once.  One resource, one place for its copy, one             *)
(* authorization.  Reading goes through a store of its own over the same   *)
(* file (getCrossProjectTransferService).                                  *)
(***************************************************************************)
EXTENDS Naturals

CONSTANTS
    Importer,
    MaxChanges,     \* changes of the resource, and of the copy by a person
    MaxImportCalls, \* calls
    MaxImportFaults \* failing steps of a copy, ends of the process

ASSUME CrossAssumption == MaxChanges \in Nat

VARIABLES
    source, target,     \* contents of the resource and of the place of the copy
    memory, disk,       \* the authorization and the receipts, by content
    loaded,             \* how far the store is with reading its file
    queue, writing,     \* persists that wait, and the document being written
    reader,             \* the reading service's store
    importing,          \* per caller: where its call is, and with what content
    inherited,          \* contents whose placeholder was read from the file
    stranded,           \* history: contents whose import ended by an error nobody catches
    copied, reused,     \* contents an import has written; those reported as reused
    changes, importCalls, importFaults

crossVars == <<source, target, memory, disk, loaded, inherited, stranded, queue, writing, reader, importing,
               copied, reused, changes, importCalls, importFaults>>
storage == <<memory, disk, loaded, inherited, stranded, queue, writing>>
places == <<source, target, copied>>
bounds == <<changes, importCalls, importFaults>>

\* What an import declares is the hash of the resource, or of nothing when that cannot be read.
Absent == 0
Human == 1
ResourceContent == 2..(MaxChanges + 2)
Declared == ResourceContent \cup {Absent}
NoReceipts == [k \in Declared |-> "none"]
NoImport == [at |-> "idle", content |-> Absent]

CrossInit ==
    /\ source = 2 /\ target = Absent
    /\ memory = [granted |-> FALSE, receipt |-> NoReceipts] /\ disk = memory
    /\ loaded = "no" /\ inherited = {} /\ stranded = {} /\ queue = 0 /\ writing = {} /\ reader = "no"
    /\ importing = [c \in Importer |-> NoImport]
    /\ copied = {} /\ reused = {}
    /\ changes = 0 /\ importCalls = 0 /\ importFaults = 0

ImportAt(c, place) == importing[c].at = place
ImportGoes(c, place) == importing' = [importing EXCEPT ![c].at = place]
ImportEnds(c) == importing' = [importing EXCEPT ![c] = NoImport]

\* enqueuePersist: the document is built when the writes before it have ended.
EnqueuePersist == queue' = queue + 1 /\ UNCHANGED <<disk, loaded, inherited, stranded, writing>>

-----------------------------------------------------------------------------
(* External: the owners of the two projects.                               *)

Change ==
    /\ changes < MaxChanges /\ changes' = changes + 1
    /\ \/ source' = source + 1 /\ UNCHANGED target
       \/ target' = Human /\ UNCHANGED source
    /\ UNCHANGED <<storage, reader, importing, copied, reused, importCalls, importFaults>>

-----------------------------------------------------------------------------
(* The store.                                                              *)

\* A call begins; an import has read the resource to declare its content, if it could.
Begin(c) ==
    /\ ImportAt(c, "idle") /\ importCalls < MaxImportCalls /\ importCalls' = importCalls + 1
    /\ \E kind \in {"grant", "import", "reading"}, declared \in {source, Absent} :
          importing' = [importing EXCEPT ![c] = [at |-> kind, content |-> declared]]
    /\ UNCHANGED <<storage, places, reader, reused, changes, importFaults>>

\* loadFromDisk: the store counts as loaded from before the file is read, so
\* that only the first call waits for it.
Load(c) ==
    /\ importing[c].at \in {"grant", "import"} /\ loaded = "no" /\ loaded' = "loading"
    /\ ImportGoes(c, IF ImportAt(c, "grant") THEN "grant-loads" ELSE "import-loads")
    /\ UNCHANGED <<memory, disk, inherited, stranded, queue, writing, places, reader, reused, bounds>>

Merged == [granted |-> memory.granted \/ disk.granted,
           receipt |-> [k \in Declared |-> IF disk.receipt[k] = "none" THEN memory.receipt[k]
                                                              ELSE disk.receipt[k]]]
LoadEnds(c) ==
    /\ importing[c].at \in {"grant-loads", "import-loads"} /\ loaded' = "yes"
    /\ ImportGoes(c, IF ImportAt(c, "grant-loads") THEN "grant" ELSE "import")
    /\ memory' = Merged /\ inherited' = {k \in Declared : disk.receipt[k] = "pending"}
    /\ UNCHANGED <<disk, stranded, queue, writing, places, reader, reused, bounds>>

\* grantAuthorization.
Grant(c) ==
    /\ ImportAt(c, "grant") /\ loaded # "no"
    /\ memory' = [memory EXCEPT !.granted = TRUE] /\ EnqueuePersist /\ ImportEnds(c)
    /\ UNCHANGED <<places, reader, reused, bounds>>

PersistBegins ==
    /\ queue > 0 /\ writing = {} /\ writing' = {memory} /\ queue' = queue - 1
    /\ UNCHANGED <<memory, disk, loaded, inherited, stranded, places, reader, importing, reused, bounds>>

PersistEnds ==
    /\ \E document \in writing : disk' = document
    /\ writing' = {}
    /\ UNCHANGED <<memory, loaded, inherited, stranded, queue, places, reader, importing, reused, bounds>>

-----------------------------------------------------------------------------
(* importCopy.                                                             *)

Receipt(c) == memory.receipt[importing[c].content]
SetReceipt(c, r) == memory' = [memory EXCEPT !.receipt[importing[c].content] = r]

\* The authorization is refused, or a receipt is there and reused, or the
\* placeholder of this call takes its place: one stretch without I/O.
ImportRefused(c) ==
    /\ ImportAt(c, "import") /\ loaded # "no" /\ ~memory.granted /\ ImportEnds(c)
    /\ UNCHANGED <<storage, places, reader, reused, bounds>>

ReuseReceipt(c) ==
    /\ ImportAt(c, "import") /\ loaded # "no" /\ memory.granted /\ Receipt(c) # "none"
    /\ LET k == importing[c].content IN
          reused' = reused \cup {[content |-> k, isCopied |-> k \in copied]}
    /\ ImportEnds(c)
    /\ UNCHANGED <<storage, places, reader, bounds>>

Claim(c) ==
    /\ ImportAt(c, "import") /\ loaded # "no" /\ memory.granted /\ Receipt(c) = "none"
    /\ SetReceipt(c, "pending") /\ ImportGoes(c, "claimed")
    /\ UNCHANGED <<disk, loaded, inherited, stranded, queue, writing, places, reader, reused, bounds>>

\* releaseCopyReceiptClaim: only a placeholder is removed.
Released(c) ==
    IF Receipt(c) = "pending" THEN SetReceipt(c, "none") /\ EnqueuePersist
                              ELSE UNCHANGED storage
GivesUp(c) == Released(c) /\ ImportEnds(c)

\* The content is the declared one, or the call gives up.
ReadSource(c) ==
    /\ ImportAt(c, "claimed")
    /\ \/ source = importing[c].content /\ ImportGoes(c, "read") /\ UNCHANGED storage
       \/ source # importing[c].content /\ GivesUp(c)
    /\ UNCHANGED <<places, reader, reused, bounds>>

\* Mutant: a copy that a person has changed is refused without releasing.
GivesUpSilently(c) == ImportEnds(c) /\ UNCHANGED storage

StaleTarget(c) == GivesUp(c)

\* The place is empty, or holds the content whose hash the caller has given, or without one
\* the content of this import (hasUnexpectedHumanChange).
GuardTarget(c) ==
    /\ ImportAt(c, "read")
    /\ \E expected \in ResourceContent \cup {Human} :
          \/ target \in {Absent, expected} /\ ImportGoes(c, "guarded") /\ UNCHANGED storage
          \/ target \notin {Absent, expected} /\ StaleTarget(c)
    /\ UNCHANGED <<places, reader, reused, bounds>>

WriteTarget(c) ==
    /\ ImportAt(c, "guarded") /\ ImportGoes(c, "written")
    /\ target' = importing[c].content /\ copied' = copied \cup {importing[c].content}
    /\ UNCHANGED <<storage, source, reader, reused, bounds>>

\* The resource is read again; recordCopyReceipt replaces the placeholder.
SettleReceipt(c) ==
    /\ ImportAt(c, "written")
    /\ \/ source = importing[c].content /\ SetReceipt(c, "real") /\ EnqueuePersist /\ ImportEnds(c)
       \/ source # importing[c].content /\ GivesUp(c)
    /\ UNCHANGED <<places, reader, reused, bounds>>

Working == {"claimed", "read", "guarded", "written"}

\* A path is not the declared one, or a read or write fails.
Fails(c) ==
    /\ importing[c].at \in Working /\ GivesUp(c)
    /\ importFaults < MaxImportFaults /\ importFaults' = importFaults + 1
    /\ UNCHANGED <<places, reader, reused, changes, importCalls>>

\* Asking whether the resource or the copy exists is outside of any try.  The port in use throws
\* there for a path it does not let through: it has not been read to declare its content either.
\* The call is gone and its placeholder stays.
Throws(c) ==
    /\ importing[c].at \in {"claimed", "written"} /\ ImportEnds(c)
    /\ stranded' = stranded \cup {importing[c].content}
    /\ IF importing[c].content = Absent THEN UNCHANGED importFaults
       ELSE importFaults < MaxImportFaults /\ importFaults' = importFaults + 1
    /\ UNCHANGED <<memory, disk, loaded, inherited, queue, writing, places, reader, reused, changes, importCalls>>

-----------------------------------------------------------------------------
(* readResource, with its own store, which has read the file once.         *)

LoadReader(c) ==
    /\ ImportAt(c, "reading") /\ reader = "no" /\ reader' = "loading" /\ ImportGoes(c, "reading-loads")
    /\ UNCHANGED <<storage, places, reused, bounds>>

ReaderLoads(c) ==
    /\ ImportAt(c, "reading-loads") /\ ImportGoes(c, "reading")
    /\ reader' = IF disk.granted THEN "with" ELSE "without"
    /\ UNCHANGED <<storage, places, reused, bounds>>

\* Without an authorization nothing is read; a grant the other store has taken
\* since is not seen.
ReadRefused(c) ==
    /\ ImportAt(c, "reading") /\ reader \in {"loading", "without"} /\ ImportEnds(c)
    /\ UNCHANGED <<storage, places, reader, reused, bounds>>

\* The resource is read twice; a content that has changed is not returned.
ReadOnce(c) ==
    /\ ImportAt(c, "reading") /\ reader = "with"
    /\ importing' = [importing EXCEPT ![c] = [at |-> "reading-again", content |-> source]]
    /\ UNCHANGED <<storage, places, reader, reused, bounds>>

ReadAgain(c) ==
    /\ ImportAt(c, "reading-again") /\ ImportEnds(c)
    /\ UNCHANGED <<storage, places, reader, reused, bounds>>

-----------------------------------------------------------------------------
\* The process ends; the next one has the file.
ProcessEnds ==
    /\ importFaults < MaxImportFaults /\ importFaults' = importFaults + 1
    /\ memory' = [granted |-> FALSE, receipt |-> NoReceipts]
    /\ loaded' = "no" /\ inherited' = {} /\ stranded' = {} /\ queue' = 0 /\ writing' = {} /\ reader' = "no"
    /\ importing' = [c \in Importer |-> NoImport]
    /\ UNCHANGED <<disk, places, reused, changes, importCalls>>

CrossNext ==
    \/ Change \/ PersistBegins \/ PersistEnds \/ ProcessEnds
    \/ \E c \in Importer : \/ Begin(c) \/ Load(c) \/ LoadEnds(c) \/ Grant(c)
                         \/ ImportRefused(c) \/ ReuseReceipt(c) \/ Claim(c) \/ ReadSource(c)
                         \/ GuardTarget(c) \/ WriteTarget(c) \/ SettleReceipt(c) \/ Fails(c) \/ Throws(c)
                         \/ LoadReader(c) \/ ReaderLoads(c) \/ ReadRefused(c)
                         \/ ReadOnce(c) \/ ReadAgain(c)

CrossSpec == CrossInit /\ [][CrossNext]_crossVars

-----------------------------------------------------------------------------
\* A receipt that is not a placeholder, in memory or on disk, is of a content
\* that was written to the other project.
RealReceiptHasCopy ==
    \A k \in Declared : "real" \in {memory.receipt[k], disk.receipt[k]} => k \in copied

\* Two imports never work on the copy of one content at the same time, however
\* the first loading of the store, other calls and ends of the process fall
\* between them.
OneImportPerContent ==
    \A c, d \in Importer : c # d /\ importing[c].at \in Working /\ importing[d].at \in Working =>
        importing[c].content # importing[d].content

\* Every way out of an import settles its receipt or gives its placeholder back, but one: a
\* placeholder without an import that works on it was read from the file, or its import ended
\* by an error of asking whether a file exists.
PlaceholderHasImport ==
    \A k \in Declared : memory.receipt[k] = "pending" =>
        \/ \E c \in Importer : importing[c].at \in Working /\ importing[c].content = k
        \/ k \in inherited \cup stranded

CrossInv == RealReceiptHasCopy /\ OneImportPerContent /\ PlaceholderHasImport

\* An import that is told its copy exists can find it.
ReusedIsCopied == \A r \in reused : r.isCopied
=============================================================================
