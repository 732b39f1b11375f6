------------------------------ MODULE SummaryIndex ------------------------------
(***************************************************************************)
(* The summary of what the agents of one mission have recorded:            *)
(* summarizeArchivedMission of public-sdk.ts reads their archives one after   *)
(* the other, advanceSummaryGeneration drafts the facts the manifest lacks,  *)
(* and SummaryIndexStore publishes a manifest with a comparison of its     *)
(* revision.  Each call has a store, and with it a lock, of its own.         *)
(*                                                                         *)
(* An item is the number of its record in the order of the times it        *)
(* carries, which is the order the code sorts by; the file with it may be  *)
(* written later.  A fact is an item under the revision it has in the      *)
(* entries of one call.  A chunk holds one fact.  The narrative, which a   *)
(* local function makes of the facts, the fingerprints and the backups,    *)
(* which nothing needs since the files are replaced whole, are left out.   *)
(***************************************************************************)
EXTENDS Naturals, FiniteSets, Sequences

CONSTANTS
    Archives,           \* the agents, in the order their directories are listed
    Caller,             \* calls at a time
    MaxItems, MaxSummaryCalls, MaxSummaryCrashes

VARIABLES
    author,         \* per item: who has recorded it
    written,        \* the items in archive files
    manifest,       \* manifest.json, or NoManifest
    draft,          \* pending.json, or NoDraft
    summarizer,     \* per call: where it is, and what it has read
    page,           \* the manifest a reader of pages has begun with
    summarized,     \* items a call has read and reported as summarised
    torn,           \* a call read an item without an earlier one
    overlapped,     \* two calls were between the comparison and the rename
    barred,         \* a call found two facts for one revision
    stitched,       \* a reader was given pages of two manifests
    summaryCalls, summaryCrashes

summaryVars == <<author, written, manifest, draft, summarizer, page, summarized, torn, overlapped,
                 barred, stitched, summaryCalls, summaryCrashes>>

NoManifest == [revision |-> 0, chunks |-> << >>]    \* no chunks
NoDraft == [facts |-> {}, narrated |-> FALSE]       \* a draft always has facts
NoSummary ==
    [at |-> "idle", listed |-> {}, items |-> {}, base |-> NoManifest, old |-> NoDraft, new |-> NoDraft]

SummaryInit ==
    /\ author = << >> /\ written = {} /\ manifest = NoManifest /\ draft = NoDraft
    /\ summarizer = [c \in Caller |-> NoSummary] /\ page = NoManifest
    /\ summarized = {} /\ torn = FALSE /\ overlapped = FALSE /\ barred = FALSE /\ stitched = FALSE
    /\ summaryCalls = 0 /\ summaryCrashes = 0

SummaryIs(c, place) == summarizer[c].at = place
SummaryGoes(c, place) == summarizer' = [summarizer EXCEPT ![c].at = place]
SummaryEnds(c) == summarizer' = [summarizer EXCEPT ![c] = NoSummary]

-----------------------------------------------------------------------------
(* Sources.                                                                *)

Archive(agent) == {i \in written : author[i] = agent}

\* appendEntry, one call of an agent at a time: the time, and the write.
AgentRecords(agent) ==
    /\ Len(author) < MaxItems /\ \A i \in DOMAIN author : author[i] = agent => i \in written
    /\ author' = Append(author, agent)
    /\ UNCHANGED <<written, manifest, draft, summarizer, page, summarized, torn, overlapped, barred,
                   stitched, summaryCalls, summaryCrashes>>

AgentWrites(i) ==
    /\ written' = written \cup {i}
    /\ UNCHANGED <<author, manifest, draft, summarizer, page, summarized, torn, overlapped, barred,
                   stitched, summaryCalls, summaryCrashes>>

ListArchives(c) ==
    /\ SummaryIs(c, "idle") /\ summaryCalls < MaxSummaryCalls /\ summaryCalls' = summaryCalls + 1
    /\ summarizer' = [summarizer EXCEPT ![c].at = "archives",
                                        ![c].listed = {n \in DOMAIN Archives : Archive(Archives[n]) # {}}]
    /\ UNCHANGED <<author, written, manifest, draft, page, summarized, torn, overlapped, barred,
                   stitched, summaryCrashes>>

ReadArchive(c) ==
    /\ SummaryIs(c, "archives")
    /\ \E n \in summarizer[c].listed :
          /\ \A other \in summarizer[c].listed : n <= other
          /\ summarizer' = [summarizer EXCEPT ![c].listed = @ \ {n},
                                              ![c].items = @ \cup Archive(Archives[n])]
    /\ UNCHANGED <<author, written, manifest, draft, page, summarized, torn, overlapped, barred,
                   stitched, summaryCalls, summaryCrashes>>

\* buildWorkArchiveSummaryEntries numbers what was read from one.
Entries(items) == {[revision |-> Cardinality({j \in items : j <= i}), item |-> i] : i \in items}

-----------------------------------------------------------------------------
(* advanceSummaryGeneration.                                               *)

Covered(m) == DOMAIN m.chunks

ReadManifest(c) ==
    /\ SummaryIs(c, "archives") /\ summarizer[c].listed = {}
    /\ summarizer' = [summarizer EXCEPT ![c].at = "draft", ![c].base = manifest]
    /\ torn' = (torn \/ \E i \in summarizer[c].items : ~(1..i \subseteq summarizer[c].items))
    /\ UNCHANGED <<author, written, manifest, draft, page, summarized, overlapped, barred,
                   stitched, summaryCalls, summaryCrashes>>

ReadDraft(c) ==
    /\ SummaryIs(c, "draft")
    /\ summarizer' = [summarizer EXCEPT ![c].at = "extract", ![c].old = draft]
    /\ UNCHANGED <<author, written, manifest, draft, page, summarized, torn, overlapped, barred,
                   stitched, summaryCalls, summaryCrashes>>

Extracted(c) ==
    {f \in Entries(summarizer[c].items) :
        f.revision \notin Covered(summarizer[c].base) /\ f \notin summarizer[c].old.facts}

NothingNew(c) ==
    /\ SummaryIs(c, "extract") /\ Extracted(c) = {} /\ summarizer[c].old = NoDraft
    /\ summarized' = summarized \cup summarizer[c].items /\ SummaryEnds(c)
    /\ UNCHANGED <<author, written, manifest, draft, page, torn, overlapped, barred, stitched,
                   summaryCalls, summaryCrashes>>

WriteDraft(c) ==
    /\ SummaryIs(c, "extract") /\ (Extracted(c) # {} \/ summarizer[c].old # NoDraft)
    /\ draft' = [summarizer[c].old EXCEPT !.facts = @ \cup Extracted(c)]
    /\ summarizer' = [summarizer EXCEPT ![c].new = draft',
                                        ![c].at = IF summarizer[c].old.narrated THEN "publish" ELSE "narrate"]
    /\ UNCHANGED <<author, written, manifest, page, summarized, torn, overlapped, barred,
                   stitched, summaryCalls, summaryCrashes>>

WriteNarrative(c) ==
    /\ SummaryIs(c, "narrate")
    /\ draft' = [summarizer[c].new EXCEPT !.narrated = TRUE]
    /\ summarizer' = [summarizer EXCEPT ![c].new = draft', ![c].at = "publish"]
    /\ UNCHANGED <<author, written, manifest, page, summarized, torn, overlapped, barred,
                   stitched, summaryCalls, summaryCrashes>>

\* A draft that was found is published with the rest.
NewFacts(c) == summarizer[c].new.facts \ summarizer[c].old.facts
Facts(c) == {f \in summarizer[c].new.facts : f.revision \notin Covered(summarizer[c].base)}

\* appendSummarySource, once for each fact, refuses a second one of a revision.
Contradictory(facts) == \E f, g \in facts : f # g /\ f.revision = g.revision
Appended(m, facts) ==
    LET revisions == {f.revision : f \in facts}
        ItemOf(r) == (CHOOSE f \in facts : f.revision = r).item
    IN [revision |-> (IF m = NoManifest THEN 1 ELSE m.revision) + Cardinality(facts),
        chunks |-> [r \in Covered(m) \cup revisions |->
                       IF r \in revisions THEN ItemOf(r) ELSE m.chunks[r]]]

AppendFails(c) ==
    /\ SummaryIs(c, "publish") /\ Contradictory(Facts(c))
    /\ barred' = TRUE /\ SummaryEnds(c)
    /\ UNCHANGED <<author, written, manifest, draft, page, summarized, torn, overlapped,
                   stitched, summaryCalls, summaryCrashes>>

-----------------------------------------------------------------------------
(* publishManifest: the comparison, and the rename.                        *)

AnyRevision(c) == TRUE
IsCurrent(c) == manifest.revision = summarizer[c].base.revision

Compare(c) ==
    /\ SummaryIs(c, "publish") /\ ~Contradictory(Facts(c))
    /\ IF IsCurrent(c) THEN SummaryGoes(c, "rename") ELSE SummaryEnds(c)
    /\ overlapped' = (overlapped \/ \E d \in Caller : SummaryIs(d, "rename"))
    /\ UNCHANGED <<author, written, manifest, draft, page, summarized, torn, barred, stitched,
                   summaryCalls, summaryCrashes>>

Rename(c) ==
    /\ SummaryIs(c, "rename")
    /\ manifest' = Appended(summarizer[c].base, Facts(c)) /\ SummaryGoes(c, "clear")
    /\ UNCHANGED <<author, written, draft, page, summarized, torn, overlapped, barred, stitched,
                   summaryCalls, summaryCrashes>>

\* clearPendingGeneration, whoever wrote the draft.
ClearDraft(c) ==
    /\ SummaryIs(c, "clear") /\ draft' = NoDraft
    /\ summarized' = summarized \cup summarizer[c].items /\ SummaryEnds(c)
    /\ UNCHANGED <<author, written, manifest, page, torn, overlapped, barred, stitched,
                   summaryCalls, summaryCrashes>>

\* The process of a call ends; another call may be of another process.
Dies(c) ==
    /\ ~SummaryIs(c, "idle") /\ summaryCrashes < MaxSummaryCrashes /\ summaryCrashes' = summaryCrashes + 1
    /\ SummaryEnds(c)
    /\ UNCHANGED <<author, written, manifest, draft, page, summarized, torn, overlapped, barred,
                   stitched, summaryCalls>>

-----------------------------------------------------------------------------
(* readSummaryView: the next page is of the manifest with the revision of    *)
(* the first, or is refused.                                               *)

ReadFirstPage ==
    /\ page = NoManifest /\ manifest # NoManifest /\ page' = manifest
    /\ UNCHANGED <<author, written, manifest, draft, summarizer, summarized, torn, overlapped,
                   barred, stitched, summaryCalls, summaryCrashes>>

ReadNextPage ==
    /\ page # NoManifest
    /\ IF manifest.revision = page.revision
         THEN stitched' = (stitched \/ manifest # page) /\ UNCHANGED page
         ELSE page' = NoManifest /\ UNCHANGED stitched
    /\ UNCHANGED <<author, written, manifest, draft, summarizer, summarized, torn, overlapped,
                   barred, summaryCalls, summaryCrashes>>

SummaryNext ==
    \/ \E n \in DOMAIN Archives : AgentRecords(Archives[n])
    \/ \E i \in DOMAIN author \ written : AgentWrites(i)
    \/ \E c \in Caller :
          \/ ListArchives(c) \/ ReadArchive(c) \/ ReadManifest(c) \/ ReadDraft(c) \/ NothingNew(c)
          \/ WriteDraft(c) \/ WriteNarrative(c) \/ AppendFails(c) \/ Compare(c) \/ Rename(c)
          \/ ClearDraft(c) \/ Dies(c)
    \/ ReadFirstPage \/ ReadNextPage

SummarySpec == SummaryInit /\ [][SummaryNext]_summaryVars
-----------------------------------------------------------------------------
\* As long as every call has read the archives as of one moment, and no two calls were
\* between the comparison of the revision and the rename, the manifest holds recorded
\* items, each once, under its revision, and no revision is missing: whatever calls
\* overlap, end in the middle, or go on with the draft of another.
ChunksAreTheSource == (~torn /\ ~overlapped) => \A r \in Covered(manifest) :
    manifest.chunks[r] = r /\ r \in written /\ 1..r \subseteq Covered(manifest)

\* As long as the archives were read so, no call finds a draft it cannot go on with.
NobodyIsBarred == ~torn => ~barred

\* What a call has reported as summarised stays in the manifest, under both conditions.
ReportedIsKept == (~torn /\ ~overlapped) =>
    summarized \subseteq {manifest.chunks[r] : r \in Covered(manifest)}

\* Unless calls were there at once, the pages of one revision are pages of one manifest.
PagesFit == ~overlapped => ~stitched

SummaryInv == ChunksAreTheSource /\ NobodyIsBarred /\ ReportedIsKept /\ PagesFit
=============================================================================
