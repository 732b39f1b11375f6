-------------------------------- MODULE Guidance --------------------------------
(***************************************************************************)
(* Directions given to running workers (runtime-guidance): their           *)
(* acceptance, the control queue that all workers of the process share,    *)
(* and the journal of submissions other processes read.                    *)
(*                                                                         *)
(* Accepting and consuming are synchronous.  The journal is read, changed  *)
(* and written back (a rename) by calls that do not wait for each other.   *)
(***************************************************************************)
EXTENDS Naturals, FiniteSets

CONSTANTS
    Event,         \* guidance events
    Identifier,
    WorkerTask,    \* tasks whose workers reach safe points
    IdOf,          \* IdOf[e]: guidanceIdentifier
    RevisionOf,    \* RevisionOf[e]: guidanceRevision
    SequenceOf,    \* SequenceOf[e]: sequence
    ScopeOf,       \* ScopeOf[e]: the task e is for
    RecordOnly,    \* events of the tier "record-only"
    MayExpire,     \* events with a time of expiry
    MaxUpserts,    \* bound: calls that change the journal at the same time
    MaxDeliveries  \* bound: how many events are delivered a second time

ASSUME GuidanceAssumption ==
    /\ IdOf \in [Event -> Identifier] /\ ScopeOf \in [Event -> WorkerTask]
    /\ RevisionOf \in [Event -> Nat \ {0}] /\ SequenceOf \in [Event -> Nat \ {0}]
    /\ RecordOnly \subseteq Event /\ MayExpire \subseteq Event
    /\ \A e, f \in Event : IdOf[e] = IdOf[f] /\ RevisionOf[e] = RevisionOf[f] => e = f
    /\ MaxDeliveries \in Nat /\ MaxUpserts \in Nat

VARIABLES
    lastSequence,  \* of the source
    revision,      \* latestRevisionByGuidanceIdentifier; 0 for none
    seen,          \* appliedGuidanceRevisions: events accepted before
    waiting,       \* pending
    applied,       \* applied
    verdict,       \* statusByIdentifier: the status of each event
    expired,       \* events whose time is over
    submissions,   \* the journal: the status of each event it has an entry of
    upserts,       \* calls that change the journal, with what they have read
    submitted,     \* events the caller of submitRuntimeGuidance knows as accepted
    applications,  \* history: how often an event was put before a model
    refused,       \* history: events a safe point has dropped
    redelivered,   \* history: events delivered again after their acceptance
    raced          \* history: has a write removed what another had written

guidanceVars == <<lastSequence, revision, seen, waiting, applied, verdict, expired,
                  submissions, upserts, submitted, applications, refused, redelivered, raced>>

Unread == [e \in {} |-> "none"]

Upsert(kind, e, s) == [kind |-> kind, event |-> e, status |-> s, read |-> Unread]

GuidanceInit ==
    /\ lastSequence = 0 /\ revision = [i \in Identifier |-> 0]
    /\ seen = {} /\ waiting = {} /\ applied = {} /\ expired = {}
    /\ verdict = [e \in Event |-> "none"]
    /\ submissions = [e \in Event |-> "none"]
    /\ upserts = {} /\ submitted = {}
    /\ applications = [e \in Event |-> 0]
    /\ refused = {} /\ redelivered = {} /\ raced = FALSE

----------------------------------------------------------------------------
(* Acceptance.  Events are those that pass the checks of source, tier,     *)
(* scope, propagation and priority; the others are refused without effect. *)

\* acceptGuidance: a delivery seen before needs no new sequence or revision.
Acceptable(e) ==
    /\ e \notin expired
    /\ e \in seen \/ (SequenceOf[e] > lastSequence /\ RevisionOf[e] > revision[IdOf[e]])

Superseded(e) ==
    {f \in Event : IdOf[f] = IdOf[e] /\ RevisionOf[f] = revision[IdOf[e]]
                       /\ RevisionOf[e] > RevisionOf[f] /\ verdict[f] # "none"}

FirstStatus(e) == IF e \in RecordOnly THEN "applied" ELSE "queued"

\* enqueueControlGuidance: what is superseded only changes its status, it
\* stays in the queue; what is delivered again is queued again.
Accepts(e) ==
    /\ seen' = seen \cup {e}
    /\ IF e \in seen
       THEN UNCHANGED <<lastSequence, revision>>
       ELSE lastSequence' = SequenceOf[e] /\ revision' = [revision EXCEPT ![IdOf[e]] = RevisionOf[e]]
    /\ verdict' = [f \in Event |-> IF f = e THEN FirstStatus(e)
                                   ELSE IF f \in Superseded(e) THEN "superseded"
                                   ELSE verdict[f]]
    /\ waiting' = IF e \in RecordOnly THEN waiting ELSE waiting \cup {e}
    /\ UNCHANGED <<applied, expired, submissions, applications, refused, raced>>

\* onStatusChanged: every status but "queued" is written in the background.
Noted(statuses) == {Upsert("background", e, statuses[e]) : e \in DOMAIN statuses}

\* submitRuntimeGuidance: it returns when the journal is written.
Submit(e) ==
    /\ e \notin seen /\ Acceptable(e)
    /\ Accepts(e)
    /\ upserts' = upserts \cup {Upsert("submission", e, FirstStatus(e))}
                      \cup Noted([f \in RecordOnly \cap {e} |-> "applied"])
    /\ UNCHANGED <<submitted, redelivered>>

\* The transport delivers an event once more.
DeliverAgain(e) ==
    /\ e \in seen \ redelivered /\ Acceptable(e) /\ Cardinality(redelivered) < MaxDeliveries
    /\ Accepts(e)
    /\ redelivered' = redelivered \cup {e}
    /\ upserts' = upserts \cup Noted([f \in RecordOnly \cap {e} |-> "applied"])
    /\ UNCHANGED submitted

Expire(e) ==
    /\ e \in MayExpire \ expired /\ expired' = expired \cup {e}
    /\ UNCHANGED <<lastSequence, revision, seen, waiting, applied, verdict, submissions,
                   upserts, submitted, applications, refused, redelivered, raced>>

----------------------------------------------------------------------------
(* Safe points.                                                            *)

\* Mutant: what was applied before is applied again.
AppliedNowTwice(t) == {e \in waiting : ScopeOf[e] = t /\ e \notin expired}

AppliedNow(t) == {e \in waiting \ applied : ScopeOf[e] = t /\ e \notin expired}

\* What is for another task is dropped, whether or not its worker runs.
DroppedNow(t) == waiting \ (applied \cup AppliedNow(t))

\* consumeAtSafePoint, called before a model call or a tool of the worker of
\* t: the queue is empty afterwards.
SafePoint(t) ==
    /\ waiting # {} /\ waiting' = {}
    /\ applied' = applied \cup AppliedNow(t)
    /\ applications' = [e \in Event |-> applications[e] + IF e \in AppliedNow(t) THEN 1 ELSE 0]
    /\ refused' = refused \cup DroppedNow(t)
    /\ verdict' = [e \in Event |-> IF e \in AppliedNow(t) THEN "applied"
                                   ELSE IF e \in DroppedNow(t) THEN "dropped"
                                   ELSE verdict[e]]
    /\ upserts' = upserts \cup Noted([e \in AppliedNow(t) \cup DroppedNow(t) |-> verdict'[e]])
    /\ UNCHANGED <<lastSequence, revision, seen, expired, submissions, submitted,
                   redelivered, raced>>

----------------------------------------------------------------------------
(* The journal.                                                            *)

JournalReads(u) ==
    /\ u \in upserts /\ u.read = Unread
    /\ upserts' = (upserts \ {u}) \cup {[u EXCEPT !.read = submissions]}
    /\ UNCHANGED <<lastSequence, revision, seen, waiting, applied, verdict, expired,
                   submissions, submitted, applications, refused, redelivered, raced>>

\* Mutant: an entry that is there is not replaced.
WrittenOnce(u) == [u.read EXCEPT ![u.event] = IF @ = "none" THEN u.status ELSE @]

Written(u) == [u.read EXCEPT ![u.event] = u.status]

JournalWrites(u) ==
    /\ u \in upserts /\ u.read # Unread
    /\ upserts' = upserts \ {u}
    /\ submissions' = Written(u)
    /\ submitted' = IF u.kind = "submission" THEN submitted \cup {u.event} ELSE submitted
    /\ raced' = (raced \/ u.read # submissions
                   \/ \E w \in upserts \ {u} : w.event = u.event /\ w.status # u.status)
    /\ UNCHANGED <<lastSequence, revision, seen, waiting, applied, verdict, expired,
                   applications, refused, redelivered>>

GuidanceNext ==
    \/ /\ \/ \E e \in Event : Submit(e) \/ DeliverAgain(e) \/ Expire(e)
          \/ \E t \in WorkerTask : SafePoint(t)
       /\ Cardinality(upserts') <= MaxUpserts
    \/ \E u \in upserts : JournalReads(u) \/ JournalWrites(u)

GuidanceSpec == GuidanceInit /\ [][GuidanceNext]_guidanceVars

----------------------------------------------------------------------------
(* Properties.                                                             *)

Verdict == {"none", "queued", "applied", "dropped", "superseded"}

GuidanceTypeOK ==
    /\ lastSequence \in Nat /\ revision \in [Identifier -> Nat]
    /\ {seen, waiting, applied, expired, submitted, refused, redelivered} \subseteq SUBSET Event
    /\ verdict \in [Event -> Verdict]
    /\ submissions \in [Event -> Verdict \ {"superseded"}]
    /\ \A u \in upserts : u.event \in Event /\ u.read \in {Unread, submissions} \cup [Event -> Verdict]

\* However often an event is delivered, superseded or outrun by its expiry, a
\* model sees it once; and what a safe point has dropped no later one applies,
\* unless the event was delivered again.
AppliedOnce ==
    \A e \in Event :
        /\ applications[e] <= 1
        /\ applications[e] = 1 /\ e \in refused => e \in redelivered

\* When no call is under way and none has overwritten another's work, the
\* journal says of every submission what the queue says; that something was
\* superseded, or queued again by a repeated delivery, is not written.
QuietJournalIsCurrent ==
    upserts = {} /\ ~raced =>
        \A e \in seen :
            submissions[e] = verdict[e] \/ verdict[e] = "superseded" \/ e \in redelivered

\* What the acceptance, the queue and the journal remember of an event agrees.
GuidanceInv == GuidanceTypeOK /\ AppliedOnce /\ QuietJournalIsCurrent
==============================================================================
