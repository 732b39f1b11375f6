---------------------------- MODULE TaskSubmission ----------------------------
(***************************************************************************)
(* submitTask with an idempotency key (public-sdk.ts): the claim in the    *)
(* ledger of the process, the writes of the whole ledger to                *)
(* task-idempotency-ledger.json, which do not wait for each other, the     *)
(* start of the mission and the settlement, and the next process, which    *)
(* begins with what the file has.                                          *)
(***************************************************************************)
EXTENDS Naturals, FiniteSets

CONSTANTS
    Submission,     \* the calls a caller makes, once in each process
    KeyOf,          \* KeyOf[s]: its idempotency key
    TaskOf,         \* TaskOf[s]: its task identifier
    MaxApplications \* bound: processes of the application, one after the other

ASSUME SubmissionAssumption == MaxApplications \in Nat \ {0}

Key == {KeyOf[s] : s \in Submission}
KnownTask == {TaskOf[s] : s \in Submission}

VARIABLES
    ledger,         \* taskIdempotencyLedger: "none", "claimed" or "settled"
    stored,         \* the file
    knownTasks,     \* tasksByTaskIdentifier
    step,           \* where each call is
    snapshot,       \* the entries a write in flight carries
    startedHere,    \* history: missions this process started for a key
    started,        \* history: missions started for a key
    applications    \* bound

submission == <<ledger, stored, knownTasks, step, snapshot, startedHere, started, applications>>

NoEntries == [k \in Key |-> "none"]

SubmissionInit ==
    /\ ledger = NoEntries /\ stored = NoEntries /\ knownTasks = {}
    /\ step = [s \in Submission |-> "off"] /\ snapshot = [s \in Submission |-> NoEntries]
    /\ startedHere = [k \in Key |-> 0] /\ started = [k \in Key |-> 0] /\ applications = 1

Passes(s, from, to) == step[s] = from /\ step' = [step EXCEPT ![s] = to]

\* Mutant: the claim is entered when it has been written.
ClaimedLater(k) == ledger

Claimed(k) == [ledger EXCEPT ![k] = "claimed"]

\* The key is looked up and claimed before the first await.  A claimed key is
\* refused, a settled one answered with its task.
SubmitsTask(s) ==
    /\ IF ledger[KeyOf[s]] = "none"
       THEN Passes(s, "off", "claims") /\ ledger' = Claimed(KeyOf[s])
       ELSE Passes(s, "off", "over") /\ UNCHANGED ledger
    /\ UNCHANGED <<stored, knownTasks, snapshot, startedHere, started, applications>>

\* persistTaskIdempotencyLedger: the entries of this moment are written, and the
\* call goes on when its own write has landed.
WritesLedger(s) ==
    /\ \/ Passes(s, "claims", "writesClaim")
       \/ Passes(s, "settles", "writesSettled")
    /\ snapshot' = [snapshot EXCEPT ![s] = ledger]
    /\ UNCHANGED <<ledger, stored, knownTasks, startedHere, started, applications>>

LedgerLands(s) ==
    /\ \/ Passes(s, "writesClaim", "claimed")
       \/ Passes(s, "writesSettled", "over")
    /\ stored' = snapshot[s]
    /\ UNCHANGED <<ledger, knownTasks, snapshot, startedHere, started, applications>>

\* a task of that name is there already, or the mode is Ponder: the call ends and
\* the claim stays
EndsUnstarted(s) ==
    /\ Passes(s, "claimed", "over")
    /\ UNCHANGED <<ledger, stored, knownTasks, snapshot, startedHere, started, applications>>

StartsMission(s) ==
    /\ TaskOf[s] \notin knownTasks /\ Passes(s, "claimed", "starts")
    /\ startedHere' = [startedHere EXCEPT ![KeyOf[s]] = @ + 1]
    /\ started' = [started EXCEPT ![KeyOf[s]] = @ + 1]
    /\ UNCHANGED <<ledger, stored, knownTasks, snapshot, applications>>

\* handleUserMessage returns: the record, then the claim is settled if it is there
MissionStarted(s) ==
    /\ Passes(s, "starts", "settles")
    /\ knownTasks' = knownTasks \cup {TaskOf[s]}
    /\ ledger' = [ledger EXCEPT ![KeyOf[s]] = IF @ = "none" THEN @ ELSE "settled"]
    /\ UNCHANGED <<stored, snapshot, startedHere, started, applications>>

\* handleUserMessage throws: the claim stays as it is
MissionFails(s) ==
    /\ Passes(s, "starts", "over")
    /\ UNCHANGED <<ledger, stored, knownTasks, snapshot, startedHere, started, applications>>

\* The process ends; the next one loads the file, and its callers submit again.
NextApplication ==
    /\ applications < MaxApplications /\ applications' = applications + 1
    /\ ledger' = stored /\ knownTasks' = {}
    /\ step' = [s \in Submission |-> "off"] /\ snapshot' = [s \in Submission |-> NoEntries]
    /\ startedHere' = [k \in Key |-> 0]
    /\ UNCHANGED <<stored, started>>

SubmissionNext ==
    \/ \E s \in Submission :
        \/ SubmitsTask(s) \/ WritesLedger(s) \/ LedgerLands(s)
        \/ EndsUnstarted(s) \/ StartsMission(s) \/ MissionStarted(s) \/ MissionFails(s)
    \/ NextApplication

SubmissionSpec == SubmissionInit /\ [][SubmissionNext]_submission

-----------------------------------------------------------------------------
(* Properties.                                                              *)

\* However submissions of one key overlap, one process starts one mission for it,
\* and no entry, in memory or on disk, is settled without a mission.
KeyRunsOncePerProcess ==
    \A k \in Key :
        /\ startedHere[k] <= 1
        /\ "settled" \in {ledger[k], stored[k]} => started[k] > 0
==============================================================================
