------------------------------ MODULE MissionLease ------------------------------
(***************************************************************************)
(* The lease file of one mission and the processes that compete for it     *)
(* (infra/mission-lease-store.ts): sessions that run the mission           *)
(* (orchestration/mission-orchestrator.ts) and commands that take over the *)
(* lease of a process that is gone (packages/tui, recover resume           *)
(* --execute).                                                             *)
(*                                                                         *)
(* Nothing but the exclusive creation of the file is atomic between        *)
(* processes: every operation reads the file in one step and writes or     *)
(* removes it in another.  A process runs one session; a restarted process *)
(* is another process, as its identifier is never reused.                  *)
(***************************************************************************)
EXTENDS Naturals

CONSTANTS
    Process,      \* processInstanceId of every process
    Recoverer,    \* those that run recover resume --execute
    Takeover,     \* the identifier all takeovers share (commands.ts:3486)
    Renewer,      \* who renews within a session: runLoop, the interval timer
    TTL,          \* leaseTtlMilliseconds
    Punctual,     \* assume that no lease expires before its process crashes
    MaxTime,      \* bound: the clock
    MaxRevision,  \* bound: revisions of one lease
    MaxCrashes    \* bound: processes that crash

ASSUME LeaseAssumption ==
    /\ Recoverer \subseteq Process /\ Takeover \notin Process
    /\ Renewer \subseteq {"loop", "timer"}
    /\ TTL \in Nat \ {0} /\ Punctual \in BOOLEAN
    /\ {MaxTime, MaxRevision, MaxCrashes} \subseteq Nat

VARIABLES
    now,       \* the clock all processes share
    file,      \* {} or {the lease in mission-lease.json}
    empty,     \* {} or {the process that created the file and has not written it}
    session,   \* where each process is
    held,      \* the lease each process was told it has, or builds, or takes over
    asking,    \* renewals that have not read the file yet
    renewing,  \* renewals that have, with the lease they are about to write
    crashes    \* bound: crashes

fileVars == <<file, empty>>
renewalVars == <<asking, renewing>>
leaseVars == <<now, fileVars, session, held, renewalVars, crashes>>

Owner == Process \cup {Takeover}
Lease == [owner : Owner, revision : Nat, until : Nat]

\* buildLeaseDocument, and the renewed copy of a lease.
NewLease(owner, revision) == [owner |-> owner, revision |-> revision, until |-> now + TTL]

\* Mutant: a lease expires one tick early.
IsExpiredEarly(lease) == lease.until <= now + 1

IsExpired(lease) == lease.until <= now

Session ==
    {"guarding", "inspecting", "confirming", \* recover: the reads before the takeover
     "checking", "takingOver",               \* takeOverExpiredLease: its read, its write
     "returning", "dropping",                \* the release after it: its read, its removal
     "starting", "opening", "reading",       \* tryAcquire before the open, at it, after EEXIST
     "creating",                             \* tryAcquire has created the file
     "running", "stopping",                  \* runLoop; stopDueToLostLease was called
     "releasing", "removing",                \* releaseLeaseIfAcquired: its read, its removal
     "ended",                                \* the session is over
     "locked", "corrupted", "failed",        \* mission-locked, journal-corrupted, another error
     "crashed"}

Exists == file # {} \/ empty # {}

LeaseInit ==
    /\ now = 0
    /\ file = {} /\ empty = {}
    /\ session = [p \in Process |-> IF p \in Recoverer THEN "guarding" ELSE "starting"]
    /\ held = [p \in Process |-> [owner |-> p, revision |-> 0, until |-> 0]]
    /\ asking = {} /\ renewing = {} /\ crashes = 0

Goes(p, from, to) ==
    /\ session[p] = from
    /\ session' = [session EXCEPT ![p] = to]

Holds(p, lease) == held' = [held EXCEPT ![p] = lease]

-----------------------------------------------------------------------------
(* tryAcquire.                                                              *)

BuildClaim(p) ==
    /\ Goes(p, "starting", "opening")
    /\ Holds(p, NewLease(p, 1))
    /\ UNCHANGED <<now, fileVars, renewalVars, crashes>>

\* Mutant: the file is opened with "w".
OpenAnyway(p) ==
    /\ Goes(p, "opening", "creating")
    /\ empty' = {p} /\ file' = {}
    /\ UNCHANGED <<now, held, renewalVars, crashes>>

\* open with "wx": exactly one process can create the file.
OpenExclusively(p) ==
    /\ \/ ~Exists /\ Goes(p, "opening", "creating") /\ empty' = {p}
       \/ Exists /\ Goes(p, "opening", "reading") /\ UNCHANGED empty
    /\ UNCHANGED <<now, file, held, renewalVars, crashes>>

\* The file exists: mission-locked, journal-corrupted if it is still empty, and
\* another try if it is gone by now.
ReadExisting(p) ==
    /\ \/ file # {} /\ Goes(p, "reading", "locked")
       \/ empty # {} /\ Goes(p, "reading", "corrupted")
       \/ ~Exists /\ Goes(p, "reading", "starting")
    /\ UNCHANGED <<now, fileVars, held, renewalVars, crashes>>

\* The write goes to the file that was created, which a renewal may have
\* replaced since.
WriteClaim(p) ==
    /\ Goes(p, "creating", "running")
    /\ IF p \in empty THEN file' = {held[p]} /\ empty' = {} ELSE UNCHANGED fileVars
    /\ UNCHANGED <<now, held, renewalVars, crashes>>

\* The write fails: the file is removed by its name.
WriteClaimFails(p) ==
    /\ Goes(p, "creating", "failed")
    /\ file' = {} /\ empty' = {}
    /\ UNCHANGED <<now, held, renewalVars, crashes>>

-----------------------------------------------------------------------------
(* renewLeaseTick, by the loop and by the timer.                            *)

Ask(p, by) == [process |-> p, by |-> by, expected |-> held[p].revision]

\* The loop renews while it runs, the timer until it is cleared.
StartRenewal(p, by) ==
    /\ session[p] = "running" \/ (session[p] = "stopping" /\ by = "timer")
    /\ \A r \in asking \cup renewing : r.process = p => r.by # by
    /\ asking' = asking \cup {Ask(p, by)}
    /\ UNCHANGED <<now, fileVars, session, held, renewing, crashes>>

\* Mutant: whoever holds the lease, it is renewed.
IsRenewableByAnyone(lease, ask) == ~IsExpired(lease)

\* A lease can be renewed while it is active, by its owner, from its revision.
IsRenewable(lease, ask) ==
    /\ ~IsExpired(lease)
    /\ lease.owner = ask.process
    /\ lease.revision = ask.expected

\* stopDueToLostLease.
Stop(p) == session' = [session EXCEPT ![p] = IF @ = "running" THEN "stopping" ELSE @]

\* The read of renewLease: a renewed lease to be written, or the end of the
\* scheduling when the lease is gone, expired, corrupted or another's.
ReadForRenewal(ask) ==
    /\ ask \in asking
    /\ asking' = asking \ {ask}
    /\ \/ \E lease \in file :
             /\ IsRenewable(lease, ask)
             /\ lease.revision < MaxRevision
             /\ renewing' = renewing \cup
                   {[process |-> ask.process, by |-> ask.by,
                     lease |-> NewLease(lease.owner, lease.revision + 1)]}
             /\ UNCHANGED session
       \/ /\ \A lease \in file : ~IsRenewable(lease, ask)
          /\ Stop(ask.process)
          /\ UNCHANGED renewing
    /\ UNCHANGED <<now, fileVars, held, crashes>>

\* Mutant: the new file does not replace the old one.
WriteRenewalBeside(r) ==
    /\ r \in renewing
    /\ renewing' = renewing \ {r}
    /\ file' = file \cup {r.lease}
    /\ UNCHANGED <<now, empty, session, held, asking, crashes>>

\* The rename of writeAtomicJson replaces whatever has the name by now.  The
\* revision to release is read when the release starts, so a renewal that ends
\* later does not change it.
WriteRenewal(r) ==
    /\ r \in renewing
    /\ renewing' = renewing \ {r}
    /\ file' = {r.lease} /\ empty' = {}
    /\ IF session[r.process] \in {"running", "stopping"}
       THEN Holds(r.process, r.lease) ELSE UNCHANGED held
    /\ UNCHANGED <<now, session, asking, crashes>>

\* The write of the temporary file or the rename fails.
RenewalFails(r) ==
    /\ r \in renewing
    /\ renewing' = renewing \ {r}
    /\ Stop(r.process)
    /\ UNCHANGED <<now, fileVars, held, asking, crashes>>

-----------------------------------------------------------------------------
(* The end of a session, and releaseLease.                                  *)

\* The loop ends when the mission is done or stopped, never while it awaits its
\* own renewal.  The timer is cleared, but not a renewal it has started.
FinishRun(p) ==
    /\ Goes(p, "running", "releasing") \/ Goes(p, "stopping", "releasing")
    /\ \A r \in asking \cup renewing : r.process = p => r.by # "loop"
    /\ UNCHANGED <<now, fileVars, held, renewalVars, crashes>>

\* The read of releaseLease: its errors are swallowed, the session is over.
ReadForRelease(p) ==
    /\ IF \E lease \in file : lease.owner = p /\ lease.revision = held[p].revision
       THEN Goes(p, "releasing", "removing") ELSE Goes(p, "releasing", "ended")
    /\ UNCHANGED <<now, fileVars, held, renewalVars, crashes>>

Remove(p, from, to) ==
    /\ Goes(p, from, to)
    /\ file' = {} /\ empty' = {}
    /\ UNCHANGED <<now, held, renewalVars, crashes>>

RemoveReleased(p) == Remove(p, "removing", "ended")

-----------------------------------------------------------------------------
(* recover resume --execute.                                                *)

RecoverSteps(p, from, to) ==
    /\ Goes(p, from, to)
    /\ UNCHANGED <<now, fileVars, held, renewalVars, crashes>>

\* An active lease refuses the command before anything else; an empty file is
\* reported as corrupted, here and in the reads below.
Guard(p) ==
    \/ \E lease \in file : ~IsExpired(lease) /\ RecoverSteps(p, "guarding", "locked")
    \/ empty # {} /\ RecoverSteps(p, "guarding", "corrupted")
    \/ /\ empty = {} /\ \A lease \in file : IsExpired(lease)
       /\ RecoverSteps(p, "guarding", "inspecting")

\* readLease: remembers the lease to take over.
Inspect(p) ==
    \/ empty # {} /\ RecoverSteps(p, "inspecting", "corrupted")
    \/ ~Exists /\ RecoverSteps(p, "inspecting", "starting")
    \/ \E lease \in file :
          /\ Goes(p, "inspecting", "confirming")
          /\ Holds(p, lease)
          /\ UNCHANGED <<now, fileVars, renewalVars, crashes>>

\* readLeaseSummary: without an active lease the takeover goes on.
Confirm(p) ==
    \/ empty # {} /\ RecoverSteps(p, "confirming", "corrupted")
    \/ \E lease \in file : ~IsExpired(lease) /\ RecoverSteps(p, "confirming", "starting")
    \/ /\ empty = {} /\ \A lease \in file : IsExpired(lease)
       /\ RecoverSteps(p, "confirming", "checking")

\* Mutant: the takeover relies on the check of its caller.
CheckTakeoverOfAny(p) ==
    \E lease \in file :
        /\ lease.revision = held[p].revision /\ lease.revision < MaxRevision
        /\ Goes(p, "checking", "takingOver")
        /\ Holds(p, NewLease(Takeover, lease.revision + 1))
        /\ UNCHANGED <<now, fileVars, renewalVars, crashes>>

\* The read of takeOverExpiredLease.
CheckTakeover(p) ==
    \/ \E lease \in file :
          /\ IsExpired(lease) /\ lease.revision = held[p].revision
          /\ lease.revision < MaxRevision
          /\ Goes(p, "checking", "takingOver")
          /\ Holds(p, NewLease(Takeover, lease.revision + 1))
          /\ UNCHANGED <<now, fileVars, renewalVars, crashes>>
    \/ /\ \A lease \in file : ~IsExpired(lease) \/ lease.revision # held[p].revision
       /\ RecoverSteps(p, "checking", "failed")

TakeOver(p) ==
    /\ Goes(p, "takingOver", "returning")
    /\ file' = {held[p]} /\ empty' = {}
    /\ UNCHANGED <<now, held, renewalVars, crashes>>

\* The release of the taken over lease.  An error ends the command; a file that
\* is gone does not.
ReadTakenOver(p) ==
    \/ ~Exists /\ RecoverSteps(p, "returning", "starting")
    \/ /\ \E lease \in file : lease.owner = Takeover /\ lease.revision = held[p].revision
       /\ RecoverSteps(p, "returning", "dropping")
    \/ /\ Exists
       /\ \A lease \in file : ~(lease.owner = Takeover /\ lease.revision = held[p].revision)
       /\ RecoverSteps(p, "returning", "failed")

DropTakenOver(p) == Remove(p, "dropping", "starting")

-----------------------------------------------------------------------------

\* Between the creation of the lease and its release.
Holding == {"creating", "running", "stopping", "releasing", "removing"}

Over == {"ended", "locked", "corrupted", "failed", "crashed"}

\* What a process writes after this it never writes.
Crash(p) ==
    /\ crashes < MaxCrashes
    /\ session[p] \notin Over
    /\ crashes' = crashes + 1
    /\ session' = [session EXCEPT ![p] = "crashed"]
    /\ asking' = {r \in asking : r.process # p}
    /\ renewing' = {r \in renewing : r.process # p}
    /\ UNCHANGED <<now, fileVars, held>>

\* The leases of processes that are not crashed.
Live ==
    {held[p] : p \in {q \in Process : session[q] \in Holding \cup {"opening"}}}
    \cup {lease \in file : lease.owner \in Process /\ session[lease.owner] # "crashed"}
    \cup {r.lease : r \in renewing}

Tick ==
    /\ now < MaxTime
    /\ Punctual => \A lease \in Live : now + 1 < lease.until
    /\ now' = now + 1
    /\ UNCHANGED <<fileVars, session, held, renewalVars, crashes>>

Acquire(p) ==
    BuildClaim(p) \/ OpenExclusively(p) \/ ReadExisting(p) \/ WriteClaim(p) \/ WriteClaimFails(p)

Renew(p) ==
    \/ \E by \in Renewer : StartRenewal(p, by)
    \/ \E ask \in asking : ask.process = p /\ ReadForRenewal(ask)
    \/ \E r \in renewing : r.process = p /\ (WriteRenewal(r) \/ RenewalFails(r))

Finish(p) == FinishRun(p) \/ ReadForRelease(p) \/ RemoveReleased(p)

Recover(p) ==
    \/ Guard(p) \/ Inspect(p) \/ Confirm(p)
    \/ CheckTakeover(p) \/ TakeOver(p) \/ ReadTakenOver(p) \/ DropTakenOver(p)

LeaseNext ==
    \/ \E p \in Process : Acquire(p) \/ Renew(p) \/ Finish(p) \/ Recover(p) \/ Crash(p)
    \/ Tick

LeaseSpec == LeaseInit /\ [][LeaseNext]_leaseVars

\* A process that runs renews its lease: the timer fires and files answer.
FairLeaseSpec == LeaseSpec /\ \A p \in Process : WF_leaseVars(Renew(p))

-----------------------------------------------------------------------------

LeaseTypeOK ==
    /\ now \in Nat
    /\ file \in SUBSET Lease /\ empty \in SUBSET Process
    /\ session \in [Process -> Session]
    /\ held \in [Process -> Lease]
    /\ asking \in SUBSET [process : Process, by : {"loop", "timer"}, expected : Nat]
    /\ renewing \in SUBSET [process : Process, by : {"loop", "timer"}, lease : Lease]
    /\ crashes \in 0..MaxCrashes
    /\ \A a, b \in file : a = b
    /\ \A a, b \in empty : a = b
    /\ file = {} \/ empty = {}

\* The lease is exclusive: between the creation of the file and its removal by the
\* same process nobody else gets past tryAcquire, and the file exists, whatever
\* renewals other sessions have left behind.
OneHolder ==
    \A p \in Process : session[p] \in Holding =>
        Exists /\ \A q \in Process : session[q] \in Holding => p = q

\* mission-lease-store.ts:5-8: one process at a time drives the mission, also when
\* recover takes over the leases of crashed processes.
OneRunner ==
    \A p, q \in Process : session[p] = "running" /\ session[q] = "running" => p = q

RunsWithoutLease(p) ==
    /\ session[p] = "running"
    /\ \A lease \in file : lease.owner # p \/ IsExpired(lease)

\* A session whose lease is gone, expired or another's notices and stops.
LostLeaseIsNoticed == \A p \in Process : RunsWithoutLease(p) ~> ~RunsWithoutLease(p)

-----------------------------------------------------------------------------
(* The parts of the invariant that makes OneHolder inductive when one       *)
(* process recovers and no lease expires before its process crashes.        *)

\* A lease somebody owns has been created: its owner holds it, or is over.
Acted(p) == session[p] \in Holding \cup Over

LeasesAreActed ==
    /\ \A lease \in file : lease.owner \in Process => Acted(lease.owner)
    /\ \A r \in asking \cup renewing : Acted(r.process) /\ session[r.process] # "crashed"
    /\ \A r \in renewing : r.lease.owner = r.process

\* What lives is not expired.
LiveLeasesLast == \A lease \in Live : ~IsExpired(lease)

\* While somebody holds the lease the file is the one of a live process, if only
\* of one whose renewal outlived its session.
HolderSeesLiveLease ==
    (\E p \in Process : session[p] \in Holding) =>
        \A lease \in file : lease.owner \in Process /\ session[lease.owner] # "crashed"

\* A takeover that has seen an expired lease has the file for itself.
TakeoverIsAlone ==
    \A r \in Recoverer : session[r] \in {"takingOver", "returning", "dropping"} =>
        Exists /\ \A p \in Process : session[p] \notin Holding

\* Together: with a punctual clock recovery never takes a lease that is in use.
RecoveryInv ==
    /\ OneHolder /\ LeasesAreActed /\ LiveLeasesLast /\ HolderSeesLiveLease /\ TakeoverIsAlone
================================================================================
