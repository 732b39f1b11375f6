-------------------------- MODULE MissionLeaseProofs --------------------------
(***************************************************************************)
(* The lease is exclusive among the sessions of any number of processes,   *)
(* at any time to live and any speed of the clock, with crashes, failing   *)
(* writes and renewals that outlive their session.                         *)
(***************************************************************************)
EXTENDS MissionLease, TLAPS

\* Leases are built and renewed well formed.
LEMMA NewLeaseType ==
    ASSUME now \in Nat, NEW owner \in Owner, NEW revision \in Nat
    PROVE  NewLease(owner, revision) \in Lease
BY LeaseAssumption DEF NewLease, Lease

\* Every step keeps the types, and there is never more than one file.
LEMMA LeaseTypeStep == LeaseTypeOK /\ [LeaseNext]_leaseVars => LeaseTypeOK'
<1> SUFFICES ASSUME LeaseTypeOK, [LeaseNext]_leaseVars PROVE LeaseTypeOK'
  OBVIOUS
<1> USE LeaseAssumption DEF LeaseTypeOK
<1>0. ASSUME NEW p \in Process, NEW from, NEW to \in Session, Goes(p, from, to)
      PROVE  session' \in [Process -> Session]
  BY <1>0 DEF Goes
<1>1. ASSUME NEW p \in Process, Acquire(p) PROVE LeaseTypeOK'
  <2>1. CASE BuildClaim(p)
    <3>1. NewLease(p, 1) \in Lease
      BY NewLeaseType DEF Owner
    <3> QED
      BY <1>0, <2>1, <3>1 DEF BuildClaim, Holds, fileVars, renewalVars, Session
  <2>2. CASE OpenExclusively(p)
    BY <1>0, <2>2 DEF OpenExclusively, Exists, renewalVars, Session
  <2>3. CASE ReadExisting(p)
    BY <1>0, <2>3 DEF ReadExisting, fileVars, renewalVars, Session
  <2>4. CASE WriteClaim(p)
    BY <1>0, <2>4 DEF WriteClaim, fileVars, renewalVars, Session
  <2>5. CASE WriteClaimFails(p)
    BY <1>0, <2>5 DEF WriteClaimFails, renewalVars, Session
  <2> QED
    BY <1>1, <2>1, <2>2, <2>3, <2>4, <2>5 DEF Acquire
<1>2. ASSUME NEW p \in Process, Renew(p) PROVE LeaseTypeOK'
  <2>0. ASSUME Stop(p) PROVE session' \in [Process -> Session]
    BY <2>0 DEF Stop, Session
  <2>1. ASSUME NEW by \in Renewer, StartRenewal(p, by) PROVE LeaseTypeOK'
    BY <2>1 DEF StartRenewal, Ask, fileVars, Lease
  <2>2. ASSUME NEW ask \in asking, ask.process = p, ReadForRenewal(ask) PROVE LeaseTypeOK'
    <3>1. CASE \E lease \in file :
                 /\ renewing' = renewing \cup
                       {[process |-> ask.process, by |-> ask.by,
                         lease |-> NewLease(lease.owner, lease.revision + 1)]}
                 /\ UNCHANGED session
      <4>1. ASSUME NEW lease \in file PROVE NewLease(lease.owner, lease.revision + 1) \in Lease
        <5>1. lease.owner \in Owner /\ lease.revision + 1 \in Nat
          BY DEF Lease
        <5> QED
          BY <5>1, NewLeaseType
      <4> QED
        BY <2>2, <3>1, <4>1 DEF ReadForRenewal, fileVars
    <3>2. CASE Stop(ask.process) /\ UNCHANGED renewing
      BY <2>0, <2>2, <3>2 DEF ReadForRenewal, fileVars
    <3> QED
      BY <2>2, <3>1, <3>2 DEF ReadForRenewal
  <2>3. ASSUME NEW r \in renewing, r.process = p, WriteRenewal(r) PROVE LeaseTypeOK'
    BY <2>3 DEF WriteRenewal, Holds
  <2>4. ASSUME NEW r \in renewing, r.process = p, RenewalFails(r) PROVE LeaseTypeOK'
    BY <2>0, <2>4 DEF RenewalFails, fileVars
  <2> QED
    BY <1>2, <2>1, <2>2, <2>3, <2>4 DEF Renew
<1>3. ASSUME NEW p \in Process, Finish(p) PROVE LeaseTypeOK'
  BY <1>0, <1>3 DEF Finish, FinishRun, ReadForRelease, RemoveReleased, Remove,
                    fileVars, renewalVars, Session
<1>4. ASSUME NEW p \in Process, Recover(p) PROVE LeaseTypeOK'
  <2>0. ASSUME NEW from, NEW to \in Session, RecoverSteps(p, from, to) PROVE LeaseTypeOK'
    BY <1>0, <2>0 DEF RecoverSteps, fileVars, renewalVars
  <2>1. CASE Guard(p) \/ Confirm(p) \/ ReadTakenOver(p)
    BY <2>0, <2>1 DEF Guard, Confirm, ReadTakenOver, Session
  <2>2. CASE Inspect(p)
    BY <1>0, <2>0, <2>2 DEF Inspect, Holds, fileVars, renewalVars, Session
  <2>3. CASE CheckTakeover(p)
    <3>1. ASSUME NEW lease \in file PROVE NewLease(Takeover, lease.revision + 1) \in Lease
      <4>1. Takeover \in Owner /\ lease.revision + 1 \in Nat
        BY DEF Lease, Owner
      <4> QED
        BY <4>1, NewLeaseType
    <3> QED
      BY <1>0, <2>0, <2>3, <3>1 DEF CheckTakeover, Holds, fileVars, renewalVars, Session
  <2>4. CASE TakeOver(p) \/ DropTakenOver(p)
    BY <1>0, <2>4 DEF TakeOver, DropTakenOver, Remove, renewalVars, Session
  <2> QED
    BY <1>4, <2>1, <2>2, <2>3, <2>4 DEF Recover
<1>5. ASSUME NEW p \in Process, Crash(p) PROVE LeaseTypeOK'
  BY <1>5 DEF Crash, fileVars, Session
<1>6. CASE Tick
  BY <1>6 DEF Tick, fileVars, renewalVars
<1>7. CASE UNCHANGED leaseVars
  BY <1>7 DEF leaseVars, fileVars, renewalVars
<1> QED
  BY <1>1, <1>2, <1>3, <1>4, <1>5, <1>6, <1>7 DEF LeaseNext

\* The type invariant of the lease, for every number of processes and renewals.
THEOREM LeaseTyping == LeaseSpec => []LeaseTypeOK
<1>1. LeaseInit => LeaseTypeOK
  BY LeaseAssumption DEF LeaseInit, LeaseTypeOK, Lease, Owner, Session
<1> QED
  BY <1>1, LeaseTypeStep, PTL DEF LeaseSpec

-----------------------------------------------------------------------------
(* Exclusivity, while nobody recovers.                                      *)

Recovering ==
    {"guarding", "inspecting", "confirming", "checking", "takingOver", "returning", "dropping"}

NobodyRecovers == \A p \in Process : session[p] \notin Recovering

\* What a step does to the holders: it moves one process, and it removes the file
\* only if that process was a holder and is one no more.
LEMMA HolderStep ==
    ASSUME LeaseTypeOK, NobodyRecovers, OneHolder, [LeaseNext]_leaseVars
    PROVE  OneHolder' /\ NobodyRecovers'
<1> USE DEF LeaseTypeOK
<1>0. ASSUME UNCHANGED session, Exists => Exists' PROVE OneHolder' /\ NobodyRecovers'
  BY <1>0 DEF OneHolder, NobodyRecovers
<1>1. ASSUME NEW p \in Process, NEW to \in Session \ (Holding \cup Recovering), NEW from,
             Goes(p, from, to), Exists => Exists' \/ session[p] \in Holding
      PROVE  OneHolder' /\ NobodyRecovers'
  BY <1>1 DEF Goes, OneHolder, NobodyRecovers
<1>2. ASSUME NEW p \in Process, NEW to \in Holding, NEW from \in Holding,
             Goes(p, from, to), Exists => Exists'
      PROVE  OneHolder' /\ NobodyRecovers'
  BY <1>2 DEF Goes, OneHolder, NobodyRecovers, Holding, Recovering
<1>3. ASSUME NEW p \in Process, Stop(p), Exists => Exists' PROVE OneHolder' /\ NobodyRecovers'
  BY <1>3 DEF Stop, OneHolder, NobodyRecovers, Holding, Recovering
<1>4. ASSUME NEW p \in Process, Acquire(p) PROVE OneHolder' /\ NobodyRecovers'
  <2>1. CASE BuildClaim(p) \/ ReadExisting(p)
    BY <1>1, <2>1 DEF BuildClaim, ReadExisting, Exists, fileVars, Session, Holding, Recovering
  <2>2. CASE OpenExclusively(p) /\ Exists
    BY <1>1, <2>2 DEF OpenExclusively, Exists, Session, Holding, Recovering
  <2>3. CASE OpenExclusively(p) /\ ~Exists
    BY <2>3 DEF OpenExclusively, Exists, Goes, OneHolder, NobodyRecovers, Recovering
  <2>4. CASE WriteClaim(p)
    BY <1>2, <2>4 DEF WriteClaim, Exists, fileVars, Holding
  <2>5. CASE WriteClaimFails(p)
    BY <1>1, <2>5 DEF WriteClaimFails, Goes, Session, Holding, Recovering
  <2> QED
    BY <1>4, <2>1, <2>2, <2>3, <2>4, <2>5 DEF Acquire
<1>5. ASSUME NEW p \in Process, Renew(p) PROVE OneHolder' /\ NobodyRecovers'
  BY <1>0, <1>3, <1>5 DEF Renew, StartRenewal, ReadForRenewal, WriteRenewal, RenewalFails,
                          fileVars, Exists
<1>6. ASSUME NEW p \in Process, Finish(p) PROVE OneHolder' /\ NobodyRecovers'
  <2>1. CASE FinishRun(p)
    BY <1>2, <2>1 DEF FinishRun, fileVars, Exists, Holding
  <2>2. CASE ReadForRelease(p)
    BY <1>1, <1>2, <2>2 DEF ReadForRelease, fileVars, Exists, Session, Holding, Recovering
  <2>3. CASE RemoveReleased(p)
    BY <1>1, <2>3 DEF RemoveReleased, Remove, Goes, Session, Holding, Recovering
  <2> QED
    BY <1>6, <2>1, <2>2, <2>3 DEF Finish
<1>7. ASSUME NEW p \in Process, Recover(p) PROVE FALSE
  BY <1>7 DEF Recover, Guard, Inspect, Confirm, CheckTakeover, TakeOver, ReadTakenOver,
              DropTakenOver, RecoverSteps, Remove, Goes, NobodyRecovers, Recovering
<1>8. ASSUME NEW p \in Process, Crash(p) PROVE OneHolder' /\ NobodyRecovers'
  BY <1>8 DEF Crash, fileVars, Exists, OneHolder, NobodyRecovers, Holding, Recovering
<1>9. CASE Tick \/ UNCHANGED leaseVars
  BY <1>0, <1>9 DEF Tick, leaseVars, fileVars, Exists
<1> QED
  BY <1>4, <1>5, <1>6, <1>7, <1>8, <1>9 DEF LeaseNext

\* While nobody takes leases over, the lease is exclusive from the creation of its
\* file to its removal, although reads and writes of other processes interleave.
THEOREM LeaseIsExclusive == ASSUME Recoverer = {} PROVE LeaseSpec => []OneHolder
<1>1. LeaseInit => OneHolder /\ NobodyRecovers
  BY DEF LeaseInit, OneHolder, NobodyRecovers, Holding, Recovering
<1>2. LeaseTypeOK /\ OneHolder /\ NobodyRecovers /\ [LeaseNext]_leaseVars
        => (OneHolder /\ NobodyRecovers)'
  BY HolderStep
<1> QED
  BY <1>1, <1>2, LeaseTyping, PTL DEF LeaseSpec

\* So two processes never run the mission at once.
THEOREM OneProcessRuns == ASSUME Recoverer = {} PROVE LeaseSpec => []OneRunner
<1>1. OneHolder => OneRunner
  BY DEF OneHolder, OneRunner, Holding
<1> QED
  BY <1>1, LeaseIsExclusive, PTL

-----------------------------------------------------------------------------
(* Exclusivity with one recovery at a time.                                 *)

\* One step of a process that neither holds a lease nor takes one over, and
\* does not write: it stays so.
LEMMA AsideStep ==
    ASSUME RecoveryInv, LeaseTypeOK, NEW p \in Process, NEW from, NEW to \in Session,
           Goes(p, from, to), UNCHANGED <<now, fileVars, renewalVars>>,
           \A q \in Process \ {p} : held'[q] = held[q],
           from \notin Holding \cup Over,
           to \notin Holding \cup {"opening", "crashed", "takingOver"},
           to \in {"returning", "dropping"} => from \in {"takingOver", "returning", "dropping"}
    PROVE  RecoveryInv'
<1> USE DEF RecoveryInv, LeaseTypeOK, Goes, fileVars, renewalVars, Over
<1>1. OneHolder' /\ HolderSeesLiveLease'
  BY DEF OneHolder, HolderSeesLiveLease, Exists
<1>2. LeasesAreActed'
  BY DEF LeasesAreActed, Acted
<1>3. LiveLeasesLast'
  BY DEF LiveLeasesLast, Live, IsExpired
<1>4. TakeoverIsAlone'
  BY DEF TakeoverIsAlone, Exists
<1> QED
  BY <1>1, <1>2, <1>3, <1>4

\* A step that only asks for renewals or drops them, and may set stopping.
LEMMA RenewalStep ==
    ASSUME RecoveryInv, LeaseTypeOK, NEW p \in Process, Acted(p), session[p] # "crashed",
           UNCHANGED <<now, fileVars, held>>, Stop(p) \/ UNCHANGED session,
           \A r \in asking' : r \in asking \/ r.process = p,
           \A r \in renewing' :
              r \in renewing \/ (r.process = p /\ r.lease.owner = p /\ ~IsExpired(r.lease))
    PROVE  RecoveryInv'
<1> USE DEF RecoveryInv, LeaseTypeOK, Stop, fileVars
<1>0. /\ \A q \in Process : session[q] = "crashed" <=> session'[q] = "crashed"
      /\ \A q \in Process : session[q] \in Holding <=> session'[q] \in Holding
      /\ \A q \in Process : Acted(q) <=> Acted(q)'
      /\ \A q \in Process : session'[q] # session[q] => session'[q] \in Holding
  BY DEF Acted, Holding, Over
<1>1. OneHolder' /\ HolderSeesLiveLease'
  <2>1. OneHolder'
    BY <1>0 DEF OneHolder, Exists
  <2>2. HolderSeesLiveLease'
    BY <1>0 DEF HolderSeesLiveLease
  <2> QED
    BY <2>1, <2>2
<1>2. LeasesAreActed'
  BY <1>0 DEF LeasesAreActed
<1>3. LiveLeasesLast'
  <2> SUFFICES ASSUME NEW lease \in Live' PROVE ~IsExpired(lease)
    BY DEF LiveLeasesLast, IsExpired
  <2>1. CASE lease \in Live
    BY <2>1 DEF LiveLeasesLast
  <2>2. CASE \E r \in renewing' : lease = r.lease
    BY <2>2 DEF LiveLeasesLast, Live
  <2>3. CASE lease \notin Live /\ ~(\E r \in renewing' : lease = r.lease)
    BY <1>0, <2>3 DEF Live, Holding
  <2> QED
    BY <2>1, <2>2, <2>3
<1>4. TakeoverIsAlone'
  BY <1>0, LeaseAssumption DEF TakeoverIsAlone, Exists, Holding
<1> QED
  BY <1>1, <1>2, <1>3, <1>4

\* Only recoverers recover.
OnlyRecoverersRecover == \A p \in Process : session[p] \in Recovering => p \in Recoverer

\* No step of a session leads into a recovery.
LEMMA RecovererStep ==
    ASSUME LeaseTypeOK, OnlyRecoverersRecover, [LeaseNext]_leaseVars
    PROVE  OnlyRecoverersRecover'
<1> USE DEF LeaseTypeOK, OnlyRecoverersRecover, Recovering
<1>1. ASSUME NEW p \in Process, Acquire(p) PROVE OnlyRecoverersRecover'
  BY <1>1 DEF Acquire, BuildClaim, OpenExclusively, ReadExisting, WriteClaim, WriteClaimFails, Goes
<1>2. ASSUME NEW p \in Process, Renew(p) PROVE OnlyRecoverersRecover'
  BY <1>2 DEF Renew, StartRenewal, ReadForRenewal, WriteRenewal, RenewalFails, Stop
<1>3. ASSUME NEW p \in Process, Finish(p) \/ Crash(p) PROVE OnlyRecoverersRecover'
  BY <1>3 DEF Finish, FinishRun, ReadForRelease, RemoveReleased, Remove, Crash, Goes
<1>4. ASSUME NEW p \in Process, Recover(p) PROVE OnlyRecoverersRecover'
  BY <1>4 DEF Recover, Guard, Inspect, Confirm, CheckTakeover, TakeOver, ReadTakenOver,
              DropTakenOver, RecoverSteps, Remove, Goes
<1>5. CASE Tick \/ UNCHANGED leaseVars
  BY <1>5 DEF Tick, leaseVars
<1> QED
  BY <1>1, <1>2, <1>3, <1>4, <1>5 DEF LeaseNext

\* A holder that removes the file is over, or at its end: nobody holds the lease.
LEMMA RemovalStep ==
    ASSUME RecoveryInv, LeaseTypeOK, NEW p \in Process, NEW from, NEW to \in {"failed", "ended"},
           Goes(p, from, to), from \in Holding,
           file' = {}, empty' = {}, UNCHANGED <<now, held, renewalVars>>
    PROVE  RecoveryInv'
<1> USE DEF RecoveryInv, LeaseTypeOK, Goes, renewalVars
<1>0. \A q \in Process : session'[q] \notin Holding
  BY DEF OneHolder, Holding
<1>1. OneHolder' /\ HolderSeesLiveLease'
  BY <1>0 DEF OneHolder, HolderSeesLiveLease
<1>2. LeasesAreActed'
  BY DEF LeasesAreActed, Acted, Over
<1>3. LiveLeasesLast'
  BY DEF LiveLeasesLast, Live, IsExpired, Holding
<1>4. TakeoverIsAlone'
  BY LeaseAssumption DEF TakeoverIsAlone, Holding
<1> QED
  BY <1>1, <1>2, <1>3, <1>4

\* A claim is built while the process waits, and is not expired.
LEMMA BuildClaimStep ==
    ASSUME RecoveryInv, LeaseTypeOK, NEW p \in Process, BuildClaim(p)
    PROVE  RecoveryInv'
<1> USE DEF RecoveryInv, LeaseTypeOK, BuildClaim, Goes, Holds, fileVars, renewalVars
<1>1. OneHolder' /\ HolderSeesLiveLease'
  BY DEF OneHolder, HolderSeesLiveLease, Exists, Holding
<1>2. LeasesAreActed'
  BY DEF LeasesAreActed, Acted, Holding, Over
<1>3. LiveLeasesLast'
  <2>1. ~IsExpired(NewLease(p, 1))
    BY LeaseAssumption DEF NewLease, IsExpired
  <2>2. Live' \subseteq Live \cup {NewLease(p, 1)}
    BY DEF Live, Holding
  <2> QED
    BY <2>1, <2>2 DEF LiveLeasesLast, IsExpired
<1>4. TakeoverIsAlone'
  BY DEF TakeoverIsAlone, Exists, Holding
<1> QED
  BY <1>1, <1>2, <1>3, <1>4

\* Whoever creates the file is its only holder, and no takeover is under way.
LEMMA OpenStep ==
    ASSUME RecoveryInv, LeaseTypeOK, NEW p \in Process, OpenExclusively(p)
    PROVE  RecoveryInv'
<1> USE DEF RecoveryInv, LeaseTypeOK
<1>1. CASE Exists
  BY <1>1, AsideStep DEF OpenExclusively, fileVars, Session, Holding, Over
<1>2. CASE ~Exists
  <2> USE <1>2 DEF OpenExclusively, Exists, Goes, renewalVars
  <2>1. OneHolder' /\ HolderSeesLiveLease'
    BY DEF OneHolder, HolderSeesLiveLease
  <2>2. LeasesAreActed'
    BY DEF LeasesAreActed, Acted, Holding
  <2>3. LiveLeasesLast'
    BY DEF LiveLeasesLast, Live, IsExpired, Holding
  <2>4. TakeoverIsAlone'
    BY LeaseAssumption DEF TakeoverIsAlone
  <2> QED
    BY <2>1, <2>2, <2>3, <2>4
<1> QED
  BY <1>1, <1>2

\* What a process is about to write is its own claim, or a takeover's.
ClaimsAreOwn ==
    \A p \in Process :
        /\ session[p] \in {"opening", "creating"} => held[p].owner = p
        /\ session[p] = "takingOver" => held[p].owner = Takeover

\* Claims stay the claimant's: nobody else changes what a process holds.
LEMMA ClaimStep ==
    ASSUME LeaseTypeOK, ClaimsAreOwn, [LeaseNext]_leaseVars
    PROVE  ClaimsAreOwn'
<1> USE DEF LeaseTypeOK, ClaimsAreOwn, Goes, Holds
<1>1. ASSUME NEW p \in Process, Acquire(p) PROVE ClaimsAreOwn'
  BY <1>1 DEF Acquire, BuildClaim, OpenExclusively, ReadExisting, WriteClaim, WriteClaimFails,
              NewLease
<1>2. ASSUME NEW p \in Process, Renew(p) PROVE ClaimsAreOwn'
  BY <1>2 DEF Renew, StartRenewal, ReadForRenewal, WriteRenewal, RenewalFails, Stop
<1>3. ASSUME NEW p \in Process, Finish(p) \/ Crash(p) PROVE ClaimsAreOwn'
  BY <1>3 DEF Finish, FinishRun, ReadForRelease, RemoveReleased, Remove, Crash
<1>4. ASSUME NEW p \in Process, Recover(p) PROVE ClaimsAreOwn'
  BY <1>4 DEF Recover, Guard, Inspect, Confirm, CheckTakeover, TakeOver, ReadTakenOver,
              DropTakenOver, RecoverSteps, Remove, NewLease
<1>5. CASE Tick \/ UNCHANGED leaseVars
  BY <1>5 DEF Tick, leaseVars
<1> QED
  BY <1>1, <1>2, <1>3, <1>4, <1>5 DEF LeaseNext

\* The holder writes its own, living lease, or goes on without writing.
LEMMA HolderGoesOnStep ==
    ASSUME RecoveryInv, LeaseTypeOK, ClaimsAreOwn,
           NEW p \in Process, WriteClaim(p) \/ FinishRun(p)
    PROVE  RecoveryInv'
<1> USE DEF RecoveryInv, LeaseTypeOK, WriteClaim, FinishRun, Goes, fileVars, renewalVars
<1>0. /\ session[p] \in Holding /\ session'[p] \in Holding
      /\ file' # file => file' = {held[p]} /\ held[p].owner = p
  BY DEF ClaimsAreOwn, Holding
<1>1. OneHolder' /\ HolderSeesLiveLease'
  <2>1. Exists'
    BY <1>0 DEF OneHolder, Exists
  <2> QED
    BY <1>0, <2>1 DEF OneHolder, HolderSeesLiveLease, Holding
<1>2. LeasesAreActed'
  BY <1>0 DEF LeasesAreActed, Acted, Holding
<1>3. LiveLeasesLast'
  BY <1>0 DEF LiveLeasesLast, Live, IsExpired, Holding
<1>4. TakeoverIsAlone'
  BY <1>0, LeaseAssumption DEF TakeoverIsAlone, Holding
<1> QED
  BY <1>1, <1>2, <1>3, <1>4

\* The read of a release: the holder is over, or about to remove the file.
LEMMA ReleaseReadStep ==
    ASSUME RecoveryInv, LeaseTypeOK, NEW p \in Process, ReadForRelease(p)
    PROVE  RecoveryInv'
<1> USE DEF RecoveryInv, LeaseTypeOK, ReadForRelease, Goes, fileVars, renewalVars
<1>1. OneHolder' /\ HolderSeesLiveLease'
  BY DEF OneHolder, HolderSeesLiveLease, Exists, Holding
<1>2. LeasesAreActed'
  BY DEF LeasesAreActed, Acted, Holding, Over
<1>3. LiveLeasesLast'
  BY DEF LiveLeasesLast, Live, IsExpired, Holding
<1>4. TakeoverIsAlone'
  BY LeaseAssumption DEF TakeoverIsAlone, Exists, Holding
<1> QED
  BY <1>1, <1>2, <1>3, <1>4

\* A renewal that is written replaces the file by a living lease of its process,
\* whether or not its session is over.
LEMMA WriteRenewalStep ==
    ASSUME RecoveryInv, LeaseTypeOK, NEW r \in renewing, WriteRenewal(r)
    PROVE  RecoveryInv'
<1> USE DEF RecoveryInv, LeaseTypeOK, WriteRenewal, Holds
<1>0. /\ r.lease.owner = r.process /\ r.process \in Process /\ session[r.process] # "crashed"
      /\ Acted(r.process) /\ r.lease \in Live
  BY DEF LeasesAreActed, Live
<1>1. OneHolder' /\ HolderSeesLiveLease'
  BY <1>0 DEF OneHolder, HolderSeesLiveLease, Exists
<1>2. LeasesAreActed'
  BY <1>0 DEF LeasesAreActed, Acted
<1>3. LiveLeasesLast'
  <2>1. Live' \subseteq Live
    BY <1>0 DEF Live
  <2> QED
    BY <2>1 DEF LiveLeasesLast, IsExpired
<1>4. TakeoverIsAlone'
  BY DEF TakeoverIsAlone, Exists
<1> QED
  BY <1>1, <1>2, <1>3, <1>4

\* A takeover that sees an expired lease meets no holder: a holder's file is alive.
LEMMA CheckTakeoverStep ==
    ASSUME RecoveryInv, LeaseTypeOK, NEW p \in Process, CheckTakeover(p)
    PROVE  RecoveryInv'
<1> USE DEF RecoveryInv, LeaseTypeOK
<1>1. CASE RecoverSteps(p, "checking", "failed")
  BY <1>1, AsideStep DEF RecoverSteps, fileVars, Session, Holding, Over
<1>2. CASE \E lease \in file : IsExpired(lease) /\ Goes(p, "checking", "takingOver")
                              /\ \E h \in Lease : Holds(p, h)
                              /\ UNCHANGED <<now, fileVars, renewalVars, crashes>>
  <2> USE DEF Goes, Holds, fileVars, renewalVars
  <2>0. \A q \in Process : session[q] \notin Holding
    BY <1>2 DEF HolderSeesLiveLease, LiveLeasesLast, Live
  <2>1. OneHolder' /\ HolderSeesLiveLease'
    BY <1>2, <2>0 DEF OneHolder, HolderSeesLiveLease, Holding
  <2>2. LeasesAreActed'
    BY <1>2 DEF LeasesAreActed, Acted, Holding, Over
  <2>3. LiveLeasesLast'
    BY <1>2 DEF LiveLeasesLast, Live, IsExpired, Holding
  <2>4. TakeoverIsAlone'
    BY <1>2, <2>0 DEF TakeoverIsAlone, Exists, Holding
  <2> QED
    BY <2>1, <2>2, <2>3, <2>4
<1>3. ASSUME NEW lease \in file PROVE NewLease(Takeover, lease.revision + 1) \in Lease
  <2>1. Takeover \in Owner /\ lease.revision + 1 \in Nat
    BY DEF Lease, Owner
  <2> QED
    BY <2>1, NewLeaseType
<1> QED
  BY <1>1, <1>2, <1>3 DEF CheckTakeover

\* The takeover replaces the expired lease; nobody else is there.
LEMMA TakeOverStep ==
    ASSUME RecoveryInv, LeaseTypeOK, ClaimsAreOwn, NEW p \in Recoverer, TakeOver(p)
    PROVE  RecoveryInv'
<1> USE LeaseAssumption DEF RecoveryInv, LeaseTypeOK, TakeOver, Goes, renewalVars
<1>0. held[p].owner \notin Process /\ \A q \in Process : session[q] \notin Holding
  BY DEF ClaimsAreOwn, TakeoverIsAlone
<1>1. OneHolder' /\ HolderSeesLiveLease'
  BY <1>0 DEF OneHolder, HolderSeesLiveLease, Holding
<1>2. LeasesAreActed'
  BY <1>0 DEF LeasesAreActed, Acted, Holding, Over
<1>3. LiveLeasesLast'
  BY <1>0 DEF LiveLeasesLast, Live, IsExpired, Holding
<1>4. TakeoverIsAlone'
  BY <1>0 DEF TakeoverIsAlone, Exists, Holding
<1> QED
  BY <1>1, <1>2, <1>3, <1>4

\* The only recoverer drops what it has taken over.
LEMMA DropStep ==
    ASSUME RecoveryInv, LeaseTypeOK, \A a, b \in Recoverer : a = b,
           NEW p \in Recoverer, DropTakenOver(p)
    PROVE  RecoveryInv'
<1> USE LeaseAssumption DEF RecoveryInv, LeaseTypeOK, DropTakenOver, Remove, Goes, renewalVars
<1>0. \A q \in Process : session[q] \notin Holding
  BY DEF TakeoverIsAlone
<1>1. OneHolder' /\ HolderSeesLiveLease'
  BY <1>0 DEF OneHolder, HolderSeesLiveLease, Holding
<1>2. LeasesAreActed'
  BY <1>0 DEF LeasesAreActed, Acted, Holding, Over
<1>3. LiveLeasesLast'
  BY <1>0 DEF LiveLeasesLast, Live, IsExpired, Holding
<1>4. TakeoverIsAlone'
  BY <1>0 DEF TakeoverIsAlone
<1> QED
  BY <1>1, <1>2, <1>3, <1>4

\* A process that crashes takes its renewals along; if another process holds the
\* lease, the file is not the crashed one's.
LEMMA CrashStep ==
    ASSUME RecoveryInv, LeaseTypeOK, NEW p \in Process, Crash(p)
    PROVE  RecoveryInv'
<1> USE DEF RecoveryInv, LeaseTypeOK, Crash, fileVars
<1>1. OneHolder'
  BY DEF OneHolder, Exists, Holding
<1>2. HolderSeesLiveLease'
  <2> SUFFICES ASSUME NEW q \in Process, session[q] \in Holding, q # p, NEW lease \in file
               PROVE  lease.owner \in Process /\ session'[lease.owner] # "crashed"
    BY DEF HolderSeesLiveLease, Holding
  <2>1. lease.owner \in Process /\ session[lease.owner] # "crashed"
    BY DEF HolderSeesLiveLease
  <2>2. lease.owner # p
    BY <2>1 DEF LeasesAreActed, Acted, OneHolder
  <2> QED
    BY <2>1, <2>2
<1>3. LeasesAreActed'
  BY DEF LeasesAreActed, Acted, Over
<1>4. LiveLeasesLast'
  <2>1. Live' \subseteq Live
    BY DEF Live, Holding
  <2> QED
    BY <2>1 DEF LiveLeasesLast, IsExpired
<1>5. TakeoverIsAlone'
  BY LeaseAssumption DEF TakeoverIsAlone, Exists, Holding
<1> QED
  BY <1>1, <1>2, <1>3, <1>4, <1>5

\* A punctual clock waits for the leases of the living.
LEMMA TickStep ==
    ASSUME RecoveryInv, LeaseTypeOK, Punctual, Tick
    PROVE  RecoveryInv'
<1> USE DEF RecoveryInv, LeaseTypeOK, Tick, fileVars, renewalVars
<1>1. OneHolder' /\ HolderSeesLiveLease' /\ LeasesAreActed' /\ TakeoverIsAlone'
  BY DEF OneHolder, HolderSeesLiveLease, LeasesAreActed, Acted, TakeoverIsAlone, Exists
<1>2. LiveLeasesLast'
  <2>1. Live' = Live
    BY DEF Live
  <2>2. ASSUME NEW lease \in Live PROVE lease.until \in Nat
    BY <2>2 DEF Live, Lease
  <2> QED
    BY <2>1, <2>2 DEF LiveLeasesLast, IsExpired
<1> QED
  BY <1>1, <1>2

\* Every step of every process, and of a punctual clock, keeps the invariant.
LEMMA RecoveryStep ==
    ASSUME Punctual, \A a, b \in Recoverer : a = b, LeaseTypeOK,
           RecoveryInv, OnlyRecoverersRecover, ClaimsAreOwn, [LeaseNext]_leaseVars
    PROVE  RecoveryInv'
<1>1. ASSUME NEW p \in Process, Acquire(p) PROVE RecoveryInv'
  <2>1. CASE BuildClaim(p) \/ OpenExclusively(p) \/ WriteClaim(p)
    BY <2>1, BuildClaimStep, OpenStep, HolderGoesOnStep
  <2>2. CASE ReadExisting(p)
    BY <2>2, AsideStep DEF ReadExisting, fileVars, Session, Holding, Over
  <2>3. CASE WriteClaimFails(p)
    BY <2>3, RemovalStep DEF WriteClaimFails, Holding
  <2> QED
    BY <1>1, <2>1, <2>2, <2>3 DEF Acquire
<1>2. ASSUME NEW p \in Process, Renew(p) PROVE RecoveryInv'
  <2>1. ASSUME NEW by \in Renewer, StartRenewal(p, by) PROVE RecoveryInv'
    BY <2>1, RenewalStep DEF StartRenewal, Ask, fileVars, Acted, Holding
  <2>2. ASSUME NEW ask \in asking, ask.process = p, ReadForRenewal(ask) PROVE RecoveryInv'
    <3>0. Acted(p) /\ session[p] # "crashed"
      BY <2>2 DEF RecoveryInv, LeasesAreActed
    <3>1. ASSUME NEW lease \in file, IsRenewable(lease, ask)
          PROVE  LET new == NewLease(lease.owner, lease.revision + 1)
                 IN  new.owner = p /\ ~IsExpired(new)
      BY <2>2, <3>1, LeaseAssumption DEF IsRenewable, NewLease, IsExpired, LeaseTypeOK
    <3>2. \A r \in renewing' :
             r \in renewing \/ (r.process = p /\ r.lease.owner = p /\ ~IsExpired(r.lease))
      BY <2>2, <3>1 DEF ReadForRenewal
    <3> QED
      BY <2>2, <3>0, <3>2, RenewalStep DEF ReadForRenewal, fileVars
  <2>3. ASSUME NEW r \in renewing, WriteRenewal(r) PROVE RecoveryInv'
    BY <2>3, WriteRenewalStep
  <2>4. ASSUME NEW r \in renewing, r.process = p, RenewalFails(r) PROVE RecoveryInv'
    <3>0. Acted(p) /\ session[p] # "crashed"
      BY <2>4 DEF RecoveryInv, LeasesAreActed
    <3> QED
      BY <2>4, <3>0, RenewalStep DEF RenewalFails, fileVars
  <2> QED
    BY <1>2, <2>1, <2>2, <2>3, <2>4 DEF Renew
<1>3. ASSUME NEW p \in Process, Finish(p) PROVE RecoveryInv'
  <2>1. CASE FinishRun(p) \/ ReadForRelease(p)
    BY <2>1, HolderGoesOnStep, ReleaseReadStep
  <2>2. CASE RemoveReleased(p)
    BY <2>2, RemovalStep DEF RemoveReleased, Remove, Holding
  <2> QED
    BY <1>3, <2>1, <2>2 DEF Finish
<1>4. ASSUME NEW p \in Process, Recover(p) PROVE RecoveryInv'
  <2>0. p \in Recoverer
    BY <1>4 DEF OnlyRecoverersRecover, Recovering, Recover, Guard, Inspect, Confirm, CheckTakeover,
                TakeOver, ReadTakenOver, DropTakenOver, RecoverSteps, Remove, Goes
  <2>1. CASE Guard(p) \/ Confirm(p)
    BY <2>1, AsideStep DEF Guard, Confirm, RecoverSteps, fileVars, Session, Holding, Over
  <2>2. CASE Inspect(p)
    <3>1. \A q \in Process \ {p} : held'[q] = held[q]
      BY <2>2 DEF Inspect, RecoverSteps, Holds, LeaseTypeOK
    <3> QED
      BY <2>2, <3>1, AsideStep DEF Inspect, RecoverSteps, fileVars, Session, Holding, Over
  <2>3. CASE ReadTakenOver(p)
    BY <2>3, AsideStep DEF ReadTakenOver, RecoverSteps, fileVars, Session, Holding, Over
  <2>4. CASE CheckTakeover(p) \/ TakeOver(p) \/ DropTakenOver(p)
    BY <2>0, <2>4, CheckTakeoverStep, TakeOverStep, DropStep
  <2> QED
    BY <1>4, <2>1, <2>2, <2>3, <2>4 DEF Recover
<1>5. ASSUME NEW p \in Process, Crash(p) PROVE RecoveryInv'
  BY <1>5, CrashStep
<1>6. CASE Tick
  BY <1>6, TickStep
<1>7. CASE UNCHANGED leaseVars
  BY <1>7 DEF leaseVars, fileVars, renewalVars, RecoveryInv, OneHolder, HolderSeesLiveLease,
              LeasesAreActed, Acted, LiveLeasesLast, Live, IsExpired, TakeoverIsAlone, Exists
<1> QED
  BY <1>1, <1>2, <1>3, <1>4, <1>5, <1>6, <1>7 DEF LeaseNext

\* One recovery at a time, and leases that expire only after their process has
\* crashed: then recovery and sessions exclude each other too, for every number of
\* sessions and renewals, those included that outlive their session.
THEOREM RecoveryIsExclusive ==
    ASSUME Punctual, \A a, b \in Recoverer : a = b
    PROVE  LeaseSpec => []RecoveryInv
<1>1. LeaseInit => RecoveryInv /\ OnlyRecoverersRecover /\ ClaimsAreOwn
  BY LeaseAssumption
  DEF LeaseInit, RecoveryInv, OneHolder, HolderSeesLiveLease, LeasesAreActed, LiveLeasesLast, Live,
      TakeoverIsAlone, OnlyRecoverersRecover, Recovering, ClaimsAreOwn, Holding
<1>2. LeaseTypeOK /\ RecoveryInv /\ OnlyRecoverersRecover /\ ClaimsAreOwn /\ [LeaseNext]_leaseVars
        => (RecoveryInv /\ OnlyRecoverersRecover /\ ClaimsAreOwn)'
  BY RecoveryStep, RecovererStep, ClaimStep
<1> QED
  BY <1>1, <1>2, LeaseTyping, PTL DEF LeaseSpec

\* So a recovered session never runs the mission beside another.
THEOREM OneProcessRunsWithRecovery ==
    ASSUME Punctual, \A a, b \in Recoverer : a = b
    PROVE  LeaseSpec => []OneRunner
<1>1. RecoveryInv => OneRunner
  BY DEF RecoveryInv, OneHolder, OneRunner, Holding
<1> QED
  BY <1>1, RecoveryIsExclusive, PTL
=============================================================================
