--------------------------- MODULE SessionElevations ---------------------------
(***************************************************************************)
(* tools/session-permission-elevation.ts: what a user allows the agents of a *)
(* session beyond their permission group, until it is revoked or the session *)
(* is closed.  One store serves all sessions of the application; it has one   *)
(* array of records, which each call fills from the file of its session, and *)
(* a file per session.                                                     *)
(*                                                                         *)
(* Each await is the end of a step.  A record stands for its capability,     *)
(* scope, decision and snapshots, which EffectiveSecondaryPermissionResolver *)
(* compares; those comparisons, expiry and the export of a closing session   *)
(* are left out.                                                           *)
(***************************************************************************)
EXTENDS Naturals, FiniteSets

CONSTANTS
    Session,
    ElevationCaller,             \* calls at a time
    MaxElevations, MaxElevationCalls, MaxElevationCrashes

VARIABLES
    records,        \* this.records: the array all calls share
    files,          \* per session: the records in its file, or NoFile, or Torn
    elevating,      \* per caller: the call under way
    granted,        \* every record the user has created, and for which session
    owed,           \* records whose creation was reported: until the user revokes them, or a
                    \* crash tears their file
    revoked,        \* records whose revocation was reported
    changed,        \* sessions with calls that change something
    crowded,        \* two calls have been under way at a time
    elevationCalls, elevationCrashes

elevationVars == <<records, files, elevating, granted, owed, revoked, changed, crowded, elevationCalls, elevationCrashes>>

NoFile == {}        \* an empty file is never written
Torn == {0}
Elevation == 1..MaxElevations
NoCall == [at |-> "idle", session |-> "-", kind |-> "-", made |-> {}, gone |-> {}, read |-> {}, ids |-> {}]

ElevationsInit ==
    /\ records = {} /\ files = [s \in Session |-> NoFile]
    /\ elevating = [c \in ElevationCaller |-> NoCall]
    /\ granted = [i \in {} |-> "-"] /\ owed = {} /\ revoked = {}
    /\ changed = {} /\ crowded = FALSE
    /\ elevationCalls = 0 /\ elevationCrashes = 0

ElevationAt(c, place) == elevating[c].at = place
ElevationGoes(c, place) == elevating' = [elevating EXCEPT ![c].at = place]
OfSession(set, s) == {i \in set : granted[i] = s}

-----------------------------------------------------------------------------
\* listRecords, addRecord, revokeRecord and revokeAllForSession begin with the
\* session's file, which a reader finds unreadable while it is being written.
Readable(content) == content \ Torn

BeginCall(c, s, kind) ==
    /\ ElevationAt(c, "idle") /\ elevationCalls < MaxElevationCalls /\ elevationCalls' = elevationCalls + 1
    /\ elevating' = [elevating EXCEPT ![c] =
          [NoCall EXCEPT !.at = "loading", !.session = s, !.kind = kind]]
    /\ crowded' = (crowded \/ \E d \in ElevationCaller \ {c} : ~ElevationAt(d, "idle"))
    /\ changed' = IF kind = "list" THEN changed ELSE changed \cup {s}
    /\ UNCHANGED <<records, files, granted, owed, revoked, elevationCrashes>>

ReadRecords(c) ==
    /\ ElevationAt(c, "loading")
    /\ elevating' = [elevating EXCEPT ![c].at = "loaded",
                                      ![c].read = Readable(files[elevating[c].session])]
    /\ UNCHANGED <<records, files, granted, owed, revoked, changed, crowded, elevationCalls, elevationCrashes>>

\* What was read replaces the array, whatever another call has put there.
Remembered(c) == OfSession(records, elevating[c].session)
Loaded(c) == OfSession(elevating[c].read, elevating[c].session)

ListRecords(c) ==
    /\ ElevationAt(c, "loaded") /\ elevating[c].kind = "list"
    /\ records' = Loaded(c) /\ ElevationGoes(c, "idle")
    /\ UNCHANGED <<files, granted, owed, revoked, changed, crowded, elevationCalls, elevationCrashes>>

AddRecord(c) ==
    /\ ElevationAt(c, "loaded") /\ elevating[c].kind = "add"
    /\ LET i == Cardinality(DOMAIN granted) + 1
       IN /\ i \in Elevation
          /\ records' = Loaded(c) \cup {i}
          /\ granted' = [j \in DOMAIN granted \cup {i} |->
                            IF j = i THEN elevating[c].session ELSE granted[j]]
          /\ elevating' = [elevating EXCEPT ![c].at = "persist", ![c].made = {i}]
    /\ UNCHANGED <<files, owed, revoked, changed, crowded, elevationCalls, elevationCrashes>>

\* revokeRecord of one record, revokeAllForSession of all.
Revoke(c) ==
    /\ ElevationAt(c, "loaded") /\ elevating[c].kind \in {"revoke", "close"}
    /\ \E gone \in IF elevating[c].kind = "close" THEN {Loaded(c)} ELSE {{i} : i \in Loaded(c)} :
          /\ records' = Loaded(c) \ gone
          /\ elevating' = [elevating EXCEPT ![c].at = "persist", ![c].gone = gone]
          /\ owed' = owed \ gone
    /\ UNCHANGED <<files, granted, revoked, changed, crowded, elevationCalls, elevationCrashes>>

RevokeNone(c) ==
    /\ ElevationAt(c, "loaded") /\ elevating[c].kind = "revoke" /\ Loaded(c) = {}
    /\ records' = {} /\ ElevationGoes(c, "idle")
    /\ UNCHANGED <<files, granted, owed, revoked, changed, crowded, elevationCalls, elevationCrashes>>

-----------------------------------------------------------------------------
(* persistRecords: the files of sessions the array does not speak of are     *)
(* removed, then the others are written from the array as it is by then.     *)

AnySession(set) == Session
SessionsIn(set) == {s \in Session : OfSession(set, s) # {}}
Kept(s) == OfSession(records, s)

RemoveOthers(c) ==
    /\ ElevationAt(c, "persist")
    /\ files' = [s \in Session |-> IF s \in SessionsIn(records) THEN files[s] ELSE NoFile]
    /\ elevating' = [elevating EXCEPT ![c].at = "write", ![c].ids = SessionsIn(records)]
    /\ UNCHANGED <<records, granted, owed, revoked, changed, crowded, elevationCalls, elevationCrashes>>

BeginWrite(c) ==
    /\ ElevationAt(c, "write")
    /\ \E s \in elevating[c].ids :
          /\ Kept(s) # {} /\ files' = [files EXCEPT ![s] = Torn]
          /\ elevating' = [elevating EXCEPT ![c].at = "writing", ![c].read = Kept(s), ![c].ids = {s}]
    /\ UNCHANGED <<records, granted, owed, revoked, changed, crowded, elevationCalls, elevationCrashes>>

EndWrite(c) ==
    /\ ElevationAt(c, "writing")
    /\ files' = [s \in Session |-> IF s \in elevating[c].ids THEN elevating[c].read ELSE files[s]]
    /\ elevating' = [elevating EXCEPT ![c].at = "write", ![c].ids = {}]
    /\ UNCHANGED <<records, granted, owed, revoked, changed, crowded, elevationCalls, elevationCrashes>>

EndCall(c) ==
    /\ ElevationAt(c, "write") /\ \A s \in elevating[c].ids : Kept(s) = {}
    /\ owed' = owed \cup elevating[c].made /\ revoked' = revoked \cup elevating[c].gone
    /\ elevating' = [elevating EXCEPT ![c] = NoCall]
    /\ UNCHANGED <<records, files, granted, changed, crowded, elevationCalls, elevationCrashes>>

ApplicationEnds ==
    /\ elevationCrashes < MaxElevationCrashes /\ elevationCrashes' = elevationCrashes + 1
    /\ records' = {} /\ elevating' = [c \in ElevationCaller |-> NoCall]
    /\ owed' = {i \in owed : files[granted[i]] # Torn}
    /\ UNCHANGED <<files, granted, revoked, changed, crowded, elevationCalls>>

ElevationsNext ==
    \/ \E c \in ElevationCaller :
          \/ \E s \in Session, kind \in {"list", "add", "revoke", "close"} : BeginCall(c, s, kind)
          \/ ReadRecords(c) \/ ListRecords(c) \/ AddRecord(c) \/ Revoke(c) \/ RevokeNone(c)
          \/ RemoveOthers(c) \/ BeginWrite(c) \/ EndWrite(c) \/ EndCall(c)
    \/ ApplicationEnds

ElevationsSpec == ElevationsInit /\ [][ElevationsNext]_elevationVars
-----------------------------------------------------------------------------
OnDisk == UNION {Readable(files[s]) : s \in Session}

\* What the user revoked, or what a closed session left, never counts again, unless
\* another call came in between.
RevokedStaysRevoked == ~crowded => OnDisk \cap revoked = {}

\* An elevation that was reported is kept until it is revoked, across restarts, unless
\* calls meet, the application dies while it writes, or another session is changed.
OneSession == Cardinality(changed) <= 1
Writing == \E c \in ElevationCaller : ElevationAt(c, "writing") \/ ElevationAt(c, "write") \/ ElevationAt(c, "persist")
Undisturbed == ~crowded /\ OneSession /\ ~Writing
ElevationsAreKept == Undisturbed => owed \subseteq OnDisk

ElevationInv == RevokedStaysRevoked /\ ElevationsAreKept
=============================================================================
