----------------------------- MODULE ToolPackages -----------------------------
(***************************************************************************)
(* The versions of one tool package in one project:                        *)
(* toolkit/tool-package-version-controller.ts decides, the store beside it   *)
(* saves what was decided, and each command (tool-package enable, upgrade,   *)
(* ...) is a process that loads the document, changes it and saves all of it. *)
(* A version that adds side effects needs a record of the user's consent to   *)
(* be upgraded to; the records are in a file of their own.                  *)
(*                                                                         *)
(* A version is registered with a content, which stands for its hash and its *)
(* declared side effects.  Left out are what nothing reads or compares (the   *)
(* revision of a lock, deprecation), the feedback about commands, and runs in *)
(* flight, which nothing records.                                           *)
(***************************************************************************)
EXTENDS Naturals, FiniteSets

CONSTANTS
    Command,            \* processes at a time
    Version,
    Content,
    EffectsOf,          \* [Content -> sets of declared side effects]
    FirstRegistered,    \* [Version -> Content]: what is registered at first
    MaxCommands, MaxRecords, MaxCrashes

ASSUME PackagesAssumption ==
    /\ 0 \notin Version /\ 0 \notin Content /\ FirstRegistered \in [Version -> Content \cup {0}]
    /\ MaxRecords \in Nat

VARIABLES
    document,       \* tool-package-version-state.json
    consents,       \* tool-package-reauthorizations.json
    command,        \* per process: where it is, its controller, what it has read
    agreed,         \* side effects the user has accepted for this project
    issued,         \* records issued
    spent,          \* how many upgrades each record has allowed
    strayed,        \* a switch that no upgrade made, or a version registered anew
    mixed,          \* two commands were between reading and writing the records
    commands, crashes

packageVars == <<document, consents, command, agreed, issued, spent, strayed, mixed, commands, crashes>>

Nothing == 0         \* versions and contents are other numbers
NoLock == [version |-> Nothing, content |-> Nothing, enabled |-> FALSE]
RecordId == 1..MaxRecords
Quiet == [at |-> "idle", controller |-> Nothing, target |-> Nothing, id |-> 0, read |-> {}]

ToolPackagesInit ==
    /\ document = [registered |-> FirstRegistered, lock |-> NoLock]
    /\ consents = {} /\ command = [p \in Command |-> Quiet]
    /\ agreed = {} /\ issued = 0 /\ spent = [i \in RecordId |-> 0]
    /\ strayed = FALSE /\ mixed = FALSE /\ commands = 0 /\ crashes = 0

-----------------------------------------------------------------------------
(* What the controller decides about the document d it was loaded from.     *)

Effects(content) == IF content = Nothing THEN {} ELSE EffectsOf[content]
IsLocked(d) == d.lock.version # Nothing

\* describeUpgradeDifferences: it compares what is registered now.
LostEffects(d, v) == Effects(d.registered[d.lock.version]) \ Effects(d.registered[v])
AddedEffects(d, v) == Effects(d.registered[v]) \ Effects(d.registered[d.lock.version])

Locks(d, v, content, isEnabled) ==
    [d EXCEPT !.lock = [version |-> v, content |-> content, enabled |-> isEnabled]]

Registered(d, v, content) == [d EXCEPT !.registered[v] = content]
LockedTo(d, v, content) ==
    IF d.registered[v] = content THEN Locks(d, v, content, FALSE) ELSE d
Enabled(d, v) ==
    IF d.registered[v] # Nothing /\ (IsLocked(d) => d.lock.version = v)
      THEN Locks(d, v, d.registered[v], TRUE) ELSE d
Disabled(d) ==
    IF IsLocked(d) THEN Locks(d, d.lock.version, d.lock.content, FALSE) ELSE d
RolledBack(d, v) ==
    IF d.registered[v] # Nothing /\ IsLocked(d)
      THEN Locks(d, v, d.registered[v], d.lock.enabled) ELSE d
Upgraded(d, v, isAuthorized) ==
    IF /\ d.registered[v] # Nothing /\ IsLocked(d)
       /\ AddedEffects(d, v) = {} \/ isAuthorized
      THEN Locks(d, v, d.registered[v], TRUE) ELSE d

NeedsConsent(d, v) == IsLocked(d) /\ d.registered[v] # Nothing /\ AddedEffects(d, v) # {}

\* resolveVersionForExecution.
MayRun(d) == d.lock.enabled /\ d.registered[d.lock.version] = d.lock.content

-----------------------------------------------------------------------------
(* Commands: loadController, a decision, saveController.                    *)

CommandAt(p, place) == command[p].at = place
Begins(p) == CommandAt(p, "idle") /\ commands < MaxCommands /\ commands' = commands + 1
CommandReturns(p) == command' = [command EXCEPT ![p] = Quiet]

WillSave(p, d) ==
    command' = [command EXCEPT ![p] = [Quiet EXCEPT !.at = "save", !.controller = d]]

\* The first lock of a project is the user's choice; later ones that bring new side
\* effects bypass the upgrade.
Decides(p, d) ==
    /\ Begins(p) /\ WillSave(p, d)
    /\ agreed' = (IF IsLocked(document) THEN agreed ELSE agreed \cup Effects(d.lock.content))
    /\ strayed' = (strayed \/ (IsLocked(document) /\ ~(Effects(d.lock.content) \subseteq agreed)))
    /\ UNCHANGED <<document, consents, issued, spent, mixed, crashes>>

Register(p, v, content) ==
    /\ Begins(p) /\ WillSave(p, Registered(document, v, content))
    /\ strayed' = (strayed \/ document.registered[v] \notin {Nothing, content})
    /\ UNCHANGED <<document, consents, agreed, issued, spent, mixed, crashes>>

LockTo(p, v, content) == Decides(p, LockedTo(document, v, content))
Enable(p, v) == Decides(p, Enabled(document, v))
Disable(p) == Decides(p, Disabled(document))
RollBack(p, v) == Decides(p, RolledBack(document, v))

\* recover: no command announces a switch before it makes it, so there is none to
\* recover from; the document is saved all the same.
Recover(p) == Decides(p, document)

Upgrade(p, v) ==
    /\ ~NeedsConsent(document, v)
    /\ Begins(p) /\ WillSave(p, Upgraded(document, v, FALSE))
    /\ UNCHANGED <<document, consents, agreed, issued, spent, strayed, mixed, crashes>>

\* upgrade --reauthorization-record i, and authorize-upgrade.
UpgradeWith(p, v, i) ==
    /\ NeedsConsent(document, v) /\ Begins(p)
    /\ command' = [command EXCEPT ![p] = [at |-> "consume", controller |-> document,
                                          target |-> v, id |-> i, read |-> {}]]
    /\ UNCHANGED <<document, consents, agreed, issued, spent, strayed, mixed, crashes>>

AuthorizeUpgrade(p, v) ==
    /\ NeedsConsent(document, v) /\ Begins(p)
    /\ command' = [command EXCEPT ![p] = [at |-> "issue", controller |-> document,
                                          target |-> v, id |-> 0, read |-> {}]]
    /\ UNCHANGED <<document, consents, agreed, issued, spent, strayed, mixed, crashes>>

Save(p) ==
    /\ CommandAt(p, "save") /\ document' = command[p].controller /\ CommandReturns(p)
    /\ UNCHANGED <<consents, agreed, issued, spent, strayed, mixed, commands, crashes>>

-----------------------------------------------------------------------------
(* The records: read and written whole, without a lock.                     *)

ScopeOf(d, v) == [from |-> d.lock.version, to |-> v, added |-> AddedEffects(d, v)]
Consent(i, scope) == [id |-> i, scope |-> scope, consumed |-> FALSE]

\* consumeRecordForOperation.
Matches(r, p) ==
    r.id = command[p].id /\ ~r.consumed /\ r.scope = ScopeOf(command[p].controller, command[p].target)
NotConsumed(r) == r
Consumed(r) == [r EXCEPT !.consumed = TRUE]

HasRead(p) == CommandAt(p, "write consumed") \/ CommandAt(p, "write issued")

ReadConsents(p) ==
    /\ \/ /\ CommandAt(p, "issue")
          /\ command' = [command EXCEPT ![p].at = "write issued", ![p].read = consents]
       \/ /\ CommandAt(p, "consume") /\ \E r \in consents : Matches(r, p)
          /\ command' = [command EXCEPT ![p].at = "write consumed", ![p].read = consents]
       \/ /\ CommandAt(p, "consume") /\ \A r \in consents : ~Matches(r, p)
          /\ CommandReturns(p)
    /\ mixed' = (mixed \/ \E q \in Command \ {p} : HasRead(q))
    /\ UNCHANGED <<document, consents, agreed, issued, spent, strayed, commands, crashes>>

WriteIssued(p) ==
    /\ CommandAt(p, "write issued") /\ issued < MaxRecords /\ issued' = issued + 1
    /\ consents' = command[p].read
          \cup {Consent(issued + 1, ScopeOf(command[p].controller, command[p].target))}
    /\ CommandReturns(p)
    /\ UNCHANGED <<document, agreed, spent, strayed, mixed, commands, crashes>>

WriteConsumed(p) ==
    /\ CommandAt(p, "write consumed")
    /\ \E r \in command[p].read :
          /\ Matches(r, p)
          /\ consents' = (command[p].read \ {r}) \cup {Consumed(r)}
          /\ spent' = [spent EXCEPT ![r.id] = @ + 1]
          /\ agreed' = agreed \cup r.scope.added
    /\ WillSave(p, Upgraded(command[p].controller, command[p].target, TRUE))
    /\ UNCHANGED <<document, issued, strayed, mixed, commands, crashes>>

\* A process that dies while it writes the records leaves a file that cannot be read,
\* which counts as no records.
Dies(p) ==
    /\ ~CommandAt(p, "idle") /\ crashes < MaxCrashes /\ crashes' = crashes + 1
    /\ consents' \in IF HasRead(p) THEN {consents, {}} ELSE {consents}
    /\ CommandReturns(p)
    /\ UNCHANGED <<document, agreed, issued, spent, strayed, mixed, commands>>

ToolPackagesNext ==
    \E p \in Command :
       \/ Disable(p) \/ Recover(p) \/ Save(p) \/ Dies(p)
       \/ ReadConsents(p) \/ WriteIssued(p) \/ WriteConsumed(p)
       \/ \E v \in Version :
             \/ Enable(p, v) \/ RollBack(p, v) \/ Upgrade(p, v) \/ AuthorizeUpgrade(p, v)
             \/ \E i \in RecordId : UpgradeWith(p, v, i)
             \/ \E c \in Content : Register(p, v, c) \/ LockTo(p, v, c)

ToolPackagesSpec == ToolPackagesInit /\ [][ToolPackagesNext]_packageVars
-----------------------------------------------------------------------------
\* As long as versions are only switched by upgrades (and no rollback or lock brings
\* side effects the user has not seen), what may run in the project does only what the
\* user accepted, whatever commands overlap, die, or save what others have changed.
EffectsAreAgreed ==
    (~strayed /\ MayRun(document)) => Effects(document.lock.content) \subseteq agreed

\* A consent allows one upgrade, unless two commands read the records at the same time.
ConsentsAreSpentOnce == ~mixed => \A i \in RecordId : spent[i] <= 1

ToolPackagesInv == EffectsAreAgreed /\ ConsentsAreSpentOnce

\* "upgradeProjectVersion is the only way to switch versions, and always asks."
SwitchesAreAuthorized == MayRun(document) => Effects(document.lock.content) \subseteq agreed
=============================================================================
