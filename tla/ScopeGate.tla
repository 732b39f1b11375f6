------------------------------ MODULE ScopeGate ------------------------------
(***************************************************************************)
(* tools/scope-authorization-gate.ts around tools/policy-wrapper.ts: a tool *)
(* call that changes something reserves its logical operation (kind, target *)
(* and arguments), runs, and settles.  What the user granted for an         *)
(* operation is armed until a reservation takes it; what a superior or the  *)
(* mode allows leaves a record of the scope (kind and target), which is      *)
(* used up at once.  One gate serves all workers of a process.              *)
(*                                                                         *)
(* The revision of authorizations is the constant 1 there.  Reading calls   *)
(* reserve nothing and are left out, as are records that expire: those are  *)
(* refused like used ones.                                                  *)
(***************************************************************************)
EXTENDS Naturals, FiniteSets

CONSTANTS
    Worker,             \* tool calls at a time
    LogicalOperation,
    TargetOf,           \* [LogicalOperation -> targets]
    Outside,            \* operations outside of the project: scopes S2, S3, S6
    Mode,               \* the modes the user switches between
    MaxGrants, MaxToolCalls

ASSUME ScopeAssumption == Mode \subseteq {"assist", "devolve", "ponder"} /\ Outside \subseteq LogicalOperation

VARIABLES
    mode,           \* modeMachine
    reservation,    \* reservationsByLogicalOperation
    armed,          \* authorizationsByLogicalOperation
    record,         \* recordsByFingerprint: none, open or consumed
    allowed,        \* operations the permission engine has a session authorization for
    caller,         \* per worker: the tool call under way
    grants,         \* the user's, per operation
    effects,        \* executions that changed something, or may have, by an armed authorization
    uncertain,      \* operations that ran since they were last granted, and may have changed something
    repeated,       \* operations that ran again all the same
    devolved,       \* the mode has been devolve
    toolCalls

gate == <<reservation, armed, record>>
past == <<effects, uncertain, repeated>>
scopeVars == <<mode, gate, allowed, caller, grants, past, devolved, toolCalls>>

NoReservation == [at |-> "none", armed |-> FALSE, record |-> FALSE]
NoCaller == [at |-> "idle", operation |-> "-", armed |-> FALSE]
Target == {TargetOf[o] : o \in LogicalOperation}

ScopeInit ==
    /\ mode \in Mode /\ devolved = (mode = "devolve")
    /\ reservation = [o \in LogicalOperation |-> NoReservation]
    /\ armed = {} /\ record = [t \in Target |-> "none"] /\ allowed = {}
    /\ caller = [w \in Worker |-> NoCaller]
    /\ grants = [o \in LogicalOperation |-> 0] /\ effects = [o \in LogicalOperation |-> 0]
    /\ uncertain = {} /\ repeated = {} /\ toolCalls = 0

At(w, place) == caller[w].at = place
Goes(w, place) == caller' = [caller EXCEPT ![w].at = place]
Returns(w) == caller' = [caller EXCEPT ![w] = NoCaller]

-----------------------------------------------------------------------------
(* reserveForExecution.                                                    *)

\* decideScopeAuthorization for operations that change something: configured is
\* allow in devolve and ask otherwise.
Decision(o) ==
    CASE mode = "ponder" -> "deny"
      [] mode = "devolve" -> "allow"
      [] mode = "assist" -> IF o \in Outside THEN "ask-user" ELSE "ask-superior"

Executes(w, o, isArmed) ==
    /\ caller' = [caller EXCEPT ![w] = [at |-> "executing", operation |-> o, armed |-> isArmed]]
    /\ repeated' = repeated \cup ({o} \cap uncertain)
    /\ reservation' = [reservation EXCEPT ![o] = [at |-> "in-flight", armed |-> isArmed, record |-> ~isArmed]]

Calls == toolCalls < MaxToolCalls /\ toolCalls' = toolCalls + 1

\* An operation with a reservation is refused; an armed one is reserved at once.
ReserveArmed(w, o) ==
    /\ At(w, "idle") /\ Calls /\ reservation[o].at = "none" /\ o \in armed
    /\ armed' = armed \ {o} /\ Executes(w, o, TRUE)
    /\ UNCHANGED <<mode, record, allowed, grants, effects, uncertain, devolved>>

BeginReserve(w, o) ==
    /\ At(w, "idle") /\ Calls /\ reservation[o].at = "none" /\ o \notin armed
    /\ caller' = [caller EXCEPT ![w] = [at |-> "previewing", operation |-> o, armed |-> FALSE]]
    /\ UNCHANGED <<mode, gate, allowed, grants, past, devolved>>

\* previewDecision: deny and ask-user end the call, the worker is told to wait.
Preview(w) ==
    /\ At(w, "previewing")
    /\ IF Decision(caller[w].operation) \in {"allow", "ask-superior"} THEN Goes(w, "authorizing") ELSE Returns(w)
    /\ UNCHANGED <<mode, gate, allowed, grants, past, devolved, toolCalls>>

\* performScopeAuthorization, when the target has been resolved: an open record
\* is used, a used one refuses the call, and none means deciding again, by the
\* mode of this moment: it is read before the switch for installations is.
Authorize(w) ==
    LET o == caller[w].operation
        t == TargetOf[o]
    IN
    /\ At(w, "authorizing")
    /\ \/ /\ record[t] = "open" /\ record' = [record EXCEPT ![t] = "consumed"] /\ Executes(w, o, FALSE)
       \/ /\ record[t] = "consumed" /\ Returns(w) /\ UNCHANGED <<record, reservation, repeated>>
       \/ /\ record[t] = "none" /\ UNCHANGED <<record, reservation, repeated>>
          /\ IF Decision(o) \in {"allow", "ask-superior"} THEN Goes(w, "deciding") ELSE Returns(w)
    /\ UNCHANGED <<mode, armed, allowed, grants, effects, uncertain, devolved, toolCalls>>

\* The switch for installations has been read; meanwhile the mode may have been
\* switched, and a record made.  The local superior approves what is inside of the
\* project, without waiting for anything; of what is unknown or outside it is not asked.
Decide(w) ==
    LET o == caller[w].operation IN
    /\ At(w, "deciding")
    /\ record' = [record EXCEPT ![TargetOf[o]] = "consumed"] /\ Executes(w, o, FALSE)
    /\ UNCHANGED <<mode, armed, allowed, grants, effects, uncertain, devolved, toolCalls>>

-----------------------------------------------------------------------------
(* The tool and the settlement, which follows without waiting.             *)

\* Mutant: a result that is not known releases the operation like one without effects.
ReleasesUnlessDone(outcome) == outcome # "success"

\* sideEffectStatus none.
Releases(outcome) == outcome = "none"

\* settleReservation finds the reservation by its operation: one that is gone
\* makes the call fail, and one that is settled stays as it is.
Settle(o, outcome) ==
    IF reservation[o].at # "in-flight" THEN UNCHANGED gate
    ELSE /\ reservation' = [reservation EXCEPT ![o] =
                IF Releases(outcome) THEN NoReservation
                ELSE [@ EXCEPT !.at = IF outcome = "success" THEN "settled" ELSE "requires-reconciliation"]]
         /\ armed' = IF Releases(outcome) /\ reservation[o].armed THEN armed \cup {o} ELSE armed
         /\ record' = IF Releases(outcome) /\ reservation[o].record /\ record[TargetOf[o]] = "consumed"
                      THEN [record EXCEPT ![TargetOf[o]] = "open"] ELSE record

EndsCall(w, outcome) ==
    LET o == caller[w].operation IN
    /\ At(w, "executing") /\ Returns(w) /\ Settle(o, outcome)
    /\ UNCHANGED <<mode, allowed, grants, repeated, devolved, toolCalls>>

\* The permission engine asks, or denies in the mode ponder.
InnerRefuses(w) ==
    /\ mode = "ponder" \/ caller[w].operation \notin allowed
    /\ EndsCall(w, "none") /\ UNCHANGED <<effects, uncertain>>

\* The tool returns that it has done nothing: the file exists, the target has
\* changed, the call was cancelled before.
ToolDeclines(w) == EndsCall(w, "none") /\ UNCHANGED <<effects, uncertain>>

\* The tool has run; what it did is not known when it fails or throws.
ToolRuns(w) ==
    LET o == caller[w].operation IN
    /\ o \in allowed /\ \E outcome \in {"success", "unknown"} : EndsCall(w, outcome)
    /\ uncertain' = uncertain \cup {o}
    /\ effects' = [effects EXCEPT ![o] = IF caller[w].armed THEN @ + 1 ELSE @]

-----------------------------------------------------------------------------
(* The user.                                                               *)

\* Mutant: a reservation in flight is cleared by a new grant.
ClearsAny(o) == TRUE

Clears(o) == reservation[o].at # "in-flight"

\* The answer allow-once to a question for permission: grantSessionAuthorization,
\* then grantUserAuthorization with the arguments.
AllowOnce(o) ==
    /\ grants[o] < MaxGrants /\ grants' = [grants EXCEPT ![o] = @ + 1]
    /\ allowed' = allowed \cup {o} /\ armed' = armed \cup {o} /\ uncertain' = uncertain \ {o}
    /\ record' = [record EXCEPT ![TargetOf[o]] = "open"]
    /\ reservation' = [reservation EXCEPT ![o] = IF Clears(o) THEN NoReservation ELSE @]
    /\ UNCHANGED <<mode, caller, effects, repeated, devolved, toolCalls>>

\* grantScopeAuthorization of the public application: no arguments, so nothing is armed.
GrantScope(t) ==
    /\ record[t] # "open" /\ record' = [record EXCEPT ![t] = "open"]
    /\ UNCHANGED <<mode, reservation, armed, allowed, caller, grants, past, devolved, toolCalls>>

\* The session authorization of the permission engine, of ten minutes.
AuthorizationExpires(o) ==
    /\ o \in allowed /\ allowed' = allowed \ {o}
    /\ UNCHANGED <<mode, gate, caller, grants, past, devolved, toolCalls>>

SwitchMode(m) ==
    /\ m # mode /\ mode' = m /\ devolved' = (devolved \/ m = "devolve")
    /\ UNCHANGED <<gate, allowed, caller, grants, past, toolCalls>>

ScopeNext ==
    \/ \E w \in Worker :
          \/ Preview(w) \/ Authorize(w) \/ Decide(w) \/ InnerRefuses(w) \/ ToolDeclines(w) \/ ToolRuns(w)
          \/ \E o \in LogicalOperation : ReserveArmed(w, o) \/ BeginReserve(w, o)
    \/ \E o \in LogicalOperation : AllowOnce(o) \/ AuthorizationExpires(o)
    \/ \E t \in Target : GrantScope(t)
    \/ \E m \in Mode : SwitchMode(m)

ScopeSpec == ScopeInit /\ [][ScopeNext]_scopeVars
-----------------------------------------------------------------------------
Running(o) == {w \in Worker : At(w, "executing") /\ caller[w].operation = o}

\* Outside of the project, as long as nobody is in the mode devolve: what a user
\* allows once takes effect once, however often the call is tried, released,
\* granted again or ended without a known result.
GrantsAreSpentOnce == ~devolved => \A o \in Outside : effects[o] <= grants[o]

\* There as well: one execution at a time, by an authorization of the user, and none after one
\* that may have changed something until the user grants it again.
OutsideIsGuarded ==
    ~devolved => \A o \in Outside :
        /\ Cardinality(Running(o)) <= 1
        /\ \A w \in Running(o) : caller[w].armed
        /\ o \notin repeated

ScopeInv == GrantsAreSpentOnce /\ OutsideIsGuarded

\* scope-authorization-gate.ts says that of concurrent calls of one operation only
\* one can build a reservation.
OneReserves == \A o \in LogicalOperation : Cardinality(Running(o)) <= 1
=============================================================================
