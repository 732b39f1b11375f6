------------------------------ MODULE StoresProofs ------------------------------
(***************************************************************************)
(* What holds of the stores that guard what agents do to a project, for any *)
(* number of calls, operations, versions, sessions and contents.           *)
(***************************************************************************)
EXTENDS ScopeGate, PermittedTools, CrossProjectImport, BackupVault, LocalPreservation, InstructionWindow,
        FiniteSetTheorems, SequenceTheorems, TLAPS

-----------------------------------------------------------------------------
(* The gate (ScopeGate).                                                   *)

GateTypeOK ==
    /\ mode \in Mode /\ (~devolved => mode # "devolve")
    /\ caller \in [Worker ->
          [at : {"idle", "previewing", "authorizing", "deciding", "executing"},
           operation : LogicalOperation \cup {"-"}, armed : BOOLEAN]]
    /\ \A w \in Worker : At(w, "idle") \/ caller[w].operation \in LogicalOperation
    /\ reservation \in [LogicalOperation ->
          [at : {"none", "in-flight", "settled", "requires-reconciliation"},
           armed : BOOLEAN, record : BOOLEAN]]
    /\ grants \in [LogicalOperation -> Nat] /\ effects \in [LogicalOperation -> Nat]

\* What follows is about an operation o outside of the project, and as long as nobody is in
\* the mode devolve.

Executing(w, o) == At(w, "executing") /\ caller[w].operation = o
InUse(o) == \E w \in Worker : Executing(w, o)

\* The gate leaves its calls to the user: beyond the preview comes only what is armed.
CallsAreAsked(o) ==
    \A w \in Worker : caller[w].operation = o =>
        /\ caller[w].at \notin {"authorizing", "deciding"}
        /\ Executing(w, o) => caller[w].armed

\* A call that executes has its reservation, and is alone.
ExecutionsAreReserved(o) ==
    /\ InUse(o) => reservation[o].at = "in-flight"
    /\ \A v, w \in Worker : Executing(v, o) /\ Executing(w, o) => v = w

\* What can run, or runs, has changed nothing since it was granted.
NothingUnknownRuns(o) ==
    /\ InUse(o) => o \notin uncertain
    /\ reservation[o].at = "none" /\ o \in armed => o \notin uncertain
    /\ o \notin repeated

\* A grant is armed, in use, or spent.
Held(o) == (IF o \in armed THEN 1 ELSE 0) + (IF InUse(o) THEN 1 ELSE 0)
GrantsCover(o) == effects[o] + Held(o) <= grants[o]

OutsideIInv(o) == CallsAreAsked(o) /\ ExecutionsAreReserved(o) /\ NothingUnknownRuns(o) /\ GrantsCover(o)

ScopeIInv == GateTypeOK /\ (~devolved => \A o \in Outside : OutsideIInv(o))

\* The steps of the gate that are not about an operation leave its facts alone.
LEMMA GateUntouched ==
    ASSUME NEW o, OutsideIInv(o),
           \A w \in Worker :
              \/ caller'[w] = caller[w]
              \/ /\ ~Executing(w, o) /\ ~Executing(w, o)'
                 /\ caller'[w].operation = o => caller'[w].at \notin {"authorizing", "deciding"},
           reservation'[o] = reservation[o], o \in armed' <=> o \in armed,
           o \in uncertain' <=> o \in uncertain, o \in repeated' <=> o \in repeated,
           effects'[o] = effects[o], grants'[o] = grants[o]
    PROVE  OutsideIInv(o)'
<1>1. \A w \in Worker : Executing(w, o)' <=> Executing(w, o)
  BY DEF Executing, At
<1>2. InUse(o)' <=> InUse(o)
  BY <1>1 DEF InUse
<1>3. CallsAreAsked(o)'
  BY <1>1 DEF OutsideIInv, CallsAreAsked
<1>4. ExecutionsAreReserved(o)'
  BY <1>1, <1>2 DEF OutsideIInv, ExecutionsAreReserved
<1>5. NothingUnknownRuns(o)'
  BY <1>2 DEF OutsideIInv, NothingUnknownRuns
<1>6. GrantsCover(o)'
  BY <1>2 DEF OutsideIInv, GrantsCover, Held
<1> QED
  BY <1>3, <1>4, <1>5, <1>6 DEF OutsideIInv

LEMMA ExecutesIsTyped ==
    ASSUME NEW w \in Worker, NEW o \in LogicalOperation, NEW isArmed \in BOOLEAN, GateTypeOK, Executes(w, o, isArmed),
           UNCHANGED <<mode, grants, effects, devolved>>
    PROVE  GateTypeOK'
<1>1. caller' \in [Worker ->
          [at : {"idle", "previewing", "authorizing", "deciding", "executing"},
           operation : LogicalOperation \cup {"-"}, armed : BOOLEAN]]
  BY DEF GateTypeOK, Executes
<1>2. \A v \in Worker : At(v, "idle")' \/ caller'[v].operation \in LogicalOperation
  BY DEF GateTypeOK, Executes, At
<1>3. reservation' \in [LogicalOperation ->
          [at : {"none", "in-flight", "settled", "requires-reconciliation"},
           armed : BOOLEAN, record : BOOLEAN]]
  BY DEF GateTypeOK, Executes
<1> QED
  BY <1>1, <1>2, <1>3 DEF GateTypeOK

LEMMA EndsCallIsTyped ==
    ASSUME NEW w \in Worker, NEW outcome, GateTypeOK, EndsCall(w, outcome)
    PROVE  /\ caller[w].operation \in LogicalOperation
           /\ mode' = mode /\ devolved' = devolved /\ grants' = grants
           /\ caller' \in [Worker ->
                 [at : {"idle", "previewing", "authorizing", "deciding", "executing"},
                  operation : LogicalOperation \cup {"-"}, armed : BOOLEAN]]
           /\ \A v \in Worker : At(v, "idle")' \/ caller'[v].operation \in LogicalOperation
           /\ reservation' \in [LogicalOperation ->
                 [at : {"none", "in-flight", "settled", "requires-reconciliation"},
                  armed : BOOLEAN, record : BOOLEAN]]
<1>1. caller[w].operation \in LogicalOperation
  BY DEF EndsCall, GateTypeOK, At
<1>2. caller' = [caller EXCEPT ![w] = NoCaller] /\ NoCaller.at = "idle"
  BY DEF EndsCall, Returns, NoCaller
<1>3. NoCaller \in [at : {"idle", "previewing", "authorizing", "deciding", "executing"},
                    operation : LogicalOperation \cup {"-"}, armed : BOOLEAN]
  BY DEF NoCaller
<1>4. \A v \in Worker : At(v, "idle")' \/ caller'[v].operation \in LogicalOperation
  BY <1>2 DEF GateTypeOK, At
<1>5. reservation' \in [LogicalOperation ->
                 [at : {"none", "in-flight", "settled", "requires-reconciliation"},
                  armed : BOOLEAN, record : BOOLEAN]]
  <2>1. CASE Releases(outcome)
    <3>1. \/ reservation' = [reservation EXCEPT ![caller[w].operation] = NoReservation]
          \/ reservation' = reservation
      BY <2>1 DEF EndsCall, Settle, gate
    <3>2. NoReservation \in [at : {"none", "in-flight", "settled", "requires-reconciliation"},
                             armed : BOOLEAN, record : BOOLEAN]
      BY DEF NoReservation
    <3> QED
      BY <1>1, <3>1, <3>2 DEF GateTypeOK
  <2>2. CASE ~Releases(outcome)
    BY <1>1, <2>2 DEF EndsCall, Settle, GateTypeOK, gate
  <2> QED
    BY <2>1, <2>2
<1> QED
  BY <1>1, <1>2, <1>3, <1>4, <1>5 DEF GateTypeOK, EndsCall

LEMMA GateTyping == GateTypeOK /\ [ScopeNext]_scopeVars => GateTypeOK'
<1> SUFFICES ASSUME GateTypeOK, [ScopeNext]_scopeVars PROVE GateTypeOK'
  OBVIOUS
<1>1. ASSUME NEW w \in Worker, Preview(w) PROVE GateTypeOK'
  <2>1. UNCHANGED <<mode, reservation, grants, effects, devolved>>
    BY <1>1 DEF Preview, gate, past
  <2>2. CASE Returns(w)
    BY <2>1, <2>2 DEF Returns, NoCaller, At, GateTypeOK
  <2>3. CASE Goes(w, "authorizing")
    <3>1. caller[w].operation \in LogicalOperation
      BY <1>1 DEF Preview, At, GateTypeOK
    <3> QED
      BY <2>1, <2>3, <3>1 DEF Goes, At, GateTypeOK
  <2> QED
    BY <1>1, <2>2, <2>3 DEF Preview
<1>2. ASSUME NEW w \in Worker, Authorize(w) PROVE GateTypeOK'
  <2>1. caller[w].operation \in LogicalOperation /\ UNCHANGED <<mode, grants, effects, devolved>>
    BY <1>2 DEF Authorize, GateTypeOK, At
  <2>2. CASE Executes(w, caller[w].operation, FALSE)
    BY <2>1, <2>2, ExecutesIsTyped
  <2>3. CASE Returns(w) /\ UNCHANGED reservation
    BY <2>1, <2>3 DEF Returns, NoCaller, At, GateTypeOK
  <2>4. CASE Goes(w, "deciding") /\ UNCHANGED reservation
    BY <2>1, <2>4 DEF Goes, At, GateTypeOK
  <2> QED
    BY <1>2, <2>2, <2>3, <2>4 DEF Authorize
<1>3. ASSUME NEW w \in Worker, Decide(w) PROVE GateTypeOK'
  <2>1. caller[w].operation \in LogicalOperation /\ UNCHANGED <<mode, grants, effects, devolved>>
    BY <1>3 DEF Decide, GateTypeOK, At
  <2>2. Executes(w, caller[w].operation, FALSE)
    BY <1>3 DEF Decide
  <2> QED
    BY <2>1, <2>2, ExecutesIsTyped
<1>4. ASSUME NEW w \in Worker, InnerRefuses(w) \/ ToolDeclines(w) PROVE GateTypeOK'
  <2>1. EndsCall(w, "none") /\ effects' = effects
    BY <1>4 DEF InnerRefuses, ToolDeclines
  <2> QED
    BY <2>1, EndsCallIsTyped DEF GateTypeOK
<1>5. ASSUME NEW w \in Worker, ToolRuns(w) PROVE GateTypeOK'
  <2>1. PICK outcome \in {"success", "unknown"} : EndsCall(w, outcome)
    BY <1>5 DEF ToolRuns
  <2>2. effects' \in [LogicalOperation -> Nat]
    <3>1. caller[w].operation \in LogicalOperation
      BY <2>1, EndsCallIsTyped
    <3>2. /\ effects \in [LogicalOperation -> Nat]
          /\ effects' = [effects EXCEPT ![caller[w].operation] = IF caller[w].armed THEN @ + 1 ELSE @]
      BY <1>5 DEF ToolRuns, GateTypeOK
    <3> QED
      BY <3>1, <3>2
  <2> QED
    BY <2>1, <2>2, EndsCallIsTyped DEF GateTypeOK
<1>6. ASSUME NEW w \in Worker, NEW o \in LogicalOperation, ReserveArmed(w, o) PROVE GateTypeOK'
  BY <1>6, ExecutesIsTyped DEF ReserveArmed
<1>7. ASSUME NEW w \in Worker, NEW o \in LogicalOperation, BeginReserve(w, o) PROVE GateTypeOK'
  BY <1>7 DEF BeginReserve, At, GateTypeOK, gate, past
<1>8. ASSUME NEW o \in LogicalOperation, AllowOnce(o) PROVE GateTypeOK'
  BY <1>8 DEF AllowOnce, NoReservation, At, GateTypeOK
<1>9. ASSUME UNCHANGED <<mode, caller, reservation, grants, effects, devolved>> PROVE GateTypeOK'
  BY <1>9 DEF At, GateTypeOK
<1>10. ASSUME NEW m \in Mode, SwitchMode(m) PROVE GateTypeOK'
  BY <1>10 DEF SwitchMode, At, GateTypeOK, gate, past
<1> QED
  BY <1>1, <1>2, <1>3, <1>4, <1>5, <1>6, <1>7, <1>8, <1>9, <1>10
  DEF ScopeNext, GrantScope, AuthorizationExpires, scopeVars, gate, past

\* A call takes an armed grant (createReservation).
LEMMA ReserveArmedStep ==
    ASSUME GateTypeOK, NEW o \in Outside, OutsideIInv(o),
           NEW w \in Worker, NEW p \in LogicalOperation, ReserveArmed(w, p)
    PROVE  OutsideIInv(o)'
<1>0. o \in LogicalOperation
  BY ScopeAssumption
<1>1. CASE p # o
  <2>1. /\ At(w, "idle")
        /\ caller' = [caller EXCEPT ![w] = [at |-> "executing", operation |-> p, armed |-> TRUE]]
    BY DEF ReserveArmed, Executes
  <2>2. ~Executing(w, o) /\ ~Executing(w, o)' /\ caller'[w].operation # o
    BY <1>1, <2>1 DEF Executing, At, GateTypeOK
  <2>3. \A v \in Worker : v # w => caller'[v] = caller[v]
    BY <2>1 DEF GateTypeOK
  <2> QED
    BY <1>0, <1>1, <2>2, <2>3, GateUntouched DEF ReserveArmed, Executes, GateTypeOK
<1>2. CASE p = o
  <2>1. /\ caller' = [caller EXCEPT ![w] = [at |-> "executing", operation |-> o, armed |-> TRUE]]
        /\ reservation'[o].at = "in-flight" /\ o \notin armed' /\ o \in armed /\ reservation[o].at = "none"
        /\ UNCHANGED <<effects, grants, uncertain>> /\ o \notin uncertain /\ o \notin repeated'
    BY <1>0, <1>2 DEF ReserveArmed, Executes, GateTypeOK, OutsideIInv, NothingUnknownRuns
  <2>2. ~InUse(o)
    BY <2>1 DEF OutsideIInv, ExecutionsAreReserved
  <2>3. \A v \in Worker : Executing(v, o)' <=> v = w
    BY <2>1, <2>2 DEF Executing, At, InUse, GateTypeOK
  <2>4. InUse(o)'
    BY <2>3 DEF InUse
  <2>5. CallsAreAsked(o)'
    BY <2>1, <2>3 DEF OutsideIInv, CallsAreAsked, Executing, At, GateTypeOK
  <2>6. ExecutionsAreReserved(o)'
    BY <2>1, <2>3 DEF ExecutionsAreReserved
  <2>7. NothingUnknownRuns(o)'
    BY <2>1 DEF NothingUnknownRuns
  <2>8. Held(o)' = Held(o)
    BY <2>1, <2>2, <2>4 DEF Held
  <2>9. GrantsCover(o)'
    BY <2>1, <2>8 DEF OutsideIInv, GrantsCover
  <2> QED
    BY <2>5, <2>6, <2>7, <2>9 DEF OutsideIInv
<1> QED
  BY <1>1, <1>2

\* A call settles (settleReservation), after the tool has done nothing, or has run.
LEMMA EndsCallStep ==
    ASSUME GateTypeOK, NEW o \in Outside, OutsideIInv(o), NEW w \in Worker,
           \/ EndsCall(w, "none") /\ UNCHANGED <<effects, uncertain>>
           \/ /\ \E outcome \in {"success", "unknown"} : EndsCall(w, outcome)
              /\ uncertain' = uncertain \cup {caller[w].operation}
              /\ effects' = [effects EXCEPT ![caller[w].operation] = IF caller[w].armed THEN @ + 1 ELSE @]
    PROVE  OutsideIInv(o)'
<1>0. o \in LogicalOperation
  BY ScopeAssumption
<1>a. PICK outcome \in {"none", "success", "unknown"} :
         /\ EndsCall(w, outcome)
         /\ \/ outcome = "none" /\ UNCHANGED <<effects, uncertain>>
            \/ /\ outcome # "none" /\ uncertain' = uncertain \cup {caller[w].operation}
               /\ effects' = [effects EXCEPT ![caller[w].operation] = IF caller[w].armed THEN @ + 1 ELSE @]
  <2>1. CASE EndsCall(w, "none") /\ UNCHANGED <<effects, uncertain>>
    BY <2>1
  <2>2. CASE /\ \E outcome \in {"success", "unknown"} : EndsCall(w, outcome)
             /\ uncertain' = uncertain \cup {caller[w].operation}
             /\ effects' = [effects EXCEPT ![caller[w].operation] = IF caller[w].armed THEN @ + 1 ELSE @]
    BY <2>2
  <2> QED
    BY <2>1, <2>2
<1>b. /\ At(w, "executing") /\ caller[w].operation \in LogicalOperation
      /\ caller' = [caller EXCEPT ![w] = NoCaller] /\ Settle(caller[w].operation, outcome)
      /\ repeated' = repeated /\ grants' = grants
  BY <1>a, EndsCallIsTyped DEF EndsCall, Returns
<1>1. CASE caller[w].operation # o
  <2>1. ~Executing(w, o) /\ ~Executing(w, o)' /\ caller'[w].at = "idle"
    BY <1>1, <1>b DEF Executing, At, NoCaller, GateTypeOK
  <2>2. \A v \in Worker : v # w => caller'[v] = caller[v]
    BY <1>b DEF GateTypeOK
  <2>3. /\ reservation'[o] = reservation[o] /\ (o \in armed' <=> o \in armed)
        /\ (o \in uncertain' <=> o \in uncertain) /\ effects'[o] = effects[o]
    BY <1>0, <1>1, <1>a, <1>b DEF Settle, GateTypeOK, gate
  <2> QED
    BY <1>b, <2>1, <2>2, <2>3, GateUntouched
<1>2. CASE caller[w].operation = o
  <2>1. Executing(w, o) /\ InUse(o)
    BY <1>2, <1>b DEF Executing, InUse
  <2>2. /\ caller[w].armed /\ o \notin uncertain /\ o \notin repeated /\ reservation[o].at = "in-flight"
        /\ \A v \in Worker : v # w => ~Executing(v, o)
    BY <1>2, <2>1 DEF OutsideIInv, CallsAreAsked, NothingUnknownRuns, ExecutionsAreReserved
  <2>3. \A v \in Worker : ~Executing(v, o)'
    BY <1>b, <2>2 DEF Executing, At, NoCaller, GateTypeOK
  <2>4. ~InUse(o)'
    BY <2>3 DEF InUse
  <2>5. CallsAreAsked(o)'
    BY <1>b, <2>3 DEF OutsideIInv, CallsAreAsked, Executing, NoCaller, GateTypeOK
  <2>6. ExecutionsAreReserved(o)'
    BY <2>3, <2>4 DEF ExecutionsAreReserved
  <2>c. /\ Held(o) \in Nat /\ Held(o)' \in Nat /\ effects[o] \in Nat /\ grants[o] \in Nat
        /\ effects[o] + Held(o) <= grants[o]
    BY <1>0 DEF Held, OutsideIInv, GrantsCover, GateTypeOK
  <2>7. ASSUME outcome = "none" PROVE NothingUnknownRuns(o)' /\ GrantsCover(o)'
    <3>1. /\ UNCHANGED <<effects, uncertain>> /\ reservation'[o] = NoReservation
          /\ o \in armed' <=> (o \in armed \/ reservation[o].armed)
      BY <1>0, <1>a, <1>b, <1>2, <2>2, <2>7 DEF Settle, Releases, GateTypeOK
    <3>2. NothingUnknownRuns(o)'
      BY <1>b, <2>2, <2>4, <3>1 DEF NothingUnknownRuns
    <3>3. Held(o)' <= Held(o)
      BY <2>1, <2>4 DEF Held
    <3>4. GrantsCover(o)'
      BY <1>b, <3>1, <3>3, <2>c DEF GrantsCover
    <3> QED
      BY <3>2, <3>4
  <2>8. ASSUME outcome # "none" PROVE NothingUnknownRuns(o)' /\ GrantsCover(o)'
    <3>1. /\ effects'[o] = effects[o] + 1 /\ reservation'[o].at # "none" /\ (o \in armed' <=> o \in armed)
      BY <1>0, <1>a, <1>b, <1>2, <2>2, <2>8 DEF Settle, Releases, GateTypeOK
    <3>2. NothingUnknownRuns(o)'
      BY <1>b, <2>2, <2>4, <3>1 DEF NothingUnknownRuns
    <3>3. Held(o)' = Held(o) - 1
      BY <2>1, <2>4, <3>1 DEF Held
    <3>4. GrantsCover(o)'
      BY <1>b, <3>1, <3>3, <2>c DEF GrantsCover
    <3> QED
      BY <3>2, <3>4
  <2> QED
    BY <2>5, <2>6, <2>7, <2>8 DEF OutsideIInv
<1> QED
  BY <1>1, <1>2

\* A call on its way to a reservation, other than the one above.
LEMMA ReserveStep ==
    ASSUME GateTypeOK, NEW o \in Outside, OutsideIInv(o), ~devolved, NEW w \in Worker,
           Preview(w) \/ Authorize(w) \/ Decide(w) \/ \E p \in LogicalOperation : BeginReserve(w, p)
    PROVE  OutsideIInv(o)'
<1>0. o \in LogicalOperation /\ ~At(w, "executing") /\ ~Executing(w, o)
  BY ScopeAssumption DEF Preview, Authorize, Decide, BeginReserve, At, Executing
<1>1. /\ UNCHANGED <<effects, uncertain, grants, armed>> /\ \A v \in Worker : v # w => caller'[v] = caller[v]
  BY DEF Preview, Authorize, Decide, BeginReserve, Executes, Goes, Returns, GateTypeOK, gate, past
<1>2. ASSUME Executes(w, caller[w].operation, FALSE), caller[w].at \in {"authorizing", "deciding"} PROVE OutsideIInv(o)'
  <2>1. caller[w].operation # o /\ caller[w].operation \in LogicalOperation
    BY <1>2 DEF OutsideIInv, CallsAreAsked, GateTypeOK, At
  <2>2. caller'[w].operation # o /\ reservation'[o] = reservation[o] /\ (o \in repeated' <=> o \in repeated)
    BY <1>0, <1>2, <2>1 DEF Executes, GateTypeOK
  <2> QED
    BY <1>0, <1>1, <2>2, GateUntouched DEF Executing
<1>3. ASSUME UNCHANGED <<reservation, repeated>>, ~Executing(w, o)',
             caller'[w].operation = o => caller'[w].at \notin {"authorizing", "deciding"}
      PROVE  OutsideIInv(o)'
  BY <1>0, <1>1, <1>3, GateUntouched
<1>4. CASE Preview(w)
  <2>1. CASE Goes(w, "authorizing") /\ Decision(caller[w].operation) \in {"allow", "ask-superior"}
    <3>1. caller[w].operation # o
      BY <2>1, ScopeAssumption DEF GateTypeOK, Decision
    <3> QED
      BY <1>3, <1>4, <2>1, <3>1 DEF Preview, Goes, GateTypeOK, Executing, At, gate, past
  <2>2. CASE Returns(w)
    BY <1>3, <1>4, <2>2 DEF Preview, Returns, NoCaller, GateTypeOK, Executing, At, gate, past
  <2> QED
    BY <1>4, <2>1, <2>2 DEF Preview
<1>5. CASE Authorize(w)
  <2>1. At(w, "authorizing")
    BY <1>5 DEF Authorize
  <2>2. CASE Executes(w, caller[w].operation, FALSE)
    BY <1>2, <2>1, <2>2 DEF At
  <2>3. CASE Returns(w) /\ UNCHANGED <<record, reservation, repeated>>
    BY <1>3, <2>3 DEF Returns, NoCaller, GateTypeOK, Executing, At
  <2>4. CASE Goes(w, "deciding") /\ UNCHANGED <<record, reservation, repeated>>
    <3>1. caller[w].operation # o
      BY <2>1 DEF OutsideIInv, CallsAreAsked, At
    <3> QED
      BY <1>3, <2>4, <3>1 DEF Goes, GateTypeOK, Executing, At
  <2> QED
    BY <1>5, <2>2, <2>3, <2>4 DEF Authorize
<1>6. CASE Decide(w)
  <2>1. At(w, "deciding")
    BY <1>6 DEF Decide
  <2>2. Executes(w, caller[w].operation, FALSE)
    BY <1>6 DEF Decide
  <2> QED
    BY <1>2, <2>1, <2>2 DEF At
<1>7. ASSUME NEW p \in LogicalOperation, BeginReserve(w, p) PROVE OutsideIInv(o)'
  BY <1>3, <1>7 DEF BeginReserve, GateTypeOK, Executing, At, gate, past
<1> QED
  BY <1>4, <1>5, <1>6, <1>7

\* The user's allow-once (grantLogicalOperationAuthorization).
LEMMA AllowOnceStep ==
    ASSUME GateTypeOK, NEW o \in Outside, OutsideIInv(o), NEW p \in LogicalOperation, AllowOnce(p)
    PROVE  OutsideIInv(o)'
<1>0. o \in LogicalOperation
  BY ScopeAssumption
<1>1. CASE p # o
  BY <1>0, <1>1, GateUntouched DEF AllowOnce, GateTypeOK
<1>2. CASE p = o
  <2>1. /\ UNCHANGED <<caller, effects, repeated>> /\ grants'[o] = grants[o] + 1
        /\ o \in armed' /\ o \notin uncertain'
        /\ reservation[o].at = "in-flight" => reservation'[o] = reservation[o]
    BY <1>0, <1>2 DEF AllowOnce, Clears, GateTypeOK
  <2>2. (InUse(o)' <=> InUse(o)) /\ \A w \in Worker : Executing(w, o)' <=> Executing(w, o)
    BY <2>1 DEF InUse, Executing, At
  <2>3. CallsAreAsked(o)' /\ ExecutionsAreReserved(o)' /\ NothingUnknownRuns(o)'
    BY <2>1, <2>2 DEF OutsideIInv, CallsAreAsked, ExecutionsAreReserved, NothingUnknownRuns
  <2>4. Held(o)' <= Held(o) + 1 /\ Held(o) \in Nat /\ Held(o)' \in Nat
    BY <2>1, <2>2 DEF Held
  <2>5. GrantsCover(o)'
    BY <1>0, <2>1, <2>4 DEF OutsideIInv, GrantsCover, GateTypeOK
  <2> QED
    BY <2>3, <2>5 DEF OutsideIInv
<1> QED
  BY <1>1, <1>2

LEMMA ScopeStep == ScopeIInv /\ [ScopeNext]_scopeVars => ScopeIInv'
<1> SUFFICES ASSUME ScopeIInv, [ScopeNext]_scopeVars PROVE ScopeIInv'
  OBVIOUS
<1>1. GateTypeOK /\ GateTypeOK'
  BY GateTyping DEF ScopeIInv
<1>2. ASSUME ~devolved', NEW o \in Outside PROVE OutsideIInv(o)'
  <2>1. ~devolved
    BY <1>2 DEF ScopeNext, Preview, Authorize, Decide, InnerRefuses, ToolDeclines, ToolRuns, EndsCall,
                ReserveArmed, BeginReserve, AllowOnce, AuthorizationExpires, GrantScope, SwitchMode, scopeVars
  <2>2. OutsideIInv(o)
    BY <2>1 DEF ScopeIInv
  <2>3. ASSUME NEW w \in Worker,
               Preview(w) \/ Authorize(w) \/ Decide(w) \/ \E p \in LogicalOperation : BeginReserve(w, p)
        PROVE  OutsideIInv(o)'
    BY <1>1, <2>1, <2>2, <2>3, ReserveStep
  <2>4. ASSUME NEW w \in Worker, InnerRefuses(w) \/ ToolDeclines(w) \/ ToolRuns(w) PROVE OutsideIInv(o)'
    BY <1>1, <2>2, <2>4, EndsCallStep DEF InnerRefuses, ToolDeclines, ToolRuns
  <2>5. ASSUME NEW w \in Worker, NEW p \in LogicalOperation, ReserveArmed(w, p) PROVE OutsideIInv(o)'
    BY <1>1, <2>2, <2>5, ReserveArmedStep
  <2>6. ASSUME NEW p \in LogicalOperation, AllowOnce(p) PROVE OutsideIInv(o)'
    BY <1>1, <2>2, <2>6, AllowOnceStep
  <2>7. ASSUME UNCHANGED <<caller, reservation, armed, uncertain, repeated, effects, grants>> PROVE OutsideIInv(o)'
    BY <2>2, <2>7, GateUntouched
  <2> QED
    BY <2>3, <2>4, <2>5, <2>6, <2>7
    DEF ScopeNext, GrantScope, AuthorizationExpires, SwitchMode, scopeVars, gate, past
<1> QED
  BY <1>1, <1>2 DEF ScopeIInv

\* Of the gate (scope-authorization-gate.ts): outside of the project and as long as nobody is in the
\* mode devolve, what a user allows once takes effect once, and nothing runs again that may have
\* changed something, for any number of calls, operations and grants.
THEOREM GrantsAreObeyed == ScopeSpec => []ScopeInv
<1>1. ScopeInit => ScopeIInv
  <2> SUFFICES ASSUME ScopeInit PROVE ScopeIInv
    OBVIOUS
  <2>1. GateTypeOK
    BY DEF ScopeInit, GateTypeOK, NoCaller, NoReservation, At
  <2>2. \A o \in Outside : o \notin armed /\ ~InUse(o) /\ effects[o] = 0 /\ grants[o] = 0
    BY ScopeAssumption DEF ScopeInit, InUse, Executing, At, NoCaller
  <2>3. ASSUME NEW o \in Outside PROVE OutsideIInv(o)
    BY <2>2 DEF ScopeInit, OutsideIInv, CallsAreAsked, ExecutionsAreReserved, NothingUnknownRuns, GrantsCover,
                Held, InUse, Executing, At, NoCaller
  <2> QED
    BY <2>1, <2>3 DEF ScopeIInv
<1>2. ScopeIInv => ScopeInv
  <2> SUFFICES ASSUME ScopeIInv, ~devolved, NEW o \in Outside
               PROVE  /\ effects[o] <= grants[o] /\ Cardinality(Running(o)) <= 1
                      /\ \A w \in Running(o) : caller[w].armed
                      /\ o \notin repeated
    BY DEF ScopeInv, GrantsAreSpentOnce, OutsideIsGuarded
  <2>1. OutsideIInv(o) /\ GateTypeOK /\ o \in LogicalOperation
    BY ScopeAssumption DEF ScopeIInv
  <2>2. Held(o) \in Nat /\ effects[o] \in Nat /\ grants[o] \in Nat
    BY <2>1 DEF Held, GateTypeOK
  <2>3. effects[o] <= grants[o]
    BY <2>1, <2>2 DEF OutsideIInv, GrantsCover
  <2>4. Cardinality(Running(o)) <= 1
    <3>1. CASE Running(o) = {}
      BY <3>1, FS_EmptySet
    <3>2. ASSUME NEW w \in Running(o) PROVE Cardinality(Running(o)) <= 1
      <4>1. Running(o) = {w}
        BY <2>1 DEF Running, OutsideIInv, ExecutionsAreReserved, Executing
      <4>2. Cardinality({w}) = 1
        BY FS_Singleton
      <4> QED
        BY <4>1, <4>2
    <3> QED
      BY <3>1, <3>2
  <2>5. \A w \in Running(o) : caller[w].armed
    BY <2>1 DEF Running, OutsideIInv, CallsAreAsked, Executing
  <2> QED
    BY <2>1, <2>3, <2>4, <2>5 DEF OutsideIInv, NothingUnknownRuns
<1> QED
  BY <1>1, <1>2, ScopeStep, PTL DEF ScopeSpec

-----------------------------------------------------------------------------
(* The versions of a tool package and the records of consent.              *)

Document ==
    [registered : [Version -> Content \cup {Nothing}],
     lock : [version : Version \cup {Nothing}, content : Content \cup {Nothing}, enabled : BOOLEAN]]

ConsentScope == {ScopeOf(d, v) : d \in Document, v \in Version}
ConsentRecord == [id : RecordId, scope : ConsentScope, consumed : BOOLEAN]

CommandRecord ==
    [at : {"idle", "save", "consume", "issue", "write consumed", "write issued"},
     controller : Document \cup {Nothing}, target : Version \cup {Nothing}, id : RecordId \cup {0},
     read : SUBSET ConsentRecord]

PackagesTypeOK ==
    /\ document \in Document /\ consents \subseteq ConsentRecord
    /\ command \in [Command -> CommandRecord]
    /\ \A p \in Command :
          /\ command[p].at # "idle" => command[p].controller \in Document
          /\ command[p].at \in {"consume", "issue", "write consumed", "write issued"} =>
                command[p].target \in Version
    /\ issued \in Nat /\ spent \in [RecordId -> Nat]
    /\ strayed \in BOOLEAN /\ mixed \in BOOLEAN

\* A lock names what is registered, and nothing the user has not accepted.
IsSound(d, accepted) ==
    /\ ~IsLocked(d) => ~d.lock.enabled
    /\ IsLocked(d) => /\ d.lock.content = d.registered[d.lock.version] /\ d.lock.content # Nothing
                      /\ Effects(d.lock.content) \subseteq accepted

\* So it is with the document and with every one that may replace it.
DocumentsAreSound ==
    ~strayed => /\ IsSound(document, agreed)
                /\ \A p \in Command : command[p].at # "idle" => IsSound(command[p].controller, agreed)

\* A process that writes the records has read what is there, and each upgrade has
\* taken a consent of its own.
ConsentsAreRead ==
    ~mixed =>
       /\ \A p, q \in Command : HasRead(p) /\ HasRead(q) => p = q
       /\ \A p \in Command : HasRead(p) => command[p].read = consents

ConsentsAreCounted ==
    ~mixed =>
       /\ \A r, s \in consents : r.id = s.id => r = s
       /\ \A r \in consents : r.id <= issued /\ (~r.consumed => spent[r.id] = 0)
       /\ \A i \in RecordId : spent[i] <= 1 /\ (i > issued => spent[i] = 0)

PackagesIInv == PackagesTypeOK /\ DocumentsAreSound /\ ConsentsAreRead /\ ConsentsAreCounted

LEMMA CommandMoves ==
    ASSUME PackagesTypeOK, NEW p \in Command, NEW r, command' = [command EXCEPT ![p] = r]
    PROVE  /\ DOMAIN command' = Command /\ command'[p] = r
           /\ \A q \in Command : q # p => command'[q] = command[q]
BY DEF PackagesTypeOK

\* What the controller makes of a document is a document.
LEMMA LocksIsTyped ==
    ASSUME NEW d \in Document, NEW v \in Version \cup {Nothing}, NEW content \in Content \cup {Nothing},
           NEW b \in BOOLEAN
    PROVE  /\ Locks(d, v, content, b) \in Document
           /\ Locks(d, v, content, b).lock = [version |-> v, content |-> content, enabled |-> b]
           /\ Locks(d, v, content, b).registered = d.registered
BY DEF Locks, Document

LEMMA DecisionsAreTyped ==
    ASSUME NEW d \in Document, NEW v \in Version
    PROVE  /\ \A content \in Content : Registered(d, v, content) \in Document /\ LockedTo(d, v, content) \in Document
           /\ Enabled(d, v) \in Document /\ Disabled(d) \in Document /\ RolledBack(d, v) \in Document
           /\ Upgraded(d, v, TRUE) \in Document /\ Upgraded(d, v, FALSE) \in Document
<1>1. d.registered[v] \in Content \cup {Nothing} /\ d.lock.enabled \in BOOLEAN
      /\ d.lock.version \in Version \cup {Nothing} /\ d.lock.content \in Content \cup {Nothing}
  BY DEF Document
<1>2. ASSUME NEW content \in Content PROVE Registered(d, v, content) \in Document
  BY DEF Registered, Document
<1>3. ASSUME NEW content \in Content PROVE LockedTo(d, v, content) \in Document
  BY <1>1, LocksIsTyped DEF LockedTo
<1>4. Enabled(d, v) \in Document
  BY <1>1, LocksIsTyped DEF Enabled
<1>5. Disabled(d) \in Document
  BY <1>1, LocksIsTyped DEF Disabled
<1>6. RolledBack(d, v) \in Document
  BY <1>1, LocksIsTyped DEF RolledBack
<1>7. Upgraded(d, v, TRUE) \in Document /\ Upgraded(d, v, FALSE) \in Document
  BY <1>1, LocksIsTyped DEF Upgraded
<1> QED
  BY <1>2, <1>3, <1>4, <1>5, <1>6, <1>7

\* ... and, for all but Register, a sound one, if the user accepts what it locks.
LEMMA DecisionsAreSound ==
    ASSUME NEW d \in Document, NEW v \in Version, NEW accepted, IsSound(d, accepted),
           NEW e \in {LockedTo(d, v, content) : content \in Content} \cup {Enabled(d, v), Disabled(d), RolledBack(d, v)}
    PROVE  /\ ~IsLocked(e) => ~e.lock.enabled
           /\ IsLocked(e) => e.lock.content = e.registered[e.lock.version] /\ e.lock.content # Nothing
<1>1. d.registered[v] \in Content \cup {Nothing} /\ d.lock.enabled \in BOOLEAN
      /\ d.lock.version \in Version \cup {Nothing} /\ d.lock.content \in Content \cup {Nothing}
      /\ Nothing \notin Version /\ Nothing \notin Content
  BY PackagesAssumption DEF Document, Nothing
<1>2. CASE e = d
  BY <1>2 DEF IsSound
<1>3. ASSUME NEW b \in BOOLEAN, e = Locks(d, v, d.registered[v], b), d.registered[v] # Nothing
      PROVE  /\ ~IsLocked(e) => ~e.lock.enabled
             /\ IsLocked(e) => e.lock.content = e.registered[e.lock.version] /\ e.lock.content # Nothing
  <2>1. e.lock = [version |-> v, content |-> d.registered[v], enabled |-> b] /\ e.registered = d.registered
    BY <1>1, <1>3, LocksIsTyped
  <2>2. e.lock.version = v /\ e.lock.content = d.registered[v] /\ e.lock.version # Nothing
    BY <1>1, <2>1
  <2> QED
    BY <1>3, <2>1, <2>2 DEF IsLocked
<1>4. CASE e \in {LockedTo(d, v, content) : content \in Content}
  BY <1>1, <1>2, <1>3, <1>4 DEF LockedTo
<1>5. CASE e = Enabled(d, v)
  BY <1>2, <1>3, <1>5 DEF Enabled
<1>6. CASE e = RolledBack(d, v)
  BY <1>1, <1>2, <1>3, <1>6 DEF RolledBack
<1>7. CASE e = Disabled(d)
  <2>1. CASE IsLocked(d)
    <3>1. e = Locks(d, d.lock.version, d.lock.content, FALSE)
      BY <1>7, <2>1 DEF Disabled
    <3>2. e.lock = [version |-> d.lock.version, content |-> d.lock.content, enabled |-> FALSE]
          /\ e.registered = d.registered
      BY <1>1, <3>1, LocksIsTyped
    <3>3. e.lock.version = d.lock.version /\ e.lock.content = d.lock.content /\ e.lock.version # Nothing
      BY <2>1, <3>2 DEF IsLocked
    <3> QED
      BY <2>1, <3>2, <3>3 DEF IsLocked, IsSound
  <2> QED
    BY <1>2, <1>7, <2>1 DEF Disabled
<1> QED
  BY <1>4, <1>5, <1>6, <1>7

\* An upgrade keeps the side effects, or adds those of its consent.
LEMMA UpgradesAreSound ==
    ASSUME NEW d \in Document, NEW v \in Version, NEW accepted,
           IsSound(d, accepted),
           NEW e \in {Upgraded(d, v, TRUE), Upgraded(d, v, FALSE)},
           e = Upgraded(d, v, TRUE) => AddedEffects(d, v) \subseteq accepted
    PROVE  IsSound(e, accepted)
<1>1. d.registered[v] \in Content \cup {Nothing} /\ Nothing \notin Version
  BY PackagesAssumption DEF Document, Nothing
<1>2. CASE e = d
  BY <1>2
<1>3. CASE e = Locks(d, v, d.registered[v], TRUE) /\ d.registered[v] # Nothing /\ IsLocked(d)
           /\ AddedEffects(d, v) \subseteq accepted
  <2>1. Effects(d.registered[v]) \subseteq accepted
    BY <1>3 DEF AddedEffects, IsSound
  <2>2. e.lock = [version |-> v, content |-> d.registered[v], enabled |-> TRUE] /\ e.registered = d.registered
    BY <1>1, <1>3, LocksIsTyped
  <2>3. e.lock.version = v /\ e.lock.content = d.registered[v] /\ e.lock.version # Nothing
    BY <1>1, <2>2
  <2> QED
    BY <1>3, <2>1, <2>2, <2>3 DEF IsLocked, IsSound
<1>4. CASE e = Upgraded(d, v, TRUE)
  BY <1>2, <1>3, <1>4 DEF Upgraded
<1>5. CASE e = Upgraded(d, v, FALSE)
  BY <1>2, <1>3, <1>5 DEF Upgraded
<1> QED
  BY <1>4, <1>5

LEMMA SavingQuiet ==
    ASSUME NEW d, NEW r, r = [Quiet EXCEPT !.at = "save", !.controller = d]
    PROVE  r = [at |-> "save", controller |-> d, target |-> Nothing, id |-> 0, read |-> {}]
<1>1. r \in [at : {"save"}, controller : {d}, target : {Nothing}, id : {0}, read : {{}}]
  BY DEF Quiet
<1> QED
  BY <1>1

\* The steps of a process, by what they do to the document it holds.
Holds(p, d) ==
    /\ command'[p].controller = d /\ command'[p].at # "idle" /\ DOMAIN command' = Command
    /\ \A q \in Command : q # p => command'[q] = command[q]

LEMMA WillSaveHolds ==
    ASSUME PackagesTypeOK, NEW p \in Command, NEW d, WillSave(p, d)
    PROVE  /\ Holds(p, d) /\ ~HasRead(p)'
           /\ command'[p] = [at |-> "save", controller |-> d, target |-> Nothing, id |-> 0, read |-> {}]
<1>1. command' = [command EXCEPT ![p] = [at |-> "save", controller |-> d, target |-> Nothing, id |-> 0, read |-> {}]]
  BY SavingQuiet DEF WillSave
<1>2. command'[p] = [at |-> "save", controller |-> d, target |-> Nothing, id |-> 0, read |-> {}]
  BY <1>1, CommandMoves
<1> QED
  BY <1>1, <1>2, CommandMoves DEF Holds, HasRead, CommandAt

LEMMA ReturnsQuietly ==
    ASSUME PackagesTypeOK, NEW p \in Command, CommandReturns(p)
    PROVE  /\ DOMAIN command' = Command /\ \A q \in Command : q # p => command'[q] = command[q]
           /\ command'[p] = Quiet /\ Quiet.at = "idle" /\ ~HasRead(p)'
<1>1. command'[p] = Quiet /\ DOMAIN command' = Command /\ \A q \in Command : q # p => command'[q] = command[q]
  BY CommandMoves DEF CommandReturns
<1> QED
  BY <1>1 DEF Quiet, HasRead, CommandAt

\* Each step leaves all processes but one as they are.
LEMMA CommandIsTyped ==
    ASSUME PackagesTypeOK, NEW p \in Command, NEW r \in CommandRecord, command' = [command EXCEPT ![p] = r],
           r.at # "idle" => r.controller \in Document,
           r.at \in {"consume", "issue", "write consumed", "write issued"} => r.target \in Version,
           document' \in Document, consents' \subseteq ConsentRecord, issued' \in Nat, spent' \in [RecordId -> Nat],
           strayed' \in BOOLEAN, mixed' \in BOOLEAN
    PROVE  PackagesTypeOK'
<1>1. command' \in [Command -> CommandRecord]
  BY DEF PackagesTypeOK
<1>2. command'[p] = r /\ \A q \in Command : q # p => command'[q] = command[q]
  BY DEF PackagesTypeOK
<1> QED
  BY <1>1, <1>2 DEF PackagesTypeOK

LEMMA SavingIsTyped ==
    ASSUME PackagesTypeOK, NEW p \in Command, NEW d \in Document, WillSave(p, d),
           UNCHANGED <<document, issued, mixed>>, consents' \subseteq ConsentRecord, spent' \in [RecordId -> Nat],
           strayed' \in BOOLEAN
    PROVE  PackagesTypeOK'
<1> DEFINE r == [at |-> "save", controller |-> d, target |-> Nothing, id |-> 0, read |-> {}]
<1>1. command' = [command EXCEPT ![p] = r]
  BY SavingQuiet DEF WillSave
<1>2. r \in CommandRecord /\ r.at = "save" /\ r.controller \in Document
  BY DEF CommandRecord
<1> HIDE DEF r
<1> QED
  BY <1>1, <1>2, CommandIsTyped DEF PackagesTypeOK

LEMMA ReturningIsTyped ==
    ASSUME PackagesTypeOK, NEW p \in Command, CommandReturns(p), document' \in Document,
           consents' \subseteq ConsentRecord, issued' \in Nat, mixed' \in BOOLEAN, UNCHANGED <<spent, strayed>>
    PROVE  PackagesTypeOK'
<1>1. Quiet \in CommandRecord /\ Quiet.at = "idle"
  BY DEF Quiet, CommandRecord
<1> QED
  BY <1>1, CommandIsTyped DEF CommandReturns, PackagesTypeOK

LEMMA PackagesTyping == PackagesTypeOK /\ [ToolPackagesNext]_packageVars => PackagesTypeOK'
<1> SUFFICES ASSUME PackagesTypeOK, [ToolPackagesNext]_packageVars PROVE PackagesTypeOK'
  OBVIOUS
<1>a. /\ document \in Document /\ strayed \in BOOLEAN /\ consents \subseteq ConsentRecord /\ issued \in Nat
      /\ mixed \in BOOLEAN /\ spent \in [RecordId -> Nat]
      /\ \A p \in Command : command[p] \in CommandRecord /\ command[p].read \subseteq ConsentRecord
  BY DEF PackagesTypeOK, CommandRecord
<1>1. ASSUME NEW p \in Command, NEW d \in Document, Decides(p, d) PROVE PackagesTypeOK'
  <2>1. strayed' \in BOOLEAN
    <3>1. (strayed \/ (IsLocked(document) /\ ~(Effects(d.lock.content) \subseteq agreed))) \in BOOLEAN
      OBVIOUS
    <3> QED
      BY <1>1, <3>1 DEF Decides
  <2> QED
    BY <1>a, <1>1, <2>1, SavingIsTyped DEF Decides
<1>2. ASSUME NEW p \in Command, NEW v \in Version, NEW c \in Content, Register(p, v, c) PROVE PackagesTypeOK'
  <2>1. strayed' \in BOOLEAN
    <3>1. (strayed \/ document.registered[v] \notin {Nothing, c}) \in BOOLEAN
      OBVIOUS
    <3> QED
      BY <1>2, <3>1 DEF Register
  <2> QED
    BY <1>a, <1>2, <2>1, SavingIsTyped, DecisionsAreTyped DEF Register
<1>3. ASSUME NEW p \in Command, NEW v \in Version, Upgrade(p, v) PROVE PackagesTypeOK'
  BY <1>a, <1>3, SavingIsTyped, DecisionsAreTyped DEF Upgrade
<1>4. ASSUME NEW p \in Command, NEW v \in Version, NEW i \in RecordId \cup {0}, NEW place \in {"consume", "issue"},
             command' = [command EXCEPT ![p] = [at |-> place, controller |-> document, target |-> v, id |-> i, read |-> {}]],
             UNCHANGED <<document, consents, issued, spent, strayed, mixed>>
      PROVE  PackagesTypeOK'
  <2> DEFINE r == [at |-> place, controller |-> document, target |-> v, id |-> i, read |-> {}]
  <2>1. r \in CommandRecord /\ r.controller \in Document /\ r.target \in Version
    BY <1>a DEF CommandRecord
  <2>2. command' = [command EXCEPT ![p] = r]
    BY <1>4
  <2> HIDE DEF r
  <2> QED
    BY <1>a, <1>4, <2>1, <2>2, CommandIsTyped
<1>6. ASSUME NEW p \in Command, Save(p) PROVE PackagesTypeOK'
  <2>1. command[p].controller \in Document
    BY <1>6 DEF Save, CommandAt, PackagesTypeOK
  <2> QED
    BY <1>a, <1>6, <2>1, ReturningIsTyped DEF Save
<1>7. ASSUME NEW p \in Command, Dies(p) PROVE PackagesTypeOK'
  <2>1. consents' = consents \/ consents' = {}
    BY <1>7 DEF Dies
  <2> QED
    BY <1>a, <1>7, <2>1, ReturningIsTyped DEF Dies
<1>8. ASSUME NEW p \in Command, ReadConsents(p) PROVE PackagesTypeOK'
  <2>1. mixed' \in BOOLEAN
    <3>1. (mixed \/ \E q \in Command \ {p} : HasRead(q)) \in BOOLEAN
      OBVIOUS
    <3> QED
      BY <1>8, <3>1 DEF ReadConsents
  <2>2. CASE CommandReturns(p)
    BY <1>a, <1>8, <2>1, <2>2, ReturningIsTyped DEF ReadConsents
  <2>3. ASSUME NEW place \in {"write issued", "write consumed"}, command[p].at \in {"issue", "consume"},
               command' = [command EXCEPT ![p].at = place, ![p].read = consents]
        PROVE  PackagesTypeOK'
    <3> DEFINE r == [at |-> place, controller |-> command[p].controller, target |-> command[p].target,
                     id |-> command[p].id, read |-> consents]
    <3>1. command' = [command EXCEPT ![p] = r]
      <4>1. command[p] \in CommandRecord
        BY <1>a
      <4>2. ASSUME NEW x, x = [command[p] EXCEPT !.at = place, !.read = consents] PROVE x = r
        <5>1. x \in [at : {place}, controller : {command[p].controller}, target : {command[p].target},
                     id : {command[p].id}, read : {consents}]
          BY <4>1, <4>2 DEF CommandRecord
        <5> QED
          BY <5>1
      <4>3. command' = [command EXCEPT ![p] = [command[p] EXCEPT !.at = place, !.read = consents]]
        BY <2>3 DEF PackagesTypeOK
      <4> QED
        BY <4>2, <4>3
    <3>2. command[p].controller \in Document /\ command[p].target \in Version
      BY <2>3 DEF PackagesTypeOK
    <3>3. r \in CommandRecord /\ r.controller \in Document /\ r.target \in Version
      BY <1>a, <3>2 DEF CommandRecord
    <3> HIDE DEF r
    <3> QED
      BY <1>a, <1>8, <2>1, <3>1, <3>3, CommandIsTyped DEF ReadConsents
  <2> QED
    BY <1>8, <2>2, <2>3 DEF ReadConsents, CommandAt
<1>9. ASSUME NEW p \in Command, WriteIssued(p) PROVE PackagesTypeOK'
  <2>1. issued < MaxRecords /\ issued' = issued + 1 /\ MaxRecords \in Nat
    BY <1>9, PackagesAssumption DEF WriteIssued
  <2>2. issued + 1 \in RecordId
    BY <1>a, <2>1 DEF RecordId
  <2>3. command[p].controller \in Document /\ command[p].target \in Version
    BY <1>9 DEF WriteIssued, CommandAt, PackagesTypeOK
  <2>4. Consent(issued + 1, ScopeOf(command[p].controller, command[p].target)) \in ConsentRecord
    BY <2>2, <2>3 DEF Consent, ConsentRecord, ConsentScope
  <2>5. consents' \subseteq ConsentRecord /\ issued' \in Nat
    <3>1. consents' = command[p].read
              \cup {Consent(issued + 1, ScopeOf(command[p].controller, command[p].target))}
      BY <1>9 DEF WriteIssued
    <3> QED
      BY <1>a, <2>1, <2>4, <3>1
  <2> QED
    BY <1>a, <1>9, <2>5, ReturningIsTyped DEF WriteIssued
<1>10. ASSUME NEW p \in Command, WriteConsumed(p) PROVE PackagesTypeOK'
  <2>1. PICK r \in command[p].read :
           /\ consents' = (command[p].read \ {r}) \cup {Consumed(r)}
           /\ spent' = [spent EXCEPT ![r.id] = @ + 1]
    BY <1>10 DEF WriteConsumed
  <2>2. r \in ConsentRecord /\ Consumed(r) \in ConsentRecord
    <3>1. r \in ConsentRecord
      BY <1>a
    <3> QED
      BY <3>1 DEF Consumed, ConsentRecord
  <2>3. spent' \in [RecordId -> Nat]
    BY <1>a, <2>1, <2>2 DEF ConsentRecord
  <2>4. WillSave(p, Upgraded(command[p].controller, command[p].target, TRUE))
        /\ Upgraded(command[p].controller, command[p].target, TRUE) \in Document
    BY <1>10, DecisionsAreTyped DEF WriteConsumed, CommandAt, PackagesTypeOK
  <2>5. consents' \subseteq ConsentRecord
    BY <1>a, <2>1, <2>2
  <2> QED
    BY <1>a, <1>10, <2>3, <2>4, <2>5, SavingIsTyped DEF WriteConsumed
<1>11. CASE UNCHANGED packageVars
  BY <1>11 DEF packageVars, PackagesTypeOK
<1>12. ASSUME NEW p \in Command, NEW v \in Version,
              \/ Enable(p, v) \/ RollBack(p, v) \/ \E c \in Content : LockTo(p, v, c)
       PROVE  PackagesTypeOK'
  BY <1>a, <1>1, <1>12, DecisionsAreTyped DEF Enable, RollBack, LockTo
<1>13. ASSUME NEW p \in Command, Disable(p) \/ Recover(p) PROVE PackagesTypeOK'
  <2>1. Disabled(document) \in Document
    <3>1. document.lock.version \in Version \cup {Nothing} /\ document.lock.content \in Content \cup {Nothing}
      BY <1>a DEF Document
    <3> QED
      BY <1>a, <3>1, LocksIsTyped DEF Disabled
  <2> QED
    BY <1>a, <1>1, <1>13, <2>1 DEF Disable, Recover
<1>14. ASSUME NEW p \in Command, NEW v \in Version,
              AuthorizeUpgrade(p, v) \/ \E i \in RecordId : UpgradeWith(p, v, i)
       PROVE  PackagesTypeOK'
  BY <1>4, <1>14 DEF AuthorizeUpgrade, UpgradeWith
<1> QED
  BY <1>2, <1>3, <1>6, <1>7, <1>8, <1>9, <1>10, <1>11, <1>12, <1>13, <1>14 DEF ToolPackagesNext

LEMMA SoundnessGrows ==
    ASSUME NEW d, NEW fewer, NEW more, fewer \subseteq more, IsSound(d, fewer) PROVE IsSound(d, more)
BY DEF IsSound

LEMMA DocumentsStep ==
    ASSUME PackagesTypeOK, DocumentsAreSound, [ToolPackagesNext]_packageVars PROVE DocumentsAreSound'
<1> SUFFICES ASSUME ~strayed'
             PROVE  /\ IsSound(document', agreed')
                    /\ \A p \in Command : command'[p].at # "idle" => IsSound(command'[p].controller, agreed')
  BY DEF DocumentsAreSound
<1>1. ~strayed /\ agreed \subseteq agreed'
  <2>1. ASSUME NEW p \in Command, NEW d, Decides(p, d) PROVE ~strayed /\ agreed \subseteq agreed'
    BY <2>1 DEF Decides
  <2>2. ASSUME NEW p \in Command, NEW v \in Version, NEW c \in Content, Register(p, v, c)
        PROVE  ~strayed /\ agreed \subseteq agreed'
    BY <2>2 DEF Register
  <2>3. ASSUME NEW p \in Command, WriteConsumed(p) PROVE ~strayed /\ agreed \subseteq agreed'
    BY <2>3 DEF WriteConsumed
  <2>4. CASE UNCHANGED <<strayed, agreed>>
    BY <2>4
  <2> QED
    BY <2>1, <2>2, <2>3, <2>4
    DEF ToolPackagesNext, Disable, Recover, Enable, RollBack, LockTo, Save, Dies, ReadConsents, WriteIssued,
        Upgrade, AuthorizeUpgrade, UpgradeWith, packageVars
<1>2. document \in Document /\ \A p \in Command : command[p].at # "idle" => command[p].controller \in Document
  BY DEF PackagesTypeOK
<1>3. /\ IsSound(document, agreed) /\ IsSound(document, agreed')
      /\ \A p \in Command : command[p].at # "idle" =>
            IsSound(command[p].controller, agreed) /\ IsSound(command[p].controller, agreed')
  BY <1>1, SoundnessGrows DEF DocumentsAreSound
<1>4. ASSUME NEW p \in Command, NEW d, Holds(p, d), IsSound(d, agreed'), document' = document
      PROVE  /\ IsSound(document', agreed')
             /\ \A q \in Command : command'[q].at # "idle" => IsSound(command'[q].controller, agreed')
  BY <1>3, <1>4 DEF Holds
<1>5. ASSUME NEW p \in Command, CommandReturns(p), IsSound(document', agreed')
      PROVE  /\ IsSound(document', agreed')
             /\ \A q \in Command : command'[q].at # "idle" => IsSound(command'[q].controller, agreed')
  BY <1>3, <1>5, ReturnsQuietly
<1>6. ASSUME NEW p \in Command, NEW d \in Document, Decides(p, d),
             ~IsLocked(d) => ~d.lock.enabled,
             IsLocked(d) => d.lock.content = d.registered[d.lock.version] /\ d.lock.content # Nothing
      PROVE  /\ IsSound(document', agreed')
             /\ \A q \in Command : command'[q].at # "idle" => IsSound(command'[q].controller, agreed')
  <2>1. Effects(d.lock.content) \subseteq agreed'
    BY <1>6 DEF Decides
  <2>2. Holds(p, d) /\ document' = document
    BY <1>6, WillSaveHolds DEF Decides
  <2> QED
    BY <1>4, <1>6, <2>1, <2>2 DEF IsSound
<1>7. ASSUME NEW p \in Command, NEW v \in Version,
             Enable(p, v) \/ RollBack(p, v) \/ Disable(p) \/ \E c \in Content : LockTo(p, v, c)
      PROVE  /\ IsSound(document', agreed')
             /\ \A q \in Command : command'[q].at # "idle" => IsSound(command'[q].controller, agreed')
  <2>1. PICK d \in {LockedTo(document, v, c) : c \in Content}
                   \cup {Enabled(document, v), Disabled(document), RolledBack(document, v)} : Decides(p, d)
    BY <1>7 DEF Enable, RollBack, Disable, LockTo
  <2>2. d \in Document
    BY <1>2, DecisionsAreTyped
  <2>3. /\ ~IsLocked(d) => ~d.lock.enabled
        /\ IsLocked(d) => d.lock.content = d.registered[d.lock.version] /\ d.lock.content # Nothing
    BY <1>2, <1>3, DecisionsAreSound
  <2> QED
    BY <1>6, <2>1, <2>2, <2>3
<1>8. ASSUME NEW p \in Command, Disable(p) \/ Recover(p)
      PROVE  /\ IsSound(document', agreed')
             /\ \A q \in Command : command'[q].at # "idle" => IsSound(command'[q].controller, agreed')
  <2>1. CASE Recover(p)
    BY <1>2, <1>3, <1>6, <2>1 DEF Recover, IsSound
  <2>2. CASE Disable(p) /\ ~IsLocked(document)
    BY <1>2, <1>3, <1>6, <2>2 DEF Disable, Disabled, IsSound
  <2>3. CASE Disable(p) /\ IsLocked(document)
    <3>1. document.lock.version \in Version
      BY <1>2, <2>3 DEF IsLocked, Document
    <3> QED
      BY <1>7, <2>3, <3>1
  <2> QED
    BY <1>8, <2>1, <2>2, <2>3
<1>9. ASSUME NEW p \in Command, NEW v \in Version, NEW c \in Content, Register(p, v, c)
      PROVE  /\ IsSound(document', agreed')
             /\ \A q \in Command : command'[q].at # "idle" => IsSound(command'[q].controller, agreed')
  <2>1. Holds(p, Registered(document, v, c)) /\ document' = document
    BY <1>9, WillSaveHolds DEF Register
  <2>2. document.registered[v] \in {Nothing, c}
    BY <1>9 DEF Register
  <2>3. ASSUME NEW d, d = Registered(document, v, c) PROVE IsSound(d, agreed')
    <3>1. /\ d.lock = document.lock /\ d.registered[v] = c
          /\ \A u \in Version : u # v => d.registered[u] = document.registered[u]
      BY <1>2, <2>3 DEF Registered, Document
    <3>2. document.lock.version \in Version \cup {Nothing}
      BY <1>2 DEF Document
    <3> QED
      BY <1>3, <2>2, <3>1, <3>2 DEF IsSound, IsLocked
  <2> QED
    BY <1>4, <2>1, <2>3
<1>10. ASSUME NEW p \in Command, NEW v \in Version, Upgrade(p, v)
      PROVE  /\ IsSound(document', agreed')
             /\ \A q \in Command : command'[q].at # "idle" => IsSound(command'[q].controller, agreed')
  <2>1. Holds(p, Upgraded(document, v, FALSE)) /\ document' = document
    BY <1>10, WillSaveHolds DEF Upgrade
  <2>2. \/ Upgraded(document, v, FALSE) = document
        \/ AddedEffects(document, v) = {}
    BY DEF Upgraded
  <2>3. IsSound(Upgraded(document, v, FALSE), agreed')
    <3>1. CASE AddedEffects(document, v) = {}
      BY <1>2, <1>3, <3>1, UpgradesAreSound
    <3> QED
      BY <1>3, <2>2, <3>1
  <2> QED
    BY <1>4, <2>1, <2>3
<1>11. ASSUME NEW p \in Command, NEW v \in Version,
              AuthorizeUpgrade(p, v) \/ \E i \in RecordId : UpgradeWith(p, v, i)
      PROVE  /\ IsSound(document', agreed')
             /\ \A q \in Command : command'[q].at # "idle" => IsSound(command'[q].controller, agreed')
  <2>1. PICK r : /\ command' = [command EXCEPT ![p] = r] /\ r.controller = document /\ document' = document
                 /\ r.at \in {"issue", "consume"}
    <3>1. CASE AuthorizeUpgrade(p, v)
      <4> DEFINE r == [at |-> "issue", controller |-> document, target |-> v, id |-> 0, read |-> {}]
      <4>1. command' = [command EXCEPT ![p] = r] /\ document' = document
        BY <3>1 DEF AuthorizeUpgrade
      <4>2. r.controller = document /\ r.at = "issue"
        OBVIOUS
      <4> HIDE DEF r
      <4> QED
        BY <4>1, <4>2
    <3>2. ASSUME NEW i \in RecordId, UpgradeWith(p, v, i)
          PROVE \E r : /\ command' = [command EXCEPT ![p] = r] /\ r.controller = document /\ document' = document
                       /\ r.at \in {"issue", "consume"}
      <4> DEFINE r == [at |-> "consume", controller |-> document, target |-> v, id |-> i, read |-> {}]
      <4>1. command' = [command EXCEPT ![p] = r] /\ document' = document
        BY <3>2 DEF UpgradeWith
      <4>2. r.controller = document /\ r.at = "consume"
        OBVIOUS
      <4> HIDE DEF r
      <4> QED
        BY <4>1, <4>2
    <3> QED
      BY <1>11, <3>1, <3>2
  <2>2. Holds(p, document)
    BY <2>1, CommandMoves DEF Holds
  <2> QED
    BY <1>3, <1>4, <2>1, <2>2
<1>12. ASSUME NEW p \in Command, WriteConsumed(p)
      PROVE  /\ IsSound(document', agreed')
             /\ \A q \in Command : command'[q].at # "idle" => IsSound(command'[q].controller, agreed')
  <2> DEFINE d == command[p].controller
             v == command[p].target
  <2>1. d \in Document /\ v \in Version /\ IsSound(d, agreed')
    BY <1>3, <1>12 DEF WriteConsumed, CommandAt, PackagesTypeOK
  <2>2. AddedEffects(d, v) \subseteq agreed'
    <3>1. PICK r \in command[p].read : Matches(r, p) /\ agreed' = agreed \cup r.scope.added
      BY <1>12 DEF WriteConsumed
    <3>2. r.scope = ScopeOf(d, v)
      BY <3>1 DEF Matches
    <3>3. ScopeOf(d, v).added = AddedEffects(d, v)
      BY DEF ScopeOf
    <3> QED
      BY <3>1, <3>2, <3>3
  <2>3. IsSound(Upgraded(d, v, TRUE), agreed')
    BY <2>1, <2>2, UpgradesAreSound
  <2>4. Holds(p, Upgraded(d, v, TRUE)) /\ document' = document
    BY <1>12, WillSaveHolds DEF WriteConsumed
  <2> QED
    BY <1>4, <2>3, <2>4
<1>13. ASSUME NEW p \in Command, ReadConsents(p)
      PROVE  /\ IsSound(document', agreed')
             /\ \A q \in Command : command'[q].at # "idle" => IsSound(command'[q].controller, agreed')
  <2>1. document' = document /\ agreed' = agreed
    BY <1>13 DEF ReadConsents
  <2>2. ASSUME NEW place, command[p].at # "idle",
               command' = [command EXCEPT ![p].at = place, ![p].read = consents]
        PROVE  \A q \in Command : command'[q].at # "idle" => IsSound(command'[q].controller, agreed')
    <3>1. \A q \in Command : command'[q].controller = command[q].controller /\ (q # p => command'[q] = command[q])
      BY <2>2 DEF PackagesTypeOK, CommandRecord
    <3> QED
      BY <1>3, <2>2, <3>1
  <2> QED
    BY <1>3, <1>5, <1>13, <2>1, <2>2 DEF ReadConsents, CommandAt
<1>14. ASSUME NEW p \in Command, Save(p) \/ Dies(p) \/ WriteIssued(p)
      PROVE  /\ IsSound(document', agreed')
             /\ \A q \in Command : command'[q].at # "idle" => IsSound(command'[q].controller, agreed')
  BY <1>3, <1>5, <1>14 DEF Save, Dies, WriteIssued, CommandAt
<1>15. ASSUME UNCHANGED packageVars
      PROVE  /\ IsSound(document', agreed')
             /\ \A q \in Command : command'[q].at # "idle" => IsSound(command'[q].controller, agreed')
  BY <1>3, <1>15 DEF packageVars
<1> QED
  BY <1>7, <1>8, <1>9, <1>10, <1>11, <1>12, <1>13, <1>14, <1>15 DEF ToolPackagesNext

\* Who reads while another has read mixes the records; who alone has read them knows them.
LEMMA ConsentsStep ==
    ASSUME PackagesTypeOK, ConsentsAreRead, ConsentsAreCounted, [ToolPackagesNext]_packageVars
    PROVE  ConsentsAreRead' /\ ConsentsAreCounted'
<1>a. /\ consents \subseteq ConsentRecord /\ issued \in Nat /\ spent \in [RecordId -> Nat]
      /\ \A p \in Command : command[p] \in CommandRecord
      /\ RecordId \subseteq Nat
  <2>1. RecordId \subseteq Nat
    BY DEF RecordId
  <2> QED
    BY <2>1 DEF PackagesTypeOK
<1>1. ASSUME NEW p \in Command, ~HasRead(p)', \A q \in Command : q # p => command'[q] = command[q],
             UNCHANGED <<consents, issued, spent, mixed>>
      PROVE  ConsentsAreRead' /\ ConsentsAreCounted'
  <2>1. \A q \in Command : HasRead(q)' => HasRead(q) /\ command'[q].read = command[q].read
    BY <1>1 DEF HasRead, CommandAt
  <2>2. ConsentsAreRead'
    BY <1>1, <2>1 DEF ConsentsAreRead
  <2>3. ConsentsAreCounted'
    BY <1>1 DEF ConsentsAreCounted
  <2> QED
    BY <2>2, <2>3
<1>2. ASSUME NEW p \in Command, NEW d, WillSave(p, d), UNCHANGED <<consents, issued, spent, mixed>>
      PROVE  ConsentsAreRead' /\ ConsentsAreCounted'
  BY <1>1, <1>2, WillSaveHolds DEF Holds
<1>3. ASSUME NEW p \in Command, NEW v \in Version,
              AuthorizeUpgrade(p, v) \/ \E i \in RecordId : UpgradeWith(p, v, i)
      PROVE  ConsentsAreRead' /\ ConsentsAreCounted'
  <2>1. PICK r : command' = [command EXCEPT ![p] = r] /\ r.at \in {"issue", "consume"}
    <3>1. CASE AuthorizeUpgrade(p, v)
      <4> DEFINE r == [at |-> "issue", controller |-> document, target |-> v, id |-> 0, read |-> {}]
      <4>1. command' = [command EXCEPT ![p] = r] /\ r.at = "issue"
        BY <3>1 DEF AuthorizeUpgrade
      <4> HIDE DEF r
      <4> QED
        BY <4>1
    <3>2. ASSUME NEW i \in RecordId, UpgradeWith(p, v, i)
          PROVE  \E r : command' = [command EXCEPT ![p] = r] /\ r.at \in {"issue", "consume"}
      <4> DEFINE r == [at |-> "consume", controller |-> document, target |-> v, id |-> i, read |-> {}]
      <4>1. command' = [command EXCEPT ![p] = r] /\ r.at = "consume"
        BY <3>2 DEF UpgradeWith
      <4> HIDE DEF r
      <4> QED
        BY <4>1
    <3> QED
      BY <1>3, <3>1, <3>2
  <2>2. ~HasRead(p)' /\ \A q \in Command : q # p => command'[q] = command[q]
    BY <2>1, CommandMoves DEF HasRead, CommandAt
  <2> QED
    BY <1>1, <1>3, <2>2 DEF AuthorizeUpgrade, UpgradeWith
<1>4. ASSUME NEW p \in Command, Save(p) PROVE ConsentsAreRead' /\ ConsentsAreCounted'
  BY <1>1, <1>4, ReturnsQuietly DEF Save
<1>5. ASSUME NEW p \in Command, Dies(p) PROVE ConsentsAreRead' /\ ConsentsAreCounted'
  <2>1. /\ ~HasRead(p)' /\ \A q \in Command : q # p => command'[q] = command[q]
        /\ UNCHANGED <<issued, spent, mixed>>
        /\ consents' = consents \/ (consents' = {} /\ HasRead(p))
    BY <1>5, ReturnsQuietly DEF Dies
  <2>2. \A q \in Command : HasRead(q)' => HasRead(q) /\ command'[q].read = command[q].read /\ q # p
    BY <2>1 DEF HasRead, CommandAt
  <2>3. ConsentsAreRead'
    BY <2>1, <2>2 DEF ConsentsAreRead
  <2>4. ConsentsAreCounted'
    BY <2>1 DEF ConsentsAreCounted
  <2> QED
    BY <2>3, <2>4
<1>6. ASSUME NEW p \in Command, ReadConsents(p) PROVE ConsentsAreRead' /\ ConsentsAreCounted'
  <2>1. /\ mixed' = (mixed \/ \E q \in Command \ {p} : HasRead(q)) /\ UNCHANGED <<consents, issued, spent>>
    BY <1>6 DEF ReadConsents
  <2>2. \A q \in Command : q # p => command'[q] = command[q]
    BY <1>6 DEF ReadConsents, CommandReturns, PackagesTypeOK
  <2>3. HasRead(p)' => command'[p].read = consents
    <3>1. CASE CommandReturns(p)
      BY <3>1, ReturnsQuietly
    <3>2. ASSUME NEW place, command' = [command EXCEPT ![p].at = place, ![p].read = consents]
          PROVE  command'[p].read = consents
      BY <1>a, <3>2 DEF CommandRecord, PackagesTypeOK
    <3> QED
      BY <1>6, <3>1, <3>2 DEF ReadConsents
  <2>4. \A q \in Command : q # p /\ HasRead(q)' => HasRead(q)
    BY <2>2 DEF HasRead, CommandAt
  <2>5. ConsentsAreRead'
    BY <2>1, <2>2, <2>3, <2>4 DEF ConsentsAreRead
  <2>6. ConsentsAreCounted'
    BY <2>1 DEF ConsentsAreCounted
  <2> QED
    BY <2>5, <2>6
<1>7. ASSUME NEW p \in Command, WriteIssued(p) PROVE ConsentsAreRead' /\ ConsentsAreCounted'
  <2>1. /\ HasRead(p) /\ ~HasRead(p)' /\ \A q \in Command : q # p => command'[q] = command[q]
        /\ UNCHANGED <<spent, mixed>> /\ issued' = issued + 1
    BY <1>7, ReturnsQuietly DEF WriteIssued, HasRead
  <2>2. PICK r : /\ r.id = issued + 1 /\ ~r.consumed /\ consents' = command[p].read \cup {r}
    <3> DEFINE r == [id |-> issued + 1, scope |-> ScopeOf(command[p].controller, command[p].target), consumed |-> FALSE]
    <3>1. r.id = issued + 1 /\ ~r.consumed
      OBVIOUS
    <3>2. consents' = command[p].read \cup {r}
      BY <1>7 DEF WriteIssued, Consent
    <3> HIDE DEF r
    <3> QED
      BY <3>1, <3>2
  <2>3. \A q \in Command : HasRead(q)' => HasRead(q) /\ q # p
    BY <2>1 DEF HasRead, CommandAt
  <2>4. ConsentsAreRead'
    BY <2>1, <2>3 DEF ConsentsAreRead
  <2>5. ASSUME ~mixed PROVE ConsentsAreCounted'
    <3>1. consents' = consents \cup {r} /\ r.id \in Nat /\ r.id = issued'
      BY <1>a, <2>1, <2>2, <2>5 DEF ConsentsAreRead
    <3>2. \A s \in consents : s.id <= issued /\ s.id \in Nat /\ s.id # r.id
      <4> TAKE s \in consents
      <4>1. s.id \in Nat
        BY <1>a DEF ConsentRecord
      <4>2. s.id <= issued
        BY <2>5 DEF ConsentsAreCounted
      <4>3. issued \in Nat /\ r.id = issued + 1
        BY <1>a, <2>2
      <4> QED
        BY <4>1, <4>2, <4>3
    <3>3. r.id \in RecordId => spent[r.id] = 0
      BY <1>a, <2>2, <2>5 DEF ConsentsAreCounted
    <3>4. r.id \in RecordId
      <4>1. issued < MaxRecords /\ issued \in Nat /\ MaxRecords \in Nat /\ r.id = issued + 1
        BY <1>7, <1>a, <2>2, PackagesAssumption DEF WriteIssued
      <4> QED
        BY <4>1 DEF RecordId
    <3>5. \A s, t \in consents' : s.id = t.id => s = t
      BY <2>5, <3>1, <3>2 DEF ConsentsAreCounted
    <3>6. \A s \in consents : s.id <= issued'
      BY <1>a, <2>1, <3>2
    <3>7. \A s \in consents' : s.id <= issued' /\ (~s.consumed => spent[s.id] = 0)
      BY <1>a, <2>1, <2>2, <2>5, <3>1, <3>3, <3>4, <3>6 DEF ConsentsAreCounted
    <3>8. \A i \in RecordId : i > issued' => i > issued
      <4>1. issued \in Nat /\ issued' = issued + 1
        BY <1>a, <2>1
      <4>2. \A i \in RecordId : i \in Nat
        BY PackagesAssumption DEF RecordId
      <4> QED
        BY <4>1, <4>2
    <3> QED
      BY <2>1, <2>5, <3>5, <3>7, <3>8 DEF ConsentsAreCounted
  <2>6. ASSUME mixed PROVE ConsentsAreCounted'
    BY <2>1, <2>6 DEF ConsentsAreCounted
  <2> QED
    BY <2>4, <2>5, <2>6
<1>8. ASSUME NEW p \in Command, WriteConsumed(p) PROVE ConsentsAreRead' /\ ConsentsAreCounted'
  <2>1. /\ HasRead(p) /\ ~HasRead(p)' /\ \A q \in Command : q # p => command'[q] = command[q]
        /\ UNCHANGED <<issued, mixed>>
    BY <1>8, WillSaveHolds DEF WriteConsumed, HasRead, Holds
  <2>2. PICK r \in command[p].read :
           /\ ~r.consumed /\ consents' = (command[p].read \ {r}) \cup {Consumed(r)}
           /\ spent' = [spent EXCEPT ![r.id] = @ + 1]
    BY <1>8 DEF WriteConsumed, Matches
  <2>3. \A q \in Command : HasRead(q)' => HasRead(q) /\ q # p
    BY <2>1 DEF HasRead, CommandAt
  <2>4. ConsentsAreRead'
    BY <2>1, <2>3 DEF ConsentsAreRead
  <2>5. ASSUME ~mixed PROVE ConsentsAreCounted'
    <3>1. consents' = (consents \ {r}) \cup {Consumed(r)} /\ r \in consents
      BY <2>1, <2>2, <2>5 DEF ConsentsAreRead
    <3>2. r \in ConsentRecord /\ r.id \in RecordId
      BY <1>a, <3>1 DEF ConsentRecord
    <3>3. Consumed(r).id = r.id /\ Consumed(r).consumed
      BY <3>2 DEF Consumed, ConsentRecord
    <3>4. spent[r.id] = 0
      BY <2>2, <2>5, <3>1 DEF ConsentsAreCounted
    <3>5. \A i \in RecordId : spent'[i] = IF i = r.id THEN 1 ELSE spent[i]
      BY <1>a, <2>2, <3>2, <3>4
    <3>6. \A s \in consents \ {r} : s.id # r.id /\ s.id \in RecordId
      BY <1>a, <2>5, <3>1 DEF ConsentsAreCounted, ConsentRecord
    <3>7. \A s, t \in consents' : s.id = t.id => s = t
      BY <2>5, <3>1, <3>3, <3>6 DEF ConsentsAreCounted
    <3>8. \A s \in consents' : s.id <= issued /\ (~s.consumed => spent'[s.id] = 0)
      BY <2>5, <3>1, <3>3, <3>5, <3>6 DEF ConsentsAreCounted
    <3>9. \A i \in RecordId : spent'[i] <= 1 /\ (i > issued => spent'[i] = 0)
      BY <1>a, <2>5, <3>1, <3>2, <3>5 DEF ConsentsAreCounted
    <3> QED
      BY <2>1, <3>7, <3>8, <3>9 DEF ConsentsAreCounted
  <2>6. ASSUME mixed PROVE ConsentsAreCounted'
    BY <2>1, <2>6 DEF ConsentsAreCounted
  <2> QED
    BY <2>4, <2>5, <2>6
<1>9. CASE UNCHANGED packageVars
  BY <1>9 DEF packageVars, ConsentsAreRead, ConsentsAreCounted, HasRead, CommandAt
<1>10. ASSUME NEW p \in Command, NEW d, Decides(p, d) PROVE ConsentsAreRead' /\ ConsentsAreCounted'
  BY <1>2, <1>10 DEF Decides
<1>11. ASSUME NEW p \in Command, NEW v \in Version,
              \/ Disable(p) \/ Recover(p) \/ Enable(p, v) \/ RollBack(p, v) \/ Upgrade(p, v)
              \/ \E c \in Content : LockTo(p, v, c) \/ Register(p, v, c)
       PROVE  ConsentsAreRead' /\ ConsentsAreCounted'
  BY <1>2, <1>10, <1>11 DEF Disable, Recover, Enable, RollBack, Upgrade, LockTo, Register
<1>12. ASSUME NEW p \in Command, Disable(p) \/ Recover(p) PROVE ConsentsAreRead' /\ ConsentsAreCounted'
  BY <1>10, <1>12 DEF Disable, Recover
<1> QED
  BY <1>3, <1>4, <1>5, <1>6, <1>7, <1>8, <1>9, <1>11, <1>12 DEF ToolPackagesNext

LEMMA PackagesAreSound == ToolPackagesSpec => []ToolPackagesInv
<1>1. ToolPackagesInit => PackagesIInv
  <2> SUFFICES ASSUME ToolPackagesInit PROVE PackagesIInv
    OBVIOUS
  <2>1. document \in Document /\ document.lock.version = Nothing /\ ~document.lock.enabled
    BY PackagesAssumption DEF ToolPackagesInit, Document, NoLock, Nothing
  <2>2. command \in [Command -> CommandRecord] /\ \A p \in Command : command[p].at = "idle"
    BY DEF ToolPackagesInit, CommandRecord, Quiet
  <2>3. spent \in [RecordId -> Nat] /\ issued = 0 /\ consents = {} /\ \A i \in RecordId : spent[i] = 0
    BY DEF ToolPackagesInit
  <2>4. PackagesTypeOK
    <3>1. mixed = FALSE /\ strayed = FALSE /\ mixed \in BOOLEAN /\ strayed \in BOOLEAN
      BY DEF ToolPackagesInit
    <3>2. issued \in Nat /\ consents \subseteq ConsentRecord
      BY <2>3
    <3> QED
      BY <2>1, <2>2, <2>3, <3>1, <3>2 DEF PackagesTypeOK
  <2>5. DocumentsAreSound
    BY <2>1, <2>2 DEF DocumentsAreSound, IsSound, IsLocked
  <2>6. \A p \in Command : ~HasRead(p)
    BY <2>2 DEF HasRead, CommandAt
  <2>7. ConsentsAreRead
    BY <2>6 DEF ConsentsAreRead
  <2>8. ConsentsAreCounted
    BY <2>3 DEF ConsentsAreCounted
  <2> QED
    BY <2>4, <2>5, <2>7, <2>8 DEF PackagesIInv
<1>2. PackagesIInv /\ [ToolPackagesNext]_packageVars => PackagesIInv'
  BY PackagesTyping, DocumentsStep, ConsentsStep DEF PackagesIInv
<1>3. PackagesIInv => ToolPackagesInv
  BY DEF PackagesIInv, DocumentsAreSound, IsSound, ConsentsAreCounted, ToolPackagesInv, EffectsAreAgreed,
         ConsentsAreSpentOnce, MayRun
<1> QED
  BY <1>1, <1>2, <1>3, PTL DEF ToolPackagesSpec

-----------------------------------------------------------------------------
(* The elevations of sessions.                                             *)

Place == {"idle", "loading", "loaded", "persist", "write", "writing"}
ElevationCall ==
    [at : Place, session : Session \cup {"-"}, kind : {"-", "list", "add", "revoke", "close"},
     made : SUBSET Nat, gone : SUBSET Nat, read : SUBSET Nat, ids : SUBSET Session]

Changes(c) == elevating[c].at \in {"persist", "write", "writing"}
Created == DOMAIN granted

ElevationsTypeOK ==
    /\ \E n \in Nat : Created = 1..n
    /\ files \in [Session -> SUBSET Nat] /\ elevating \in [ElevationCaller -> ElevationCall]
    /\ records \subseteq Created /\ owed \subseteq Created /\ revoked \subseteq Created
    /\ IsFiniteSet(changed) /\ changed \subseteq Session /\ crowded \in BOOLEAN

\* Every record was created by a call of its session, which changed it.
RecordsAreCreated ==
    /\ \A i \in Created : granted[i] \in changed
    /\ \A s \in Session : Readable(files[s]) \subseteq Created
    /\ \A c \in ElevationCaller :
          /\ elevating[c].read \subseteq Created /\ elevating[c].gone \subseteq Created
          /\ elevating[c].made \subseteq Created
          /\ ~ElevationAt(c, "idle") => elevating[c].session \in Session
          /\ ~ElevationAt(c, "idle") /\ elevating[c].kind # "list" => elevating[c].session \in changed
          /\ Changes(c) => elevating[c].kind # "list"

\* As long as calls do not meet, a call knows the file of its session and has removed
\* the files of all others before it writes its own.
Consistent(c) ==
    /\ ElevationAt(c, "loading") \/ ElevationAt(c, "loaded") =>
          elevating[c].made = {} /\ elevating[c].gone = {}
    /\ ElevationAt(c, "loaded") => elevating[c].read = Readable(files[elevating[c].session])
    /\ Changes(c) =>
          /\ \A i \in records : granted[i] = elevating[c].session
          /\ records \cap (revoked \cup elevating[c].gone) = {} /\ elevating[c].made \subseteq records
    /\ ElevationAt(c, "write") \/ ElevationAt(c, "writing") =>
          \A s \in Session \ {elevating[c].session} : files[s] = {}
    /\ ElevationAt(c, "write") =>
          \/ elevating[c].ids = {} /\ files[elevating[c].session] = records
          \/ elevating[c].ids = {elevating[c].session} /\ records # {}
    /\ ElevationAt(c, "writing") =>
          /\ elevating[c].ids = {elevating[c].session} /\ elevating[c].read = records
          /\ files[elevating[c].session] = Torn

CallsAreConsistent ==
    ~crowded =>
       /\ \A c, d \in ElevationCaller : ~ElevationAt(c, "idle") /\ ~ElevationAt(d, "idle") => c = d
       /\ \A s \in Session : \A i \in Readable(files[s]) : granted[i] = s
       /\ \A c \in ElevationCaller : Consistent(c)

\* What was reported is in the file, or in the records that are being written to it.
Alone == ~crowded /\ \A s, t \in changed : s = t
OwedIsKept ==
    Alone => /\ (\A c \in ElevationCaller : ~ElevationAt(c, "writing")) => owed \subseteq OnDisk
             /\ \A c \in ElevationCaller : Changes(c) => owed \subseteq records

ElevationIInv ==
    ElevationsTypeOK /\ RecordsAreCreated /\ CallsAreConsistent /\ RevokedStaysRevoked /\ OwedIsKept

\* Created numbers the records from 1.
LEMMA NewElevation ==
    ASSUME ElevationsTypeOK, NEW c \in ElevationCaller, AddRecord(c)
    PROVE  \E i \in Nat :
              /\ i # 0 /\ i \notin Created /\ Created' = Created \cup {i} /\ Created' = 1..i
              /\ granted'[i] = elevating[c].session /\ \A j \in Created : granted'[j] = granted[j]
              /\ records' = Loaded(c) \cup {i}
              /\ elevating' = [elevating EXCEPT ![c].at = "persist", ![c].made = {i}]
<1>1. PICK n \in Nat : Created = 1..n
  BY DEF ElevationsTypeOK
<1>2. Cardinality(Created) = n
  <2>1. 1 \in Int /\ n \in Int
    OBVIOUS
  <2>2. Cardinality(1..n) = IF 1 > n THEN 0 ELSE n - 1 + 1
    BY <2>1, FS_Interval
  <2> QED
    BY <1>1, <2>2
<1> DEFINE i == n + 1
<1>3. i \in Nat /\ i # 0 /\ i \notin 1..n /\ (1..n) \cup {i} = 1..i
  OBVIOUS
<1>4. /\ records' = Loaded(c) \cup {i}
      /\ granted' = [j \in DOMAIN granted \cup {i} |-> IF j = i THEN elevating[c].session ELSE granted[j]]
      /\ elevating' = [elevating EXCEPT ![c].at = "persist", ![c].made = {i}]
  BY <1>2 DEF AddRecord, Created
<1>5. Created' = Created \cup {i} /\ granted'[i] = elevating[c].session /\ \A j \in Created : j # i => granted'[j] = granted[j]
  BY <1>4 DEF Created
<1> HIDE DEF i
<1> QED
  BY <1>1, <1>3, <1>4, <1>5

\* What a step leaves of its call.
Becomes(c, place, made, gone, read, ids) ==
    /\ elevating' \in [ElevationCaller -> ElevationCall]
    /\ \A d \in ElevationCaller : d # c => elevating'[d] = elevating[d]
    /\ elevating'[c].at = place /\ elevating'[c].session = elevating[c].session
    /\ elevating'[c].kind = elevating[c].kind /\ elevating'[c].made = made
    /\ elevating'[c].gone = gone /\ elevating'[c].read = read /\ elevating'[c].ids = ids

LEMMA CallsMove ==
    ASSUME ElevationsTypeOK, RecordsAreCreated, NEW c \in ElevationCaller
    PROVE  LET call == elevating[c]
           IN /\ ReadRecords(c) => Becomes(c, "loaded", call.made, call.gone, Readable(files[call.session]), call.ids)
              /\ ListRecords(c) \/ RevokeNone(c) => Becomes(c, "idle", call.made, call.gone, call.read, call.ids)
              /\ \A i \in Nat : elevating' = [elevating EXCEPT ![c].at = "persist", ![c].made = {i}] =>
                    Becomes(c, "persist", {i}, call.gone, call.read, call.ids)
              /\ \A gone \in SUBSET Nat : elevating' = [elevating EXCEPT ![c].at = "persist", ![c].gone = gone] =>
                    Becomes(c, "persist", call.made, gone, call.read, call.ids)
              /\ RemoveOthers(c) => Becomes(c, "write", call.made, call.gone, call.read, SessionsIn(records))
              /\ \A s \in Session :
                    elevating' = [elevating EXCEPT ![c].at = "writing", ![c].read = Kept(s), ![c].ids = {s}] =>
                       Becomes(c, "writing", call.made, call.gone, Kept(s), {s})
              /\ EndWrite(c) => Becomes(c, "write", call.made, call.gone, call.read, {})
<1>a. /\ elevating \in [ElevationCaller -> ElevationCall] /\ elevating[c] \in ElevationCall
      /\ records \subseteq Nat
  <2>1. Created \subseteq Nat
    BY DEF ElevationsTypeOK
  <2> QED
    BY <2>1 DEF ElevationsTypeOK
<1> DEFINE call == elevating[c]
<1>3. \A s \in Session : Kept(s) \in SUBSET Nat
  BY <1>a DEF Kept, OfSession
<1>4. ReadRecords(c) => Becomes(c, "loaded", call.made, call.gone, Readable(files[call.session]), call.ids)
  <2> SUFFICES ASSUME ReadRecords(c)
               PROVE  Becomes(c, "loaded", call.made, call.gone, Readable(files[call.session]), call.ids)
    OBVIOUS
  <2>1. Readable(files[call.session]) \in SUBSET Nat
    BY DEF ReadRecords, RecordsAreCreated, ElevationAt, Readable, ElevationsTypeOK
  <2>2. elevating' = [elevating EXCEPT ![c].at = "loaded", ![c].read = Readable(files[call.session])]
    BY DEF ReadRecords
  <2> QED
    BY <1>a, <2>1, <2>2 DEF Becomes, ElevationCall, Place
<1>5. ListRecords(c) \/ RevokeNone(c) => Becomes(c, "idle", call.made, call.gone, call.read, call.ids)
  <2> SUFFICES ASSUME elevating' = [elevating EXCEPT ![c].at = "idle"]
               PROVE  Becomes(c, "idle", call.made, call.gone, call.read, call.ids)
    BY DEF ListRecords, RevokeNone, ElevationGoes
  <2> QED
    BY <1>a DEF Becomes, ElevationCall, Place
<1>6. ASSUME NEW i \in Nat, elevating' = [elevating EXCEPT ![c].at = "persist", ![c].made = {i}]
      PROVE  Becomes(c, "persist", {i}, call.gone, call.read, call.ids)
  BY <1>a, <1>6 DEF Becomes, ElevationCall, Place
<1>7. ASSUME NEW gone \in SUBSET Nat, elevating' = [elevating EXCEPT ![c].at = "persist", ![c].gone = gone]
      PROVE  Becomes(c, "persist", call.made, gone, call.read, call.ids)
  BY <1>a, <1>7 DEF Becomes, ElevationCall, Place
<1>8. RemoveOthers(c) => Becomes(c, "write", call.made, call.gone, call.read, SessionsIn(records))
  <2> DEFINE ids == SessionsIn(records)
  <2>1. ids \in SUBSET Session
    BY DEF SessionsIn
  <2> SUFFICES ASSUME elevating' = [elevating EXCEPT ![c].at = "write", ![c].ids = ids]
               PROVE  Becomes(c, "write", call.made, call.gone, call.read, ids)
    BY DEF RemoveOthers
  <2> HIDE DEF ids
  <2> QED
    BY <1>a, <2>1 DEF Becomes, ElevationCall, Place
<1>9. ASSUME NEW s \in Session,
             elevating' = [elevating EXCEPT ![c].at = "writing", ![c].read = Kept(s), ![c].ids = {s}]
      PROVE  Becomes(c, "writing", call.made, call.gone, Kept(s), {s})
  BY <1>a, <1>3, <1>9 DEF Becomes, ElevationCall, Place
<1>10. EndWrite(c) => Becomes(c, "write", call.made, call.gone, call.read, {})
  <2> SUFFICES ASSUME elevating' = [elevating EXCEPT ![c].at = "write", ![c].ids = {}]
               PROVE  Becomes(c, "write", call.made, call.gone, call.read, {})
    BY DEF EndWrite
  <2> QED
    BY <1>a DEF Becomes, ElevationCall, Place
<1> QED
  BY <1>4, <1>5, <1>6, <1>7, <1>8, <1>9, <1>10

\* What a call that begins, ends or is cut off leaves.
LEMMA CallsBegin ==
    ASSUME ElevationsTypeOK, NEW c \in ElevationCaller, NEW s \in Session,
           NEW kind \in {"list", "add", "revoke", "close"},
           elevating' = [elevating EXCEPT ![c] =
              [NoCall EXCEPT !.at = "loading", !.session = s, !.kind = kind]]
    PROVE  /\ elevating' \in [ElevationCaller -> ElevationCall]
           /\ \A d \in ElevationCaller : d # c => elevating'[d] = elevating[d]
           /\ elevating'[c].at = "loading" /\ elevating'[c].session = s /\ elevating'[c].kind = kind
           /\ elevating'[c].made = {} /\ elevating'[c].gone = {} /\ elevating'[c].read = {}
BY DEF ElevationsTypeOK, NoCall, ElevationCall, Place

LEMMA CallsEnd ==
    ASSUME ElevationsTypeOK, NEW c \in ElevationCaller
    PROVE  /\ NoCall \in ElevationCall /\ NoCall.at = "idle" /\ NoCall.read = {} /\ NoCall.made = {} /\ NoCall.gone = {}
           /\ elevating' = [elevating EXCEPT ![c] = NoCall] =>
                 /\ elevating' \in [ElevationCaller -> ElevationCall] /\ elevating'[c] = NoCall
                 /\ \A d \in ElevationCaller : d # c => elevating'[d] = elevating[d]
<1>1. NoCall \in ElevationCall /\ NoCall.at = "idle" /\ NoCall.read = {} /\ NoCall.made = {} /\ NoCall.gone = {}
  BY DEF NoCall, ElevationCall, Place
<1> QED
  BY <1>1 DEF ElevationsTypeOK

LEMMA ElevationsTyping ==
    ASSUME ElevationsTypeOK, RecordsAreCreated, [ElevationsNext]_elevationVars
    PROVE  ElevationsTypeOK' /\ RecordsAreCreated'
<1>a. /\ \E n \in Nat : Created = 1..n
      /\ files \in [Session -> SUBSET Nat] /\ elevating \in [ElevationCaller -> ElevationCall]
      /\ records \subseteq Created /\ owed \subseteq Created /\ revoked \subseteq Created
      /\ IsFiniteSet(changed) /\ changed \subseteq Session /\ crowded \in BOOLEAN
      /\ Created \subseteq Nat
  BY DEF ElevationsTypeOK
<1>b. ASSUME NEW c \in ElevationCaller, NEW place \in Place, NEW made \in SUBSET Created,
             NEW gone \in SUBSET Created, NEW read \in SUBSET Created, NEW ids,
             ~ElevationAt(c, "idle"), place \in {"persist", "write", "writing"} => elevating[c].kind # "list",
             Becomes(c, place, made, gone, read, ids), UNCHANGED <<granted, changed, crowded>>,
             files' \in [Session -> SUBSET Nat], \A s \in Session : Readable(files'[s]) \subseteq Created,
             records' \subseteq Created, owed' \subseteq Created, revoked' \subseteq Created
      PROVE  ElevationsTypeOK' /\ RecordsAreCreated'
  <2>1. Created' = Created
    BY <1>b DEF Created
  <2>2. ElevationsTypeOK'
    BY <1>a, <1>b, <2>1 DEF ElevationsTypeOK, Becomes
  <2>3. \A i \in Created : granted'[i] \in changed'
    BY <1>b DEF RecordsAreCreated
  <2>4. \A d \in ElevationCaller : d # c =>
          /\ elevating'[d] = elevating[d] /\ (ElevationAt(d, "idle")' <=> ElevationAt(d, "idle"))
          /\ (Changes(d)' <=> Changes(d))
    BY <1>b DEF Becomes, ElevationAt, Changes
  <2>5. /\ elevating'[c].read \subseteq Created /\ elevating'[c].gone \subseteq Created
        /\ elevating'[c].made \subseteq Created /\ elevating'[c].session \in Session
        /\ (elevating'[c].kind # "list" => elevating'[c].session \in changed')
        /\ (Changes(c)' => elevating'[c].kind # "list")
    BY <1>b DEF Becomes, RecordsAreCreated, ElevationAt, Changes
  <2>6. RecordsAreCreated'
    BY <1>b, <2>1, <2>3, <2>4, <2>5 DEF RecordsAreCreated
  <2> QED
    BY <2>2, <2>6
<1>1. ASSUME NEW c \in ElevationCaller, NEW s \in Session, NEW kind \in {"list", "add", "revoke", "close"},
             BeginCall(c, s, kind)
      PROVE  ElevationsTypeOK' /\ RecordsAreCreated'
  <2>1. Created' = Created /\ UNCHANGED <<records, files, granted, owed, revoked>>
    BY <1>1 DEF BeginCall, Created
  <2>2. /\ elevating' \in [ElevationCaller -> ElevationCall]
        /\ \A d \in ElevationCaller : d # c => elevating'[d] = elevating[d]
        /\ elevating'[c].at = "loading" /\ elevating'[c].session = s /\ elevating'[c].kind = kind
        /\ elevating'[c].made = {} /\ elevating'[c].gone = {} /\ elevating'[c].read = {}
    BY <1>1, CallsBegin DEF BeginCall
  <2>3. IsFiniteSet(changed') /\ changed' \subseteq Session /\ changed \subseteq changed'
        /\ (kind # "list" => s \in changed')
    BY <1>1, <1>a, FS_AddElement DEF BeginCall
  <2>4. crowded' \in BOOLEAN
    BY <1>1, <1>a DEF BeginCall
  <2>5. ElevationsTypeOK'
    BY <1>a, <2>1, <2>2, <2>3, <2>4 DEF ElevationsTypeOK
  <2>6. RecordsAreCreated'
    BY <2>1, <2>2, <2>3 DEF RecordsAreCreated, ElevationAt, Changes
  <2> QED
    BY <2>5, <2>6
<1>2. ASSUME NEW c \in ElevationCaller,
             \/ ReadRecords(c) \/ ListRecords(c) \/ AddRecord(c) \/ Revoke(c) \/ RevokeNone(c)
             \/ RemoveOthers(c) \/ BeginWrite(c) \/ EndWrite(c)
      PROVE  ElevationsTypeOK' /\ RecordsAreCreated'
  <2> DEFINE call == elevating[c]
  <2>1. /\ call.made \in SUBSET Created /\ call.gone \in SUBSET Created /\ call.read \in SUBSET Created
        /\ ~ElevationAt(c, "idle") /\ call.session \in Session
        /\ \A s \in Session : Readable(files[s]) \subseteq Created
        /\ Loaded(c) \subseteq Created /\ \A s \in Session : Kept(s) \in SUBSET Created
    <3>1. ~ElevationAt(c, "idle")
      BY <1>2 DEF ReadRecords, ListRecords, AddRecord, Revoke, RevokeNone, RemoveOthers, BeginWrite, EndWrite,
                  ElevationAt
    <3> QED
      BY <1>a, <3>1 DEF RecordsAreCreated, Loaded, Kept, OfSession
  <2>2. CASE ReadRecords(c)
    <3>1. Becomes(c, "loaded", call.made, call.gone, Readable(files[call.session]), call.ids)
      BY <2>2, CallsMove
    <3> QED
      BY <1>a, <1>b, <2>1, <2>2, <3>1 DEF ReadRecords, Place
  <2>3. CASE ListRecords(c) \/ RevokeNone(c)
    <3>1. Becomes(c, "idle", call.made, call.gone, call.read, call.ids)
      BY <2>3, CallsMove
    <3>2. UNCHANGED <<files, granted, owed, revoked, changed, crowded>> /\ records' \subseteq Created
      BY <2>1, <2>3 DEF ListRecords, RevokeNone
    <3> QED
      BY <1>a, <1>b, <2>1, <3>1, <3>2 DEF Place
  <2>4. CASE AddRecord(c)
    <3>1. PICK i \in Nat :
              /\ i # 0 /\ i \notin Created /\ Created' = Created \cup {i} /\ Created' = 1..i
              /\ granted'[i] = elevating[c].session /\ \A j \in Created : granted'[j] = granted[j]
              /\ records' = Loaded(c) \cup {i}
              /\ elevating' = [elevating EXCEPT ![c].at = "persist", ![c].made = {i}]
      BY <2>4, NewElevation
    <3>2. Becomes(c, "persist", {i}, call.gone, call.read, call.ids)
      BY <3>1, CallsMove
    <3>3. UNCHANGED <<files, owed, revoked, changed, crowded>> /\ call.kind = "add"
      BY <2>4 DEF AddRecord
    <3>4. call.session \in changed
      BY <2>1, <3>3 DEF RecordsAreCreated
    <3>5. ElevationsTypeOK'
      BY <1>a, <2>1, <3>1, <3>2, <3>3 DEF ElevationsTypeOK, Becomes
    <3>6. \A j \in Created' : granted'[j] \in changed'
      BY <3>1, <3>3, <3>4 DEF RecordsAreCreated
    <3>7. RecordsAreCreated'
      BY <2>1, <3>1, <3>2, <3>3, <3>4, <3>6 DEF RecordsAreCreated, Becomes, ElevationAt, Changes
    <3> QED
      BY <3>5, <3>7
  <2>5. CASE Revoke(c)
    <3>1. PICK gone \in SUBSET Created :
             /\ records' = Loaded(c) \ gone /\ owed' = owed \ gone
             /\ elevating' = [elevating EXCEPT ![c].at = "persist", ![c].gone = gone]
      <4>1. PICK gone \in IF call.kind = "close" THEN {Loaded(c)} ELSE {{i} : i \in Loaded(c)} :
               /\ records' = Loaded(c) \ gone /\ owed' = owed \ gone
               /\ elevating' = [elevating EXCEPT ![c].at = "persist", ![c].gone = gone]
        BY <2>5 DEF Revoke
      <4>2. gone \in SUBSET Created
        BY <2>1, <4>1
      <4> QED
        BY <4>1, <4>2
    <3>2. Becomes(c, "persist", call.made, gone, call.read, call.ids)
      BY <1>a, <3>1, CallsMove
    <3>3. UNCHANGED <<files, granted, revoked, changed, crowded>> /\ call.kind # "list"
      BY <2>5 DEF Revoke
    <3> QED
      BY <1>a, <1>b, <2>1, <3>1, <3>2, <3>3 DEF Place
  <2>6. CASE RemoveOthers(c)
    <3>1. Becomes(c, "write", call.made, call.gone, call.read, SessionsIn(records))
      BY <2>6, CallsMove
    <3>2. UNCHANGED <<records, granted, owed, revoked, changed, crowded>> /\ call.kind # "list"
      BY <2>6 DEF RemoveOthers, RecordsAreCreated, Changes, ElevationAt
    <3>3. /\ files' \in [Session -> SUBSET Nat]
          /\ \A s \in Session : Readable(files'[s]) \subseteq Created
      BY <1>a, <2>1, <2>6 DEF RemoveOthers, NoFile, Readable
    <3> QED
      BY <1>a, <1>b, <2>1, <3>1, <3>2, <3>3 DEF Place
  <2>7. CASE BeginWrite(c)
    <3>1. PICK s \in Session :
             /\ files' = [files EXCEPT ![s] = Torn]
             /\ elevating' = [elevating EXCEPT ![c].at = "writing", ![c].read = Kept(s), ![c].ids = {s}]
      BY <1>a, <2>7 DEF BeginWrite, ElevationCall
    <3>2. Becomes(c, "writing", call.made, call.gone, Kept(s), {s})
      BY <3>1, CallsMove
    <3>3. UNCHANGED <<records, granted, owed, revoked, changed, crowded>> /\ call.kind # "list"
      BY <2>7 DEF BeginWrite, RecordsAreCreated, Changes, ElevationAt
    <3>4. /\ files' \in [Session -> SUBSET Nat]
          /\ \A t \in Session : Readable(files'[t]) \subseteq Created
      BY <1>a, <2>1, <3>1 DEF Torn, Readable
    <3> QED
      BY <1>a, <1>b, <2>1, <3>2, <3>3, <3>4 DEF Place
  <2>8. CASE EndWrite(c)
    <3>1. Becomes(c, "write", call.made, call.gone, call.read, {})
      BY <2>8, CallsMove
    <3>2. UNCHANGED <<records, granted, owed, revoked, changed, crowded>> /\ call.kind # "list"
      BY <2>8 DEF EndWrite, RecordsAreCreated, Changes, ElevationAt
    <3>3. /\ files' \in [Session -> SUBSET Nat]
          /\ \A s \in Session : Readable(files'[s]) \subseteq Created
      BY <1>a, <2>1, <2>8 DEF EndWrite, Readable
    <3> QED
      BY <1>a, <1>b, <2>1, <3>1, <3>2, <3>3 DEF Place
  <2> QED
    BY <1>2, <2>2, <2>3, <2>4, <2>5, <2>6, <2>7, <2>8
<1>3. ASSUME NEW c \in ElevationCaller, EndCall(c) PROVE ElevationsTypeOK' /\ RecordsAreCreated'
  <2>1. /\ Created' = Created /\ UNCHANGED <<records, files, granted, changed, crowded>>
        /\ owed' \subseteq Created /\ revoked' \subseteq Created
    BY <1>3, <1>a DEF EndCall, Created, RecordsAreCreated
  <2>2. /\ elevating' \in [ElevationCaller -> ElevationCall] /\ elevating'[c] = NoCall
        /\ \A d \in ElevationCaller : d # c => elevating'[d] = elevating[d]
    BY <1>3, CallsEnd DEF EndCall
  <2>3. ElevationsTypeOK'
    BY <1>a, <2>1, <2>2 DEF ElevationsTypeOK
  <2>4. RecordsAreCreated'
    BY <2>1, <2>2, CallsEnd DEF RecordsAreCreated, ElevationAt, Changes
  <2> QED
    BY <2>3, <2>4
<1>4. CASE ApplicationEnds
  <2>1. /\ Created' = Created /\ UNCHANGED <<files, granted, revoked, changed, crowded>>
        /\ owed' \subseteq Created /\ records' \subseteq Created
    BY <1>4, <1>a DEF ApplicationEnds, Created
  <2>2. NoCall \in ElevationCall
    BY DEF NoCall, ElevationCall, Place
  <2>3. elevating' \in [ElevationCaller -> ElevationCall] /\ \A d \in ElevationCaller : elevating'[d] = NoCall
    BY <1>4, <2>2 DEF ApplicationEnds
  <2>4. NoCall.at = "idle" /\ NoCall.read = {} /\ NoCall.made = {} /\ NoCall.gone = {}
    BY DEF NoCall
  <2>5. ElevationsTypeOK'
    BY <1>a, <2>1, <2>3 DEF ElevationsTypeOK
  <2>6. RecordsAreCreated'
    BY <2>1, <2>3, <2>4 DEF RecordsAreCreated, ElevationAt, Changes
  <2> QED
    BY <2>5, <2>6
<1>5. CASE UNCHANGED elevationVars
  BY <1>5 DEF elevationVars, ElevationsTypeOK, RecordsAreCreated, Created, ElevationAt, Changes
<1> QED
  BY <1>1, <1>2, <1>3, <1>4, <1>5 DEF ElevationsNext

\* What has been created, written or revoked so far, and by whom, while calls do not meet.
LEMMA ElevationsStep ==
    ASSUME ElevationsTypeOK, RecordsAreCreated, CallsAreConsistent, RevokedStaysRevoked, OwedIsKept,
           [ElevationsNext]_elevationVars
    PROVE  CallsAreConsistent' /\ RevokedStaysRevoked' /\ OwedIsKept'
<1>a. /\ files \in [Session -> SUBSET Nat] /\ records \subseteq Created /\ 0 \notin Created
      /\ owed \subseteq Created /\ revoked \subseteq Created /\ crowded \in BOOLEAN
  BY DEF ElevationsTypeOK
<1>b. /\ \A i : i \in OnDisk <=> \E s \in Session : i \in files[s] /\ i # 0
      /\ \A i : i \in OnDisk' <=> \E s \in Session : i \in files'[s] /\ i # 0
  BY DEF OnDisk, Readable, Torn
<1> DEFINE FilesAreOwn == \A s \in Session : \A i \in files[s] : i # 0 => granted[i] = s
<1> DEFINE Goal == CallsAreConsistent' /\ RevokedStaysRevoked' /\ OwedIsKept'
<1>c. ASSUME ~crowded
      PROVE  /\ FilesAreOwn /\ OnDisk \cap revoked = {} /\ \A c \in ElevationCaller : Consistent(c)
             /\ \A c, d \in ElevationCaller : ~ElevationAt(c, "idle") /\ ~ElevationAt(d, "idle") => c = d
  <2>1. FilesAreOwn
    BY <1>c DEF CallsAreConsistent, Readable, Torn
  <2> QED
    BY <1>c, <2>1 DEF CallsAreConsistent, RevokedStaysRevoked
<1>d. ASSUME NEW c \in ElevationCaller, ~ElevationAt(c, "idle"), ~crowded => FilesAreOwn' /\ Consistent(c)',
             ~crowded => OnDisk' \cap revoked' = {}, crowded' = crowded, changed' = changed,
             \A d \in ElevationCaller : d # c => elevating'[d] = elevating[d],
             Alone => /\ ~ElevationAt(c, "writing")' => owed' \subseteq OnDisk'
                      /\ Changes(c)' => owed' \subseteq records'
      PROVE  Goal
  <2>1. CASE crowded
    BY <1>d, <2>1 DEF CallsAreConsistent, RevokedStaysRevoked, OwedIsKept, Alone
  <2>2. CASE ~crowded
    <3>1. \A d \in ElevationCaller : d # c => elevating'[d].at = "idle"
      BY <1>c, <1>d, <2>2 DEF ElevationAt
    <3>2. \A d \in ElevationCaller : d # c => Consistent(d)' /\ ~Changes(d)' /\ ~ElevationAt(d, "writing")'
      BY <3>1 DEF Consistent, Changes, ElevationAt
    <3>3. \A s \in Session : \A i \in Readable(files'[s]) : granted'[i] = s
      BY <1>d, <2>2 DEF Readable, Torn
    <3>4. CallsAreConsistent'
      BY <1>d, <2>2, <3>1, <3>2, <3>3 DEF CallsAreConsistent, ElevationAt
    <3>5. RevokedStaysRevoked'
      BY <1>d, <2>2 DEF RevokedStaysRevoked
    <3>6. Alone' => Alone
      BY <1>d DEF Alone
    <3>7. OwedIsKept'
      BY <1>d, <3>2, <3>6 DEF OwedIsKept
    <3> QED
      BY <3>4, <3>5, <3>7
  <2> QED
    BY <2>1, <2>2
<1>e. ASSUME NEW c \in ElevationCaller, ~ElevationAt(c, "idle"), Alone, elevating[c].kind # "list"
      PROVE  /\ elevating[c].session \in Session
             /\ \A i \in Created : granted[i] = elevating[c].session
             /\ ~ElevationAt(c, "writing") => owed \subseteq OnDisk
             /\ ~ElevationAt(c, "writing") => \A i \in owed : i \in files[elevating[c].session] /\ i # 0
  <2>1. elevating[c].session \in Session /\ \A i \in Created : granted[i] = elevating[c].session
    BY <1>e DEF Alone, RecordsAreCreated
  <2>2. ASSUME ~ElevationAt(c, "writing") PROVE owed \subseteq OnDisk
    BY <1>c, <1>e, <2>2 DEF OwedIsKept, Alone, ElevationAt
  <2>3. ASSUME ~ElevationAt(c, "writing"), NEW i \in owed
        PROVE  i \in files[elevating[c].session] /\ i # 0
    <3>1. PICK s \in Session : i \in files[s] /\ i # 0
      BY <1>b, <2>2, <2>3
    <3>2. granted[i] = s
      BY <1>c, <1>e, <3>1 DEF Alone
    <3> QED
      BY <1>a, <2>1, <3>1, <3>2
  <2> QED
    BY <2>1, <2>2, <2>3
<1>1. ASSUME NEW c \in ElevationCaller, NEW s \in Session, NEW kind \in {"list", "add", "revoke", "close"},
             BeginCall(c, s, kind)
      PROVE  Goal
  <2>1. /\ \A d \in ElevationCaller : d # c => elevating'[d] = elevating[d]
        /\ elevating'[c].at = "loading" /\ elevating'[c].made = {} /\ elevating'[c].gone = {}
    BY <1>1, CallsBegin DEF BeginCall
  <2>2. /\ UNCHANGED <<files, records, granted, owed, revoked>> /\ changed \subseteq changed'
        /\ ElevationAt(c, "idle")
        /\ ~crowded' => ~crowded /\ \A d \in ElevationCaller : d # c => ElevationAt(d, "idle")
    BY <1>1, <1>a DEF BeginCall
  <2>3. OnDisk' = OnDisk
    BY <2>2 DEF OnDisk
  <2>4. CASE crowded'
    BY <2>4 DEF CallsAreConsistent, RevokedStaysRevoked, OwedIsKept, Alone
  <2>5. CASE ~crowded'
    <3>1. \A d \in ElevationCaller : d # c => elevating'[d].at = "idle"
      BY <2>1, <2>2, <2>5 DEF ElevationAt
    <3>2. \A d \in ElevationCaller : Consistent(d)' /\ ~Changes(d)'
      BY <2>1, <3>1 DEF Consistent, Changes, ElevationAt
    <3>3. CallsAreConsistent'
      BY <2>1, <2>2, <2>5, <3>1, <3>2 DEF CallsAreConsistent, ElevationAt
    <3>4. RevokedStaysRevoked'
      BY <2>2, <2>3, <2>5 DEF RevokedStaysRevoked
    <3>5. \A d \in ElevationCaller : ~ElevationAt(d, "writing")
      BY <2>2, <2>5 DEF ElevationAt
    <3>6. Alone' => Alone
      BY <2>2, <2>5 DEF Alone
    <3>7. OwedIsKept'
      BY <2>2, <2>3, <3>2, <3>5, <3>6 DEF OwedIsKept
    <3> QED
      BY <3>3, <3>4, <3>7
  <2> QED
    BY <2>4, <2>5
<1>2. ASSUME NEW c \in ElevationCaller, ReadRecords(c) PROVE Goal
  <2> DEFINE call == elevating[c]
  <2>1. Becomes(c, "loaded", call.made, call.gone, Readable(files[call.session]), call.ids)
    BY <1>2, CallsMove
  <2>2. UNCHANGED <<records, files, granted, owed, revoked, changed, crowded>> /\ ElevationAt(c, "loading")
    BY <1>2 DEF ReadRecords
  <2>3. OnDisk' = OnDisk
    BY <2>2 DEF OnDisk
  <2>4. ~crowded => Consistent(c)'
    BY <1>c, <2>1, <2>2 DEF Consistent, Becomes, ElevationAt, Changes
  <2>5. Alone => owed \subseteq OnDisk
    BY <1>c, <2>2 DEF OwedIsKept, Alone, ElevationAt
  <2> QED
    BY <1>c, <1>d, <2>1, <2>2, <2>3, <2>4, <2>5 DEF Becomes, ElevationAt, Changes
<1>3. ASSUME NEW c \in ElevationCaller, ListRecords(c) \/ RevokeNone(c) PROVE Goal
  <2> DEFINE call == elevating[c]
  <2>1. Becomes(c, "idle", call.made, call.gone, call.read, call.ids)
    BY <1>3, CallsMove
  <2>2. UNCHANGED <<files, granted, owed, revoked, changed, crowded>> /\ ElevationAt(c, "loaded")
    BY <1>3 DEF ListRecords, RevokeNone
  <2>3. OnDisk' = OnDisk
    BY <2>2 DEF OnDisk
  <2>4. Consistent(c)' /\ ~Changes(c)'
    BY <2>1 DEF Consistent, Becomes, ElevationAt, Changes
  <2>5. Alone => owed \subseteq OnDisk
    BY <1>c, <2>2 DEF OwedIsKept, Alone, ElevationAt
  <2> QED
    BY <1>c, <1>d, <2>1, <2>2, <2>3, <2>4, <2>5 DEF Becomes, ElevationAt
<1>f. ASSUME NEW c \in ElevationCaller, ~crowded, ElevationAt(c, "loaded")
      PROVE  /\ \A i \in Loaded(c) : /\ i \in files[elevating[c].session] /\ i \in Created
                                     /\ i \in OnDisk /\ granted[i] = elevating[c].session
             /\ \A i \in Created : i \in files[elevating[c].session] /\ granted[i] = elevating[c].session
                                      => i \in Loaded(c)
  <2>1. elevating[c].read = Readable(files[elevating[c].session]) /\ elevating[c].session \in Session
    BY <1>c, <1>f DEF Consistent, RecordsAreCreated, ElevationAt
  <2> QED
    BY <1>a, <1>b, <2>1 DEF Loaded, OfSession, Readable, Torn, RecordsAreCreated
<1>4. ASSUME NEW c \in ElevationCaller, AddRecord(c) PROVE Goal
  <2> DEFINE call == elevating[c]
  <2>1. PICK i \in Nat :
              /\ i # 0 /\ i \notin Created /\ Created' = Created \cup {i} /\ Created' = 1..i
              /\ granted'[i] = elevating[c].session /\ \A j \in Created : granted'[j] = granted[j]
              /\ records' = Loaded(c) \cup {i}
              /\ elevating' = [elevating EXCEPT ![c].at = "persist", ![c].made = {i}]
    BY <1>4, NewElevation
  <2>2. Becomes(c, "persist", {i}, call.gone, call.read, call.ids)
    BY <2>1, CallsMove
  <2>3. UNCHANGED <<files, owed, revoked, changed, crowded>> /\ ElevationAt(c, "loaded") /\ call.kind = "add"
    BY <1>4 DEF AddRecord
  <2>4. OnDisk' = OnDisk
    BY <2>3 DEF OnDisk
  <2>5. ASSUME ~crowded PROVE FilesAreOwn' /\ Consistent(c)' /\ OnDisk' \cap revoked' = {}
    <3>1. \A s \in Session : \A j \in files[s] : j # 0 => j \in Created
      BY DEF RecordsAreCreated, Readable, Torn
    <3>2. FilesAreOwn'
      BY <1>c, <2>1, <2>3, <2>5, <3>1
    <3>3. call.gone = {}
      BY <1>c, <2>3, <2>5 DEF Consistent
    <3>4. \A j \in records' : granted'[j] = call.session /\ j \notin revoked
      BY <1>a, <1>c, <1>f, <2>1, <2>3, <2>5
    <3>5. Consistent(c)'
      BY <2>1, <2>2, <2>3, <3>3, <3>4 DEF Consistent, Becomes, ElevationAt, Changes
    <3> QED
      BY <1>c, <2>3, <2>4, <2>5, <3>2, <3>5
  <2>6. ASSUME Alone PROVE owed' \subseteq OnDisk' /\ owed' \subseteq records'
    <3>1. ~crowded /\ ~ElevationAt(c, "writing") /\ ~ElevationAt(c, "idle") /\ call.kind # "list"
      BY <2>3, <2>6 DEF Alone, ElevationAt
    <3> QED
      BY <1>a, <1>e, <1>f, <2>1, <2>3, <2>4, <2>6, <3>1
  <2> QED
    BY <1>d, <2>2, <2>3, <2>5, <2>6 DEF Becomes, ElevationAt
<1>5. ASSUME NEW c \in ElevationCaller, Revoke(c) PROVE Goal
  <2> DEFINE call == elevating[c]
  <2>1. PICK gone :
           /\ gone \in IF call.kind = "close" THEN {Loaded(c)} ELSE {{i} : i \in Loaded(c)}
           /\ records' = Loaded(c) \ gone /\ owed' = owed \ gone
           /\ elevating' = [elevating EXCEPT ![c].at = "persist", ![c].gone = gone]
    BY <1>5 DEF Revoke
  <2>2. Becomes(c, "persist", call.made, gone, call.read, call.ids)
    <3>1. elevating[c] \in ElevationCall
      BY DEF ElevationsTypeOK
    <3>2. gone \in SUBSET Nat
      BY <2>1, <3>1 DEF Loaded, OfSession, ElevationCall
    <3> QED
      BY <2>1, <3>2, CallsMove
  <2>3. UNCHANGED <<files, granted, revoked, changed, crowded>> /\ ElevationAt(c, "loaded") /\ call.kind # "list"
    BY <1>5 DEF Revoke
  <2>4. OnDisk' = OnDisk
    BY <2>3 DEF OnDisk
  <2>5. ASSUME ~crowded PROVE FilesAreOwn' /\ Consistent(c)' /\ OnDisk' \cap revoked' = {}
    <3>1. call.made = {}
      BY <1>c, <2>3, <2>5 DEF Consistent
    <3>2. \A j \in records' : granted'[j] = call.session /\ j \notin revoked
      BY <1>a, <1>c, <1>f, <2>1, <2>3, <2>5
    <3>3. Consistent(c)'
      BY <2>1, <2>2, <2>3, <3>1, <3>2 DEF Consistent, Becomes, ElevationAt, Changes
    <3> QED
      BY <1>c, <2>3, <2>4, <2>5, <3>3
  <2>6. ASSUME Alone PROVE owed' \subseteq OnDisk' /\ owed' \subseteq records'
    <3>1. ~crowded /\ ~ElevationAt(c, "writing") /\ ~ElevationAt(c, "idle")
      BY <2>3, <2>6 DEF Alone, ElevationAt
    <3> QED
      BY <1>a, <1>e, <1>f, <2>1, <2>3, <2>4, <2>6, <3>1
  <2> QED
    BY <1>d, <2>2, <2>3, <2>5, <2>6 DEF Becomes, ElevationAt
<1>g. ASSUME NEW c \in ElevationCaller, ~crowded, Changes(c)
      PROVE  /\ elevating[c].session \in Session /\ elevating[c].kind # "list" /\ ~ElevationAt(c, "idle")
             /\ \A i \in records : granted[i] = elevating[c].session
             /\ records \cap (revoked \cup elevating[c].gone) = {} /\ elevating[c].made \subseteq records
             /\ Kept(elevating[c].session) = records
             /\ SessionsIn(records) = IF records = {} THEN {} ELSE {elevating[c].session}
  <2>1. /\ elevating[c].session \in Session /\ elevating[c].kind # "list" /\ ~ElevationAt(c, "idle")
        /\ \A i \in records : granted[i] = elevating[c].session
        /\ records \cap (revoked \cup elevating[c].gone) = {} /\ elevating[c].made \subseteq records
    BY <1>c, <1>g DEF Consistent, RecordsAreCreated, Changes, ElevationAt
  <2> QED
    BY <2>1 DEF Kept, OfSession, SessionsIn
<1>6. ASSUME NEW c \in ElevationCaller, RemoveOthers(c) PROVE Goal
  <2> DEFINE call == elevating[c]
  <2>1. Becomes(c, "write", call.made, call.gone, call.read, SessionsIn(records))
    BY <1>6, CallsMove
  <2>2. /\ UNCHANGED <<records, granted, owed, revoked, changed, crowded>> /\ ElevationAt(c, "persist")
        /\ files' = [s \in Session |-> IF s \in SessionsIn(records) THEN files[s] ELSE {}]
    BY <1>6 DEF RemoveOthers, NoFile
  <2>3. Changes(c) /\ ~ElevationAt(c, "writing") /\ ~ElevationAt(c, "idle")
    BY <2>2 DEF Changes, ElevationAt
  <2>4. ASSUME ~crowded PROVE FilesAreOwn' /\ Consistent(c)' /\ OnDisk' \cap revoked' = {}
    <3>1. \A s \in Session : files'[s] = IF records # {} /\ s = call.session THEN files[s] ELSE {}
      BY <1>g, <2>2, <2>3, <2>4
    <3>2. FilesAreOwn' /\ OnDisk' \subseteq OnDisk
      BY <1>b, <1>c, <2>2, <2>4, <3>1
    <3>3. Consistent(c)'
      BY <1>g, <2>1, <2>2, <2>3, <2>4, <3>1 DEF Consistent, Becomes, ElevationAt, Changes
    <3> QED
      BY <1>c, <2>2, <2>4, <3>2, <3>3
  <2>5. ASSUME Alone PROVE owed' \subseteq OnDisk' /\ owed' \subseteq records'
    <3>1. ~crowded /\ owed \subseteq records /\ call.kind # "list"
      BY <1>g, <2>3, <2>5 DEF Alone, OwedIsKept
    <3>2. \A i \in owed : call.session \in SessionsIn(records) /\ call.session \in Session
      BY <1>g, <2>3, <3>1
    <3> QED
      BY <1>b, <1>e, <2>2, <2>3, <2>5, <3>1, <3>2
  <2> QED
    BY <1>d, <2>1, <2>2, <2>3, <2>4, <2>5 DEF Becomes, ElevationAt
<1>7. ASSUME NEW c \in ElevationCaller, BeginWrite(c) PROVE Goal
  <2> DEFINE call == elevating[c]
  <2>1. PICK s \in call.ids :
           /\ files' = [files EXCEPT ![s] = Torn]
           /\ elevating' = [elevating EXCEPT ![c].at = "writing", ![c].read = Kept(s), ![c].ids = {s}]
    BY <1>7 DEF BeginWrite
  <2>2. s \in Session
    BY <2>1 DEF ElevationsTypeOK, ElevationCall
  <2>3. Becomes(c, "writing", call.made, call.gone, Kept(s), {s})
    BY <2>1, <2>2, CallsMove
  <2>4. UNCHANGED <<records, granted, owed, revoked, changed, crowded>> /\ ElevationAt(c, "write")
    BY <1>7 DEF BeginWrite
  <2>5. Changes(c) /\ ~ElevationAt(c, "writing") /\ ~ElevationAt(c, "idle")
    BY <2>4 DEF Changes, ElevationAt
  <2>6. ASSUME ~crowded PROVE FilesAreOwn' /\ Consistent(c)' /\ OnDisk' \cap revoked' = {}
    <3>1. s = call.session /\ \A t \in Session : t # s => files[t] = {}
      BY <1>c, <2>1, <2>4, <2>6 DEF Consistent
    <3>2. files'[s] = Torn /\ \A t \in Session : t # s => files'[t] = {}
      BY <1>a, <2>1, <2>2, <3>1
    <3>3. FilesAreOwn' /\ OnDisk' = {}
      BY <1>b, <3>2 DEF Torn
    <3>4. Consistent(c)'
      BY <1>g, <2>3, <2>4, <2>5, <2>6, <3>1, <3>2 DEF Consistent, Becomes, ElevationAt, Changes
    <3> QED
      BY <3>3, <3>4
  <2>7. Alone => owed' \subseteq records'
    BY <2>4, <2>5 DEF OwedIsKept
  <2> QED
    BY <1>d, <2>3, <2>4, <2>5, <2>6, <2>7 DEF Becomes, ElevationAt
<1>8. ASSUME NEW c \in ElevationCaller, EndWrite(c) PROVE Goal
  <2> DEFINE call == elevating[c]
  <2>1. Becomes(c, "write", call.made, call.gone, call.read, {})
    BY <1>8, CallsMove
  <2>2. /\ UNCHANGED <<records, granted, owed, revoked, changed, crowded>> /\ ElevationAt(c, "writing")
        /\ files' = [s \in Session |-> IF s \in call.ids THEN call.read ELSE files[s]]
    BY <1>8 DEF EndWrite
  <2>3. Changes(c) /\ ~ElevationAt(c, "idle")
    BY <2>2 DEF Changes, ElevationAt
  <2>4. ASSUME ~crowded
        PROVE  /\ call.session \in Session
               /\ files'[call.session] = records
               /\ \A s \in Session : s # call.session => files'[s] = {}
    <3>1. /\ call.ids = {call.session} /\ call.read = records
          /\ \A s \in Session : s # call.session => files[s] = {}
      BY <1>c, <2>2, <2>4 DEF Consistent
    <3> QED
      BY <1>g, <2>2, <2>3, <2>4, <3>1
  <2>5. ASSUME ~crowded PROVE OnDisk' = records
    <3>1. \A i : i \in OnDisk' <=> i \in records /\ i # 0
      BY <1>b, <2>4, <2>5
    <3>2. \A i : i \in OnDisk' <=> i \in records
      BY <1>a, <3>1
    <3> QED
      BY <3>2
  <2>6. ASSUME ~crowded PROVE FilesAreOwn' /\ Consistent(c)' /\ OnDisk' \cap revoked' = {}
    <3>1. FilesAreOwn'
      BY <1>g, <2>2, <2>3, <2>4, <2>6
    <3>2. Consistent(c)'
      BY <1>g, <2>1, <2>2, <2>3, <2>4, <2>6 DEF Consistent, Becomes, ElevationAt, Changes
    <3> QED
      BY <1>g, <2>2, <2>3, <2>5, <2>6, <3>1, <3>2
  <2>7. Alone => ~crowded /\ owed' \subseteq records'
    BY <2>2, <2>3 DEF OwedIsKept, Alone
  <2> QED
    BY <1>d, <2>1, <2>2, <2>3, <2>5, <2>6, <2>7 DEF Becomes
<1>9. ASSUME NEW c \in ElevationCaller, EndCall(c) PROVE Goal
  <2> DEFINE call == elevating[c]
  <2>1. /\ elevating'[c].at = "idle" /\ \A d \in ElevationCaller : d # c => elevating'[d] = elevating[d]
    BY <1>9, CallsEnd DEF EndCall
  <2>2. /\ UNCHANGED <<records, files, granted, changed, crowded>> /\ ElevationAt(c, "write")
        /\ owed' = owed \cup call.made /\ revoked' = revoked \cup call.gone
        /\ \A s \in call.ids : Kept(s) = {}
    BY <1>9 DEF EndCall
  <2>3. Changes(c) /\ ~ElevationAt(c, "idle")
    BY <2>2 DEF Changes, ElevationAt
  <2>4. ASSUME ~crowded PROVE OnDisk = records
    <3>1. call.ids = {}
      BY <1>c, <1>g, <2>2, <2>3, <2>4 DEF Consistent
    <3>2. files[call.session] = records /\ \A s \in Session \ {call.session} : files[s] = {}
      BY <1>c, <2>2, <2>4, <3>1 DEF Consistent
    <3> QED
      BY <1>a, <1>b, <1>g, <2>3, <2>4, <3>2
  <2>5. OnDisk' = OnDisk /\ (~crowded => FilesAreOwn')
    BY <1>c, <2>2 DEF OnDisk
  <2>6. Consistent(c)' /\ ~Changes(c)'
    BY <2>1 DEF Consistent, ElevationAt, Changes
  <2>7. Alone => ~crowded /\ owed \subseteq records
    BY <2>3 DEF OwedIsKept, Alone
  <2> QED
    BY <1>d, <1>g, <2>1, <2>2, <2>3, <2>4, <2>5, <2>6, <2>7
<1>10. CASE ApplicationEnds
  <2>1. /\ UNCHANGED <<files, granted, revoked, changed, crowded>>
        /\ owed' = {i \in owed : files[granted[i]] # Torn}
        /\ \A c \in ElevationCaller : elevating'[c].at = "idle"
    BY <1>10 DEF ApplicationEnds, NoCall
  <2>2. OnDisk' = OnDisk
    BY <2>1 DEF OnDisk
  <2>3. \A c \in ElevationCaller : Consistent(c)' /\ ~Changes(c)' /\ ElevationAt(c, "idle")'
    BY <2>1 DEF Consistent, Changes, ElevationAt
  <2>4. CallsAreConsistent' /\ RevokedStaysRevoked'
    BY <2>1, <2>2, <2>3 DEF CallsAreConsistent, RevokedStaysRevoked
  <2>5. ASSUME Alone PROVE owed' \subseteq OnDisk
    <3>1. CASE \A c \in ElevationCaller : ~ElevationAt(c, "writing")
      BY <2>1, <2>5, <3>1 DEF OwedIsKept
    <3>2. ASSUME NEW c \in ElevationCaller, ElevationAt(c, "writing") PROVE owed' = {}
      <4>1. Changes(c) /\ ~crowded
        BY <2>5, <3>2 DEF Changes, ElevationAt, Alone
      <4>2. files[elevating[c].session] = Torn
        BY <1>c, <3>2, <4>1 DEF Consistent
      <4>3. owed \subseteq records
        BY <2>5, <4>1 DEF OwedIsKept
      <4> QED
        BY <1>g, <2>1, <4>1, <4>2, <4>3
    <3> QED
      BY <3>1, <3>2
  <2>6. OwedIsKept'
    BY <2>1, <2>2, <2>3, <2>5 DEF OwedIsKept, Alone
  <2> QED
    BY <2>4, <2>6
<1>11. CASE UNCHANGED elevationVars
  BY <1>11 DEF elevationVars, CallsAreConsistent, Consistent, Changes, RevokedStaysRevoked, OwedIsKept,
               Alone, OnDisk, ElevationAt
<1> QED
  BY <1>1, <1>2, <1>3, <1>4, <1>5, <1>6, <1>7, <1>8, <1>9, <1>10, <1>11 DEF ElevationsNext

\* One session that changes is every session that does.
LEMMA OneOnly ==
    ASSUME NEW S, IsFiniteSet(S), Cardinality(S) <= 1, NEW s \in S, NEW t \in S PROVE s = t
<1>1. Cardinality(S) \in Nat /\ Cardinality(S \ {s}) = Cardinality(S) - 1
  BY FS_RemoveElement, FS_CardinalityType
<1>2. IsFiniteSet(S \ {s}) /\ Cardinality(S \ {s}) \in Nat
  BY FS_RemoveElement, FS_CardinalityType
<1>3. Cardinality(S \ {s}) = 0
  BY <1>1, <1>2
<1>4. S \ {s} = {}
  BY <1>2, <1>3, FS_EmptySet
<1> QED
  BY <1>4

LEMMA ElevationsAreSound == ElevationsSpec => []ElevationInv
<1>1. ElevationsInit => ElevationIInv
  <2> SUFFICES ASSUME ElevationsInit PROVE ElevationIInv
    OBVIOUS
  <2>1. NoCall \in ElevationCall /\ NoCall.at = "idle" /\ NoCall.read = {} /\ NoCall.made = {} /\ NoCall.gone = {}
    BY DEF NoCall, ElevationCall, Place
  <2>2. elevating \in [ElevationCaller -> ElevationCall] /\ \A c \in ElevationCaller : elevating[c] = NoCall
    BY <2>1 DEF ElevationsInit
  <2>3. Created = {} /\ Created = 1..0
    BY DEF ElevationsInit, Created
  <2>4. crowded \in BOOLEAN /\ files \in [Session -> SUBSET Nat] /\ \A s \in Session : files[s] = {}
    BY DEF ElevationsInit, NoFile
  <2>5. changed = {} /\ IsFiniteSet(changed) /\ records = {} /\ owed = {} /\ revoked = {}
    BY FS_EmptySet DEF ElevationsInit
  <2>6. ElevationsTypeOK
    BY <2>2, <2>3, <2>4, <2>5 DEF ElevationsTypeOK
  <2>7. RecordsAreCreated
    BY <2>1, <2>2, <2>3, <2>4 DEF RecordsAreCreated, Readable, ElevationAt, Changes
  <2>8. CallsAreConsistent
    BY <2>1, <2>2, <2>4 DEF CallsAreConsistent, Consistent, Readable, ElevationAt, Changes
  <2>9. RevokedStaysRevoked /\ OwedIsKept
    BY <2>5 DEF RevokedStaysRevoked, OwedIsKept
  <2> QED
    BY <2>6, <2>7, <2>8, <2>9 DEF ElevationIInv
<1>2. ElevationIInv /\ [ElevationsNext]_elevationVars => ElevationIInv'
  BY ElevationsTyping, ElevationsStep DEF ElevationIInv
<1>3. ElevationIInv => ElevationInv
  <2> SUFFICES ASSUME ElevationIInv, Undisturbed PROVE owed \subseteq OnDisk
    BY DEF ElevationIInv, ElevationInv, ElevationsAreKept
  <2>1. Alone
    BY OneOnly DEF Undisturbed, OneSession, ElevationIInv, ElevationsTypeOK, Alone
  <2>2. \A c \in ElevationCaller : ~ElevationAt(c, "writing")
    BY DEF Undisturbed, Writing
  <2> QED
    BY <2>1, <2>2 DEF ElevationIInv, OwedIsKept
<1> QED
  BY <1>1, <1>2, <1>3, PTL DEF ElevationsSpec

\* No command, however it overlaps with others or dies, saves a version with side effects that
\* the user never accepted; no consent is spent twice while the commands read the records one
\* at a time (until `mixed` is set, tool-package-version-state-store.ts); and while one session
\* uses the elevations and its calls do not overlap (until `crowded` is set,
\* session-permission-elevation.ts:93), it finds those it was granted and none that were revoked.
THEOREM OnlyPermittedToolsRun == PermittedToolsSpec => []PermittedToolsInv
<1>1. ToolPackagesSpec => []ToolPackagesInv
  BY PackagesAreSound
<1>2. ElevationsSpec => []ElevationInv
  BY ElevationsAreSound
<1> QED
  BY <1>1, <1>2, PTL DEF PermittedToolsSpec, PermittedToolsInv

-----------------------------------------------------------------------------
(* Copies between projects (CrossProjectImport).                           *)

Receipts == [granted : BOOLEAN, receipt : [Declared -> {"none", "pending", "real"}]]
Loading == {"grant-loads", "import-loads"}
ImportStage == {"idle", "grant", "import", "reading", "reading-loads", "reading-again"} \cup Loading \cup Working

CrossTypeOK ==
    /\ changes \in 0..MaxChanges /\ source \in 2..(changes + 2)
    /\ memory \in Receipts /\ disk \in Receipts /\ writing \subseteq Receipts
    /\ loaded \in {"no", "loading", "yes"}
    /\ importing \in [Importer -> [at : ImportStage, content : Declared]]

\* A receipt is real wherever it may come from, and a copy is settled when it was made.
CopiesWereMade ==
    /\ \A k \in Declared : "real" \in {memory.receipt[k], disk.receipt[k]} => k \in copied
    /\ \A d \in writing : \A k \in Declared : d.receipt[k] = "real" => k \in copied
    /\ \A c \in Importer : ImportAt(c, "written") => importing[c].content \in copied

\* Who works on a copy has claimed it, and what the file says does not take the claim away.
WorkersHaveClaims ==
    \A c \in Importer : importing[c].at \in Working => memory.receipt[importing[c].content] # "none"

\* The file is read once, by the call that found the store unread.
FileIsReadOnce ==
    /\ \A c, d \in Importer : importing[c].at \in Loading /\ importing[d].at \in Loading => c = d
    /\ \A c \in Importer : importing[c].at \in Loading => loaded = "loading"
    /\ loaded # "yes" => inherited = {}

CrossIInv ==
    CrossTypeOK /\ CopiesWereMade /\ WorkersHaveClaims /\ FileIsReadOnce /\ OneImportPerContent /\ PlaceholderHasImport

LEMMA ReceiptIsSet ==
    ASSUME CrossTypeOK, NEW k \in Declared, NEW r \in {"none", "pending", "real"},
           memory' = [memory EXCEPT !.receipt[k] = r]
    PROVE  /\ memory' \in Receipts /\ memory'.receipt[k] = r
           /\ \A l \in Declared : l # k => memory'.receipt[l] = memory.receipt[l]
BY DEF CrossTypeOK, Receipts

LEMMA SourceIsContent == CrossTypeOK => source \in Declared
<1> SUFFICES ASSUME CrossTypeOK PROVE source \in Declared
  OBVIOUS
<1>1. changes \in Nat /\ changes <= MaxChanges /\ MaxChanges \in Nat /\ source \in Nat /\ 2 <= source /\ source <= changes + 2
  BY CrossAssumption DEF CrossTypeOK
<1> QED
  BY <1>1 DEF ResourceContent, Declared

LEMMA ImportsMove ==
    ASSUME CrossTypeOK, NEW c \in Importer
    PROVE  /\ ImportEnds(c) =>
                 /\ importing' \in [Importer -> [at : ImportStage, content : Declared]]
                 /\ importing'[c].at = "idle"
                 /\ \A d \in Importer : d # c => importing'[d] = importing[d]
           /\ \A place \in ImportStage : ImportGoes(c, place) =>
                 /\ importing' \in [Importer -> [at : ImportStage, content : Declared]]
                 /\ importing'[c].at = place /\ importing'[c].content = importing[c].content
                 /\ \A d \in Importer : d # c => importing'[d] = importing[d]
<1>1. NoImport \in [at : ImportStage, content : Declared] /\ NoImport.at = "idle"
  BY DEF NoImport, ImportStage, Declared
<1>2. ASSUME ImportEnds(c)
      PROVE  /\ importing' \in [Importer -> [at : ImportStage, content : Declared]]
             /\ importing'[c].at = "idle"
             /\ \A d \in Importer : d # c => importing'[d] = importing[d]
  BY <1>1, <1>2 DEF ImportEnds, CrossTypeOK
<1>3. ASSUME NEW place \in ImportStage, ImportGoes(c, place)
      PROVE  /\ importing' \in [Importer -> [at : ImportStage, content : Declared]]
             /\ importing'[c].at = place /\ importing'[c].content = importing[c].content
             /\ \A d \in Importer : d # c => importing'[d] = importing[d]
  BY <1>3 DEF ImportGoes, CrossTypeOK
<1> QED
  BY <1>2, <1>3

LEMMA MergedIsTyped ==
    ASSUME CrossTypeOK
    PROVE  /\ Merged \in Receipts
           /\ \A k \in Declared : Merged.receipt[k] = IF disk.receipt[k] = "none" THEN memory.receipt[k]
                                                                                      ELSE disk.receipt[k]
<1>1. /\ memory.granted \in BOOLEAN /\ disk.granted \in BOOLEAN
      /\ memory.receipt \in [Declared -> {"none", "pending", "real"}]
      /\ disk.receipt \in [Declared -> {"none", "pending", "real"}]
  BY DEF CrossTypeOK, Receipts
<1>2. (memory.granted \/ disk.granted) \in BOOLEAN
  OBVIOUS
<1>3. [k \in Declared |-> IF disk.receipt[k] = "none" THEN memory.receipt[k] ELSE disk.receipt[k]]
        \in [Declared -> {"none", "pending", "real"}]
  BY <1>1
<1>4. Merged \in Receipts
  BY <1>2, <1>3 DEF Merged, Receipts
<1> QED
  BY <1>4 DEF Merged

\* An import that ends without a copy takes its placeholder with it.
LEMMA GivesUpHolds ==
    ASSUME CrossIInv, NEW c \in Importer, importing[c].at \in Working, GivesUp(c), UNCHANGED <<changes, source, copied>>
    PROVE  CrossIInv'
<1> DEFINE k == importing[c].content
<1>1. CrossTypeOK /\ k \in Declared /\ ~ImportAt(c, "idle") /\ importing[c].at \notin Loading
  BY DEF CrossIInv, CrossTypeOK, ImportAt, Working, Loading
<1>2. /\ importing' \in [Importer -> [at : ImportStage, content : Declared]]
      /\ importing'[c].at = "idle"
      /\ \A d \in Importer : d # c => importing'[d] = importing[d]
  BY <1>1, ImportsMove DEF GivesUp
<1>3. UNCHANGED <<disk, loaded, inherited, stranded, writing>>
  BY DEF GivesUp, Released, EnqueuePersist, storage
<1>4. /\ memory' \in Receipts
      /\ \A l \in Declared : l # k => memory'.receipt[l] = memory.receipt[l]
      /\ memory'.receipt[k] = IF memory.receipt[k] = "pending" THEN "none" ELSE memory.receipt[k]
  <2>1. CASE memory.receipt[k] = "pending"
    <3>1. memory' = [memory EXCEPT !.receipt[k] = "none"]
      BY <2>1 DEF GivesUp, Released, Receipt, SetReceipt
    <3> HIDE DEF k
    <3> QED
      BY <1>1, <2>1, <3>1, ReceiptIsSet
  <2>2. CASE memory.receipt[k] # "pending"
    <3>1. memory' = memory
      BY <2>2 DEF GivesUp, Released, Receipt, storage
    <3> QED
      BY <1>1, <2>2, <3>1 DEF CrossTypeOK
  <2> QED
    BY <2>1, <2>2
<1>5. \A d \in Importer : importing'[d].at \in Working \cup Loading => d # c /\ importing'[d] = importing[d]
  BY <1>2 DEF Working, Loading
<1>6. CrossTypeOK'
  BY <1>1, <1>2, <1>3, <1>4 DEF CrossTypeOK, ImportAt
<1>7. CopiesWereMade'
  BY <1>2, <1>3, <1>4 DEF CrossIInv, CopiesWereMade, ImportAt
<1>8. OneImportPerContent'
  BY <1>5 DEF CrossIInv, OneImportPerContent
<1>9. \A d \in Importer : importing'[d].at \in Working => importing'[d].content # k
  BY <1>5 DEF CrossIInv, OneImportPerContent
<1>10. WorkersHaveClaims'
  <2> SUFFICES ASSUME NEW d \in Importer, importing'[d].at \in Working
               PROVE  memory'.receipt[importing'[d].content] # "none"
    BY DEF WorkersHaveClaims
  <2>1. importing'[d] = importing[d] /\ importing[d].content # k /\ importing[d].content \in Declared
    BY <1>1, <1>5, <1>9 DEF CrossTypeOK, ImportAt, Working
  <2> QED
    BY <1>4, <2>1 DEF CrossIInv, WorkersHaveClaims
<1>11. FileIsReadOnce'
  BY <1>3, <1>5 DEF CrossIInv, FileIsReadOnce
<1>12. PlaceholderHasImport'
  <2> SUFFICES ASSUME NEW l \in Declared, memory'.receipt[l] = "pending"
               PROVE  \/ \E d \in Importer : importing'[d].at \in Working /\ importing'[d].content = l
                      \/ l \in (inherited \cup stranded)'
    BY DEF PlaceholderHasImport
  <2>1. l # k /\ memory.receipt[l] = "pending"
    BY <1>4
  <2> QED
    BY <1>2, <1>3, <2>1 DEF CrossIInv, PlaceholderHasImport
<1> QED
  BY <1>6, <1>7, <1>8, <1>10, <1>11, <1>12 DEF CrossIInv

\* A step that leaves the receipts and keeps who works on which copy.
LEMMA ImportsGoOn ==
    ASSUME CrossIInv, CrossTypeOK', NEW c \in Importer, UNCHANGED <<memory, inherited, stranded>>,
           loaded' = loaded \/ (loaded = "no" /\ loaded' = "loading"), copied \subseteq copied',
           \A d \in Importer : d # c => importing'[d] = importing[d],
           importing[c].at \in Working <=> importing'[c].at \in Working,
           importing[c].at \in Working => importing'[c].content = importing[c].content,
           importing'[c].at \in Loading => loaded = "no" /\ loaded' = "loading",
           importing'[c].at = "written" => importing'[c].content \in copied',
           \A d \in writing' : d \in writing \cup {memory}, disk' \in writing \cup {disk}
    PROVE  CrossIInv'
<1>1. CopiesWereMade'
  BY DEF CrossIInv, CopiesWereMade, ImportAt
<1>2. OneImportPerContent'
  BY DEF CrossIInv, OneImportPerContent
<1>3. WorkersHaveClaims'
  BY DEF CrossIInv, WorkersHaveClaims
<1>4. FileIsReadOnce'
  <2>1. CASE importing'[c].at \in Loading
    <3>1. \A d \in Importer : importing[d].at \notin Loading
      BY <2>1 DEF CrossIInv, FileIsReadOnce
    <3>2. \A d \in Importer : importing'[d].at \in Loading => d = c
      BY <3>1
    <3> QED
      BY <2>1, <3>2 DEF CrossIInv, FileIsReadOnce
  <2>2. CASE importing'[c].at \notin Loading
    BY <2>2 DEF CrossIInv, FileIsReadOnce
  <2> QED
    BY <2>1, <2>2
<1>5. PlaceholderHasImport'
  BY DEF CrossIInv, PlaceholderHasImport
<1> QED
  BY <1>1, <1>2, <1>3, <1>4, <1>5 DEF CrossIInv

LEMMA CrossStep == CrossIInv /\ [CrossNext]_crossVars => CrossIInv'
<1> SUFFICES ASSUME CrossIInv, [CrossNext]_crossVars PROVE CrossIInv'
  OBVIOUS
<1> DEFINE Call == [at : ImportStage, content : Declared]
<1>a. /\ CrossTypeOK /\ source \in Declared
      /\ memory \in Receipts /\ disk \in Receipts /\ writing \subseteq Receipts
      /\ loaded \in {"no", "loading", "yes"} /\ importing \in [Importer -> Call]
      /\ changes \in 0..MaxChanges /\ source \in 2..(changes + 2)
  BY SourceIsContent DEF CrossIInv, CrossTypeOK
<1>b. ASSUME NEW c \in Importer, ~ImportAt(c, "idle"), NEW place \in ImportStage, ImportGoes(c, place),
             importing[c].at \in Working <=> place \in Working, place \in Loading => loaded = "no" /\ loaded' = "loading",
             loaded' = loaded \/ (loaded = "no" /\ loaded' = "loading"), copied \subseteq copied',
             place = "written" => importing[c].content \in copied',
             UNCHANGED <<memory, disk, inherited, stranded, writing, changes, source>>
      PROVE  CrossIInv'
  <2>1. /\ importing' \in [Importer -> Call]
        /\ importing'[c].at = place /\ importing'[c].content = importing[c].content
        /\ \A d \in Importer : d # c => importing'[d] = importing[d]
    BY <1>a, <1>b, ImportsMove
  <2>2. CrossTypeOK'
    BY <1>a, <1>b, <2>1 DEF CrossTypeOK, ImportAt
  <2> QED
    BY <1>b, <2>1, <2>2, ImportsGoOn
<1>c. ASSUME NEW c \in Importer, importing[c].at \notin Working, ImportEnds(c),
             UNCHANGED <<memory, disk, inherited, stranded, writing, loaded, changes, source, copied>>
      PROVE  CrossIInv'
  <2>1. /\ importing' \in [Importer -> Call] /\ importing'[c].at = "idle"
        /\ \A d \in Importer : d # c => importing'[d] = importing[d]
    BY <1>a, <1>c, ImportsMove
  <2>2. CrossTypeOK'
    BY <1>a, <1>c, <2>1 DEF CrossTypeOK, ImportAt
  <2>3. importing'[c].at \notin Working /\ importing'[c].at \notin Loading /\ importing'[c].at # "written"
    BY <2>1 DEF Working, Loading
  <2> QED
    BY <1>c, <2>1, <2>2, <2>3, ImportsGoOn
<1>d. ASSUME NEW c \in Importer, NEW place \in ImportStage \ (Working \cup Loading), NEW declared, importing[c].at \notin Working,
             importing' = [importing EXCEPT ![c] = [at |-> place, content |-> declared]],
             declared \in Declared,
             UNCHANGED <<memory, disk, inherited, stranded, writing, loaded, changes, source, copied>>
      PROVE  CrossIInv'
  <2>1. /\ importing' \in [Importer -> Call] /\ importing'[c].at = place /\ importing'[c].content = declared
        /\ \A d \in Importer : d # c => importing'[d] = importing[d]
    BY <1>a, <1>d
  <2>2. CrossTypeOK'
    BY <1>a, <1>d, <2>1 DEF CrossTypeOK, ImportAt
  <2>3. importing'[c].at # "written"
    BY <2>1 DEF Working
  <2> QED
    BY <1>d, <2>1, <2>2, <2>3, ImportsGoOn
<1>1. CASE Change \/ PersistBegins \/ PersistEnds
  <2>1. UNCHANGED <<memory, loaded, inherited, stranded, importing, copied>>
    BY <1>1 DEF Change, PersistBegins, PersistEnds, storage, places, bounds
  <2>2. changes' \in 0..MaxChanges /\ source' \in 2..(changes' + 2)
    <3>1. changes \in Nat /\ changes <= MaxChanges /\ MaxChanges \in Nat /\ source \in Nat /\ 2 <= source /\ source <= changes + 2
      BY <1>a, CrossAssumption
    <3>2. CASE Change
      BY <3>1, <3>2 DEF Change
    <3>3. CASE PersistBegins \/ PersistEnds
      BY <1>a, <3>3 DEF PersistBegins, PersistEnds, places, bounds
    <3> QED
      BY <1>1, <3>2, <3>3
  <2>3. /\ \A d \in writing' : d \in writing \cup {memory}
        /\ disk' \in writing \cup {disk}
    BY <1>1 DEF Change, PersistBegins, PersistEnds, storage
  <2>4. CrossTypeOK'
    BY <1>a, <2>1, <2>2, <2>3 DEF CrossTypeOK, ImportAt
  <2>5. CopiesWereMade'
    BY <2>1, <2>3 DEF CrossIInv, CopiesWereMade, ImportAt
  <2> QED
    BY <2>1, <2>4, <2>5 DEF CrossIInv, WorkersHaveClaims, FileIsReadOnce, OneImportPerContent, PlaceholderHasImport
<1>2. ASSUME NEW c \in Importer, Begin(c) \/ ReadOnce(c) PROVE CrossIInv'
  <2>1. PICK place \in {"grant", "import", "reading", "reading-again"}, declared \in {source, Absent} :
           /\ importing' = [importing EXCEPT ![c] = [at |-> place, content |-> declared]]
           /\ UNCHANGED <<memory, disk, inherited, stranded, writing, loaded, changes, source, copied>>
           /\ importing[c].at \in {"idle", "reading"}
    BY <1>2 DEF Begin, ReadOnce, ImportAt, storage, places, bounds
  <2>2. place \in ImportStage \ (Working \cup Loading) /\ importing[c].at \notin Working
    BY <2>1 DEF ImportStage, Working, Loading
  <2>3. declared \in Declared
    BY <1>a DEF Declared
  <2> QED
    BY <1>d, <2>1, <2>2, <2>3
<1>3. ASSUME NEW c \in Importer, ImportRefused(c) \/ ReuseReceipt(c) \/ ReadRefused(c) \/ ReadAgain(c) PROVE CrossIInv'
  <2>1. /\ UNCHANGED <<memory, disk, inherited, stranded, writing, loaded, changes, source, copied>> /\ ImportEnds(c)
        /\ importing[c].at \in {"import", "reading", "reading-again"}
    BY <1>3 DEF ImportRefused, ReuseReceipt, ReadRefused, ReadAgain, ImportAt, storage, places, bounds
  <2>2. importing[c].at \notin Working
    BY <2>1 DEF Working
  <2> QED
    BY <1>c, <2>1, <2>2
<1>4. ASSUME NEW c \in Importer, Load(c) PROVE CrossIInv'
  <2>1. PICK place \in Loading : ImportGoes(c, place)
    BY <1>4 DEF Load, Loading
  <2>2. /\ UNCHANGED <<memory, disk, inherited, stranded, writing, changes, source, copied>> /\ loaded = "no" /\ loaded' = "loading"
        /\ importing[c].at \in {"grant", "import"}
    BY <1>4 DEF Load, places, bounds
  <2>3. /\ importing[c].at \notin Working /\ ~ImportAt(c, "idle") /\ place \notin Working /\ place # "written"
        /\ place \in ImportStage
    BY <2>1, <2>2 DEF Working, Loading, ImportAt, ImportStage
  <2> QED
    BY <1>b, <2>1, <2>2, <2>3
<1>5. ASSUME NEW c \in Importer, LoadReader(c) \/ ReaderLoads(c) PROVE CrossIInv'
  <2>1. PICK place \in {"reading-loads", "reading"} : ImportGoes(c, place)
    BY <1>5 DEF LoadReader, ReaderLoads
  <2>2. /\ UNCHANGED <<memory, disk, inherited, stranded, writing, changes, source, copied, loaded>>
        /\ importing[c].at \in {"reading-loads", "reading"}
    BY <1>5 DEF LoadReader, ReaderLoads, ImportAt, places, bounds, storage
  <2>3. /\ importing[c].at \notin Working /\ ~ImportAt(c, "idle") /\ place \notin Working /\ place # "written"
        /\ place \in ImportStage /\ place \notin Loading
    BY <2>1, <2>2 DEF Working, Loading, ImportAt, ImportStage
  <2> QED
    BY <1>b, <2>1, <2>2, <2>3
<1>6. ASSUME NEW c \in Importer, ReadSource(c) PROVE CrossIInv'
  <2>1. UNCHANGED <<changes, source, copied>> /\ importing[c].at = "claimed"
    BY <1>6 DEF ReadSource, ImportAt, places, bounds
  <2>2. importing[c].at \in Working /\ ~ImportAt(c, "idle") /\ "read" \in Working /\ "read" \in ImportStage /\ "read" \notin Loading
    BY <2>1 DEF Working, ImportAt, ImportStage, Loading
  <2>3. CASE ImportGoes(c, "read") /\ UNCHANGED storage
    <3>1. UNCHANGED <<memory, disk, inherited, stranded, writing, loaded>>
      BY <2>3 DEF storage
    <3>2. PICK place \in ImportStage : place = "read"
      BY <2>2
    <3>3. ImportGoes(c, place) /\ place \in Working /\ place \notin Loading /\ place # "written"
      BY <2>2, <2>3, <3>2
    <3> QED
      BY <1>b, <2>1, <2>2, <3>1, <3>3
  <2>4. CASE GivesUp(c)
    BY <2>1, <2>2, <2>4, GivesUpHolds
  <2> QED
    BY <1>6, <2>3, <2>4 DEF ReadSource
<1>7. ASSUME NEW c \in Importer, GuardTarget(c) PROVE CrossIInv'
  <2>1. UNCHANGED <<changes, source, copied>> /\ importing[c].at = "read"
    BY <1>7 DEF GuardTarget, ImportAt, places, bounds
  <2>2. importing[c].at \in Working /\ ~ImportAt(c, "idle") /\ "guarded" \in Working /\ "guarded" \in ImportStage
        /\ "guarded" \notin Loading
    BY <2>1 DEF Working, ImportAt, ImportStage, Loading
  <2>3. CASE ImportGoes(c, "guarded") /\ UNCHANGED storage
    <3>1. UNCHANGED <<memory, disk, inherited, stranded, writing, loaded>>
      BY <2>3 DEF storage
    <3>2. PICK place \in ImportStage : place = "guarded"
      BY <2>2
    <3>3. ImportGoes(c, place) /\ place \in Working /\ place \notin Loading /\ place # "written"
      BY <2>2, <2>3, <3>2
    <3> QED
      BY <1>b, <2>1, <2>2, <3>1, <3>3
  <2>4. CASE GivesUp(c)
    BY <2>1, <2>2, <2>4, GivesUpHolds
  <2> QED
    BY <1>7, <2>3, <2>4 DEF GuardTarget, StaleTarget
<1>8. ASSUME NEW c \in Importer, WriteTarget(c) PROVE CrossIInv'
  <2>1. /\ UNCHANGED <<changes, source, memory, disk, inherited, stranded, writing, loaded>> /\ importing[c].at = "guarded"
        /\ copied' = copied \cup {importing[c].content}
    BY <1>8 DEF WriteTarget, ImportAt, storage, bounds
  <2>2. importing[c].at \in Working /\ ~ImportAt(c, "idle") /\ "written" \in Working /\ "written" \in ImportStage
        /\ "written" \notin Loading
    BY <2>1 DEF Working, ImportAt, ImportStage, Loading
  <2>3. PICK place \in ImportStage : place = "written"
    BY <2>2
  <2>4. ImportGoes(c, place) /\ place \in Working /\ place \notin Loading
    BY <1>8, <2>2, <2>3 DEF WriteTarget
  <2> QED
    BY <1>b, <2>1, <2>2, <2>4
<1>9. ASSUME NEW c \in Importer, Fails(c) PROVE CrossIInv'
  BY <1>9, GivesUpHolds DEF Fails, places
<1>16. ASSUME NEW c \in Importer, Throws(c) PROVE CrossIInv'
  <2>1. /\ UNCHANGED <<memory, disk, loaded, inherited, writing, changes, source, copied>> /\ importing[c].at \in Working
        /\ stranded' = stranded \cup {importing[c].content}
    BY <1>16 DEF Throws, ImportAt, Working, places
  <2>2. /\ importing' \in [Importer -> Call] /\ importing'[c].at = "idle"
        /\ \A d \in Importer : d # c => importing'[d] = importing[d]
    BY <1>16, <1>a, ImportsMove DEF Throws
  <2>3. \A d \in Importer : importing'[d].at \in Working \cup Loading => d # c /\ importing'[d] = importing[d]
    BY <2>2 DEF Working, Loading
  <2>4. CrossTypeOK'
    BY <1>a, <2>1, <2>2 DEF CrossTypeOK, ImportAt
  <2>5. CopiesWereMade' /\ WorkersHaveClaims' /\ OneImportPerContent'
    BY <2>1, <2>2, <2>3 DEF CrossIInv, CopiesWereMade, WorkersHaveClaims, OneImportPerContent, ImportAt
  <2>6. FileIsReadOnce'
    BY <2>1, <2>3 DEF CrossIInv, FileIsReadOnce
  <2>7. PlaceholderHasImport'
    BY <2>1, <2>2 DEF CrossIInv, PlaceholderHasImport
  <2> QED
    BY <2>4, <2>5, <2>6, <2>7 DEF CrossIInv
<1>10. ASSUME NEW c \in Importer, Grant(c) PROVE CrossIInv'
  <2>1. /\ UNCHANGED <<disk, inherited, stranded, writing, loaded, changes, source, copied>> /\ importing[c].at = "grant"
        /\ memory' = [memory EXCEPT !.granted = TRUE]
    BY <1>10 DEF Grant, EnqueuePersist, ImportAt, places, bounds
  <2>2. /\ importing' \in [Importer -> Call] /\ importing'[c].at = "idle"
        /\ \A d \in Importer : d # c => importing'[d] = importing[d]
    BY <1>10, <1>a, ImportsMove DEF Grant
  <2>3. memory' \in Receipts /\ memory'.receipt = memory.receipt
    BY <1>a, <2>1 DEF Receipts
  <2>4. \A d \in Importer : importing'[d].at \in Working \cup Loading => d # c /\ importing'[d] = importing[d]
    BY <2>2 DEF Working, Loading
  <2>5. CrossTypeOK'
    BY <1>a, <2>1, <2>2, <2>3 DEF CrossTypeOK, ImportAt
  <2>6. CopiesWereMade' /\ WorkersHaveClaims' /\ OneImportPerContent'
    BY <2>1, <2>2, <2>3, <2>4 DEF CrossIInv, CopiesWereMade, WorkersHaveClaims, OneImportPerContent, ImportAt
  <2>7. FileIsReadOnce'
    BY <2>1, <2>4 DEF CrossIInv, FileIsReadOnce
  <2>8. importing[c].at \notin Working
    BY <2>1 DEF Working
  <2>9. PlaceholderHasImport'
    BY <2>1, <2>2, <2>3, <2>8 DEF CrossIInv, PlaceholderHasImport
  <2> QED
    BY <2>5, <2>6, <2>7, <2>9 DEF CrossIInv
<1>11. ASSUME NEW c \in Importer, LoadEnds(c) PROVE CrossIInv'
  <2>1. /\ UNCHANGED <<disk, stranded, writing, changes, source, copied>> /\ importing[c].at \in Loading
        /\ memory' = Merged /\ loaded' = "yes" /\ inherited' = {k \in Declared : disk.receipt[k] = "pending"}
    BY <1>11 DEF LoadEnds, Loading, ImportAt, places, bounds
  <2>2. PICK place \in {"grant", "import"} : ImportGoes(c, place)
    BY <1>11 DEF LoadEnds
  <2>3. place \in ImportStage /\ place \notin Working \cup Loading /\ importing[c].at \notin Working
        /\ ~ImportAt(c, "idle")
    BY <2>1, <2>2 DEF ImportStage, Working, Loading, ImportAt
  <2>4. /\ importing' \in [Importer -> Call]
        /\ importing'[c].at = place /\ importing'[c].content = importing[c].content
        /\ \A d \in Importer : d # c => importing'[d] = importing[d]
    BY <1>a, <2>2, <2>3, ImportsMove
  <2>5. /\ memory' \in Receipts
        /\ \A k \in Declared : memory'.receipt[k] = IF disk.receipt[k] = "none" THEN memory.receipt[k]
                                                                                     ELSE disk.receipt[k]
    BY <1>a, <2>1, MergedIsTyped
  <2>6. CrossTypeOK'
    BY <1>a, <2>1, <2>3, <2>4, <2>5 DEF CrossTypeOK, ImportAt
  <2>7. \A d \in Importer : importing'[d].at \in Working \cup Loading => d # c /\ importing'[d] = importing[d]
    BY <2>3, <2>4
  <2>8. CopiesWereMade'
    <3>1. \A k \in Declared : memory'.receipt[k] = "real" => k \in copied
      BY <2>5 DEF CrossIInv, CopiesWereMade
    <3>2. \A d \in Importer : importing'[d].at = "written" => importing'[d] = importing[d]
      BY <2>7 DEF Working
    <3> QED
      BY <2>1, <3>1, <3>2 DEF CrossIInv, CopiesWereMade, ImportAt
  <2>9. OneImportPerContent'
    BY <2>7 DEF CrossIInv, OneImportPerContent
  <2>10. WorkersHaveClaims'
    <3> SUFFICES ASSUME NEW d \in Importer, importing'[d].at \in Working
                 PROVE  memory'.receipt[importing'[d].content] # "none"
      BY DEF WorkersHaveClaims
    <3>1. importing'[d] = importing[d] /\ importing[d].content \in Declared
          /\ memory.receipt[importing[d].content] # "none"
      BY <1>a, <2>7 DEF CrossIInv, CrossTypeOK, WorkersHaveClaims, ImportAt, Working
    <3> QED
      BY <2>5, <3>1
  <2>11. FileIsReadOnce'
    BY <2>1, <2>7 DEF CrossIInv, FileIsReadOnce
  <2>12. PlaceholderHasImport'
    <3>1. loaded # "yes" /\ inherited = {}
      BY <2>1 DEF CrossIInv, FileIsReadOnce
    <3> SUFFICES ASSUME NEW k \in Declared, memory'.receipt[k] = "pending"
                 PROVE  \/ \E d \in Importer : importing'[d].at \in Working /\ importing'[d].content = k
                        \/ k \in (inherited \cup stranded)'
      BY DEF PlaceholderHasImport
    <3>2. CASE disk.receipt[k] = "pending"
      BY <2>1, <3>2
    <3>3. CASE disk.receipt[k] # "pending"
      <4>1. memory.receipt[k] = "pending"
        BY <2>5, <3>3
      <4>2. CASE k \in stranded
        BY <2>1, <4>2
      <4>3. CASE k \notin stranded
        <5>1. PICK d \in Importer : importing[d].at \in Working /\ importing[d].content = k
          BY <3>1, <4>1, <4>3 DEF CrossIInv, PlaceholderHasImport
        <5> QED
          BY <2>3, <2>4, <5>1
      <4> QED
        BY <4>2, <4>3
    <3> QED
      BY <3>2, <3>3
  <2> QED
    BY <2>6, <2>8, <2>9, <2>10, <2>11, <2>12 DEF CrossIInv
<1>12. ASSUME NEW c \in Importer, Claim(c) PROVE CrossIInv'
  <2> DEFINE k == importing[c].content
  <2>1. /\ UNCHANGED <<disk, inherited, stranded, writing, loaded, changes, source, copied>> /\ importing[c].at = "import"
        /\ memory.receipt[k] = "none" /\ memory' = [memory EXCEPT !.receipt[k] = "pending"]
        /\ ImportGoes(c, "claimed")
    BY <1>12 DEF Claim, Receipt, SetReceipt, ImportAt, places, bounds
  <2>2. k \in Declared /\ "claimed" \in ImportStage
    BY <1>a, <2>1 DEF CrossTypeOK, ImportAt, ImportStage, Working
  <2>3. /\ importing' \in [Importer -> Call]
        /\ importing'[c].at = "claimed" /\ importing'[c].content = k
        /\ \A d \in Importer : d # c => importing'[d] = importing[d]
    BY <1>a, <2>1, <2>2, ImportsMove
  <2>4. /\ memory' \in Receipts /\ memory'.receipt[k] = "pending"
        /\ \A l \in Declared : l # k => memory'.receipt[l] = memory.receipt[l]
    <3> HIDE DEF k
    <3> QED
      BY <1>a, <2>1, <2>2, ReceiptIsSet
  <2>5. CrossTypeOK'
    BY <1>a, <2>1, <2>2, <2>3, <2>4 DEF CrossTypeOK, ImportAt
  <2>6. CopiesWereMade'
    BY <2>1, <2>3, <2>4 DEF CrossIInv, CopiesWereMade, ImportAt
  <2>7. \A d \in Importer : importing[d].at \in Working => importing[d].content # k /\ d # c
    BY <2>1 DEF CrossIInv, WorkersHaveClaims, Working
  <2>8. OneImportPerContent'
    BY <2>3, <2>7 DEF CrossIInv, OneImportPerContent
  <2>9. WorkersHaveClaims'
    <3> SUFFICES ASSUME NEW d \in Importer, importing'[d].at \in Working
                 PROVE  memory'.receipt[importing'[d].content] # "none"
      BY DEF WorkersHaveClaims
    <3>1. CASE d = c
      BY <2>3, <2>4, <3>1
    <3>2. CASE d # c
      <4>1. importing'[d] = importing[d] /\ importing[d].content \in Declared
            /\ memory.receipt[importing[d].content] # "none" /\ importing[d].content # k
        BY <1>a, <2>3, <2>7, <3>2 DEF CrossIInv, CrossTypeOK, WorkersHaveClaims, ImportAt, Working
      <4> QED
        BY <2>4, <4>1
    <3> QED
      BY <3>1, <3>2
  <2>10. FileIsReadOnce'
    <3>1. "claimed" \notin Loading
      BY DEF Loading
    <3> QED
      BY <2>1, <2>3, <3>1 DEF CrossIInv, FileIsReadOnce
  <2>11. PlaceholderHasImport'
    <3>1. "claimed" \in Working
      BY DEF Working
    <3>2. \A l \in Declared : l # k /\ memory'.receipt[l] = "pending" => memory.receipt[l] = "pending"
      BY <2>4
    <3> QED
      BY <2>1, <2>3, <2>7, <3>1, <3>2 DEF CrossIInv, PlaceholderHasImport
  <2> QED
    BY <2>5, <2>6, <2>8, <2>9, <2>10, <2>11 DEF CrossIInv
<1>13. ASSUME NEW c \in Importer, SettleReceipt(c) PROVE CrossIInv'
  <2> DEFINE k == importing[c].content
  <2>1. UNCHANGED <<changes, source, copied>> /\ importing[c].at = "written"
    BY <1>13 DEF SettleReceipt, ImportAt, places, bounds
  <2>2. importing[c].at \in Working /\ k \in Declared /\ k \in copied
    BY <1>a, <2>1 DEF Working, CrossTypeOK, ImportAt, CrossIInv, CopiesWereMade
  <2>3. CASE SetReceipt(c, "real") /\ EnqueuePersist /\ ImportEnds(c)
    <3>1. UNCHANGED <<disk, inherited, stranded, writing, loaded>> /\ memory' = [memory EXCEPT !.receipt[k] = "real"]
      BY <2>3 DEF SetReceipt, EnqueuePersist
    <3>2. /\ importing' \in [Importer -> Call] /\ importing'[c].at = "idle"
          /\ \A d \in Importer : d # c => importing'[d] = importing[d]
      BY <1>a, <2>3, ImportsMove
    <3>3. /\ memory' \in Receipts /\ memory'.receipt[k] = "real"
          /\ \A l \in Declared : l # k => memory'.receipt[l] = memory.receipt[l]
      <4> HIDE DEF k
      <4> QED
        BY <1>a, <2>2, <3>1, ReceiptIsSet
    <3>4. \A d \in Importer : importing'[d].at \in Working \cup Loading => d # c /\ importing'[d] = importing[d]
      BY <3>2 DEF Working, Loading
    <3>5. CrossTypeOK'
      BY <1>a, <2>1, <3>1, <3>2, <3>3 DEF CrossTypeOK, ImportAt
    <3>6. CopiesWereMade'
      BY <2>1, <2>2, <3>1, <3>2, <3>3 DEF CrossIInv, CopiesWereMade, ImportAt
    <3>7. OneImportPerContent' /\ FileIsReadOnce'
      BY <3>1, <3>4 DEF CrossIInv, OneImportPerContent, FileIsReadOnce
    <3>8. WorkersHaveClaims'
      <4> SUFFICES ASSUME NEW d \in Importer, importing'[d].at \in Working
                   PROVE  memory'.receipt[importing'[d].content] # "none"
        BY DEF WorkersHaveClaims
      <4>1. importing'[d] = importing[d] /\ importing[d].content \in Declared
            /\ memory.receipt[importing[d].content] # "none"
        BY <1>a, <3>4 DEF CrossIInv, CrossTypeOK, WorkersHaveClaims, ImportAt, Working
      <4> QED
        BY <3>3, <4>1
    <3>9. PlaceholderHasImport'
      <4> SUFFICES ASSUME NEW l \in Declared, memory'.receipt[l] = "pending"
                   PROVE  \/ \E d \in Importer : importing'[d].at \in Working /\ importing'[d].content = l
                          \/ l \in (inherited \cup stranded)'
        BY DEF PlaceholderHasImport
      <4>1. l # k /\ memory.receipt[l] = "pending"
        BY <3>3
      <4> QED
        BY <3>1, <3>2, <4>1 DEF CrossIInv, PlaceholderHasImport
    <3> QED
      BY <3>5, <3>6, <3>7, <3>8, <3>9 DEF CrossIInv
  <2>4. CASE GivesUp(c)
    BY <2>1, <2>2, <2>4, GivesUpHolds
  <2> QED
    BY <1>13, <2>3, <2>4 DEF SettleReceipt
<1>14. CASE ProcessEnds
  <2>1. /\ UNCHANGED <<disk, changes, source, copied>> /\ loaded' = "no" /\ inherited' = {} /\ stranded' = {} /\ writing' = {}
        /\ memory' = [granted |-> FALSE, receipt |-> NoReceipts] /\ importing' = [c \in Importer |-> NoImport]
    BY <1>14 DEF ProcessEnds, places
  <2>2. memory' \in Receipts /\ \A k \in Declared : memory'.receipt[k] = "none"
    BY <2>1 DEF Receipts, NoReceipts
  <2>3. NoImport \in Call /\ NoImport.at = "idle"
    BY DEF NoImport, ImportStage, Declared
  <2>4. importing' \in [Importer -> Call] /\ \A c \in Importer : importing'[c].at = "idle"
    BY <2>1, <2>3
  <2>5. \A c \in Importer : importing'[c].at \notin Working /\ importing'[c].at \notin Loading /\ importing'[c].at # "written"
    BY <2>4 DEF Working, Loading
  <2>6. CrossTypeOK'
    BY <1>a, <2>1, <2>2, <2>4 DEF CrossTypeOK, ImportAt
  <2>7. CopiesWereMade'
    BY <2>1, <2>2, <2>5 DEF CrossIInv, CopiesWereMade, ImportAt
  <2> QED
    BY <2>1, <2>2, <2>5, <2>6, <2>7 DEF CrossIInv, WorkersHaveClaims, FileIsReadOnce, OneImportPerContent,
                                        PlaceholderHasImport
<1>15. CASE UNCHANGED crossVars
  BY <1>15 DEF crossVars, CrossIInv, CrossTypeOK, CopiesWereMade, WorkersHaveClaims, FileIsReadOnce,
               OneImportPerContent, PlaceholderHasImport, ImportAt
<1> QED
  BY <1>1, <1>2, <1>3, <1>4, <1>5, <1>6, <1>7, <1>8, <1>9, <1>10, <1>11, <1>12, <1>13, <1>14, <1>15, <1>16 DEF CrossNext

\* What is said of receipts and claims holds for any number of imports and grants, failing
\* steps and ends of the process, and whatever calls come while the file is being read: a real
\* receipt has its copy, a content is imported once at a time, and a placeholder that nobody
\* works on was read from the file or left by an error the code does not catch
\* (cross-project-authorization-store.ts:1044, :1112, :1195).
THEOREM ReceiptsAreEarned == CrossSpec => []CrossInv
<1>1. CrossInit => CrossIInv
  <2> SUFFICES ASSUME CrossInit PROVE CrossIInv
    OBVIOUS
  <2>1. memory \in Receipts /\ disk \in Receipts
        /\ \A k \in Declared : memory.receipt[k] = "none" /\ disk.receipt[k] = "none"
    BY DEF CrossInit, Receipts, NoReceipts
  <2>2. NoImport \in [at : ImportStage, content : Declared] /\ NoImport.at = "idle"
    BY DEF NoImport, ImportStage, Declared
  <2>3. /\ importing \in [Importer -> [at : ImportStage, content : Declared]]
        /\ \A c \in Importer : importing[c].at = "idle"
    BY <2>2 DEF CrossInit
  <2>4. \A c \in Importer : importing[c].at \notin Working /\ importing[c].at \notin Loading /\ importing[c].at # "written"
    BY <2>3 DEF Working, Loading
  <2>5. changes \in 0..MaxChanges /\ source \in 2..(changes + 2)
    BY CrossAssumption DEF CrossInit
  <2>6. writing = {} /\ inherited = {} /\ loaded = "no"
    BY DEF CrossInit
  <2>7. CrossTypeOK
    BY <2>1, <2>3, <2>5, <2>6 DEF CrossTypeOK, ImportAt
  <2>8. CopiesWereMade
    BY <2>1, <2>4, <2>6 DEF CopiesWereMade, ImportAt
  <2> QED
    BY <2>1, <2>4, <2>6, <2>7, <2>8 DEF CrossIInv, WorkersHaveClaims, FileIsReadOnce, OneImportPerContent,
                                        PlaceholderHasImport
<1>2. CrossIInv /\ [CrossNext]_crossVars => CrossIInv'
  BY CrossStep
<1>3. CrossIInv => CrossInv
  BY DEF CrossIInv, CopiesWereMade, RealReceiptHasCopy, CrossInv
<1> QED
  BY <1>1, <1>2, <1>3, PTL DEF CrossSpec

-----------------------------------------------------------------------------
(* The vault of copies (BackupVault).                                      *)

Standing == {"none", "active", "quarantined", "purged"}
Listing == [Backup -> Standing]
Manifest == [revision : Nat, status : Listing]

ToolRecord ==
    [op : {"none", "replace", "restore", "delete"},
     at : {"idle", "capturing", "storing", "listed", "saving", "verifying", "writing", "noting",
           "asked", "authorized", "quarantined", "isolating", "removing", "purged", "clearing"},
     guarded : SUBSET Nat, copy : Nat, content : Nat, backup : Nat, document : Manifest]

ToolsDo ==
    \A a \in Agent :
        /\ tool[a].at \in {"capturing", "storing", "listed", "saving"} => tool[a].op \in {"replace", "restore"}
        /\ tool[a].at \in {"asked", "authorized"} => tool[a].backup \in Backup

VaultTypeOK ==
    /\ file \in Nat /\ contents \in Nat /\ baseline \in [Agent -> SUBSET Nat]
    /\ tool \in [Agent -> ToolRecord]
    /\ manifest \in Manifest /\ manifestFile \in Manifest /\ data \in [Backup -> SUBSET Nat]
    /\ unseen \in [Agent -> SUBSET Nat] /\ overwritten \in SUBSET Nat /\ released \in SUBSET Nat
    /\ surprised \in BOOLEAN
    /\ ToolsDo

\* What can be found again, or was given up.
KeptCopies == released \cup UNION {data[b] : b \in Backup}

\* A tool that goes on after its copy was stored has it, whatever the others do with the copies.
CopiesAreKept ==
    \A a \in Agent :
        tool[a].at \in {"listed", "saving", "verifying", "writing"} => tool[a].copy \in KeptCopies

\* A manifest that is in memory, on disk or about to be written: what it calls quarantined was
\* given up, and it lists nothing the manifest in memory does not list.
IsPast(earlier) ==
    \A b \in Backup :
        /\ earlier.status[b] = "quarantined" => data[b] \subseteq released
        /\ manifest.status[b] = "none" => earlier.status[b] = "none"

ManifestsArePast ==
    /\ IsPast(manifest) /\ IsPast(manifestFile)
    /\ \A a \in Agent : tool[a].at \in Saving => IsPast(tool[a].document)

\* A deletion that waits knows the listing of the revision it was shown.
DeletionsKnow ==
    \A a \in Agent : tool[a].at \in {"asked", "authorized"} =>
        /\ tool[a].document.revision <= manifest.revision
        /\ tool[a].document.revision = manifest.revision => tool[a].document = manifest

\* Contents that exist have numbers.
ContentsAreKnown ==
    /\ file <= contents
    /\ \A b \in Backup : \A c \in data[b] : c <= contents
    /\ \A a \in Agent :
          /\ \A c \in baseline[a] \cup unseen[a] \cup tool[a].guarded : c <= contents
          /\ tool[a].copy <= contents /\ tool[a].content <= contents

\* What a person wrote and an agent has not seen is neither what the agent goes by nor what
\* it writes itself.
EditsAreApart ==
    \A a \in Agent :
        /\ baseline[a] = {} => unseen[a] = {}
        /\ baseline[a] \cap unseen[a] = {}
        /\ tool[a].guarded \cap unseen[a] = {}
        /\ tool[a].op = "replace" => tool[a].content \notin unseen[a]
        /\ tool[a].at = "noting" => tool[a].op = "replace"

VaultIInv ==
    /\ VaultTypeOK /\ overwritten \subseteq KeptCopies /\ CopiesAreKept /\ ManifestsArePast
    /\ DeletionsKnow /\ surprised = FALSE /\ ContentsAreKnown /\ EditsAreApart

LEMMA ManifestFields ==
    /\ NoManifest \in Manifest
    /\ \A m \in Manifest : m.revision \in Nat /\ m.status \in Listing
    /\ \A r \in Nat, l \in Listing : [revision |-> r, status |-> l] \in Manifest
    /\ \A l \in Listing, b \in Nat, s \in Standing : [l EXCEPT ![b] = s] \in Listing
  BY DEF NoManifest, Manifest, Listing, Standing

LEMMA NoToolFields == NoTool \in ToolRecord
  BY ManifestFields DEF NoTool, ToolRecord

\* What the manifest becomes when an entry changes.
LEMMA ChangedManifest ==
    ASSUME manifest \in Manifest, NEW b \in Nat, NEW s \in Standing, Changed(b, s)
    PROVE  manifest' \in Manifest /\ manifest'.revision = manifest.revision + 1
           /\ manifest'.status = IF b = 0 THEN manifest.status ELSE [manifest.status EXCEPT ![b] = s]
  BY ManifestFields DEF Changed

\* A step of a tool is a new record for it.
LEMMA ToolMoves ==
    ASSUME tool \in [Agent -> ToolRecord], ToolsDo, NEW a \in Agent, NEW t \in ToolRecord,
           tool' = [tool EXCEPT ![a] = t],
           t.at \in {"capturing", "storing", "listed", "saving"} => t.op \in {"replace", "restore"},
           t.at \in {"asked", "authorized"} => t.backup \in Backup
    PROVE  tool' \in [Agent -> ToolRecord] /\ ToolsDo'
<1>1. \A x \in Agent : tool'[x] = IF x = a THEN t ELSE tool[x]  OBVIOUS
<1> QED  BY <1>1 DEF ToolsDo

LEMMA VaultTypes ==
    ASSUME VaultTypeOK, [VaultNext]_vaultVars
    PROVE  VaultTypeOK'
<1> USE VaultAssumption, ManifestFields, NoToolFields DEF ToolRecord, counts, tools, disks, history
<1>a. /\ file \in Nat /\ contents \in Nat /\ baseline \in [Agent -> SUBSET Nat]
      /\ tool \in [Agent -> ToolRecord]
      /\ manifest \in Manifest /\ manifestFile \in Manifest /\ data \in [Backup -> SUBSET Nat]
      /\ unseen \in [Agent -> SUBSET Nat] /\ overwritten \in SUBSET Nat /\ released \in SUBSET Nat
      /\ surprised \in BOOLEAN
  BY DEF VaultTypeOK
<1>b. Backup \subseteq Nat  BY DEF Backup
<1>1. tool' \in [Agent -> ToolRecord] /\ ToolsDo'
  <2>o. ToolsDo  BY DEF VaultTypeOK
  <2>6. ASSUME NEW a \in Agent, ToolReturns(a)
         PROVE tool' \in [Agent -> ToolRecord] /\ ToolsDo'
    BY <2>6, <1>a, <1>b, <2>o DEF ToolReturns, NoTool, ToolsDo
  <2>1. ASSUME NEW a \in Agent, BeginReplace(a)
         PROVE tool' \in [Agent -> ToolRecord] /\ ToolsDo'
    <3> DEFINE t == [NoTool EXCEPT !.op = "replace", !.at = "capturing", !.content = contents + 1, !.guarded = {file}]
    <3>1. tool' = [tool EXCEPT ![a] = t]  BY <2>1, <1>a DEF BeginReplace
    <3>n. contents + 1 \in Nat /\ {file} \in SUBSET Nat  BY <1>a
    <3>2. t \in ToolRecord  BY <3>n DEF NoTool
    <3>3. /\ t.at \in {"capturing", "storing", "listed", "saving"} => t.op \in {"replace", "restore"}
          /\ t.at \in {"asked", "authorized"} => t.backup \in Backup
      BY <1>a, <2>o, <2>1 DEF BeginReplace, NoTool, ToolsDo
    <3> HIDE DEF t
    <3> QED  BY <1>a, <2>o, <3>1, <3>2, <3>3, ToolMoves
  <2>2. ASSUME NEW a \in Agent, Capture(a)
         PROVE tool' \in [Agent -> ToolRecord] /\ ToolsDo'
    BY <2>2, <1>a, <1>b, <2>o DEF Capture, NoTool, ToolsDo
  <2>3. ASSUME NEW a \in Agent, NEW b \in Backup, StoreCopyAs(a, b)
         PROVE tool' \in [Agent -> ToolRecord] /\ ToolsDo'
    <3> DEFINE t == [tool[a] EXCEPT !.at = "listed", !.backup = b]
    <3>1. tool' = [tool EXCEPT ![a] = t]  BY <2>3, <1>a DEF StoreCopyAs
    <3>2. t \in ToolRecord  BY <1>a, <1>b, <2>3 DEF StoreCopyAs, NoTool
    <3>3. /\ t.at \in {"capturing", "storing", "listed", "saving"} => t.op \in {"replace", "restore"}
          /\ t.at \in {"asked", "authorized"} => t.backup \in Backup
      BY <1>a, <2>o, <2>3 DEF StoreCopyAs, NoTool, ToolsDo
    <3> HIDE DEF t
    <3> QED  BY <1>a, <2>o, <3>1, <3>2, <3>3, ToolMoves
  <2>4. ASSUME NEW a \in Agent, Serialise(a)
         PROVE tool' \in [Agent -> ToolRecord] /\ ToolsDo'
    BY <2>4, <1>a, <1>b, <2>o DEF Serialise, NoTool, ToolsDo
  <2>5. ASSUME NEW a \in Agent, Rename(a) PROVE tool' \in [Agent -> ToolRecord] /\ ToolsDo'
    <3>1. ASSUME NEW place \in {"verifying", "writing", "removing"},
                 tool' = [tool EXCEPT ![a] = [tool[a] EXCEPT !.at = place, !.document = NoManifest]]
          PROVE tool' \in [Agent -> ToolRecord] /\ ToolsDo'
      BY <3>1, <1>a, <2>o DEF ToolsDo
    <3>2. CASE tool[a].at = "clearing"  BY <3>2, <2>5, <2>6 DEF Rename, ToolReturns
    <3>3. CASE tool[a].at = "isolating"  BY <3>3, <2>5, <3>1, <1>a DEF Rename
    <3>4. CASE tool[a].at = "saving"  BY <3>4, <2>5, <2>o, <3>1, <1>a DEF Rename, ToolsDo
    <3> QED  BY <2>5, <3>2, <3>3, <3>4 DEF Rename, Saving
  <2>7. ASSUME NEW a \in Agent, Verify(a) PROVE tool' \in [Agent -> ToolRecord] /\ ToolsDo'
    <3>1. CASE ToolReturns(a)  BY <3>1, <2>6
    <3>2. CASE tool' = [tool EXCEPT ![a] = [tool[a] EXCEPT !.at = "writing", !.copy = file]]
      BY <3>2, <1>a, <2>o DEF ToolsDo
    <3> QED  BY <2>7, <3>1, <3>2, <1>a DEF Verify
  <2>8. ASSUME NEW a \in Agent, WriteFile(a) PROVE tool' \in [Agent -> ToolRecord] /\ ToolsDo'
    <3>1. CASE ToolReturns(a)  BY <3>1, <2>6
    <3>2. CASE ToolGoes(a, "noting")  BY <3>2, <1>a, <2>o DEF ToolGoes, ToolsDo
    <3> QED  BY <2>8, <3>1, <3>2 DEF WriteFile
  <2>9. ASSUME NEW a \in Agent, Allowed(a) PROVE tool' \in [Agent -> ToolRecord] /\ ToolsDo'
    BY <2>9, <1>a, <2>o DEF Allowed, ToolGoes, ToolsDo
  <2>10. ASSUME NEW a \in Agent, Quarantine(a)
         PROVE tool' \in [Agent -> ToolRecord] /\ ToolsDo'
    <3> DEFINE t == [tool[a] EXCEPT !.at = "quarantined", !.document = NoManifest,
                     !.backup = IF manifest.status[tool[a].backup] = "active" THEN tool[a].backup ELSE 0]
    <3>1. tool' = [tool EXCEPT ![a] = t]  BY <2>10, <1>a DEF Quarantine
    <3>2. t \in ToolRecord  BY <1>a, <1>b, <2>10 DEF Quarantine, NoTool
    <3>3. /\ t.at \in {"capturing", "storing", "listed", "saving"} => t.op \in {"replace", "restore"}
          /\ t.at \in {"asked", "authorized"} => t.backup \in Backup
      BY <1>a, <2>o, <2>10 DEF Quarantine, NoTool, ToolsDo
    <3> HIDE DEF t
    <3> QED  BY <1>a, <2>o, <3>1, <3>2, <3>3, ToolMoves
  <2>11. ASSUME NEW a \in Agent, Purge(a) PROVE tool' \in [Agent -> ToolRecord] /\ ToolsDo'
    BY <2>11, <1>a, <2>o DEF Purge, ToolGoes, ToolsDo
  <2>12. ASSUME NEW a \in Agent, NEW b \in Backup, BeginRestore(a, b)
         PROVE tool' \in [Agent -> ToolRecord] /\ ToolsDo'
    <3> PICK content \in data[b] :
             tool' = [tool EXCEPT ![a] = [NoTool EXCEPT !.op = "restore", !.at = "capturing", !.content = content]]
      BY <2>12 DEF BeginRestore
    <3>1. content \in Nat  BY <1>a
    <3> QED  BY <1>a, <2>o, <3>1 DEF NoTool, ToolsDo
  <2>13. ASSUME NEW a \in Agent, NEW b \in Backup, NEW place \in {"asked", "authorized"}, BeginDelete(a, b, place)
         PROVE tool' \in [Agent -> ToolRecord] /\ ToolsDo'
    BY <2>13, <1>a, <1>b, <2>o DEF BeginDelete, NoTool, ToolsDo
  <2>14. CASE VaultProcessEnds  BY <2>14 DEF VaultProcessEnds, NoTool, ToolsDo
  <2>15. CASE UNCHANGED tool  BY <2>15, <1>a, <2>o DEF ToolsDo
  <2>16. ASSUME NEW a \in Agent,
                ReadFile(a) \/ SaveFails(a) \/ NoteOwnWrite(a) \/ DeletionRefused(a) \/ QuarantineRefused(a)
         PROVE tool' \in [Agent -> ToolRecord] /\ ToolsDo'
    BY <2>16, <2>6, <2>15 DEF ReadFile, SaveFails, NoteOwnWrite, DeletionRefused, QuarantineRefused
  <2>17. ASSUME NEW a \in Agent, StoreCopy(a) PROVE tool' \in [Agent -> ToolRecord] /\ ToolsDo'
    BY <2>17, <2>3 DEF StoreCopy, Unused
  <2>18. ASSUME NEW a \in Keeper, NEW b \in Backup,
                BeginRestore(a, b) \/ DeleteUnasked(a, b) \/ AskToDelete(a, b)
         PROVE tool' \in [Agent -> ToolRecord] /\ ToolsDo'
    BY <2>18, <2>12, <2>13 DEF DeleteUnasked, AskToDelete
  <2>19. CASE PersonEdits \/ UNCHANGED vaultVars  BY <2>19, <2>15 DEF PersonEdits, vaultVars
  <2> QED
    BY <2>1, <2>2, <2>4, <2>5, <2>7, <2>8, <2>9, <2>10, <2>11, <2>14, <2>16, <2>17, <2>18, <2>19 DEF VaultNext
<1>2. manifest' \in Manifest
  <2>1. ASSUME NEW b \in Nat, NEW s \in Standing, Changed(b, s) PROVE manifest' \in Manifest
    BY <2>1, <1>a, ChangedManifest
  <2>2. ASSUME NEW a \in Agent, StoreCopy(a) PROVE manifest' \in Manifest
    <3>1. "active" \in Standing  BY DEF Standing
    <3> QED  BY <2>1, <2>2, <3>1, <1>b DEF StoreCopy, StoreCopyAs, Unused
  <2>3. ASSUME NEW a \in Agent, Quarantine(a) PROVE manifest' \in Manifest
    <3>1. "quarantined" \in Standing  BY DEF Standing
    <3> QED  BY <2>1, <2>3, <3>1, <1>a DEF Quarantine
  <2>4. ASSUME NEW a \in Agent, Purge(a) PROVE manifest' \in Manifest
    <3>1. "purged" \in Standing  BY DEF Standing
    <3> QED  BY <2>1, <2>4, <3>1, <1>a DEF Purge
  <2>5. CASE VaultProcessEnds  BY <2>5, <1>a DEF VaultProcessEnds
  <2>6. CASE UNCHANGED manifest  BY <2>6, <1>a
  <2> QED
    BY <2>2, <2>3, <2>4, <2>5, <2>6 DEF VaultNext, vaultVars, ReadFile, PersonEdits, BeginReplace, Capture, Serialise,
       Rename, SaveFails, Verify, WriteFile, NoteOwnWrite, Allowed, DeletionRefused, QuarantineRefused, BeginRestore,
       DeleteUnasked, AskToDelete, BeginDelete
<1>3. manifestFile' \in Manifest /\ data' \in [Backup -> SUBSET Nat]
  <2>1. ASSUME NEW a \in Agent, StoreCopy(a) PROVE data' \in [Backup -> SUBSET Nat]
    <3> PICK b \in Backup : StoreCopyAs(a, b)  BY <2>1 DEF StoreCopy, Unused
    <3> QED  BY <1>a DEF StoreCopyAs
  <2>2. ASSUME NEW a \in Agent, Purge(a) PROVE data' \in [Backup -> SUBSET Nat]
    BY <2>2, <1>a DEF Purge
  <2>3. ASSUME NEW a \in Agent, Rename(a) PROVE manifestFile' \in Manifest
    BY <2>3, <1>a DEF Rename
  <2> QED
    BY <2>1, <2>2, <2>3, <1>a DEF VaultNext, vaultVars, ReadFile, PersonEdits, BeginReplace, Capture, StoreCopy,
       StoreCopyAs, Serialise, Rename, SaveFails, Verify, WriteFile, NoteOwnWrite, Allowed, DeletionRefused,
       Quarantine, QuarantineRefused, Purge, VaultProcessEnds, BeginRestore, DeleteUnasked, AskToDelete, BeginDelete
<1>4. /\ file' \in Nat /\ contents' \in Nat /\ baseline' \in [Agent -> SUBSET Nat]
      /\ unseen' \in [Agent -> SUBSET Nat] /\ overwritten' \in SUBSET Nat
  <2>1. CASE PersonEdits  BY <2>1, <1>a DEF PersonEdits
  <2>2. ASSUME NEW a \in Agent, ReadFile(a) PROVE baseline' \in [Agent -> SUBSET Nat]
    BY <2>2, <1>a DEF ReadFile, BaselineAtRead
  <2>3. ASSUME NEW a \in Agent, NoteOwnWrite(a) PROVE baseline' \in [Agent -> SUBSET Nat]
    BY <2>3, <1>a DEF NoteOwnWrite
  <2>4. ASSUME NEW a \in Agent, WriteFile(a) PROVE file' \in Nat /\ overwritten' \in SUBSET Nat
    BY <2>4, <1>a DEF WriteFile
  <2>5. ASSUME NEW a \in Agent, BeginReplace(a) PROVE contents' \in Nat
    BY <2>5, <1>a DEF BeginReplace
  <2> QED
    BY <2>1, <2>2, <2>3, <2>4, <2>5, <1>a DEF VaultNext, vaultVars, ReadFile, BeginReplace, Capture, StoreCopy, StoreCopyAs,
       Serialise, Rename, SaveFails, Verify, WriteFile, NoteOwnWrite, Allowed, DeletionRefused, Quarantine,
       QuarantineRefused, Purge, VaultProcessEnds, BeginRestore, DeleteUnasked, AskToDelete, BeginDelete
<1>5. released' \in SUBSET Nat /\ surprised' \in BOOLEAN
  <2>1. ASSUME NEW a \in Agent, Quarantine(a) PROVE released' \in SUBSET Nat /\ surprised' \in BOOLEAN
    <3>1. tool[a].backup \in Backup  BY <2>1 DEF Quarantine, VaultTypeOK, ToolsDo
    <3>2. released' \in SUBSET Nat  BY <2>1, <3>1, <1>a DEF Quarantine
    <3>3. (surprised \/ manifest.status # tool[a].document.status) \in BOOLEAN  OBVIOUS
    <3> QED  BY <2>1, <3>2, <3>3 DEF Quarantine
  <2> QED
    BY <2>1, <1>a DEF VaultNext, vaultVars, PersonEdits, ReadFile, BeginReplace, Capture, StoreCopy, StoreCopyAs,
       Serialise, Rename, SaveFails, Verify, WriteFile, NoteOwnWrite, Allowed, DeletionRefused, QuarantineRefused, Purge,
       VaultProcessEnds, BeginRestore, DeleteUnasked, AskToDelete, BeginDelete
<1> QED  BY <1>1, <1>2, <1>3, <1>4, <1>5 DEF VaultTypeOK

\* A tool that goes on, and how.
GoesFrom(x, place, next) ==
    /\ tool[x].at = place /\ tool'[x].at = next
    /\ tool'[x].op = tool[x].op /\ tool'[x].guarded = tool[x].guarded /\ tool'[x].content = tool[x].content

SameCopy(x) == tool'[x].copy = tool[x].copy

GoesOn(x) ==
    \/ GoesFrom(x, "capturing", "storing") /\ tool'[x].copy = file
    \/ GoesFrom(x, "storing", "listed") /\ SameCopy(x) /\ \E b \in Backup : tool[x].copy \in data'[b]
    \/ /\ \/ GoesFrom(x, "listed", "saving") \/ GoesFrom(x, "quarantined", "isolating")
          \/ GoesFrom(x, "purged", "clearing")
       /\ SameCopy(x) /\ tool'[x].document = manifest /\ manifest' = manifest
    \/ /\ \/ GoesFrom(x, "saving", "verifying") \/ GoesFrom(x, "saving", "writing")
          \/ GoesFrom(x, "isolating", "removing")
       /\ SameCopy(x)
    \/ GoesFrom(x, "verifying", "writing") /\ SameCopy(x)
    \/ GoesFrom(x, "writing", "noting") /\ SameCopy(x) /\ tool[x].op = "replace"
    \/ GoesFrom(x, "asked", "authorized") /\ SameCopy(x) /\ tool'[x].document = tool[x].document
    \/ (GoesFrom(x, "authorized", "quarantined") \/ GoesFrom(x, "removing", "purged")) /\ SameCopy(x)

\* A tool that begins.
ToolBegins(x) ==
    \/ BeginReplace(x) /\ tool'[x] = [NoTool EXCEPT !.op = "replace", !.at = "capturing",
                                                   !.content = contents + 1, !.guarded = {file}]
    \/ \E b \in Backup : \E content \in data[b] :
          tool'[x] = [NoTool EXCEPT !.op = "restore", !.at = "capturing", !.content = content]
    \/ /\ \E b \in Backup, place \in {"asked", "authorized"} :
             tool'[x] = [NoTool EXCEPT !.op = "delete", !.at = place, !.backup = b, !.document = manifest]
       /\ manifest' = manifest

ToolStep(x) == tool'[x] \in {tool[x], NoTool} \/ GoesOn(x) \/ ToolBegins(x)

LEMMA ToolSteps ==
    ASSUME VaultTypeOK, [VaultNext]_vaultVars
    PROVE  \A x \in Agent : ToolStep(x)
<1> USE VaultAssumption DEF counts, tools, disks, history, ToolRecord
<1>a. tool \in [Agent -> ToolRecord] /\ ToolsDo  BY DEF VaultTypeOK
<1>o. ASSUME NEW a \in Agent, NEW t, tool' = [tool EXCEPT ![a] = t], tool'[a] = t => ToolStep(a)
      PROVE  \A x \in Agent : ToolStep(x)
  BY <1>o, <1>a DEF ToolStep
<1>r. ASSUME NEW a \in Agent, ToolReturns(a) PROVE \A x \in Agent : ToolStep(x)
  BY <1>r, <1>o DEF ToolReturns, ToolStep
<1>1. ASSUME NEW a \in Agent, BeginReplace(a) PROVE \A x \in Agent : ToolStep(x)
  <2> DEFINE t == [NoTool EXCEPT !.op = "replace", !.at = "capturing", !.content = contents + 1, !.guarded = {file}]
  <2>1. tool' = [tool EXCEPT ![a] = t]  BY <1>1 DEF BeginReplace
  <2>2. tool'[a] = t => ToolStep(a)  BY <1>1 DEF ToolStep, ToolBegins
  <2> QED  BY <1>o, <2>1, <2>2
<1>2. ASSUME NEW a \in Agent, Capture(a) PROVE \A x \in Agent : ToolStep(x)
  <2> DEFINE t == [tool[a] EXCEPT !.at = "storing", !.copy = file]
  <2>1. tool' = [tool EXCEPT ![a] = t]  BY <1>2, <1>a DEF Capture
  <2>2. tool'[a] = t => ToolStep(a)  BY <1>2, <1>a DEF Capture, ToolStep, GoesOn, GoesFrom
  <2> QED  BY <1>o, <2>1, <2>2
<1>3. ASSUME NEW a \in Agent, NEW b \in Backup, StoreCopyAs(a, b) PROVE \A x \in Agent : ToolStep(x)
  <2> DEFINE t == [tool[a] EXCEPT !.at = "listed", !.backup = b]
  <2>1. tool' = [tool EXCEPT ![a] = t]  BY <1>3, <1>a DEF StoreCopyAs
  <2>2. tool[a].copy \in data'[b]  BY <1>3 DEF StoreCopyAs, VaultTypeOK
  <2>3. tool'[a] = t => ToolStep(a)  BY <1>3, <2>2, <1>a DEF StoreCopyAs, ToolStep, GoesOn, GoesFrom, SameCopy
  <2> QED  BY <1>o, <2>1, <2>3
<1>4. ASSUME NEW a \in Agent, Serialise(a) PROVE \A x \in Agent : ToolStep(x)
  <2>1. \A x \in Agent : x # a => tool'[x] = tool[x]  BY <1>4, <1>a DEF Serialise
  <2>2. GoesOn(a)  BY <1>4, <1>a DEF Serialise, GoesOn, GoesFrom, SameCopy
  <2> QED  BY <2>1, <2>2 DEF ToolStep
<1>5. ASSUME NEW a \in Agent, Rename(a) PROVE \A x \in Agent : ToolStep(x)
  <2>1. ASSUME NEW place, tool' = [tool EXCEPT ![a] = [tool[a] EXCEPT !.at = place, !.document = NoManifest]],
               \/ tool[a].at = "saving" /\ place \in {"verifying", "writing"}
               \/ tool[a].at = "isolating" /\ place = "removing"
        PROVE  \A x \in Agent : ToolStep(x)
    <3>1. \A x \in Agent : x # a => tool'[x] = tool[x]  BY <2>1, <1>a
    <3>2. GoesOn(a)  BY <2>1, <1>a DEF GoesOn, GoesFrom, SameCopy
    <3> QED  BY <3>1, <3>2 DEF ToolStep
  <2>2. CASE tool[a].at = "clearing"  BY <2>2, <1>5, <1>r DEF Rename, ToolReturns
  <2>3. CASE tool[a].at = "isolating"  BY <2>3, <1>5, <2>1, <1>a DEF Rename
  <2>4. CASE tool[a].at = "saving"  BY <2>4, <1>5, <2>1, <1>a DEF Rename, ToolsDo
  <2> QED  BY <1>5, <2>2, <2>3, <2>4 DEF Rename, Saving
<1>6. ASSUME NEW a \in Agent, Verify(a) PROVE \A x \in Agent : ToolStep(x)
  <2>1. CASE ToolReturns(a)  BY <2>1, <1>r
  <2>2. CASE TargetUnchanged(tool[a].copy)
    <3>1. \A x \in Agent : x # a => tool'[x] = tool[x]  BY <2>2, <1>6, <1>a DEF Verify
    <3>2. tool[a].at = "verifying" /\ tool' = [tool EXCEPT ![a] = [tool[a] EXCEPT !.at = "writing", !.copy = tool[a].copy]]
      BY <2>2, <1>6, <1>a DEF Verify, TargetUnchanged
    <3>3. GoesOn(a)  BY <3>2, <1>a DEF GoesOn, GoesFrom, SameCopy
    <3> QED  BY <3>1, <3>3 DEF ToolStep
  <2> QED  BY <1>6, <2>1, <2>2 DEF Verify
<1>7. ASSUME NEW a \in Agent, WriteFile(a) PROVE \A x \in Agent : ToolStep(x)
  <2>1. CASE ToolReturns(a)  BY <2>1, <1>r
  <2>2. CASE tool[a].op = "replace" /\ ToolGoes(a, "noting")
    <3>1. \A x \in Agent : x # a => tool'[x] = tool[x]  BY <2>2, <1>a DEF ToolGoes
    <3>2. GoesOn(a)  BY <2>2, <1>7, <1>a DEF ToolGoes, WriteFile, GoesOn, GoesFrom, SameCopy
    <3> QED  BY <3>1, <3>2 DEF ToolStep
  <2> QED  BY <1>7, <2>1, <2>2 DEF WriteFile
<1>8. ASSUME NEW a \in Agent, Allowed(a) PROVE \A x \in Agent : ToolStep(x)
  <2>1. \A x \in Agent : x # a => tool'[x] = tool[x]  BY <1>8, <1>a DEF Allowed, ToolGoes
  <2>2. GoesOn(a)  BY <1>8, <1>a DEF Allowed, ToolGoes, GoesOn, GoesFrom, SameCopy
  <2> QED  BY <2>1, <2>2 DEF ToolStep
<1>9. ASSUME NEW a \in Agent, Quarantine(a) PROVE \A x \in Agent : ToolStep(x)
  <2>1. \A x \in Agent : x # a => tool'[x] = tool[x]  BY <1>9, <1>a DEF Quarantine
  <2>2. GoesFrom(a, "authorized", "quarantined") /\ SameCopy(a)  BY <1>9, <1>a DEF Quarantine, GoesFrom, SameCopy
  <2> QED  BY <2>1, <2>2 DEF ToolStep, GoesOn
<1>10. ASSUME NEW a \in Agent, Purge(a) PROVE \A x \in Agent : ToolStep(x)
  <2>1. \A x \in Agent : x # a => tool'[x] = tool[x]  BY <1>10, <1>a DEF Purge, ToolGoes
  <2>2. GoesFrom(a, "removing", "purged") /\ SameCopy(a)  BY <1>10, <1>a DEF Purge, ToolGoes, GoesFrom, SameCopy
  <2> QED  BY <2>1, <2>2 DEF ToolStep, GoesOn
<1>11. ASSUME NEW a \in Agent, NEW b \in Backup, BeginRestore(a, b) PROVE \A x \in Agent : ToolStep(x)
  <2> PICK content \in data[b] :
           tool' = [tool EXCEPT ![a] = [NoTool EXCEPT !.op = "restore", !.at = "capturing", !.content = content]]
    BY <1>11 DEF BeginRestore
  <2> DEFINE t == [NoTool EXCEPT !.op = "restore", !.at = "capturing", !.content = content]
  <2>1. tool'[a] = t => ToolStep(a)  BY DEF ToolStep, ToolBegins
  <2> QED  BY <1>o, <2>1
<1>12. ASSUME NEW a \in Agent, NEW b \in Backup, NEW place \in {"asked", "authorized"}, BeginDelete(a, b, place)
       PROVE \A x \in Agent : ToolStep(x)
  <2> DEFINE t == [NoTool EXCEPT !.op = "delete", !.at = place, !.backup = b, !.document = manifest]
  <2>1. tool' = [tool EXCEPT ![a] = t] /\ manifest' = manifest  BY <1>12 DEF BeginDelete
  <2>2. tool'[a] = t => ToolStep(a)  BY <2>1 DEF ToolStep, ToolBegins
  <2> QED  BY <1>o, <2>1, <2>2
<1>13. CASE VaultProcessEnds  BY <1>13 DEF VaultProcessEnds, ToolStep
<1>14. CASE UNCHANGED tool  BY <1>14 DEF ToolStep
<1>15. ASSUME NEW a \in Agent, StoreCopy(a) PROVE \A x \in Agent : ToolStep(x)
  BY <1>15, <1>3 DEF StoreCopy, Unused
<1>16. ASSUME NEW a \in Agent,
              ReadFile(a) \/ SaveFails(a) \/ NoteOwnWrite(a) \/ DeletionRefused(a) \/ QuarantineRefused(a)
       PROVE \A x \in Agent : ToolStep(x)
  BY <1>16, <1>r, <1>14 DEF ReadFile, SaveFails, NoteOwnWrite, DeletionRefused, QuarantineRefused
<1>17. ASSUME NEW a \in Keeper, NEW b \in Backup,
              BeginRestore(a, b) \/ DeleteUnasked(a, b) \/ AskToDelete(a, b)
       PROVE \A x \in Agent : ToolStep(x)
  BY <1>17, <1>11, <1>12 DEF DeleteUnasked, AskToDelete
<1>18. CASE PersonEdits \/ UNCHANGED vaultVars  BY <1>18, <1>14 DEF PersonEdits, vaultVars
<1> QED
  BY <1>1, <1>2, <1>4, <1>5, <1>6, <1>7, <1>8, <1>9, <1>10, <1>13, <1>15, <1>16, <1>17, <1>18 DEF VaultNext

\* A step changes the manifest by an entry, or the process ends.
LEMMA ManifestSteps ==
    ASSUME VaultTypeOK, [VaultNext]_vaultVars
    PROVE  \/ VaultProcessEnds
           \/ \E a \in Agent, b \in Unused : StoreCopyAs(a, b)
           \/ \E a \in Agent : Quarantine(a) \/ Purge(a)
           \/ UNCHANGED <<manifest, data, released, surprised>>
  BY DEF VaultNext, vaultVars, counts, tools, disks, history, PersonEdits, ReadFile, BeginReplace, Capture, StoreCopy,
     Serialise, Rename, SaveFails, Verify, WriteFile, NoteOwnWrite, Allowed, DeletionRefused, QuarantineRefused,
     BeginRestore, DeleteUnasked, AskToDelete, BeginDelete

\* A copy is made under a name nothing has.
LEMMA CopyIsNew ==
    ASSUME VaultTypeOK, NEW a \in Agent, NEW b \in Unused, StoreCopyAs(a, b)
    PROVE  /\ b \in Backup /\ data[b] = {} /\ manifest.status[b] = "none"
           /\ manifest' \in Manifest /\ manifest'.revision = manifest.revision + 1
           /\ manifest'.status = [manifest.status EXCEPT ![b] = "active"]
           /\ \A d \in Backup : d # b => data'[d] = data[d]
           /\ UNCHANGED <<released, surprised>>
<1>1. b \in Backup /\ b \in Nat /\ b # 0 /\ data[b] = {} /\ manifest.status[b] = "none"
  BY VaultAssumption DEF Unused, Backup
<1>2. "active" \in Standing /\ manifest \in Manifest  BY DEF Standing, VaultTypeOK
<1>3. Changed(b, "active")  BY DEF StoreCopyAs
<1>4. \A d \in Backup : d # b => data'[d] = data[d]  BY DEF StoreCopyAs, VaultTypeOK
<1> QED  BY <1>1, <1>2, <1>3, <1>4, ChangedManifest DEF StoreCopyAs, history

LEMMA QuarantineGivesUp ==
    ASSUME VaultTypeOK, NEW a \in Agent, Quarantine(a)
    PROVE  /\ manifest' \in Manifest /\ manifest'.revision = manifest.revision + 1
           /\ \A d \in Backup :
                 \/ manifest'.status[d] = manifest.status[d]
                 \/ manifest.status[d] = "active" /\ manifest'.status[d] = "quarantined" /\ data[d] \subseteq released'
           /\ data' = data /\ released \subseteq released'
<1>1. tool[a].backup \in Backup /\ tool[a].backup \in Nat /\ tool[a].backup # 0
  BY VaultAssumption DEF Quarantine, VaultTypeOK, ToolsDo, Backup
<1>2. "quarantined" \in Standing /\ manifest \in Manifest /\ manifest.status \in Listing
  BY ManifestFields DEF Standing, VaultTypeOK
<1>3. CASE manifest.status[tool[a].backup] = "active"
  <2>1. Changed(tool[a].backup, "quarantined")  BY <1>3 DEF Quarantine
  <2>2. manifest' \in Manifest /\ manifest'.revision = manifest.revision + 1
        /\ manifest'.status = [manifest.status EXCEPT ![tool[a].backup] = "quarantined"]
    BY <1>1, <1>2, <2>1, ChangedManifest
  <2> QED  BY <1>1, <1>2, <1>3, <2>2 DEF Quarantine, disks, Listing
<1>4. CASE manifest.status[tool[a].backup] # "active"
  <2>1. Changed(0, "quarantined")  BY <1>4 DEF Quarantine
  <2>2. manifest' \in Manifest /\ manifest'.revision = manifest.revision + 1 /\ manifest'.status = manifest.status
    BY <1>2, <2>1, ChangedManifest
  <2> QED  BY <1>4, <2>2 DEF Quarantine, disks
<1> QED  BY <1>3, <1>4

LEMMA PurgeRemoves ==
    ASSUME VaultTypeOK, NEW a \in Agent, Purge(a)
    PROVE  /\ manifest' \in Manifest /\ manifest'.revision = manifest.revision + 1
           /\ \A d \in Backup :
                 \/ manifest'.status[d] = manifest.status[d] /\ data'[d] = data[d]
                 \/ manifest.status[d] = "quarantined" /\ manifest'.status[d] = "purged" /\ data'[d] = {}
           /\ UNCHANGED <<released, surprised>>
<1> DEFINE b == tool[a].backup
           purges == b # 0 /\ manifest.status[b] = "quarantined"
<1>1. b \in Nat  BY DEF VaultTypeOK, ToolRecord
<1>2. "purged" \in Standing /\ manifest \in Manifest /\ manifest.status \in Listing
  BY ManifestFields DEF Standing, VaultTypeOK
<1>3. CASE purges
  <2>1. Changed(b, "purged")  BY <1>3 DEF Purge
  <2>2. manifest' \in Manifest /\ manifest'.revision = manifest.revision + 1
        /\ manifest'.status = [manifest.status EXCEPT ![b] = "purged"]
    BY <1>1, <1>2, <1>3, <2>1, ChangedManifest
  <2>3. \A d \in Backup : data'[d] = IF d = b THEN {} ELSE data[d]  BY <1>3 DEF Purge
  <2> QED  BY <1>2, <1>3, <2>2, <2>3 DEF Purge, history, Listing
<1>4. CASE ~purges
  <2>1. Changed(0, "purged")  BY <1>4 DEF Purge
  <2>2. manifest' \in Manifest /\ manifest'.revision = manifest.revision + 1 /\ manifest'.status = manifest.status
    BY <1>2, <2>1, ChangedManifest
  <2>3. \A d \in Backup : data'[d] = data[d]  BY <1>4 DEF Purge
  <2> QED  BY <2>2, <2>3 DEF Purge, history
<1> QED  BY <1>3, <1>4

\* What was earlier stays earlier, as long as the process goes on.
LEMMA PastStaysPast ==
    ASSUME VaultTypeOK, IsPast(manifest), NEW m, IsPast(m), [VaultNext]_vaultVars, ~VaultProcessEnds
    PROVE  IsPast(m)'
<1>0. manifest.status \in Listing  BY ManifestFields DEF VaultTypeOK
<1>1. ASSUME NEW a \in Agent, NEW b \in Unused, StoreCopyAs(a, b) PROVE IsPast(m)'
  BY <1>1, <1>0, CopyIsNew DEF IsPast, Listing
<1>2. ASSUME NEW a \in Agent, Quarantine(a) PROVE IsPast(m)'  BY <1>2, QuarantineGivesUp DEF IsPast
<1>3. ASSUME NEW a \in Agent, Purge(a) PROVE IsPast(m)'  BY <1>3, PurgeRemoves DEF IsPast
<1>4. CASE UNCHANGED <<manifest, data, released, surprised>>  BY <1>4 DEF IsPast
<1> QED  BY <1>1, <1>2, <1>3, <1>4, ManifestSteps

LEMMA ManifestsStayPast ==
    ASSUME VaultTypeOK, ManifestsArePast, [VaultNext]_vaultVars
    PROVE  ManifestsArePast'
<1> USE DEF ManifestsArePast
<1>0. manifest.status \in Listing  BY ManifestFields DEF VaultTypeOK
<1>1. CASE VaultProcessEnds
  <2>1. manifest' = manifestFile /\ UNCHANGED <<manifestFile, data, released>>
        /\ tool' = [a \in Agent |-> NoTool]
    BY <1>1 DEF VaultProcessEnds, disks, history
  <2>2. IsPast(manifest)' /\ IsPast(manifestFile)'  BY <2>1 DEF IsPast
  <2> QED  BY <2>1, <2>2 DEF NoTool, Saving
<1>2. CASE ~VaultProcessEnds
  <2>1. \A m : IsPast(m) => IsPast(m)'  BY <1>2, PastStaysPast
  <2>2. ASSUME NEW m, m = manifest' PROVE IsPast(m)'
    <3>1. ASSUME NEW a \in Agent, NEW b \in Unused, StoreCopyAs(a, b) PROVE IsPast(m)'
      BY <3>1, <2>2, <1>0, CopyIsNew DEF IsPast, Listing
    <3>2. ASSUME NEW a \in Agent, Quarantine(a) PROVE IsPast(m)'  BY <3>2, <2>2, QuarantineGivesUp DEF IsPast
    <3>3. ASSUME NEW a \in Agent, Purge(a) PROVE IsPast(m)'  BY <3>3, <2>2, PurgeRemoves DEF IsPast
    <3>4. CASE UNCHANGED <<manifest, data, released, surprised>>  BY <3>4, <2>2 DEF IsPast
    <3> QED  BY <1>2, <3>1, <3>2, <3>3, <3>4, ManifestSteps
  <2>3. IsPast(manifest)'  BY <2>2 DEF IsPast
  <2>4. ASSUME NEW m, m = manifestFile' PROVE IsPast(m)'
    <3>1. CASE manifestFile' = manifestFile  BY <3>1, <2>1, <2>4
    <3>2. ASSUME NEW a \in Agent, Rename(a) PROVE IsPast(m)'  BY <3>2, <2>1, <2>4 DEF Rename
    <3> QED
      BY <1>2, <3>1, <3>2 DEF VaultNext, vaultVars, counts, tools, disks, PersonEdits, ReadFile, BeginReplace, Capture,
         StoreCopy, StoreCopyAs, Serialise, SaveFails, Verify, WriteFile, NoteOwnWrite, Allowed, DeletionRefused,
         Quarantine, QuarantineRefused, Purge, BeginRestore, DeleteUnasked, AskToDelete, BeginDelete
  <2>5. IsPast(manifestFile)'  BY <2>4 DEF IsPast
  <2>6. ASSUME NEW x \in Agent, tool'[x].at \in Saving, NEW m, m = tool'[x].document PROVE IsPast(m)'
    <3>1. ToolStep(x)  BY ToolSteps
    <3>2. CASE tool'[x] = tool[x]  BY <3>2, <2>1, <2>6
    <3>3. CASE tool'[x] = NoTool  BY <3>3, <2>6 DEF NoTool, Saving
    <3>4. CASE ToolBegins(x)  BY <3>4, <2>6 DEF ToolBegins, NoTool, Saving
    <3>5. CASE GoesOn(x)  BY <3>5, <2>1, <2>6 DEF GoesOn, GoesFrom, Saving
    <3> QED  BY <3>1, <3>2, <3>3, <3>4, <3>5 DEF ToolStep
  <2>7. \A x \in Agent : tool'[x].at \in Saving => IsPast(tool[x].document)'  BY <2>6 DEF IsPast
  <2> QED  BY <2>3, <2>5, <2>7 DEF Saving
<1> QED  BY <1>1, <1>2

LEMMA CopiesStayKept ==
    ASSUME VaultTypeOK, ManifestsArePast, CopiesAreKept, overwritten \subseteq KeptCopies, [VaultNext]_vaultVars
    PROVE  CopiesAreKept' /\ overwritten' \subseteq KeptCopies'
<1>1. KeptCopies \subseteq KeptCopies'
  <2>1. CASE VaultProcessEnds  BY <2>1 DEF VaultProcessEnds, disks, history, KeptCopies
  <2>2. ASSUME NEW a \in Agent, NEW b \in Unused, StoreCopyAs(a, b) PROVE KeptCopies \subseteq KeptCopies'
    <3>1. data[b] = {} /\ released' = released /\ \A d \in Backup : d # b => data'[d] = data[d]
      BY <2>2, CopyIsNew
    <3>2. \A d \in Backup : data[d] \subseteq data'[d]  BY <3>1
    <3> QED  BY <3>1, <3>2 DEF KeptCopies
  <2>3. ASSUME NEW a \in Agent, Quarantine(a) PROVE KeptCopies \subseteq KeptCopies'
    BY <2>3, QuarantineGivesUp DEF KeptCopies
  <2>4. ASSUME NEW a \in Agent, Purge(a) PROVE KeptCopies \subseteq KeptCopies'
    BY <2>4, PurgeRemoves DEF KeptCopies, ManifestsArePast, IsPast
  <2>5. CASE UNCHANGED <<manifest, data, released, surprised>>  BY <2>5 DEF KeptCopies
  <2> QED  BY <2>1, <2>2, <2>3, <2>4, <2>5, ManifestSteps
<1>2. ASSUME NEW x \in Agent, tool'[x].at \in {"listed", "saving", "verifying", "writing"}
      PROVE  tool'[x].copy \in KeptCopies'
  <2>1. ToolStep(x)  BY ToolSteps
  <2>2. CASE tool'[x] = tool[x]  BY <2>2, <1>1, <1>2 DEF CopiesAreKept
  <2>3. CASE tool'[x] = NoTool  BY <2>3, <1>2 DEF NoTool
  <2>4. CASE ToolBegins(x)  BY <2>4, <1>2 DEF ToolBegins, NoTool
  <2>5. CASE GoesOn(x)
    <3>1. CASE GoesFrom(x, "storing", "listed")  BY <2>5, <3>1, <1>1 DEF GoesOn, GoesFrom, SameCopy, KeptCopies
    <3>2. CASE ~GoesFrom(x, "storing", "listed")
      BY <2>5, <3>2, <1>1, <1>2 DEF GoesOn, GoesFrom, SameCopy, CopiesAreKept
    <3> QED  BY <3>1, <3>2
  <2> QED  BY <2>1, <2>2, <2>3, <2>4, <2>5 DEF ToolStep
<1>3. overwritten' \subseteq KeptCopies'
  <2>1. ASSUME NEW a \in Agent, WriteFile(a) PROVE overwritten' \subseteq KeptCopies'
    BY <2>1, <1>1 DEF WriteFile, CopiesAreKept
  <2>2. CASE overwritten' = overwritten  BY <2>2, <1>1
  <2> QED
    BY <2>1, <2>2 DEF VaultNext, vaultVars, counts, tools, disks, history, PersonEdits, ReadFile, BeginReplace, Capture,
       StoreCopy, StoreCopyAs, Serialise, Rename, SaveFails, Verify, NoteOwnWrite, Allowed, DeletionRefused,
       Quarantine, QuarantineRefused, Purge, VaultProcessEnds, BeginRestore, DeleteUnasked, AskToDelete, BeginDelete
<1> QED  BY <1>2, <1>3 DEF CopiesAreKept

LEMMA DeletionsKnowOn ==
    ASSUME VaultTypeOK, DeletionsKnow, [VaultNext]_vaultVars, surprised = FALSE
    PROVE  DeletionsKnow' /\ surprised' = FALSE
<1>a. tool \in [Agent -> ToolRecord] /\ manifest \in Manifest /\ manifest.revision \in Nat
  BY ManifestFields DEF VaultTypeOK
<1>1. CASE VaultProcessEnds  BY <1>1 DEF VaultProcessEnds, DeletionsKnow, NoTool, history
<1>2. CASE ~VaultProcessEnds
  <2>1. manifest' = manifest \/ manifest'.revision = manifest.revision + 1
    BY <1>2, ManifestSteps, CopyIsNew, QuarantineGivesUp, PurgeRemoves
  <2>2. ASSUME NEW x \in Agent, tool'[x].at \in {"asked", "authorized"}
        PROVE  /\ tool'[x].document.revision <= manifest'.revision
               /\ tool'[x].document.revision = manifest'.revision => tool'[x].document = manifest'
    <3>1. ToolStep(x)  BY ToolSteps
    <3>2. CASE tool[x].at \in {"asked", "authorized"} /\ tool'[x].document = tool[x].document
      <4>1. tool[x].document.revision \in Nat  BY <1>a, ManifestFields DEF ToolRecord
      <4>2. /\ tool[x].document.revision <= manifest.revision
            /\ tool[x].document.revision = manifest.revision => tool[x].document = manifest
        BY <3>2 DEF DeletionsKnow
      <4> QED  BY <2>1, <3>2, <4>1, <4>2, <1>a
    <3>3. CASE tool'[x] = NoTool  BY <3>3, <2>2 DEF NoTool
    <3>4. CASE ToolBegins(x)
      <4>1. tool'[x].document = manifest /\ manifest' = manifest  BY <3>4, <2>2 DEF ToolBegins, NoTool
      <4> QED  BY <4>1, <1>a
    <3>5. CASE GoesOn(x)  BY <3>2, <3>5, <2>2 DEF GoesOn, GoesFrom
    <3> QED  BY <2>2, <3>1, <3>2, <3>3, <3>4, <3>5 DEF ToolStep
  <2>3. surprised' = FALSE
    <3>1. ASSUME NEW a \in Agent, Quarantine(a) PROVE surprised' = FALSE
      BY <3>1 DEF Quarantine, StillAuthorized, DeletionsKnow
    <3> QED  BY <1>2, <3>1, ManifestSteps, CopyIsNew, PurgeRemoves
  <2> QED  BY <2>2, <2>3 DEF DeletionsKnow
<1> QED  BY <1>1, <1>2

\* What an agent has read, and what a person wrote since, changes with an edit,
\* a read, or the note of an agent's own write.
LEMMA BaselineSteps ==
    ASSUME [VaultNext]_vaultVars
    PROVE  \/ PersonEdits
           \/ \E a \in Agent : ReadFile(a) \/ NoteOwnWrite(a)
           \/ UNCHANGED <<baseline, unseen>>
<1>1. CASE VaultProcessEnds \/ UNCHANGED vaultVars  BY <1>1 DEF VaultProcessEnds, vaultVars, history
<1>2. ASSUME NEW a \in Agent, BeginReplace(a) \/ Capture(a) \/ StoreCopy(a) \/ Serialise(a) \/ Rename(a)
      PROVE  UNCHANGED <<baseline, unseen>>
  BY <1>2 DEF BeginReplace, Capture, StoreCopy, StoreCopyAs, Serialise, Rename, history
<1>3. ASSUME NEW a \in Agent, SaveFails(a) \/ Verify(a) \/ WriteFile(a)
      PROVE  UNCHANGED <<baseline, unseen>>
  BY <1>3 DEF SaveFails, Verify, WriteFile, history
<1>4. ASSUME NEW a \in Agent, Allowed(a) \/ DeletionRefused(a) \/ Quarantine(a) \/ QuarantineRefused(a) \/ Purge(a)
      PROVE  UNCHANGED <<baseline, unseen>>
  BY <1>4 DEF Allowed, DeletionRefused, Quarantine, QuarantineRefused, Purge, history
<1>5. ASSUME NEW a \in Keeper, NEW b \in Backup, BeginRestore(a, b) \/ DeleteUnasked(a, b) \/ AskToDelete(a, b)
      PROVE  UNCHANGED <<baseline, unseen>>
  BY <1>5 DEF BeginRestore, DeleteUnasked, AskToDelete, BeginDelete, history
<1> QED  BY <1>1, <1>2, <1>3, <1>4, <1>5 DEF VaultNext

LEMMA ContentsStayKnown ==
    ASSUME VaultTypeOK, ContentsAreKnown, [VaultNext]_vaultVars
    PROVE  ContentsAreKnown'
<1> USE DEF ContentsAreKnown
<1>a. /\ file \in Nat /\ contents \in Nat /\ baseline \in [Agent -> SUBSET Nat]
      /\ tool \in [Agent -> ToolRecord] /\ data \in [Backup -> SUBSET Nat] /\ unseen \in [Agent -> SUBSET Nat]
  BY DEF VaultTypeOK
<1>1. contents' \in Nat /\ contents <= contents' /\ \A c \in Nat : c <= contents => c <= contents'
  <2>1. contents' = contents \/ contents' = contents + 1
    BY DEF VaultNext, vaultVars, counts, PersonEdits, ReadFile, BeginReplace, Capture, StoreCopy, StoreCopyAs,
       Serialise, Rename, SaveFails, Verify, WriteFile, NoteOwnWrite, Allowed, DeletionRefused, Quarantine,
       QuarantineRefused, Purge, VaultProcessEnds, BeginRestore, DeleteUnasked, AskToDelete, BeginDelete
  <2> QED  BY <2>1, <1>a
<1>2. file' <= contents'
  <2>1. CASE PersonEdits  BY <2>1, <1>a DEF PersonEdits
  <2>2. ASSUME NEW a \in Agent, WriteFile(a) PROVE file' <= contents'
    <3>1. tool[a].content \in Nat  BY <1>a DEF ToolRecord
    <3> QED  BY <2>2, <3>1, <1>1 DEF WriteFile
  <2>3. CASE file' = file  BY <2>3, <1>a, <1>1
  <2> QED
    BY <2>1, <2>2, <2>3 DEF VaultNext, vaultVars, counts, tools, disks, history, ReadFile, BeginReplace, Capture,
       StoreCopy, StoreCopyAs, Serialise, Rename, SaveFails, Verify, NoteOwnWrite, Allowed, DeletionRefused,
       Quarantine, QuarantineRefused, Purge, VaultProcessEnds, BeginRestore, DeleteUnasked, AskToDelete, BeginDelete
<1>3. ASSUME NEW b \in Backup, NEW c \in data'[b] PROVE c <= contents'
  <2>1. ASSUME NEW a \in Agent, NEW d \in Unused, StoreCopyAs(a, d) PROVE c <= contents'
    <3>1. tool[a].copy \in Nat  BY <1>a DEF ToolRecord
    <3>2. c \in data[b] \/ c = tool[a].copy  BY <2>1, <1>a DEF StoreCopyAs
    <3> QED  BY <3>1, <3>2, <1>a, <1>1
  <2>2. ASSUME NEW a \in Agent, Purge(a) PROVE c <= contents'  BY <2>2, <1>a, <1>1, PurgeRemoves
  <2>3. CASE data' = data  BY <2>3, <1>a, <1>1
  <2> QED  BY <2>1, <2>2, <2>3, ManifestSteps, QuarantineGivesUp DEF VaultProcessEnds, disks
<1>4. ASSUME NEW x \in Agent
      PROVE  /\ \A c \in tool'[x].guarded : c <= contents'
             /\ tool'[x].copy <= contents' /\ tool'[x].content <= contents'
  <2>0. tool[x].copy \in Nat /\ tool[x].content \in Nat /\ tool[x].guarded \in SUBSET Nat  BY <1>a DEF ToolRecord
  <2>1. ToolStep(x)  BY ToolSteps
  <2>2. CASE tool'[x] = tool[x]  BY <2>0, <2>2, <1>1
  <2>3. CASE tool'[x] = NoTool  BY <2>3, <1>1 DEF NoTool
  <2>4. CASE ToolBegins(x)
    <3>1. CASE BeginReplace(x) /\ tool'[x] = [NoTool EXCEPT !.op = "replace", !.at = "capturing",
                                                   !.content = contents + 1, !.guarded = {file}]
      BY <3>1, <1>a, <1>1 DEF BeginReplace, NoTool
    <3>2. ASSUME NEW b \in Backup, NEW content \in data[b],
                 tool'[x] = [NoTool EXCEPT !.op = "restore", !.at = "capturing", !.content = content]
          PROVE  tool'[x].guarded = {} /\ tool'[x].copy = 0 /\ tool'[x].content <= contents'
      BY <3>2, <1>a, <1>1 DEF NoTool
    <3>3. CASE \E b \in Backup, place \in {"asked", "authorized"} :
             tool'[x] = [NoTool EXCEPT !.op = "delete", !.at = place, !.backup = b, !.document = manifest]
      BY <3>3, <1>1 DEF NoTool
    <3>4. 0 <= contents'  BY <1>1
    <3> QED  BY <2>4, <3>1, <3>2, <3>3, <3>4 DEF ToolBegins
  <2>5. CASE GoesOn(x)
    <3>1. tool'[x].guarded = tool[x].guarded /\ tool'[x].content = tool[x].content
          /\ (tool'[x].copy = tool[x].copy \/ tool'[x].copy = file)
      BY <2>5 DEF GoesOn, GoesFrom, SameCopy
    <3> QED  BY <2>0, <3>1, <1>a, <1>1
  <2> QED  BY <2>1, <2>2, <2>3, <2>4, <2>5 DEF ToolStep
<1>5. ASSUME NEW x \in Agent, NEW c \in baseline'[x] \cup unseen'[x] PROVE c <= contents'
  <2>1. CASE PersonEdits  BY <2>1, <1>a, <1>1 DEF PersonEdits
  <2>2. ASSUME NEW a \in Agent, ReadFile(a) PROVE c <= contents'
    BY <2>2, <1>a, <1>1 DEF ReadFile, BaselineAtRead, history
  <2>3. ASSUME NEW a \in Agent, NoteOwnWrite(a) PROVE c <= contents'
    <3>1. tool[a].content \in Nat  BY <1>a DEF ToolRecord
    <3> QED  BY <2>3, <3>1, <1>a, <1>1 DEF NoteOwnWrite, history
  <2>4. CASE UNCHANGED <<baseline, unseen>>  BY <2>4, <1>a, <1>1
  <2> QED  BY <2>1, <2>2, <2>3, <2>4, BaselineSteps
<1> QED  BY <1>2, <1>3, <1>4, <1>5

LEMMA EditsStayApart ==
    ASSUME VaultTypeOK, ContentsAreKnown, EditsAreApart, [VaultNext]_vaultVars
    PROVE  EditsAreApart'
<1>a. /\ file \in Nat /\ contents \in Nat /\ baseline \in [Agent -> SUBSET Nat]
      /\ tool \in [Agent -> ToolRecord] /\ unseen \in [Agent -> SUBSET Nat]
  BY DEF VaultTypeOK
<1>1. ASSUME NEW x \in Agent
      PROVE  \/ unseen'[x] = unseen[x]
             \/ /\ unseen'[x] = unseen[x] \cup {contents + 1} /\ baseline[x] # {}
                /\ UNCHANGED <<baseline, tool>>
  <2>1. CASE PersonEdits
    <3>1. /\ unseen'[x] = unseen[x] \cup (IF baseline[x] = {} THEN {} ELSE {contents + 1})
          /\ UNCHANGED <<baseline, tool>>
      BY <2>1 DEF PersonEdits, tools
    <3> QED  BY <3>1
  <2>2. ASSUME NEW a \in Agent, ReadFile(a) \/ NoteOwnWrite(a) PROVE unseen' = unseen
    BY <2>2 DEF ReadFile, NoteOwnWrite, history
  <2> QED  BY <2>1, <2>2, BaselineSteps
<1>2. ASSUME NEW x \in Agent
      PROVE  \/ baseline'[x] = baseline[x]
             \/ /\ unseen'[x] = unseen[x]
                /\ \/ baseline[x] = {} /\ baseline'[x] = {file}
                   \/ tool[x].at = "noting" /\ baseline[x] # {} /\ baseline'[x] = {tool[x].content}
  <2>1. ASSUME NEW a \in Agent, ReadFile(a)
      PROVE  \/ baseline'[x] = baseline[x]
             \/ /\ unseen'[x] = unseen[x]
                /\ \/ baseline[x] = {} /\ baseline'[x] = {file}
                   \/ tool[x].at = "noting" /\ baseline[x] # {} /\ baseline'[x] = {tool[x].content}
    BY <2>1, <1>a DEF ReadFile, BaselineAtRead, history
  <2>2. ASSUME NEW a \in Agent, NoteOwnWrite(a)
      PROVE  \/ baseline'[x] = baseline[x]
             \/ /\ unseen'[x] = unseen[x]
                /\ \/ baseline[x] = {} /\ baseline'[x] = {file}
                   \/ tool[x].at = "noting" /\ baseline[x] # {} /\ baseline'[x] = {tool[x].content}
    BY <2>2, <1>a DEF NoteOwnWrite, history
  <2>3. CASE PersonEdits  BY <2>3 DEF PersonEdits
  <2> QED  BY <2>1, <2>2, <2>3, BaselineSteps
<1>n. contents + 1 \in Nat /\ \A c \in Nat : c <= contents => c # contents + 1  BY <1>a
<1>3. ASSUME NEW x \in Agent
      PROVE  baseline'[x] = {} => unseen'[x] = {}
  BY <1>1, <1>2 DEF EditsAreApart
<1>4. ASSUME NEW x \in Agent
      PROVE  baseline'[x] \cap unseen'[x] = {}
  <2>1. \A c \in baseline[x] : c # contents + 1  BY <1>a, <1>n DEF ContentsAreKnown
  <2>2. baseline[x] \cap unseen[x] = {} /\ (baseline[x] = {} => unseen[x] = {})  BY DEF EditsAreApart
  <2>3. tool[x].at = "noting" => tool[x].content \notin unseen[x]  BY DEF EditsAreApart
  <2> QED  BY <1>1, <1>2, <2>1, <2>2, <2>3
<1>5. ASSUME NEW x \in Agent
      PROVE  /\ tool'[x].guarded \cap unseen'[x] = {}
             /\ tool'[x].op = "replace" => tool'[x].content \notin unseen'[x]
             /\ tool'[x].at = "noting" => tool'[x].op = "replace"
  <2>0. /\ tool[x].guarded \cap unseen[x] = {}
        /\ tool[x].op = "replace" => tool[x].content \notin unseen[x]
        /\ tool[x].at = "noting" => tool[x].op = "replace"
        /\ \A c \in unseen[x] : c # contents + 1
    BY <1>a, <1>n DEF EditsAreApart, ContentsAreKnown
  <2>1. ToolStep(x)  BY ToolSteps
  <2>2. CASE tool'[x] = tool[x]
    <3>1. tool[x].content # contents + 1 /\ \A c \in tool[x].guarded : c # contents + 1
      BY <1>a, <1>n DEF ContentsAreKnown, ToolRecord
    <3> QED  BY <1>1, <2>0, <2>2, <3>1
  <2>3. CASE tool'[x] = NoTool  BY <2>3 DEF NoTool
  <2>4. CASE ToolBegins(x)
    <3>1. CASE BeginReplace(x) /\ tool'[x] = [NoTool EXCEPT !.op = "replace", !.at = "capturing",
                                                   !.content = contents + 1, !.guarded = {file}]
      <4>1. unseen' = unseen /\ baseline[x] \in {{}, {file}}  BY <3>1 DEF BeginReplace, MayOverwrite, history
      <4>2. file \notin unseen[x]  BY <4>1 DEF EditsAreApart
      <4> QED  BY <3>1, <4>1, <4>2, <2>0 DEF NoTool
    <3>2. CASE \E b \in Backup : \E content \in data[b] :
             tool'[x] = [NoTool EXCEPT !.op = "restore", !.at = "capturing", !.content = content]
      BY <3>2 DEF NoTool
    <3>3. CASE \E b \in Backup, place \in {"asked", "authorized"} :
             tool'[x] = [NoTool EXCEPT !.op = "delete", !.at = place, !.backup = b, !.document = manifest]
      BY <3>3 DEF NoTool
    <3> QED  BY <2>4, <3>1, <3>2, <3>3 DEF ToolBegins
  <2>5. CASE GoesOn(x)
    <3>1. tool'[x].guarded = tool[x].guarded /\ tool'[x].content = tool[x].content /\ tool'[x].op = tool[x].op
          /\ (tool'[x].at = "noting" => tool[x].op = "replace")
      BY <2>5 DEF GoesOn, GoesFrom
    <3>2. tool' # tool  BY <2>5 DEF GoesOn, GoesFrom
    <3> QED  BY <1>1, <2>0, <3>1, <3>2
  <2> QED  BY <2>1, <2>2, <2>3, <2>4, <2>5 DEF ToolStep
<1> QED  BY <1>3, <1>4, <1>5 DEF EditsAreApart

\* What was looked at and overwritten can be found again unless it was given up, deletions meet
\* what was asked, and no agent overwrites an edit it has not seen that was there when the guard
\* looked: for any number of agents, backups, failures and ends of the process.  An edit made
\* between the guard and the capture is in the copy, and overwritten (tools/builtins.ts:553-559).
THEOREM PreImagesAreSafe == VaultSpec => []VaultInv
<1>1. VaultInit => VaultIInv
  <2> SUFFICES ASSUME VaultInit PROVE VaultIInv  OBVIOUS
  <2>1. manifest \in Manifest /\ manifestFile \in Manifest /\ data \in [Backup -> SUBSET Nat]
    BY DEF VaultInit, Manifest, Listing, Standing
  <2>2. tool \in [Agent -> ToolRecord]  BY NoToolFields DEF VaultInit
  <2>3. VaultTypeOK  BY <2>1, <2>2 DEF VaultInit, VaultTypeOK, ToolsDo, NoTool
  <2>4. overwritten \subseteq KeptCopies /\ CopiesAreKept /\ surprised = FALSE
    BY DEF VaultInit, CopiesAreKept, NoTool
  <2>5. ManifestsArePast  BY DEF VaultInit, ManifestsArePast, IsPast, NoTool, Saving
  <2>6. DeletionsKnow /\ EditsAreApart  BY DEF VaultInit, DeletionsKnow, EditsAreApart, NoTool
  <2>7. ContentsAreKnown  BY DEF VaultInit, ContentsAreKnown, NoTool
  <2> QED  BY <2>3, <2>4, <2>5, <2>6, <2>7 DEF VaultIInv
<1>2. VaultIInv /\ [VaultNext]_vaultVars => VaultIInv'
  BY VaultTypes, ManifestsStayPast, CopiesStayKept, DeletionsKnowOn, ContentsStayKnown, EditsStayApart DEF VaultIInv
<1>3. VaultIInv => VaultInv
  <2> SUFFICES ASSUME VaultIInv PROVE VaultInv  OBVIOUS
  <2>1. PreImagesAreKept  BY DEF VaultIInv, PreImagesAreKept, KeptCopies
  <2>2. DeletionsAreAsAsked  BY DEF VaultIInv, DeletionsAreAsAsked
  <2>3. EditsAreRespected  BY DEF VaultIInv, EditsAreApart, EditsAreRespected
  <2> QED  BY <2>1, <2>2, <2>3 DEF VaultInv
<1> QED  BY <1>1, <1>2, <1>3, PTL DEF VaultSpec
-----------------------------------------------------------------------------
(* Preserved repositories (LocalPreservation).                             *)

Highest == MaxEdits + 2
Repository == [head : 0..Highest, index : 0..Highest, tree : 0..Highest, file : [File -> 0..Highest]]

Outputs == (SUBSET (File \cup {"staged", "unstaged"})) \cup (SUBSET (Nat \X Nat)) \cup (SUBSET Nat)
SaverRecord ==
    [at : {"idle", "refs", "first", "files", "second"}, id : Nat, base : Nat, refs : Nat,
     out : Seq(Outputs), file : SUBSET (File \X Nat), failed : BOOLEAN, lost : Nat]
PointRecord ==
    [id : Nat, status : {"ready", "incomplete", "failed"},
     key : {<<>>} \cup (Nat \X Nat \X Outputs \X Outputs \X Outputs \X SUBSET (File \X Nat)),
     lost : Nat, isRestored : BOOLEAN, isReadable : BOOLEAN]

PointsTypeOK ==
    /\ work \in Repository /\ edits \in 0..MaxEdits /\ begun \in Nat
    /\ saving \in [Saver -> SaverRecord] /\ moments \in [Saver -> SUBSET Repository]
    /\ points \subseteq PointRecord /\ restoring \subseteq points

\* The person's numbers grow: a commit takes the index, the index the tree.
IsOrdered(m) == m.head <= m.index /\ m.index <= m.tree
IsBefore(m, k) == m.head <= k.head /\ m.index <= k.index /\ m.tree <= k.tree
NumbersGrow ==
    /\ IsOrdered(work) /\ work.tree <= edits + 2 /\ \A f \in File : work.file[f] <= edits + 2

\* The moments of a call are those since it began, in the order in which they were.
Active(c) == ~SaverAt(c, "idle")
Precedes(m, c) == m \in moments[c] \/ \A k \in moments[c] : IsBefore(m, k)
MomentsAreKnown ==
    /\ \A c \in Saver : IF Active(c) THEN work \in moments[c] ELSE moments[c] = {}
    /\ \A c \in Saver : \A m \in moments[c] : IsOrdered(m) /\ IsBefore(m, work)
    /\ \A c, d \in Saver : \A m \in moments[d] : Active(c) => Precedes(m, c)

\* The command n has shown the repository as it was at the moment m.
Shows(n, output, m) ==
    /\ n \in {1, 5} => ("staged" \in output <=> m.head # m.index) /\ ("unstaged" \in output <=> m.index # m.tree)
    /\ n \in {2, 6} => output = Patch(m.head, m.index)
    /\ n \in {3, 7} => output = Patch(m.index, m.tree)
    /\ n \in {4, 8} => output = {m.index}

LengthsFit ==
    \A c \in Saver :
        /\ saving[c].at \in {"idle", "refs"} => Len(saving[c].out) = 0
        /\ saving[c].at = "first" => Len(saving[c].out) \in 0..3
        /\ saving[c].at = "files" => Len(saving[c].out) = 4
        /\ saving[c].at = "second" => Len(saving[c].out) \in 4..8

\* What a call has read, while no command has failed, was so at moments of the call that came
\* one after the other.
Read(c, when) ==
    /\ saving[c].base = when[0].head
    /\ \A n \in 1..Len(saving[c].out) : Shows(n, saving[c].out[n], when[n])
    /\ \A i, j \in 0..Len(saving[c].out) : i <= j => IsBefore(when[i], when[j])
ReadingsAreMoments ==
    \A c \in Saver : Active(c) /\ saving[c].lost = 0 =>
        \E when \in [0..Len(saving[c].out) -> moments[c]] : Read(c, when)

\* The parts of a key are those of a moment m: the patches, and with them what they say of
\* the base and of the status.
KeyOf(base, status, cached, unstaged, m) ==
    /\ cached = Patch(m.head, m.index) /\ unstaged = Patch(m.index, m.tree)
    /\ base <= m.head
    /\ base = m.head /\ m.head = m.index => "staged" \notin status
    /\ m.index = m.tree => "unstaged" \notin status

\* A point that is ready is of a moment, which no call that goes on has forgotten unless it
\* began later.
PointsAreMoments ==
    \A p \in points : p.status = "ready" /\ p.lost = 0 =>
        \E m \in Repository :
            /\ IsOrdered(m) /\ IsBefore(m, work) /\ KeyOf(p.key[1], p.key[3], p.key[4], p.key[5], m)
            /\ \A c \in Saver : Active(c) => Precedes(m, c)

\* Points are numbered in the order in which their calls began.
PointsAreNumbered ==
    /\ \A p, q \in points : p.id = q.id => p = q
    /\ \A p \in points : p.id <= begun
    /\ \A c \in Saver : Active(c) => /\ saving[c].id <= begun /\ \A p \in points : p.id # saving[c].id
                                     /\ \A d \in Saver : Active(d) /\ saving[d].id = saving[c].id => c = d
    /\ \A p, q \in restoring : p = q
    /\ \A p \in restoring : ~p.isReadable

PreservationIInv ==
    PointsTypeOK /\ NumbersGrow /\ MomentsAreKnown /\ LengthsFit /\ ReadingsAreMoments /\ PointsAreMoments /\ PointsAreNumbered

LEMMA PatchesCompare ==
    \A a, b, c, d : Patch(a, b) = Patch(c, d) => (a = b <=> c = d) /\ (a # b => a = c /\ b = d)
<1> SUFFICES ASSUME NEW a, NEW b, NEW c, NEW d, Patch(a, b) = Patch(c, d)
             PROVE  (a = b <=> c = d) /\ (a # b => a = c /\ b = d)
  OBVIOUS
<1>1. CASE a = b  BY <1>1 DEF Patch
<1>2. CASE a # b
  <2>1. c # d /\ <<a, b>> \in Patch(c, d)  BY <1>2 DEF Patch
  <2>2. <<a, b>> = <<c, d>>  BY <2>1 DEF Patch
  <2> QED  BY <1>2, <2>1, <2>2
<1> QED  BY <1>1, <1>2

LEMMA MomentFields ==
    ASSUME NEW m \in Repository
    PROVE  m.head \in Nat /\ m.index \in Nat /\ m.tree \in Nat
  BY PreservationAssumption DEF Repository, Highest

\* Two equal readings: what they show was so at the third command of the first or of the
\* second.
LEMMA EqualReadings ==
    ASSUME NEW when \in [0..8 -> Repository], NEW out, NEW base,
           \A n \in 0..8 : IsOrdered(when[n]),
           base = when[0].head,
           \A n \in 1..8 : Shows(n, out[n], when[n]),
           \A i, j \in 0..8 : i <= j => IsBefore(when[i], when[j]),
           \A n \in 1..4 : out[n] = out[n + 4]
    PROVE  \E n \in {3, 7} : KeyOf(base, out[1], out[2], out[3], when[n])
<1> DEFINE h(n) == when[n].head
           i(n) == when[n].index
           t(n) == when[n].tree
<1>t. \A n \in 0..8 : h(n) \in Nat /\ i(n) \in Nat /\ t(n) \in Nat  BY MomentFields
<1>o. \A n \in 0..8 : h(n) <= i(n) /\ i(n) <= t(n)  BY DEF IsOrdered
<1>b. \A k, l \in 0..8 : k <= l => h(k) <= h(l) /\ i(k) <= i(l) /\ t(k) <= t(l)  BY DEF IsBefore
<1>1. /\ out[2] = Patch(h(2), i(2)) /\ out[2] = Patch(h(6), i(6))
      /\ out[3] = Patch(i(3), t(3)) /\ out[3] = Patch(i(7), t(7))
      /\ i(4) = i(8)
      /\ h(5) = i(5) => "staged" \notin out[1]
      /\ i(5) = t(5) => "unstaged" \notin out[1]
  <2>1. out[2] = out[6] /\ out[3] = out[7] /\ out[4] = out[8] /\ out[1] = out[5]
    <3>1. out[1] = out[1 + 4] /\ out[2] = out[2 + 4] /\ out[3] = out[3 + 4] /\ out[4] = out[4 + 4]  OBVIOUS
    <3> QED  BY <3>1
  <2>2. Shows(2, out[2], when[2]) /\ Shows(6, out[6], when[6])  OBVIOUS
  <2>3. Shows(3, out[3], when[3]) /\ Shows(7, out[7], when[7])  OBVIOUS
  <2>4. Shows(4, out[4], when[4]) /\ Shows(8, out[8], when[8])  OBVIOUS
  <2>5. Shows(5, out[5], when[5])  OBVIOUS
  <2>6. out[2] = Patch(h(2), i(2)) /\ out[2] = Patch(h(6), i(6))  BY <2>1, <2>2 DEF Shows
  <2>7. out[3] = Patch(i(3), t(3)) /\ out[3] = Patch(i(7), t(7))  BY <2>1, <2>3 DEF Shows
  <2>8. i(4) = i(8)  BY <2>1, <2>4 DEF Shows
  <2>9. (h(5) = i(5) => "staged" \notin out[1]) /\ (i(5) = t(5) => "unstaged" \notin out[1])
    BY <2>1, <2>5 DEF Shows
  <2> QED  BY <2>6, <2>7, <2>8, <2>9
<1>2. /\ h(0) \in Nat /\ h(2) \in Nat /\ h(3) \in Nat /\ h(5) \in Nat /\ h(6) \in Nat /\ h(7) \in Nat
      /\ i(2) \in Nat /\ i(3) \in Nat /\ i(4) \in Nat /\ i(5) \in Nat /\ i(6) \in Nat /\ i(7) \in Nat /\ i(8) \in Nat
      /\ t(3) \in Nat /\ t(5) \in Nat /\ t(7) \in Nat
  BY <1>t
<1>3. /\ h(0) <= h(3) /\ h(0) <= h(5) /\ h(5) <= h(7) /\ h(2) <= h(3) /\ h(3) <= h(6) /\ h(6) <= h(7) /\ h(0) <= h(7)
      /\ i(2) <= i(3) /\ i(3) <= i(6) /\ i(4) <= i(5) /\ i(5) <= i(6) /\ i(6) <= i(7) /\ i(7) <= i(8)
      /\ t(5) <= t(7)
  BY <1>b
<1>4. h(5) <= i(5) /\ i(5) <= t(5) /\ h(7) <= i(7) /\ i(7) <= t(7)  BY <1>o
<1> HIDE DEF h, i, t
<1>5. i(5) = i(7) /\ i(6) = i(7)  BY <1>1, <1>2, <1>3
<1>6. i(7) = t(7) => "unstaged" \notin out[1]
  <2>1. i(7) = t(7) => i(5) = t(5)  BY <1>2, <1>3, <1>4, <1>5
  <2> QED  BY <2>1, <1>1
<1>7. CASE h(6) = h(7)
  <2>1. out[2] = Patch(h(7), i(7)) /\ out[3] = Patch(i(7), t(7)) /\ h(0) <= h(7)  BY <1>1, <1>3, <1>5, <1>7
  <2>2. h(0) = h(7) /\ h(7) = i(7) => h(5) = i(5)  BY <1>2, <1>3, <1>5
  <2>3. h(0) = h(7) /\ h(7) = i(7) => "staged" \notin out[1]  BY <2>2, <1>1
  <2>4. KeyOf(base, out[1], out[2], out[3], when[7])  BY <2>1, <2>3, <1>6 DEF KeyOf, h, i, t
  <2> QED  BY <2>4
<1>8. CASE h(6) # h(7)
  <2>1. h(6) # i(6)  BY <1>2, <1>3, <1>4, <1>5, <1>8
  <2>p. Patch(h(6), i(6)) = Patch(h(2), i(2))  BY <1>1
  <2>2. h(2) = h(6) /\ i(2) = i(6)  BY <2>1, <2>p, PatchesCompare
  <2>3. h(3) = h(6) /\ i(3) = i(6)  BY <1>2, <1>3, <2>2
  <2>4. out[2] = Patch(h(3), i(3)) /\ out[3] = Patch(i(3), t(3)) /\ h(0) <= h(3) /\ h(3) # i(3)
    BY <1>1, <1>3, <2>1, <2>3
  <2>q. Patch(i(3), t(3)) = Patch(i(7), t(7))  BY <1>1
  <2>5. i(3) = t(3) => i(7) = t(7)  BY <2>q, PatchesCompare
  <2>6. KeyOf(base, out[1], out[2], out[3], when[3])  BY <2>4, <2>5, <1>6 DEF KeyOf, h, i, t
  <2> QED  BY <2>6
<1> QED  BY <1>7, <1>8

\* One reading that has the key of an older point: what it shows was so at its first, its
\* second or its third command.
LEMMA FoundReading ==
    ASSUME NEW when \in [0..4 -> Repository], NEW out, NEW base, NEW m \in Repository,
           \A n \in 0..4 : IsOrdered(when[n]),
           base = when[0].head,
           \A n \in 1..4 : Shows(n, out[n], when[n]),
           \A i, j \in 0..4 : i <= j => IsBefore(when[i], when[j]),
           IsOrdered(m), IsBefore(m, when[0]), KeyOf(base, out[1], out[2], out[3], m)
    PROVE  \E n \in {1, 2} : out[2] = Patch(when[n].head, when[n].index) /\ out[3] = Patch(when[n].index, when[n].tree)
<1> DEFINE h(n) == when[n].head
           i(n) == when[n].index
           t(n) == when[n].tree
<1>t. \A n \in 0..4 : h(n) \in Nat /\ i(n) \in Nat /\ t(n) \in Nat  BY MomentFields
<1>o. \A n \in 0..4 : h(n) <= i(n) /\ i(n) <= t(n)  BY DEF IsOrdered
<1>b. \A k, l \in 0..4 : k <= l => h(k) <= h(l) /\ i(k) <= i(l) /\ t(k) <= t(l)  BY DEF IsBefore
<1>m. m.head \in Nat /\ m.index \in Nat /\ m.tree \in Nat  BY MomentFields
<1>1. /\ out[2] = Patch(h(2), i(2)) /\ out[3] = Patch(i(3), t(3))
      /\ "staged" \notin out[1] => h(1) = i(1)
      /\ "unstaged" \notin out[1] => i(1) = t(1)
  <2>1. Shows(1, out[1], when[1]) /\ Shows(2, out[2], when[2]) /\ Shows(3, out[3], when[3])  OBVIOUS
  <2> QED  BY <2>1 DEF Shows
<1>2. /\ h(0) \in Nat /\ h(1) \in Nat /\ h(2) \in Nat /\ i(0) \in Nat /\ i(1) \in Nat /\ i(2) \in Nat /\ i(3) \in Nat
      /\ t(0) \in Nat /\ t(1) \in Nat /\ t(2) \in Nat /\ t(3) \in Nat
  BY <1>t
<1>3. /\ h(0) <= h(1) /\ h(1) <= h(2) /\ i(0) <= i(1) /\ i(1) <= i(2) /\ i(2) <= i(3)
      /\ t(0) <= t(1) /\ t(1) <= t(2) /\ t(2) <= t(3)
  BY <1>b
<1>4. h(1) <= i(1) /\ i(1) <= t(1) /\ h(2) <= i(2)  BY <1>o
<1>5. /\ out[2] = Patch(m.head, m.index) /\ out[3] = Patch(m.index, m.tree) /\ h(0) <= m.head
      /\ m.head <= h(0) /\ m.index <= i(0) /\ m.tree <= t(0)
      /\ h(0) = m.head /\ m.head = m.index => "staged" \notin out[1]
      /\ m.index = m.tree => "unstaged" \notin out[1]
  BY DEF KeyOf, IsBefore
<1> SUFFICES \E n \in {1, 2} : out[2] = Patch(h(n), i(n)) /\ out[3] = Patch(i(n), t(n))  OBVIOUS
<1> HIDE DEF h, i, t
<1>6. h(0) = m.head  BY <1>2, <1>5, <1>m
<1>7. CASE m.index # m.tree
  <2>1. i(3) = m.index /\ t(3) = m.tree  BY <1>1, <1>2, <1>5, <1>7, <1>m, PatchesCompare
  <2>2. i(2) = m.index /\ t(2) = m.tree  BY <1>2, <1>3, <1>5, <1>m, <2>1
  <2>3. out[3] = Patch(i(2), t(2))  BY <1>5, <2>2
  <2> QED  BY <1>1, <2>3
<1>8. CASE m.index = m.tree
  <2>1. i(1) = t(1)  BY <1>1, <1>5, <1>8
  <2>2. out[3] = Patch(i(1), t(1))  BY <2>1, <1>5, <1>8 DEF Patch
  <2>3. CASE m.head = m.index
    <3>1. h(1) = i(1)  BY <1>1, <1>5, <1>6, <2>3
    <3>2. out[2] = Patch(h(1), i(1))  BY <3>1, <1>5, <2>3 DEF Patch
    <3> QED  BY <2>2, <3>2
  <2>4. CASE m.head # m.index
    <3>1. h(2) = m.head /\ i(2) = m.index  BY <1>1, <1>2, <1>5, <1>m, <2>4, PatchesCompare
    <3>2. h(1) = m.head /\ i(1) = m.index  BY <1>2, <1>3, <1>5, <1>6, <1>m, <3>1
    <3>3. out[2] = Patch(h(1), i(1))  BY <1>5, <3>2
    <3> QED  BY <2>2, <3>3
  <2> QED  BY <2>3, <2>4
<1> QED  BY <1>7, <1>8

-----------------------------------------------------------------------------
\* The answers that are ready.

LEMMA CallsKnowOneMoment ==
    ASSUME PointsTypeOK, MomentsAreKnown, ReadingsAreMoments, NEW c \in Saver,
           SaverAt(c, "second"), saving[c].lost = 0, Len(saving[c].out) = 8, IsUnmodified(c)
    PROVE  \E m \in moments[c] :
              KeyOf(saving[c].base, saving[c].out[1], saving[c].out[2], saving[c].out[3], m)
<1>1. Active(c)  BY DEF Active, SaverAt
<1>2. PICK when \in [0..8 -> moments[c]] : Read(c, when)
  BY <1>1 DEF ReadingsAreMoments
<1>3. moments[c] \subseteq Repository  BY DEF PointsTypeOK
<1>4. when \in [0..8 -> Repository] /\ \A n \in 0..8 : IsOrdered(when[n])  BY <1>2, <1>3 DEF MomentsAreKnown
<1>5. /\ saving[c].base = when[0].head
      /\ \A n \in 1..8 : Shows(n, saving[c].out[n], when[n])
      /\ \A i, j \in 0..8 : i <= j => IsBefore(when[i], when[j])
  BY <1>2 DEF Read
<1>6. \A n \in 1..4 : saving[c].out[n] = saving[c].out[n + 4]  BY DEF IsUnmodified
<1>7. PICK n \in {3, 7} : KeyOf(saving[c].base, saving[c].out[1], saving[c].out[2], saving[c].out[3], when[n])
  BY <1>4, <1>5, <1>6, EqualReadings
<1> QED  BY <1>2, <1>7

LEMMA ReadyIsOneMoment ==
    ASSUME PreservationIInv, NEW c \in Saver, AnswersReady(c)
    PROVE  \E m \in moments[c] : Cached(c) = Patch(m.head, m.index) /\ Unstaged(c) = Patch(m.index, m.tree)
<1> USE DEF PreservationIInv
<1>1. CASE SaverAt(c, "second") /\ Len(saving[c].out) = 8 /\ IsComplete(c)
  <2>1. PICK m \in moments[c] : KeyOf(saving[c].base, saving[c].out[1], saving[c].out[2], saving[c].out[3], m)
    BY <1>1, CallsKnowOneMoment DEF AnswersReady, IsComplete
  <2> QED  BY <2>1 DEF KeyOf, Cached, Unstaged
<1>2. ASSUME AllRead(c), NEW p \in Reusable(c), p.lost = 0
      PROVE  \E m \in moments[c] : Cached(c) = Patch(m.head, m.index) /\ Unstaged(c) = Patch(m.index, m.tree)
  <2>1. SaverAt(c, "files") /\ Active(c) /\ saving[c].lost = 0 /\ Len(saving[c].out) = 4
    BY <1>2 DEF AllRead, AnswersReady, Active, SaverAt, LengthsFit
  <2>2. PICK when \in [0..4 -> moments[c]] : Read(c, when)  BY <2>1 DEF ReadingsAreMoments
  <2>3. moments[c] \subseteq Repository  BY DEF PointsTypeOK
  <2>4. when \in [0..4 -> Repository] /\ \A n \in 0..4 : IsOrdered(when[n])  BY <2>2, <2>3 DEF MomentsAreKnown
  <2>5. /\ saving[c].base = when[0].head
        /\ \A n \in 1..4 : Shows(n, saving[c].out[n], when[n])
        /\ \A i, j \in 0..4 : i <= j => IsBefore(when[i], when[j])
    BY <2>1, <2>2 DEF Read
  <2>6. p \in points /\ p.status = "ready" /\ p.key = ReuseKey(c)  BY <1>2 DEF Reusable
  <2>7. p.key[1] = saving[c].base /\ p.key[3] = saving[c].out[1] /\ p.key[4] = saving[c].out[2]
        /\ p.key[5] = saving[c].out[3]
    BY <2>6 DEF ReuseKey
  <2>8. PICK m \in Repository :
           /\ IsOrdered(m) /\ KeyOf(saving[c].base, saving[c].out[1], saving[c].out[2], saving[c].out[3], m)
           /\ Precedes(m, c)
    BY <1>2, <2>1, <2>6, <2>7 DEF PointsAreMoments
  <2>9. CASE m \in moments[c]  BY <2>8, <2>9 DEF KeyOf, Cached, Unstaged
  <2>10. CASE m \notin moments[c]
    <3>1. IsBefore(m, when[0])  BY <2>2, <2>8, <2>10 DEF Precedes
    <3>2. PICK n \in {1, 2} : /\ saving[c].out[2] = Patch(when[n].head, when[n].index)
                             /\ saving[c].out[3] = Patch(when[n].index, when[n].tree)
      BY <2>4, <2>5, <2>8, <3>1, FoundReading
    <3> QED  BY <2>2, <3>2 DEF Cached, Unstaged
  <2> QED  BY <2>9, <2>10
<1> QED  BY <1>1, <1>2 DEF AnswersReady

-----------------------------------------------------------------------------
\* The steps of the calls.

\* A call that reads one more output: the command n, of what is there now unless it fails.
ReadsOne(c) ==
    \E output \in Outputs, n \in 1..4 :
        /\ \/ /\ saving[c].at = "first" /\ Len(saving[c].out) = n - 1
              /\ saving'[c].at = IF n = 4 THEN "files" ELSE "first"
           \/ saving[c].at = "second" /\ Len(saving[c].out) = n + 3 /\ saving'[c].at = "second"
        /\ saving'[c].out = Append(saving[c].out, output)
        /\ saving'[c].lost = 0 => saving[c].lost = 0 /\ output = Output(n)

SaverContinues(c) ==
    /\ Active(c) /\ moments'[c] = moments[c]
    /\ saving'[c].base = saving[c].base /\ saving'[c].id = saving[c].id
    /\ \/ ReadsOne(c)
       \/ /\ saving'[c].out = saving[c].out /\ saving'[c].lost = saving[c].lost
          /\ <<saving[c].at, saving'[c].at>> \in {<<"refs", "first">>, <<"files", "files">>, <<"files", "second">>}

SaverBegins(c) ==
    /\ ~Active(c) /\ begun' = begun + 1 /\ moments'[c] = {work}
    /\ saving'[c] = [NoSave EXCEPT !.at = "refs", !.id = begun + 1, !.base = work.head]

SaverStep(c) ==
    \/ saving'[c] = saving[c] /\ moments'[c] = moments[c]
    \/ saving'[c] = NoSave /\ moments'[c] = {}
    \/ SaverBegins(c) \/ SaverContinues(c)

LEMMA NoSaveFields == NoSave \in SaverRecord /\ NoSave.at = "idle" /\ NoSave.out = <<>>
<1>1. <<>> \in Seq(Outputs) /\ {} \in SUBSET (File \X Nat)  BY EmptySeq
<1> QED  BY <1>1 DEF NoSave, SaverRecord

LEMMA OutputsAreSets ==
    ASSUME PointsTypeOK, NEW n \in 1..4
    PROVE  Output(n) \in Outputs /\ {} \in Outputs
<1>1. work.head \in Nat /\ work.index \in Nat /\ work.tree \in Nat  BY MomentFields DEF PointsTypeOK
<1>2. n = 1 => Output(n) \in SUBSET (File \cup {"staged", "unstaged"})  BY DEF Output, Untracked
<1>3. n = 2 => Output(n) \in SUBSET (Nat \X Nat)  BY <1>1 DEF Output, Patch
<1>4. n = 3 => Output(n) \in SUBSET (Nat \X Nat)  BY <1>1 DEF Output, Patch
<1>5. n = 4 => Output(n) \in SUBSET Nat  BY <1>1 DEF Output
<1>6. n = 1 \/ n = 2 \/ n = 3 \/ n = 4  OBVIOUS
<1>7. \A o : o \in SUBSET (File \cup {"staged", "unstaged"}) \/ o \in SUBSET (Nat \X Nat) \/ o \in SUBSET Nat => o \in Outputs
  BY DEF Outputs
<1>8. {} \in SUBSET Nat  OBVIOUS
<1> QED  BY <1>2, <1>3, <1>4, <1>5, <1>6, <1>7, <1>8

\* What a git command leaves in the record of its call.
LEMMA OutputIsAdded ==
    ASSUME PointsTypeOK, NEW c \in Saver, NEW n \in 1..4, NEW output, NEW failures \in 0..1,
           RunGit(n, output, failures)
    PROVE  /\ output \in Outputs /\ Reads(c, output, failures) \in SaverRecord
           /\ Reads(c, output, failures).at = saving[c].at /\ Reads(c, output, failures).id = saving[c].id
           /\ Reads(c, output, failures).base = saving[c].base
           /\ Reads(c, output, failures).failed \in BOOLEAN
           /\ Reads(c, output, failures).out = Append(saving[c].out, output)
           /\ Reads(c, output, failures).lost = 0 => saving[c].lost = 0 /\ output = Output(n)
<1>1. saving[c] \in SaverRecord  BY DEF PointsTypeOK
<1>2. output \in Outputs  BY OutputsAreSets DEF RunGit
<1>3. saving[c].out \in Seq(Outputs) /\ saving[c].lost \in Nat  BY <1>1 DEF SaverRecord
<1>4. Append(saving[c].out, output) \in Seq(Outputs)  BY <1>2, <1>3, AppendProperties
<1> DEFINE lost == saving[c].lost + failures
<1>5. lost \in Nat /\ (lost = 0 => saving[c].lost = 0 /\ failures = 0)  BY <1>3
<1>6. Reads(c, output, failures) = [saving[c] EXCEPT !.out = Append(saving[c].out, output), !.lost = lost]
  BY <1>1 DEF Reads, SaverRecord
<1>7. failures = 0 => output = Output(n)  BY DEF RunGit
<1> HIDE DEF lost
<1> QED  BY <1>1, <1>2, <1>4, <1>5, <1>6, <1>7 DEF SaverRecord

LEMMA WorkStaysARepository ==
    ASSUME PointsTypeOK, PersonWorks
    PROVE  work' \in Repository
<1>a. work \in Repository  BY DEF PointsTypeOK
<1>1. edits + 3 \in 0..Highest /\ 0 \in 0..Highest
  <2>1. \A e, h \in Nat : e < h => e + 3 \in 0..h + 2 /\ 0 \in 0..h + 2  OBVIOUS
  <2> QED  BY <2>1, PreservationAssumption DEF PersonWorks, WorkBecomes, Highest, PointsTypeOK
<1>2. \/ work' = [work EXCEPT !.tree = edits + 3]
      \/ work' = [work EXCEPT !.index = work.tree]
      \/ work' = [work EXCEPT !.head = work.index]
      \/ \E f \in File : work' = [work EXCEPT !.file[f] = edits + 3] \/ work' = [work EXCEPT !.file[f] = 0]
  BY DEF PersonWorks, WorkBecomes
<1>3. ASSUME NEW f \in File, NEW k \in 0..Highest PROVE [work EXCEPT !.file[f] = k] \in Repository
  <2>1. [work.file EXCEPT ![f] = k] \in [File -> 0..Highest]  BY <1>a DEF Repository
  <2>2. [work EXCEPT !.file[f] = k] = [work EXCEPT !.file = [work.file EXCEPT ![f] = k]]
    BY <1>a DEF Repository
  <2> QED  BY <1>a, <2>1, <2>2 DEF Repository
<1>4. \A k \in 0..Highest : [work EXCEPT !.tree = k] \in Repository  BY <1>a DEF Repository
<1>5. [work EXCEPT !.index = work.tree] \in Repository /\ [work EXCEPT !.head = work.index] \in Repository
  BY <1>a DEF Repository
<1> QED  BY <1>1, <1>2, <1>3, <1>4, <1>5

LEMMA PreservationTypes ==
    ASSUME PointsTypeOK, NumbersGrow, LengthsFit, [PreservationNext]_preservationVars
    PROVE  /\ saving' \in [Saver -> SaverRecord] /\ moments' \in [Saver -> SUBSET Repository]
           /\ \/ PersonWorks
              \/ /\ UNCHANGED person /\ \A c \in Saver : SaverStep(c)
                 /\ \A c, d \in Saver : c # d => saving'[c] = saving[c] \/ saving'[d] = saving[d]
<1> USE DEF person
<1>a. /\ saving \in [Saver -> SaverRecord] /\ moments \in [Saver -> SUBSET Repository] /\ work \in Repository
      /\ begun \in Nat
  BY DEF PointsTypeOK
<1> DEFINE Goal == /\ saving' \in [Saver -> SaverRecord] /\ moments' \in [Saver -> SUBSET Repository]
                   /\ \/ PersonWorks
                      \/ /\ UNCHANGED person /\ \A c \in Saver : SaverStep(c)
                         /\ \A c, d \in Saver : c # d => saving'[c] = saving[c] \/ saving'[d] = saving[d]
<1>s. ASSUME UNCHANGED <<work, edits>>, NEW c \in Saver, NEW r \in SaverRecord, saving' = [saving EXCEPT ![c] = r],
             moments' \in [Saver -> SUBSET Repository], \A d \in Saver : d # c => moments'[d] = moments[d],
             saving'[c] = r => SaverStep(c)
      PROVE  Goal
  BY <1>s, <1>a DEF SaverStep
<1>r. ASSUME UNCHANGED <<work, edits>>, NEW c \in Saver, SaverReturns(c) PROVE Goal
  <2>1. saving' = [saving EXCEPT ![c] = NoSave] /\ moments' = [moments EXCEPT ![c] = {}]
    BY <1>r DEF SaverReturns, SaverGoes
  <2>2. moments' \in [Saver -> SUBSET Repository] /\ moments'[c] = {} /\ \A d \in Saver : d # c => moments'[d] = moments[d]
    BY <2>1, <1>a
  <2> QED  BY <1>r, <1>s, <2>1, <2>2, NoSaveFields DEF SaverStep
<1>1. CASE PersonWorks
  <2>1. saving' = saving  BY <1>1 DEF PersonWorks, WorkBecomes
  <2>2. moments' = [c \in Saver |-> IF saving[c].at = "idle" THEN {} ELSE moments[c] \cup {work'}]
    BY <1>1 DEF PersonWorks, WorkBecomes
  <2>3. work' \in Repository  BY <1>1, WorkStaysARepository
  <2> QED  BY <1>1, <1>a, <2>1, <2>2, <2>3
<1>2. ASSUME NEW c \in Saver, ReadHead(c) PROVE Goal
  <2> DEFINE r == [NoSave EXCEPT !.at = "refs", !.id = begun + 1, !.base = work.head]
  <2>n. begun + 1 \in Nat /\ work.head \in Nat  BY <1>a, MomentFields
  <2>1. r \in SaverRecord  BY <2>n, NoSaveFields DEF SaverRecord
  <2>2. saving' = [saving EXCEPT ![c] = r] /\ moments' = [moments EXCEPT ![c] = {work}] /\ UNCHANGED <<work, edits>>
    BY <1>2 DEF ReadHead, SaverGoes
  <2>3. moments' \in [Saver -> SUBSET Repository] /\ moments'[c] = {work}
        /\ \A d \in Saver : d # c => moments'[d] = moments[d]
    BY <2>2, <1>a
  <2>4. saving'[c] = r => SaverStep(c)  BY <1>2, <2>3 DEF SaverStep, SaverBegins, Active, ReadHead
  <2> HIDE DEF r
  <2> QED  BY <1>s, <2>1, <2>2, <2>3, <2>4
<1>3. ASSUME NEW c \in Saver, ReadReferences(c) PROVE Goal
  <2> DEFINE r == [saving[c] EXCEPT !.at = "first", !.refs = work.head]
  <2>1. r \in SaverRecord  BY <1>a, MomentFields DEF SaverRecord
  <2>2. saving' = [saving EXCEPT ![c] = r] /\ moments' = moments /\ UNCHANGED <<work, edits>>
    BY <1>3 DEF ReadReferences, SaverGoes
  <2>3. saving'[c] = r => SaverStep(c)
    BY <1>3, <1>a, <2>2 DEF SaverStep, SaverContinues, Active, ReadReferences, SaverAt, SaverRecord
  <2> HIDE DEF r
  <2> QED  BY <1>a, <1>s, <2>1, <2>2, <2>3
<1>4. ASSUME NEW c \in Saver, ReadFirst(c) PROVE Goal
  <2>a. saving[c].at = "first"  BY <1>4 DEF ReadFirst, SaverAt
  <2>b. Len(saving[c].out) \in 0..3  BY <2>a DEF LengthsFit
  <2>c. \A k \in 0..3 : k + 1 \in 1..4 /\ k = (k + 1) - 1  OBVIOUS
  <2>0. PICK n \in 1..4 : n = Len(saving[c].out) + 1 /\ Len(saving[c].out) = n - 1  BY <2>b, <2>c
  <2>1. PICK output \in {Output(n), {}}, failures \in 0..1 :
           /\ RunGit(n, output, failures)
           /\ SaverGoes(c, [Reads(c, output, failures) EXCEPT !.at = IF n = 4 THEN "files" ELSE @,
                                                         !.failed = @ \/ (n = 4 /\ output = {})])
    BY <1>4, <2>0 DEF ReadFirst
  <2>q. PICK q \in SaverRecord : /\ q = Reads(c, output, failures) /\ q.at = "first" /\ q.id = saving[c].id
                                 /\ q.base = saving[c].base /\ q.out = Append(saving[c].out, output)
                                 /\ q.lost = 0 => saving[c].lost = 0 /\ output = Output(n)
    <3>1. RunGit(n, output, failures)  BY <2>1
    <3>2. Reads(c, output, failures) \in SaverRecord  BY <3>1, OutputIsAdded
    <3>3. Reads(c, output, failures).lost = 0 => saving[c].lost = 0 /\ output = Output(n)  BY <3>1, OutputIsAdded
    <3>4. /\ Reads(c, output, failures).at = saving[c].at /\ Reads(c, output, failures).id = saving[c].id
          /\ Reads(c, output, failures).base = saving[c].base
          /\ Reads(c, output, failures).out = Append(saving[c].out, output)
      BY <3>1, OutputIsAdded
    <3> QED  BY <2>a, <3>2, <3>3, <3>4
  <2>2. output \in Outputs  BY <2>1, OutputsAreSets
  <2>4. (q.failed \/ (n = 4 /\ output = {})) \in BOOLEAN  OBVIOUS
  <2>p. PICK bad \in BOOLEAN : bad = (q.failed \/ (n = 4 /\ output = {}))  BY <2>4
  <2> DEFINE r == [q EXCEPT !.at = IF n = 4 THEN "files" ELSE "first", !.failed = bad]
  <2>3. saving' = [saving EXCEPT ![c] = r] /\ moments' = moments /\ UNCHANGED <<work, edits>>
    BY <1>4, <2>1, <2>q, <2>p DEF ReadFirst, SaverGoes, SaverRecord
  <2>5. r \in SaverRecord  BY <2>q DEF SaverRecord
  <2>6. /\ r.at = (IF n = 4 THEN "files" ELSE "first") /\ r.id = saving[c].id /\ r.base = saving[c].base
        /\ r.out = Append(saving[c].out, output) /\ r.lost = q.lost
    BY <2>q DEF SaverRecord
  <2> HIDE DEF r
  <2>7. ASSUME saving'[c] = r PROVE SaverStep(c)
    <3>1. ReadsOne(c)  BY <2>7, <2>a, <2>0, <2>2, <2>q, <2>6 DEF ReadsOne
    <3> QED  BY <3>1, <2>7, <2>a, <2>3, <2>6 DEF SaverStep, SaverContinues, Active, SaverAt
  <2> QED  BY <1>a, <1>s, <2>3, <2>5, <2>7
<1>5. ASSUME NEW c \in Saver, ReadUntracked(c) PROVE Goal
  <2>1. PICK f \in Listed(c) :
           SaverGoes(c, [saving[c] EXCEPT !.file = @ \cup {<<f, work.file[f]>>}, !.failed = @ \/ work.file[f] = 0])
    BY <1>5 DEF ReadUntracked
  <2>2. f \in File /\ work.file[f] \in Nat  BY <1>a, PreservationAssumption DEF Listed, Repository, Highest
  <2>3. (saving[c].failed \/ work.file[f] = 0) \in BOOLEAN  OBVIOUS
  <2>b. PICK bad \in BOOLEAN : bad = (saving[c].failed \/ work.file[f] = 0)  BY <2>3
  <2> DEFINE shown == saving[c].file \cup {<<f, work.file[f]>>}
             r == [saving[c] EXCEPT !.file = shown, !.failed = bad]
  <2>5. saving' = [saving EXCEPT ![c] = r] /\ moments' = moments /\ UNCHANGED <<work, edits>>
    BY <1>5, <1>a, <2>1, <2>b DEF ReadUntracked, SaverGoes, SaverRecord
  <2>n. shown \in SUBSET (File \X Nat)  BY <1>a, <2>2 DEF SaverRecord
  <2> HIDE DEF shown
  <2>4. r \in SaverRecord  BY <1>a, <2>n, <2>3 DEF SaverRecord
  <2>6. saving'[c] = r => SaverStep(c)
    BY <1>5, <1>a, <2>5 DEF SaverStep, SaverContinues, Active, ReadUntracked, SaverAt, SaverRecord
  <2> HIDE DEF r
  <2> QED  BY <1>a, <1>s, <2>4, <2>5, <2>6
<1>6. ASSUME NEW c \in Saver, WriteSnapshot(c) PROVE Goal
  <2>1. PICK isPartial \in BOOLEAN : SaverGoes(c, [saving[c] EXCEPT !.at = "second", !.failed = @ \/ isPartial])
    BY <1>6 DEF WriteSnapshot
  <2> DEFINE r == [saving[c] EXCEPT !.at = "second", !.failed = saving[c].failed \/ isPartial]
  <2>2. (saving[c].failed \/ isPartial) \in BOOLEAN  OBVIOUS
  <2>3. r \in SaverRecord  BY <1>a, <2>2 DEF SaverRecord
  <2>4. saving' = [saving EXCEPT ![c] = r] /\ moments' = moments /\ UNCHANGED <<work, edits>>
    BY <1>6, <1>a, <2>1 DEF WriteSnapshot, SaverGoes, SaverRecord
  <2>5. saving'[c] = r => SaverStep(c)
    BY <1>6, <1>a, <2>4 DEF SaverStep, SaverContinues, Active, WriteSnapshot, AllRead, SaverAt, SaverRecord
  <2> HIDE DEF r
  <2> QED  BY <1>a, <1>s, <2>3, <2>4, <2>5
<1>7. ASSUME NEW c \in Saver, ReadSecond(c) PROVE Goal
  <2>a. saving[c].at = "second" /\ Len(saving[c].out) - 3 <= 4  BY <1>7 DEF ReadSecond, SaverAt
  <2>b. Len(saving[c].out) \in 4..8  BY <2>a DEF LengthsFit
  <2>c. \A k \in 4..8 : k - 3 <= 4 => k - 3 \in 1..4 /\ k = (k - 3) + 3  OBVIOUS
  <2>0. PICK n \in 1..4 : n = Len(saving[c].out) - 3 /\ Len(saving[c].out) = n + 3  BY <2>a, <2>b, <2>c
  <2>1. PICK output \in {Output(n), {}}, failures \in 0..1 :
           RunGit(n, output, failures) /\ SaverGoes(c, Reads(c, output, failures))
    BY <1>7, <2>0 DEF ReadSecond
  <2>q. PICK q \in SaverRecord : /\ q = Reads(c, output, failures) /\ q.at = "second" /\ q.id = saving[c].id
                                 /\ q.base = saving[c].base /\ q.out = Append(saving[c].out, output)
                                 /\ q.lost = 0 => saving[c].lost = 0 /\ output = Output(n)
    <3>1. RunGit(n, output, failures)  BY <2>1
    <3>2. Reads(c, output, failures) \in SaverRecord  BY <3>1, OutputIsAdded
    <3>3. Reads(c, output, failures).lost = 0 => saving[c].lost = 0 /\ output = Output(n)  BY <3>1, OutputIsAdded
    <3>4. /\ Reads(c, output, failures).at = saving[c].at /\ Reads(c, output, failures).id = saving[c].id
          /\ Reads(c, output, failures).base = saving[c].base
          /\ Reads(c, output, failures).out = Append(saving[c].out, output)
      BY <3>1, OutputIsAdded
    <3> QED  BY <2>a, <3>2, <3>3, <3>4
  <2>2. output \in Outputs  BY <2>1, OutputsAreSets
  <2>3. saving' = [saving EXCEPT ![c] = q] /\ moments' = moments /\ UNCHANGED <<work, edits>>
    BY <1>7, <2>1, <2>q DEF ReadSecond, SaverGoes
  <2>4. ASSUME saving'[c] = q PROVE SaverStep(c)
    <3>1. ReadsOne(c)  BY <2>4, <2>a, <2>0, <2>2, <2>q DEF ReadsOne
    <3> QED  BY <3>1, <2>4, <2>a, <2>3, <2>q DEF SaverStep, SaverContinues, Active, SaverAt
  <2> QED  BY <1>a, <1>s, <2>3, <2>4
<1>8. CASE UNCHANGED <<work, edits, saving, moments>>  BY <1>8, <1>a DEF SaverStep
<1>9. ASSUME NEW c \in Saver, NoRepository(c) \/ ReusePoint(c) \/ Publish(c) \/ Abandon(c) PROVE Goal
  BY <1>9, <1>r, <1>8 DEF NoRepository, ReusePoint, Publish, Abandon
<1>10. CASE Restore \/ RestoreEnds \/ RestoreCrashes \/ UNCHANGED preservationVars
  BY <1>10, <1>8 DEF Restore, RestoreEnds, RestoreCrashes, preservationVars
<1> QED  BY <1>1, <1>2, <1>3, <1>4, <1>5, <1>6, <1>7, <1>9, <1>10 DEF PreservationNext

\* The person goes on; every number is a later one.
PersonStep ==
    /\ IsOrdered(work') /\ IsBefore(work, work') /\ UNCHANGED <<saving, points, restoring, begun>>
    /\ moments' = [c \in Saver |-> IF Active(c) THEN moments[c] \cup {work'} ELSE {}]

LEMMA PersonGoesOn ==
    ASSUME PointsTypeOK, NumbersGrow, PersonWorks
    PROVE  PersonStep /\ NumbersGrow' /\ edits' \in 0..MaxEdits
<1>1. /\ work.head \in Nat /\ work.index \in Nat /\ work.tree \in Nat /\ \A f \in File : work.file[f] \in Nat
      /\ edits \in Nat /\ work \in [head : 0..Highest, index : 0..Highest, tree : 0..Highest, file : [File -> 0..Highest]]
  BY PreservationAssumption DEF PointsTypeOK, Repository, Highest
<1>2. edits < MaxEdits /\ edits' = edits + 1 /\ edits' + 2 = edits + 3
  BY <1>1 DEF PersonWorks, WorkBecomes
<1>3. \/ work' = [work EXCEPT !.tree = edits + 3]
      \/ work' = [work EXCEPT !.index = work.tree]
      \/ work' = [work EXCEPT !.head = work.index]
      \/ \E f \in File, k \in {edits + 3, 0} : work' = [work EXCEPT !.file[f] = k]
  BY DEF PersonWorks, WorkBecomes
<1>4. /\ UNCHANGED <<saving, points, restoring, begun>>
      /\ moments' = [c \in Saver |-> IF Active(c) THEN moments[c] \cup {work'} ELSE {}]
  BY DEF PersonWorks, WorkBecomes, Active, SaverAt
<1>5. work.head <= work.index /\ work.index <= work.tree /\ work.tree <= edits + 2
  BY DEF NumbersGrow, IsOrdered
<1>6. /\ work'.head \in {work.head, work.index} /\ work'.index \in {work.index, work.tree}
      /\ work'.tree \in {work.tree, edits + 3}
      /\ work'.head # work.head => work'.index = work.index
      /\ work'.index # work.index => work'.tree = work.tree
      /\ work'.tree # work.tree => work'.index = work.index
  BY <1>1, <1>3
<1>7. \A f \in File : work'.file[f] \in {work.file[f], edits + 3, 0}
  BY <1>1, <1>3
<1>8. IsOrdered(work') /\ IsBefore(work, work') /\ work'.tree <= edits' + 2
  BY <1>1, <1>2, <1>5, <1>6 DEF IsOrdered, IsBefore
<1>9. \A f \in File : work'.file[f] <= edits' + 2
  <2>1. \A f \in File : work.file[f] <= edits + 2  BY DEF NumbersGrow
  <2> QED  BY <1>1, <1>2, <1>7, <2>1
<1> QED
  <2>1. edits' \in 0..MaxEdits  BY <1>1, <1>2, PreservationAssumption
  <2>2. NumbersGrow'  BY <1>8, <1>9 DEF NumbersGrow, IsOrdered
  <2> QED  BY <1>4, <1>8, <2>1, <2>2 DEF PersonStep

\* A new point: its directory has the number of its call.
PointOfCall(p, c) ==
    /\ p.id = saving[c].id /\ p.lost = saving[c].lost /\ p.key = ReuseKey(c)
    /\ p.status = "ready" => IsComplete(c)
    /\ SaverAt(c, "second") /\ Len(saving[c].out) = 8 /\ begun' = begun /\ ~Active(c)'
PointsGrow ==
    \E p \in PointRecord :
        /\ points' = points \cup {p} /\ restoring' = restoring
        /\ \/ p.status = "failed" /\ p.id = begun + 1 /\ begun' = begun + 1 /\ saving' = saving
           \/ \E c \in Saver : PointOfCall(p, c)

\* A point is written again; it says the same of the repository.
PointIsRewritten ==
    \E p \in points, q \in PointRecord :
        /\ q.id = p.id /\ q.status = p.status /\ q.key = p.key /\ q.lost = p.lost
        /\ points' = (points \ {p}) \cup {q} /\ begun' = begun /\ saving' = saving
        /\ \/ restoring' = {q} /\ ~q.isReadable
           \/ p \in restoring /\ restoring' = {}

PointsStay ==
    /\ points' = points /\ restoring' \in {restoring, {}}
    /\ begun' = begun \/ begun' = begun + 1

LEMMA PointsChange ==
    ASSUME PointsTypeOK, [PreservationNext]_preservationVars
    PROVE  PointsGrow \/ PointIsRewritten \/ PointsStay
<1>a. points \subseteq PointRecord /\ begun \in Nat /\ restoring \subseteq points /\ saving \in [Saver -> SaverRecord]
  BY DEF PointsTypeOK
<1>1. CASE Restore
  <2>1. PICK p \in points : Replace(p, [p EXCEPT !.isReadable = FALSE]) /\ restoring' = {[p EXCEPT !.isReadable = FALSE]}
    BY <1>1 DEF Restore
  <2> DEFINE q == [p EXCEPT !.isReadable = FALSE]
  <2>2. q \in PointRecord /\ q.id = p.id /\ q.status = p.status /\ q.key = p.key /\ q.lost = p.lost /\ ~q.isReadable
    BY <1>a DEF PointRecord
  <2>3. points' = (points \ {p}) \cup {q} /\ restoring' = {q} /\ begun' = begun /\ saving' = saving
    BY <1>1, <2>1 DEF Restore, Replace
  <2> HIDE DEF q
  <2> QED  BY <2>2, <2>3 DEF PointIsRewritten
<1>2. CASE RestoreEnds
  <2>1. PICK p \in restoring : Replace(p, [p EXCEPT !.isReadable = TRUE, !.isRestored = TRUE])
    BY <1>2 DEF RestoreEnds
  <2> DEFINE q == [p EXCEPT !.isReadable = TRUE, !.isRestored = TRUE]
  <2>2. p \in points /\ q \in PointRecord /\ q.id = p.id /\ q.status = p.status /\ q.key = p.key /\ q.lost = p.lost
    BY <1>a DEF PointRecord
  <2>3. points' = (points \ {p}) \cup {q} /\ restoring' = {} /\ begun' = begun /\ saving' = saving
    BY <1>2, <2>1 DEF RestoreEnds, Replace
  <2> HIDE DEF q
  <2> QED  BY <2>1, <2>2, <2>3 DEF PointIsRewritten
<1>3. ASSUME NEW c \in Saver, NoRepository(c) PROVE PointsGrow
  <2> DEFINE p == NewPoint(begun + 1, "failed", <<>>, 0)
  <2>1. p \in PointRecord /\ p.status = "failed" /\ p.id = begun + 1  BY <1>a DEF NewPoint, PointRecord
  <2>2. points' = points \cup {p} /\ restoring' = restoring /\ begun' = begun + 1 /\ saving' = saving
    BY <1>3 DEF NoRepository
  <2> HIDE DEF p
  <2> QED  BY <2>1, <2>2 DEF PointsGrow
<1>4. ASSUME NEW c \in Saver, Publish(c) PROVE PointsGrow
  <2>a. SaverAt(c, "second") /\ Len(saving[c].out) = 8  BY <1>4 DEF Publish
  <2>s. PICK status \in {"ready", "incomplete"} :
           status = (IF IsComplete(c) THEN "ready" ELSE "incomplete")
    OBVIOUS
  <2> DEFINE p == NewPoint(saving[c].id, status, ReuseKey(c), saving[c].lost)
  <2>b. /\ saving[c].id \in Nat /\ saving[c].base \in Nat /\ saving[c].refs \in Nat /\ saving[c].lost \in Nat
        /\ saving[c].file \in SUBSET (File \X Nat) /\ saving[c].out \in Seq(Outputs)
    BY <1>a DEF SaverRecord
  <2>c. saving[c].out[1] \in Outputs /\ saving[c].out[2] \in Outputs /\ saving[c].out[3] \in Outputs
    BY <2>a, <2>b, ElementOfSeq
  <2>d. ReuseKey(c) \in Nat \X Nat \X Outputs \X Outputs \X Outputs \X SUBSET (File \X Nat)
    BY <2>b, <2>c DEF ReuseKey
  <2>k. PICK key \in Nat \X Nat \X Outputs \X Outputs \X Outputs \X SUBSET (File \X Nat) : key = ReuseKey(c)
    BY <2>d
  <2>p. p = [id |-> saving[c].id, status |-> status, key |-> key, lost |-> saving[c].lost, isRestored |-> FALSE,
             isReadable |-> TRUE]
    BY <2>k DEF NewPoint
  <2>1. p \in PointRecord  BY <2>b, <2>p DEF PointRecord
  <2>2. /\ p.id = saving[c].id /\ p.lost = saving[c].lost /\ p.key = ReuseKey(c)
        /\ p.status = "ready" => IsComplete(c)
    BY <2>p, <2>k, <2>s
  <2>3. points' = points \cup {p} /\ restoring' = restoring /\ begun' = begun
    BY <1>4, <2>s DEF Publish
  <2>4. ~Active(c)'  BY <1>4, <1>a, NoSaveFields DEF Publish, SaverReturns, SaverGoes, Active, SaverAt
  <2> HIDE DEF p
  <2> QED  BY <2>a, <2>1, <2>2, <2>3, <2>4 DEF PointsGrow, PointOfCall
<1>5. ASSUME NEW c \in Saver,
             \/ ReadHead(c) \/ ReadReferences(c) \/ ReadFirst(c) \/ ReadUntracked(c) \/ ReusePoint(c)
             \/ WriteSnapshot(c) \/ ReadSecond(c) \/ Abandon(c)
      PROVE PointsStay
  BY <1>5 DEF ReadHead, ReadReferences, ReadFirst, ReadUntracked, ReusePoint, WriteSnapshot, ReadSecond, Abandon, PointsStay
<1>6. CASE PersonWorks \/ RestoreCrashes \/ UNCHANGED preservationVars
  BY <1>6 DEF PersonWorks, WorkBecomes, RestoreCrashes, preservationVars, PointsStay
<1> QED  BY <1>1, <1>2, <1>3, <1>4, <1>5, <1>6 DEF PreservationNext

LEMMA PointsTypeIsKept ==
    ASSUME PointsTypeOK, NumbersGrow, LengthsFit, [PreservationNext]_preservationVars
    PROVE  PointsTypeOK'
<1>1. saving' \in [Saver -> SaverRecord] /\ moments' \in [Saver -> SUBSET Repository]  BY PreservationTypes
<1>2. PersonWorks \/ UNCHANGED person  BY PreservationTypes
<1>3. edits' \in 0..MaxEdits  BY <1>2, PersonGoesOn DEF person, PointsTypeOK
<1>4. work' \in Repository  BY <1>2, PersonGoesOn, WorkStaysARepository DEF person, PointsTypeOK
<1>5. points' \subseteq PointRecord /\ restoring' \subseteq points' /\ begun' \in Nat
  <2>a. points \subseteq PointRecord /\ restoring \subseteq points /\ begun \in Nat  BY DEF PointsTypeOK
  <2>1. CASE PointsGrow  BY <2>a, <2>1 DEF PointsGrow, PointOfCall
  <2>2. CASE PointIsRewritten  BY <2>a, <2>2 DEF PointIsRewritten
  <2>3. CASE PointsStay  BY <2>a, <2>3 DEF PointsStay
  <2> QED  BY <2>1, <2>2, <2>3, PointsChange
<1> QED  BY <1>1, <1>3, <1>4, <1>5 DEF PointsTypeOK

-----------------------------------------------------------------------------
\* What the invariant says of the calls is kept.

CallsGoOn ==
    /\ UNCHANGED person /\ \A c \in Saver : SaverStep(c)
    /\ \A c, d \in Saver : c # d => saving'[c] = saving[c] \/ saving'[d] = saving[d]

LEMMA StepsOfCalls ==
    ASSUME PointsTypeOK, NumbersGrow, LengthsFit, [PreservationNext]_preservationVars
    PROVE  PersonStep \/ CallsGoOn
  BY PreservationTypes, PersonGoesOn DEF CallsGoOn

LEMMA NumbersStayOrdered ==
    ASSUME PointsTypeOK, NumbersGrow, LengthsFit, [PreservationNext]_preservationVars
    PROVE  NumbersGrow'
<1>1. PersonWorks \/ UNCHANGED person  BY PreservationTypes
<1>2. CASE PersonWorks  BY <1>2, PersonGoesOn
<1>3. CASE UNCHANGED person  BY <1>3 DEF person, NumbersGrow, IsOrdered
<1> QED  BY <1>1, <1>2, <1>3

LEMMA LengthsStayFit ==
    ASSUME PointsTypeOK, LengthsFit, PersonStep \/ CallsGoOn
    PROVE  LengthsFit'
<1> SUFFICES ASSUME NEW c \in Saver
             PROVE  /\ saving'[c].at \in {"idle", "refs"} => Len(saving'[c].out) = 0
                    /\ saving'[c].at = "first" => Len(saving'[c].out) \in 0..3
                    /\ saving'[c].at = "files" => Len(saving'[c].out) = 4
                    /\ saving'[c].at = "second" => Len(saving'[c].out) \in 4..8
  BY DEF LengthsFit
<1>a. saving[c].out \in Seq(Outputs)  BY DEF PointsTypeOK, SaverRecord
<1>b. /\ saving[c].at \in {"idle", "refs"} => Len(saving[c].out) = 0
      /\ saving[c].at = "first" => Len(saving[c].out) \in 0..3
      /\ saving[c].at = "files" => Len(saving[c].out) = 4
      /\ saving[c].at = "second" => Len(saving[c].out) \in 4..8
  BY DEF LengthsFit
<1>1. CASE saving'[c] = saving[c]  BY <1>1, <1>b
<1>2. CASE saving'[c] = NoSave  BY <1>2, EmptySeq DEF NoSave
<1>3. CASE SaverBegins(c)
  <2>1. saving'[c].at = "refs" /\ saving'[c].out = <<>>  BY <1>3 DEF SaverBegins, NoSave
  <2> QED  BY <2>1, EmptySeq
<1>4. CASE ReadsOne(c)
  <2>1. PICK output \in Outputs, n \in 1..4 :
           /\ \/ /\ saving[c].at = "first" /\ Len(saving[c].out) = n - 1
                 /\ saving'[c].at = IF n = 4 THEN "files" ELSE "first"
              \/ saving[c].at = "second" /\ Len(saving[c].out) = n + 3 /\ saving'[c].at = "second"
           /\ saving'[c].out = Append(saving[c].out, output)
    BY <1>4 DEF ReadsOne
  <2>2. Len(saving'[c].out) = Len(saving[c].out) + 1  BY <1>a, <2>1, AppendProperties
  <2>3. \A k \in 1..4 : (k - 1) + 1 = k /\ (k + 3) + 1 \in 4..8 /\ (k # 4 => k \in 0..3)
    OBVIOUS
  <2> QED  BY <2>1, <2>2, <2>3
<1>5. CASE /\ saving'[c].out = saving[c].out
           /\ <<saving[c].at, saving'[c].at>> \in {<<"refs", "first">>, <<"files", "files">>, <<"files", "second">>}
  <2>1. \/ saving[c].at = "refs" /\ saving'[c].at = "first"
        \/ saving[c].at = "files" /\ saving'[c].at = "files"
        \/ saving[c].at = "files" /\ saving'[c].at = "second"
    BY <1>5
  <2>2. 0 \in 0..3 /\ 4 \in 4..8  OBVIOUS
  <2> QED  BY <1>5, <1>b, <2>1, <2>2
<1>6. PersonStep => saving'[c] = saving[c]  BY DEF PersonStep
<1> QED  BY <1>1, <1>2, <1>3, <1>4, <1>5, <1>6 DEF CallsGoOn, SaverStep, SaverContinues

LEMMA BeforeIsAnOrder ==
    /\ \A m \in Repository : IsBefore(m, m)
    /\ \A m, k, l \in Repository : IsBefore(m, k) /\ IsBefore(k, l) => IsBefore(m, l)
  BY MomentFields DEF IsBefore

\* Who is active after a step was it before, and has forgotten no moment, or has just begun.
LEMMA CallsKnowMore ==
    ASSUME PointsTypeOK, LengthsFit, PersonStep \/ CallsGoOn, NEW c \in Saver
    PROVE  /\ Active(c)' => \/ Active(c) /\ moments'[c] = moments[c] /\ work' = work
                            \/ Active(c) /\ moments'[c] = moments[c] \cup {work'}
                            \/ ~Active(c) /\ moments'[c] = {work'} /\ work' = work
           /\ ~Active(c)' => \/ moments'[c] = {}
                             \/ ~Active(c) /\ moments'[c] = moments[c]
<1>1. CASE PersonStep
  <2>1. saving' = saving /\ moments'[c] = IF Active(c) THEN moments[c] \cup {work'} ELSE {}  BY <1>1 DEF PersonStep
  <2> QED  BY <2>1 DEF Active, SaverAt
<1>2. CASE CallsGoOn
  <2>1. work' = work /\ SaverStep(c)  BY <1>2 DEF CallsGoOn, person
  <2>2. CASE saving'[c] = saving[c] /\ moments'[c] = moments[c]  BY <2>1, <2>2 DEF Active, SaverAt
  <2>3. CASE saving'[c] = NoSave /\ moments'[c] = {}  BY <2>3, NoSaveFields DEF Active, SaverAt
  <2>4. CASE SaverBegins(c)
    <3>1. saving'[c].at = "refs"  BY <2>4 DEF SaverBegins, NoSave
    <3> QED  BY <3>1, <2>1, <2>4 DEF SaverBegins, Active, SaverAt
  <2>5. CASE SaverContinues(c)
    <3>1. Active(c)'  BY <2>5 DEF SaverContinues, ReadsOne, Active, SaverAt
    <3> QED  BY <3>1, <2>1, <2>5 DEF SaverContinues
  <2> QED  BY <2>1, <2>2, <2>3, <2>4, <2>5 DEF SaverStep
<1> QED  BY <1>1, <1>2

\* A moment that is past stays so, and no call forgets it that knew it.
LEMMA MomentsStayPast ==
    ASSUME PointsTypeOK, PointsTypeOK', LengthsFit, MomentsAreKnown, PersonStep \/ CallsGoOn, NEW m \in Repository,
           IsBefore(m, work), \A c \in Saver : Active(c) => Precedes(m, c)
    PROVE  IsBefore(m, work') /\ \A c \in Saver : (Active(c) => Precedes(m, c))'
<1>a. work \in Repository /\ work' \in Repository /\ \A c \in Saver : moments[c] \subseteq Repository
  BY DEF PointsTypeOK
<1>b. IsBefore(work, work')  BY <1>a, BeforeIsAnOrder DEF PersonStep, CallsGoOn, person
<1>1. IsBefore(m, work')  BY <1>a, <1>b, BeforeIsAnOrder
<1>2. ASSUME NEW c \in Saver, Active(c)' PROVE m \in moments'[c] \/ \A k \in moments'[c] : IsBefore(m, k)
  <2>1. CASE Active(c) /\ moments'[c] = moments[c]  BY <2>1 DEF Precedes
  <2>2. CASE Active(c) /\ moments'[c] = moments[c] \cup {work'}  BY <1>1, <2>2 DEF Precedes
  <2>3. CASE moments'[c] = {work'}  BY <1>1, <2>3
  <2> QED  BY <1>2, <2>1, <2>2, <2>3, CallsKnowMore
<1> QED  BY <1>1, <1>2 DEF Precedes

LEMMA MomentsStayKnown ==
    ASSUME PointsTypeOK, PointsTypeOK', NumbersGrow', LengthsFit, MomentsAreKnown, PersonStep \/ CallsGoOn
    PROVE  MomentsAreKnown'
<1>a. work \in Repository /\ work' \in Repository /\ \A c \in Saver : moments[c] \subseteq Repository
  BY DEF PointsTypeOK
<1>o. IsOrdered(work')  BY DEF NumbersGrow, IsOrdered
<1>r. IsBefore(work', work')  BY <1>a, BeforeIsAnOrder
<1>1. \A c \in Saver : IF Active(c)' THEN work' \in moments'[c] ELSE moments'[c] = {}
  BY CallsKnowMore DEF MomentsAreKnown
<1>2. ASSUME NEW d \in Saver, NEW m \in moments'[d] PROVE m = work' \/ m \in moments[d]
  BY <1>2, CallsKnowMore DEF MomentsAreKnown
<1>3. ASSUME NEW d \in Saver, NEW m \in moments'[d]
      PROVE  /\ IsOrdered(m) /\ IsBefore(m, work')
             /\ \A c \in Saver : Active(c)' => m \in moments'[c] \/ \A k \in moments'[c] : IsBefore(m, k)
  <2>1. CASE m = work'  BY <2>1, <1>o, <1>r, <1>1
  <2>2. CASE m \in moments[d]
    <3>1. /\ m \in Repository /\ IsOrdered(m) /\ IsBefore(m, work)
          /\ \A c \in Saver : Active(c) => Precedes(m, c)
      BY <1>a, <2>2 DEF MomentsAreKnown
    <3>2. IsBefore(m, work') /\ \A c \in Saver : (Active(c) => Precedes(m, c))'
      BY <3>1, MomentsStayPast
    <3> QED  BY <3>1, <3>2 DEF Precedes
  <2> QED  BY <2>1, <2>2, <1>3, <1>2
<1> QED  BY <1>1, <1>3 DEF MomentsAreKnown, Precedes, IsOrdered, IsBefore

LEMMA OutputsShow ==
    ASSUME PointsTypeOK, NEW n \in 1..4
    PROVE  Shows(n, Output(n), work) /\ Shows(n + 4, Output(n), work)
<1>1. ("staged" \in Output(1) <=> work.head # work.index) /\ ("unstaged" \in Output(1) <=> work.index # work.tree)
  <2>1. "staged" \notin File /\ "unstaged" \notin File  BY PreservationAssumption
  <2>2. Output(1) = Untracked \cup {k \in {"staged", "unstaged"} :
                        IF k = "staged" THEN work.head # work.index ELSE work.index # work.tree}
    BY DEF Output
  <2>3. "staged" \notin Untracked /\ "unstaged" \notin Untracked  BY <2>1 DEF Untracked
  <2> QED  BY <2>2, <2>3
<1>2. Output(2) = Patch(work.head, work.index) /\ Output(3) = Patch(work.index, work.tree) /\ Output(4) = {work.index}
  BY DEF Output
<1>3. n = 1 \/ n = 2 \/ n = 3 \/ n = 4  OBVIOUS
<1> QED  BY <1>1, <1>2, <1>3 DEF Shows

LEMMA ReadingsStayMoments ==
    ASSUME PointsTypeOK, PointsTypeOK', LengthsFit, MomentsAreKnown, ReadingsAreMoments, PersonStep \/ CallsGoOn
    PROVE  ReadingsAreMoments'
<1> SUFFICES ASSUME NEW c \in Saver, Active(c)', saving'[c].lost = 0
             PROVE  \E when \in [0..Len(saving'[c].out) -> moments'[c]] :
                       /\ saving'[c].base = when[0].head
                       /\ \A n \in 1..Len(saving'[c].out) : Shows(n, saving'[c].out[n], when[n])
                       /\ \A i, j \in 0..Len(saving'[c].out) : i <= j => IsBefore(when[i], when[j])
  BY DEF ReadingsAreMoments, Read, Shows, IsBefore
<1>a. work \in Repository /\ moments[c] \subseteq Repository /\ saving[c].out \in Seq(Outputs)
  BY DEF PointsTypeOK, SaverRecord
<1>l. Len(saving[c].out) \in Nat  BY <1>a
<1>w. ASSUME Active(c), saving[c].lost = 0
      PROVE  \E when \in [0..Len(saving[c].out) -> moments[c]] :
                /\ saving[c].base = when[0].head
                /\ \A n \in 1..Len(saving[c].out) : Shows(n, saving[c].out[n], when[n])
                /\ \A i, j \in 0..Len(saving[c].out) : i <= j => IsBefore(when[i], when[j])
  BY <1>w DEF ReadingsAreMoments, Read
<1>1. CASE /\ Active(c) /\ moments[c] \subseteq moments'[c] /\ saving'[c].out = saving[c].out
           /\ saving'[c].lost = saving[c].lost /\ saving'[c].base = saving[c].base
  BY <1>1, <1>w
<1>2. CASE saving'[c].out = <<>> /\ saving'[c].base = work.head /\ moments'[c] = {work}
  <2> DEFINE when == [i \in 0..0 |-> work]
  <2>1. Len(saving'[c].out) = 0  BY <1>2
  <2>2. when \in [0..0 -> moments'[c]] /\ when[0].head = saving'[c].base /\ \A i \in 0..0 : when[i] = work  BY <1>2
  <2>3. IsBefore(work, work)  BY <1>a, BeforeIsAnOrder
  <2> HIDE DEF when
  <2> QED  BY <2>1, <2>2, <2>3
<1>3. CASE SaverContinues(c) /\ ReadsOne(c)
  <2>1. PICK output \in Outputs, n \in 1..4 :
           /\ Len(saving[c].out) = n - 1 \/ Len(saving[c].out) = n + 3
           /\ saving'[c].out = Append(saving[c].out, output) /\ saving[c].lost = 0 /\ output = Output(n)
    BY <1>3 DEF ReadsOne
  <2>2. Active(c) /\ moments'[c] = moments[c] /\ saving'[c].base = saving[c].base  BY <1>3 DEF SaverContinues
  <2>3. PICK when \in [0..Len(saving[c].out) -> moments[c]] :
                /\ saving[c].base = when[0].head
                /\ \A k \in 1..Len(saving[c].out) : Shows(k, saving[c].out[k], when[k])
                /\ \A i, j \in 0..Len(saving[c].out) : i <= j => IsBefore(when[i], when[j])
    BY <1>w, <2>1, <2>2
  <2>4. PICK l \in Nat : l = Len(saving[c].out)  BY <1>l
  <2>5. /\ Len(saving'[c].out) = l + 1 /\ saving'[c].out[l + 1] = output
        /\ \A k \in 1..l : saving'[c].out[k] = saving[c].out[k]
    BY <1>a, <2>1, <2>4, AppendProperties
  <2>6. Shows(l + 1, output, work)
    <3>1. l + 1 = n \/ l + 1 = n + 4  BY <2>1, <2>4
    <3> QED  BY <3>1, <2>1, OutputsShow
  <2>7. work \in moments[c] /\ \A m \in moments[c] : IsBefore(m, work)  BY <2>2 DEF MomentsAreKnown
  <2> DEFINE longer == [i \in 0..l + 1 |-> IF i = l + 1 THEN work ELSE when[i]]
  <2>8. /\ longer \in [0..l + 1 -> moments'[c]] /\ longer[l + 1] = work
        /\ \A i \in 0..l : i \in 0..l + 1 /\ i # l + 1 /\ longer[i] = when[i]
        /\ \A i \in 0..l + 1 : i = l + 1 \/ i \in 0..l
        /\ \A i \in 1..l + 1 : i = l + 1 \/ i \in 1..l
        /\ 0 \in 0..l
    <3>1. when \in [0..l -> moments'[c]] /\ work \in moments'[c]  BY <2>2, <2>3, <2>4, <2>7
    <3>2. \A i \in 0..l : i \in 0..l + 1 /\ i # l + 1  OBVIOUS
    <3>3. \A i \in 0..l + 1 : i = l + 1 \/ i \in 0..l  OBVIOUS
    <3>4. (\A i \in 1..l + 1 : i = l + 1 \/ i \in 1..l) /\ 0 \in 0..l /\ l + 1 \in 0..l + 1  OBVIOUS
    <3>5. \A i \in 0..l + 1 : longer[i] \in moments'[c]  BY <3>1, <3>3
    <3> QED  BY <3>1, <3>2, <3>3, <3>4, <3>5
  <2> HIDE DEF longer
  <2>9. saving'[c].base = longer[0].head  BY <2>2, <2>3, <2>8
  <2>10. \A k \in 1..l + 1 : Shows(k, saving'[c].out[k], longer[k])
    <3>1. \A k \in 1..l : k \in 0..l  OBVIOUS
    <3> QED  BY <2>3, <2>4, <2>5, <2>6, <2>8, <3>1
  <2>11. ASSUME NEW i \in 0..l + 1, NEW j \in 0..l + 1, i <= j PROVE IsBefore(longer[i], longer[j])
    <3>1. CASE j = l + 1
      <4>1. longer[i] \in moments[c]  BY <2>2, <2>8
      <4> QED  BY <4>1, <2>7, <2>8, <3>1
    <3>2. CASE j # l + 1
      <4>1. j \in 0..l /\ i \in 0..l  BY <2>11, <3>2
      <4> QED  BY <4>1, <2>3, <2>4, <2>8, <2>11
    <3> QED  BY <3>1, <3>2
  <2> QED  BY <2>5, <2>8, <2>9, <2>10, <2>11
<1>4. CASE PersonStep
  <2>1. Active(c) /\ saving' = saving /\ moments[c] \subseteq moments'[c]  BY <1>4 DEF PersonStep, Active, SaverAt
  <2> QED  BY <2>1, <1>1
<1>5. CASE SaverStep(c)
  <2>1. CASE saving'[c] = saving[c] /\ moments'[c] = moments[c]
    BY <1>1, <2>1 DEF Active, SaverAt
  <2>2. CASE saving'[c] = NoSave  BY <2>2, NoSaveFields DEF Active, SaverAt
  <2>3. CASE SaverBegins(c)
    <3>1. saving'[c].out = <<>> /\ saving'[c].base = work.head  BY <2>3 DEF SaverBegins, NoSave
    <3> QED  BY <3>1, <2>3, <1>2 DEF SaverBegins
  <2>4. CASE SaverContinues(c)
    <3>1. CASE ReadsOne(c)  BY <2>4, <3>1, <1>3
    <3>2. CASE saving'[c].out = saving[c].out /\ saving'[c].lost = saving[c].lost
      BY <2>4, <3>2, <1>1 DEF SaverContinues
    <3> QED  BY <2>4, <3>1, <3>2 DEF SaverContinues
  <2> QED  BY <1>5, <2>1, <2>2, <2>3, <2>4 DEF SaverStep
<1> QED  BY <1>4, <1>5 DEF CallsGoOn

-----------------------------------------------------------------------------
\* What the invariant says of the points is kept.

LEMMA PointsStayMoments ==
    ASSUME PointsTypeOK, PointsTypeOK', LengthsFit, MomentsAreKnown, ReadingsAreMoments, PointsAreMoments,
           PersonStep \/ CallsGoOn, PointsGrow \/ PointIsRewritten \/ PointsStay
    PROVE  PointsAreMoments'
<1>1. ASSUME NEW p \in points, p.status = "ready", p.lost = 0
      PROVE  \E m \in Repository :
                /\ IsOrdered(m) /\ KeyOf(p.key[1], p.key[3], p.key[4], p.key[5], m)
                /\ IsBefore(m, work') /\ \A c \in Saver : (Active(c) => Precedes(m, c))'
  <2>1. PICK m \in Repository :
            /\ IsOrdered(m) /\ IsBefore(m, work) /\ KeyOf(p.key[1], p.key[3], p.key[4], p.key[5], m)
            /\ \A c \in Saver : Active(c) => Precedes(m, c)
    BY <1>1 DEF PointsAreMoments
  <2>2. IsBefore(m, work') /\ \A c \in Saver : (Active(c) => Precedes(m, c))'  BY <2>1, MomentsStayPast
  <2> QED  BY <2>1, <2>2
<1>2. ASSUME NEW p \in PointRecord, NEW c \in Saver, PointOfCall(p, c), p.status = "ready", p.lost = 0
      PROVE  \E m \in Repository :
                /\ IsOrdered(m) /\ KeyOf(p.key[1], p.key[3], p.key[4], p.key[5], m)
                /\ IsBefore(m, work') /\ \A d \in Saver : (Active(d) => Precedes(m, d))'
  <2>1. SaverAt(c, "second") /\ saving[c].lost = 0 /\ Len(saving[c].out) = 8 /\ IsUnmodified(c)
    BY <1>2 DEF PointOfCall, IsComplete
  <2>2. PICK m \in moments[c] : KeyOf(saving[c].base, saving[c].out[1], saving[c].out[2], saving[c].out[3], m)
    BY <2>1, CallsKnowOneMoment
  <2>3. /\ p.key[1] = saving[c].base /\ p.key[3] = saving[c].out[1] /\ p.key[4] = saving[c].out[2]
        /\ p.key[5] = saving[c].out[3]
    BY <1>2 DEF PointOfCall, ReuseKey
  <2>4. m \in Repository /\ IsOrdered(m) /\ IsBefore(m, work) /\ \A d \in Saver : Active(d) => Precedes(m, d)
    BY <2>2 DEF PointsTypeOK, MomentsAreKnown
  <2>5. IsBefore(m, work') /\ \A d \in Saver : (Active(d) => Precedes(m, d))'  BY <2>4, MomentsStayPast
  <2> QED  BY <2>2, <2>3, <2>4, <2>5
<1>3. ASSUME NEW p \in points', p.status = "ready", p.lost = 0
      PROVE  \E m \in Repository :
                /\ IsOrdered(m) /\ KeyOf(p.key[1], p.key[3], p.key[4], p.key[5], m)
                /\ IsBefore(m, work') /\ \A c \in Saver : (Active(c) => Precedes(m, c))'
  <2>1. CASE PointsGrow
    <3>1. CASE p \in points  BY <1>1, <1>3, <3>1
    <3>2. CASE p \notin points
      <4>1. p \in PointRecord /\ \E c \in Saver : PointOfCall(p, c)  BY <1>3, <2>1, <3>2 DEF PointsGrow
      <4> QED  BY <4>1, <1>2, <1>3
    <3> QED  BY <3>1, <3>2
  <2>2. CASE PointIsRewritten
    <3>1. \E q \in points : q.status = p.status /\ q.key = p.key /\ q.lost = p.lost
      BY <1>3, <2>2 DEF PointIsRewritten
    <3> QED  BY <1>1, <1>3, <3>1
  <2>3. CASE PointsStay  BY <1>1, <1>3, <2>3 DEF PointsStay
  <2> QED  BY <2>1, <2>2, <2>3
<1> QED  BY <1>3 DEF PointsAreMoments, IsOrdered, IsBefore, KeyOf

LEMMA PointsStayNumbered ==
    ASSUME PointsTypeOK, PointsTypeOK', PointsAreNumbered, PersonStep \/ CallsGoOn,
           PointsGrow \/ PointIsRewritten \/ PointsStay
    PROVE  PointsAreNumbered'
<1>a. /\ begun \in Nat /\ begun' \in Nat /\ restoring \subseteq points /\ points \subseteq PointRecord
      /\ \A p \in points : p.id \in Nat
      /\ \A c \in Saver : saving[c].id \in Nat
  BY DEF PointsTypeOK, PointRecord, SaverRecord
<1>b. begun' = begun \/ begun' = begun + 1
  BY DEF PointsGrow, PointOfCall, PointIsRewritten, PointsStay
<1>c. begun <= begun' /\ ~(begun + 1 <= begun)  BY <1>a, <1>b
<1>n. /\ \A p, q \in points : p.id = q.id => p = q
      /\ \A p \in points : p.id <= begun
      /\ \A c \in Saver : Active(c) => /\ saving[c].id <= begun /\ \A p \in points : p.id # saving[c].id
                                       /\ \A d \in Saver : Active(d) /\ saving[d].id = saving[c].id => c = d
      /\ \A p, q \in restoring : p = q
      /\ \A p \in restoring : ~p.isReadable
  BY DEF PointsAreNumbered
\* A call keeps its number, which is the newest when it begins.
<1>1. ASSUME NEW c \in Saver, Active(c)'
      PROVE  \/ Active(c) /\ saving'[c].id = saving[c].id
             \/ saving'[c].id = begun + 1 /\ begun' = begun + 1 /\ saving'[c] # saving[c]
  <2>1. CASE saving'[c] = saving[c]  BY <1>1, <2>1 DEF Active, SaverAt
  <2>2. CASE saving'[c] = NoSave  BY <1>1, <2>2, NoSaveFields DEF Active, SaverAt
  <2>3. CASE SaverBegins(c)
    <3>1. saving'[c].id = begun + 1 /\ saving'[c].at = "refs"  BY <2>3 DEF SaverBegins, NoSave
    <3> QED  BY <3>1, <2>3 DEF SaverBegins, Active, SaverAt
  <2>4. CASE SaverContinues(c)  BY <2>4 DEF SaverContinues
  <2>5. PersonStep => saving'[c] = saving[c]  BY DEF PersonStep
  <2> QED  BY <2>1, <2>2, <2>3, <2>4, <2>5 DEF CallsGoOn, SaverStep
<1>2. ASSUME NEW c \in Saver, Active(c)' PROVE saving'[c].id <= begun'
  BY <1>1, <1>2, <1>a, <1>b, <1>n
<1>3. ASSUME NEW c \in Saver, NEW d \in Saver, Active(c)', Active(d)', saving'[c].id = saving'[d].id PROVE c = d
  <2>1. \/ Active(c) /\ saving'[c].id = saving[c].id
        \/ saving'[c].id = begun + 1 /\ saving'[c] # saving[c]
    BY <1>1, <1>3
  <2>2. \/ Active(d) /\ saving'[d].id = saving[d].id
        \/ saving'[d].id = begun + 1 /\ saving'[d] # saving[d]
    BY <1>1, <1>3
  <2>3. c # d => saving'[c] = saving[c] \/ saving'[d] = saving[d]  BY DEF PersonStep, CallsGoOn
  <2> QED  BY <2>1, <2>2, <2>3, <1>3, <1>c, <1>n
<1>4. CASE PointsGrow
  <2>1. PICK p \in PointRecord :
           /\ points' = points \cup {p} /\ restoring' = restoring
           /\ \/ p.status = "failed" /\ p.id = begun + 1 /\ begun' = begun + 1 /\ saving' = saving
              \/ \E c \in Saver : PointOfCall(p, c)
    BY <1>4 DEF PointsGrow
  <2>2. CASE p.id = begun + 1 /\ begun' = begun + 1 /\ saving' = saving
    <3>1. \A q \in points : p.id # q.id  BY <2>2, <1>c, <1>n
    <3>2. \A c \in Saver : Active(c)' => p.id # saving'[c].id
      BY <2>2, <1>c, <1>n DEF Active, SaverAt
    <3>3. \A c \in Saver : Active(c)' => \A q \in points : q.id # saving'[c].id
      BY <2>2, <1>n DEF Active, SaverAt
    <3>4. \A q \in points' : q.id <= begun'  BY <1>a, <2>1, <2>2, <1>n
    <3> QED  BY <1>2, <1>3, <1>n, <2>1, <3>1, <3>2, <3>3, <3>4 DEF PointsAreNumbered
  <2>3. ASSUME NEW c \in Saver, PointOfCall(p, c) PROVE PointsAreNumbered'
    <3>0. Active(c) /\ p.id = saving[c].id /\ begun' = begun /\ ~Active(c)'
      BY <2>3 DEF PointOfCall, Active, SaverAt
    <3>1. \A q \in points : p.id # q.id  BY <3>0, <1>n
    <3>2. ASSUME NEW d \in Saver, Active(d)' PROVE \A q \in points' : q.id # saving'[d].id
      <4>1. Active(d) /\ saving'[d].id = saving[d].id /\ c # d  BY <3>0, <3>2, <1>1, <1>a
      <4> QED  BY <4>1, <3>0, <2>1, <1>n
    <3>4. \A q \in points' : q.id <= begun'  BY <2>1, <3>0, <1>n
    <3> QED  BY <1>2, <1>3, <1>n, <2>1, <3>1, <3>2, <3>4 DEF PointsAreNumbered
  <2> QED  BY <2>1, <2>2, <2>3
<1>k. ASSUME NEW c \in Saver, Active(c)', NEW q \in points PROVE q.id # saving'[c].id
  BY <1>k, <1>1, <1>c, <1>n
<1>5. CASE PointIsRewritten
  <2>1. PICK p \in points, q \in PointRecord :
        /\ q.id = p.id /\ points' = (points \ {p}) \cup {q} /\ begun' = begun
        /\ \/ restoring' = {q} /\ ~q.isReadable
           \/ p \in restoring /\ restoring' = {}
    BY <1>5 DEF PointIsRewritten
  <2>2. \A x, y \in points' : x.id = y.id => x = y  BY <2>1, <1>n
  <2>3. \A x \in points' : x.id <= begun'  BY <2>1, <1>n
  <2>4. \A c \in Saver : Active(c)' => \A x \in points' : x.id # saving'[c].id  BY <2>1, <1>k
  <2> QED  BY <1>2, <1>3, <2>1, <2>2, <2>3, <2>4 DEF PointsAreNumbered
<1>6. CASE PointsStay
  <2>1. points' = points /\ restoring' \in {restoring, {}}  BY <1>6 DEF PointsStay
  <2>3. \A x \in points' : x.id <= begun'  BY <2>1, <1>a, <1>c, <1>n
  <2>4. \A c \in Saver : Active(c)' => \A x \in points' : x.id # saving'[c].id  BY <2>1, <1>k
  <2>5. (\A p, q \in restoring' : p = q) /\ \A p \in restoring' : ~p.isReadable  BY <2>1, <1>n
  <2> QED  BY <1>2, <1>3, <1>n, <2>1, <2>3, <2>4, <2>5 DEF PointsAreNumbered
<1> QED  BY <1>4, <1>5, <1>6

-----------------------------------------------------------------------------

LEMMA PreservationStarts == PreservationInit => PreservationIInv
<1> SUFFICES ASSUME PreservationInit PROVE PreservationIInv  OBVIOUS
<1>1. PICK i \in {0, 1} : work = [head |-> 0, index |-> i, tree |-> 2 * i, file |-> [f \in File |-> i]]
  BY DEF PreservationInit
<1>2. \A k \in {0, 1} : /\ k \in 0..Highest /\ 2 * k \in 0..Highest /\ 0 \in 0..Highest
                        /\ 0 <= k /\ k <= 2 * k /\ 2 * k <= 0 + 2 /\ k <= 0 + 2
  BY PreservationAssumption DEF Highest
<1>3. [f \in File |-> i] \in [File -> 0..Highest]  BY <1>2
<1>4. work \in Repository  BY <1>1, <1>2, <1>3 DEF Repository
<1>5. /\ saving = [c \in Saver |-> NoSave] /\ moments = [c \in Saver |-> {}] /\ points = {} /\ restoring = {}
      /\ edits = 0 /\ begun = 0
  BY DEF PreservationInit
<1>6. PointsTypeOK  BY <1>4, <1>5, NoSaveFields, PreservationAssumption DEF PointsTypeOK
<1>7. NumbersGrow  BY <1>1, <1>2, <1>5 DEF NumbersGrow, IsOrdered
<1>8. \A c \in Saver : ~Active(c) /\ saving[c].at = "idle" /\ saving[c].out = <<>> /\ moments[c] = {}
  BY <1>5, NoSaveFields DEF Active, SaverAt
<1>9. MomentsAreKnown  BY <1>8 DEF MomentsAreKnown
<1>10. LengthsFit  BY <1>8 DEF LengthsFit
<1>11. ReadingsAreMoments  BY <1>8 DEF ReadingsAreMoments
<1>12. PointsAreMoments /\ PointsAreNumbered  BY <1>5, <1>8 DEF PointsAreMoments, PointsAreNumbered
<1> QED  BY <1>6, <1>7, <1>9, <1>10, <1>11, <1>12 DEF PreservationIInv

LEMMA PreservationIsInductive ==
    ASSUME PreservationIInv, [PreservationNext]_preservationVars
    PROVE  PreservationIInv'
<1> USE DEF PreservationIInv
<1>1. PointsTypeOK'  BY PointsTypeIsKept
<1>2. NumbersGrow'  BY NumbersStayOrdered
<1>3. PersonStep \/ CallsGoOn  BY StepsOfCalls
<1>4. PointsGrow \/ PointIsRewritten \/ PointsStay  BY PointsChange
<1>5. LengthsFit'  BY <1>3, LengthsStayFit
<1>6. MomentsAreKnown'  BY <1>1, <1>2, <1>3, MomentsStayKnown
<1>7. ReadingsAreMoments'  BY <1>1, <1>3, ReadingsStayMoments
<1>8. PointsAreMoments'  BY <1>1, <1>3, <1>4, PointsStayMoments
<1>9. PointsAreNumbered'  BY <1>1, <1>3, <1>4, PointsStayNumbered
<1> QED  BY <1>1, <1>2, <1>5, <1>6, <1>7, <1>8, <1>9

\* A point that is ready, and that a call answers with after git commands that all succeeded,
\* holds the two patches of one moment of that call, however the person worked meanwhile, in
\* whatever order the calls, the restorations and the ends of the process came, and whoever
\* else preserves the repository at the same time (createPreservationPoint).  A point that
\* rests on a failed command is made ready as well; nothing is said of it.
THEOREM ReadyPointsAreOneMoment == PreservationSpec => []PreservationInv
<1>1. PreservationIInv => PreservationInv
  <2> SUFFICES ASSUME PreservationIInv PROVE PreservationInv  OBVIOUS
  <2>1. PatchesAreOfOneMoment  BY ReadyIsOneMoment DEF PatchesAreOfOneMoment
  <2>2. ASSUME NEW c \in Saver PROVE Len(saving[c].out) <= 8 /\ (SaverAt(c, "idle") <=> moments[c] = {})
    <3>1. saving[c].at \in {"idle", "refs", "first", "files", "second"}  BY DEF PreservationIInv, PointsTypeOK, SaverRecord
    <3>2. (\A k \in 0..3 : k <= 8) /\ (\A k \in 4..8 : k <= 8) /\ 0 <= 8 /\ 4 <= 8  OBVIOUS
    <3>4. Len(saving[c].out) <= 8  BY <3>1, <3>2 DEF PreservationIInv, LengthsFit
    <3>3. SaverAt(c, "idle") <=> moments[c] = {}  BY DEF PreservationIInv, MomentsAreKnown, Active
    <3> QED  BY <3>3, <3>4
  <2>3. PreservationTypeOK
    BY <2>2 DEF PreservationIInv, PointsTypeOK, PointsAreNumbered, PreservationTypeOK
  <2> QED  BY <2>1, <2>3 DEF PreservationInv
<1> QED  BY <1>1, PreservationStarts, PreservationIsInductive, PTL DEF PreservationSpec

-----------------------------------------------------------------------------
(* The window of instructions (InstructionWindow).                         *)

WindowDocument ==
    [capacity : Nat \ {0}, state : [Request -> {"absent", "accepted"} \cup Occupying \cup Terminal],
     place : [Request -> Nat], last : Nat, queue : Seq(Request), receipts : SUBSET (Request \X Outcome)]

\* Records have places of their own.
PlacesAreOwn(w) ==
    /\ \A r \in Request : IF r \in Records(w) THEN w.place[r] <= w.last ELSE w.place[r] = 0
    /\ \A q, r \in Records(w) : w.place[q] = w.place[r] => q = r

QueueIsRight(w) ==
    /\ \A i, j \in DOMAIN w.queue : w.queue[i] = w.queue[j] => i = j
    /\ Queued(w) \subseteq Records(w)
    /\ \A r \in Request : w.state[r] = "accepted" => r \in Queued(w)

SlotsAreRight(w, n) ==
    /\ n = 0 => \A r \in Queued(w) : w.state[r] = "accepted"
    /\ Cardinality(Slots(w)) <= w.capacity + n
    /\ w.queue # <<>> => Slots(w) # {}

KeysAreOwn(w) == \A q, r \in Records(w) : Key(q) = Key(r) => q = r

\* A document, with n receipts for instructions without a slot.
DocumentIsSound(w, n) == w \in WindowDocument /\ PlacesAreOwn(w) /\ QueueIsRight(w) /\ SlotsAreRight(w, n) /\ KeysAreOwn(w)

CommitRecord ==
    [at : {"idle", "written", "guarded", "renamed"}, document : WindowDocument, caller : SUBSET Request]

WindowTypeOK ==
    /\ window \in [Store -> WindowDocument] /\ loading \in [Store -> {"no", "reading", "yes"}]
    /\ waiting \in [Store -> Seq(SUBSET Request)] /\ windowFile \subseteq WindowDocument
    /\ commit \in [Store -> CommitRecord] /\ strays \in Nat

DocumentsAreWhole ==
    /\ \A s \in Store : DocumentIsSound(window[s], strays) /\ DocumentIsSound(commit[s].document, strays)
    /\ \A d \in windowFile : DocumentIsSound(d, strays)
    /\ \A s \in Store : loading[s] # "yes" => window[s] = EmptyWindow

-----------------------------------------------------------------------------
\* The order of a set of records.

LEMMA RanksAreOwn ==
    ASSUME NEW w, NEW S, IsFiniteSet(S), \A r \in S : w.place[r] \in Nat,
           \A q, r \in S : w.place[q] = w.place[r] => q = r
    PROVE  /\ Cardinality(S) \in Nat
           /\ \A r \in S : Cardinality(Earlier(w, S, r)) \in 0..Cardinality(S) - 1
           /\ \A q, r \in S : Cardinality(Earlier(w, S, q)) = Cardinality(Earlier(w, S, r)) => q = r
           /\ \A i \in 0..Cardinality(S) - 1 : \E r \in S : Cardinality(Earlier(w, S, r)) = i
<1> DEFINE n == Cardinality(S)
           Rank == [r \in S |-> Cardinality(Earlier(w, S, r))]
<1>1. n \in Nat  BY FS_CardinalityType
<1>2. \A r \in S : IsFiniteSet(Earlier(w, S, r)) /\ Cardinality(Earlier(w, S, r)) \in Nat
  <2>1. \A r \in S : Earlier(w, S, r) \in SUBSET S  BY DEF Earlier
  <2> QED  BY <2>1, FS_Subset, FS_CardinalityType
<1>3. ASSUME NEW r \in S PROVE Cardinality(Earlier(w, S, r)) \in 0..n - 1
  <2>1. Earlier(w, S, r) \in SUBSET S /\ r \notin Earlier(w, S, r)  BY DEF Earlier
  <2>2. Cardinality(Earlier(w, S, r)) <= n /\ n # Cardinality(Earlier(w, S, r))
    BY <2>1, FS_Subset
  <2> HIDE DEF n
  <2> QED  BY <1>1, <1>2, <2>2
<1>4. ASSUME NEW q \in S, NEW r \in S, w.place[q] < w.place[r]
      PROVE  Cardinality(Earlier(w, S, q)) < Cardinality(Earlier(w, S, r))
  <2>1. Earlier(w, S, q) \in SUBSET Earlier(w, S, r)  BY <1>4 DEF Earlier
  <2>2. q \in Earlier(w, S, r) /\ q \notin Earlier(w, S, q)  BY <1>4 DEF Earlier
  <2>3. /\ Cardinality(Earlier(w, S, q)) <= Cardinality(Earlier(w, S, r))
        /\ Cardinality(Earlier(w, S, r)) # Cardinality(Earlier(w, S, q))
    BY <1>2, <2>1, <2>2, FS_Subset
  <2> QED  BY <1>2, <2>3
<1>5. ASSUME NEW q \in S, NEW r \in S, Cardinality(Earlier(w, S, q)) = Cardinality(Earlier(w, S, r)) PROVE q = r
  <2>1. ~(w.place[q] < w.place[r]) /\ ~(w.place[r] < w.place[q])  BY <1>2, <1>4, <1>5
  <2>2. w.place[q] = w.place[r]  BY <2>1
  <2> QED  BY <2>2
<1>6. ASSUME NEW i \in 0..n - 1 PROVE \E r \in S : Cardinality(Earlier(w, S, r)) = i
  <2>1. Rank \in Injection(S, 0..n - 1)  BY <1>3, <1>5 DEF Injection, IsInjective
  <2>2. IsFiniteSet(0..n - 1) /\ Cardinality(0..n - 1) = n
    <3> HIDE DEF n
    <3>1. IsFiniteSet(0..n - 1) /\ Cardinality(0..n - 1) = IF 0 > n - 1 THEN 0 ELSE n - 1 - 0 + 1  BY <1>1, FS_Interval
    <3> QED  BY <1>1, <3>1
  <2>3. Rank \in Surjection(S, 0..n - 1)  BY <2>1, <2>2, FS_Injection
  <2> QED  BY <2>3 DEF Surjection
<1> QED  BY <1>1, <1>3, <1>5, <1>6

LEMMA InOrderEnumerates ==
    ASSUME NEW w, NEW S, IsFiniteSet(S), \A r \in S : w.place[r] \in Nat,
           \A q, r \in S : w.place[q] = w.place[r] => q = r
    PROVE  /\ InOrder(w, S) \in Seq(S) /\ Len(InOrder(w, S)) = Cardinality(S) /\ Cardinality(S) \in Nat
           /\ \A r \in S : \E i \in 1..Cardinality(S) : InOrder(w, S)[i] = r
           /\ \A i, j \in 1..Cardinality(S) : InOrder(w, S)[i] = InOrder(w, S)[j] => i = j
<1> DEFINE n == Cardinality(S)
           Nth(i) == CHOOSE r \in S : Cardinality(Earlier(w, S, r)) = i - 1
<1>1. /\ n \in Nat
      /\ \A r \in S : Cardinality(Earlier(w, S, r)) \in 0..n - 1
      /\ \A q, r \in S : Cardinality(Earlier(w, S, q)) = Cardinality(Earlier(w, S, r)) => q = r
      /\ \A i \in 0..n - 1 : \E r \in S : Cardinality(Earlier(w, S, r)) = i
  BY RanksAreOwn
<1>2. InOrder(w, S) = [i \in 1..n |-> Nth(i)]  BY DEF InOrder
<1> HIDE DEF n
<1>3. ASSUME NEW i \in 1..n PROVE Nth(i) \in S /\ Cardinality(Earlier(w, S, Nth(i))) = i - 1
  <2>1. i - 1 \in 0..n - 1  BY <1>1
  <2>2. \E r \in S : Cardinality(Earlier(w, S, r)) = i - 1  BY <1>1, <2>1
  <2> QED  BY <2>2
<1>4. ASSUME NEW r \in S PROVE \E i \in 1..n : Nth(i) = r
  <2>1. PICK k \in 0..n - 1 : k = Cardinality(Earlier(w, S, r))  BY <1>1
  <2>2. k + 1 \in 1..n /\ (k + 1) - 1 = k  BY <1>1
  <2>3. Nth(k + 1) \in S /\ Cardinality(Earlier(w, S, Nth(k + 1))) = k  BY <2>2, <1>3
  <2> QED  BY <2>1, <2>2, <2>3, <1>1
<1>5. ASSUME NEW i \in 1..n, NEW j \in 1..n, Nth(i) = Nth(j) PROVE i = j
  <2>1. i - 1 = j - 1  BY <1>3, <1>5
  <2> QED  BY <2>1
<1> HIDE DEF Nth
<1>6. InOrder(w, S) \in Seq(S) /\ Len(InOrder(w, S)) = n  BY <1>1, <1>2, <1>3
<1> QED  BY <1>1, <1>2, <1>4, <1>5, <1>6 DEF n

\* Of a set of records with places of their own, T has the first n.
AreFirst(w, S, n, T) ==
    /\ IsFiniteSet(S) /\ T \in SUBSET S
    /\ \A r \in S : w.place[r] \in Nat
    /\ \A q, r \in S : w.place[q] = w.place[r] => q = r
    /\ \A r \in S : r \in T <=> ~(Cardinality(Earlier(w, S, r)) >= n)

LEMMA FirstStay ==
    ASSUME NEW w, NEW S, NEW n \in Nat \ {0}, NEW T, AreFirst(w, S, n, T)
    PROVE  Cardinality(T) <= n /\ (S # {} => T # {})
<1>a. /\ IsFiniteSet(S) /\ T \in SUBSET S
      /\ \A r \in S : w.place[r] \in Nat
      /\ \A q, r \in S : w.place[q] = w.place[r] => q = r
      /\ \A r \in S : r \in T <=> ~(Cardinality(Earlier(w, S, r)) >= n)
  BY DEF AreFirst
<1> DEFINE Rank == [r \in T |-> Cardinality(Earlier(w, S, r))]
<1>1. /\ Cardinality(S) \in Nat
      /\ \A r \in S : Cardinality(Earlier(w, S, r)) \in 0..Cardinality(S) - 1
      /\ \A q, r \in S : Cardinality(Earlier(w, S, q)) = Cardinality(Earlier(w, S, r)) => q = r
      /\ \A i \in 0..Cardinality(S) - 1 : \E r \in S : Cardinality(Earlier(w, S, r)) = i
  BY <1>a, RanksAreOwn
<1>2. T = {r \in S : Cardinality(Earlier(w, S, r)) < n}  BY <1>a, <1>1
<1>3. Rank \in Injection(T, 0..n - 1)
  <2>1. \A r \in T : r \in S /\ Cardinality(Earlier(w, S, r)) \in 0..n - 1  BY <1>1, <1>2
  <2> QED  BY <1>1, <2>1 DEF Injection, IsInjective
<1>4. IsFiniteSet(0..n - 1) /\ Cardinality(0..n - 1) = n
  <2>1. IsFiniteSet(0..n - 1) /\ Cardinality(0..n - 1) = IF 0 > n - 1 THEN 0 ELSE n - 1 - 0 + 1  BY FS_Interval
  <2> QED  BY <2>1
<1>5. Cardinality(T) <= n  BY <1>3, <1>4, FS_Injection
<1>6. ASSUME S # {} PROVE T # {}
  <2>1. Cardinality(S) # 0  BY <1>a, <1>6, FS_EmptySet
  <2>2. 0 \in 0..Cardinality(S) - 1  BY <1>1, <2>1
  <2> QED  BY <1>1, <1>2, <2>2
<1> QED  BY <1>5, <1>6

\* A sequence without repetition is as long as what is in it.
LEMMA NoRepetition ==
    ASSUME NEW w \in WindowDocument, \A i, j \in DOMAIN w.queue : w.queue[i] = w.queue[j] => i = j
    PROVE  Len(w.queue) = Cardinality(Queued(w))
<1>1. w.queue \in Seq(Request) /\ Len(w.queue) \in Nat /\ DOMAIN w.queue = 1..Len(w.queue)
  BY LenProperties DEF WindowDocument
<1>2. w.queue \in Bijection(1..Len(w.queue), Queued(w))
  <2>1. w.queue \in [1..Len(w.queue) -> Queued(w)]  BY <1>1 DEF Queued
  <2>2. w.queue \in Injection(1..Len(w.queue), Queued(w))  BY <1>1, <2>1 DEF Injection, IsInjective
  <2>3. w.queue \in Surjection(1..Len(w.queue), Queued(w))  BY <1>1, <2>1 DEF Surjection, Queued
  <2> QED  BY <2>2, <2>3 DEF Bijection
<1> QED  BY <1>1, <1>2, FS_CountingElements DEF ExistsBijection

-----------------------------------------------------------------------------
\* The operations keep a document sound.

LEMMA SlotsAreFinite ==
    ASSUME NEW S \in SUBSET Request
    PROVE  /\ IsFiniteSet(S) /\ Cardinality(S) \in Nat
           /\ \A r \in Request : Cardinality(S \cup {r}) \in Nat /\ Cardinality(S \cup {r}) <= Cardinality(S) + 1
<1>1. IsFiniteSet(S) /\ Cardinality(S) \in Nat  BY WindowAssumption, FS_Subset, FS_CardinalityType
<1>2. ASSUME NEW r \in Request PROVE Cardinality(S \cup {r}) \in Nat /\ Cardinality(S \cup {r}) <= Cardinality(S) + 1
  <2>1. Cardinality(S \cup {r}) = IF r \in S THEN Cardinality(S) ELSE Cardinality(S) + 1  BY <1>1, FS_AddElement
  <2> QED  BY <1>1, <2>1
<1> QED  BY <1>1, <1>2

LEMMA EmptyIsSound ==
    ASSUME NEW n \in Nat
    PROVE  DocumentIsSound(EmptyWindow, n)
<1>1. <<>> \in Seq(Request) /\ {} \in SUBSET (Request \X Outcome)  BY EmptySeq
<1>2. EmptyWindow \in WindowDocument  BY <1>1, WindowAssumption DEF EmptyWindow, WindowDocument
<1>3. Records(EmptyWindow) = {} /\ Slots(EmptyWindow) = {} /\ Queued(EmptyWindow) = {}
  BY DEF Records, Slots, Queued, EmptyWindow, Occupying
<1>4. EmptyWindow.queue = <<>> /\ EmptyWindow.capacity \in Nat /\ \A r \in Request : EmptyWindow.place[r] = 0 /\ EmptyWindow.state[r] = "absent"
  BY WindowAssumption DEF EmptyWindow
<1>5. PlacesAreOwn(EmptyWindow)  BY <1>3, <1>4 DEF PlacesAreOwn
<1>6. QueueIsRight(EmptyWindow)  BY <1>3, <1>4 DEF QueueIsRight
<1>7. SlotsAreRight(EmptyWindow, n)  BY <1>3, <1>4, FS_EmptySet DEF SlotsAreRight
<1> QED  BY <1>2, <1>3, <1>5, <1>6, <1>7 DEF DocumentIsSound, KeysAreOwn

LEMMA MergedIsTheFile ==
    ASSUME NEW d, NEW n, DocumentIsSound(d, n)
    PROVE  MergedWindow(EmptyWindow, d) = d
<1>1. d \in WindowDocument  BY DEF DocumentIsSound
<1>2. Records(EmptyWindow) = {}  BY DEF Records, EmptyWindow
<1>3. [r \in Request |-> IF r \in Records(d) THEN d.state[r] ELSE EmptyWindow.state[r]] = d.state
  BY <1>1 DEF WindowDocument, Records, EmptyWindow
<1>4. [r \in Request |-> IF r \in Records(d) \ Records(EmptyWindow) THEN EmptyWindow.last + d.place[r] ELSE EmptyWindow.place[r]] = d.place
  <2>1. d.place \in [Request -> Nat] /\ EmptyWindow.last = 0 /\ \A r \in Request : EmptyWindow.place[r] = 0
    BY <1>1 DEF WindowDocument, EmptyWindow
  <2>2. \A r \in Request : d.place[r] = IF r \in Records(d) THEN 0 + d.place[r] ELSE 0
    BY <2>1 DEF DocumentIsSound, PlacesAreOwn
  <2>3. \A r \in Request : d.place[r] =
            IF r \in Records(d) \ Records(EmptyWindow) THEN EmptyWindow.last + d.place[r] ELSE EmptyWindow.place[r]
    BY <1>2, <2>1, <2>2
  <2> QED  BY <2>1, <2>3
<1>5. EmptyWindow.last + d.last = d.last /\ EmptyWindow.receipts \cup d.receipts = d.receipts
  BY <1>1 DEF WindowDocument, EmptyWindow
<1>6. MergedWindow(EmptyWindow, d) =
        [capacity |-> d.capacity, queue |-> d.queue, receipts |-> d.receipts, state |-> d.state, place |-> d.place, last |-> d.last]
  BY <1>3, <1>4, <1>5 DEF MergedWindow
<1> QED  BY <1>1, <1>6 DEF WindowDocument

LEMMA AdmittedIsSound ==
    ASSUME NEW w, NEW n \in Nat, DocumentIsSound(w, n), NEW r \in Request, IsNew(w, r)
    PROVE  DocumentIsSound(Admitted(w, r), n) /\ Records(Admitted(w, r)) = Records(w) \cup {r}
<1> DEFINE fits == Cardinality(Slots(w)) < w.capacity
           v == Admitted(w, r)
<1>t. /\ w \in WindowDocument /\ w.capacity \in Nat /\ w.queue \in Seq(Request) /\ w.last \in Nat
      /\ w.place \in [Request -> Nat] /\ w.state \in [Request -> {"absent", "accepted"} \cup Occupying \cup Terminal]
      /\ w.capacity # 0
  BY DEF DocumentIsSound, WindowDocument
<1>n. r \notin Records(w) /\ w.state[r] = "absent"  BY DEF IsNew, Records
<1>v. /\ v.capacity = w.capacity /\ v.last = w.last + 1 /\ v.receipts = w.receipts
      /\ v.place = [w.place EXCEPT ![r] = w.last + 1]
      /\ v.state = [w.state EXCEPT ![r] = IF fits THEN "dispatched" ELSE "accepted"]
      /\ v.queue = IF fits THEN w.queue ELSE Append(w.queue, r)
      /\ DOMAIN v = DOMAIN w
  BY <1>t DEF Admitted, WindowDocument
<1>d. v \in WindowDocument
  <2>1. Append(w.queue, r) \in Seq(Request)  BY <1>t, AppendProperties
  <2>2. v.queue \in Seq(Request)  BY <2>1, <1>t, <1>v
  <2>3. v.state \in [Request -> {"absent", "accepted"} \cup Occupying \cup Terminal]  BY <1>t, <1>v DEF Occupying
  <2>4. v.place \in [Request -> Nat] /\ v.last \in Nat  BY <1>t, <1>v
  <2>5. v = [w EXCEPT !.last = v.last, !.place = v.place, !.state = v.state, !.queue = v.queue]
    BY <1>t, <1>v DEF Admitted, WindowDocument
  <2> HIDE DEF v
  <2> QED  BY <1>t, <2>2, <2>3, <2>4, <2>5 DEF WindowDocument
<1> HIDE DEF v
<1>s. \A q \in Request : v.state[q] = IF q = r THEN (IF fits THEN "dispatched" ELSE "accepted") ELSE w.state[q]
  BY <1>t, <1>v
<1>1. Records(v) = Records(w) \cup {r}  BY <1>s DEF Records
<1>2. Slots(v) = IF fits THEN Slots(w) \cup {r} ELSE Slots(w)
  BY <1>s, <1>n DEF Slots, Occupying
<1>3. PlacesAreOwn(v)
  <2>1. \A q \in Request : v.place[q] = IF q = r THEN w.last + 1 ELSE w.place[q]  BY <1>t, <1>v
  <2>2. \A q \in Records(w) : q \in Request /\ w.place[q] <= w.last /\ w.place[q] \in Nat /\ q # r
    BY <1>t, <1>n DEF DocumentIsSound, PlacesAreOwn, Records
  <2>3. \A q \in Request : IF q \in Records(v) THEN v.place[q] <= v.last ELSE v.place[q] = 0
    BY <1>t, <1>v, <1>1, <2>1, <2>2 DEF DocumentIsSound, PlacesAreOwn
  <2>4. \A p, q \in Records(v) : v.place[p] = v.place[q] => p = q
    BY <1>t, <1>1, <2>1, <2>2 DEF DocumentIsSound, PlacesAreOwn
  <2> QED  BY <2>3, <2>4 DEF PlacesAreOwn
<1>4. QueueIsRight(v) /\ Queued(v) = IF fits THEN Queued(w) ELSE Queued(w) \cup {r}
  <2>1. CASE fits
    <3>1. v.queue = w.queue /\ Queued(v) = Queued(w)  BY <1>v, <2>1 DEF Queued
    <3> QED  BY <2>1, <3>1, <1>1, <1>s DEF DocumentIsSound, QueueIsRight
  <2>2. CASE ~fits
    <3>1. Len(w.queue) \in Nat /\ DOMAIN w.queue = 1..Len(w.queue)  BY <1>t, LenProperties
    <3>2. /\ DOMAIN v.queue = 1..Len(w.queue) + 1 /\ v.queue[Len(w.queue) + 1] = r
          /\ \A i \in 1..Len(w.queue) : v.queue[i] = w.queue[i]
      BY <1>t, <1>v, <2>2, AppendProperties
    <3>p. PICK l \in Nat : l = Len(w.queue)  BY <3>1
    <3>3. \A i \in 1..l + 1 : i = l + 1 \/ i \in 1..l  OBVIOUS
    <3>4. Queued(v) = Queued(w) \cup {r}
      <4>1. l + 1 \in 1..l + 1 /\ \A i \in 1..l : i \in 1..l + 1  OBVIOUS
      <4> QED  BY <3>1, <3>2, <3>p, <3>3, <4>1 DEF Queued
    <3>5. r \notin Queued(w)  BY <1>n DEF DocumentIsSound, QueueIsRight
    <3>6. \A i \in 1..l : w.queue[i] # r  BY <3>1, <3>p, <3>5 DEF Queued
    <3>7. \A i, j \in DOMAIN v.queue : v.queue[i] = v.queue[j] => i = j
      BY <3>1, <3>2, <3>p, <3>3, <3>6 DEF DocumentIsSound, QueueIsRight
    <3> QED  BY <2>2, <3>4, <3>7, <1>1, <1>s DEF DocumentIsSound, QueueIsRight
  <2> QED  BY <2>1, <2>2
<1>5. SlotsAreRight(v, n)
  <2>1. n = 0 => \A q \in Queued(v) : v.state[q] = "accepted"
    <3>1. Queued(w) \subseteq Request /\ r \notin Queued(w)  BY <1>n DEF DocumentIsSound, QueueIsRight, Records
    <3> QED  BY <3>1, <1>4, <1>s DEF DocumentIsSound, SlotsAreRight
  <2>2. Cardinality(Slots(v)) <= v.capacity + n
    <3>1. Slots(w) \in SUBSET Request  BY DEF Slots
    <3>2. IsFiniteSet(Slots(w)) /\ Cardinality(Slots(w)) \in Nat  BY <3>1, SlotsAreFinite
    <3>3. Cardinality(Slots(w) \cup {r}) <= Cardinality(Slots(w)) + 1 /\ Cardinality(Slots(w) \cup {r}) \in Nat
      BY <3>1, SlotsAreFinite
    <3>5. Cardinality(Slots(w)) <= w.capacity + n  BY DEF DocumentIsSound, SlotsAreRight
    <3> QED  BY <1>t, <1>v, <1>2, <3>2, <3>3, <3>5
  <2>3. v.queue # <<>> => Slots(v) # {}
    <3>1. CASE fits  BY <3>1, <1>2
    <3>2. CASE ~fits
      <4>1. Cardinality(Slots(w)) # 0  BY <1>t, <3>2
      <4>2. Slots(w) # {}  BY <4>1, FS_EmptySet
      <4> QED  BY <4>2, <3>2, <1>2
    <3> QED  BY <3>1, <3>2
  <2> QED  BY <2>1, <2>2, <2>3 DEF SlotsAreRight
<1>6. KeysAreOwn(v)  BY <1>1 DEF DocumentIsSound, KeysAreOwn, IsNew
<1> QED  BY <1>d, <1>1, <1>3, <1>4, <1>5, <1>6 DEF DocumentIsSound, v

\* The tail of a queue without repetition.
LEMMA TailsOfQueues ==
    ASSUME NEW q \in Seq(Request), q # <<>>, \A i, j \in DOMAIN q : q[i] = q[j] => i = j
    PROVE  /\ Tail(q) \in Seq(Request) /\ Head(q) \in Request
           /\ {Tail(q)[i] : i \in DOMAIN Tail(q)} = {q[i] : i \in DOMAIN q} \ {Head(q)}
           /\ Head(q) \in {q[i] : i \in DOMAIN q}
           /\ \A i, j \in DOMAIN Tail(q) : Tail(q)[i] = Tail(q)[j] => i = j
<1>1. Len(q) \in Nat \ {0} /\ DOMAIN q = 1..Len(q) /\ Head(q) = q[1]  BY EmptySeq, LenProperties
<1>2. /\ Tail(q) \in Seq(Request) /\ Head(q) \in Request /\ Len(Tail(q)) = Len(q) - 1
      /\ \A i \in 1..Len(Tail(q)) : Tail(q)[i] = q[i + 1]
  BY HeadTailProperties
<1>3. DOMAIN Tail(q) = 1..Len(q) - 1  BY <1>2, LenProperties
<1>4. PICK l \in Nat : Len(q) = l + 1
  <2>1. Len(q) - 1 \in Nat /\ Len(q) = (Len(q) - 1) + 1  BY <1>1
  <2> QED  BY <2>1
<1>5. DOMAIN Tail(q) = 1..l /\ DOMAIN q = 1..l + 1 /\ \A i \in 1..l : Tail(q)[i] = q[i + 1]
  BY <1>1, <1>2, <1>3, <1>4
<1>6. (\A i \in 1..l : i + 1 \in 1..l + 1 /\ i + 1 # 1) /\ 1 \in 1..l + 1  OBVIOUS
<1>7. ASSUME NEW i \in 1..l + 1, i # 1 PROVE \E k \in 1..l : k + 1 = i
  <2>1. i - 1 \in 1..l /\ (i - 1) + 1 = i  BY <1>7
  <2> QED  BY <2>1
<1>8. \A i \in 1..l : Tail(q)[i] # Head(q)  BY <1>1, <1>5, <1>6
<1>9. \A i, j \in 1..l : Tail(q)[i] = Tail(q)[j] => i = j
  <2>1. \A i, j \in 1..l : i + 1 = j + 1 => i = j  OBVIOUS
  <2> QED  BY <2>1, <1>5, <1>6
<1>10. {Tail(q)[i] : i \in DOMAIN Tail(q)} = {q[i] : i \in DOMAIN q} \ {Head(q)}
  <2>1. ASSUME NEW x \in {Tail(q)[i] : i \in 1..l} PROVE x \in {q[i] : i \in 1..l + 1} \ {Head(q)}
    <3>1. PICK i \in 1..l : x = Tail(q)[i]  BY <2>1
    <3> QED  BY <3>1, <1>5, <1>6, <1>8
  <2>2. ASSUME NEW x \in {q[i] : i \in 1..l + 1}, x # Head(q) PROVE x \in {Tail(q)[i] : i \in 1..l}
    <3>1. PICK i \in 1..l + 1 : x = q[i]  BY <2>2
    <3>2. PICK k \in 1..l : k + 1 = i  BY <3>1, <2>2, <1>1, <1>7
    <3> QED  BY <3>1, <3>2, <1>5
  <2> QED  BY <2>1, <2>2, <1>5
<1> QED  BY <1>1, <1>2, <1>5, <1>6, <1>9, <1>10

\* Two sequences without repetition, with nothing in common.
LEMMA JoinsOfQueues ==
    ASSUME NEW p \in Seq(Request), NEW q \in Seq(Request),
           \A i, j \in DOMAIN p : p[i] = p[j] => i = j, \A i, j \in DOMAIN q : q[i] = q[j] => i = j,
           \A i \in DOMAIN p, j \in DOMAIN q : p[i] # q[j]
    PROVE  /\ p \o q \in Seq(Request) /\ Len(p \o q) = Len(p) + Len(q)
           /\ {(p \o q)[i] : i \in DOMAIN (p \o q)} = {p[i] : i \in DOMAIN p} \cup {q[i] : i \in DOMAIN q}
           /\ \A i, j \in DOMAIN (p \o q) : (p \o q)[i] = (p \o q)[j] => i = j
<1>1. /\ p \o q \in Seq(Request) /\ Len(p \o q) = Len(p) + Len(q)
      /\ \A i \in 1..Len(p) + Len(q) : (p \o q)[i] = IF i <= Len(p) THEN p[i] ELSE q[i - Len(p)]
  BY ConcatProperties
<1>2. /\ Len(p) \in Nat /\ Len(q) \in Nat /\ DOMAIN p = 1..Len(p) /\ DOMAIN q = 1..Len(q)
      /\ DOMAIN (p \o q) = 1..Len(p) + Len(q)
  BY <1>1, LenProperties
<1>3. PICK k \in Nat, l \in Nat : k = Len(p) /\ l = Len(q)  BY <1>2
<1>4. /\ \A i \in 1..k : i \in 1..k + l /\ i <= k
      /\ \A i \in 1..l : i + k \in 1..k + l /\ ~(i + k <= k) /\ (i + k) - k = i
      /\ \A i \in 1..k + l : IF i <= k THEN i \in 1..k ELSE i - k \in 1..l
  OBVIOUS
<1>5. /\ \A i \in 1..k : (p \o q)[i] = p[i]
      /\ \A i \in 1..l : (p \o q)[i + k] = q[i]
      /\ \A i \in 1..k + l : (p \o q)[i] = IF i <= k THEN p[i] ELSE q[i - k]
  BY <1>1, <1>3, <1>4
<1> DEFINE joined == {(p \o q)[i] : i \in 1..k + l}
           left == {p[i] : i \in 1..k}
           right == {q[i] : i \in 1..l}
<1>6. joined = left \cup right
  <2>1. ASSUME NEW x \in joined PROVE x \in left \cup right
    <3>1. PICK i \in 1..k + l : x = (p \o q)[i]  BY <2>1
    <3>2. CASE i <= k  BY <3>1, <3>2, <1>4, <1>5
    <3>3. CASE ~(i <= k)
      <4>1. x = q[i - k] /\ i - k \in 1..l  BY <3>1, <3>3, <1>4, <1>5
      <4> QED  BY <4>1
    <3> QED  BY <3>2, <3>3
  <2>2. ASSUME NEW x \in left PROVE x \in joined
    <3>1. PICK i \in 1..k : x = p[i]  BY <2>2
    <3>2. i \in 1..k + l /\ (p \o q)[i] = x  BY <3>1, <1>4, <1>5
    <3> QED  BY <3>2
  <2>3. ASSUME NEW x \in right PROVE x \in joined
    <3>1. PICK i \in 1..l : x = q[i]  BY <2>3
    <3>2. i + k \in 1..k + l /\ (p \o q)[i + k] = x  BY <3>1, <1>4, <1>5
    <3> QED  BY <3>2
  <2> HIDE DEF joined, left, right
  <2> QED  BY <2>1, <2>2, <2>3
<1>7. ASSUME NEW i \in 1..k + l, NEW j \in 1..k + l, (p \o q)[i] = (p \o q)[j] PROVE i = j
  <2>1. CASE i <= k /\ j <= k  BY <1>2, <1>3, <1>4, <1>5, <1>7, <2>1
  <2>2. CASE ~(i <= k) /\ ~(j <= k)
    <3>1. i - k \in 1..l /\ j - k \in 1..l /\ q[i - k] = q[j - k]  BY <1>4, <1>5, <1>7, <2>2
    <3>2. i - k = j - k  BY <1>2, <1>3, <3>1
    <3> QED  BY <3>2
  <2>3. CASE i <= k /\ ~(j <= k)
    <3>1. i \in 1..k /\ j - k \in 1..l /\ p[i] = q[j - k]  BY <1>4, <1>5, <1>7, <2>3
    <3> QED  BY <1>2, <1>3, <3>1
  <2>4. CASE ~(i <= k) /\ j <= k
    <3>1. j \in 1..k /\ i - k \in 1..l /\ p[j] = q[i - k]  BY <1>4, <1>5, <1>7, <2>4
    <3> QED  BY <1>2, <1>3, <3>1
  <2> QED  BY <2>1, <2>2, <2>3, <2>4
<1> QED  BY <1>1, <1>2, <1>3, <1>6, <1>7

\* A receipt, of an instruction with a slot or of another one.
LEMMA ReceivedIsSound ==
    ASSUME NEW w, NEW n \in Nat, DocumentIsSound(w, n), NEW r \in Records(w), NEW outcome \in Outcome, NEW m \in Nat,
           m = IF w.state[r] \in Occupying THEN n ELSE n + 1
    PROVE  DocumentIsSound(Received(w, r, outcome), m) /\ Records(Received(w, r, outcome)) = Records(w)
<1> DEFINE v == Received(w, r, outcome)
           frees == outcome \in Terminal /\ w.queue # <<>>
           h == Head(w.queue)
<1>t. /\ w \in WindowDocument /\ w.capacity \in Nat /\ w.queue \in Seq(Request) /\ w.last \in Nat
      /\ w.state \in [Request -> {"absent", "accepted"} \cup Occupying \cup Terminal]
      /\ w.receipts \in SUBSET (Request \X Outcome) /\ w.capacity # 0 /\ r \in Request
  BY DEF DocumentIsSound, WindowDocument, Records
<1>o. outcome \in Terminal \cup {"partially-completed"}  BY WindowAssumption DEF Terminal
<1>h. w.queue # <<>> =>
          /\ Tail(w.queue) \in Seq(Request) /\ h \in Request
          /\ {Tail(w.queue)[i] : i \in DOMAIN Tail(w.queue)} = Queued(w) \ {h} /\ h \in Queued(w)
          /\ \A i, j \in DOMAIN Tail(w.queue) : Tail(w.queue)[i] = Tail(w.queue)[j] => i = j
  BY <1>t, TailsOfQueues DEF DocumentIsSound, QueueIsRight, Queued
<1>v. /\ v.capacity = w.capacity /\ v.last = w.last /\ v.place = w.place
      /\ v.receipts = w.receipts \cup {<<r, outcome>>}
      /\ v.queue = IF frees THEN Tail(w.queue) ELSE w.queue
      /\ \A q \in Request : v.state[q] = IF frees /\ q = h THEN "dispatched" ELSE IF q = r THEN outcome ELSE w.state[q]
  BY <1>t, <1>h DEF Received, Backfilled, WindowDocument
<1>d. v \in WindowDocument
  <2>1. v.queue \in Seq(Request) /\ v.receipts \in SUBSET (Request \X Outcome)  BY <1>t, <1>v, <1>h
  <2>2. v.state \in [Request -> {"absent", "accepted"} \cup Occupying \cup Terminal]
    <3>1. v.state = IF frees THEN [[w.state EXCEPT ![r] = outcome] EXCEPT ![h] = "dispatched"]
                    ELSE [w.state EXCEPT ![r] = outcome]
      BY <1>t DEF Received, Backfilled, WindowDocument
    <3> QED  BY <3>1, <1>t, <1>o DEF Occupying
  <2>3. v = [w EXCEPT !.receipts = v.receipts, !.state = v.state, !.queue = v.queue]
    BY <1>t DEF Received, Backfilled, WindowDocument
  <2> HIDE DEF v
  <2> QED  BY <1>t, <2>1, <2>2, <2>3 DEF WindowDocument
<1> HIDE DEF v
<1>q. Queued(v) = (IF frees THEN Queued(w) \ {h} ELSE Queued(w)) /\ Queued(w) \subseteq Records(w)
  <2>1. CASE frees
    <3>1. v.queue = Tail(w.queue) /\ Queued(v) = {v.queue[i] : i \in DOMAIN v.queue}  BY <2>1, <1>v DEF Queued
    <3> QED  BY <3>1, <2>1, <1>h DEF DocumentIsSound, QueueIsRight
  <2>2. CASE ~frees
    <3>1. v.queue = w.queue  BY <2>2, <1>v
    <3> QED  BY <3>1, <2>2 DEF Queued, DocumentIsSound, QueueIsRight
  <2> QED  BY <2>1, <2>2
<1>k. frees => h \in Queued(w) /\ h \in Records(w) /\ h \in Request  BY <1>h, <1>q
<1> HIDE DEF frees, h
<1>1. Records(v) = Records(w)  BY <1>v, <1>k, <1>o DEF Records, Terminal
<1>2. PlacesAreOwn(v)  BY <1>1, <1>v DEF DocumentIsSound, PlacesAreOwn
<1>3. QueueIsRight(v)
  <2>1. \A i, j \in DOMAIN v.queue : v.queue[i] = v.queue[j] => i = j
    BY <1>v, <1>h DEF frees, DocumentIsSound, QueueIsRight
  <2>2. Queued(v) \subseteq Records(v)  BY <1>1, <1>q
  <2>3. \A q \in Request : v.state[q] = "accepted" => q \in Queued(v)
    BY <1>v, <1>q, <1>o DEF DocumentIsSound, QueueIsRight, Terminal
  <2> QED  BY <2>1, <2>2, <2>3 DEF QueueIsRight
<1>4. SlotsAreRight(v, m)
  <2>1. ASSUME m = 0 PROVE \A q \in Queued(v) : v.state[q] = "accepted"
    <3>1. w.state[r] \in Occupying /\ n = 0  BY <2>1
    <3>2. \A q \in Queued(w) : w.state[q] = "accepted" /\ q \in Request  BY <3>1, <1>q DEF DocumentIsSound, SlotsAreRight, Records
    <3>3. r \notin Queued(w)  BY <3>1, <3>2 DEF Occupying
    <3> QED  BY <3>2, <3>3, <1>v, <1>q
  <2>s. /\ Slots(w) \in SUBSET Request /\ Slots(w) \ {r} \in SUBSET Request
        /\ Cardinality(Slots(w)) <= w.capacity + n
    BY DEF Slots, DocumentIsSound, SlotsAreRight
  <2>c. IsFiniteSet(Slots(w)) /\ Cardinality(Slots(w)) \in Nat /\ Cardinality(Slots(w) \ {r}) \in Nat
    BY <2>s, SlotsAreFinite
  <2>2. CASE outcome = "partially-completed"
    <3>1. ~frees  BY <2>2 DEF frees, Terminal
    <3>2. Slots(v) = Slots(w) \cup {r}  BY <1>v, <1>t, <2>2, <3>1 DEF Slots, Occupying
    <3>3. Cardinality(Slots(v)) <= v.capacity + m
      <4>1. CASE w.state[r] \in Occupying
        <5>1. Slots(v) = Slots(w)  BY <3>2, <4>1, <1>t DEF Slots
        <5> QED  BY <5>1, <4>1, <2>s, <1>v
      <4>2. CASE w.state[r] \notin Occupying
        <5>1. Cardinality(Slots(w) \cup {r}) <= Cardinality(Slots(w)) + 1 /\ Cardinality(Slots(w) \cup {r}) \in Nat
          BY <2>s, <1>t, SlotsAreFinite
        <5> QED  BY <5>1, <4>2, <2>s, <2>c, <1>v, <1>t, <3>2
      <4> QED  BY <4>1, <4>2
    <3> QED  BY <2>1, <3>2, <3>3 DEF SlotsAreRight
  <2>3. CASE outcome \in Terminal /\ w.queue = <<>>
    <3>1. ~frees /\ v.queue = <<>>  BY <1>v, <2>3 DEF frees
    <3>2. Slots(v) = Slots(w) \ {r}  BY <1>v, <1>t, <2>3, <3>1 DEF Slots, Occupying, Terminal
    <3>3. Cardinality(Slots(v)) <= Cardinality(Slots(w))
      BY <3>2, <2>c, FS_Subset
    <3>4. Cardinality(Slots(v)) \in Nat  BY <3>2, <2>c
    <3> QED  BY <2>1, <2>s, <2>c, <1>t, <1>v, <3>1, <3>3, <3>4 DEF SlotsAreRight
  <2>4. CASE frees
    <3>0. outcome \in Terminal  BY <2>4 DEF frees
    <3>1. Slots(v) = (Slots(w) \ {r}) \cup {h}
      BY <1>v, <1>t, <1>k, <2>4, <3>0 DEF Slots, Occupying, Terminal
    <3>2. Cardinality(Slots(v)) <= Cardinality(Slots(w) \ {r}) + 1 /\ Cardinality(Slots(v)) \in Nat
      BY <3>1, <2>s, <2>4, <1>k, SlotsAreFinite
    <3>3. Cardinality(Slots(w) \ {r}) <= Cardinality(Slots(w)) /\
          (w.state[r] \in Occupying => Cardinality(Slots(w) \ {r}) = Cardinality(Slots(w)) - 1)
      <4>1. w.state[r] \in Occupying <=> r \in Slots(w)  BY <1>t DEF Slots
      <4>2. Cardinality(Slots(w) \ {r}) = IF r \in Slots(w) THEN Cardinality(Slots(w)) - 1 ELSE Cardinality(Slots(w))
        BY <2>c, FS_RemoveElement
      <4> QED  BY <4>1, <4>2, <2>c
    <3>4. Cardinality(Slots(v)) <= v.capacity + m  BY <3>2, <3>3, <2>s, <2>c, <1>t, <1>v
    <3> QED  BY <2>1, <3>1, <3>4 DEF SlotsAreRight
  <2> QED  BY <2>2, <2>3, <2>4, <1>o DEF frees
<1>5. KeysAreOwn(v)  BY <1>1 DEF DocumentIsSound, KeysAreOwn
<1> QED  BY <1>d, <1>1, <1>2, <1>3, <1>4, <1>5 DEF DocumentIsSound, v

LEMMA ResizedIsSound ==
    ASSUME NEW w, NEW n \in Nat, DocumentIsSound(w, n), NEW size \in 1..MaxCapacity
    PROVE  DocumentIsSound(Resized(w, size), n) /\ Records(Resized(w, size)) = Records(w)
<1> DEFINE v == Resized(w, size)
           S == Slots(w)
           overflow == {r \in S : Cardinality(Earlier(w, S, r)) >= size}
           back == overflow \ Queued(w)
<1>t. /\ w \in WindowDocument /\ w.capacity \in Nat /\ w.queue \in Seq(Request) /\ w.place \in [Request -> Nat]
      /\ w.state \in [Request -> {"absent", "accepted"} \cup Occupying \cup Terminal]
      /\ size \in Nat \ {0}
  BY WindowAssumption DEF DocumentIsSound, WindowDocument
<1>s. S \in SUBSET Request /\ back \in SUBSET Request /\ S \subseteq Records(w) /\ overflow \subseteq S
  BY DEF Slots, Records, Occupying
<1>f. IsFiniteSet(S) /\ IsFiniteSet(back) /\ Cardinality(S) \in Nat  BY <1>s, SlotsAreFinite
<1>p. (\A r \in S : w.place[r] \in Nat) /\ \A q, r \in S : w.place[q] = w.place[r] => q = r
  BY <1>s, <1>t DEF DocumentIsSound, PlacesAreOwn
<1>r. /\ Cardinality(S \ overflow) <= size /\ (S # {} => S \ overflow # {})
  <2> DEFINE T == S \ overflow
  <2> HIDE DEF S
  <2>1. T \in SUBSET S /\ \A r \in S : r \in T <=> ~(Cardinality(Earlier(w, S, r)) >= size)  OBVIOUS
  <2>2. size \in Nat \ {0}  BY <1>t
  <2>3. AreFirst(w, S, size, T)  BY <2>1, <1>f, <1>p DEF AreFirst
  <2> HIDE DEF T
  <2>4. Cardinality(T) <= size /\ (S # {} => T # {})  BY <2>2, <2>3, FirstStay
  <2> QED  BY <2>4 DEF T
<1>i. /\ InOrder(w, back) \in Seq(back) /\ Len(InOrder(w, back)) = Cardinality(back)
      /\ {InOrder(w, back)[i] : i \in DOMAIN InOrder(w, back)} = back
      /\ \A i, j \in DOMAIN InOrder(w, back) : InOrder(w, back)[i] = InOrder(w, back)[j] => i = j
  <2>1. (\A r \in back : w.place[r] \in Nat) /\ \A q, r \in back : w.place[q] = w.place[r] => q = r  BY <1>p, <1>s
  <2> HIDE DEF back
  <2>2. /\ InOrder(w, back) \in Seq(back) /\ Len(InOrder(w, back)) = Cardinality(back)
        /\ \A r \in back : \E i \in 1..Cardinality(back) : InOrder(w, back)[i] = r
        /\ \A i, j \in 1..Cardinality(back) : InOrder(w, back)[i] = InOrder(w, back)[j] => i = j
    BY <2>1, <1>f, InOrderEnumerates
  <2>3. DOMAIN InOrder(w, back) = 1..Cardinality(back) /\ \A i \in 1..Cardinality(back) : InOrder(w, back)[i] \in back
    BY <2>2, ElementOfSeq, LenProperties
  <2> QED  BY <2>2, <2>3
<1>v. /\ v.capacity = size /\ v.last = w.last /\ v.receipts = w.receipts /\ v.place = w.place
      /\ v.state = [r \in Request |-> IF r \in overflow THEN "accepted" ELSE w.state[r]]
      /\ v.queue = w.queue \o InOrder(w, back)
      /\ v = [w EXCEPT !.capacity = v.capacity, !.state = v.state, !.queue = v.queue]
  BY <1>t DEF Resized, WindowDocument
<1> HIDE DEF v, back
<1>j. /\ v.queue \in Seq(Request)
      /\ Queued(v) = Queued(w) \cup back
      /\ \A i, j \in DOMAIN v.queue : v.queue[i] = v.queue[j] => i = j
      /\ Len(v.queue) = Len(w.queue) + Len(InOrder(w, back))
  <2>1. InOrder(w, back) \in Seq(Request)
    BY <1>i, <1>s
  <2>2. \A i \in DOMAIN w.queue, j \in DOMAIN InOrder(w, back) : w.queue[i] # InOrder(w, back)[j]
    BY <1>i DEF Queued, back
  <2>3. \A i, j \in DOMAIN w.queue : w.queue[i] = w.queue[j] => i = j  BY DEF DocumentIsSound, QueueIsRight
  <2>p. PICK order \in Seq(Request) : order = InOrder(w, back)  BY <2>1
  <2>4. /\ w.queue \o order \in Seq(Request) /\ Len(w.queue \o order) = Len(w.queue) + Len(order)
        /\ {(w.queue \o order)[i] : i \in DOMAIN (w.queue \o order)} =
              {w.queue[i] : i \in DOMAIN w.queue} \cup {order[i] : i \in DOMAIN order}
        /\ \A i, j \in DOMAIN (w.queue \o order) : (w.queue \o order)[i] = (w.queue \o order)[j] => i = j
    <3>1. \A i, j \in DOMAIN order : order[i] = order[j] => i = j  BY <1>i, <2>p
    <3>2. \A i \in DOMAIN w.queue, j \in DOMAIN order : w.queue[i] # order[j]  BY <2>2, <2>p
    <3> QED  BY <2>3, <3>1, <3>2, <1>t, JoinsOfQueues
  <2>5. v.queue = w.queue \o order /\ {order[i] : i \in DOMAIN order} = back
    <3>1. v.queue = w.queue \o order  BY <2>p, <1>v
    <3>2. {order[i] : i \in DOMAIN order} = {InOrder(w, back)[i] : i \in DOMAIN InOrder(w, back)}  BY <2>p
    <3> QED  BY <3>1, <3>2, <1>i
  <2>6. Queued(v) = Queued(w) \cup back
    <3>1. Queued(v) = {(w.queue \o order)[i] : i \in DOMAIN (w.queue \o order)}  BY <2>5 DEF Queued
    <3>2. Queued(w) = {w.queue[i] : i \in DOMAIN w.queue}  BY DEF Queued
    <3> QED  BY <3>1, <3>2, <2>4, <2>5
  <2> QED  BY <2>4, <2>5, <2>6, <2>p
<1>d. v \in WindowDocument
  <2>1. v.state \in [Request -> {"absent", "accepted"} \cup Occupying \cup Terminal]
    BY <1>t, <1>v
  <2> QED  BY <1>t, <1>v, <1>j, <2>1 DEF WindowDocument
<1>e. \A r \in Request : v.state[r] = IF r \in overflow THEN "accepted" ELSE w.state[r]  BY <1>v
<1> HIDE DEF overflow
<1>1. Records(v) = Records(w)  BY <1>e, <1>s DEF Records
<1>2. PlacesAreOwn(v)  BY <1>1, <1>v DEF DocumentIsSound, PlacesAreOwn
<1>3. QueueIsRight(v)
  <2>1. Queued(v) \subseteq Records(v)  BY <1>1, <1>j, <1>s DEF back, DocumentIsSound, QueueIsRight
  <2>2. \A q \in Request : v.state[q] = "accepted" => q \in Queued(v)
    BY <1>e, <1>j DEF back, DocumentIsSound, QueueIsRight
  <2> QED  BY <1>j, <2>1, <2>2 DEF QueueIsRight
<1>4. SlotsAreRight(v, n)
  <2>1. Slots(v) = S \ overflow  BY <1>e DEF Slots, Occupying
  <2>2. n = 0 => \A q \in Queued(v) : v.state[q] = "accepted"
    <3>1. Queued(v) \subseteq Request  BY <1>j, <1>s DEF DocumentIsSound, QueueIsRight, Records
    <3> QED  BY <3>1, <1>e, <1>j DEF back, DocumentIsSound, SlotsAreRight
  <2>3. Cardinality(Slots(v)) <= v.capacity + n
    <3>1. Cardinality(Slots(v)) \in Nat  BY <2>1, <1>s, SlotsAreFinite
    <3> QED  BY <2>1, <3>1, <1>r, <1>v, <1>t
  <2>4. ASSUME v.queue # <<>> PROVE Slots(v) # {}
    <3>1. CASE w.queue # <<>>  BY <3>1, <2>1, <1>r DEF DocumentIsSound, SlotsAreRight
    <3>2. CASE back # {}  BY <3>2, <2>1, <1>r, <1>s DEF back
    <3>3. CASE w.queue = <<>> /\ back = {}
      <4>1. Cardinality(back) = 0 /\ Len(w.queue) = 0  BY <3>3, FS_EmptySet
      <4>2. Len(v.queue) = 0  BY <4>1, <1>i, <1>j
      <4> QED  BY <4>2, <1>j, <2>4, EmptySeq
    <3> QED  BY <3>1, <3>2, <3>3
  <2> QED  BY <2>2, <2>3, <2>4 DEF SlotsAreRight
<1>5. KeysAreOwn(v)  BY <1>1 DEF DocumentIsSound, KeysAreOwn
<1> QED  BY <1>d, <1>1, <1>2, <1>3, <1>4, <1>5 DEF DocumentIsSound, v

LEMMA SoundStaysSound ==
    ASSUME NEW w, NEW n \in Nat, NEW m \in Nat, n <= m, DocumentIsSound(w, n)
    PROVE  DocumentIsSound(w, m)
<1>1. w.capacity \in Nat /\ Slots(w) \in SUBSET Request  BY DEF DocumentIsSound, WindowDocument, Slots
<1>2. Cardinality(Slots(w)) \in Nat  BY <1>1, SlotsAreFinite
<1> QED  BY <1>1, <1>2 DEF DocumentIsSound, SlotsAreRight

\* What a step of a store does to the documents.
StoreMoves(s) ==
    /\ strays' \in Nat /\ strays <= strays'
    /\ \A x \in Store : x # s => window'[x] = window[x] /\ commit'[x] = commit[x] /\ loading'[x] = loading[x]
    /\ window'[s] = window[s] \/ DocumentIsSound(window'[s], strays')
    /\ commit'[s].document \in {commit[s].document, EmptyWindow, window[s]}
    /\ loading'[s] = "yes" \/ window'[s] = EmptyWindow
    /\ windowFile' \in {windowFile, {commit[s].document}}

LEMMA StoresMove ==
    ASSUME WindowTypeOK, DocumentsAreWhole, NEW s \in Store, StoreMoves(s)
    PROVE  DocumentsAreWhole'
<1>n. strays \in Nat /\ strays' \in Nat /\ strays <= strays'  BY DEF WindowTypeOK, StoreMoves
<1>m. \A w : DocumentIsSound(w, strays) => DocumentIsSound(w, strays')  BY <1>n, SoundStaysSound
<1>1. \A x \in Store : DocumentIsSound(window[x], strays') /\ DocumentIsSound(commit[x].document, strays')
  BY <1>m DEF DocumentsAreWhole
<1>2. ASSUME NEW x \in Store
      PROVE  DocumentIsSound(window'[x], strays') /\ DocumentIsSound(commit'[x].document, strays')
             /\ (loading'[x] # "yes" => window'[x] = EmptyWindow)
  <2>1. DocumentIsSound(EmptyWindow, strays')  BY <1>n, EmptyIsSound
  <2> QED  BY <1>1, <2>1 DEF StoreMoves, DocumentsAreWhole
<1>3. \A d \in windowFile' : DocumentIsSound(d, strays')  BY <1>m, <1>1 DEF StoreMoves, DocumentsAreWhole
<1> QED  BY <1>2, <1>3 DEF DocumentsAreWhole

LEMMA NoCommitIsIdle ==
    NoCommit \in CommitRecord /\ NoCommit.document = EmptyWindow /\ NoCommit.at = "idle" /\ EmptyWindow \in WindowDocument
<1>1. EmptyWindow \in WindowDocument  BY EmptyIsSound DEF DocumentIsSound
<1> QED  BY <1>1 DEF NoCommit, CommitRecord

\* Every copy of the document stays sound, for any number of stores.
LEMMA DocumentsStayWhole ==
    ASSUME ~Overlapping, WindowTypeOK, DocumentsAreWhole, [WindowNext]_windowVars
    PROVE  WindowTypeOK' /\ DocumentsAreWhole'
<1> DEFINE Goal == WindowTypeOK' /\ DocumentsAreWhole'
<1>a. /\ window \in [Store -> WindowDocument] /\ loading \in [Store -> {"no", "reading", "yes"}]
      /\ waiting \in [Store -> Seq(SUBSET Request)] /\ windowFile \subseteq WindowDocument
      /\ commit \in [Store -> CommitRecord] /\ strays \in Nat
  BY DEF WindowTypeOK
<1>b. \A s \in Store : DocumentIsSound(window[s], strays) /\ (loading[s] # "yes" => window[s] = EmptyWindow)
  BY DEF DocumentsAreWhole
<1>c. \A s \in Store : Ready(s) => loading[s] = "yes"  BY DEF Ready
<1>d. strays <= strays  BY <1>a
<1>g. ASSUME NEW s \in Store, WindowTypeOK', StoreMoves(s) PROVE Goal  BY <1>g, StoresMove
<1> HIDE DEF Goal
<1>w. ASSUME NEW s \in Store, NEW w, NEW told \in SUBSET Request, Ready(s), WindowBecomes(s, w, told),
             strays' \in Nat, strays <= strays', DocumentIsSound(w, strays')
      PROVE  Goal
  <2>1. w \in WindowDocument  BY <1>w DEF DocumentIsSound
  <2>2. Append(waiting[s], told) \in Seq(SUBSET Request)  BY <1>a, <1>w, AppendProperties
  <2>3. /\ window' = [window EXCEPT ![s] = w] /\ waiting' = [waiting EXCEPT ![s] = Append(waiting[s], told)]
        /\ UNCHANGED <<loading, commit, windowFile>>
    BY <1>w DEF WindowBecomes, guarding
  <2>4. WindowTypeOK'  BY <2>1, <2>2, <2>3, <1>a, <1>w DEF WindowTypeOK
  <2>5. StoreMoves(s)  BY <2>1, <2>3, <1>a, <1>c, <1>w DEF StoreMoves
  <2> QED  BY <2>4, <2>5, <1>g
<1>1. ASSUME NEW s \in Store, BeginLoading(s) PROVE Goal
  <2>1. loading' = [loading EXCEPT ![s] = "reading"] /\ UNCHANGED <<window, commit, waiting, windowFile, strays>>
        /\ loading[s] = "no"
    BY <1>1 DEF BeginLoading, guarding, calls
  <2>2. WindowTypeOK'  BY <2>1, <1>a DEF WindowTypeOK
  <2>3. StoreMoves(s)  BY <2>1, <1>a, <1>b, <1>d DEF StoreMoves
  <2> QED  BY <2>2, <2>3, <1>g
<1>2. ASSUME NEW s \in Store, EndLoading(s) PROVE Goal
  <2>1. loading' = [loading EXCEPT ![s] = "yes"] /\ UNCHANGED <<commit, waiting, windowFile, strays>>
        /\ loading[s] = "reading"
    BY <1>2 DEF EndLoading, calls
  <2>2. PICK w \in WindowDocument : window' = [window EXCEPT ![s] = w] /\ DocumentIsSound(w, strays)
    <3>1. CASE window' = window  BY <3>1, <1>a, <1>b
    <3>2. CASE \E d \in windowFile : window' = [window EXCEPT ![s] = MergedWindow(window[s], d)]
      <4>1. PICK d \in windowFile : window' = [window EXCEPT ![s] = MergedWindow(window[s], d)]  BY <3>2
      <4>2. DocumentIsSound(d, strays)  BY DEF DocumentsAreWhole
      <4>3. window[s] = EmptyWindow  BY <2>1, <1>b
      <4>4. MergedWindow(window[s], d) = d  BY <1>a, <4>2, <4>3, MergedIsTheFile
      <4> QED  BY <4>1, <4>2, <4>4, <1>a
    <3> QED  BY <1>2, <3>1, <3>2 DEF EndLoading
  <2>3. WindowTypeOK'  BY <2>1, <2>2, <1>a DEF WindowTypeOK
  <2>4. StoreMoves(s)  BY <2>1, <2>2, <1>a, <1>d DEF StoreMoves
  <2> QED  BY <2>3, <2>4, <1>g
<1>3. ASSUME NEW s \in Store, Persist(s) PROVE Goal
  <2>1. waiting[s] \in Seq(SUBSET Request) /\ waiting[s] # <<>>  BY <1>3, <1>a DEF Persist
  <2>2. Head(waiting[s]) \in SUBSET Request /\ Tail(waiting[s]) \in Seq(SUBSET Request)  BY <2>1, HeadTailProperties
  <2> DEFINE c == [at |-> "written", document |-> window[s], caller |-> Head(waiting[s])]
  <2>3. c \in CommitRecord /\ c.document = window[s]  BY <2>2, <1>a DEF CommitRecord
  <2>4. /\ commit' = [commit EXCEPT ![s] = c] /\ waiting' = [waiting EXCEPT ![s] = Tail(waiting[s])]
        /\ UNCHANGED <<window, loading, windowFile, strays>>
    BY <1>3 DEF Persist, calls
  <2> HIDE DEF c
  <2>5. WindowTypeOK'  BY <2>2, <2>3, <2>4, <1>a DEF WindowTypeOK
  <2>6. StoreMoves(s)  BY <2>3, <2>4, <1>a, <1>b, <1>d DEF StoreMoves
  <2> QED  BY <2>5, <2>6, <1>g
<1>4. ASSUME NEW s \in Store, NEW c \in CommitRecord, commit' = [commit EXCEPT ![s] = c],
             c.document \in {commit[s].document, EmptyWindow},
             UNCHANGED <<window, loading, waiting, strays>>, windowFile' \in {windowFile, {commit[s].document}}
      PROVE  Goal
  <2>1. commit[s].document \in WindowDocument  BY <1>a DEF CommitRecord
  <2>2. WindowTypeOK'  BY <2>1, <1>4, <1>a DEF WindowTypeOK
  <2>3. StoreMoves(s)  BY <1>4, <1>a, <1>b, <1>d DEF StoreMoves
  <2> QED  BY <2>2, <2>3, <1>g
<1>5. ASSUME NEW s \in Store, Guard(s) \/ RenameWindow(s) \/ Recheck(s) \/ WriteFails(s) PROVE Goal
  <2>1. UNCHANGED <<window, loading, waiting, strays>> /\ windowFile' \in {windowFile, {commit[s].document}}
    BY <1>5 DEF Guard, RenameWindow, Recheck, WriteFails, copies, calls
  <2>2. ASSUME Commits(s) PROVE Goal  BY <2>1, <2>2, <1>4, NoCommitIsIdle DEF Commits
  <2>3. ASSUME NEW place \in {"guarded", "renamed"}, CommitGoes(s, place) PROVE Goal
    <3> DEFINE c == [commit[s] EXCEPT !.at = place]
    <3>1. c \in CommitRecord /\ c.document = commit[s].document  BY <1>a DEF CommitRecord
    <3>2. commit' = [commit EXCEPT ![s] = c]  BY <2>3 DEF CommitGoes
    <3> HIDE DEF c
    <3> QED  BY <2>1, <3>1, <3>2, <1>4
  <2> QED  BY <1>5, <2>2, <2>3 DEF Guard, RenameWindow, Recheck, WriteFails
<1>6. ASSUME NEW s \in Store, StoreEnds(s) PROVE Goal
  <2>1. /\ window' = [window EXCEPT ![s] = EmptyWindow] /\ loading' = [loading EXCEPT ![s] = "no"]
        /\ waiting' = [waiting EXCEPT ![s] = <<>>] /\ commit' = [commit EXCEPT ![s] = NoCommit]
        /\ UNCHANGED <<windowFile, strays>>
    BY <1>6 DEF StoreEnds, Commits, calls
  <2>2. <<>> \in Seq(SUBSET Request) /\ DocumentIsSound(EmptyWindow, strays)  BY <1>a, EmptySeq, EmptyIsSound
  <2>3. WindowTypeOK'  BY <2>1, <2>2, <1>a, NoCommitIsIdle DEF WindowTypeOK
  <2>4. StoreMoves(s)  BY <2>1, <2>2, <1>a, <1>d, NoCommitIsIdle DEF StoreMoves
  <2> QED  BY <2>3, <2>4, <1>g
<1>7. ASSUME NEW s \in Store, Admit(s) PROVE Goal
  <2>1. PICK r \in Request : /\ Ready(s) /\ IsNew(window[s], r)
                              /\ WindowBecomes(s, Admitted(window[s], r), {r}) /\ strays' = strays
    BY <1>7 DEF Admit
  <2>2. DocumentIsSound(Admitted(window[s], r), strays)  BY <2>1, <1>a, <1>b, AdmittedIsSound
  <2> QED  BY <2>1, <2>2, <1>a, <1>d, <1>w
<1>8. ASSUME NEW s \in Store, NEW r \in Request, NEW o \in Outcome, Receive(s, r, o) PROVE Goal
  <2>1. /\ Ready(s) /\ r \in Records(window[s]) /\ <<r, o>> \notin window[s].receipts
        /\ WindowBecomes(s, Received(window[s], r, o), {})
        /\ strays' = IF window[s].state[r] \in Occupying THEN strays ELSE strays + 1
    BY <1>8 DEF Receive, IsNewReceipt
  <2>2. strays' \in Nat /\ strays <= strays'  BY <2>1, <1>a
  <2>3. DocumentIsSound(window[s], strays)  BY <1>b
  <2>4. DocumentIsSound(Received(window[s], r, o), strays')  BY <2>1, <2>2, <2>3, <1>a, ReceivedIsSound
  <2> QED  BY <2>1, <2>2, <2>4, <1>w
<1>9. ASSUME NEW s \in Store, NEW n \in 1..MaxCapacity, SetWindowCapacity(s, n) PROVE Goal
  <2>1. Ready(s) /\ WindowBecomes(s, Resized(window[s], n), {}) /\ strays' = strays  BY <1>9 DEF SetWindowCapacity
  <2>2. DocumentIsSound(Resized(window[s], n), strays)  BY <1>a, <1>b, ResizedIsSound
  <2> QED  BY <2>1, <2>2, <1>a, <1>d, <1>w
<1>10. CASE UNCHANGED windowVars \/ \E s \in Store : AdmitAgain(s)
  <2>1. UNCHANGED <<window, loading, waiting, commit, windowFile, strays>>
    BY <1>10 DEF windowVars, copies, guarding, calls, AdmitAgain
  <2> QED  BY <2>1 DEF WindowTypeOK, DocumentsAreWhole, Goal
<1> QED
  BY <1>1, <1>2, <1>3, <1>5, <1>6, <1>7, <1>8, <1>9, <1>10 DEF WindowNext, Goal

-----------------------------------------------------------------------------
\* What a told waits for is in memory, in the document that is written and,
\* when it is told, in the file: with one store, memory has all of the document
\* that is written, and that has all of the file.
HasAll(w, requests) == requests \subseteq Records(w)

FileIsHeld ==
    /\ \A d, e \in windowFile : d = e
    /\ \A s \in Store : loading[s] = "yes" => \A d \in windowFile : HasAll(window[s], Records(d))
    /\ \A r \in answered : \E d \in windowFile : r \in Records(d)

CommitIsHeld ==
    \A s \in Store :
        commit[s].at # "idle" =>
            /\ loading[s] = "yes" /\ HasAll(commit[s].document, commit[s].caller)
            /\ HasAll(window[s], Records(commit[s].document))
            /\ \A d \in windowFile : HasAll(commit[s].document, Records(d))
            /\ commit[s].at = "renamed" => windowFile = {commit[s].document}

CallersAreHeld ==
    \A s \in Store :
        /\ loading[s] # "yes" => waiting[s] = <<>>
        /\ \A i \in DOMAIN waiting[s] : HasAll(window[s], waiting[s][i])

AnswersAreHeld == FileIsHeld /\ CommitIsHeld /\ CallersAreHeld

LEMMA AnswersStayHeld ==
    ASSUME ~Overlapping, \A s, t \in Store : s = t, WindowTypeOK, DocumentsAreWhole, AnswersAreHeld,
           [WindowNext]_windowVars
    PROVE  AnswersAreHeld'
<1>a. /\ window \in [Store -> WindowDocument] /\ loading \in [Store -> {"no", "reading", "yes"}]
      /\ waiting \in [Store -> Seq(SUBSET Request)] /\ windowFile \subseteq WindowDocument
      /\ commit \in [Store -> CommitRecord] /\ strays \in Nat
  BY DEF WindowTypeOK
<1>b. \A s \in Store : DocumentIsSound(window[s], strays) /\ (loading[s] # "yes" => window[s] = EmptyWindow)
  BY DEF DocumentsAreWhole
<1>h. FileIsHeld /\ CommitIsHeld /\ CallersAreHeld  BY DEF AnswersAreHeld
<1>w. ASSUME NEW s \in Store, NEW w, NEW told \in SUBSET Request, Ready(s), WindowBecomes(s, w, told),
             Records(window[s]) \subseteq Records(w), told \subseteq Records(w)
      PROVE  AnswersAreHeld'
  <2>1. /\ window'[s] = w /\ waiting'[s] = Append(waiting[s], told) /\ loading[s] = "yes"
        /\ UNCHANGED <<loading, commit, windowFile, answered>>
    BY <1>a, <1>w DEF WindowBecomes, guarding, Ready
  <2>2. \A t \in Store : t = s  BY <1>w
  <2>3. FileIsHeld'  BY <2>1, <2>2, <1>h, <1>w DEF FileIsHeld, HasAll
  <2>4. CommitIsHeld'  BY <2>1, <2>2, <1>h, <1>w DEF CommitIsHeld, HasAll
  <2>5. \A i \in DOMAIN waiting'[s] : waiting'[s][i] \subseteq Records(w)
    <3>1. waiting[s] \in Seq(SUBSET Request) /\ Len(waiting[s]) \in Nat /\ DOMAIN waiting[s] = 1..Len(waiting[s])
      BY <1>a, LenProperties
    <3>2. /\ DOMAIN waiting'[s] = 1..Len(waiting[s]) + 1 /\ waiting'[s][Len(waiting[s]) + 1] = told
          /\ \A i \in 1..Len(waiting[s]) : waiting'[s][i] = waiting[s][i]
      BY <2>1, <3>1, <1>w, AppendProperties
    <3>3. \A i \in 1..Len(waiting[s]) : waiting[s][i] \subseteq Records(w)
      BY <3>1, <1>h, <1>w DEF CallersAreHeld, HasAll
    <3>4. \A k \in Nat : \A i \in 1..k + 1 : i = k + 1 \/ i \in 1..k  OBVIOUS
    <3> QED  BY <3>1, <3>2, <3>3, <3>4, <1>w
  <2>6. CallersAreHeld'  BY <2>1, <2>2, <2>5 DEF CallersAreHeld, HasAll
  <2> QED  BY <2>3, <2>4, <2>6 DEF AnswersAreHeld
<1>1. ASSUME NEW s \in Store, BeginLoading(s) PROVE AnswersAreHeld'
  <2>1. /\ loading' = [loading EXCEPT ![s] = "reading"] /\ UNCHANGED <<window, commit, waiting, windowFile, answered>>
        /\ loading[s] = "no"
    BY <1>1 DEF BeginLoading, guarding
  <2>2. loading'[s] = "reading" /\ \A t \in Store : t = s  BY <2>1, <1>a
  <2> QED  BY <2>1, <2>2, <1>h DEF AnswersAreHeld, FileIsHeld, CommitIsHeld, CallersAreHeld, HasAll
<1>2. ASSUME NEW s \in Store, EndLoading(s) PROVE AnswersAreHeld'
  <2>1. /\ loading'[s] = "yes" /\ UNCHANGED <<commit, waiting, windowFile, answered>>
        /\ loading[s] = "reading" /\ commit[s].at = "idle" /\ waiting[s] = <<>>
    BY <1>2, <1>a, <1>h DEF EndLoading, CommitIsHeld, CallersAreHeld
  <2>2. \A d \in windowFile : window'[s] = d
    <3>1. ASSUME NEW d \in windowFile, window' = [window EXCEPT ![s] = MergedWindow(window[s], d)] PROVE window'[s] = d
      <4>1. DocumentIsSound(d, strays)  BY DEF DocumentsAreWhole
      <4>2. window[s] = EmptyWindow  BY <2>1, <1>b
      <4>3. MergedWindow(window[s], d) = d  BY <1>a, <4>1, <4>2, MergedIsTheFile
      <4> QED  BY <3>1, <4>3, <1>a
    <3> QED  BY <1>2, <3>1, <1>h DEF EndLoading, FileIsHeld
  <2>3. \A t \in Store : t = s  OBVIOUS
  <2>4. FileIsHeld'  BY <2>1, <2>2, <2>3, <1>h DEF FileIsHeld, HasAll
  <2>5. CommitIsHeld'  BY <2>1, <2>3 DEF CommitIsHeld
  <2>6. CallersAreHeld'
    <3>1. DOMAIN waiting'[s] = {}  BY <2>1
    <3> QED  BY <2>1, <2>3, <3>1 DEF CallersAreHeld
  <2> QED  BY <2>4, <2>5, <2>6 DEF AnswersAreHeld
<1>3. ASSUME NEW s \in Store, Persist(s) PROVE AnswersAreHeld'
  <2>1. waiting[s] \in Seq(SUBSET Request) /\ waiting[s] # <<>>  BY <1>3, <1>a DEF Persist
  <2>2. /\ Len(waiting[s]) \in Nat \ {0} /\ DOMAIN waiting[s] = 1..Len(waiting[s]) /\ Head(waiting[s]) = waiting[s][1]
        /\ Tail(waiting[s]) \in Seq(SUBSET Request) /\ DOMAIN Tail(waiting[s]) = 1..Len(waiting[s]) - 1
        /\ \A i \in 1..Len(Tail(waiting[s])) : Tail(waiting[s])[i] = waiting[s][i + 1]
        /\ Len(Tail(waiting[s])) = Len(waiting[s]) - 1
    BY <2>1, HeadTailProperties, LenProperties, EmptySeq
  <2>3. \A i \in DOMAIN Tail(waiting[s]) : \E j \in DOMAIN waiting[s] : Tail(waiting[s])[i] = waiting[s][j]
    <3>1. \A k \in Nat \ {0} : \A i \in 1..k - 1 : i + 1 \in 1..k  OBVIOUS
    <3> QED  BY <2>2, <3>1
  <2>4. Head(waiting[s]) \subseteq Records(window[s]) /\ loading[s] = "yes"
    <3>1. 1 \in DOMAIN waiting[s]  BY <2>2
    <3> QED  BY <2>1, <2>2, <3>1, <1>a, <1>h DEF CallersAreHeld, HasAll
  <2>5. /\ commit'[s] = [at |-> "written", document |-> window[s], caller |-> Head(waiting[s])]
        /\ waiting'[s] = Tail(waiting[s]) /\ UNCHANGED <<window, loading, windowFile, answered>>
    BY <1>3, <1>a DEF Persist
  <2>6. \A t \in Store : t = s  OBVIOUS
  <2>7. FileIsHeld'  BY <2>5, <1>h DEF FileIsHeld, HasAll
  <2>8. CommitIsHeld'  BY <2>4, <2>5, <2>6, <1>h DEF CommitIsHeld, FileIsHeld, HasAll
  <2>9. CallersAreHeld'
    <3>1. \A i \in DOMAIN waiting[s] : waiting[s][i] \subseteq Records(window[s])  BY <1>h DEF CallersAreHeld, HasAll
    <3>2. \A i \in DOMAIN waiting'[s] : waiting'[s][i] \subseteq Records(window'[s])  BY <2>3, <2>5, <3>1
    <3>3. loading'[s] = "yes"  BY <2>4, <2>5
    <3> QED  BY <2>6, <3>2, <3>3 DEF CallersAreHeld, HasAll
  <2> QED  BY <2>7, <2>8, <2>9 DEF AnswersAreHeld
<1>4. ASSUME NEW s \in Store, Guard(s) \/ WriteFails(s) \/ Recheck(s) \/ RenameWindow(s) PROVE AnswersAreHeld'
  <2>1. UNCHANGED <<window, loading, waiting>> /\ \A t \in Store : t = s
    BY <1>4 DEF Guard, RenameWindow, Recheck, WriteFails, copies
  <2>2. CallersAreHeld'  BY <2>1, <1>h DEF CallersAreHeld, HasAll
  <2>3. CASE commit'[s] = NoCommit /\ windowFile' = windowFile /\ (answered' = answered \/ Recheck(s))
    <3>1. CommitIsHeld'  BY <2>1, <2>3, NoCommitIsIdle DEF CommitIsHeld
    <3>2. \A r \in answered' : \E d \in windowFile : r \in Records(d)
      <4>1. CASE answered' = answered  BY <4>1, <1>h DEF FileIsHeld
      <4>2. CASE Recheck(s)
        <5>1. commit[s].at = "renamed" /\ answered' = answered \cup commit[s].caller  BY <4>2 DEF Recheck
        <5>2. windowFile = {commit[s].document} /\ commit[s].caller \subseteq Records(commit[s].document)
          BY <5>1, <1>h DEF CommitIsHeld, HasAll
        <5> QED  BY <5>1, <5>2, <1>h DEF FileIsHeld
      <4> QED  BY <2>3, <4>1, <4>2
    <3>3. FileIsHeld'  BY <2>1, <2>3, <3>2, <1>h DEF FileIsHeld, HasAll
    <3> QED  BY <2>2, <3>1, <3>3 DEF AnswersAreHeld
  <2>4. CASE commit'[s] = [commit[s] EXCEPT !.at = "guarded"] /\ UNCHANGED <<windowFile, answered>> /\ commit[s].at = "written"
    <3>1. /\ commit'[s].at = "guarded" /\ commit'[s].document = commit[s].document /\ commit'[s].caller = commit[s].caller
      BY <2>4, <1>a DEF CommitRecord
    <3>2. CommitIsHeld'  BY <2>1, <2>4, <3>1, <1>h DEF CommitIsHeld, HasAll
    <3>3. FileIsHeld'  BY <2>1, <2>4, <1>h DEF FileIsHeld, HasAll
    <3> QED  BY <2>2, <3>2, <3>3 DEF AnswersAreHeld
  <2>5. CASE RenameWindow(s)
    <3>1. /\ commit'[s].at = "renamed" /\ commit'[s].document = commit[s].document /\ commit'[s].caller = commit[s].caller
          /\ commit[s].at = "guarded" /\ windowFile' = {commit[s].document} /\ answered' = answered
      BY <2>5, <1>a DEF RenameWindow, CommitGoes, CommitRecord
    <3>2. /\ loading[s] = "yes" /\ HasAll(commit[s].document, commit[s].caller)
          /\ HasAll(window[s], Records(commit[s].document))
          /\ \A d \in windowFile : HasAll(commit[s].document, Records(d))
      BY <3>1, <1>h DEF CommitIsHeld
    <3>3. CommitIsHeld'  BY <2>1, <3>1, <3>2 DEF CommitIsHeld, HasAll
    <3>4. FileIsHeld'  BY <2>1, <3>1, <3>2, <1>h DEF FileIsHeld, HasAll
    <3> QED  BY <2>2, <3>3, <3>4 DEF AnswersAreHeld
  <2>6. \/ commit'[s] = NoCommit /\ windowFile' = windowFile /\ (answered' = answered \/ Recheck(s))
        \/ commit'[s] = [commit[s] EXCEPT !.at = "guarded"] /\ UNCHANGED <<windowFile, answered>> /\ commit[s].at = "written"
        \/ RenameWindow(s)
    BY <1>4, <1>a DEF Guard, WriteFails, Recheck, Commits, CommitGoes
  <2> QED  BY <2>3, <2>4, <2>5, <2>6
<1>6. ASSUME NEW s \in Store, StoreEnds(s) PROVE AnswersAreHeld'
  <2>1. /\ loading'[s] = "no" /\ waiting'[s] = <<>> /\ commit'[s] = NoCommit /\ UNCHANGED <<windowFile, answered>>
    BY <1>6, <1>a DEF StoreEnds, Commits
  <2>2. \A t \in Store : t = s  OBVIOUS
  <2>3. FileIsHeld'  BY <2>1, <2>2, <1>h DEF FileIsHeld
  <2>4. CommitIsHeld'  BY <2>1, <2>2, NoCommitIsIdle DEF CommitIsHeld
  <2>5. CallersAreHeld'
    <3>1. DOMAIN waiting'[s] = {}  BY <2>1
    <3> QED  BY <2>1, <2>2, <3>1 DEF CallersAreHeld
  <2> QED  BY <2>3, <2>4, <2>5 DEF AnswersAreHeld
<1>7. ASSUME NEW s \in Store, Admit(s) PROVE AnswersAreHeld'
  <2>1. PICK r \in Request : Ready(s) /\ IsNew(window[s], r) /\ WindowBecomes(s, Admitted(window[s], r), {r})
    BY <1>7 DEF Admit
  <2>2. Records(Admitted(window[s], r)) = Records(window[s]) \cup {r}  BY <2>1, <1>a, <1>b, AdmittedIsSound
  <2> QED  BY <2>1, <2>2, <1>w
<1>8. ASSUME NEW s \in Store, NEW r \in Request, NEW o \in Outcome, Receive(s, r, o) PROVE AnswersAreHeld'
  <2>1. Ready(s) /\ r \in Records(window[s]) /\ WindowBecomes(s, Received(window[s], r, o), {})
    BY <1>8 DEF Receive, IsNewReceipt
  <2>2. PICK m \in Nat : m = IF window[s].state[r] \in Occupying THEN strays ELSE strays + 1  BY <1>a
  <2>3. Records(Received(window[s], r, o)) = Records(window[s])  BY <2>1, <2>2, <1>a, <1>b, ReceivedIsSound
  <2> QED  BY <2>1, <2>3, <1>w
<1>9. ASSUME NEW s \in Store, NEW n \in 1..MaxCapacity, SetWindowCapacity(s, n) PROVE AnswersAreHeld'
  <2>1. Ready(s) /\ WindowBecomes(s, Resized(window[s], n), {})  BY <1>9 DEF SetWindowCapacity
  <2>2. Records(Resized(window[s], n)) = Records(window[s])  BY <1>a, <1>b, ResizedIsSound
  <2> QED  BY <2>1, <2>2, <1>w
<1>10. CASE UNCHANGED windowVars \/ \E s \in Store : AdmitAgain(s)
  <2>1. UNCHANGED <<window, loading, waiting, commit, windowFile, answered>>
    BY <1>10 DEF windowVars, copies, guarding, AdmitAgain
  <2> QED  BY <2>1, <1>h DEF AnswersAreHeld, FileIsHeld, CommitIsHeld, CallersAreHeld, HasAll
<1> QED
  BY <1>1, <1>2, <1>3, <1>4, <1>6, <1>7, <1>8, <1>9, <1>10 DEF WindowNext

LEMMA WindowStarts ==
    ASSUME WindowInit
    PROVE  WindowTypeOK /\ DocumentsAreWhole /\ AnswersAreHeld
<1>1. <<>> \in Seq(SUBSET Request) /\ DocumentIsSound(EmptyWindow, 0)  BY EmptySeq, EmptyIsSound
<1>2. WindowTypeOK  BY <1>1, NoCommitIsIdle DEF WindowInit, WindowTypeOK
<1>3. DocumentsAreWhole  BY <1>1, NoCommitIsIdle DEF WindowInit, DocumentsAreWhole
<1>4. \A s \in Store : commit[s].at = "idle" /\ waiting[s] = <<>> /\ DOMAIN waiting[s] = {}
  BY NoCommitIsIdle DEF WindowInit
<1>5. windowFile = {} /\ answered = {}  BY DEF WindowInit
<1> QED  BY <1>2, <1>3, <1>4, <1>5 DEF AnswersAreHeld, FileIsHeld, CommitIsHeld, CallersAreHeld

\* What sound documents say of the queue and of the slots.
LEMMA SoundDocumentsServe ==
    ASSUME WindowTypeOK, DocumentsAreWhole
    PROVE  AcceptedIsQueued /\ SlotsAreBounded /\ QueueIsServed /\ OneInstructionPerKey
<1>1. \A w \in Windows : DocumentIsSound(w, strays)  BY DEF DocumentsAreWhole, Windows
<1>2. ASSUME NEW w \in Windows
      PROVE  /\ \A r \in Request : w.state[r] = "accepted" => r \in Queued(w)
             /\ Len(w.queue) = Cardinality(Queued(w))
             /\ strays = 0 => \A r \in Queued(w) : w.state[r] = "accepted"
  <2>1. w \in WindowDocument /\ QueueIsRight(w) /\ SlotsAreRight(w, strays)  BY <1>1 DEF DocumentIsSound
  <2>2. Len(w.queue) = Cardinality(Queued(w))  BY <2>1, NoRepetition DEF QueueIsRight
  <2> QED  BY <2>1, <2>2 DEF QueueIsRight, SlotsAreRight
<1> QED
  BY <1>1, <1>2 DEF AcceptedIsQueued, SlotsAreBounded, QueueIsServed, OneInstructionPerKey, DocumentIsSound, SlotsAreRight, KeysAreOwn

\* For any number of stores that share the file, when calls come after the
\* first load: in memory and on disk, an instruction that waits is in the queue
\* once, the slots are those of the window, while instructions wait one has a
\* slot, and a key has one instruction.
THEOREM DocumentsAreServed ==
    ASSUME ~Overlapping
    PROVE  WindowSpec => [](AcceptedIsQueued /\ SlotsAreBounded /\ QueueIsServed /\ OneInstructionPerKey)
<1>1. WindowInit => WindowTypeOK /\ DocumentsAreWhole  BY WindowStarts
<1>2. WindowTypeOK /\ DocumentsAreWhole /\ [WindowNext]_windowVars => WindowTypeOK' /\ DocumentsAreWhole'
  BY DocumentsStayWhole
<1>3. WindowTypeOK /\ DocumentsAreWhole => AcceptedIsQueued /\ SlotsAreBounded /\ QueueIsServed /\ OneInstructionPerKey
  BY SoundDocumentsServe
<1> QED  BY <1>1, <1>2, <1>3, PTL DEF WindowSpec

\* And with one store, the public application's, what a told was told is in
\* the window is in the file, whatever fails or ends.
THEOREM InstructionsAreKept ==
    ASSUME ~Overlapping, \A s, t \in Store : s = t
    PROVE  WindowSpec => []WindowInv
<1> DEFINE IInv == WindowTypeOK /\ DocumentsAreWhole /\ AnswersAreHeld
<1>1. WindowInit => IInv  BY WindowStarts
<1>2. IInv /\ [WindowNext]_windowVars => IInv'  BY DocumentsStayWhole, AnswersStayHeld
<1>3. IInv => WindowInv
  BY SoundDocumentsServe DEF WindowInv, AnswersAreHeld, FileIsHeld, AnsweredIsKept
<1> QED  BY <1>1, <1>2, <1>3, PTL DEF WindowSpec
=============================================================================
