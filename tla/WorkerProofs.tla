------------------------------ MODULE WorkerProofs ------------------------------
(***************************************************************************)
(* What holds of a worker's tool loop, of the questions it asks, of the    *)
(* directions it gets and of the summary of what the agents have recorded, *)
(* for every set of tools, every budget and limit, any number of workers   *)
(* that run a task, any number of people who answer, direct and cancel,    *)
(* and any number of calls that summarise.                                 *)
(***************************************************************************)
EXTENDS ToolLoop, PermissionAsk, RuntimeGuidance, SummaryIndex, FiniteSetTheorems, WellFoundedInduction, TLAPS

-----------------------------------------------------------------------------
(* The tool loop.                                                           *)

Signature == {"none", "gated"} \cup ToolResult
Finish == {"none", "gated", "refused"} \cup ToolResult

WorkerRecord ==
    [last : Call \cup {NoCall}, attempted : SUBSET Tool, unresolved : SUBSET Tool,
     succeeded : SUBSET Tool, ask : [tool : Tool \cup {"none"}, args : Argument \cup {"none"}],
     counts : [Tool -> Nat], hit : SUBSET Tool]

LoopRecord ==
    [phase : {"model", "tools", "executing", "ended"}, iteration : Nat, calls : Seq(Call), next : Nat \ {0}]

LoopTypeOK ==
    /\ loop \in LoopRecord
    /\ loop.phase \in {"tools", "executing"} => loop.next \in DOMAIN loop.calls /\ worker.last \in Call
    /\ worker \in WorkerRecord
    /\ lastSignature \in [Call -> Signature] /\ noProgress \in [Call -> Nat]
    /\ ledger \in Nat /\ workers \in Nat \ {0}
    /\ executions \in [all : Nat, stuck : [Call -> Nat]]
    /\ finishes \in [Tool -> Finish]

\* What a writing tool left undone is remembered by the worker, whatever the events that
\* told it, and a success is declared only at the end.
UndoneIsRemembered ==
    /\ \A t \in MutatingTool : finishes[t] \notin {"none", "ok"} =>
          t \in worker.unresolved \/ worker.ask # NoCall
    /\ outcome = "success" => loop.phase = "ended"

\* A call that is executed was counted, and stays within the guard's graph.
ExecutionsAreCounted ==
    /\ loop.phase = "executing" =>
          /\ ThisCall \in graphNodes /\ ThisCall \in successors
          /\ Cardinality(graphNodes) <= MaxGraphNodes /\ Cardinality(successors) <= MaxFanout
          /\ ledger <= TaskTotalCallBudget
          /\ 2 * executions.all + 1 <= ledger + (workers - 1)
    /\ loop.phase \in {"model", "tools"} => 2 * executions.all <= ledger + (workers - 1)
    /\ loop.phase = "ended" => 2 * executions.all <= ledger + workers

\* A path that keeps giving one result is counted by the guard as well.
StallsAreCounted ==
    loop.phase # "ended" =>
        \A c \in Call : /\ noProgress[c] < NoProgressLimit
                        /\ lastSignature[c] # "gated" => executions.stuck[c] <= noProgress[c]

LoopIInv ==
    /\ LoopTypeOK /\ UndoneIsRemembered /\ LoopInv
    /\ isGuarded => ExecutionsAreCounted /\ StallsAreCounted

\* The worker's readings of an event keep its record well formed.
LEMMA ReadingsAreTyped ==
    ASSUME NEW w \in WorkerRecord, NEW c \in Call, w.last \in Call
    PROVE  /\ Failed(w, c.tool) \in WorkerRecord /\ Failed(w, c.tool).last \in Call
           /\ \A result \in ToolResult :
                 Finished(w, c, result) \in WorkerRecord /\ Finished(w, c, result).last \in Call
<1>0. c.tool \in Tool /\ w.counts[c.tool] + 1 \in Nat
  BY DEF Call, WorkerRecord
<1>1. Failed(w, c.tool) \in WorkerRecord /\ Failed(w, c.tool).last \in Call
  BY <1>0 DEF Failed, WorkerRecord
<1>2. Succeeded(w, c.tool) \in WorkerRecord /\ Succeeded(w, c.tool).last \in Call
  BY <1>0 DEF Succeeded, WorkerRecord
<1>3. Asks(w, c) \in WorkerRecord /\ Asks(w, c).last \in Call
  BY <1>0 DEF Asks, WorkerRecord, Call
<1> QED
  BY <1>1, <1>2, <1>3 DEF Finished

\* The end of the loop: only a declared success is a success.
LEMMA EndsKind ==
    ASSUME LoopTypeOK, NEW w, NEW reason, NEW declares \in BOOLEAN, Ends(w, reason, declares)
    PROVE  /\ worker' = w /\ loop' \in LoopRecord /\ loop'.phase = "ended"
           /\ outcome' = "success" =>
                 /\ reason = "success" /\ w.ask = NoCall /\ w.unresolved = {}
                 /\ RequiredTool \subseteq w.succeeded
<1>1. loop' = [loop EXCEPT !.phase = "ended", !.calls = <<>>, !.next = 1] /\ worker' = w
      /\ outcome' = OutcomeOf(w, reason, declares)
  BY DEF Ends
<1>2. loop \in LoopRecord /\ <<>> \in Seq(Call)
  BY DEF LoopTypeOK
<1>3. loop' = [phase |-> "ended", iteration |-> loop.iteration, calls |-> <<>>, next |-> 1]
  BY <1>1, <1>2 DEF LoopRecord
<1>4. loop' \in LoopRecord /\ loop'.phase = "ended"
  BY <1>2, <1>3 DEF LoopRecord
<1> QED
  BY <1>1, <1>4 DEF OutcomeOf, GatePasses

\* The loop also ends because of the guard or of its last iteration, without success.
LEMMA EndsEarly ==
    ASSUME LoopTypeOK, NEW w, NEW reason \in {"error", "max-iterations"}, Ends(w, reason, FALSE)
    PROVE  worker' = w /\ loop' \in LoopRecord /\ loop'.phase = "ended" /\ outcome' # "success"
<1>1. \E declares \in BOOLEAN : Ends(w, reason, declares)
  BY Zenon
<1>2. reason # "success"
  OBVIOUS
<1> QED
  BY <1>1, <1>2, EndsKind

\* After a call the loop goes on with the worker it has, or ends.
LEMMA AdvanceKinds ==
    ASSUME LoopTypeOK, loop.phase \in {"tools", "executing"}, NEW w \in WorkerRecord, w.last \in Call,
           Advance(w)
    PROVE  /\ worker' = w /\ loop' \in LoopRecord
           /\ loop'.phase \in {"model", "tools", "ended"}
           /\ loop'.phase = "tools" => loop'.next \in DOMAIN loop'.calls
           /\ outcome' = outcome \/ (outcome' # "success" /\ loop'.phase = "ended")
<1>0. loop \in LoopRecord
  BY DEF LoopTypeOK
<1>1. CASE loop.next < Len(loop.calls)
  <2>1. loop' = [loop EXCEPT !.phase = "tools", !.next = @ + 1] /\ worker' = w /\ outcome' = outcome
    BY <1>1 DEF Advance
  <2>2. loop.next + 1 \in DOMAIN loop.calls /\ loop.next + 1 \in Nat \ {0}
    BY <1>0, <1>1 DEF LoopRecord
  <2> QED
    BY <1>0, <2>1, <2>2 DEF LoopRecord
<1>2. CASE ~(loop.next < Len(loop.calls)) /\ loop.iteration < MaxLoopIterations
  <2>1. <<>> \in Seq(Call) /\ loop.iteration + 1 \in Nat
    BY <1>0 DEF LoopRecord
  <2>2. /\ loop' = [phase |-> "model", iteration |-> loop.iteration + 1, calls |-> <<>>, next |-> 1]
        /\ worker' = w /\ outcome' = outcome
    BY <1>2 DEF Advance
  <2> QED
    BY <2>1, <2>2 DEF LoopRecord
<1>3. CASE Ends(w, "max-iterations", FALSE)
  BY <1>3, EndsEarly
<1> QED
  BY <1>1, <1>2, <1>3 DEF Advance

\* The call about to be executed is one of those requested.
LEMMA ThisCallType ==
    ASSUME LoopTypeOK, loop.phase \in {"tools", "executing"}
    PROVE  ThisCall \in Call /\ ThisCall.tool \in Tool
<1>1. loop.calls \in Seq(Call) /\ loop.next \in DOMAIN loop.calls
  BY DEF LoopTypeOK, LoopRecord
<1>2. loop.calls[loop.next] \in Call
  BY <1>1
<1> QED
  BY <1>2 DEF ThisCall, Call

\* The guard's records keep their types, and what it counts is one more or the same.
LEMMA GuardStep ==
    ASSUME LoopTypeOK, NEW c \in Call, NEW result
    PROVE  /\ CountBefore(c) \/ CountAfter(c, result) => ledger' \in Nat /\ ledger' >= ledger
           /\ NoteProgress(c, result) =>
                 /\ noProgress' \in [Call -> Nat]
                 /\ \A d \in Call \ {c} : noProgress'[d] = noProgress[d] /\ lastSignature'[d] = lastSignature[d]
                 /\ result \in Signature => lastSignature' \in [Call -> Signature]
                 /\ isGuarded => lastSignature'[c] = result
<1>1. ledger \in Nat /\ noProgress \in [Call -> Nat] /\ lastSignature \in [Call -> Signature]
  BY DEF LoopTypeOK
<1>2. ASSUME CountBefore(c) \/ CountAfter(c, result) PROVE ledger' \in Nat /\ ledger' >= ledger
  BY <1>1, <1>2 DEF CountBefore, CountAfter, Counted
<1>3. ASSUME NoteProgress(c, result)
      PROVE  /\ noProgress' \in [Call -> Nat]
             /\ \A d \in Call \ {c} : noProgress'[d] = noProgress[d] /\ lastSignature'[d] = lastSignature[d]
             /\ result \in Signature => lastSignature' \in [Call -> Signature]
             /\ isGuarded => lastSignature'[c] = result
  <2> DEFINE n == IF ~isGuarded \/ ~Structure(c) THEN noProgress[c]
                  ELSE IF Stalls(c, result) THEN noProgress[c] + 1 ELSE 0
  <2>1. n \in Nat /\ noProgress' = [noProgress EXCEPT ![c] = n]
    BY <1>1, <1>3 DEF NoteProgress
  <2>2. \E s : /\ lastSignature' = [lastSignature EXCEPT ![c] = s]
               /\ isGuarded => s = result
               /\ result \in Signature => s \in Signature
    <3>1. CASE isGuarded
      BY <1>3, <3>1 DEF NoteProgress
    <3>2. CASE ~isGuarded
      <4>1. lastSignature' = [lastSignature EXCEPT ![c] = lastSignature[c]]
        BY <1>3, <3>2 DEF NoteProgress
      <4> QED
        BY <1>1, <3>2, <4>1
    <3> QED
      BY <3>1, <3>2
  <2> HIDE DEF n
  <2> QED
    BY <1>1, <2>1, <2>2
<1> QED
  BY <1>2, <1>3

\* What becomes of the worker's memory when the tool of c has failed, or finished otherwise.
LEMMA FailedIsRemembered ==
    ASSUME LoopTypeOK, UndoneIsRemembered, NEW c \in Call, NEW f \in Finish,
           finishes' = [finishes EXCEPT ![c.tool] = f], worker' = Failed(worker, c.tool)
    PROVE  \A t \in MutatingTool : finishes'[t] \notin {"none", "ok"} =>
              t \in worker'.unresolved \/ worker'.ask # NoCall
BY DEF LoopTypeOK, WorkerRecord, UndoneIsRemembered, Failed

\* The same when the tool has given a result.
LEMMA FinishedIsRemembered ==
    ASSUME LoopTypeOK, UndoneIsRemembered, NEW c \in Call, NEW result \in ToolResult,
           finishes' = [finishes EXCEPT ![c.tool] = result], worker' = Finished(worker, c, result)
    PROVE  \A t \in MutatingTool : finishes'[t] \notin {"none", "ok"} =>
              t \in worker'.unresolved \/ worker'.ask # NoCall
<1>0. MutatingTool \subseteq Tool /\ c.tool \in Tool /\ c.tool # "none"
  BY ToolLoopAssumption DEF Call
<1>1. CASE result = "ask"
  <2>1. worker'.ask # NoCall
    BY <1>0, <1>1 DEF Finished, Asks, LoopTypeOK, WorkerRecord, NoCall
  <2> QED
    BY <2>1
<1>2. CASE result = "ok"
  <2>1. worker'.unresolved = worker.unresolved \ {c.tool} /\ worker'.ask = worker.ask
    BY <1>2 DEF Finished, Succeeded, LoopTypeOK, WorkerRecord
  <2>2. \A t \in Tool : t # c.tool => finishes'[t] = finishes[t]
    BY DEF LoopTypeOK
  <2>3. finishes'[c.tool] = "ok"
    BY <1>0, <1>2 DEF LoopTypeOK
  <2> QED
    BY <1>0, <2>1, <2>2, <2>3 DEF UndoneIsRemembered
<1>3. CASE result = "failed"
  BY <1>3, FailedIsRemembered DEF Finished, Finish
<1> QED
  BY <1>1, <1>2, <1>3 DEF ToolResult

\* What one call does to the loop: the guard refuses it and the loop ends, it is gated or it has run.
CallEnds(f, w) ==
    /\ finishes' = [finishes EXCEPT ![ThisCall.tool] = f]
    /\ Ends(w, "error", FALSE) /\ w = Failed(worker, ThisCall.tool)

CallPasses(f, w) ==
    /\ finishes' = [finishes EXCEPT ![ThisCall.tool] = f]
    /\ Advance(w)
    /\ \/ w = Failed(worker, ThisCall.tool)
       \/ f \in ToolResult /\ w = Finished(worker, ThisCall, f)

\* Both leave the worker and the loop well formed, and nothing undone is forgotten.
LEMMA CallStep ==
    ASSUME LoopTypeOK, UndoneIsRemembered, loop.phase \in {"tools", "executing"}, outcome # "success",
           NEW f \in Finish, NEW w, CallEnds(f, w) \/ CallPasses(f, w)
    PROVE  /\ loop' \in LoopRecord /\ loop'.phase \in {"model", "tools", "ended"}
           /\ loop'.phase = "tools" => loop'.next \in DOMAIN loop'.calls /\ worker'.last \in Call
           /\ worker' \in WorkerRecord /\ finishes' \in [Tool -> Finish]
           /\ outcome' # "success" /\ UndoneIsRemembered'
<1>1. ThisCall \in Call /\ ThisCall.tool \in Tool
  BY ThisCallType
<1>2. worker \in WorkerRecord /\ worker.last \in Call /\ finishes \in [Tool -> Finish]
  BY DEF LoopTypeOK
<1>3. finishes' = [finishes EXCEPT ![ThisCall.tool] = f]
  BY DEF CallEnds, CallPasses
<1>4. finishes' \in [Tool -> Finish]
  BY <1>1, <1>2, <1>3
<1>5. w \in WorkerRecord /\ w.last \in Call
  BY <1>1, <1>2, ReadingsAreTyped DEF CallEnds, CallPasses
<1>6. /\ worker' = w /\ loop' \in LoopRecord /\ loop'.phase \in {"model", "tools", "ended"}
      /\ loop'.phase = "tools" => loop'.next \in DOMAIN loop'.calls
      /\ outcome' # "success"
  <2>1. CASE CallEnds(f, w)
    BY <2>1, EndsEarly DEF CallEnds
  <2>2. CASE CallPasses(f, w)
    BY <1>5, <2>2, AdvanceKinds DEF CallPasses
  <2> QED
    BY <2>1, <2>2
<1>7. \A t \in MutatingTool : finishes'[t] \notin {"none", "ok"} =>
         t \in worker'.unresolved \/ worker'.ask # NoCall
  <2>1. CASE w = Failed(worker, ThisCall.tool)
    BY <1>1, <1>3, <1>6, <2>1, FailedIsRemembered
  <2>2. CASE f \in ToolResult /\ w = Finished(worker, ThisCall, f)
    BY <1>1, <1>3, <1>6, <2>2, FinishedIsRemembered
  <2> QED
    BY <2>1, <2>2 DEF CallEnds, CallPasses
<1> QED
  BY <1>4, <1>5, <1>6, <1>7 DEF UndoneIsRemembered

\* Gating, refusing and running a call, as one of the two above.
LEMMA CallKinds ==
    ASSUME LoopTypeOK, UndoneIsRemembered, GuidanceGates \/ BeforeTool \/ AfterTool
    PROVE  /\ loop.phase \in {"tools", "executing"} /\ outcome # "success"
           /\ \/ \E f \in Finish : \E w : CallEnds(f, w) \/ CallPasses(f, w)
              \/ BeforeTool /\ loop' = [loop EXCEPT !.phase = "executing"]
                            /\ UNCHANGED <<worker, outcome, finishes>>
<1>0. loop.phase \in {"tools", "executing"} /\ outcome # "success"
  BY DEF GuidanceGates, BeforeTool, AfterTool, UndoneIsRemembered
<1> DEFINE w == Failed(worker, ThisCall.tool)
<1>1. CASE GuidanceGates
  <2>1. "gated" \in Finish
    BY DEF Finish
  <2>2. CallEnds("gated", w) \/ CallPasses("gated", w)
    BY <1>1 DEF GuidanceGates, CallEnds, CallPasses
  <2> QED
    BY <1>0, <2>1, <2>2
<1>2. CASE BeforeTool
  <2>1. "refused" \in Finish
    BY DEF Finish
  <2>2. CASE RefusedBefore(ThisCall)
    <3>1. CallEnds("refused", w)
      BY <1>2, <2>2 DEF BeforeTool, CallEnds
    <3> QED
      BY <1>0, <2>1, <3>1
  <2>3. CASE ~RefusedBefore(ThisCall)
    BY <1>0, <1>2, <2>3 DEF BeforeTool
  <2> QED
    BY <2>2, <2>3
<1>3. CASE AfterTool
  <2>1. PICK result \in ToolResult :
           IF RefusedAfter(ThisCall, result)
           THEN /\ Ends(w, "error", FALSE)
                /\ finishes' = [finishes EXCEPT ![ThisCall.tool] = "refused"]
           ELSE /\ finishes' = [finishes EXCEPT ![ThisCall.tool] = result]
                /\ Advance(Finished(worker, ThisCall, result))
    BY <1>3 DEF AfterTool
  <2>2. "refused" \in Finish /\ result \in Finish
    BY DEF Finish
  <2>3. CASE RefusedAfter(ThisCall, result)
    <3>1. CallEnds("refused", w)
      BY <2>1, <2>3 DEF CallEnds
    <3> QED
      BY <1>0, <2>2, <3>1
  <2>4. CASE ~RefusedAfter(ThisCall, result)
    <3>1. CallPasses(result, Finished(worker, ThisCall, result))
      BY <2>1, <2>4 DEF CallPasses
    <3> QED
      BY <1>0, <2>2, <3>1
  <2> QED
    BY <2>3, <2>4
<1> QED
  BY <1>1, <1>2, <1>3

\* The counters of the guard and of the history keep their types.
LEMMA CountersTyped ==
    ASSUME LoopTypeOK, GuidanceGates \/ BeforeTool \/ AfterTool, loop.phase \in {"tools", "executing"}
    PROVE  /\ lastSignature' \in [Call -> Signature] /\ noProgress' \in [Call -> Nat]
           /\ ledger' \in Nat /\ workers' \in Nat \ {0}
           /\ executions' \in [all : Nat, stuck : [Call -> Nat]]
<1>0. /\ ThisCall \in Call /\ lastSignature \in [Call -> Signature] /\ workers \in Nat \ {0}
      /\ noProgress \in [Call -> Nat] /\ executions \in [all : Nat, stuck : [Call -> Nat]]
  BY ThisCallType DEF LoopTypeOK
<1>1. CASE GuidanceGates
  BY <1>0, <1>1, GuardStep DEF GuidanceGates, Signature
<1>2. CASE BeforeTool
  BY <1>0, <1>2, GuardStep DEF BeforeTool
<1>3. CASE AfterTool
  <2>1. PICK result \in ToolResult :
           /\ NoteProgress(ThisCall, result) /\ CountAfter(ThisCall, result)
           /\ executions' = [all |-> executions.all + 1,
                  stuck |-> [executions.stuck EXCEPT ![ThisCall] = IF Stalls(ThisCall, result) THEN @ + 1 ELSE 0]]
    BY <1>3 DEF AfterTool
  <2>2. executions' \in [all : Nat, stuck : [Call -> Nat]]
    <3> DEFINE n == IF Stalls(ThisCall, result) THEN executions.stuck[ThisCall] + 1 ELSE 0
    <3>1. n \in Nat /\ executions.all + 1 \in Nat
      BY <1>0
    <3>2. executions' = [all |-> executions.all + 1, stuck |-> [executions.stuck EXCEPT ![ThisCall] = n]]
      BY <2>1
    <3> HIDE DEF n
    <3> QED
      BY <1>0, <3>1, <3>2
  <2>3. workers' = workers
    BY <1>3 DEF AfterTool
  <2> QED
    BY <1>0, <2>1, <2>2, <2>3, GuardStep DEF Signature
<1> QED
  BY <1>1, <1>2, <1>3

\* The worker's memory is right after every step, and so is a success it declares.
LEMMA MemoryStep ==
    ASSUME LoopTypeOK, UndoneIsRemembered, SuccessIsEarned, [ToolLoopNext]_toolLoopVars
    PROVE  LoopTypeOK' /\ UndoneIsRemembered' /\ SuccessIsEarned'
<1>0. loop \in LoopRecord /\ worker \in WorkerRecord /\ MutatingTool \subseteq Tool
  BY ToolLoopAssumption DEF LoopTypeOK
<1>1. CASE RequestsTools
  <2>1. PICK calls \in Turns :
          /\ loop' = [loop EXCEPT !.phase = "tools", !.calls = calls, !.next = 1]
          /\ worker' = Requested(worker, calls)
    BY <1>1 DEF RequestsTools
  <2>2. calls \in Seq(Call) /\ Len(calls) \in DOMAIN calls /\ 1 \in DOMAIN calls
        /\ calls[Len(calls)] \in Call
    BY DEF Turns
  <2>3. loop' \in LoopRecord /\ loop'.next \in DOMAIN loop'.calls /\ loop'.phase = "tools"
    <3>1. loop' = [phase |-> "tools", iteration |-> loop.iteration, calls |-> calls, next |-> 1]
      BY <1>0, <2>1 DEF LoopRecord
    <3> QED
      BY <1>0, <2>2, <3>1 DEF LoopRecord
  <2>4. /\ worker' \in WorkerRecord /\ worker'.last \in Call
        /\ worker'.unresolved = worker.unresolved /\ worker'.ask = worker.ask
    BY <1>0, <2>1, <2>2 DEF Requested, WorkerRecord
  <2>5. outcome' # "success"
    BY <1>1 DEF RequestsTools, UndoneIsRemembered
  <2> QED
    BY <1>1, <2>3, <2>4, <2>5 DEF RequestsTools, LoopTypeOK, UndoneIsRemembered, SuccessIsEarned
<1>2. CASE ModelEnds
  <2>1. PICK reason \in {"success", "ambiguous", "cancelled", "error"}, declares \in BOOLEAN :
           Ends(worker, reason, declares)
    BY <1>2 DEF ModelEnds
  <2>2. /\ worker' = worker /\ loop' \in LoopRecord /\ loop'.phase = "ended"
        /\ outcome' = "success" => worker.ask = NoCall /\ worker.unresolved = {}
                                     /\ RequiredTool \subseteq worker.succeeded
    BY <2>1, EndsKind
  <2>3. UNCHANGED <<lastSignature, noProgress, ledger, workers, executions, finishes>>
    BY <1>2 DEF ModelEnds
  <2> QED
    BY <2>2, <2>3 DEF LoopTypeOK, UndoneIsRemembered, SuccessIsEarned
<1>3. CASE ModelThrows
  <2>1. loop' \in LoopRecord /\ loop'.phase = "ended" /\ outcome' # "success"
    BY <1>0, <1>3 DEF ModelThrows, LoopRecord
  <2> QED
    BY <1>3, <2>1 DEF ModelThrows, LoopTypeOK, UndoneIsRemembered, SuccessIsEarned
<1>4. CASE GuidanceGates \/ BeforeTool \/ AfterTool
  <2>1. ASSUME NEW f \in Finish, NEW w, CallEnds(f, w) \/ CallPasses(f, w)
        PROVE  LoopTypeOK' /\ UndoneIsRemembered' /\ SuccessIsEarned'
    BY <1>4, <2>1, CallKinds, CallStep, CountersTyped DEF LoopTypeOK, SuccessIsEarned
  <2>2. CASE /\ BeforeTool /\ loop' = [loop EXCEPT !.phase = "executing"]
             /\ UNCHANGED <<worker, outcome, finishes>>
    <3>1. loop' \in LoopRecord /\ loop'.next = loop.next /\ loop'.calls = loop.calls
          /\ loop.phase = "tools" /\ outcome # "success"
      BY <1>0, <2>2 DEF LoopRecord, BeforeTool, UndoneIsRemembered
    <3> QED
      BY <1>4, <2>2, <3>1, CountersTyped DEF LoopTypeOK, UndoneIsRemembered, SuccessIsEarned
  <2> QED
    BY <1>4, <2>1, <2>2, CallKinds
<1>5. CASE NextWorker
  <2>1. /\ loop' = [phase |-> "model", iteration |-> 1, calls |-> <<>>, next |-> 1]
        /\ worker' = NewWorker /\ outcome' = "none" /\ workers' = workers + 1 /\ ledger' = ledger
        /\ lastSignature' = [c \in Call |-> "none"] /\ noProgress' = [c \in Call |-> 0]
        /\ executions' = [executions EXCEPT !.stuck = [c \in Call |-> 0]]
        /\ finishes' = [t \in Tool |-> "none"]
    BY <1>5 DEF NextWorker
  <2>2. loop' \in LoopRecord
    <3>1. <<>> \in Seq(Call)
      OBVIOUS
    <3> QED
      BY <2>1, <3>1 DEF LoopRecord
  <2>3. worker' \in WorkerRecord
    BY <2>1 DEF NewWorker, WorkerRecord, NoCall
  <2>4. loop'.phase = "model"
    BY <2>1
  <2>5. /\ ledger' \in Nat /\ workers' \in Nat \ {0} /\ executions' \in [all : Nat, stuck : [Call -> Nat]]
        /\ finishes' \in [Tool -> Finish] /\ lastSignature' \in [Call -> Signature]
        /\ noProgress' \in [Call -> Nat]
    <3>1. /\ executions \in [all : Nat, stuck : [Call -> Nat]] /\ ledger \in Nat /\ workers \in Nat \ {0}
      BY DEF LoopTypeOK
    <3>2. executions' = [all |-> executions.all, stuck |-> [c \in Call |-> 0]]
      BY <2>1, <3>1
    <3>3. executions' \in [all : Nat, stuck : [Call -> Nat]] /\ noProgress' \in [Call -> Nat]
      BY <2>1, <3>1, <3>2
    <3> QED
      BY <2>1, <3>1, <3>3 DEF Finish, Signature
  <2> QED
    BY <1>0, <2>1, <2>2, <2>3, <2>4, <2>5 DEF LoopTypeOK, UndoneIsRemembered, SuccessIsEarned
<1>6. CASE UNCHANGED toolLoopVars
  BY <1>6 DEF toolLoopVars, LoopTypeOK, UndoneIsRemembered, SuccessIsEarned
<1> QED
  BY <1>1, <1>2, <1>3, <1>4, <1>5, <1>6 DEF ToolLoopNext

\* An execution counts before it and after it, save the last one of a worker that makes no
\* progress; what is counted without being executed only uses up the budget.
LEMMA CountsStep ==
    ASSUME LoopTypeOK, LoopTypeOK', isGuarded, ExecutionsAreCounted, UndoneIsRemembered, LoopIsBounded,
           [ToolLoopNext]_toolLoopVars
    PROVE  ExecutionsAreCounted' /\ 2 * executions'.all <= TaskTotalCallBudget + workers'
<1>0. /\ loop \in LoopRecord /\ ledger \in Nat /\ workers \in Nat \ {0} /\ executions.all \in Nat
      /\ TaskTotalCallBudget \in Nat
      /\ 2 * executions.all <= TaskTotalCallBudget + workers
  BY ToolLoopAssumption DEF LoopTypeOK, LoopIsBounded
<1>1. CASE RequestsTools \/ ModelEnds \/ ModelThrows
  <2>1. /\ loop.phase = "model" /\ loop'.phase \in {"tools", "ended"}
        /\ UNCHANGED <<ledger, workers, executions>>
    BY <1>0, <1>1 DEF RequestsTools, ModelEnds, ModelThrows, Ends, LoopRecord
  <2> QED
    BY <1>0, <2>1 DEF ExecutionsAreCounted
<1>2. CASE GuidanceGates
  <2>1. /\ loop'.phase \in {"model", "tools", "ended"} /\ UNCHANGED <<workers, executions>>
        /\ loop.phase = "tools"
    <3>1. /\ loop.phase = "tools" /\ UNCHANGED <<workers, executions>>
          /\ \/ Ends(Failed(worker, ThisCall.tool), "error", FALSE)
             \/ Advance(Failed(worker, ThisCall.tool))
      BY <1>2 DEF GuidanceGates
    <3>2. /\ Failed(worker, ThisCall.tool) \in WorkerRecord
          /\ Failed(worker, ThisCall.tool).last \in Call
      BY <3>1, ThisCallType, ReadingsAreTyped DEF LoopTypeOK
    <3> QED
      BY <3>1, <3>2, EndsEarly, AdvanceKinds
  <2>2. ledger' \in Nat /\ ledger' >= ledger
    BY <1>2, <2>1, ThisCallType, GuardStep DEF GuidanceGates
  <2> QED
    BY <1>0, <2>1, <2>2 DEF ExecutionsAreCounted
<1>3. CASE BeforeTool
  <2>1. /\ loop.phase = "tools" /\ UNCHANGED <<workers, executions>>
        /\ CountBefore(ThisCall) /\ Visits(ThisCall)
    BY <1>3 DEF BeforeTool
  <2>2. ledger' \in Nat /\ ledger' >= ledger
    BY <2>1, ThisCallType, GuardStep
  <2>3. CASE RefusedBefore(ThisCall)
    <3>1. loop'.phase = "ended"
      BY <1>3, <2>3, EndsEarly DEF BeforeTool
    <3> QED
      BY <1>0, <2>1, <2>2, <3>1 DEF ExecutionsAreCounted
  <2>4. CASE ~RefusedBefore(ThisCall)
    <3>1. loop' = [loop EXCEPT !.phase = "executing"]
      BY <1>3, <2>4 DEF BeforeTool
    <3>2. loop'.phase = "executing" /\ ThisCall' = ThisCall
      BY <1>0, <3>1 DEF LoopRecord, ThisCall
    <3>3. Structure(ThisCall) /\ ledger' = ledger + 1 /\ ledger' <= TaskTotalCallBudget
      BY <1>0, <2>1, <2>4 DEF RefusedBefore, CountBefore, Counted
    <3>4. graphNodes' = graphNodes \cup {ThisCall} /\ successors' = successors \cup {ThisCall}
      BY <2>1, <3>3 DEF Visits, Structure
    <3>5. Cardinality(graphNodes') <= MaxGraphNodes /\ Cardinality(successors') <= MaxFanout
      BY <3>3, <3>4 DEF Structure
    <3>6. 2 * executions'.all + 1 <= ledger' + (workers' - 1)
      BY <1>0, <2>1, <3>3 DEF ExecutionsAreCounted
    <3>7. 2 * executions'.all <= TaskTotalCallBudget + workers'
      BY <1>0, <2>1
    <3>8. ThisCall' \in graphNodes' /\ ThisCall' \in successors'
      BY <3>2, <3>4
    <3> QED
      BY <3>2, <3>3, <3>5, <3>6, <3>7, <3>8 DEF ExecutionsAreCounted
  <2> QED
    BY <2>3, <2>4
<1>4. CASE AfterTool
  <2>1. PICK result \in ToolResult :
           /\ CountAfter(ThisCall, result) /\ Visits(ThisCall)
           /\ RefusedAfter(ThisCall, result) => Ends(Failed(worker, ThisCall.tool), "error", FALSE)
    BY <1>4 DEF AfterTool
  <2>0. executions'.all = executions.all + 1
    BY <1>4 DEF AfterTool
  <2>2. /\ loop.phase = "executing" /\ UNCHANGED workers
        /\ ledger <= TaskTotalCallBudget /\ 2 * executions.all + 1 <= ledger + (workers - 1)
    BY <1>4 DEF AfterTool, ExecutionsAreCounted
  <2>3. Structure(ThisCall)
    <3>1. /\ graphNodes \cup {ThisCall} = graphNodes /\ successors \cup {ThisCall} = successors
          /\ Cardinality(graphNodes) <= MaxGraphNodes /\ Cardinality(successors) <= MaxFanout
      BY <2>2 DEF ExecutionsAreCounted
    <3> QED
      BY <3>1 DEF Structure
  <2>4. loop'.phase \in {"model", "tools", "ended"}
    BY <1>4, <2>2, CallKinds, CallStep DEF BeforeTool
  <2>5. CASE Stuck(ThisCall, result)
    <3>1. loop'.phase = "ended"
      BY <2>1, <2>5, EndsEarly DEF RefusedAfter
    <3>2. ledger' = ledger
      BY <2>1, <2>5 DEF CountAfter
    <3> QED
      BY <1>0, <2>0, <2>2, <3>1, <3>2 DEF ExecutionsAreCounted
  <2>6. CASE ~Stuck(ThisCall, result)
    <3>1. ledger' = ledger + 1
      BY <2>1, <2>3, <2>6 DEF CountAfter, Counted
    <3> QED
      BY <1>0, <2>0, <2>2, <2>4, <3>1 DEF ExecutionsAreCounted
  <2> QED
    BY <2>5, <2>6
<1>5. CASE NextWorker
  <2>1. /\ loop.phase = "ended" /\ loop'.phase = "model" /\ workers' = workers + 1 /\ ledger' = ledger
        /\ executions'.all = executions.all
    BY <1>5 DEF NextWorker, LoopTypeOK
  <2> QED
    BY <1>0, <2>1 DEF ExecutionsAreCounted
<1>6. CASE UNCHANGED toolLoopVars
  BY <1>0, <1>6 DEF toolLoopVars, ExecutionsAreCounted, ThisCall
<1> QED
  BY <1>1, <1>2, <1>3, <1>4, <1>5, <1>6 DEF ToolLoopNext

\* No path repeats a result more often than the guard allows, also when calls are gated in between.
LEMMA StallsStep ==
    ASSUME LoopTypeOK, LoopTypeOK', isGuarded, ExecutionsAreCounted, StallsAreCounted, UndoneIsRemembered,
           LoopIsBounded,
           [ToolLoopNext]_toolLoopVars
    PROVE  StallsAreCounted' /\ \A c \in Call : executions'.stuck[c] <= NoProgressLimit
<1>0. /\ lastSignature \in [Call -> Signature] /\ noProgress \in [Call -> Nat]
      /\ executions \in [all : Nat, stuck : [Call -> Nat]] /\ NoProgressLimit \in Nat \ {0}
      /\ \A c \in Call : executions.stuck[c] <= NoProgressLimit
  BY ToolLoopAssumption DEF LoopTypeOK, LoopIsBounded
<1>1. CASE RequestsTools \/ ModelEnds \/ ModelThrows \/ BeforeTool
  <2>1. loop.phase # "ended" /\ UNCHANGED <<lastSignature, noProgress, executions>>
    BY <1>1 DEF RequestsTools, ModelEnds, ModelThrows, BeforeTool
  <2> QED
    BY <1>0, <2>1 DEF StallsAreCounted
<1>2. CASE GuidanceGates
  <2> DEFINE c == ThisCall
  <2>0. c \in Call /\ loop.phase = "tools"
    BY <1>2, ThisCallType DEF GuidanceGates
  <2>1. /\ executions' = executions
        /\ NoteProgress(c, "gated")
        /\ IF RefusedAfter(c, "gated") THEN Ends(Failed(worker, c.tool), "error", FALSE) ELSE TRUE
    BY <1>2 DEF GuidanceGates
  <2>2. \A d \in Call \ {c} : noProgress'[d] = noProgress[d] /\ lastSignature'[d] = lastSignature[d]
    BY <1>0, <2>0, <2>1, GuardStep
  <2>3. lastSignature'[c] = "gated"
    BY <2>0, <2>1, GuardStep
  <2>4. loop'.phase # "ended" => noProgress'[c] < NoProgressLimit
    <3>1. CASE RefusedAfter(c, "gated")
      BY <2>1, <3>1, EndsEarly
    <3>2. CASE ~RefusedAfter(c, "gated")
      BY <1>0, <2>0, <2>1, <3>2 DEF RefusedAfter, Stuck, NoteProgress, Structure
    <3> QED
      BY <3>1, <3>2
  <2> QED
    BY <1>0, <2>0, <2>1, <2>2, <2>3, <2>4 DEF StallsAreCounted
<1>3. CASE AfterTool
  <2> DEFINE c == ThisCall
  <2>0. c \in Call /\ loop.phase = "executing"
    BY <1>3, ThisCallType DEF AfterTool
  <2>1. PICK result \in ToolResult :
           /\ NoteProgress(c, result)
           /\ executions' = [all |-> executions.all + 1,
                  stuck |-> [executions.stuck EXCEPT ![c] = IF Stalls(c, result) THEN @ + 1 ELSE 0]]
           /\ RefusedAfter(c, result) => Ends(Failed(worker, c.tool), "error", FALSE)
    BY <1>3 DEF AfterTool
  <2>2. \A d \in Call \ {c} : /\ noProgress'[d] = noProgress[d] /\ lastSignature'[d] = lastSignature[d]
                              /\ executions'.stuck[d] = executions.stuck[d]
    BY <1>0, <2>0, <2>1, GuardStep
  <2>3. Structure(c)
    <3>1. /\ graphNodes \cup {c} = graphNodes /\ successors \cup {c} = successors
          /\ Cardinality(graphNodes) <= MaxGraphNodes /\ Cardinality(successors) <= MaxFanout
      BY <2>0 DEF ExecutionsAreCounted
    <3> QED
      BY <3>1 DEF Structure
  <2>4. /\ noProgress[c] < NoProgressLimit
        /\ lastSignature[c] # "gated" => executions.stuck[c] <= noProgress[c]
    BY <2>0 DEF StallsAreCounted
  <2>5. /\ noProgress'[c] = IF Stalls(c, result) THEN noProgress[c] + 1 ELSE 0
        /\ executions'.stuck[c] = IF Stalls(c, result) THEN executions.stuck[c] + 1 ELSE 0
        /\ Stalls(c, result) => lastSignature[c] # "gated"
    BY <1>0, <2>0, <2>1, <2>3 DEF NoteProgress, Stalls, ToolResult
  <2>6. executions'.stuck[c] <= noProgress'[c] /\ noProgress'[c] <= NoProgressLimit
    BY <1>0, <2>0, <2>4, <2>5
  <2>7. loop'.phase # "ended" => noProgress'[c] < NoProgressLimit
    <3>1. CASE RefusedAfter(c, result)
      BY <2>1, <3>1, EndsEarly
    <3>2. CASE ~RefusedAfter(c, result)
      BY <1>0, <2>0, <2>5, <3>2 DEF RefusedAfter, Stuck
    <3> QED
      BY <3>1, <3>2
  <2>8. executions'.stuck[c] \in Nat /\ noProgress'[c] \in Nat
    BY <2>0 DEF LoopTypeOK
  <2> HIDE DEF c
  <2> QED
    BY <1>0, <2>0, <2>2, <2>6, <2>7, <2>8 DEF StallsAreCounted
<1>4. CASE NextWorker
  <2>1. /\ lastSignature' = [c \in Call |-> "none"] /\ noProgress' = [c \in Call |-> 0]
        /\ executions'.stuck = [c \in Call |-> 0]
    BY <1>0, <1>4 DEF NextWorker
  <2> QED
    BY <1>0, <2>1 DEF StallsAreCounted
<1>5. CASE UNCHANGED toolLoopVars
  BY <1>0, <1>5 DEF toolLoopVars, StallsAreCounted
<1> QED
  BY <1>1, <1>2, <1>3, <1>4, <1>5 DEF ToolLoopNext

\* A declared success is earned, with the guard and without it, and where the guard is enabled the
\* loop is bounded (runToolLoop, the guard, the ledger, runFinished): for every set of tools,
\* every budget, and every sequence of answers, results and workers.
THEOREM LoopIsSound == ToolLoopSpec => []LoopInv
<1>1. ToolLoopInit => LoopIInv
  <2> SUFFICES ASSUME ToolLoopInit PROVE LoopIInv
    OBVIOUS
  <2>1. <<>> \in Seq(Call) /\ NoCall.tool = "none"
    BY DEF NoCall
  <2>2. loop \in LoopRecord /\ loop.phase = "model"
    BY <2>1 DEF ToolLoopInit, LoopRecord
  <2>3. worker \in WorkerRecord
    BY DEF ToolLoopInit, NewWorker, WorkerRecord, NoCall
  <2>4. executions \in [all : Nat, stuck : [Call -> Nat]] /\ executions.all = 0
        /\ \A c \in Call : executions.stuck[c] = 0
    BY DEF ToolLoopInit
  <2>5. LoopTypeOK
    BY <2>2, <2>3, <2>4 DEF ToolLoopInit, LoopTypeOK, Signature, Finish
  <2>6. UndoneIsRemembered /\ SuccessIsEarned
    BY <2>2, ToolLoopAssumption DEF ToolLoopInit, UndoneIsRemembered, SuccessIsEarned
  <2>7. ExecutionsAreCounted /\ StallsAreCounted /\ LoopIsBounded
    BY <2>2, <2>4, ToolLoopAssumption DEF ToolLoopInit, ExecutionsAreCounted, StallsAreCounted, LoopIsBounded
  <2> QED
    BY <2>5, <2>6, <2>7 DEF LoopIInv, LoopInv
<1>2. LoopIInv /\ [ToolLoopNext]_toolLoopVars => LoopIInv'
  <2> SUFFICES ASSUME LoopIInv, [ToolLoopNext]_toolLoopVars PROVE LoopIInv'
    OBVIOUS
  <2>1. LoopTypeOK' /\ UndoneIsRemembered' /\ SuccessIsEarned'
    BY MemoryStep DEF LoopIInv, LoopInv
  <2>2. isGuarded' = isGuarded
    BY DEF ToolLoopNext, toolLoopVars
  <2>3. isGuarded => ExecutionsAreCounted' /\ 2 * executions'.all <= TaskTotalCallBudget + workers'
    BY <2>1, CountsStep DEF LoopIInv, LoopInv
  <2>4. isGuarded => StallsAreCounted' /\ \A c \in Call : executions'.stuck[c] <= NoProgressLimit
    BY <2>1, StallsStep DEF LoopIInv, LoopInv
  <2> QED
    BY <2>1, <2>2, <2>3, <2>4 DEF LoopIInv, LoopInv, LoopIsBounded
<1>3. LoopIInv => LoopInv
  BY DEF LoopIInv
<1> QED
  BY <1>1, <1>2, <1>3, PTL DEF ToolLoopSpec

-----------------------------------------------------------------------------
(* Questions for permission.                                                *)

Question ==
    [of : Operation, status : {"pending", "allowed", "denied", "expired"}, revision : {1, 2}]

\* Whoever decides has read a question that was pending, in its first revision.
DecisionsReadPending ==
    /\ asks \in [Ask -> Question \cup {NoAsk}]
    /\ \A a \in Ask : asks[a].status = "pending" => asks[a].revision = 1
    /\ \A w \in deciding :
          /\ w.ask \in Ask /\ asks[w.ask] # NoAsk
          /\ w.read \in Question /\ w.read.status = "pending" /\ w.read.revision = 1
          /\ w.to \in {"expired", "allowed", "denied"}

\* While no two decisions overlap, the one under way has read what the file still says.
DecisionsAreAlone ==
    \A w \in deciding : w.ask \notin decideRace =>
        /\ asks[w.ask].status = "pending"
        /\ \A v \in deciding : v.ask = w.ask => v = w

\* People are told only of decisions.
AnswersAreDecisions ==
    /\ \A x \in answered : x.to \in {"allowed", "denied"} /\ x.ask \in Ask
    /\ \A x, y \in answered : x.ask = y.ask /\ x.ask \notin decideRace => x = y
    /\ \A x \in answered : x.ask \notin decideRace => asks[x.ask].status = x.to

\* While no two registrations overlap, one that goes on has found nothing pending.
RegistrationsAreAlone ==
    /\ registering \in [Operation -> 0..2]
    /\ \A o \in Operation \ registerRace :
          /\ registering[o] <= 1 /\ (registering[o] = 1 => Pending(o) = {})
          /\ \A a, b \in Pending(o) : a = b

AskIInv == DecisionsReadPending /\ DecisionsAreAlone /\ AnswersAreDecisions /\ RegistrationsAreAlone

\* The file of a question that is written keeps its form, and only a registration makes one pending.
LEMMA RegisterWritesKind ==
    ASSUME AskIInv, NEW o \in Operation, RegisterWrites(o)
    PROVE  \E a \in Ask :
              /\ asks[a] = NoAsk /\ asks' = [asks EXCEPT ![a] = NewAsk(o, a)]
              /\ Pending(o)' = Pending(o) \cup {a}
              /\ \A p \in Operation \ {o} : Pending(p)' = Pending(p)
<1>1. PICK a \in NextAsk : asks' = [asks EXCEPT ![a] = NewAsk(o, a)]
  BY DEF RegisterWrites
<1>2. a \in Ask /\ asks[a] = NoAsk
  BY DEF NextAsk
<1>3. asks \in [Ask -> Question \cup {NoAsk}] /\ NoAsk.status # "pending"
  BY DEF AskIInv, DecisionsReadPending, NoAsk
<1>4. asks'[a].of = o /\ asks'[a].status = "pending" /\ \A b \in Ask : b # a => asks'[b] = asks[b]
  BY <1>1, <1>2, <1>3 DEF NewAsk
<1>5. Pending(o)' = Pending(o) \cup {a} /\ \A p \in Operation \ {o} : Pending(p)' = Pending(p)
  BY <1>2, <1>3, <1>4 DEF Pending
<1> QED
  BY <1>1, <1>2, <1>5

\* A decision that is written ends the question it has read, and makes none pending.
LEMMA DecideWritesKind ==
    ASSUME AskIInv, NEW w \in deciding, DecideWrites(w)
    PROVE  /\ w.ask \in Ask /\ asks' \in [Ask -> Question \cup {NoAsk}]
           /\ asks'[w.ask].status = w.to /\ w.to \in {"expired", "allowed", "denied"}
           /\ asks'[w.ask] # NoAsk
           /\ \A b \in Ask : b # w.ask => asks'[b] = asks[b]
           /\ \A o \in Operation : Pending(o)' \subseteq Pending(o)
<1>1. /\ w.ask \in Ask /\ w.read \in Question /\ w.read.revision = 1
      /\ w.to \in {"expired", "allowed", "denied"}
      /\ asks \in [Ask -> Question \cup {NoAsk}]
  BY DEF AskIInv, DecisionsReadPending
<1>2. asks' = [asks EXCEPT ![w.ask] = Decided(w)]
  BY DEF DecideWrites
<1>3. Decided(w) \in Question /\ Decided(w).status = w.to
  <2>1. Decided(w) = [w.read EXCEPT !.status = w.to, !.revision = 2]
    BY <1>1 DEF Decided
  <2>2. Decided(w) = [of |-> w.read.of, status |-> w.to, revision |-> 2]
    BY <1>1, <2>1 DEF Question
  <2>3. w.read.of \in Operation
    BY <1>1 DEF Question
  <2> QED
    BY <1>1, <2>2, <2>3 DEF Question
<1>4. Decided(w) # NoAsk
  BY <1>1, <1>3 DEF NoAsk
<1>5. asks'[w.ask] = Decided(w) /\ \A b \in Ask : b # w.ask => asks'[b] = asks[b]
  BY <1>1, <1>2
<1>6. asks' \in [Ask -> Question \cup {NoAsk}]
  BY <1>1, <1>2, <1>3
<1>7. \A o \in Operation : Pending(o)' \subseteq Pending(o)
  BY <1>1, <1>3, <1>5 DEF Pending
<1> QED
  BY <1>1, <1>3, <1>4, <1>5, <1>6, <1>7

\* Files, decisions and answers stay together in every step.
LEMMA AskStep == AskIInv /\ [AskNext]_askVars => AskIInv'
<1> SUFFICES ASSUME AskIInv, [AskNext]_askVars PROVE AskIInv'
  OBVIOUS
<1>0. asks \in [Ask -> Question \cup {NoAsk}] /\ registering \in [Operation -> 0..2]
  BY DEF AskIInv, DecisionsReadPending, RegistrationsAreAlone
<1>1. ASSUME NEW o \in Operation, RegisterReads(o) PROVE AskIInv'
  <2>1. UNCHANGED <<asks, deciding, answered, decideRace>> /\ Pending(o) = {} /\ registering[o] < 2
        /\ registering' = [registering EXCEPT ![o] = @ + 1]
        /\ registerRace' = IF registering[o] > 0 THEN registerRace \cup {o} ELSE registerRace
    BY <1>1 DEF RegisterReads
  <2>2. RegistrationsAreAlone'
    BY <1>0, <2>1 DEF AskIInv, RegistrationsAreAlone, Pending
  <2> QED
    BY <2>1, <2>2 DEF AskIInv, DecisionsReadPending, DecisionsAreAlone, AnswersAreDecisions
<1>2. ASSUME NEW o \in Operation, RegisterWrites(o) PROVE AskIInv'
  <2>1. PICK a \in Ask :
           /\ asks[a] = NoAsk /\ asks' = [asks EXCEPT ![a] = NewAsk(o, a)]
           /\ Pending(o)' = Pending(o) \cup {a}
           /\ \A p \in Operation \ {o} : Pending(p)' = Pending(p)
    BY <1>2, RegisterWritesKind
  <2>2. /\ registering[o] > 0 /\ registering' = [registering EXCEPT ![o] = @ - 1]
        /\ UNCHANGED <<deciding, answered, registerRace, decideRace>>
    BY <1>2 DEF RegisterWrites
  <2>3. NewAsk(o, a) \in Question /\ NewAsk(o, a).revision = 1 /\ NewAsk(o, a) # NoAsk
    BY DEF NewAsk, Question, NoAsk
  <2>4. asks' \in [Ask -> Question \cup {NoAsk}] /\ asks'[a] = NewAsk(o, a)
        /\ \A b \in Ask : b # a => asks'[b] = asks[b]
    BY <1>0, <2>1, <2>3
  <2>5. DecisionsReadPending'
    BY <2>1, <2>2, <2>3, <2>4 DEF AskIInv, DecisionsReadPending
  <2>6. \A w \in deciding : w.ask \in Ask /\ w.ask # a
    BY <2>1 DEF AskIInv, DecisionsReadPending
  <2>7. DecisionsAreAlone'
    BY <2>2, <2>4, <2>6 DEF AskIInv, DecisionsAreAlone
  <2>8. AnswersAreDecisions'
    <3>1. \A x \in answered : x.ask \notin decideRace => x.ask \in Ask /\ x.ask # a
      BY <2>1 DEF AskIInv, AnswersAreDecisions, NoAsk
    <3> QED
      BY <2>2, <2>4, <3>1 DEF AskIInv, AnswersAreDecisions
  <2>9. RegistrationsAreAlone'
    BY <1>0, <2>1, <2>2 DEF AskIInv, RegistrationsAreAlone
  <2> QED
    BY <2>5, <2>7, <2>8, <2>9 DEF AskIInv
<1>3. ASSUME NEW a \in Ask, TimePasses(a) PROVE AskIInv'
  BY <1>3 DEF TimePasses, AskIInv, DecisionsReadPending, DecisionsAreAlone, AnswersAreDecisions,
              RegistrationsAreAlone, Pending
<1>4. ASSUME NEW d \in Decider, NEW a \in Ask, NEW known \in {1, 2}, NEW decision \in {"allowed", "denied"},
             DecideReads(d, a, known, decision)
      PROVE  AskIInv'
  <2>1. /\ asks[a] # NoAsk /\ UNCHANGED <<asks, registering, answered, registerRace>>
        /\ decideRace' = IF \E w \in deciding : w.ask = a THEN decideRace \cup {a} ELSE decideRace
    BY <1>4 DEF DecideReads
  <2>2. \/ deciding' = deciding
        \/ /\ asks[a].status = "pending"
           /\ \E to \in {"expired", "allowed", "denied"} :
                 deciding' = deciding \cup {[by |-> d, ask |-> a, to |-> to, read |-> asks[a]]}
    BY <1>4 DEF DecideReads, Decidable
  <2>3. DecisionsReadPending'
    <3>1. asks[a] \in Question
      BY <1>0, <2>1
    <3> QED
      BY <2>1, <2>2, <3>1 DEF AskIInv, DecisionsReadPending
  <2>4. DecisionsAreAlone'
    BY <2>1, <2>2 DEF AskIInv, DecisionsAreAlone
  <2>5. AnswersAreDecisions'
    BY <2>1 DEF AskIInv, AnswersAreDecisions
  <2>6. RegistrationsAreAlone'
    BY <2>1 DEF AskIInv, RegistrationsAreAlone, Pending
  <2> QED
    BY <2>3, <2>4, <2>5, <2>6 DEF AskIInv
<1>5. ASSUME NEW w \in deciding, DecideWrites(w) PROVE AskIInv'
  <2>0. /\ w.ask \in Ask /\ asks' \in [Ask -> Question \cup {NoAsk}]
        /\ asks'[w.ask].status = w.to /\ w.to \in {"expired", "allowed", "denied"}
        /\ asks'[w.ask] # NoAsk
        /\ \A b \in Ask : b # w.ask => asks'[b] = asks[b]
        /\ \A o \in Operation : Pending(o)' \subseteq Pending(o)
    BY <1>5, DecideWritesKind
  <2>1. /\ deciding' = deciding \ {w} /\ UNCHANGED <<registering, registerRace, decideRace>>
        /\ answered' = IF w.to = "expired" THEN answered
                       ELSE answered \cup {[by |-> w.by, ask |-> w.ask, to |-> w.to]}
    BY <1>5 DEF DecideWrites
  <2>2. w.ask \notin decideRace =>
           /\ \A v \in deciding' : v.ask # w.ask
           /\ \A x \in answered : x.ask # w.ask
    BY <2>1 DEF AskIInv, DecisionsAreAlone, AnswersAreDecisions
  <2>3. DecisionsReadPending'
    BY <2>0, <2>1 DEF AskIInv, DecisionsReadPending
  <2>4. DecisionsAreAlone'
    BY <2>0, <2>1, <2>2 DEF AskIInv, DecisionsAreAlone, DecisionsReadPending
  <2>5. AnswersAreDecisions'
    BY <2>0, <2>1, <2>2 DEF AskIInv, AnswersAreDecisions
  <2>6. RegistrationsAreAlone'
    BY <2>0, <2>1 DEF AskIInv, RegistrationsAreAlone
  <2> QED
    BY <2>3, <2>4, <2>5, <2>6 DEF AskIInv
<1>6. CASE UNCHANGED askVars
  BY <1>6 DEF askVars, AskIInv, DecisionsReadPending, DecisionsAreAlone, AnswersAreDecisions,
              RegistrationsAreAlone, Pending
<1> QED
  BY <1>1, <1>2, <1>3, <1>4, <1>5, <1>6 DEF AskNext

\* An answer is final and one (decidePermissionAskRequest, registerRequest): unless decisions, or
\* registrations, overlap, for any number of questions, operations and people.
THEOREM AnswersStayFinal == AskSpec => []AskInv
<1>1. AskInit => AskIInv
  BY DEF AskInit, AskIInv, DecisionsReadPending, DecisionsAreAlone, AnswersAreDecisions,
         RegistrationsAreAlone, Pending, NoAsk
<1>2. AskIInv => AskInv
  <2> SUFFICES ASSUME AskIInv PROVE AskInv
    OBVIOUS
  <2>1. AskTypeOK
    BY DEF AskIInv, DecisionsReadPending, AskTypeOK, Question
  <2>2. ASSUME NEW o \in Operation \ registerRace PROVE Cardinality(Pending(o)) <= 1
    <3>1. CASE Pending(o) = {}
      BY <3>1, FS_EmptySet
    <3>2. ASSUME NEW a \in Pending(o) PROVE Cardinality(Pending(o)) <= 1
      <4>1. Pending(o) = {a}
        BY DEF AskIInv, RegistrationsAreAlone
      <4> QED
        BY <4>1, FS_Singleton
    <3> QED
      BY <3>1, <3>2
  <2> QED
    BY <2>1, <2>2 DEF AskIInv, AnswersAreDecisions, AskInv, AnswersAreFinal
<1> QED
  BY <1>1, <1>2, AskStep, PTL DEF AskSpec

-----------------------------------------------------------------------------
(* Guidance.                                                                *)

\* Statuses the journal holds: that something was superseded is never written.
Entry == Verdict \ {"superseded"}

UpsertRecord ==
    [kind : {"submission", "background"}, event : Event, status : Entry,
     read : {Unread} \cup [Event -> Entry]]

GuidanceTyped ==
    /\ lastSequence \in Nat /\ revision \in [Identifier -> Nat]
    /\ seen \subseteq Event /\ expired \subseteq Event /\ submitted \subseteq Event
    /\ redelivered \subseteq Event
    /\ verdict \in [Event -> Verdict] /\ submissions \in [Event -> Entry]
    /\ upserts \subseteq UpsertRecord
    /\ raced \in BOOLEAN

\* What a safe point has dropped is waiting or applied only after another delivery.
QueueIsRemembered ==
    /\ waiting \subseteq seen /\ refused \subseteq seen /\ applied \subseteq seen
    /\ refused \cap (waiting \cup applied) \subseteq redelivered
    /\ applications = [e \in Event |-> IF e \in applied THEN 1 ELSE 0]

\* The journal says it, and no call under way will say otherwise.
Recorded(e) == submissions[e] = verdict[e] /\ \A u \in upserts : u.event = e => u.status = verdict[e]

\* A call under way will write it.
BeingWritten(e) == \E u \in upserts : u.event = e /\ u.status = verdict[e]

JournalCatchesUp ==
    ~raced => \A e \in seen \ redelivered :
                  verdict[e] # "superseded" => Recorded(e) \/ BeingWritten(e)

GuidanceIInv == GuidanceTyped /\ QueueIsRemembered /\ JournalCatchesUp

-----------------------------------------------------------------------------
(* Changes.                                                                 *)

ChangeEntry == [task : GuidedTask, revision : Nat, by : Delivery]
ChangeDecision == [delivery : Delivery, status : {"accepted", "rejected", "needs-clarification"}]
ChangeState ==
    [revision : [GuidedTask -> Nat \ {0}], history : SUBSET ChangeEntry, decided : SUBSET ChangeDecision]

ChangesTyped ==
    /\ memory \in ChangeState /\ file \in ChangeState
    /\ writes \subseteq [state : ChangeState, delivery : Delivery]
    /\ outrun \in BOOLEAN

\* A snapshot under way holds the decision it is written for; the memory of the
\* process has all that its snapshots have.
SnapshotsAreOld ==
    \A w \in writes : IsDecided(w.state, w.delivery) /\ w.state.decided \subseteq memory.decided

FileIsOld == ~outrun => told \subseteq file.decided /\ file.decided \subseteq memory.decided

ChangesIInv == ChangesTyped /\ SnapshotsAreOld /\ FileIsOld /\ ChangesAreConsistent

-----------------------------------------------------------------------------
(* Cancellation of long tools.                                              *)

CancelStatus ==
    {"requested", "acknowledged-stopped", "acknowledged-completed", "unknown-stop-outcome", "superseded"}

RequestRecord ==
    [call : ToolCall, epoch : Nat, revision : 1..MaxRevisionOf, status : CancelStatus,
     delivered : BOOLEAN, from : Nat]

LongToolTyped ==
    /\ epoch \in [ToolCall -> Nat] /\ completed \in [ToolCall -> BOOLEAN]
    /\ requests \in Seq(RequestRecord) /\ Len(requests) <= MaxRequests
    /\ receipts \in [1..MaxRequests -> Nat]
    /\ \A i \in 1..MaxRequests : i > Len(requests) => receipts[i] = 0

\* Of the requests of a task one at least is not superseded.
OneStands ==
    \A i \in DOMAIN requests : \E j \in DOMAIN requests :
        ToolTaskOf[requests[j].call] = ToolTaskOf[requests[i].call] /\ requests[j].status # "superseded"

LongToolIInv == LongToolTyped /\ DeliveredOnce /\ OneStands
-----------------------------------------------------------------------------
(* Proof about guidance.                                                   *)

LEMMA UpsertType ==
    ASSUME NEW kind \in {"submission", "background"}, NEW e \in Event, NEW s \in Entry
    PROVE  /\ Upsert(kind, e, s) \in UpsertRecord
           /\ Upsert(kind, e, s).event = e /\ Upsert(kind, e, s).status = s
BY DEF Upsert, UpsertRecord

\* Each event whose status is noted gets a call of its own that writes the status.
LEMMA NotedType ==
    ASSUME NEW S \in SUBSET Event, NEW f \in [S -> Entry]
    PROVE  /\ Noted(f) \subseteq UpsertRecord
           /\ \A u \in Noted(f) : u.event \in S /\ u.status = f[u.event]
           /\ \A e \in S : \E u \in Noted(f) : u.event = e /\ u.status = f[e]
<1>1. \A e \in S : /\ Upsert("background", e, f[e]) \in UpsertRecord
                   /\ Upsert("background", e, f[e]).event = e
                   /\ Upsert("background", e, f[e]).status = f[e]
  <2> TAKE e \in S
  <2> QED
    BY UpsertType
<1> QED
  BY <1>1 DEF Noted

\* The record of a delivery that was accepted: it may supersede other events, and it says
\* no more of them.
LEMMA AcceptsKinds ==
    ASSUME GuidanceTyped, GuidanceAssumption, NEW e \in Event, Accepts(e)
    PROVE  /\ lastSequence' \in Nat /\ revision' \in [Identifier -> Nat]
           /\ seen' = seen \cup {e} /\ waiting \subseteq waiting' /\ waiting' \subseteq waiting \cup {e}
           /\ verdict' \in [Event -> Verdict] /\ verdict'[e] = FirstStatus(e)
           /\ \A f \in Event \ {e} : verdict'[f] \in {verdict[f], "superseded"}
<1>0. FirstStatus(e) \in Verdict
  BY DEF FirstStatus, Verdict
<1>1. /\ seen' = seen \cup {e}
      /\ waiting' = IF e \in RecordOnly THEN waiting ELSE waiting \cup {e}
      /\ verdict' = [f \in Event |-> IF f = e THEN FirstStatus(e)
                                     ELSE IF f \in Superseded(e) THEN "superseded" ELSE verdict[f]]
  BY DEF Accepts
<1>2. lastSequence' \in Nat /\ revision' \in [Identifier -> Nat]
  BY DEF Accepts, GuidanceTyped, GuidanceAssumption
<1>3. verdict' \in [Event -> Verdict]
  <2>1. \A f \in Event : verdict'[f] \in Verdict
    BY <1>0, <1>1 DEF GuidanceTyped, Verdict
  <2> QED
    BY <1>1, <2>1
<1> QED
  BY <1>1, <1>2, <1>3

LEMMA FirstStatusType == ASSUME NEW e PROVE FirstStatus(e) \in Entry
BY DEF FirstStatus, Entry, Verdict

\* What is noted when an event of the tier "record-only" is accepted.
LEMMA RecordedAtOnce ==
    ASSUME NEW e \in Event
    PROVE  /\ Noted([f \in RecordOnly \cap {e} |-> "applied"]) \subseteq UpsertRecord
           /\ \A u \in Noted([f \in RecordOnly \cap {e} |-> "applied"]) :
                 u.event = e /\ u.status = FirstStatus(e)
<1>1. RecordOnly \cap {e} \in SUBSET Event /\ "applied" \in Entry
  BY DEF Entry, Verdict
<1> DEFINE g == [f \in RecordOnly \cap {e} |-> "applied"]
<1>2. g \in [RecordOnly \cap {e} -> Entry]
  BY <1>1
<1>3. \A f \in RecordOnly \cap {e} : g[f] = FirstStatus(e) /\ f = e
  BY DEF FirstStatus
<1> HIDE DEF g
<1>4. Noted(g) \subseteq UpsertRecord /\ \A u \in Noted(g) : u.event = e /\ u.status = FirstStatus(e)
  BY <1>1, <1>2, <1>3, NotedType
<1> QED
  BY <1>4 DEF g

\* Calls are begun for one event only, all with its status: what the journal
\* holds or will hold of the others is as before.
LEMMA OthersCatchUp ==
    ASSUME GuidanceIInv, NEW e \in Event, NEW new,
           upserts' = upserts \cup new, \A u \in new : u.event = e,
           submissions' = submissions, raced' = raced, redelivered \subseteq redelivered',
           seen' = seen \cup {e},
           \A f \in Event \ {e} : verdict'[f] \in {verdict[f], "superseded"},
           e \in redelivered' \/ \E u \in new : u.event = e /\ u.status = verdict'[e]
    PROVE  JournalCatchesUp'
<1> SUFFICES ASSUME ~raced', NEW f \in seen' \ redelivered', verdict'[f] # "superseded"
             PROVE  Recorded(f)' \/ BeingWritten(f)'
  BY DEF JournalCatchesUp
<1>1. CASE f = e
  BY <1>1 DEF BeingWritten
<1>2. CASE f # e
  <2>1. f \in seen \ redelivered /\ f \in Event /\ verdict'[f] = verdict[f]
    BY <1>2 DEF GuidanceIInv, GuidanceTyped
  <2>2. Recorded(f) \/ BeingWritten(f)
    BY <2>1 DEF GuidanceIInv, JournalCatchesUp
  <2> QED
    BY <1>2, <2>1, <2>2 DEF Recorded, BeingWritten
<1> QED
  BY <1>1, <1>2

LEMMA SubmitStep ==
    ASSUME GuidanceIInv, GuidanceAssumption, NEW e \in Event, Submit(e)
    PROVE  GuidanceIInv'
<1> DEFINE noted == Noted([f \in RecordOnly \cap {e} |-> "applied"])
           new == {Upsert("submission", e, FirstStatus(e))} \cup noted
<1>0. GuidanceTyped /\ QueueIsRemembered /\ JournalCatchesUp
  BY DEF GuidanceIInv
<1>1. /\ e \notin seen /\ Accepts(e) /\ upserts' = upserts \cup new
      /\ submitted' = submitted /\ redelivered' = redelivered
      /\ expired' = expired /\ applied' = applied /\ submissions' = submissions
      /\ applications' = applications /\ refused' = refused /\ raced' = raced
  BY DEF Submit, Accepts
<1>2. /\ Upsert("submission", e, FirstStatus(e)) \in UpsertRecord
      /\ Upsert("submission", e, FirstStatus(e)).event = e
      /\ Upsert("submission", e, FirstStatus(e)).status = FirstStatus(e)
  BY FirstStatusType, UpsertType
<1>3. noted \subseteq UpsertRecord /\ \A u \in noted : u.event = e /\ u.status = FirstStatus(e)
  BY RecordedAtOnce
<1>4. /\ lastSequence' \in Nat /\ revision' \in [Identifier -> Nat]
      /\ seen' = seen \cup {e} /\ waiting' \subseteq waiting \cup {e}
      /\ verdict' \in [Event -> Verdict] /\ verdict'[e] = FirstStatus(e)
      /\ \A f \in Event \ {e} : verdict'[f] \in {verdict[f], "superseded"}
  BY <1>0, <1>1, AcceptsKinds
<1> HIDE DEF noted
<1>5. new \subseteq UpsertRecord /\ \A u \in new : u.event = e /\ u.status = FirstStatus(e)
  BY <1>2, <1>3
<1>6. \E u \in new : u.event = e /\ u.status = verdict'[e]
  BY <1>2, <1>4
<1> HIDE DEF new
<1>7. GuidanceTyped'
  BY <1>0, <1>1, <1>4, <1>5 DEF GuidanceTyped
<1>8. QueueIsRemembered'
  BY <1>0, <1>1, <1>4 DEF QueueIsRemembered
<1>9. JournalCatchesUp'
  BY <1>1, <1>4, <1>5, <1>6, OthersCatchUp
<1> QED
  BY <1>7, <1>8, <1>9 DEF GuidanceIInv

LEMMA DeliverAgainStep ==
    ASSUME GuidanceIInv, GuidanceAssumption, NEW e \in Event, DeliverAgain(e)
    PROVE  GuidanceIInv'
<1> DEFINE noted == Noted([f \in RecordOnly \cap {e} |-> "applied"])
<1>0. GuidanceTyped /\ QueueIsRemembered /\ JournalCatchesUp
  BY DEF GuidanceIInv
<1>1. /\ Accepts(e) /\ upserts' = upserts \cup noted
      /\ submitted' = submitted /\ redelivered' = redelivered \cup {e}
      /\ expired' = expired /\ applied' = applied /\ submissions' = submissions
      /\ applications' = applications /\ refused' = refused /\ raced' = raced
  BY DEF DeliverAgain, Accepts
<1>3. noted \subseteq UpsertRecord /\ \A u \in noted : u.event = e
  BY RecordedAtOnce
<1>4. /\ lastSequence' \in Nat /\ revision' \in [Identifier -> Nat]
      /\ seen' = seen \cup {e} /\ waiting' \subseteq waiting \cup {e}
      /\ verdict' \in [Event -> Verdict]
      /\ \A f \in Event \ {e} : verdict'[f] \in {verdict[f], "superseded"}
  BY <1>0, <1>1, AcceptsKinds
<1> HIDE DEF noted
<1>7. GuidanceTyped'
  BY <1>0, <1>1, <1>3, <1>4 DEF GuidanceTyped
<1>8. QueueIsRemembered'
  BY <1>0, <1>1, <1>4 DEF QueueIsRemembered
<1>9. JournalCatchesUp'
  BY <1>1, <1>3, <1>4, OthersCatchUp
<1> QED
  BY <1>7, <1>8, <1>9 DEF GuidanceIInv

\* A safe point empties the queue: each event in it is applied or dropped, once.
LEMMA SafePointStep ==
    ASSUME GuidanceIInv, GuidanceAssumption, NEW t \in WorkerTask, SafePoint(t)
    PROVE  GuidanceIInv'
<1> DEFINE A == AppliedNow(t)
           D == DroppedNow(t)
           statuses == [e \in A \cup D |-> verdict'[e]]
           new == Noted(statuses)
<1>0. GuidanceTyped /\ QueueIsRemembered /\ JournalCatchesUp
  BY DEF GuidanceIInv
<1>1. /\ waiting' = {} /\ applied' = applied \cup A /\ refused' = refused \cup D
      /\ applications' = [e \in Event |-> applications[e] + IF e \in A THEN 1 ELSE 0]
      /\ verdict' = [e \in Event |-> IF e \in A THEN "applied" ELSE IF e \in D THEN "dropped"
                                     ELSE verdict[e]]
      /\ upserts' = upserts \cup new
      /\ lastSequence' = lastSequence /\ revision' = revision /\ seen' = seen /\ expired' = expired
      /\ submissions' = submissions /\ submitted' = submitted /\ redelivered' = redelivered
      /\ raced' = raced
  BY DEF SafePoint
<1>2. /\ A \subseteq waiting \ applied /\ D \subseteq waiting \ applied /\ A \cap D = {}
      /\ A \subseteq Event /\ D \subseteq Event
  BY <1>0 DEF AppliedNow, DroppedNow, QueueIsRemembered, GuidanceTyped
<1>3. statuses \in [A \cup D -> Entry]
  <2>1. \A e \in A \cup D : verdict'[e] \in Entry
    BY <1>1, <1>2 DEF Entry, Verdict
  <2> QED
    BY <2>1
<1>4. /\ new \subseteq UpsertRecord /\ \A u \in new : u.event \in A \cup D
      /\ \A e \in A \cup D : \E u \in new : u.event = e /\ u.status = verdict'[e]
  <2>1. \A e \in A \cup D : statuses[e] = verdict'[e]
    OBVIOUS
  <2> HIDE DEF statuses
  <2>2. A \cup D \in SUBSET Event
    BY <1>2
  <2>3. /\ Noted(statuses) \subseteq UpsertRecord
        /\ \A u \in Noted(statuses) : u.event \in A \cup D /\ u.status = statuses[u.event]
        /\ \A e \in A \cup D : \E u \in Noted(statuses) : u.event = e /\ u.status = statuses[e]
    BY <1>3, <2>2, NotedType
  <2> QED
    BY <2>1, <2>3
<1> HIDE DEF A, D, new
<1>5. GuidanceTyped'
  <2>1. verdict' \in [Event -> Verdict]
    BY <1>0, <1>1 DEF GuidanceTyped, Verdict
  <2> QED
    BY <1>0, <1>1, <1>4, <2>1 DEF GuidanceTyped
<1>6. QueueIsRemembered'
  <2>1. applications' = [e \in Event |-> IF e \in applied' THEN 1 ELSE 0]
    <3>1. \A e \in Event : applications[e] + (IF e \in A THEN 1 ELSE 0) = IF e \in applied' THEN 1 ELSE 0
      BY <1>0, <1>1, <1>2 DEF QueueIsRemembered
    <3> QED
      BY <1>1, <3>1
  <2> QED
    BY <1>0, <1>1, <1>2, <2>1 DEF QueueIsRemembered
<1>7. JournalCatchesUp'
  <2> SUFFICES ASSUME ~raced', NEW f \in seen' \ redelivered', verdict'[f] # "superseded"
               PROVE  Recorded(f)' \/ BeingWritten(f)'
    BY DEF JournalCatchesUp
  <2>1. CASE f \in A \cup D
    BY <1>1, <1>4, <2>1 DEF BeingWritten
  <2>2. CASE f \notin A \cup D
    <3>1. f \in seen \ redelivered /\ verdict'[f] = verdict[f]
      BY <1>0, <1>1, <2>2 DEF GuidanceTyped
    <3>2. Recorded(f) \/ BeingWritten(f)
      BY <1>0, <1>1, <3>1 DEF JournalCatchesUp
    <3>3. /\ \A u \in upserts' : u.event = f => u \in upserts
          /\ upserts \subseteq upserts' /\ submissions' = submissions
      BY <1>1, <1>4, <2>2
    <3> QED
      BY <3>1, <3>2, <3>3 DEF Recorded, BeingWritten
  <2> QED
    BY <2>1, <2>2
<1> QED
  BY <1>5, <1>6, <1>7 DEF GuidanceIInv

LEMMA JournalReadsStep ==
    ASSUME GuidanceIInv, NEW u \in upserts, JournalReads(u)
    PROVE  GuidanceIInv'
<1> DEFINE r == [u EXCEPT !.read = submissions]
<1>0. GuidanceTyped /\ QueueIsRemembered /\ JournalCatchesUp
  BY DEF GuidanceIInv
<1>1. /\ upserts' = (upserts \ {u}) \cup {r}
      /\ UNCHANGED <<lastSequence, revision, seen, waiting, applied, verdict, expired,
                     submissions, submitted, applications, refused, redelivered, raced>>
  BY DEF JournalReads
<1>2. u \in UpsertRecord /\ submissions \in [Event -> Entry]
  BY <1>0 DEF GuidanceTyped
<1>3. r \in UpsertRecord /\ r.event = u.event /\ r.status = u.status
  BY <1>2 DEF UpsertRecord
<1> HIDE DEF r
<1>4. GuidanceTyped'
  BY <1>0, <1>1, <1>3 DEF GuidanceTyped
<1>5. QueueIsRemembered'
  BY <1>0, <1>1 DEF QueueIsRemembered
<1>6. JournalCatchesUp'
  <2>1. \A f : (Recorded(f) => Recorded(f)') /\ (BeingWritten(f) => BeingWritten(f)')
    BY <1>1, <1>3 DEF Recorded, BeingWritten
  <2> QED
    BY <1>0, <1>1, <2>1 DEF JournalCatchesUp
<1> QED
  BY <1>4, <1>5, <1>6 DEF GuidanceIInv

\* A write that is not overtaken leaves the journal with the status it brings, and no
\* other call is about to write another status of the event.
LEMMA JournalWritesStep ==
    ASSUME GuidanceIInv, NEW u \in upserts, JournalWrites(u)
    PROVE  GuidanceIInv'
<1>0. GuidanceTyped /\ QueueIsRemembered /\ JournalCatchesUp
  BY DEF GuidanceIInv
<1>1. /\ u.read # Unread /\ upserts' = upserts \ {u}
      /\ submissions' = [u.read EXCEPT ![u.event] = u.status]
      /\ submitted' = IF u.kind = "submission" THEN submitted \cup {u.event} ELSE submitted
      /\ raced' = (raced \/ u.read # submissions
                     \/ \E w \in upserts \ {u} : w.event = u.event /\ w.status # u.status)
      /\ UNCHANGED <<lastSequence, revision, seen, waiting, applied, verdict, expired,
                     applications, refused, redelivered>>
  BY DEF JournalWrites, Written
<1>2. u \in UpsertRecord
  BY <1>0 DEF GuidanceTyped
<1>3. u.event \in Event /\ u.status \in Entry /\ u.read \in [Event -> Entry]
  BY <1>1, <1>2 DEF UpsertRecord
<1>4. GuidanceTyped'
  <2>1. submissions' \in [Event -> Entry]
    BY <1>1, <1>3
  <2>2. raced' \in BOOLEAN
    BY <1>1
  <2>3. submitted' \subseteq Event
    BY <1>0, <1>1, <1>3 DEF GuidanceTyped
  <2> QED
    BY <1>0, <1>1, <2>1, <2>2, <2>3 DEF GuidanceTyped
<1>5. QueueIsRemembered'
  BY <1>0, <1>1 DEF QueueIsRemembered
<1>6. JournalCatchesUp'
  <2> SUFFICES ASSUME ~raced', NEW f \in seen' \ redelivered', verdict'[f] # "superseded"
               PROVE  Recorded(f)' \/ BeingWritten(f)'
    BY DEF JournalCatchesUp
  <2>1. /\ ~raced /\ u.read = submissions
        /\ \A w \in upserts \ {u} : w.event = u.event => w.status = u.status
    BY <1>1
  <2>2. Recorded(f) \/ BeingWritten(f)
    BY <1>0, <1>1, <2>1 DEF JournalCatchesUp
  <2>3. submissions \in [Event -> Entry] /\ f \in Event
    BY <1>0, <1>1 DEF GuidanceTyped
  <2>4. CASE f = u.event
    <3>1. submissions'[f] = u.status
      BY <1>1, <2>1, <2>3, <2>4
    <3>2. u.status = verdict[f]
      BY <2>1, <2>2, <2>4 DEF Recorded, BeingWritten
    <3> QED
      BY <1>1, <2>1, <2>4, <3>1, <3>2 DEF Recorded
  <2>5. CASE f # u.event
    <3>1. submissions'[f] = submissions[f]
      BY <1>1, <2>1, <2>3, <2>5
    <3> QED
      BY <1>1, <2>2, <2>5, <3>1 DEF Recorded, BeingWritten
  <2> QED
    BY <2>4, <2>5
<1> QED
  BY <1>4, <1>5, <1>6 DEF GuidanceIInv

LEMMA GuidanceStep ==
    ASSUME GuidanceIInv, GuidanceAssumption, [GuidanceNext]_guidanceVars
    PROVE  GuidanceIInv'
<1>1. ASSUME NEW e \in Event, Submit(e) PROVE GuidanceIInv'
  BY <1>1, SubmitStep
<1>2. ASSUME NEW e \in Event, DeliverAgain(e) PROVE GuidanceIInv'
  BY <1>2, DeliverAgainStep
<1>3. ASSUME NEW e \in Event, Expire(e) PROVE GuidanceIInv'
  BY <1>3 DEF Expire, GuidanceIInv, GuidanceTyped, QueueIsRemembered, JournalCatchesUp,
              Recorded, BeingWritten
<1>4. ASSUME NEW t \in WorkerTask, SafePoint(t) PROVE GuidanceIInv'
  BY <1>4, SafePointStep
<1>5. ASSUME NEW u \in upserts, JournalReads(u) PROVE GuidanceIInv'
  BY <1>5, JournalReadsStep
<1>6. ASSUME NEW u \in upserts, JournalWrites(u) PROVE GuidanceIInv'
  BY <1>6, JournalWritesStep
<1>7. CASE UNCHANGED guidanceVars
  BY <1>7 DEF guidanceVars, GuidanceIInv, GuidanceTyped, QueueIsRemembered, JournalCatchesUp,
              Recorded, BeingWritten
<1> QED
  BY <1>1, <1>2, <1>3, <1>4, <1>5, <1>6, <1>7 DEF GuidanceNext

LEMMA GuidanceStarts == GuidanceInit => GuidanceIInv
<1> SUFFICES ASSUME GuidanceInit PROVE GuidanceIInv
  OBVIOUS
<1>1. GuidanceTyped
  BY DEF GuidanceInit, GuidanceTyped, Entry, Verdict
<1>2. QueueIsRemembered /\ JournalCatchesUp
  BY DEF GuidanceInit, QueueIsRemembered, JournalCatchesUp
<1> QED
  BY <1>1, <1>2 DEF GuidanceIInv

LEMMA GuidanceImplied == GuidanceIInv => GuidanceInv
<1> SUFFICES ASSUME GuidanceIInv PROVE GuidanceInv
  OBVIOUS
<1>0. GuidanceTyped /\ QueueIsRemembered /\ JournalCatchesUp
  BY DEF GuidanceIInv
<1>1. GuidanceTypeOK
  <2>1. \A u \in upserts : u.event \in Event /\ u.read \in {Unread, submissions} \cup [Event -> Verdict]
    <3> SUFFICES ASSUME NEW u \in upserts
                 PROVE  u.event \in Event /\ u.read \in {Unread, submissions} \cup [Event -> Verdict]
      OBVIOUS
    <3>1. u.event \in Event /\ u.read \in {Unread} \cup [Event -> Entry]
      BY <1>0 DEF GuidanceTyped, UpsertRecord
    <3>2. [Event -> Entry] \subseteq [Event -> Verdict]
      BY DEF Entry
    <3> QED
      BY <3>1, <3>2
  <2>2. waiting \subseteq Event /\ applied \subseteq Event /\ refused \subseteq Event
    BY <1>0 DEF GuidanceTyped, QueueIsRemembered
  <2> QED
    BY <1>0, <2>1, <2>2 DEF GuidanceTypeOK, GuidanceTyped, Entry
<1>2. AppliedOnce
  BY <1>0 DEF AppliedOnce, QueueIsRemembered
<1>3. QuietJournalIsCurrent
  BY <1>0 DEF QuietJournalIsCurrent, JournalCatchesUp, Recorded, BeingWritten
<1> QED
  BY <1>1, <1>2, <1>3 DEF GuidanceInv

-----------------------------------------------------------------------------
(* Proof about changes.                                                     *)

\* A change decided for the first time is entered once, under a revision of its own.
LEMMA FirstDelivery ==
    ASSUME GuidanceChangesAssumption, NEW s \in ChangeState, Consistent(s), NEW d \in Delivery,
           ~IsDecided(s, d)
    PROVE  /\ Evaluated(s, d) \in ChangeState /\ Consistent(Evaluated(s, d))
           /\ IsDecided(Evaluated(s, d), d) /\ s.decided \subseteq Evaluated(s, d).decided
<1> DEFINE t == TargetOf[d[1]]
           v == VerdictOn(s, d)
           r == s.revision[t]
           entry == [task |-> t, revision |-> r + 1, by |-> d]
           decision == [delivery |-> d, status |-> v]
           e == Evaluated(s, d)
<1>1. t \in GuidedTask /\ v \in {"accepted", "rejected", "needs-clarification"}
  BY DEF GuidanceChangesAssumption, Delivery, VerdictOn
<1>2. /\ s.revision \in [GuidedTask -> Nat \ {0}] /\ s.history \subseteq ChangeEntry
      /\ s.decided \subseteq ChangeDecision
  BY DEF ChangeState
<1>3. r \in Nat \ {0}
  BY <1>1, <1>2
<1>4. entry \in ChangeEntry /\ entry.task = t /\ entry.revision = r + 1 /\ entry.by = d
  BY <1>1, <1>3 DEF ChangeEntry
<1>5. decision \in ChangeDecision /\ decision.delivery = d /\ decision.status = v
  BY <1>1 DEF ChangeDecision
<1>6. \A x \in s.decided : x.delivery # d
  BY DEF IsDecided
<1>7. {x \in s.decided : x.delivery # d} = s.decided
  BY <1>6
<1>8. /\ e = [revision |-> IF v = "accepted" THEN [s.revision EXCEPT ![t] = @ + 1] ELSE s.revision,
              history  |-> IF v = "accepted" THEN s.history \cup {entry} ELSE s.history,
              decided  |-> s.decided \cup {decision}]
  BY <1>7 DEF Evaluated
<1>9. /\ e.decided = s.decided \cup {decision}
      /\ v = "accepted" => /\ e.revision = [s.revision EXCEPT ![t] = r + 1]
                           /\ e.history = s.history \cup {entry}
      /\ v # "accepted" => e.revision = s.revision /\ e.history = s.history
  BY <1>8, <1>1, <1>2
<1>10. e \in ChangeState
  <2>1. e.revision \in [GuidedTask -> Nat \ {0}] /\ e.history \subseteq ChangeEntry
    BY <1>1, <1>2, <1>3, <1>4, <1>9
  <2>2. e.decided \subseteq ChangeDecision
    BY <1>2, <1>5, <1>9
  <2>3. e = [revision |-> e.revision, history |-> e.history, decided |-> e.decided]
    BY <1>8
  <2> QED
    BY <2>1, <2>2, <2>3 DEF ChangeState
<1> HIDE DEF e, v, r, t, entry, decision
<1>11. \A h \in s.history : h.by # d /\ (h.revision # r + 1 \/ h.task # t)
  <2> SUFFICES ASSUME NEW h \in s.history PROVE h.by # d /\ (h.revision # r + 1 \/ h.task # t)
    OBVIOUS
  <2>1. h.by # d
    BY <1>6 DEF Consistent
  <2>2. h.task = t => h.revision \in 2..r
    BY <1>1 DEF Consistent, r
  <2> QED
    BY <1>3, <2>1, <2>2
<1>12. \A task \in GuidedTask :
          {h.revision : h \in {h \in e.history : h.task = task}} = 2..e.revision[task]
  <2> SUFFICES ASSUME NEW task \in GuidedTask
               PROVE  {h.revision : h \in {h \in e.history : h.task = task}} = 2..e.revision[task]
    OBVIOUS
  <2>0. {h.revision : h \in {h \in s.history : h.task = task}} = 2..s.revision[task]
    BY DEF Consistent
  <2>1. CASE v # "accepted" \/ task # t
    <3>1. {h \in e.history : h.task = task} = {h \in s.history : h.task = task}
      BY <1>4, <1>9, <2>1
    <3>2. e.revision[task] = s.revision[task]
      BY <1>2, <1>9, <2>1
    <3> QED
      BY <2>0, <3>1, <3>2
  <2>2. CASE v = "accepted" /\ task = t
    <3>1. {h \in e.history : h.task = task} = {h \in s.history : h.task = task} \cup {entry}
      BY <1>4, <1>9, <2>2
    <3>2. {h.revision : h \in {h \in e.history : h.task = task}}
             = {h.revision : h \in {h \in s.history : h.task = task}} \cup {r + 1}
      BY <1>4, <3>1
    <3>3. s.revision[task] = r /\ e.revision[task] = r + 1
      BY <1>1, <1>2, <1>9, <2>2 DEF r
    <3>4. (2..r) \cup {r + 1} = 2..(r + 1)
      BY <1>3
    <3> QED
      BY <2>0, <3>2, <3>3, <3>4
  <2> QED
    BY <2>1, <2>2
<1>13. \A h, g \in e.history :
          (h.task = g.task /\ h.revision = g.revision) \/ h.by = g.by => h = g
  BY <1>4, <1>9, <1>11 DEF Consistent
<1>14. \A h \in e.history : [delivery |-> h.by, status |-> "accepted"] \in e.decided
  BY <1>4, <1>9 DEF Consistent, decision
<1>15. \A x, y \in e.decided : x.delivery = y.delivery => x = y
  BY <1>5, <1>6, <1>9 DEF Consistent
<1>16. Consistent(e)
  BY <1>12, <1>13, <1>14, <1>15 DEF Consistent
<1> QED
  BY <1>5, <1>9, <1>10, <1>16 DEF e, IsDecided

LEMMA AfterKeeps ==
    ASSUME GuidanceChangesAssumption, NEW s \in ChangeState, Consistent(s), NEW d \in Delivery
    PROVE  /\ After(s, d) \in ChangeState /\ Consistent(After(s, d))
           /\ IsDecided(After(s, d), d) /\ s.decided \subseteq After(s, d).decided
BY FirstDelivery DEF After

LEMMA ApplyChangeStep ==
    ASSUME ChangesIInv, GuidanceChangesAssumption, NEW d \in Delivery, ApplyChange(d)
    PROVE  ChangesIInv'
<1> DEFINE after == After(memory, d)
<1>1. /\ memory' = after /\ writes' = writes \cup {[state |-> after, delivery |-> d]}
      /\ UNCHANGED <<file, told, outrun>>
  BY DEF ApplyChange
<1>2. /\ after \in ChangeState /\ Consistent(after)
      /\ IsDecided(after, d) /\ memory.decided \subseteq after.decided
  BY AfterKeeps DEF ChangesIInv, ChangesTyped, ChangesAreConsistent
<1> HIDE DEF after
<1>3. ChangesTyped'
  BY <1>1, <1>2 DEF ChangesIInv, ChangesTyped
<1>4. SnapshotsAreOld'
  BY <1>1, <1>2 DEF ChangesIInv, SnapshotsAreOld
<1>5. FileIsOld'
  BY <1>1, <1>2 DEF ChangesIInv, FileIsOld
<1>6. ChangesAreConsistent'
  BY <1>1, <1>2 DEF ChangesIInv, ChangesAreConsistent, Consistent
<1> QED
  BY <1>3, <1>4, <1>5, <1>6 DEF ChangesIInv

\* A write that is not overtaken tells its caller what the file now says.
LEMMA LandsStep ==
    ASSUME ChangesIInv, NEW w \in writes, Lands(w)
    PROVE  ChangesIInv'
<1> DEFINE x == Decision(w.state, w.delivery)
<1>1. /\ writes' = writes \ {w} /\ file' = w.state /\ memory' = memory
      /\ outrun' = (outrun \/ ~(file.decided \subseteq w.state.decided))
      /\ told' = told \cup {[delivery |-> w.delivery, status |-> x.status]}
  BY DEF Lands
<1>2. w.state \in ChangeState /\ Consistent(w.state)
  BY DEF ChangesIInv, ChangesTyped, ChangesAreConsistent
<1>3. IsDecided(w.state, w.delivery) /\ w.state.decided \subseteq memory.decided
  BY DEF ChangesIInv, SnapshotsAreOld
<1>4. x \in w.state.decided /\ x.delivery = w.delivery
  BY <1>3 DEF Decision, IsDecided
<1>5. x \in ChangeDecision
  BY <1>2, <1>4 DEF ChangeState
<1>6. [delivery |-> w.delivery, status |-> x.status] = x
  BY <1>4, <1>5 DEF ChangeDecision
<1> HIDE DEF x
<1>7. ChangesTyped'
  BY <1>1, <1>2 DEF ChangesIInv, ChangesTyped
<1>8. SnapshotsAreOld'
  BY <1>1 DEF ChangesIInv, SnapshotsAreOld
<1>9. FileIsOld'
  BY <1>1, <1>3, <1>4, <1>6 DEF ChangesIInv, FileIsOld
<1>10. ChangesAreConsistent'
  BY <1>1, <1>2 DEF ChangesIInv, ChangesAreConsistent, Consistent
<1> QED
  BY <1>7, <1>8, <1>9, <1>10 DEF ChangesIInv

LEMMA ChangesStep ==
    ASSUME ChangesIInv, GuidanceChangesAssumption, [GuidanceChangesNext]_guidanceChangesVars
    PROVE  ChangesIInv'
<1>1. ASSUME NEW d \in Delivery, ApplyChange(d) PROVE ChangesIInv'
  BY <1>1, ApplyChangeStep
<1>2. ASSUME NEW w \in writes, Lands(w) PROVE ChangesIInv'
  BY <1>2, LandsStep
<1>3. CASE Restart
  <2>1. memory' = file /\ writes' = {} /\ UNCHANGED <<file, told, outrun>>
    BY <1>3 DEF Restart
  <2> QED
    BY <2>1 DEF ChangesIInv, ChangesTyped, SnapshotsAreOld, FileIsOld, ChangesAreConsistent, Consistent
<1>4. CASE UNCHANGED guidanceChangesVars
  BY <1>4 DEF guidanceChangesVars, ChangesIInv, ChangesTyped, SnapshotsAreOld, FileIsOld,
              ChangesAreConsistent, Consistent, IsDecided
<1> QED
  BY <1>1, <1>2, <1>3, <1>4 DEF GuidanceChangesNext

LEMMA ChangesStart == GuidanceChangesInit => ChangesIInv
<1> SUFFICES ASSUME GuidanceChangesInit PROVE ChangesIInv
  OBVIOUS
<1>1. /\ memory = NoState /\ file = NoState /\ writes = {} /\ told = {} /\ outrun = FALSE
  BY DEF GuidanceChangesInit
<1>2. /\ NoState.revision = [t \in GuidedTask |-> 1] /\ NoState.history = {} /\ NoState.decided = {}
  BY DEF NoState
<1>3. NoState \in ChangeState
  BY DEF NoState, ChangeState
<1>4. Consistent(NoState)
  <2>1. \A t \in GuidedTask : NoState.revision[t] = 1
    BY <1>2
  <2>2. 2..1 = {}
    OBVIOUS
  <2> QED
    BY <1>2, <2>1, <2>2 DEF Consistent
<1>5. ChangesTyped /\ SnapshotsAreOld
  BY <1>1, <1>3 DEF ChangesTyped, SnapshotsAreOld
<1>6. FileIsOld
  BY <1>1 DEF FileIsOld
<1>7. ChangesAreConsistent
  BY <1>1, <1>4 DEF ChangesAreConsistent, Consistent
<1> QED
  BY <1>5, <1>6, <1>7 DEF ChangesIInv

LEMMA ChangesImplied == ChangesIInv => ChangesInv
BY DEF ChangesIInv, ChangesInv, FileIsOld, ToldStaysDecided

-----------------------------------------------------------------------------
(* Proof about long tools.                                                  *)

LEMMA Smallest ==
    ASSUME NEW S \in SUBSET Nat, S # {}
    PROVE  \E m \in S : \A n \in S : m <= n
<1>1. \E m \in S : \A n \in S : ~ (<<n, m>> \in OpToRel(<, Nat))
  BY WFMin, NatLessThanWellFounded, Zenon
<1>2. PICK m \in S : \A n \in S : ~ (<<n, m>> \in OpToRel(<, Nat))
  BY <1>1
<1>3. \A n \in S : ~(n < m)
  BY <1>2 DEF OpToRel
<1> QED
  BY <1>3

LEMMA RequestType ==
    ASSUME LongToolTyped, NEW i \in DOMAIN requests
    PROVE  requests[i] \in RequestRecord /\ i \in Nat /\ i \in 1..MaxRequests
<1>1. requests \in Seq(RequestRecord) /\ Len(requests) <= MaxRequests
  BY DEF LongToolTyped
<1> QED
  BY <1>1, LongToolAssumption DEF LongToolAssumption

\* A task with requests has a latest one.
LEMMA LatestExists ==
    ASSUME LongToolTyped, NEW t, OfTask(t) # {}
    PROVE  Latest(t) \in OfTask(t)
<1>1. \A i \in OfTask(t) : i \in Nat /\ requests[i].revision \in 1..MaxRevisionOf
  BY RequestType DEF OfTask, RequestRecord
<1>2. MaxRevisionOf \in Nat
  BY LongToolAssumption DEF LongToolAssumption
<1> DEFINE D == {MaxRevisionOf - requests[i].revision : i \in OfTask(t)}
<1>3. D \in SUBSET Nat /\ D # {}
  BY <1>1, <1>2
<1>4. PICK m \in D : \A n \in D : m <= n
  BY <1>3, Smallest
<1>5. PICK k \in OfTask(t) : m = MaxRevisionOf - requests[k].revision
  BY <1>4
<1>6. \A j \in OfTask(t) : requests[j].revision <= requests[k].revision
  <2> SUFFICES ASSUME NEW j \in OfTask(t) PROVE requests[j].revision <= requests[k].revision
    OBVIOUS
  <2>1. MaxRevisionOf - requests[k].revision <= MaxRevisionOf - requests[j].revision
    BY <1>4, <1>5
  <2> QED
    BY <1>1, <1>2, <2>1
<1> DEFINE T == {i \in OfTask(t) : requests[i].revision = requests[k].revision}
<1>7. T \in SUBSET Nat /\ T # {}
  BY <1>1
<1>8. PICK i \in T : \A j \in T : i <= j
  BY <1>7, Smallest
<1>9. \A j \in OfTask(t) : \/ requests[j].revision < requests[i].revision
                           \/ requests[j].revision = requests[i].revision /\ i <= j
  BY <1>1, <1>6, <1>8
<1> QED
  BY <1>8, <1>9 DEF Latest

\* Only the status of some requests changes, and none is delivered anew.
LEMMA AnswersKeep ==
    ASSUME LongToolIInv, NEW S \in SUBSET DOMAIN requests, NEW reply \in CancelStatus \ {"superseded"},
           requests' = [j \in DOMAIN requests |->
                           IF j \in S THEN [requests[j] EXCEPT !.status = reply] ELSE requests[j]],
           UNCHANGED <<epoch, completed, receipts>>,
           blocked' \subseteq (blocked \ S) \cup {j \in S : reply = "unknown-stop-outcome"}
    PROVE  LongToolIInv'
<1>0. LongToolTyped /\ DeliveredOnce /\ OneStands
  BY DEF LongToolIInv
<1>1. \A j \in DOMAIN requests : requests[j] \in RequestRecord
  BY <1>0, RequestType
<1>2. /\ DOMAIN requests' = DOMAIN requests
      /\ \A j \in DOMAIN requests :
            /\ requests'[j] \in RequestRecord
            /\ requests'[j].call = requests[j].call /\ requests'[j].delivered = requests[j].delivered
            /\ requests'[j].status = IF j \in S THEN reply ELSE requests[j].status
  BY <1>1 DEF RequestRecord
<1>3. requests' \in Seq(RequestRecord) /\ Len(requests') = Len(requests)
  <2>1. DOMAIN requests = 1..Len(requests) /\ Len(requests) \in Nat
    BY <1>0 DEF LongToolTyped
  <2> QED
    BY <1>2, <2>1
<1>4. LongToolTyped'
  BY <1>0, <1>3 DEF LongToolTyped
<1>5. DeliveredOnce'
  BY <1>0, <1>2 DEF DeliveredOnce, CancellationStatus
<1>6. OneStands'
  BY <1>0, <1>2 DEF OneStands
<1> QED
  BY <1>4, <1>5, <1>6 DEF LongToolIInv

\* A new request, of a task one of whose requests it stands for or which gets its first.
LEMMA RequestCancelStep ==
    ASSUME LongToolIInv, NEW c \in ToolCall, NEW r \in 1..MaxRevisionOf, RequestCancel(c, r)
    PROVE  LongToolIInv'
<1> DEFINE new == [call |-> c, epoch |-> epoch[c], revision |-> r, status |-> "requested",
                   delivered |-> FALSE, from |-> 0]
           n == Len(requests)
<1>0. LongToolTyped /\ DeliveredOnce /\ OneStands
  BY DEF LongToolIInv
<1>1. /\ n < MaxRequests /\ requests' = Append(requests, new)
      /\ UNCHANGED <<epoch, completed, blocked, receipts>>
  BY DEF RequestCancel
<1>2. new \in RequestRecord /\ new.call = c /\ new.status = "requested" /\ ~new.delivered
  BY <1>0 DEF RequestRecord, CancelStatus, LongToolTyped
<1> HIDE DEF new
<1>3. requests \in Seq(RequestRecord) /\ n \in Nat /\ MaxRequests \in Nat
  BY <1>0, LongToolAssumption DEF LongToolTyped, LongToolAssumption
<1>4. /\ requests' \in Seq(RequestRecord) /\ Len(requests') = n + 1
      /\ DOMAIN requests' = DOMAIN requests \cup {n + 1} /\ n + 1 \notin DOMAIN requests
      /\ requests'[n + 1] = new /\ \A i \in DOMAIN requests : requests'[i] = requests[i]
  BY <1>1, <1>2, <1>3
<1>5. LongToolTyped'
  BY <1>0, <1>1, <1>3, <1>4 DEF LongToolTyped
<1>6. DeliveredOnce'
  <2>1. n + 1 \in 1..MaxRequests /\ receipts[n + 1] = 0
    BY <1>0, <1>1, <1>3 DEF LongToolTyped
  <2> QED
    BY <1>0, <1>1, <1>2, <1>4, <2>1 DEF DeliveredOnce, CancellationStatus
<1>7. OneStands'
  BY <1>0, <1>2, <1>4 DEF OneStands
<1> QED
  BY <1>5, <1>6, <1>7 DEF LongToolIInv

LEMMA CheckpointStep ==
    ASSUME LongToolIInv, NEW c \in ToolCall, Checkpoint(c)
    PROVE  LongToolIInv'
<1> DEFINE S == Due(c)
<1>0. LongToolTyped /\ DeliveredOnce /\ OneStands
  BY DEF LongToolIInv
<1>1. /\ requests' = [i \in DOMAIN requests |->
                         IF i \in S THEN [requests[i] EXCEPT !.delivered = TRUE] ELSE requests[i]]
      /\ receipts' = [i \in DOMAIN receipts |-> receipts[i] + IF i \in S THEN 1 ELSE 0]
      /\ UNCHANGED <<epoch, completed, blocked>>
  BY DEF Checkpoint
<1>2. S \subseteq DOMAIN requests /\ \A i \in S : ~requests[i].delivered
  BY DEF Due, Of
<1> HIDE DEF S
<1>3. \A i \in DOMAIN requests : requests[i] \in RequestRecord /\ i \in 1..MaxRequests
  BY <1>0, RequestType
<1>4. /\ DOMAIN requests' = DOMAIN requests
      /\ \A i \in DOMAIN requests :
            /\ requests'[i] \in RequestRecord
            /\ requests'[i].call = requests[i].call /\ requests'[i].status = requests[i].status
            /\ requests'[i].delivered <=> i \in S \/ requests[i].delivered
  BY <1>1, <1>3 DEF RequestRecord
<1>5. requests' \in Seq(RequestRecord) /\ Len(requests') = Len(requests)
  <2>1. DOMAIN requests = 1..Len(requests) /\ Len(requests) \in Nat
    BY <1>0 DEF LongToolTyped
  <2> QED
    BY <1>1, <1>4, <2>1
<1>6. /\ receipts' \in [1..MaxRequests -> Nat]
      /\ \A i \in 1..MaxRequests : receipts'[i] = receipts[i] + IF i \in S THEN 1 ELSE 0
  BY <1>0, <1>1 DEF LongToolTyped
<1>7. \A i \in S : i \in 1..MaxRequests /\ receipts[i] = 0 /\ i <= Len(requests)
  <2> SUFFICES ASSUME NEW i \in S PROVE i \in 1..MaxRequests /\ receipts[i] = 0 /\ i <= Len(requests)
    OBVIOUS
  <2>1. i \in 1..MaxRequests /\ ~requests[i].delivered /\ i \in DOMAIN requests
    BY <1>2, <1>3
  <2>2. receipts[i] \in Nat /\ receipts[i] <= 1 /\ receipts[i] # 1
    BY <1>0, <2>1 DEF DeliveredOnce, LongToolTyped
  <2> QED
    BY <1>0, <2>1, <2>2 DEF LongToolTyped
<1>8. LongToolTyped'
  <2>1. \A i \in 1..MaxRequests : i > Len(requests) => i \notin S
    BY <1>7
  <2> QED
    BY <1>0, <1>1, <1>5, <1>6, <2>1 DEF LongToolTyped
<1>9. DeliveredOnce'
  <2>1. DOMAIN receipts' = 1..MaxRequests /\ DOMAIN receipts = 1..MaxRequests
    BY <1>0, <1>6 DEF LongToolTyped
  <2>2. \A i \in DOMAIN receipts' : receipts'[i] <= 1
    BY <1>0, <1>6, <1>7, <2>1 DEF DeliveredOnce, LongToolTyped
  <2>3. \A i \in DOMAIN requests' : requests'[i].delivered <=> receipts'[i] = 1
    <3> SUFFICES ASSUME NEW i \in DOMAIN requests
                 PROVE  requests'[i].delivered <=> receipts'[i] = 1
      BY <1>4
    <3>1. i \in 1..MaxRequests /\ receipts[i] \in Nat /\ (requests[i].delivered <=> receipts[i] = 1)
      BY <1>0, <1>3 DEF DeliveredOnce, LongToolTyped
    <3>2. CASE i \in S
      BY <1>4, <1>6, <1>7, <3>1, <3>2
    <3>3. CASE i \notin S
      BY <1>4, <1>6, <3>1, <3>3
    <3> QED
      BY <3>2, <3>3
  <2>4. blocked' \subseteq {i \in DOMAIN requests' : CancellationStatus(i)' = "unknown-stop-outcome"}
    BY <1>0, <1>1, <1>4 DEF DeliveredOnce, CancellationStatus
  <2> QED
    BY <2>2, <2>3, <2>4 DEF DeliveredOnce
<1>10. OneStands'
  BY <1>0, <1>4 DEF OneStands
<1> QED
  BY <1>8, <1>9, <1>10 DEF LongToolIInv

\* What is superseded or overwritten is replaced by a request of the same task.
LEMMA ConvergeStep ==
    ASSUME LongToolIInv, NEW t, NEW r \in 1..MaxRevisionOf, Converge(t, r)
    PROVE  LongToolIInv'
<1> DEFINE older == {i \in OfTask(t) : CancellationStatus(i) # "superseded" /\ requests[i].revision < r}
           kept == [i \in DOMAIN requests |->
                       IF i \in older THEN [requests[i] EXCEPT !.status = "superseded"] ELSE requests[i]]
           last == requests[Latest(t)]
           new == [last EXCEPT !.revision = r, !.status = "requested", !.delivered = FALSE,
                               !.from = Latest(t)]
           same == Namesakes(t, r)
           n == Len(requests)
<1>0. LongToolTyped /\ DeliveredOnce /\ OneStands
  BY DEF LongToolIInv
<1>1. /\ older # {} /\ blocked' = blocked \ (older \cup same)
      /\ receipts' = [i \in DOMAIN receipts |-> IF i \in same THEN 0 ELSE receipts[i]]
      /\ \/ same = {} /\ n < MaxRequests /\ requests' = Append(kept, new)
         \/ /\ same # {}
            /\ requests' = [i \in DOMAIN requests |-> IF i \in same THEN new ELSE kept[i]]
      /\ UNCHANGED <<epoch, completed>>
  BY DEF Converge
<1>2. /\ older \subseteq DOMAIN requests /\ \A i \in older : ToolTaskOf[requests[i].call] = t
      /\ same \subseteq DOMAIN requests /\ \A i \in same : ToolTaskOf[requests[i].call] = t
  BY DEF OfTask, Namesakes
<1>3. Latest(t) \in DOMAIN requests /\ ToolTaskOf[last.call] = t
  <2>1. OfTask(t) # {}
    BY <1>1
  <2>2. Latest(t) \in OfTask(t)
    BY <1>0, <2>1, LatestExists
  <2> QED
    BY <2>2 DEF OfTask
<1>4. last \in RequestRecord /\ \A i \in DOMAIN requests : requests[i] \in RequestRecord
  BY <1>0, <1>3, RequestType
<1>7. requests \in Seq(RequestRecord) /\ n \in Nat /\ MaxRequests \in Nat /\ DOMAIN requests = 1..n
  BY <1>0, LongToolAssumption DEF LongToolTyped, LongToolAssumption
<1> HIDE DEF older, last, same
<1>5. new \in RequestRecord /\ new.call = last.call /\ new.status = "requested" /\ ~new.delivered
  <2>0. Latest(t) \in Nat
    BY <1>3, <1>7
  <2>1. new \in RequestRecord
    BY <1>4, <2>0 DEF RequestRecord, CancelStatus
  <2>2. new.call = last.call /\ new.status = "requested" /\ new.delivered = FALSE
    BY <1>4 DEF RequestRecord
  <2> QED
    BY <2>1, <2>2
<1>6. \A i \in DOMAIN requests :
         /\ kept[i] \in RequestRecord /\ kept[i].call = requests[i].call
         /\ kept[i].delivered = requests[i].delivered
         /\ kept[i].status = IF i \in older THEN "superseded" ELSE requests[i].status
  BY <1>4 DEF RequestRecord, CancelStatus
<1>8. kept \in Seq(RequestRecord) /\ Len(kept) = n
  <2>1. kept = [i \in 1..n |-> kept[i]]
    BY <1>7
  <2> HIDE DEF kept
  <2>2. \A i \in 1..n : kept[i] \in RequestRecord
    BY <1>6, <1>7
  <2> HIDE DEF n
  <2> QED
    BY <1>7, <2>1, <2>2
<1> HIDE DEF kept, new
<1>9. PICK m \in Nat :
         /\ n <= m /\ m <= MaxRequests
         /\ requests' \in Seq(RequestRecord) /\ Len(requests') = m /\ DOMAIN requests' = 1..m
         /\ \A i \in 1..m : requests'[i] = IF i \in DOMAIN requests \ same THEN kept[i] ELSE new
         /\ \E i \in 1..m : i \notin DOMAIN requests \ same
  <2>1. CASE same = {} /\ n < MaxRequests /\ requests' = Append(kept, new)
    <3>1. /\ requests' \in Seq(RequestRecord) /\ Len(requests') = n + 1
          /\ DOMAIN requests' = 1..(n + 1) /\ n + 1 \notin DOMAIN requests
          /\ requests'[n + 1] = new /\ \A i \in DOMAIN requests : requests'[i] = kept[i]
      BY <1>5, <1>7, <1>8, <2>1
    <3>2. \A i \in 1..(n + 1) : i \in DOMAIN requests \/ i = n + 1
      BY <1>7
    <3> HIDE DEF n
    <3>3. n + 1 \in 1..(n + 1) /\ n + 1 \in Nat /\ n <= n + 1 /\ n + 1 <= MaxRequests
      BY <1>7, <2>1
    <3> QED
      BY <2>1, <3>1, <3>2, <3>3
  <2>2. CASE /\ same # {}
             /\ requests' = [i \in DOMAIN requests |-> IF i \in same THEN new ELSE kept[i]]
    <3>1. \A i \in DOMAIN requests : (IF i \in same THEN new ELSE kept[i]) \in RequestRecord
      BY <1>5, <1>6
    <3>2. requests' \in Seq(RequestRecord) /\ Len(requests') = n /\ DOMAIN requests' = 1..n
      <4> HIDE DEF n
      <4> QED
        BY <1>7, <2>2, <3>1
    <3>3. \A i \in 1..n : requests'[i] = IF i \in DOMAIN requests \ same THEN kept[i] ELSE new
      BY <1>7, <2>2
    <3>4. n <= MaxRequests /\ \E i \in 1..n : i \notin DOMAIN requests \ same
      BY <1>0, <1>2, <1>7, <2>2 DEF LongToolTyped
    <3> HIDE DEF n
    <3> QED
      BY <1>7, <3>2, <3>3, <3>4
  <2> QED
    BY <1>1, <2>1, <2>2
<1>10. /\ receipts' \in [1..MaxRequests -> Nat]
       /\ \A i \in 1..MaxRequests : receipts'[i] = IF i \in same THEN 0 ELSE receipts[i]
  BY <1>0, <1>1 DEF LongToolTyped
<1>11. LongToolTyped'
  <2>1. \A i \in 1..MaxRequests : i > Len(requests') => receipts'[i] = 0
    BY <1>0, <1>7, <1>9, <1>10 DEF LongToolTyped
  <2> QED
    BY <1>0, <1>1, <1>7, <1>9, <1>10, <2>1 DEF LongToolTyped
<1>12. DeliveredOnce'
  <2>1. \A i \in DOMAIN receipts' : receipts'[i] <= 1
    BY <1>0, <1>10 DEF DeliveredOnce, LongToolTyped
  <2>2. \A i \in blocked' : i \in DOMAIN requests \ same /\ kept[i].status = "unknown-stop-outcome"
    BY <1>0, <1>1, <1>6 DEF DeliveredOnce, CancellationStatus
  <2>3. \A i \in blocked' : i \in 1..m /\ requests'[i].status = "unknown-stop-outcome"
    <3>1. 1..n \subseteq 1..m
      BY <1>7, <1>9
    <3> QED
      BY <1>7, <1>9, <2>2, <3>1
  <2>4. ASSUME NEW i \in 1..m PROVE requests'[i].delivered <=> receipts'[i] = 1
    <3>0. i \in 1..MaxRequests /\ i \in Nat
      BY <1>7, <1>9
    <3>1. CASE i \in DOMAIN requests \ same
      BY <1>0, <1>6, <1>9, <1>10, <3>0, <3>1 DEF DeliveredOnce
    <3>2. CASE i \in same
      BY <1>5, <1>9, <1>10, <3>0, <3>2
    <3>3. CASE i \notin DOMAIN requests /\ i \notin same
      <4>1. receipts[i] = 0
        BY <1>0, <1>7, <3>0, <3>3 DEF LongToolTyped
      <4> QED
        BY <1>5, <1>9, <1>10, <3>0, <3>3, <4>1
    <3> QED
      BY <3>1, <3>2, <3>3
  <2> QED
    BY <1>9, <2>1, <2>3, <2>4 DEF DeliveredOnce, CancellationStatus
<1>13. OneStands'
  <2> SUFFICES ASSUME NEW i \in 1..m
               PROVE  \E j \in 1..m :
                         /\ ToolTaskOf[requests'[j].call] = ToolTaskOf[requests'[i].call]
                         /\ requests'[j].status # "superseded"
    BY <1>9 DEF OneStands
  <2>1. CASE ToolTaskOf[requests'[i].call] = t
    BY <1>3, <1>5, <1>9, <2>1
  <2>2. CASE ToolTaskOf[requests'[i].call] # t
    <3>1. i \in DOMAIN requests \ same /\ requests'[i].call = requests[i].call
      BY <1>3, <1>5, <1>6, <1>9, <2>2
    <3>2. PICK j \in DOMAIN requests : /\ ToolTaskOf[requests[j].call] = ToolTaskOf[requests[i].call]
                                       /\ requests[j].status # "superseded"
      BY <1>0, <3>1 DEF OneStands
    <3>3. j \notin older /\ j \in 1..m
      BY <1>2, <1>7, <1>9, <2>2, <3>1, <3>2
    <3>4. j \notin same
      BY <1>2, <2>2, <3>1, <3>2
    <3> QED
      BY <1>6, <1>9, <3>1, <3>2, <3>3, <3>4
  <2> QED
    BY <2>1, <2>2
<1> QED
  BY <1>11, <1>12, <1>13 DEF LongToolIInv

LEMMA LongToolStep ==
    ASSUME LongToolIInv, [LongToolNext]_longToolVars
    PROVE  LongToolIInv'
<1>0. LongToolTyped /\ DeliveredOnce /\ OneStands
  BY DEF LongToolIInv
<1>1. ASSUME NEW c \in ToolCall, Begin(c) PROVE LongToolIInv'
  <2>1. /\ epoch' = [epoch EXCEPT ![c] = @ + 1] /\ completed' = [completed EXCEPT ![c] = FALSE]
        /\ UNCHANGED <<requests, blocked, receipts>>
    BY <1>1 DEF Begin
  <2>2. LongToolTyped'
    BY <1>0, <2>1 DEF LongToolTyped
  <2> QED
    BY <1>0, <2>1, <2>2 DEF LongToolIInv, DeliveredOnce, OneStands, CancellationStatus
<1>2. ASSUME NEW c \in ToolCall, Checkpoint(c) PROVE LongToolIInv'
  BY <1>2, CheckpointStep
<1>3. ASSUME NEW c \in ToolCall, NEW r \in 1..MaxRevisionOf, RequestCancel(c, r) PROVE LongToolIInv'
  BY <1>3, RequestCancelStep
<1>4. ASSUME NEW c \in ToolCall, NEW e \in 1..MaxEpoch, DeclareCompletion(c, e) PROVE LongToolIInv'
  <2>1. completed' = [completed EXCEPT ![c] = TRUE] /\ UNCHANGED <<epoch, requests, blocked, receipts>>
    BY <1>4 DEF DeclareCompletion
  <2>2. LongToolTyped'
    BY <1>0, <2>1 DEF LongToolTyped
  <2> QED
    BY <1>0, <2>1, <2>2 DEF LongToolIInv, DeliveredOnce, OneStands, CancellationStatus
<1>5. ASSUME NEW i \in DOMAIN requests,
             NEW reply \in {"acknowledged-stopped", "acknowledged-completed"}, Acknowledge(i, reply)
      PROVE  LongToolIInv'
  <2>1. /\ requests' = [requests EXCEPT ![i].status = reply] /\ blocked' = blocked \ {i}
        /\ UNCHANGED <<epoch, completed, receipts>>
    BY <1>5 DEF Acknowledge
  <2>2. requests' = [j \in DOMAIN requests |->
                        IF j \in {i} THEN [requests[j] EXCEPT !.status = reply] ELSE requests[j]]
    BY <2>1, <1>0 DEF LongToolTyped
  <2>3. reply \in CancelStatus \ {"superseded"} /\ {i} \in SUBSET DOMAIN requests
    BY DEF CancelStatus
  <2> QED
    BY <2>1, <2>2, <2>3, AnswersKeep
<1>6. ASSUME NEW i \in DOMAIN requests, StopOutcomeUnknown(i) PROVE LongToolIInv'
  <2>0. PICK reply \in CancelStatus : reply = "unknown-stop-outcome"
    BY DEF CancelStatus
  <2>1. /\ requests' = [requests EXCEPT ![i].status = reply] /\ blocked' = blocked \cup {i}
        /\ UNCHANGED <<epoch, completed, receipts>> /\ CancellationStatus(i) = "requested"
    BY <1>6, <2>0 DEF StopOutcomeUnknown
  <2>2. requests' = [j \in DOMAIN requests |->
                        IF j \in {i} THEN [requests[j] EXCEPT !.status = reply] ELSE requests[j]]
    BY <2>1, <1>0 DEF LongToolTyped
  <2>3. i \notin blocked
    BY <1>0, <2>1 DEF DeliveredOnce
  <2>4. blocked' \subseteq (blocked \ {i}) \cup {j \in {i} : reply = "unknown-stop-outcome"}
    BY <2>0, <2>1, <2>3
  <2>5. reply \in CancelStatus \ {"superseded"} /\ {i} \in SUBSET DOMAIN requests
    BY <2>0
  <2> QED
    BY <2>1, <2>2, <2>4, <2>5, AnswersKeep
<1>7. ASSUME NEW c \in ToolCall, NEW r \in 1..MaxRevisionOf, Converge(ToolTaskOf[c], r)
      PROVE  LongToolIInv'
  BY <1>7, ConvergeStep
<1>8. CASE UNCHANGED longToolVars
  BY <1>0, <1>8 DEF longToolVars, LongToolIInv, LongToolTyped, DeliveredOnce, OneStands, CancellationStatus
<1> QED
  BY <1>1, <1>2, <1>3, <1>4, <1>5, <1>6, <1>7, <1>8 DEF LongToolNext

LEMMA LongToolStarts == LongToolInit => LongToolIInv
<1> SUFFICES ASSUME LongToolInit PROVE LongToolIInv
  OBVIOUS
<1>1. MaxRequests \in Nat
  BY LongToolAssumption DEF LongToolAssumption
<1>2. <<>> \in Seq(RequestRecord)
  OBVIOUS
<1>3. LongToolTyped
  BY <1>1, <1>2 DEF LongToolInit, LongToolTyped
<1>4. DeliveredOnce /\ OneStands
  BY <1>1 DEF LongToolInit, DeliveredOnce, OneStands
<1> QED
  BY <1>3, <1>4 DEF LongToolIInv

LEMMA LongToolImplied == LongToolIInv => LongToolInv
<1> SUFFICES ASSUME LongToolIInv, NEW c \in ToolCall, NEW r \in 1..MaxRevisionOf,
                    MayResume(ToolTaskOf[c], r), OfTask(ToolTaskOf[c]) # {}
             PROVE  \E i \in OfTask(ToolTaskOf[c]) : CancellationStatus(i) = "acknowledged-completed"
  BY DEF LongToolIInv, LongToolInv, ResumeIsSettled
<1>1. PICK i \in DOMAIN requests : ToolTaskOf[requests[i].call] = ToolTaskOf[c]
  BY DEF OfTask
<1>2. PICK j \in DOMAIN requests : /\ ToolTaskOf[requests[j].call] = ToolTaskOf[c]
                                   /\ requests[j].status # "superseded"
  BY <1>1 DEF LongToolIInv, OneStands
<1>3. j \in OfTask(ToolTaskOf[c])
  BY <1>2 DEF OfTask
<1>4. requests[j].status \in CancelStatus
  BY RequestType DEF LongToolIInv, RequestRecord
<1> QED
  BY <1>2, <1>3, <1>4 DEF MayResume, CancellationStatus, CancelStatus

-----------------------------------------------------------------------------
(* Theorems.                                                                *)

\* However events are delivered, superseded, expired and journalled, changes written and
\* read back, and requests superseded: guidance is put before a model once, changes stay as
\* they were decided, and a task resumes only when its requests to cancel are settled.
THEOREM GuidanceIsSound == RuntimeGuidanceSpec => []RuntimeGuidanceInv
<1>1. GuidanceSpec => []GuidanceInv
  <2>1. GuidanceInit => GuidanceIInv
    BY GuidanceStarts
  <2>2. GuidanceIInv /\ [GuidanceNext]_guidanceVars => GuidanceIInv'
    BY GuidanceAssumption, GuidanceStep
  <2>3. GuidanceIInv => GuidanceInv
    BY GuidanceImplied
  <2> QED
    BY <2>1, <2>2, <2>3, PTL DEF GuidanceSpec
<1>2. GuidanceChangesSpec => []ChangesInv
  <2>1. GuidanceChangesInit => ChangesIInv
    BY ChangesStart
  <2>2. ChangesIInv /\ [GuidanceChangesNext]_guidanceChangesVars => ChangesIInv'
    BY GuidanceChangesAssumption, ChangesStep
  <2>3. ChangesIInv => ChangesInv
    BY ChangesImplied
  <2> QED
    BY <2>1, <2>2, <2>3, PTL DEF GuidanceChangesSpec
<1>3. LongToolSpec => []LongToolInv
  <2>1. LongToolIInv /\ [LongToolNext]_longToolVars => LongToolIInv'
    BY LongToolStep
  <2> QED
    BY <2>1, LongToolStarts, LongToolImplied, PTL DEF LongToolSpec
<1>4. GuidanceInv /\ ChangesInv /\ LongToolInv <=> RuntimeGuidanceInv
  BY DEF RuntimeGuidanceInv
<1> QED
  BY <1>1, <1>2, <1>3, <1>4, PTL DEF RuntimeGuidanceSpec

\* An execution of a tool call is never declared complete while the outcome of a request to
\* stop that call is unknown, unless a successor that has the request's own identifier was
\* written over it (long-tool-checkpoint.ts:339-352).
THEOREM UnknownStopsBlock == LongToolSpec => UnknownBlocksCompletion
<1> DEFINE Blocks == \A c \in ToolCall :
                        completed'[c] /\ ~completed[c] => \A i \in blocked : requests[i].call # c
<1>1. LongToolIInv /\ [LongToolNext]_longToolVars => [Blocks]_longToolVars
  <2> SUFFICES ASSUME LongToolIInv, [LongToolNext]_longToolVars, NEW c \in ToolCall,
                      completed'[c], ~completed[c], NEW i \in blocked
               PROVE  requests[i].call # c
    OBVIOUS
  <2>1. completed \in [ToolCall -> BOOLEAN]
    BY DEF LongToolIInv, LongToolTyped
  <2>2. PICK d \in ToolCall, e \in 1..MaxEpoch : DeclareCompletion(d, e)
    BY <2>1 DEF LongToolNext, Begin, Checkpoint, RequestCancel, Acknowledge, StopOutcomeUnknown,
                Converge, longToolVars
  <2>3. Refusals(d) = {} /\ completed' = [completed EXCEPT ![d] = TRUE]
    BY <2>2 DEF DeclareCompletion
  <2>4. d = c
    BY <2>1, <2>3
  <2>5. i \in DOMAIN requests /\ CancellationStatus(i) = "unknown-stop-outcome"
    BY DEF LongToolIInv, DeliveredOnce
  <2> QED
    BY <2>3, <2>4, <2>5 DEF Refusals, Of
<1>2. LongToolIInv /\ [LongToolNext]_longToolVars => LongToolIInv'
  BY LongToolStep
<1> QED
  BY <1>1, <1>2, LongToolStarts, PTL DEF LongToolSpec, UnknownBlocksCompletion

-----------------------------------------------------------------------------
(* The summary.                                                            *)

SummaryPlace == {"idle", "archives", "draft", "extract", "narrate", "publish", "rename", "clear"}
Fact == [revision : Nat, item : Nat]
FactSet == {facts \in SUBSET Fact : IsFiniteSet(facts)}
ItemSet == {items \in SUBSET Nat : IsFiniteSet(items)}
DraftRecord == [facts : FactSet, narrated : BOOLEAN]
ManifestRecord == [revision : Nat, chunks : UNION {[items -> Nat] : items \in SUBSET Nat}]
SummaryRecord ==
    [at : SummaryPlace, listed : SUBSET DOMAIN Archives, items : ItemSet, base : ManifestRecord,
     old : DraftRecord, new : DraftRecord]

SummaryTypeOK ==
    /\ author \in Seq({Archives[n] : n \in DOMAIN Archives}) /\ written \subseteq DOMAIN author
    /\ manifest \in ManifestRecord /\ page \in ManifestRecord /\ draft \in DraftRecord
    /\ summarizer \in [Caller -> SummaryRecord]
    /\ \A c \in Caller : summarizer[c].items \subseteq written
    /\ torn \in BOOLEAN /\ overlapped \in BOOLEAN /\ barred \in BOOLEAN /\ stitched \in BOOLEAN

\* A manifest that was read is the present one, or its revision says that it is older.
IsEarlier(m) == m.revision <= manifest.revision /\ (m.revision = manifest.revision => m = manifest)

RevisionsTell ==
    ~overlapped =>
       /\ manifest.revision = 0 => manifest = NoManifest
       /\ ~stitched /\ IsEarlier(page)
       /\ \A c \in Caller : IsEarlier(summarizer[c].base)
       /\ \A c \in Caller : SummaryIs(c, "rename") => summarizer[c].base = manifest
       /\ \A c, d \in Caller : SummaryIs(c, "rename") /\ SummaryIs(d, "rename") => c = d

\* A fact that was drafted has the number of its item for its revision.
AreItems(facts, items) == \A f \in facts : f.revision = f.item /\ f.item \in items
Whole(items) == \A i \in items : 1..i \subseteq items

FactsAreItems == ~torn =>
    /\ ~barred /\ AreItems(draft.facts, written)
    /\ \A c \in Caller :
          /\ AreItems(summarizer[c].old.facts, written) /\ AreItems(summarizer[c].new.facts, written)
          /\ ~SummaryIs(c, "archives") => Whole(summarizer[c].items)

\* No revision before one of a draft is missing in the manifest and the draft.
Revisions(facts) == {f.revision : f \in facts}
Follows(facts, covered) == \A f \in facts : 1..f.revision \subseteq covered \cup Revisions(facts)

\* What a call has read and drafted fits what the manifest covers.
CallFits(call, covered) ==
    /\ Covered(call.base) \subseteq covered
    /\ Follows(call.old.facts, covered) /\ Follows(call.new.facts, covered)
    /\ call.at \in {"narrate", "publish", "rename"} =>
          call.items \subseteq Covered(call.base) \cup Revisions(call.new.facts)
    /\ call.at = "clear" => call.items \subseteq covered

ManifestIsWhole == (~torn /\ ~overlapped) =>
    /\ \A r \in Covered(manifest) : manifest.chunks[r] = r /\ r \in written
    /\ Whole(Covered(manifest))
    /\ Follows(draft.facts, Covered(manifest)) /\ summarized \subseteq Covered(manifest)
    /\ \A c \in Caller : CallFits(summarizer[c], Covered(manifest))

SummaryIInv == SummaryTypeOK /\ RevisionsTell /\ FactsAreItems /\ ManifestIsWhole

-----------------------------------------------------------------------------

\* Nothing read, nothing drafted and no call are values of their kinds.
LEMMA SummaryStart ==
    /\ NoManifest \in ManifestRecord /\ Covered(NoManifest) = {}
    /\ NoDraft \in DraftRecord /\ NoSummary \in SummaryRecord
<1>1. DOMAIN << >> = {} /\ << >> \in [{} -> Nat]
  OBVIOUS
<1>2. NoManifest \in ManifestRecord /\ Covered(NoManifest) = {}
  BY <1>1 DEF NoManifest, ManifestRecord, Covered
<1>3. {} \in FactSet /\ {} \in ItemSet
  BY FS_EmptySet DEF FactSet, ItemSet
<1>4. NoDraft \in DraftRecord
  BY <1>3 DEF NoDraft, DraftRecord
<1> QED
  BY <1>2, <1>3, <1>4 DEF NoSummary, SummaryRecord, SummaryPlace

\* The items in files are finitely many numbers from one on.
LEMMA WrittenIsFinite ==
  ASSUME SummaryTypeOK
  PROVE  IsFiniteSet(written) /\ written \subseteq Nat \ {0}
<1>1. Len(author) \in Nat /\ DOMAIN author = 1..Len(author)
  BY DEF SummaryTypeOK
<1>2. IsFiniteSet(1..Len(author))
  BY <1>1, FS_Interval
<1> QED
  BY <1>1, <1>2, FS_Subset DEF SummaryTypeOK

\* What a call makes of what it has read is a finite set of facts.
LEMMA EntriesAreFacts ==
  ASSUME NEW items \in ItemSet
  PROVE  Entries(items) \in FactSet
<1>1. \A i \in items : Cardinality({j \in items : j <= i}) \in Nat
  <2> SUFFICES ASSUME NEW i \in items PROVE Cardinality({j \in items : j <= i}) \in Nat
    OBVIOUS
  <2>1. {j \in items : j <= i} \in SUBSET items /\ IsFiniteSet(items)
    BY DEF ItemSet
  <2>2. IsFiniteSet({j \in items : j <= i})
    BY <2>1, FS_Subset
  <2> QED
    BY <2>2, FS_CardinalityType
<1>2. Entries(items) \subseteq Fact
  <2> SUFFICES ASSUME NEW f \in Entries(items) PROVE f \in Fact
    OBVIOUS
  <2>1. PICK i \in items : f = [revision |-> Cardinality({j \in items : j <= i}), item |-> i]
    BY DEF Entries
  <2>2. i \in Nat /\ Cardinality({j \in items : j <= i}) \in Nat
    BY <1>1 DEF ItemSet
  <2> QED
    BY <2>1, <2>2 DEF Fact
<1>3. IsFiniteSet(Entries(items))
  <2> DEFINE entry == [i \in items |-> [revision |-> Cardinality({j \in items : j <= i}), item |-> i]]
  <2>1. entry \in Surjection(items, Entries(items))
    BY DEF Surjection, Entries
  <2> QED
    BY <2>1, FS_Surjection DEF ItemSet
<1> QED
  BY <1>2, <1>3 DEF FactSet

\* In items with none missing before another, the entries are numbered by the items.
LEMMA WholeEntries ==
  ASSUME NEW items \in ItemSet, 0 \notin items, Whole(items)
  PROVE  Entries(items) = {[revision |-> i, item |-> i] : i \in items}
<1>1. \A i \in items : Cardinality({j \in items : j <= i}) = i
  <2> SUFFICES ASSUME NEW i \in items PROVE Cardinality({j \in items : j <= i}) = i
    OBVIOUS
  <2>1. i \in Nat /\ i # 0 /\ items \subseteq Nat
    BY DEF ItemSet
  <2>2. {j \in items : j <= i} = 1..i
    <3>1. 1..i \subseteq items /\ \A j \in 1..i : j <= i
      BY <2>1 DEF Whole
    <3>2. \A j \in items : j <= i => j \in 1..i
      BY <2>1
    <3> QED
      BY <3>1, <3>2
  <2>3. Cardinality(1..i) = i
    BY <2>1, FS_Interval
  <2> QED
    BY <2>2, <2>3
<1> QED
  BY <1>1 DEF Entries

\* What a call extracts, and what it publishes, are facts that were read or drafted.
LEMMA CallFacts ==
  ASSUME SummaryTypeOK, NEW c \in Caller
  PROVE  /\ summarizer[c] \in SummaryRecord
         /\ Extracted(c) \in FactSet /\ Facts(c) \in FactSet /\ Facts(c) \subseteq summarizer[c].new.facts
         /\ \A f \in Facts(c) : f.revision \notin Covered(summarizer[c].base)
<1>1. summarizer[c] \in SummaryRecord
  BY DEF SummaryTypeOK
<1>2. /\ summarizer[c].items \in ItemSet /\ summarizer[c].new.facts \in FactSet
  BY <1>1 DEF SummaryRecord, DraftRecord
<1>3. Entries(summarizer[c].items) \in FactSet
  BY <1>2, EntriesAreFacts
<1>4. \A whole \in FactSet : \A some \in SUBSET whole : some \in FactSet
  BY FS_Subset DEF FactSet
<1>5. Extracted(c) \subseteq Entries(summarizer[c].items)
  BY DEF Extracted
<1>6. Facts(c) \subseteq summarizer[c].new.facts /\ \A f \in Facts(c) : f.revision \notin Covered(summarizer[c].base)
  BY DEF Facts
<1> QED
  BY <1>1, <1>2, <1>3, <1>4, <1>5, <1>6

\* A manifest with facts appended covers theirs as well, and has a later revision.
LEMMA AppendedTypes ==
  ASSUME NEW m \in ManifestRecord, NEW facts \in FactSet
  PROVE  /\ Appended(m, facts) \in ManifestRecord
         /\ Covered(Appended(m, facts)) = Covered(m) \cup Revisions(facts)
         /\ Appended(m, facts) = m \/ m.revision < Appended(m, facts).revision
         /\ (m.revision = 0 => m = NoManifest) => Appended(m, facts).revision # 0
<1> DEFINE covered == Covered(m)
           items == covered \cup Revisions(facts)
           ItemOf(r) == (CHOOSE f \in facts : f.revision = r).item
           first == IF m = NoManifest THEN 1 ELSE m.revision
           chunks == [r \in items |-> IF r \in Revisions(facts) THEN ItemOf(r) ELSE m.chunks[r]]
           last == first + Cardinality(facts)
<1>1. Appended(m, facts) = [revision |-> last, chunks |-> chunks]
  BY DEF Appended, Revisions
<1>2. Cardinality(facts) \in Nat /\ (Cardinality(facts) = 0 => facts = {})
  BY FS_CardinalityType, FS_EmptySet DEF FactSet
<1>3. /\ m.revision \in Nat /\ m.chunks \in [covered -> Nat] /\ covered \in SUBSET Nat
      /\ m = [revision |-> m.revision, chunks |-> m.chunks]
  BY DEF ManifestRecord, Covered
<1>4. \A r \in Revisions(facts) : r \in Nat /\ ItemOf(r) \in Nat
  BY DEF Revisions, FactSet, Fact
<1>5. items \in SUBSET Nat /\ chunks \in [items -> Nat]
  BY <1>3, <1>4
<1>6. chunks \in UNION {[numbers -> Nat] : numbers \in SUBSET Nat}
  <2> HIDE DEF items, chunks
  <2> QED
    BY <1>5
<1>7. first \in Nat /\ last \in Nat /\ (m = NoManifest => first = 1) /\ (m # NoManifest => first = m.revision)
  BY <1>2, <1>3
<1>8. Appended(m, facts) \in ManifestRecord /\ Covered(Appended(m, facts)) = items
  <2> HIDE DEF items, chunks, last
  <2>1. [revision |-> last, chunks |-> chunks] \in ManifestRecord
    BY <1>6, <1>7 DEF ManifestRecord
  <2>2. DOMAIN chunks = items
    BY <1>5
  <2> QED
    BY <1>1, <2>1, <2>2 DEF Covered
<1>9. Appended(m, facts) = m \/ m.revision < Appended(m, facts).revision
  <2>1. CASE m = NoManifest \/ facts # {}
    <3>1. m.revision < last
      BY <1>2, <1>3, <1>7, <2>1 DEF NoManifest
    <3> QED
      BY <1>1, <3>1
  <2>2. CASE m # NoManifest /\ facts = {}
    <3>1. last = m.revision
      BY <1>2, <1>3, <1>7, <2>2, FS_EmptySet
    <3>2. chunks = m.chunks
      BY <1>3, <2>2 DEF Revisions
    <3> QED
      BY <1>1, <1>3, <3>1, <3>2
  <2> QED
    BY <2>1, <2>2
<1>10. (m.revision = 0 => m = NoManifest) => Appended(m, facts).revision # 0
  <2>1. (m.revision = 0 => m = NoManifest) => last # 0
    BY <1>2, <1>3, <1>7
  <2> HIDE DEF last
  <2> QED
    BY <1>1, <2>1
<1> QED
  BY <1>8, <1>9, <1>10

\* When facts have the numbers of their items, their chunks have them as well.
LEMMA AppendedItems ==
  ASSUME NEW m, NEW facts \in FactSet, NEW items, AreItems(facts, items)
  PROVE  /\ ~Contradictory(facts)
         /\ \A r \in Revisions(facts) : Appended(m, facts).chunks[r] = r /\ r \in items
         /\ \A r \in Covered(m) \ Revisions(facts) : Appended(m, facts).chunks[r] = m.chunks[r]
<1>1. \A f \in facts : f = [revision |-> f.revision, item |-> f.item] /\ f.revision = f.item /\ f.item \in items
  BY DEF AreItems, FactSet, Fact
<1>2. ~Contradictory(facts)
  BY <1>1 DEF Contradictory
<1>3. \A r \in Revisions(facts) :
        (CHOOSE f \in facts : f.revision = r).item = r /\ r \in items
  BY <1>1 DEF Revisions
<1>4. Appended(m, facts).chunks =
        [r \in Covered(m) \cup Revisions(facts) |->
            IF r \in Revisions(facts) THEN (CHOOSE f \in facts : f.revision = r).item ELSE m.chunks[r]]
  BY DEF Appended, Revisions
<1> QED
  BY <1>2, <1>3, <1>4

\* A call that is as it should be afterwards leaves the calls as they should be.
LEMMA CallTypes ==
  ASSUME SummaryTypeOK, NEW c \in Caller, NEW s \in SummaryRecord, s.items \subseteq written,
         summarizer' = [summarizer EXCEPT ![c] = s], UNCHANGED <<author, written>>
  PROVE  /\ summarizer' \in [Caller -> SummaryRecord]
         /\ \A d \in Caller : summarizer'[d].items \subseteq written'
         /\ author' \in Seq({Archives[n] : n \in DOMAIN Archives}) /\ written' \subseteq DOMAIN author'
<1> QED
  BY DEF SummaryTypeOK

\* What a call is after each of its steps.
LEMMA CallSteps ==
  ASSUME SummaryTypeOK, NEW c \in Caller
  PROVE  /\ \A place \in SummaryPlace : [summarizer[c] EXCEPT !.at = place] \in SummaryRecord
         /\ \A listed \in SUBSET DOMAIN Archives : \A items \in SUBSET written :
              [summarizer[c] EXCEPT !.listed = listed, !.items = @ \cup items] \in SummaryRecord
         /\ [summarizer[c] EXCEPT !.at = "draft", !.base = manifest] \in SummaryRecord
         /\ [summarizer[c] EXCEPT !.at = "extract", !.old = draft] \in SummaryRecord
         /\ \A new \in DraftRecord : \A place \in SummaryPlace :
              [summarizer[c] EXCEPT !.new = new, !.at = place] \in SummaryRecord
         /\ summarizer[c] \in SummaryRecord /\ summarizer[c].items \subseteq written
         /\ [summarizer[c].old EXCEPT !.facts = @ \cup Extracted(c)] \in DraftRecord
         /\ [summarizer[c].new EXCEPT !.narrated = TRUE] \in DraftRecord
<1>1. summarizer[c] \in SummaryRecord /\ summarizer[c].items \subseteq written
  BY DEF SummaryTypeOK
<1>2. manifest \in ManifestRecord /\ draft \in DraftRecord
  BY DEF SummaryTypeOK
<1>3. \A items \in SUBSET written : summarizer[c].items \cup items \in ItemSet
  BY <1>1, WrittenIsFinite, FS_Subset DEF ItemSet
<1>4. summarizer[c].old.facts \cup Extracted(c) \in FactSet
  BY <1>1, CallFacts, FS_Union DEF FactSet, SummaryRecord, DraftRecord
<1>5. /\ [summarizer[c].old EXCEPT !.facts = @ \cup Extracted(c)] \in DraftRecord
      /\ [summarizer[c].new EXCEPT !.narrated = TRUE] \in DraftRecord
  BY <1>1, <1>4 DEF SummaryRecord, DraftRecord
<1>6. \A listed \in SUBSET DOMAIN Archives : \A items \in ItemSet :
        [summarizer[c] EXCEPT !.listed = listed, !.items = items] \in SummaryRecord
  BY <1>1 DEF SummaryRecord
<1>7. /\ \A place \in SummaryPlace : [summarizer[c] EXCEPT !.at = place] \in SummaryRecord
      /\ [summarizer[c] EXCEPT !.at = "draft", !.base = manifest] \in SummaryRecord
      /\ [summarizer[c] EXCEPT !.at = "extract", !.old = draft] \in SummaryRecord
      /\ \A new \in DraftRecord : \A place \in SummaryPlace :
              [summarizer[c] EXCEPT !.new = new, !.at = place] \in SummaryRecord
  BY <1>1, <1>2 DEF SummaryRecord, SummaryPlace
<1> QED
  BY <1>1, <1>3, <1>5, <1>6, <1>7

\* Every step, of an agent, of a call or of a reader, keeps the values of their kinds.
LEMMA SummaryTypeStep ==
  ASSUME SummaryTypeOK, [SummaryNext]_summaryVars
  PROVE  SummaryTypeOK'
<1>1. CASE \E n \in DOMAIN Archives : AgentRecords(Archives[n])
  <2>1. PICK n \in DOMAIN Archives : AgentRecords(Archives[n])
    BY <1>1
  <2>2. author' = Append(author, Archives[n])
    BY <2>1 DEF AgentRecords
  <2>3. /\ author' \in Seq({Archives[k] : k \in DOMAIN Archives})
        /\ DOMAIN author \subseteq DOMAIN author'
    BY <2>2 DEF SummaryTypeOK
  <2> QED
    BY <2>1, <2>3 DEF AgentRecords, SummaryTypeOK
<1>2. CASE \E i \in DOMAIN author \ written : AgentWrites(i)
  BY <1>2 DEF AgentWrites, SummaryTypeOK
<1>3. ASSUME NEW c \in Caller, NEW s \in SummaryRecord, s.items \subseteq written,
             summarizer' = [summarizer EXCEPT ![c] = s], UNCHANGED <<author, written>>,
             manifest' \in ManifestRecord, draft' \in DraftRecord, page' = page,
             torn' \in BOOLEAN, overlapped' \in BOOLEAN, barred' \in BOOLEAN, stitched' = stitched
      PROVE  SummaryTypeOK'
  <2>1. /\ summarizer' \in [Caller -> SummaryRecord]
        /\ \A d \in Caller : summarizer'[d].items \subseteq written'
        /\ author' \in Seq({Archives[n] : n \in DOMAIN Archives}) /\ written' \subseteq DOMAIN author'
    BY <1>3, CallTypes
  <2> QED
    BY <1>3, <2>1 DEF SummaryTypeOK
<1>4. ASSUME NEW c \in Caller,
             \/ ListArchives(c) \/ ReadArchive(c) \/ ReadManifest(c) \/ ReadDraft(c) \/ NothingNew(c)
             \/ WriteDraft(c) \/ WriteNarrative(c) \/ AppendFails(c) \/ Compare(c) \/ Rename(c)
             \/ ClearDraft(c) \/ Dies(c)
      PROVE  SummaryTypeOK'
  <2> DEFINE call == summarizer[c]
  <2>0. /\ manifest \in ManifestRecord /\ draft \in DraftRecord /\ summarizer \in [Caller -> SummaryRecord]
        /\ torn \in BOOLEAN /\ overlapped \in BOOLEAN /\ barred \in BOOLEAN
    BY DEF SummaryTypeOK
  <2>a. call \in SummaryRecord /\ call.items \subseteq written
    BY CallSteps
  <2>b. NoSummary \in SummaryRecord /\ NoSummary.items = {} /\ NoDraft \in DraftRecord
    BY SummaryStart DEF NoSummary
  <2>1. CASE ListArchives(c)
    <3> DEFINE listed == {n \in DOMAIN Archives : Archive(Archives[n]) # {}}
               s == [call EXCEPT !.at = "archives", !.listed = listed]
    <3>1. s \in SummaryRecord /\ s.items = call.items
      BY <2>a DEF SummaryRecord, SummaryPlace
    <3>2. summarizer' = [summarizer EXCEPT ![c] = s]
      BY <2>1, <2>0 DEF ListArchives
    <3> QED
      BY <1>3, <2>0, <2>1, <2>a, <3>1, <3>2 DEF ListArchives
  <2>2. CASE ReadArchive(c)
    <3>1. PICK n \in call.listed :
            summarizer' = [summarizer EXCEPT ![c].listed = @ \ {n}, ![c].items = @ \cup Archive(Archives[n])]
      BY <2>2 DEF ReadArchive
    <3> DEFINE listed == call.listed \ {n}
               items == Archive(Archives[n])
               s == [call EXCEPT !.listed = listed, !.items = @ \cup items]
    <3>2. listed \in SUBSET DOMAIN Archives /\ items \in SUBSET written
      BY <2>a DEF SummaryRecord, Archive
    <3>3. s \in SummaryRecord /\ s.items = call.items \cup items
      BY <2>a, <3>2, CallSteps DEF SummaryRecord
    <3>4. summarizer' = [summarizer EXCEPT ![c] = s]
      BY <3>1, <2>0
    <3>5. s.items \subseteq written
      BY <2>a, <3>2, <3>3
    <3> HIDE DEF s
    <3> QED
      BY <1>3, <2>0, <2>2, <3>3, <3>4, <3>5 DEF ReadArchive
  <2>3. CASE ReadManifest(c)
    <3> DEFINE s == [call EXCEPT !.at = "draft", !.base = manifest]
    <3>1. s \in SummaryRecord /\ s.items = call.items
      BY <2>a, CallSteps DEF SummaryRecord
    <3>2. summarizer' = [summarizer EXCEPT ![c] = s]
      BY <2>0, <2>3 DEF ReadManifest
    <3>3. torn' \in BOOLEAN
      BY <2>3 DEF ReadManifest
    <3> HIDE DEF s
    <3> QED
      BY <1>3, <2>0, <2>3, <2>a, <3>1, <3>2, <3>3 DEF ReadManifest
  <2>4. CASE ReadDraft(c)
    <3> DEFINE s == [call EXCEPT !.at = "extract", !.old = draft]
    <3>1. s \in SummaryRecord /\ s.items = call.items
      BY <2>a, CallSteps DEF SummaryRecord
    <3>2. summarizer' = [summarizer EXCEPT ![c] = s]
      BY <2>0, <2>4 DEF ReadDraft
    <3> HIDE DEF s
    <3> QED
      BY <1>3, <2>0, <2>4, <2>a, <3>1, <3>2 DEF ReadDraft
  <2>5. CASE NothingNew(c)
    BY <1>3, <2>0, <2>5, <2>b DEF NothingNew, SummaryEnds
  <2>6. CASE WriteDraft(c)
    <3> DEFINE new == [call.old EXCEPT !.facts = @ \cup Extracted(c)]
               place == IF call.old.narrated THEN "publish" ELSE "narrate"
               s == [call EXCEPT !.new = new, !.at = place]
    <3>1. new \in DraftRecord
      BY CallSteps
    <3>2. draft' = new /\ summarizer' = [summarizer EXCEPT ![c] = s]
      BY <2>0, <2>6 DEF WriteDraft
    <3>3. place \in SummaryPlace
      BY DEF SummaryPlace
    <3> HIDE DEF new, place
    <3>4. s \in SummaryRecord
      BY <3>1, <3>3, CallSteps
    <3>5. s.items = call.items
      BY <2>a DEF SummaryRecord
    <3>6. UNCHANGED <<author, written, manifest, page, torn, overlapped, barred, stitched>>
      BY <2>6 DEF WriteDraft
    <3>7. draft' \in DraftRecord /\ s.items \subseteq written
      BY <2>a, <3>1, <3>2, <3>5
    <3> HIDE DEF s
    <3> QED
      BY <1>3, <2>0, <3>2, <3>4, <3>6, <3>7
  <2>7. CASE WriteNarrative(c)
    <3> DEFINE new == [call.new EXCEPT !.narrated = TRUE]
               s == [call EXCEPT !.new = new, !.at = "publish"]
    <3>1. new \in DraftRecord
      BY CallSteps
    <3>2. draft' = new /\ summarizer' = [summarizer EXCEPT ![c] = s]
      BY <2>0, <2>7 DEF WriteNarrative
    <3>3. "publish" \in SummaryPlace
      BY DEF SummaryPlace
    <3> HIDE DEF new
    <3>4. s \in SummaryRecord
      BY <3>1, <3>3, CallSteps
    <3>5. s.items = call.items
      BY <2>a DEF SummaryRecord
    <3>6. UNCHANGED <<author, written, manifest, page, torn, overlapped, barred, stitched>>
      BY <2>7 DEF WriteNarrative
    <3>7. draft' \in DraftRecord /\ s.items \subseteq written
      BY <2>a, <3>1, <3>2, <3>5
    <3> HIDE DEF s
    <3> QED
      BY <1>3, <2>0, <3>2, <3>4, <3>6, <3>7
  <2>8. CASE AppendFails(c)
    BY <1>3, <2>0, <2>8, <2>b DEF AppendFails, SummaryEnds
  <2>c. ASSUME NEW place \in SummaryPlace
        PROVE  /\ [call EXCEPT !.at = place] \in SummaryRecord
               /\ [call EXCEPT !.at = place].items = call.items
               /\ SummaryGoes(c, place) => summarizer' = [summarizer EXCEPT ![c] = [call EXCEPT !.at = place]]
    <3>1. [call EXCEPT !.at = place] \in SummaryRecord
      BY CallSteps
    <3>2. [call EXCEPT !.at = place].items = call.items
      BY <2>a DEF SummaryRecord
    <3> QED
      BY <2>0, <3>1, <3>2 DEF SummaryGoes
  <2>9. CASE Compare(c)
    <3>1. overlapped' \in BOOLEAN
      BY <2>9 DEF Compare
    <3>2. CASE SummaryGoes(c, "rename")
      <4>1. "rename" \in SummaryPlace
        BY DEF SummaryPlace
      <4>2. PICK s \in SummaryRecord : s.items \subseteq written /\ summarizer' = [summarizer EXCEPT ![c] = s]
        BY <2>a, <2>c, <3>2, <4>1
      <4> QED
        BY <1>3, <2>0, <2>9, <3>1, <4>2 DEF Compare
    <3>3. CASE SummaryEnds(c)
      BY <1>3, <2>0, <2>9, <2>b, <3>1, <3>3 DEF Compare, SummaryEnds
    <3> QED
      BY <2>9, <3>2, <3>3 DEF Compare
  <2>10. CASE Rename(c)
    <3>1. manifest' \in ManifestRecord
      BY <2>a, <2>10, CallFacts, AppendedTypes DEF Rename, SummaryRecord
    <3>2. "clear" \in SummaryPlace
      BY DEF SummaryPlace
    <3>3. PICK s \in SummaryRecord : s.items \subseteq written /\ summarizer' = [summarizer EXCEPT ![c] = s]
      BY <2>a, <2>c, <2>10, <3>2 DEF Rename
    <3> QED
      BY <1>3, <2>0, <2>10, <3>1, <3>3 DEF Rename
  <2>11. CASE ClearDraft(c)
    BY <1>3, <2>0, <2>11, <2>b DEF ClearDraft, SummaryEnds
  <2>12. CASE Dies(c)
    BY <1>3, <2>0, <2>12, <2>b DEF Dies, SummaryEnds
  <2> QED
    BY <1>4, <2>1, <2>2, <2>3, <2>4, <2>5, <2>6, <2>7, <2>8, <2>9, <2>10, <2>11, <2>12
<1>5. CASE ReadFirstPage
  BY <1>5 DEF ReadFirstPage, SummaryTypeOK
<1>6. CASE ReadNextPage
  <2>1. page' \in ManifestRecord /\ stitched' \in BOOLEAN
    BY <1>6, SummaryStart DEF ReadNextPage, SummaryTypeOK
  <2> QED
    BY <1>6, <2>1 DEF ReadNextPage, SummaryTypeOK
<1>7. CASE UNCHANGED summaryVars
  BY <1>7 DEF summaryVars, SummaryTypeOK
<1> QED
  BY <1>1, <1>2, <1>4, <1>5, <1>6, <1>7 DEF SummaryNext

SummaryStep(c) ==
    \/ ListArchives(c) \/ ReadArchive(c) \/ ReadManifest(c) \/ ReadDraft(c) \/ NothingNew(c)
    \/ WriteDraft(c) \/ WriteNarrative(c) \/ AppendFails(c) \/ Compare(c) \/ Rename(c)
    \/ ClearDraft(c) \/ Dies(c)

\* Where a call is, and what it has read and drafted.
Is(call, place, items, base, old, new) ==
    /\ call.at = place /\ call.items = items /\ call.base = base /\ call.old = old /\ call.new = new

StopsCall(c) == NothingNew(c) \/ AppendFails(c) \/ (Compare(c) /\ ~IsCurrent(c)) \/ ClearDraft(c) \/ Dies(c)

\* A step of one call leaves the others alone, and a call that goes on keeps what it has read.
LEMMA CallAfter ==
  ASSUME SummaryTypeOK, NEW c \in Caller, SummaryStep(c), NEW call, call = summarizer[c]
  PROVE  /\ \A d \in Caller : d # c => summarizer'[d] = summarizer[d]
         /\ StopsCall(c) => summarizer'[c] = NoSummary
         /\ ListArchives(c) => Is(summarizer'[c], "archives", call.items, call.base, call.old, call.new)
         /\ ReadArchive(c) =>
              \E items : Is(summarizer'[c], "archives", items, call.base, call.old, call.new)
         /\ ReadManifest(c) => Is(summarizer'[c], "draft", call.items, manifest, call.old, call.new)
         /\ ReadDraft(c) => Is(summarizer'[c], "extract", call.items, call.base, draft, call.new)
         /\ WriteDraft(c) =>
              /\ \E place \in {"narrate", "publish"} :
                    Is(summarizer'[c], place, call.items, call.base, call.old, draft')
              /\ draft'.facts = call.old.facts \cup Extracted(c)
         /\ WriteNarrative(c) =>
              /\ Is(summarizer'[c], "publish", call.items, call.base, call.old, draft')
              /\ draft'.facts = call.new.facts
         /\ Compare(c) /\ IsCurrent(c) =>
              Is(summarizer'[c], "rename", call.items, call.base, call.old, call.new)
         /\ Rename(c) => Is(summarizer'[c], "clear", call.items, call.base, call.old, call.new)
<1>0. summarizer \in [Caller -> SummaryRecord] /\ call \in SummaryRecord
  BY DEF SummaryTypeOK
<1>1. call.old \in DraftRecord /\ call.new \in DraftRecord
  BY <1>0 DEF SummaryRecord
<1>2. StopsCall(c) => SummaryEnds(c)
  BY DEF StopsCall, NothingNew, AppendFails, Compare, ClearDraft, Dies
<1>3. SummaryEnds(c) =>
        summarizer'[c] = NoSummary /\ \A d \in Caller : d # c => summarizer'[d] = summarizer[d]
  BY <1>0 DEF SummaryEnds
<1>4. ASSUME NEW place, SummaryGoes(c, place)
      PROVE  /\ Is(summarizer'[c], place, call.items, call.base, call.old, call.new)
             /\ \A d \in Caller : d # c => summarizer'[d] = summarizer[d]
  BY <1>0, <1>4 DEF SummaryGoes, SummaryRecord, Is
<1>5. ListArchives(c) =>
        /\ Is(summarizer'[c], "archives", call.items, call.base, call.old, call.new)
        /\ \A d \in Caller : d # c => summarizer'[d] = summarizer[d]
  BY <1>0 DEF ListArchives, SummaryRecord, Is
<1>6. ReadArchive(c) =>
        /\ \E items : Is(summarizer'[c], "archives", items, call.base, call.old, call.new)
        /\ \A d \in Caller : d # c => summarizer'[d] = summarizer[d]
  BY <1>0 DEF ReadArchive, SummaryIs, SummaryRecord, Is
<1>7. ReadManifest(c) =>
        /\ Is(summarizer'[c], "draft", call.items, manifest, call.old, call.new)
        /\ \A d \in Caller : d # c => summarizer'[d] = summarizer[d]
  BY <1>0 DEF ReadManifest, SummaryRecord, Is
<1>8. ReadDraft(c) =>
        /\ Is(summarizer'[c], "extract", call.items, call.base, draft, call.new)
        /\ \A d \in Caller : d # c => summarizer'[d] = summarizer[d]
  BY <1>0 DEF ReadDraft, SummaryRecord, Is
<1>9. WriteDraft(c) =>
        /\ \E place \in {"narrate", "publish"} :
              Is(summarizer'[c], place, call.items, call.base, call.old, draft')
        /\ draft'.facts = call.old.facts \cup Extracted(c)
        /\ \A d \in Caller : d # c => summarizer'[d] = summarizer[d]
  <2>1. WriteDraft(c) => draft'.facts = call.old.facts \cup Extracted(c)
    BY <1>1 DEF WriteDraft, DraftRecord
  <2>2. WriteDraft(c) =>
          \E place \in {"narrate", "publish"} :
             summarizer' = [summarizer EXCEPT ![c].new = draft', ![c].at = place]
    BY DEF WriteDraft
  <2> QED
    BY <1>0, <2>1, <2>2 DEF SummaryRecord, Is
<1>10. WriteNarrative(c) =>
         /\ Is(summarizer'[c], "publish", call.items, call.base, call.old, draft')
         /\ draft'.facts = call.new.facts
         /\ \A d \in Caller : d # c => summarizer'[d] = summarizer[d]
  <2>1. WriteNarrative(c) => draft'.facts = call.new.facts
    BY <1>1 DEF WriteNarrative, DraftRecord
  <2>2. WriteNarrative(c) => summarizer' = [summarizer EXCEPT ![c].new = draft', ![c].at = "publish"]
    BY DEF WriteNarrative
  <2> QED
    BY <1>0, <2>1, <2>2 DEF SummaryRecord, Is
<1>11. Compare(c) /\ IsCurrent(c) => SummaryGoes(c, "rename")
  BY DEF Compare
<1>12. Rename(c) => SummaryGoes(c, "clear")
  BY DEF Rename
<1>13. \A d \in Caller : d # c => summarizer'[d] = summarizer[d]
  BY <1>2, <1>3, <1>4, <1>5, <1>6, <1>7, <1>8, <1>9, <1>10, <1>11, <1>12 DEF SummaryStep, StopsCall
<1> QED
  BY <1>2, <1>3, <1>4, <1>5, <1>6, <1>7, <1>8, <1>9, <1>10, <1>11, <1>12, <1>13

\* The revisions keep telling which manifest is the later, as long as no two calls overlap.
LEMMA RevisionsStep ==
  ASSUME SummaryTypeOK, RevisionsTell, [SummaryNext]_summaryVars
  PROVE  RevisionsTell'
<1> SUFFICES ASSUME ~overlapped' PROVE
       /\ manifest'.revision = 0 => manifest' = NoManifest
       /\ ~stitched' /\ IsEarlier(page)'
       /\ \A c \in Caller : IsEarlier(summarizer[c].base)'
       /\ \A c \in Caller : SummaryIs(c, "rename")' => summarizer'[c].base = manifest'
       /\ \A c, d \in Caller : SummaryIs(c, "rename")' /\ SummaryIs(d, "rename")' => c = d
  BY DEF RevisionsTell
<1>1. ~overlapped
  BY DEF SummaryNext, summaryVars, AgentRecords, AgentWrites, ListArchives, ReadArchive, ReadManifest,
         ReadDraft, NothingNew, WriteDraft, WriteNarrative, AppendFails, Compare, Rename, ClearDraft, Dies,
         ReadFirstPage, ReadNextPage
<1>2. /\ manifest.revision = 0 => manifest = NoManifest
      /\ ~stitched /\ IsEarlier(page)
      /\ \A c \in Caller : IsEarlier(summarizer[c].base)
      /\ \A c \in Caller : SummaryIs(c, "rename") => summarizer[c].base = manifest
      /\ \A c, d \in Caller : SummaryIs(c, "rename") /\ SummaryIs(d, "rename") => c = d
  BY <1>1 DEF RevisionsTell
<1>3. manifest.revision \in Nat /\ NoManifest.revision = 0 /\ IsEarlier(manifest) /\ IsEarlier(NoManifest)
  BY <1>2 DEF SummaryTypeOK, ManifestRecord, NoManifest, IsEarlier
<1>4. CASE UNCHANGED <<manifest, summarizer>>
  <2>1. stitched' = FALSE /\ IsEarlier(page)'
    <3>1. CASE UNCHANGED <<page, stitched>>
      BY <1>2, <1>4, <3>1 DEF IsEarlier
    <3>2. CASE ReadFirstPage
      BY <1>2, <1>3, <1>4, <3>2 DEF ReadFirstPage, IsEarlier
    <3>3. CASE ReadNextPage
      <4>1. CASE manifest.revision = page.revision
        <5>1. manifest = page /\ page' = page /\ stitched' = (stitched \/ manifest # page)
          BY <1>2, <3>3, <4>1 DEF ReadNextPage, IsEarlier
        <5>2. stitched' = FALSE
          BY <1>2, <5>1
        <5> QED
          BY <1>2, <1>4, <5>1, <5>2 DEF IsEarlier
      <4>2. CASE manifest.revision # page.revision
        <5>1. page' = NoManifest /\ stitched' = stitched
          BY <3>3, <4>2 DEF ReadNextPage
        <5> QED
          BY <1>2, <1>3, <1>4, <5>1 DEF IsEarlier, SummaryTypeOK
      <4> QED
        BY <4>1, <4>2
    <3> QED
      BY <3>1, <3>2, <3>3 DEF SummaryNext, summaryVars, AgentRecords, AgentWrites, ListArchives, ReadArchive,
         ReadManifest, ReadDraft, NothingNew, WriteDraft, WriteNarrative, AppendFails, Compare, Rename,
         ClearDraft, Dies
  <2> QED
    BY <1>2, <1>4, <2>1 DEF IsEarlier, SummaryIs
<1>5. ASSUME NEW c \in Caller, SummaryStep(c) PROVE
       /\ manifest'.revision = 0 => manifest' = NoManifest
       /\ ~stitched' /\ IsEarlier(page)'
       /\ \A d \in Caller : IsEarlier(summarizer[d].base)'
       /\ \A d \in Caller : SummaryIs(d, "rename")' => summarizer'[d].base = manifest'
       /\ \A d, e \in Caller : SummaryIs(d, "rename")' /\ SummaryIs(e, "rename")' => d = e
  <2>1. PICK call : call = summarizer[c]
    OBVIOUS
  <2>2. \A d \in Caller : d # c => summarizer'[d] = summarizer[d]
    BY <1>5, <2>1, CallAfter
  <2>3. UNCHANGED <<page, stitched>>
    BY <1>5 DEF SummaryStep, ListArchives, ReadArchive, ReadManifest,
         ReadDraft, NothingNew, WriteDraft, WriteNarrative, AppendFails, Compare, Rename, ClearDraft, Dies
  <2>4. CASE summarizer'[c].at # "rename" /\ summarizer'[c].base \in {NoManifest, manifest, call.base}
             /\ manifest' = manifest
    BY <1>2, <1>3, <2>1, <2>2, <2>3, <2>4 DEF IsEarlier, SummaryIs
  <2>5. CASE Compare(c) /\ IsCurrent(c)
    <3>1. manifest' = manifest /\ Is(summarizer'[c], "rename", call.items, call.base, call.old, call.new)
      BY <1>5, <2>1, <2>5, CallAfter DEF Compare
    <3>2. call.base = manifest
      BY <1>2, <2>1, <2>5 DEF IsCurrent, IsEarlier
    <3>3. \A d \in Caller : ~SummaryIs(d, "rename")
      BY <2>5 DEF Compare
    <3> QED
      BY <1>2, <1>3, <2>2, <2>3, <3>1, <3>2, <3>3 DEF IsEarlier, SummaryIs, Is
  <2>6. CASE Rename(c)
    <3>1. Is(summarizer'[c], "clear", call.items, call.base, call.old, call.new)
      BY <1>5, <2>1, <2>6, CallAfter
    <3>2. call.base = manifest /\ \A d \in Caller : d # c => ~SummaryIs(d, "rename")
      BY <1>2, <2>1, <2>6 DEF Rename
    <3>3. /\ manifest' \in ManifestRecord
          /\ manifest' = manifest \/ manifest.revision < manifest'.revision
          /\ manifest'.revision # 0
      BY <1>2, <2>1, <2>6, <3>2, CallFacts, AppendedTypes DEF Rename, SummaryTypeOK
    <3>4. \A m \in ManifestRecord : IsEarlier(m) => IsEarlier(m)'
      BY <1>3, <3>3 DEF IsEarlier, ManifestRecord
    <3>5. page \in ManifestRecord /\ \A d \in Caller : summarizer[d].base \in ManifestRecord
      BY DEF SummaryTypeOK, SummaryRecord
    <3>6. IsEarlier(page)' /\ \A d \in Caller : IsEarlier(summarizer[d].base)'
      BY <1>2, <2>1, <2>2, <2>3, <3>1, <3>4, <3>5 DEF IsEarlier, Is
    <3> QED
      BY <1>2, <2>2, <2>3, <3>1, <3>2, <3>3, <3>6 DEF SummaryIs, Is
  <2>7. CASE ~(Compare(c) /\ IsCurrent(c)) /\ ~Rename(c)
    <3>1. manifest' = manifest
      BY <1>5, <2>7 DEF SummaryStep, ListArchives, ReadArchive, ReadManifest,
         ReadDraft, NothingNew, WriteDraft, WriteNarrative, AppendFails, Compare, ClearDraft, Dies
    <3>2. CASE StopsCall(c)
      BY <1>5, <2>1, <2>4, <3>1, <3>2, CallAfter DEF NoSummary
    <3>3. CASE ReadManifest(c) \/ ReadDraft(c) \/ ListArchives(c) \/ ReadArchive(c) \/ WriteNarrative(c)
      BY <1>5, <2>1, <2>4, <3>1, <3>3, CallAfter DEF Is
    <3>4. CASE WriteDraft(c)
      <4>1. PICK place \in {"narrate", "publish"} :
              Is(summarizer'[c], place, call.items, call.base, call.old, draft')
        BY <1>5, <2>1, <3>4, CallAfter
      <4> QED
        BY <2>4, <3>1, <4>1 DEF Is
    <3> QED
      BY <1>5, <2>7, <3>2, <3>3, <3>4 DEF SummaryStep, StopsCall
  <2> QED
    BY <2>5, <2>6, <2>7
<1>6. CASE \E c \in Caller : SummaryStep(c)
  BY <1>5, <1>6
<1> QED
  BY <1>4, <1>6 DEF SummaryNext, SummaryStep, summaryVars, AgentRecords, AgentWrites, ReadFirstPage, ReadNextPage

\* What a call that has read everything makes of it are items under their numbers.
LEMMA ReadFacts ==
  ASSUME SummaryTypeOK, FactsAreItems, ~torn, NEW c \in Caller, ~SummaryIs(c, "archives")
  PROVE  /\ Entries(summarizer[c].items) = {[revision |-> i, item |-> i] : i \in summarizer[c].items}
         /\ AreItems(Extracted(c), written) /\ AreItems(Facts(c), written) /\ ~Contradictory(Facts(c))
<1>1. summarizer[c].items \in ItemSet /\ 0 \notin summarizer[c].items /\ summarizer[c].items \subseteq written
  BY CallSteps, WrittenIsFinite DEF SummaryRecord
<1>2. Entries(summarizer[c].items) = {[revision |-> i, item |-> i] : i \in summarizer[c].items}
  BY <1>1, WholeEntries DEF FactsAreItems
<1>3. AreItems(Extracted(c), written)
  BY <1>1, <1>2 DEF Extracted, AreItems
<1>4. AreItems(Facts(c), written) /\ Facts(c) \in FactSet
  BY CallFacts DEF FactsAreItems, AreItems
<1> QED
  BY <1>2, <1>3, <1>4, AppendedItems

\* Whatever is drafted after a step is a written item under its number.
LEMMA FactsStep ==
  ASSUME SummaryTypeOK, FactsAreItems, [SummaryNext]_summaryVars
  PROVE  FactsAreItems'
<1> SUFFICES ASSUME ~torn' PROVE
       /\ ~barred' /\ AreItems(draft'.facts, written')
       /\ \A c \in Caller :
             /\ AreItems(summarizer'[c].old.facts, written') /\ AreItems(summarizer'[c].new.facts, written')
             /\ ~SummaryIs(c, "archives")' => Whole(summarizer'[c].items)
  BY DEF FactsAreItems
<1>1. ~torn
  BY DEF SummaryNext, summaryVars, AgentRecords, AgentWrites, ListArchives, ReadArchive, ReadManifest,
         ReadDraft, NothingNew, WriteDraft, WriteNarrative, AppendFails, Compare, Rename, ClearDraft, Dies,
         ReadFirstPage, ReadNextPage
<1>2. /\ ~barred /\ AreItems(draft.facts, written)
      /\ \A c \in Caller :
            /\ AreItems(summarizer[c].old.facts, written) /\ AreItems(summarizer[c].new.facts, written)
            /\ ~SummaryIs(c, "archives") => Whole(summarizer[c].items)
  BY <1>1 DEF FactsAreItems
<1>3. CASE UNCHANGED <<draft, summarizer, barred>> /\ written \subseteq written'
  BY <1>2, <1>3 DEF AreItems, SummaryIs
<1>4. ASSUME NEW c \in Caller, SummaryStep(c) PROVE
       /\ ~barred' /\ AreItems(draft'.facts, written')
       /\ \A d \in Caller :
             /\ AreItems(summarizer'[d].old.facts, written') /\ AreItems(summarizer'[d].new.facts, written')
             /\ ~SummaryIs(d, "archives")' => Whole(summarizer'[d].items)
  <2>1. PICK call : call = summarizer[c]
    OBVIOUS
  <2>2. \A d \in Caller : d # c => summarizer'[d] = summarizer[d]
    BY <1>4, <2>1, CallAfter
  <2>3. written' = written
    BY <1>4 DEF SummaryStep, ListArchives, ReadArchive, ReadManifest,
         ReadDraft, NothingNew, WriteDraft, WriteNarrative, AppendFails, Compare, Rename, ClearDraft, Dies
  <2>4. AreItems(NoDraft.facts, written) /\ Whole({})
    BY DEF NoDraft, AreItems, Whole
  <2>5. AreItems(call.old.facts, written) /\ AreItems(call.new.facts, written)
    BY <1>2, <2>1
  <2>6. ASSUME barred' = barred, AreItems(draft'.facts, written),
               AreItems(summarizer'[c].old.facts, written), AreItems(summarizer'[c].new.facts, written),
               summarizer'[c].at # "archives" => Whole(summarizer'[c].items)
        PROVE  /\ ~barred' /\ AreItems(draft'.facts, written')
               /\ \A d \in Caller :
                     /\ AreItems(summarizer'[d].old.facts, written')
                     /\ AreItems(summarizer'[d].new.facts, written')
                     /\ ~SummaryIs(d, "archives")' => Whole(summarizer'[d].items)
    BY <1>2, <2>2, <2>3, <2>6 DEF SummaryIs
  <2>7. CASE StopsCall(c)
    <3>1. summarizer'[c] = NoSummary
      BY <1>4, <2>1, <2>7, CallAfter
    <3>2. draft' \in {draft, NoDraft}
      BY <2>7 DEF StopsCall, NothingNew, AppendFails, Compare, ClearDraft, Dies
    <3>3. ~AppendFails(c)
      BY <1>1, ReadFacts DEF AppendFails, SummaryIs
    <3>4. barred' = barred
      BY <2>7, <3>3 DEF StopsCall, NothingNew, Compare, ClearDraft, Dies
    <3> QED
      BY <1>2, <2>4, <2>6, <3>1, <3>2, <3>4 DEF NoSummary
  <2>8. CASE ListArchives(c) \/ ReadArchive(c)
    <3>1. \E items : Is(summarizer'[c], "archives", items, call.base, call.old, call.new)
      BY <1>4, <2>1, <2>8, CallAfter
    <3>2. UNCHANGED <<draft, barred>>
      BY <2>8 DEF ListArchives, ReadArchive
    <3> QED
      BY <1>2, <2>5, <2>6, <3>1, <3>2 DEF Is
  <2>9. CASE ReadManifest(c)
    <3>1. Is(summarizer'[c], "draft", call.items, manifest, call.old, call.new)
      BY <1>4, <2>1, <2>9, CallAfter
    <3>2. UNCHANGED <<draft, barred>> /\ Whole(call.items)
      BY <1>1, <2>1, <2>9 DEF ReadManifest, Whole
    <3> QED
      BY <1>2, <2>5, <2>6, <3>1, <3>2 DEF Is
  <2>10. CASE ReadDraft(c)
    <3>1. Is(summarizer'[c], "extract", call.items, call.base, draft, call.new)
      BY <1>4, <2>1, <2>10, CallAfter
    <3>2. UNCHANGED <<draft, barred>> /\ Whole(call.items)
      BY <1>2, <2>1, <2>10 DEF ReadDraft, SummaryIs
    <3> QED
      BY <1>2, <2>5, <2>6, <3>1, <3>2 DEF Is
  <2>11. CASE WriteDraft(c)
    <3>1. PICK place \in {"narrate", "publish"} :
            Is(summarizer'[c], place, call.items, call.base, call.old, draft')
      BY <1>4, <2>1, <2>11, CallAfter
    <3>2. draft'.facts = call.old.facts \cup Extracted(c)
      BY <1>4, <2>1, <2>11, CallAfter
    <3>3. barred' = barred /\ Whole(call.items) /\ ~SummaryIs(c, "archives")
      BY <1>2, <2>1, <2>11 DEF WriteDraft, SummaryIs
    <3>4. AreItems(Extracted(c), written)
      BY <1>1, <3>3, ReadFacts
    <3>5. AreItems(draft'.facts, written)
      BY <2>5, <3>2, <3>4 DEF AreItems
    <3> QED
      BY <2>5, <2>6, <3>1, <3>3, <3>5 DEF Is
  <2>12. CASE WriteNarrative(c)
    <3>1. Is(summarizer'[c], "publish", call.items, call.base, call.old, draft') /\ draft'.facts = call.new.facts
      BY <1>4, <2>1, <2>12, CallAfter
    <3>2. barred' = barred /\ Whole(call.items)
      BY <1>2, <2>1, <2>12 DEF WriteNarrative, SummaryIs
    <3> QED
      BY <2>5, <2>6, <3>1, <3>2 DEF Is
  <2>13. CASE Compare(c) /\ IsCurrent(c)
    <3>1. Is(summarizer'[c], "rename", call.items, call.base, call.old, call.new)
      BY <1>4, <2>1, <2>13, CallAfter
    <3>2. UNCHANGED <<draft, barred>> /\ Whole(call.items)
      BY <1>2, <2>1, <2>13 DEF Compare, SummaryIs
    <3> QED
      BY <1>2, <2>5, <2>6, <3>1, <3>2 DEF Is
  <2>14. CASE Rename(c)
    <3>1. Is(summarizer'[c], "clear", call.items, call.base, call.old, call.new)
      BY <1>4, <2>1, <2>14, CallAfter
    <3>2. UNCHANGED <<draft, barred>> /\ Whole(call.items)
      BY <1>2, <2>1, <2>14 DEF Rename, SummaryIs
    <3> QED
      BY <1>2, <2>5, <2>6, <3>1, <3>2 DEF Is
  <2> QED
    BY <1>4, <2>7, <2>8, <2>9, <2>10, <2>11, <2>12, <2>13, <2>14 DEF SummaryStep, StopsCall
<1>5. CASE \E c \in Caller : SummaryStep(c)
  BY <1>4, <1>5
<1> QED
  BY <1>3, <1>5 DEF SummaryNext, SummaryStep, summaryVars, AgentRecords, AgentWrites, ReadFirstPage, ReadNextPage

\* What is covered later is more, so that what fitted still fits.
LEMMA FitsMore ==
  ASSUME NEW covered, NEW more, covered \subseteq more
  PROVE  /\ \A facts : Follows(facts, covered) => Follows(facts, more)
         /\ \A call : CallFits(call, covered) => CallFits(call, more)
         /\ Follows(NoDraft.facts, covered) /\ CallFits(NoSummary, covered)
<1>1. \A facts : Follows(facts, covered) => Follows(facts, more)
  BY DEF Follows
<1>2. Follows(NoDraft.facts, covered) /\ CallFits(NoSummary, covered)
  BY SummaryStart DEF Follows, NoDraft, NoSummary, CallFits
<1> QED
  BY <1>1, <1>2 DEF CallFits

\* A draft has, with what the manifest covers, every item its call has read.
LEMMA DraftFollows ==
  ASSUME SummaryTypeOK, FactsAreItems, ~torn, NEW c \in Caller, SummaryIs(c, "extract"),
         NEW covered, CallFits(summarizer[c], covered), NEW facts,
         facts = summarizer[c].old.facts \cup Extracted(c)
  PROVE  /\ Follows(facts, covered)
         /\ summarizer[c].items \subseteq Covered(summarizer[c].base) \cup Revisions(facts)
<1>1. PICK items : items = summarizer[c].items
  OBVIOUS
<1>2. items \in ItemSet /\ items \subseteq Nat \ {0} /\ Whole(items)
  BY <1>1, CallSteps, WrittenIsFinite DEF SummaryRecord, FactsAreItems, SummaryIs
<1>3. Entries(items) = {[revision |-> i, item |-> i] : i \in items}
  BY <1>1, ReadFacts DEF SummaryIs
<1>4. items \subseteq Covered(summarizer[c].base) \cup Revisions(facts)
  <2> SUFFICES ASSUME NEW i \in items, i \notin Covered(summarizer[c].base) PROVE i \in Revisions(facts)
    OBVIOUS
  <2>1. PICK f : f = [revision |-> i, item |-> i]
    OBVIOUS
  <2>2. f \in Entries(items) /\ f.revision = i
    BY <1>3, <2>1
  <2>3. f \in facts
    BY <1>1, <2>2 DEF Extracted
  <2> QED
    BY <2>2, <2>3 DEF Revisions
<1>5. Follows(facts, covered)
  <2> SUFFICES ASSUME NEW f \in facts PROVE 1..f.revision \subseteq covered \cup Revisions(facts)
    BY DEF Follows
  <2>1. CASE f \in summarizer[c].old.facts
    BY <2>1 DEF CallFits, Follows, Revisions
  <2>2. CASE f \in Extracted(c)
    <3>1. f.revision \in items
      BY <1>1, <1>3, <2>2 DEF Extracted
    <3>2. 1..f.revision \subseteq items
      BY <1>2, <3>1 DEF Whole
    <3> QED
      BY <1>4, <3>2 DEF CallFits
  <2> QED
    BY <2>1, <2>2
<1> QED
  BY <1>1, <1>4, <1>5

\* The manifest that is put in place has no gap, and covers what the call has read.
LEMMA RenameIsWhole ==
  ASSUME SummaryTypeOK, RevisionsTell, FactsAreItems, ManifestIsWhole, ~torn, ~overlapped,
         NEW c \in Caller, Rename(c)
  PROVE  /\ Covered(manifest) \subseteq Covered(manifest')
         /\ \A r \in Covered(manifest') : manifest'.chunks[r] = r /\ r \in written
         /\ Whole(Covered(manifest')) /\ summarizer[c].items \subseteq Covered(manifest')
<1> DEFINE facts == Facts(c)
           new == summarizer[c].new.facts
<1>1. summarizer[c].base = manifest /\ manifest' = Appended(manifest, facts)
  BY DEF RevisionsTell, Rename
<1>2. /\ facts \in FactSet /\ facts \subseteq new
      /\ \A f \in facts : f.revision \notin Covered(manifest)
      /\ AreItems(facts, written)
  BY <1>1, CallFacts, ReadFacts DEF Rename, SummaryIs
<1>3. Covered(manifest') = Covered(manifest) \cup Revisions(facts)
  BY <1>1, <1>2, AppendedTypes DEF SummaryTypeOK
<1>4. Revisions(new) \subseteq Covered(manifest')
  BY <1>1, <1>3 DEF Facts, Revisions
<1>5. \A r \in Covered(manifest') : manifest'.chunks[r] = r /\ r \in written
  BY <1>1, <1>2, <1>3, AppendedItems DEF ManifestIsWhole
<1>6. /\ Follows(new, Covered(manifest)) /\ Whole(Covered(manifest))
      /\ summarizer[c].items \subseteq Covered(manifest) \cup Revisions(new)
  BY <1>1 DEF ManifestIsWhole, CallFits, Rename, SummaryIs
<1>7. Whole(Covered(manifest'))
  <2> SUFFICES ASSUME NEW r \in Covered(manifest') PROVE 1..r \subseteq Covered(manifest')
    BY DEF Whole
  <2>1. CASE r \in Covered(manifest)
    BY <1>3, <1>6, <2>1 DEF Whole
  <2>2. CASE r \in Revisions(facts)
    <3>1. PICK f \in facts : r = f.revision
      BY <2>2 DEF Revisions
    <3> QED
      BY <1>2, <1>3, <1>4, <1>6, <3>1 DEF Follows
  <2> QED
    BY <1>3, <2>1, <2>2
<1> QED
  BY <1>3, <1>4, <1>5, <1>6, <1>7

\* No step leaves a gap in the manifest, or lets it lack what was reported.
LEMMA WholeStep ==
  ASSUME SummaryTypeOK, RevisionsTell, FactsAreItems, ManifestIsWhole, [SummaryNext]_summaryVars
  PROVE  ManifestIsWhole'
<1> DEFINE covered == Covered(manifest)
<1> SUFFICES ASSUME ~torn', ~overlapped' PROVE
       /\ \A r \in covered' : manifest'.chunks[r] = r /\ r \in written'
       /\ Whole(covered')
       /\ Follows(draft'.facts, covered') /\ summarized' \subseteq covered'
       /\ \A c \in Caller : CallFits(summarizer'[c], covered')
  BY DEF ManifestIsWhole
<1>1. ~torn /\ ~overlapped
  <2>1. ~torn
    BY DEF SummaryNext, summaryVars, AgentRecords, AgentWrites, ListArchives, ReadArchive, ReadManifest,
           ReadDraft, NothingNew, WriteDraft, WriteNarrative, AppendFails, Compare, Rename, ClearDraft, Dies,
           ReadFirstPage, ReadNextPage
  <2>2. ~overlapped
    BY DEF SummaryNext, summaryVars, AgentRecords, AgentWrites, ListArchives, ReadArchive, ReadManifest,
           ReadDraft, NothingNew, WriteDraft, WriteNarrative, AppendFails, Compare, Rename, ClearDraft, Dies,
           ReadFirstPage, ReadNextPage
  <2> QED
    BY <2>1, <2>2
<1>2. /\ \A r \in covered : manifest.chunks[r] = r /\ r \in written
      /\ Whole(covered)
      /\ Follows(draft.facts, covered) /\ summarized \subseteq covered
      /\ \A c \in Caller : CallFits(summarizer[c], covered)
  BY <1>1 DEF ManifestIsWhole
<1>3. CASE UNCHANGED <<draft, summarizer, manifest, summarized>> /\ written \subseteq written'
  BY <1>2, <1>3
<1>4. ASSUME NEW c \in Caller, SummaryStep(c) PROVE
       /\ \A r \in covered' : manifest'.chunks[r] = r /\ r \in written'
       /\ Whole(covered')
       /\ Follows(draft'.facts, covered') /\ summarized' \subseteq covered'
       /\ \A d \in Caller : CallFits(summarizer'[d], covered')
  <2>1. PICK call : call = summarizer[c]
    OBVIOUS
  <2>2. \A d \in Caller : d # c => summarizer'[d] = summarizer[d]
    BY <1>4, <2>1, CallAfter
  <2>3. written' = written
    BY <1>4 DEF SummaryStep, ListArchives, ReadArchive, ReadManifest,
         ReadDraft, NothingNew, WriteDraft, WriteNarrative, AppendFails, Compare, Rename, ClearDraft, Dies
  <2>4. Follows(NoDraft.facts, covered) /\ CallFits(NoSummary, covered) /\ CallFits(call, covered)
    BY <1>2, <2>1, FitsMore
  <2>5. ASSUME manifest' = manifest, Follows(draft'.facts, covered), summarized' \subseteq covered,
               CallFits(summarizer'[c], covered)
        PROVE  /\ \A r \in covered' : manifest'.chunks[r] = r /\ r \in written'
               /\ Whole(covered')
               /\ Follows(draft'.facts, covered') /\ summarized' \subseteq covered'
               /\ \A d \in Caller : CallFits(summarizer'[d], covered')
    BY <1>2, <2>2, <2>3, <2>5
  <2>6. CASE StopsCall(c)
    <3>1. summarizer'[c] = NoSummary
      BY <1>4, <2>1, <2>6, CallAfter
    <3>2. draft' \in {draft, NoDraft} /\ manifest' = manifest
      BY <2>6 DEF StopsCall, NothingNew, AppendFails, Compare, ClearDraft, Dies
    <3>3. CASE NothingNew(c)
      <4>1. /\ SummaryIs(c, "extract") /\ Extracted(c) = {} /\ call.old = NoDraft
            /\ summarized' = summarized \cup call.items
        BY <2>1, <3>3 DEF NothingNew
      <4>2. call.old.facts \cup Extracted(c) = {}
        BY <4>1 DEF NoDraft
      <4>3. call.items \subseteq Covered(call.base) \cup Revisions({})
        BY <1>1, <2>1, <2>4, <4>1, <4>2, DraftFollows
      <4>4. summarized' \subseteq covered
        BY <1>2, <2>4, <4>1, <4>3 DEF Revisions, CallFits
      <4> QED
        BY <1>2, <2>4, <2>5, <3>1, <3>2, <4>4
    <3>4. CASE ClearDraft(c)
      <4>1. summarized' = summarized \cup call.items /\ call.at = "clear"
        BY <2>1, <3>4 DEF ClearDraft, SummaryIs
      <4> QED
        BY <1>2, <2>4, <2>5, <3>1, <3>2, <4>1 DEF CallFits
    <3>5. CASE summarized' = summarized
      BY <1>2, <2>4, <2>5, <3>1, <3>2, <3>5
    <3> QED
      BY <2>6, <3>3, <3>4, <3>5 DEF StopsCall, AppendFails, Compare, Dies
  <2>7. CASE ListArchives(c) \/ ReadArchive(c)
    <3>1. \E items : Is(summarizer'[c], "archives", items, call.base, call.old, call.new)
      BY <1>4, <2>1, <2>7, CallAfter
    <3>2. UNCHANGED <<draft, manifest, summarized>>
      BY <2>7 DEF ListArchives, ReadArchive
    <3> QED
      BY <1>2, <2>4, <2>5, <3>1, <3>2 DEF Is, CallFits
  <2>8. CASE ReadManifest(c)
    <3>1. Is(summarizer'[c], "draft", call.items, manifest, call.old, call.new)
      BY <1>4, <2>1, <2>8, CallAfter
    <3>2. UNCHANGED <<draft, manifest, summarized>>
      BY <2>8 DEF ReadManifest
    <3> QED
      BY <1>2, <2>4, <2>5, <3>1, <3>2 DEF Is, CallFits
  <2>9. CASE ReadDraft(c)
    <3>1. Is(summarizer'[c], "extract", call.items, call.base, draft, call.new)
      BY <1>4, <2>1, <2>9, CallAfter
    <3>2. UNCHANGED <<draft, manifest, summarized>>
      BY <2>9 DEF ReadDraft
    <3> QED
      BY <1>2, <2>4, <2>5, <3>1, <3>2 DEF Is, CallFits
  <2>10. CASE WriteDraft(c)
    <3>1. PICK place \in {"narrate", "publish"} :
            Is(summarizer'[c], place, call.items, call.base, call.old, draft')
      BY <1>4, <2>1, <2>10, CallAfter
    <3>2. draft'.facts = call.old.facts \cup Extracted(c)
      BY <1>4, <2>1, <2>10, CallAfter
    <3>3. UNCHANGED <<manifest, summarized>> /\ SummaryIs(c, "extract")
      BY <2>10 DEF WriteDraft
    <3>4. Follows(draft'.facts, covered) /\ call.items \subseteq Covered(call.base) \cup Revisions(draft'.facts)
      BY <1>1, <2>1, <2>4, <3>2, <3>3, DraftFollows
    <3> QED
      BY <1>2, <2>4, <2>5, <3>1, <3>3, <3>4 DEF Is, CallFits
  <2>11. CASE WriteNarrative(c)
    <3>1. Is(summarizer'[c], "publish", call.items, call.base, call.old, draft') /\ draft'.facts = call.new.facts
      BY <1>4, <2>1, <2>11, CallAfter
    <3>2. UNCHANGED <<manifest, summarized>> /\ call.at = "narrate"
      BY <2>1, <2>11 DEF WriteNarrative, SummaryIs
    <3> QED
      BY <1>2, <2>4, <2>5, <3>1, <3>2 DEF Is, CallFits
  <2>12. CASE Compare(c) /\ IsCurrent(c)
    <3>1. Is(summarizer'[c], "rename", call.items, call.base, call.old, call.new)
      BY <1>4, <2>1, <2>12, CallAfter
    <3>2. UNCHANGED <<draft, manifest, summarized>> /\ call.at = "publish"
      BY <2>1, <2>12 DEF Compare, SummaryIs
    <3> QED
      BY <1>2, <2>4, <2>5, <3>1, <3>2 DEF Is, CallFits
  <2>13. CASE Rename(c)
    <3>1. Is(summarizer'[c], "clear", call.items, call.base, call.old, call.new)
      BY <1>4, <2>1, <2>13, CallAfter
    <3>2. UNCHANGED <<draft, summarized>>
      BY <2>13 DEF Rename
    <3>3. /\ covered \subseteq covered' /\ Whole(covered') /\ call.items \subseteq covered'
          /\ \A r \in covered' : manifest'.chunks[r] = r /\ r \in written'
      BY <1>1, <2>1, <2>3, <2>13, RenameIsWhole
    <3> HIDE DEF covered
    <3>4. Follows(draft'.facts, covered') /\ \A d \in Caller : CallFits(summarizer[d], covered')
      BY <1>2, <3>2, <3>3, FitsMore
    <3>5. CallFits(summarizer'[c], covered')
      BY <2>1, <3>1, <3>3, <3>4 DEF Is, CallFits
    <3> QED
      BY <1>2, <2>2, <3>2, <3>3, <3>4, <3>5
  <2> QED
    BY <1>4, <2>6, <2>7, <2>8, <2>9, <2>10, <2>11, <2>12, <2>13 DEF SummaryStep, StopsCall
<1>5. CASE \E c \in Caller : SummaryStep(c)
  BY <1>4, <1>5
<1> QED
  BY <1>3, <1>5 DEF SummaryNext, SummaryStep, summaryVars, AgentRecords, AgentWrites, ReadFirstPage, ReadNextPage

\* However many calls summarise the archives of a mission, die or go on with the draft of
\* another: as long as each read them as of one moment and no two were between the comparison
\* and the rename, the manifest is a beginning of the record, and has what they have reported.
THEOREM SummaryIsComplete == SummarySpec => []SummaryInv
<1>1. SummaryInit => SummaryIInv
  <2> SUFFICES ASSUME SummaryInit PROVE SummaryIInv
    OBVIOUS
  <2>1. SummaryTypeOK
    <3>1. NoSummary.items = {} /\ << >> \in Seq({Archives[n] : n \in DOMAIN Archives})
      BY DEF NoSummary
    <3>2. summarizer \in [Caller -> SummaryRecord] /\ \A c \in Caller : summarizer[c].items = {}
      BY <3>1, SummaryStart DEF SummaryInit
    <3> QED
      BY <3>1, <3>2, SummaryStart DEF SummaryInit, SummaryTypeOK
  <2>2. RevisionsTell
    BY DEF SummaryInit, RevisionsTell, IsEarlier, NoManifest, NoSummary, SummaryIs
  <2>3. FactsAreItems
    BY DEF SummaryInit, FactsAreItems, AreItems, Whole, NoDraft, NoSummary
  <2>4. ManifestIsWhole
    BY SummaryStart, FitsMore DEF SummaryInit, ManifestIsWhole, Whole
  <2> QED
    BY <2>1, <2>2, <2>3, <2>4 DEF SummaryIInv
<1>2. SummaryIInv /\ [SummaryNext]_summaryVars => SummaryIInv'
  BY SummaryTypeStep, RevisionsStep, FactsStep, WholeStep DEF SummaryIInv
<1>3. SummaryIInv => SummaryInv
  BY DEF SummaryIInv, SummaryInv, ChunksAreTheSource, NobodyIsBarred, ReportedIsKept, PagesFit,
         RevisionsTell, FactsAreItems, ManifestIsWhole, Whole
<1> QED
  BY <1>1, <1>2, <1>3, PTL DEF SummarySpec
=============================================================================
