-------------------------------- MODULE ToolLoop --------------------------------
(***************************************************************************)
(* A worker's tool loop (runtime/tool-loop.ts runToolLoop), the guard      *)
(* against loops without progress (tools/local-progress-and-cycle-         *)
(* guard.ts), the budget of calls of a task, which outlives workers and    *)
(* processes (infra/task-call-budget-ledger.ts), and what the worker makes *)
(* of the events (orchestration/worker-agent.ts run).                      *)
(*                                                                         *)
(* The guard, and with it the budget, is off unless isProgressGuardEnabled *)
(* is set: a task is run with it or without it.                            *)
(*                                                                         *)
(* The loop keeps its events until it has ended, and the worker reads them *)
(* all at once.  As nobody looks at them before, the model folds each      *)
(* event into the worker's record when it is appended.                     *)
(***************************************************************************)
EXTENDS Naturals, Sequences, FiniteSets

CONSTANTS
    Tool, MutatingTool,    \* tools, and those in MUTATING_TOOL_NAMES
    Argument,              \* arguments of a call
    RequiredTool,          \* requiredToolNames and requiredMutatingToolNames
    MaxLoopIterations,
    MaxCallsPerTurn,       \* bound: calls a model requests in one answer
    NoProgressLimit, MaxFanout, MaxGraphNodes, TaskTotalCallBudget,
    FailureThreshold,
    MaxWorkers             \* bound: workers that run the task, one after another

\* "none" stands for the absence of a call, so no tool has that name.
ASSUME ToolLoopAssumption ==
    /\ MutatingTool \subseteq Tool /\ RequiredTool \subseteq Tool /\ "none" \notin Tool
    /\ {MaxLoopIterations, NoProgressLimit, FailureThreshold} \subseteq Nat \ {0}
    /\ TaskTotalCallBudget \in Nat

VARIABLES
    isGuarded,     \* isProgressGuardEnabled: there is a progressGuardPort
    loop,          \* phase, iteration, calls of this turn and the next one to execute
    worker,        \* what the worker makes of the events
    outcome,       \* how the worker's run ended
    lastSignature, \* lastOutcomeSignatureByPath
    noProgress,    \* noProgressCountByPath, of the present worker
    graphNodes,    \* graphNodes of the guard
    successors,    \* callGraph of the present worker
    ledger,        \* the calls counted for the task, on disk
    workers,       \* number of workers so far
    executions,    \* history: tool executions of the task, those of this worker's path
    finishes       \* history: the last result of each tool in this run

toolLoopVars == <<isGuarded, loop, worker, outcome, lastSignature, noProgress, graphNodes, successors,
                  ledger, workers, executions, finishes>>

Call == [tool : Tool, args : Argument]
NoCall == [tool |-> "none", args |-> "none"]
Turns == UNION {[1..n -> Call] : n \in 1..MaxCallsPerTurn}
ToolResult == {"ok", "failed", "ask"}   \* ask: the error permission-ask-pending

NewWorker == [last |-> NoCall, attempted |-> {}, unresolved |-> {}, succeeded |-> {},
              ask |-> NoCall, counts |-> [t \in Tool |-> 0], hit |-> {}]

ToolLoopInit ==
    /\ isGuarded \in BOOLEAN
    /\ loop = [phase |-> "model", iteration |-> 1, calls |-> <<>>, next |-> 1]
    /\ worker = NewWorker /\ outcome = "none"
    /\ lastSignature = [c \in Call |-> "none"] /\ noProgress = [c \in Call |-> 0]
    /\ graphNodes = {} /\ successors = {} /\ ledger = 0 /\ workers = 1
    /\ executions = [all |-> 0, stuck |-> [c \in Call |-> 0]]
    /\ finishes = [t \in Tool |-> "none"]

--------------------------------------------------------------------------------
(* The worker's reading of the events *)

Requested(w, calls) ==
    [w EXCEPT !.last = calls[Len(calls)],
              !.attempted = @ \cup ({calls[i].tool : i \in DOMAIN calls} \cap MutatingTool)]

\* Mutant: a failed write is not remembered once the tool has succeeded before.
FailedOnce(w, t) ==
    [w EXCEPT !.counts[t] = @ + 1, !.unresolved = @ \cup (({t} \cap MutatingTool) \ w.succeeded)]

\* A failure counts towards the threshold; the counter is dropped when it gets there.
Failed(w, t) ==
    LET n == w.counts[t] + 1 IN
    [w EXCEPT !.counts[t] = IF n >= FailureThreshold THEN 0 ELSE n,
              !.hit = IF n >= FailureThreshold THEN @ \cup {t} ELSE @,
              !.unresolved = @ \cup ({t} \cap MutatingTool)]

Succeeded(w, t) ==
    [w EXCEPT !.counts[t] = 0, !.unresolved = @ \ {t}, !.succeeded = @ \cup {t}]

\* The question carries the arguments of the call requested last, not those of the call asked about.
Asks(w, c) == [w EXCEPT !.ask = [tool |-> c.tool, args |-> w.last.args]]

Finished(w, c, result) ==
    CASE result = "ask" -> Asks(w, c)
      [] result = "ok" -> Succeeded(w, c.tool)
      [] OTHER -> Failed(w, c.tool)

\* verifyCompletionControlEvent: the part that depends on the tools.
GatePasses(w) ==
    /\ w.attempted # {} => w.succeeded \cap MutatingTool # {}
    /\ RequiredTool \subseteq w.succeeded

\* runFinished; declares: the final text holds a valid completion event.
OutcomeOf(w, reason, declares) ==
    CASE w.ask # NoCall -> "permission-ask"
      [] w.ask = NoCall /\ reason = "success" ->
            IF declares /\ GatePasses(w) /\ w.unresolved = {} THEN "success" ELSE "failure"
      [] w.ask = NoCall /\ reason \in {"ambiguous", "cancelled"} -> reason
      [] OTHER -> "failure"

Ends(w, reason, declares) ==
    /\ loop' = [loop EXCEPT !.phase = "ended", !.calls = <<>>, !.next = 1]
    /\ worker' = w /\ outcome' = OutcomeOf(w, reason, declares)

--------------------------------------------------------------------------------
(* The guard.  A call is recorded before and after the execution, where there is a guard. *)

Counted == ledger + 1
Structure(c) == Cardinality(graphNodes \cup {c}) <= MaxGraphNodes /\ Cardinality(successors \cup {c}) <= MaxFanout
\* The violation is found after the node and the successor have been added.
Visits(c) ==
    /\ graphNodes' = IF isGuarded THEN graphNodes \cup {c} ELSE graphNodes
    /\ successors' = IF isGuarded /\ Cardinality(graphNodes \cup {c}) <= MaxGraphNodes THEN successors \cup {c} ELSE successors

\* Mutant: the budget of the task is not counted before an execution.
CountBeforeForgotten(c) == ledger' = ledger

\* Before: no signature, so only the structure and the budget of the task count.
RefusedBefore(c) == isGuarded /\ (~Structure(c) \/ Counted > TaskTotalCallBudget)
CountBefore(c) == ledger' = IF isGuarded /\ Structure(c) THEN Counted ELSE ledger

Stalls(c, result) == lastSignature[c] = result
\* Mutant: off by one.
StuckLate(c, result) == Stalls(c, result) /\ noProgress[c] >= NoProgressLimit

Stuck(c, result) == Stalls(c, result) /\ noProgress[c] + 1 >= NoProgressLimit

RefusedAfter(c, result) ==
    isGuarded /\ (~Structure(c) \/ Stuck(c, result) \/ Counted > TaskTotalCallBudget)
CountAfter(c, result) ==
    ledger' = IF isGuarded /\ Structure(c) /\ ~Stuck(c, result) THEN Counted ELSE ledger

NoteProgress(c, result) ==
    /\ noProgress' = [noProgress EXCEPT ![c] = IF ~isGuarded \/ ~Structure(c) THEN @
                                               ELSE IF Stalls(c, result) THEN @ + 1 ELSE 0]
    /\ lastSignature' = [lastSignature EXCEPT ![c] = IF isGuarded THEN result ELSE @]

--------------------------------------------------------------------------------
(* The loop *)

\* The model answers with tool calls.
RequestsTools ==
    /\ loop.phase = "model"
    /\ \E calls \in Turns :
        /\ loop' = [loop EXCEPT !.phase = "tools", !.calls = calls, !.next = 1]
        /\ worker' = Requested(worker, calls)
    /\ UNCHANGED <<outcome, lastSignature, noProgress, graphNodes, successors, ledger, workers, executions, finishes>>

\* The model ends its answer otherwise; with an error at the last iteration the reason becomes max-iterations.
ModelEnds ==
    /\ loop.phase = "model"
    /\ \E reason \in {"success", "ambiguous", "cancelled", "error"}, declares \in BOOLEAN :
        Ends(worker, reason, declares)
    /\ UNCHANGED <<lastSignature, noProgress, graphNodes, successors, ledger, workers, executions, finishes>>

\* The provider throws: so does the loop, and the worker ends without an outcome.
ModelThrows ==
    /\ loop.phase = "model"
    /\ loop' = [loop EXCEPT !.phase = "ended"] /\ outcome' = "threw"
    /\ UNCHANGED <<worker, lastSignature, noProgress, graphNodes, successors, ledger, workers, executions, finishes>>

ThisCall == loop.calls[loop.next]

\* The loop after a call: the next one, the next iteration, or the end when no iteration is left.
Advance(w) ==
    IF loop.next < Len(loop.calls)
    THEN /\ loop' = [loop EXCEPT !.phase = "tools", !.next = @ + 1]
         /\ worker' = w /\ UNCHANGED outcome
    ELSE IF loop.iteration < MaxLoopIterations
    THEN /\ loop' = [phase |-> "model", iteration |-> loop.iteration + 1, calls |-> <<>>, next |-> 1]
         /\ worker' = w /\ UNCHANGED outcome
    ELSE Ends(w, "max-iterations", FALSE)

\* Safe point before a tool: guidance with the gate keeps the tool from being executed, but
\* its path is recorded after "execution" all the same.
GuidanceGates ==
    /\ loop.phase = "tools"
    /\ finishes' = [finishes EXCEPT ![ThisCall.tool] = "gated"]
    /\ NoteProgress(ThisCall, "gated") /\ CountAfter(ThisCall, "gated") /\ Visits(ThisCall)
    /\ IF RefusedAfter(ThisCall, "gated")
       THEN Ends(Failed(worker, ThisCall.tool), "error", FALSE)
       ELSE Advance(Failed(worker, ThisCall.tool))
    /\ UNCHANGED <<workers, executions>>

\* Otherwise the guard looks at the call before it is executed.
BeforeTool ==
    /\ loop.phase = "tools"
    /\ CountBefore(ThisCall) /\ Visits(ThisCall)
    /\ IF RefusedBefore(ThisCall)
       THEN /\ Ends(Failed(worker, ThisCall.tool), "error", FALSE)
            /\ finishes' = [finishes EXCEPT ![ThisCall.tool] = "refused"]
       ELSE /\ loop' = [loop EXCEPT !.phase = "executing"]
            /\ UNCHANGED <<worker, outcome, finishes>>
    /\ UNCHANGED <<lastSignature, noProgress, workers, executions>>

\* The tool has run: its result, the guard's second look, the event and the message.
AfterTool ==
    /\ loop.phase = "executing"
    /\ \E result \in ToolResult :
        /\ NoteProgress(ThisCall, result) /\ CountAfter(ThisCall, result) /\ Visits(ThisCall)
        /\ executions' = [all |-> executions.all + 1,
                          stuck |-> [executions.stuck EXCEPT ![ThisCall] = IF Stalls(ThisCall, result) THEN @ + 1 ELSE 0]]
        /\ IF RefusedAfter(ThisCall, result)
           THEN /\ Ends(Failed(worker, ThisCall.tool), "error", FALSE)
                /\ finishes' = [finishes EXCEPT ![ThisCall.tool] = "refused"]
           ELSE /\ finishes' = [finishes EXCEPT ![ThisCall.tool] = result]
                /\ Advance(Finished(worker, ThisCall, result))
    /\ UNCHANGED workers

\* The task is run again, by a new worker; anew: in a new process, which has only the ledger.
NextWorker ==
    /\ loop.phase = "ended" /\ outcome # "success" /\ workers < MaxWorkers
    /\ workers' = workers + 1
    /\ loop' = [phase |-> "model", iteration |-> 1, calls |-> <<>>, next |-> 1]
    /\ worker' = NewWorker /\ outcome' = "none"
    /\ lastSignature' = [c \in Call |-> "none"] /\ noProgress' = [c \in Call |-> 0] /\ successors' = {}
    /\ \E anew \in BOOLEAN : graphNodes' = IF anew THEN {} ELSE graphNodes
    /\ executions' = [executions EXCEPT !.stuck = [c \in Call |-> 0]]
    /\ finishes' = [t \in Tool |-> "none"]
    /\ UNCHANGED ledger

ToolLoopNext ==
    /\ \/ RequestsTools \/ ModelEnds \/ ModelThrows
       \/ GuidanceGates \/ BeforeTool \/ AfterTool \/ NextWorker
    /\ UNCHANGED isGuarded

ToolLoopSpec == ToolLoopInit /\ [][ToolLoopNext]_toolLoopVars

--------------------------------------------------------------------------------
(* Properties *)

\* A run that ends in success has no writing tool whose last call failed, was refused by the
\* guard, stopped by guidance or asked about, and has run every required tool
\* (worker-agent.ts:586-635 over what the loop did).
SuccessIsEarned ==
    outcome = "success" =>
        /\ \A t \in MutatingTool : finishes[t] \in {"none", "ok"}
        /\ \A t \in RequiredTool : t \in worker.succeeded
        /\ worker.ask = NoCall

\* Where the guard is enabled, a task executes no more tools over all its workers and processes
\* than its budget allows: an execution counts twice, save the last one of a worker that makes no
\* progress.  And no path repeats the same result more often than the guard's limit.
LoopIsBounded == isGuarded =>
    /\ 2 * executions.all <= TaskTotalCallBudget + workers
    /\ \A c \in Call : executions.stuck[c] <= NoProgressLimit

\* The gate in front of a declared success, with a guard and without one, and the guard's bounds.
LoopInv == SuccessIsEarned /\ LoopIsBounded
==============================================================================
