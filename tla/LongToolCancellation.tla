--------------------------- MODULE LongToolCancellation ---------------------------
(***************************************************************************)
(* Cooperative cancellation of long tools                                  *)
(* (runtime-guidance/long-tool-checkpoint.ts): an execution of a tool call *)
(* has an epoch, a request to cancel is delivered at one of its            *)
(* checkpoints, and a request whose outcome is not known in time blocks.   *)
(***************************************************************************)
EXTENDS Naturals, Sequences, FiniteSets

CONSTANTS
    ToolCall,
    ToolTaskOf,   \* ToolTaskOf[c]: taskIdentifier
    MaxEpoch,     \* bound: executions of one tool call
    MaxRequests,  \* bound: requests to cancel, successors included
    MaxRevisionOf \* bound: instruction revisions

ASSUME LongToolAssumption ==
    DOMAIN ToolTaskOf = ToolCall /\ {MaxEpoch, MaxRequests, MaxRevisionOf} \subseteq Nat

VARIABLES
    epoch,      \* epoch[c]: executionEpoch, 0 before the first execution
    completed,  \* completed[c]: isCompletionDeclared of the present execution
    requests,   \* requestsByIdentifier, in the order of the Map; from is the request a
                \* successor takes its identifier from, 0 for one that was asked for
    blocked,    \* history: requests seen as unknown, and not answered, superseded or
                \* overwritten since
    receipts    \* history: receipts[i]: checkpoints that delivered request i

longToolVars == <<epoch, completed, requests, blocked, receipts>>

LongToolInit ==
    /\ epoch = [c \in ToolCall |-> 0] /\ completed = [c \in ToolCall |-> FALSE]
    /\ requests = <<>> /\ blocked = {} /\ receipts = [i \in 1..MaxRequests |-> 0]

Of(c) == {i \in DOMAIN requests : requests[i].call = c}
OfTask(t) == {i \in DOMAIN requests : ToolTaskOf[requests[i].call] = t}
CancellationStatus(i) == requests[i].status

\* beginToolExecution
Begin(c) ==
    /\ epoch[c] < MaxEpoch
    /\ epoch' = [epoch EXCEPT ![c] = @ + 1]
    /\ completed' = [completed EXCEPT ![c] = FALSE]
    /\ UNCHANGED <<requests, blocked, receipts>>

\* requestCooperativeCancellation.  Its identifier is of the call, the time and the
\* reason: two requests of a call are made at different times or for different reasons.
RequestCancel(c, r) ==
    /\ epoch[c] > 0 /\ Len(requests) < MaxRequests
    /\ requests' = Append(requests, [call |-> c, epoch |-> epoch[c], revision |-> r,
                                     status |-> "requested", delivered |-> FALSE, from |-> 0])
    /\ UNCHANGED <<epoch, completed, blocked, receipts>>

\* Mutant: what was delivered is delivered again.
DueAgain(c) == {i \in Of(c) : CancellationStatus(i) = "requested"}

\* deliverPendingCancellations
Due(c) == {i \in Of(c) : CancellationStatus(i) = "requested" /\ ~requests[i].delivered}

\* runCheckpoint; the guidance it consumes is in Guidance.
Checkpoint(c) ==
    /\ epoch[c] > 0 /\ Due(c) # {}
    /\ requests' = [i \in DOMAIN requests |->
                       IF i \in Due(c) THEN [requests[i] EXCEPT !.delivered = TRUE] ELSE requests[i]]
    /\ receipts' = [i \in DOMAIN receipts |-> receipts[i] + IF i \in Due(c) THEN 1 ELSE 0]
    /\ UNCHANGED <<epoch, completed, blocked>>

\* acknowledgeCancellation, of a request in any status
Acknowledge(i, reply) ==
    /\ CancellationStatus(i) # reply
    /\ requests' = [requests EXCEPT ![i].status = reply]
    /\ blocked' = blocked \ {i}
    /\ UNCHANGED <<epoch, completed, receipts>>

\* evaluateStopOutcome or decideWatchdogResume, after the time to wait
StopOutcomeUnknown(i) ==
    /\ CancellationStatus(i) = "requested"
    /\ requests' = [requests EXCEPT ![i].status = "unknown-stop-outcome"]
    /\ blocked' = blocked \cup {i}
    /\ UNCHANGED <<epoch, completed, receipts>>

\* Mutant: only requests made in the present epoch count.
RefusalsOfEpoch(c) ==
    {i \in Of(c) : CancellationStatus(i) \in {"unknown-stop-outcome", "acknowledged-stopped"}
                       /\ requests[i].epoch = epoch[c]}

\* Requests of earlier epochs count too.
Refusals(c) == {i \in Of(c) : CancellationStatus(i) \in {"unknown-stop-outcome", "acknowledged-stopped"}}

\* declareToolCompletion; other declarations change nothing.
DeclareCompletion(c, e) ==
    /\ epoch[c] > 0 /\ e = epoch[c] /\ Refusals(c) = {}
    /\ completed' = [completed EXCEPT ![c] = TRUE]
    /\ UNCHANGED <<epoch, requests, blocked, receipts>>

\* The latest request of the task, the first made among equals.
Latest(t) ==
    CHOOSE i \in OfTask(t) : \A j \in OfTask(t) :
        \/ requests[j].revision < requests[i].revision
        \/ requests[j].revision = requests[i].revision /\ i <= j

\* The request that has the identifier of a successor already: it is made from the
\* identifier of the latest request of the task and the revision, and no more.
Namesakes(t, r) == {i \in OfTask(t) : requests[i].from = Latest(t) /\ requests[i].revision = r}

\* convergeSupersededRequests: whatever had become of the older requests, one new
\* request stands for them.  When its identifier is taken, Map.set writes it over
\* the request that has it, in its place and whatever its status.
Converge(t, r) ==
    LET older == {i \in OfTask(t) : CancellationStatus(i) # "superseded" /\ requests[i].revision < r}
        kept == [i \in DOMAIN requests |->
                    IF i \in older THEN [requests[i] EXCEPT !.status = "superseded"] ELSE requests[i]]
        successor == [requests[Latest(t)] EXCEPT !.revision = r, !.status = "requested",
                                                 !.delivered = FALSE, !.from = Latest(t)]
        same == Namesakes(t, r)
    IN  /\ older # {}
        /\ \/ same = {} /\ Len(requests) < MaxRequests /\ requests' = Append(kept, successor)
           \/ /\ same # {}
              /\ requests' = [i \in DOMAIN requests |-> IF i \in same THEN successor ELSE kept[i]]
        /\ blocked' = blocked \ (older \cup same)
        /\ receipts' = [i \in DOMAIN receipts |-> IF i \in same THEN 0 ELSE receipts[i]]
        /\ UNCHANGED <<epoch, completed>>

\* Mutant: an unknown outcome does not keep the watchdog from resuming.
MayResumeUnknown(t, r) ==
    /\ \A i \in OfTask(t) : CancellationStatus(i) \notin {"requested", "acknowledged-stopped"}
    /\ ~\E i \in OfTask(t) : CancellationStatus(i) = "superseded" /\ requests[i].revision > r

\* decideWatchdogResume; a request that is overdue becomes unknown first
\* (StopOutcomeUnknown).
MayResume(t, r) ==
    /\ \A i \in OfTask(t) :
          CancellationStatus(i) \notin {"unknown-stop-outcome", "requested", "acknowledged-stopped"}
    /\ ~\E i \in OfTask(t) : CancellationStatus(i) = "superseded" /\ requests[i].revision > r

LongToolNext ==
    \/ \E c \in ToolCall : Begin(c) \/ Checkpoint(c)
    \/ \E c \in ToolCall, r \in 1..MaxRevisionOf : RequestCancel(c, r)
    \/ \E c \in ToolCall, e \in 1..MaxEpoch : DeclareCompletion(c, e)
    \/ \E i \in DOMAIN requests :
          \/ \E reply \in {"acknowledged-stopped", "acknowledged-completed"} : Acknowledge(i, reply)
          \/ StopOutcomeUnknown(i)
    \/ \E c \in ToolCall, r \in 1..MaxRevisionOf : Converge(ToolTaskOf[c], r)

LongToolSpec == LongToolInit /\ [][LongToolNext]_longToolVars

----------------------------------------------------------------------------
(* Properties.                                                             *)

\* A request reaches the tool at no more than one checkpoint, whatever else
\* happens to it; its successor is a request of its own, also where it is written
\* over another one.
DeliveredOnce ==
    /\ \A i \in DOMAIN receipts : receipts[i] <= 1
    /\ \A i \in DOMAIN requests : requests[i].delivered <=> receipts[i] = 1
    /\ blocked \subseteq {i \in DOMAIN requests : CancellationStatus(i) = "unknown-stop-outcome"}

\* ADR-0038: an unknown outcome of a stop blocks.  No execution of the tool
\* call, not even one begun later, is declared complete before the request was
\* answered or superseded, or a successor of its own identifier was written over
\* it (which the decision does not provide for: the unknown outcome is lost).
UnknownBlocksCompletion ==
    [][\A c \in ToolCall :
          completed'[c] /\ ~completed[c] => \A i \in blocked : requests[i].call # c]_longToolVars

\* The watchdog resumes a task only if nobody asked for its end, or if the
\* tool answered one of the requests by completing: through any chain of
\* successors, the last request is never an open, stopped or unknown one.
ResumeIsSettled ==
    \A c \in ToolCall, r \in 1..MaxRevisionOf :
        LET t == ToolTaskOf[c] IN
        MayResume(t, r) /\ OfTask(t) # {} =>
            \E i \in OfTask(t) : CancellationStatus(i) = "acknowledged-completed"

\* The requests to cancel a long tool: delivered once, and settled before the
\* watchdog resumes the task.
LongToolInv == DeliveredOnce /\ ResumeIsSettled
=============================================================================
