------------------------------- MODULE MCAgents -------------------------------
(* Instances of the components around the agents of one application: the       *)
(* scheduler's graph, the loop of a worker, guidance and changes that reach it, *)
(* long tools, questions for permission, the summary of what they recorded and  *)
(* the closure of their contexts.  Each is on its own: part says which of them  *)
(* a behaviour is about.                                                        *)
EXTENDS DagScheduler, ToolLoop, RuntimeGuidance, PermissionAsk, SummaryIndex, ContextClosure, TLC

CONSTANTS n1, n2    \* the nodes of the context graph

VARIABLE part

\* Nothing tells the nodes apart.
AlikeNodes == Permutations(Node)

\* Three tasks compete for two slots: 2, 3 and 4 wait for 1, and 5 waits for 2 and 3.
FiveTasks == 1..5
Diamond == [t \in FiveTasks |-> CASE t = 1 -> {} [] t \in 2..4 -> {1} [] t = 5 -> {2, 3}]

\* A new mission, and one resumed after its process died in the middle of task 1.
NewAndResumed ==
    {[t \in FiveTasks |-> "pending"],
     [t \in FiveTasks |-> CASE t = 1 -> "running" [] t = 4 -> "blocked" [] OTHER -> "pending"]}

\* Two events with one identifier, in two revisions, and one that is only recorded.
Ids    == [e \in Event |-> IF e = "e3" THEN "b" ELSE "a"]
Revs   == [e \in Event |-> IF e = "e2" THEN 2 ELSE 1]
Seqs   == [e \in Event |-> CASE e = "e1" -> 1 [] e = "e2" -> 2 [] e = "e3" -> 3]
Scopes == [e \in Event |-> IF e = "e3" THEN "t2" ELSE "t1"]

TwoArchives == <<"a1", "a2">>

OneTarget == [c \in Change |-> "t1"]
OneTool   == [c \in ToolCall |-> "t1"]

AgentsInit ==
    /\ part \in {"dag", "loop", "guidance", "changes", "tool", "ask", "summary", "context"}
    /\ DagInit /\ ToolLoopInit /\ GuidanceInit /\ GuidanceChangesInit /\ LongToolInit /\ AskInit
    /\ SummaryInit /\ ContextInit
    \* The other parts do not depend on the chain and the guard: one initial state is enough.
    /\ part # "dag" => status[1] = "pending"
    /\ part # "loop" => isGuarded

AgentsNext ==
    /\ UNCHANGED part
    /\ \/ /\ part = "dag" /\ DagNext
          /\ UNCHANGED <<toolLoopVars, guidanceVars, guidanceChangesVars, longToolVars, askVars, summaryVars, contextVars>>
       \/ /\ part = "loop" /\ ToolLoopNext
          /\ UNCHANGED <<dagVars, guidanceVars, guidanceChangesVars, longToolVars, askVars, summaryVars, contextVars>>
       \/ /\ part = "guidance" /\ GuidanceNext
          /\ UNCHANGED <<dagVars, toolLoopVars, guidanceChangesVars, longToolVars, askVars, summaryVars, contextVars>>
       \/ /\ part = "changes" /\ GuidanceChangesNext
          /\ UNCHANGED <<dagVars, toolLoopVars, guidanceVars, longToolVars, askVars, summaryVars, contextVars>>
       \/ /\ part = "tool" /\ LongToolNext
          /\ UNCHANGED <<dagVars, toolLoopVars, guidanceVars, guidanceChangesVars, askVars, summaryVars, contextVars>>
       \/ /\ part = "ask" /\ AskNext
          /\ UNCHANGED <<dagVars, toolLoopVars, guidanceVars, guidanceChangesVars, longToolVars, summaryVars, contextVars>>
       \/ /\ part = "summary" /\ SummaryNext
          /\ UNCHANGED <<dagVars, toolLoopVars, guidanceVars, guidanceChangesVars, longToolVars, askVars, contextVars>>
       \/ /\ part = "context" /\ ContextNext
          /\ UNCHANGED <<dagVars, toolLoopVars, guidanceVars, guidanceChangesVars, longToolVars, askVars, summaryVars>>

agentsVars ==
    <<part, dagVars, toolLoopVars, guidanceVars, guidanceChangesVars, longToolVars, askVars, summaryVars, contextVars>>

AgentsSpec == AgentsInit /\ [][AgentsNext]_agentsVars
=============================================================================
