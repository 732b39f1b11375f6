---------------------------- MODULE TertiaryShutdown ----------------------------
(***************************************************************************)
(* The orderly end of a tertiary agent (orchestration/tertiary-            *)
(* lifecycle.ts): phases run one after the other, each with a hook; before *)
(* each of them the phases that are over are written to the agent's file,  *)
(* so that a restart goes on where the process ended.  One controller      *)
(* serves all agents, and its state is that of the last call.              *)
(***************************************************************************)
EXTENDS Naturals, FiniteSets

CONSTANTS
    Tertiary,     \* agents that are shut down
    Closer,       \* calls of shutdown() that may overlap
    LastPhase,    \* the number of phases before "closed"
    HandoffPhase, \* the phase whose result is kept ("persisting-checkpoint" and "writing-handoff" alike)
    MaxRuns       \* bound on the runs of the hook of a phase

ASSUME TertiaryShutdownAssumption ==
    IsFiniteSet(Closer) /\ LastPhase \in Nat /\ HandoffPhase \in 1 .. LastPhase /\ MaxRuns \in Nat

VARIABLES
    lifecycleFile, \* lifecycleFile[a]: the file of the agent
    lifecycle,     \* state of the controller: agent, phase and kept result
    closer,        \* closer[k]: what the call is doing, its agent and the phases it knows to be over
    hookRuns,      \* history: how often the hook of a phase of an agent has ended well
    overlapped     \* history: the pairs of agents whose calls have overlapped

shutdownVars == <<lifecycleFile, lifecycle, closer, hookRuns, overlapped>>

Phases == 1 .. LastPhase
ClosedPhase == LastPhase + 1

NoFile == [over |-> {}, result |-> 0, isClosed |-> FALSE]
Off == [agent |-> "nobody", phase |-> 0, result |-> 0]
NoCloser == [doing |-> "idle", agent |-> "nobody", over |-> {}, phase |-> 0]

ShutdownInit ==
    /\ lifecycleFile = [a \in Tertiary |-> NoFile]
    /\ lifecycle = Off
    /\ closer = [k \in Closer |-> NoCloser]
    /\ hookRuns = [a \in Tertiary |-> [p \in Phases |-> 0]]
    /\ overlapped = {}

Remaining(over) == Phases \ over
FirstOf(S) == CHOOSE p \in S \cup {ClosedPhase} : \A q \in S : p <= q

\* The phases a call still has to go through, after those it knows to be over.
GoesOn(k, a, over) ==
    closer' = [closer EXCEPT ![k] =
        [doing |-> IF Remaining(over) = {} THEN "closing" ELSE "beginning", agent |-> a, over |-> over,
         phase |-> FirstOf(Remaining(over))]]

Busy(k) == closer[k].doing # "idle"
\* A call about agent a overlaps those of other callers that are under way.
Overlaps(a, others) == overlapped' = overlapped \cup {{a, closer[j].agent} : j \in {i \in others : Busy(i)}}

\* shutdown: nothing is left to do when the controller is closed ...
ShutsDown(k, a) ==
    /\ ~Busy(k)
    /\ lifecycle.phase # ClosedPhase
    /\ closer' = [closer EXCEPT ![k] = [NoCloser EXCEPT !.doing = "reading", !.agent = a]]
    /\ Overlaps(a, Closer \ {k})
    /\ UNCHANGED <<lifecycleFile, lifecycle, hookRuns>>

\* A mutant: what the hook has handed over is not read back.
FromFileWithoutResult(a, phase) ==
    [agent |-> a, result |-> 0, phase |-> IF lifecycleFile[a].isClosed THEN ClosedPhase ELSE phase]
\* The controller as the file of an agent has it.
FromFile(a, phase) ==
    [agent |-> a, result |-> lifecycleFile[a].result, phase |-> IF lifecycleFile[a].isClosed THEN ClosedPhase ELSE phase]

\* ... or the agent's file is; otherwise the phases that are not over are run.
ReadsFile(k) ==
    /\ closer[k].doing = "reading"
    /\ LET a == closer[k].agent
       IN /\ lifecycle' = FromFile(a, 1)
          /\ IF lifecycleFile[a].isClosed THEN closer' = [closer EXCEPT ![k] = NoCloser]
             ELSE GoesOn(k, a, lifecycleFile[a].over)
    /\ UNCHANGED <<lifecycleFile, hookRuns, overlapped>>

\* resume only tells where shutdown would go on.
Resumes(a) ==
    /\ lifecycleFile[a] # NoFile
    /\ lifecycle' = FromFile(a, FirstOf(Remaining(lifecycleFile[a].over)))
    /\ Overlaps(a, Closer)
    /\ UNCHANGED <<lifecycleFile, closer, hookRuns>>

\* runPhase: the file says which phases are over, of the agent the controller is at.
PhaseBegins(k) ==
    /\ closer[k].doing = "beginning"
    /\ lifecycle' = [lifecycle EXCEPT !.phase = closer[k].phase]
    /\ lifecycleFile' = [lifecycleFile EXCEPT ![lifecycle.agent] =
                            [over |-> closer[k].over, result |-> lifecycle.result, isClosed |-> FALSE]]
    /\ closer' = [closer EXCEPT ![k].doing = "running"]
    /\ UNCHANGED <<hookRuns, overlapped>>

HookEnds(k) ==
    /\ closer[k].doing = "running"
    /\ LET a == closer[k].agent
           p == closer[k].phase
       IN /\ hookRuns[a][p] < MaxRuns
          /\ hookRuns' = [hookRuns EXCEPT ![a][p] = @ + 1]
          /\ lifecycle' = IF p = HandoffPhase THEN [lifecycle EXCEPT !.result = hookRuns[a][p] + 1] ELSE lifecycle
          /\ GoesOn(k, a, closer[k].over \cup {p})
    /\ UNCHANGED <<lifecycleFile, overlapped>>

\* A mutant: the call goes on with the next phase.
AfterFailureNext(k) == [closer[k] EXCEPT !.doing = "beginning", !.over = @ \cup {closer[k].phase},
                        !.phase = IF @ < LastPhase THEN @ + 1 ELSE @]
\* A hook that fails ends the call; what the file says stays.
AfterFailure(k) == NoCloser
HookFails(k) ==
    /\ closer[k].doing = "running"
    /\ closer' = [closer EXCEPT ![k] = AfterFailure(k)]
    /\ UNCHANGED <<lifecycleFile, lifecycle, hookRuns, overlapped>>

Shuts(k) ==
    /\ closer[k].doing = "closing"
    /\ lifecycle' = [lifecycle EXCEPT !.phase = ClosedPhase]
    /\ closer' = [closer EXCEPT ![k].doing = "writing"]
    /\ UNCHANGED <<lifecycleFile, hookRuns, overlapped>>

WritesClosed(k) ==
    /\ closer[k].doing = "writing"
    /\ lifecycleFile' = [lifecycleFile EXCEPT ![closer[k].agent] =
                            [over |-> Phases, result |-> lifecycle.result, isClosed |-> TRUE]]
    /\ closer' = [closer EXCEPT ![k] = NoCloser]
    /\ UNCHANGED <<lifecycle, hookRuns, overlapped>>

\* The process ends.  A file that was being written cannot be read afterwards and counts as none.
ProcessEnds ==
    /\ \E torn \in SUBSET {closer[k].agent : k \in {j \in Closer : closer[j].doing \in {"beginning", "writing"}}} :
          lifecycleFile' = [a \in Tertiary |-> IF a \in torn THEN NoFile ELSE lifecycleFile[a]]
    /\ lifecycle' = Off
    /\ closer' = [k \in Closer |-> NoCloser]
    /\ UNCHANGED <<hookRuns, overlapped>>

ShutdownNext ==
    \/ \E k \in Closer :
        \/ \E a \in Tertiary : ShutsDown(k, a)
        \/ ReadsFile(k) \/ PhaseBegins(k) \/ HookEnds(k) \/ HookFails(k) \/ Shuts(k) \/ WritesClosed(k)
    \/ \E a \in Tertiary : Resumes(a)
    \/ ProcessEnds

ShutdownSpec == ShutdownInit /\ [][ShutdownNext]_shutdownVars

--------------------------------------------------------------------------------
(* Properties.                                                             *)

\* The controller keeps the state of one call.  As long as it is never at work for two agents
\* at once, however often calls about one of them have overlapped ...
OneAgentAtATime == overlapped \subseteq {{a} : a \in Tertiary}

\* ... whatever fails, ends or runs twice: no phase of an agent ends before those ahead of it
\* have, and what the file calls over, or the controller calls closed, has happened.
PhasesInOrder == OneAgentAtATime =>
    /\ \A a \in Tertiary, p, q \in Phases : q < p /\ hookRuns[a][p] > 0 => hookRuns[a][q] > 0
    /\ \A a \in Tertiary : \A p \in lifecycleFile[a].over : hookRuns[a][p] > 0
    /\ \A p \in Phases : lifecycle.phase = ClosedPhase => hookRuns[lifecycle.agent][p] > 0

\* When no calls have overlapped, a closed agent keeps the handoff its hook has made last.
HandoffIsTheLast ==
    \A a \in Tertiary : lifecycleFile[a].isClosed /\ overlapped = {} => lifecycleFile[a].result = hookRuns[a][HandoffPhase]

\* The phases of a shutdown and the file that tells of them.
ShutdownInv == PhasesInOrder /\ HandoffIsTheLast
==============================================================================
