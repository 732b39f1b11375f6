--------------------------- MODULE FeedbackSupervisor ---------------------------
(***************************************************************************)
(* The supervisor of the feedback process                                  *)
(* (feedback-process/process-supervisor.ts): it starts the child, asks it  *)
(* for its health, sends heartbeats, and replaces it after a failure, up   *)
(* to a number of restarts.  Children are numbered in the order of their   *)
(* starts; a child and the client that talks to it have the same number.   *)
(***************************************************************************)
EXTENDS Naturals, FiniteSets

CONSTANTS
    MaxRestarts,  \* maximumRestartAttempts
    MaxPending,   \* bound: health requests of one client that await an answer
    MaxFaults     \* bound: children that die or hang by themselves

ASSUME SupervisorAssumption ==
    MaxRestarts \in Nat /\ MaxPending \in Nat \ {0} /\ MaxFaults \in Nat

VARIABLES
    current,     \* childProcess and client; 0 when null
    alive,       \* children that run
    hung,        \* those that run but neither answer nor exit when asked to
    ready,       \* children whose ready message has arrived
    exiting,     \* children whose exit event has not been handled
    pending,     \* pending[g]: unanswered health requests of client g
    backoff,     \* restart timers that are set
    restarts,    \* restartAttemptCount
    started,     \* number of children started so far
    starting,    \* has start() not returned
    looping,     \* are the health check and the heartbeat loop on
    stop,        \* stop(): "no", "waiting" for the child to exit, "done"
    faults       \* bound

processVars == <<alive, hung, ready, exiting, started>>
supervisorVars == <<current, processVars, pending, backoff, restarts, starting, looping,
                    stop, faults>>

Generation == 1 .. MaxRestarts + 1

SupervisorInit ==
    /\ current = 1 /\ alive = {1} /\ started = 1
    /\ hung = {} /\ ready = {} /\ exiting = {}
    /\ pending = [g \in Generation |-> 0]
    /\ backoff = 0 /\ restarts = 0
    /\ starting = TRUE /\ looping = FALSE /\ stop = "no"
    /\ faults = 0

\* Mutant: the limit is compared before the attempt is counted.
MayRestartOneMore == restarts <= MaxRestarts

\* Mutant: the last restart is not made.
MayRestartOneLess == restarts + 1 < MaxRestarts

MayRestart == restarts + 1 <= MaxRestarts

\* handleChildProcessFailure: the present child is dropped and killed,
\* whichever child the failure was reported for.
Fails ==
    IF stop # "no"
    THEN UNCHANGED <<current, alive, hung, exiting, backoff, restarts, looping>>
    ELSE /\ current' = 0
         /\ alive' = alive \ {current} /\ hung' = hung \ {current}
         /\ exiting' = exiting \cup (alive \cap {current})
         /\ restarts' = restarts + 1
         /\ backoff' = IF MayRestart THEN backoff + 1 ELSE backoff
         /\ looping' = (looping /\ MayRestart)

----------------------------------------------------------------------------
(* The children.                                                           *)

\* A child dies: a crash, or its entry cannot run at all.
Dies(g) ==
    /\ g \in alive /\ faults < MaxFaults
    /\ alive' = alive \ {g} /\ hung' = hung \ {g} /\ exiting' = exiting \cup {g}
    /\ faults' = faults + 1
    /\ UNCHANGED <<current, ready, started, pending, backoff, restarts, starting, looping,
                   stop>>

Hangs(g) ==
    /\ g \in alive \ hung /\ faults < MaxFaults
    /\ hung' = hung \cup {g} /\ faults' = faults + 1
    /\ UNCHANGED <<current, alive, ready, exiting, started, pending, backoff, restarts,
                   starting, looping, stop>>

\* The child answers hello.  start() waits for its first child only, and then sets its
\* timers, also when stop() has been called while it waited.
BecomesReady(g) ==
    /\ g \in alive \ hung /\ g \notin ready
    /\ ready' = ready \cup {g}
    /\ starting' = (starting /\ g # 1)
    /\ looping' = (looping \/ (g = 1 /\ starting))
    /\ UNCHANGED <<current, alive, hung, exiting, started, pending, backoff, restarts, stop, faults>>

\* refreshHeartbeatWatchdog: a child that said hello and hears no heartbeat
\* exits by itself.  Heartbeats go to the present client, while the loop runs
\* and stop() has not been called.
WatchdogExits(g) ==
    /\ g \in (alive \cap ready) \ hung
    /\ ~(g = current /\ looping /\ stop = "no")
    /\ alive' = alive \ {g} /\ exiting' = exiting \cup {g}
    /\ UNCHANGED <<current, hung, ready, started, pending, backoff, restarts, starting,
                   looping, stop, faults>>

\* Mutant: the exit event is heeded only once the loops run.
ExitHandledLate(g) ==
    /\ g \in exiting
    /\ exiting' = (exiting \ {g})
    /\ IF g = current /\ stop = "no" /\ looping
       THEN /\ current' = 0 /\ restarts' = restarts + 1
            /\ backoff' = IF MayRestart THEN backoff + 1 ELSE backoff
            /\ looping' = (looping /\ MayRestart)
       ELSE UNCHANGED <<current, restarts, backoff, looping>>
    /\ UNCHANGED <<alive, hung, ready, started, pending, starting, stop, faults>>

\* The exit event counts only for the present child.
ExitHandled(g) ==
    /\ g \in exiting
    /\ exiting' = (exiting \ {g})
    /\ IF g = current /\ stop = "no"
       THEN /\ current' = 0 /\ restarts' = restarts + 1
            /\ backoff' = IF MayRestart THEN backoff + 1 ELSE backoff
            /\ looping' = (looping /\ MayRestart)
       ELSE UNCHANGED <<current, restarts, backoff, looping>>
    /\ UNCHANGED <<alive, hung, ready, started, pending, starting, stop, faults>>

----------------------------------------------------------------------------
(* The timers of the supervisor.                                           *)

\* startHealthCheckLoop: a disconnected child fails at once.
HealthCheck ==
    /\ looping /\ current # 0
    /\ IF current \in alive
       THEN /\ pending[current] < MaxPending
            /\ pending' = [pending EXCEPT ![current] = @ + 1]
            /\ UNCHANGED <<current, alive, hung, exiting, backoff, restarts, looping>>
       ELSE Fails /\ UNCHANGED pending
    /\ UNCHANGED <<ready, started, starting, stop, faults>>

HealthAnswered(g) ==
    /\ pending[g] > 0 /\ g \in (alive \cap ready) \ hung
    /\ pending' = [pending EXCEPT ![g] = @ - 1]
    /\ UNCHANGED <<current, processVars, backoff, restarts, starting, looping, stop, faults>>

\* The request of a client times out: a child that is dead, hung or not yet
\* ready does not answer in time.  By now another child may be the present one.
HealthTimesOut(g) ==
    /\ pending[g] > 0 /\ g \notin (alive \cap ready) \ hung
    /\ pending' = [pending EXCEPT ![g] = @ - 1]
    /\ Fails
    /\ UNCHANGED <<ready, started, starting, stop, faults>>

\* The restart timer: spawnChildProcess replaces whatever child there is.
Respawns ==
    /\ backoff > 0
    /\ backoff' = backoff - 1
    /\ IF stop # "no"
       THEN UNCHANGED <<current, alive, started>>
       ELSE /\ started' = started + 1
            /\ current' = started + 1 /\ alive' = alive \cup {started + 1}
    /\ UNCHANGED <<hung, ready, exiting, pending, restarts, starting, looping, stop, faults>>

----------------------------------------------------------------------------
(* stop().                                                                 *)

StopRequested ==
    /\ stop = "no"
    /\ stop' = "waiting" /\ looping' = FALSE
    /\ UNCHANGED <<current, processVars, pending, backoff, restarts, starting,
                   faults>>

\* The child answers shutdown and exits, or is killed after the grace period.
StopEnds ==
    /\ stop = "waiting"
    /\ stop' = "done" /\ current' = 0
    /\ alive' = alive \ {current} /\ hung' = hung \ {current}
    /\ exiting' = exiting \cup (alive \cap {current})
    /\ UNCHANGED <<ready, started, pending, backoff, restarts, starting, looping,
                   faults>>

----------------------------------------------------------------------------
SupervisorNext ==
    \/ \E g \in Generation :
          Dies(g) \/ Hangs(g) \/ BecomesReady(g) \/ WatchdogExits(g) \/ ExitHandled(g)
    \/ \E g \in Generation : HealthAnswered(g) \/ HealthTimesOut(g)
    \/ HealthCheck \/ Respawns \/ StopRequested \/ StopEnds

SupervisorSpec == SupervisorInit /\ [][SupervisorNext]_supervisorVars

\* Timers fire, events are handled and a child that runs answers.
SupervisorFairness ==
    /\ \A g \in Generation :
          /\ WF_supervisorVars(BecomesReady(g)) /\ WF_supervisorVars(WatchdogExits(g))
          /\ WF_supervisorVars(ExitHandled(g)) /\ WF_supervisorVars(HealthTimesOut(g))
          /\ WF_supervisorVars(HealthAnswered(g))
    /\ WF_supervisorVars(HealthCheck) /\ WF_supervisorVars(Respawns)
    /\ WF_supervisorVars(StopEnds)

FairSupervisorSpec == SupervisorSpec /\ SupervisorFairness

----------------------------------------------------------------------------
(* Properties.                                                             *)

SupervisorTypeOK ==
    /\ current \in {0} \cup Generation
    /\ {alive, hung, ready, exiting} \subseteq SUBSET Generation
    /\ pending \in [Generation -> 0..MaxPending]
    /\ backoff \in 0..MaxRestarts /\ restarts \in Nat
    /\ started \in Generation
    /\ starting \in BOOLEAN /\ looping \in BOOLEAN
    /\ stop \in {"no", "waiting", "done"}
    /\ faults \in 0..MaxFaults

\* However failures are reported (an exit, a lost connection, late timeouts of
\* several requests), every restart is paid for by one counted failure.
RestartsAreCounted ==
    /\ started + backoff <= 1 + restarts
    /\ started + backoff <= 1 + MaxRestarts

\* The supervisor never ends up without a child and without a timer that
\* starts one, unless it was stopped or the restarts are used up.
NeverForgotten ==
    current = 0 /\ stop = "no" => backoff > 0 \/ restarts > MaxRestarts

\* Whenever there is no child that runs, another one runs in the end, unless
\* the supervisor is stopped or the restarts are used up.
ChildComesBack ==
    current \notin alive ~> current \in alive \/ stop # "no" \/ restarts > MaxRestarts

\* The supervisor's bookkeeping of its children, in whatever order exits,
\* timeouts and restarts arrive.
SupervisorInv == SupervisorTypeOK /\ RestartsAreCounted /\ NeverForgotten
==============================================================================
