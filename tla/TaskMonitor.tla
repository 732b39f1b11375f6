----------------------------- MODULE TaskMonitor -----------------------------
(***************************************************************************)
(* The status of one task as the public application reports it             *)
(* (public-sdk.ts: the monitor of the task, queryTask and cancelTask).     *)
(* Polls, queries and cancellations overlap; each awaits the state of the  *)
(* mission and then changes the one record of the task and the events the  *)
(* subscribers see.                                                        *)
(***************************************************************************)
EXTENDS Naturals, FiniteSets

CONSTANTS
    Poll,           \* polls that can be in flight (the timer does not wait)
    Query,          \* calls of queryTask
    Canceller       \* calls of cancelTask

VARIABLES
    mission,        \* what mapMissionStatus makes of the mission on disk
    record,         \* TaskRecord.status
    monitored,      \* taskMonitors has a timer for the task
    call,           \* where each poll, query and cancellation is
    answer,         \* the status each of them was given
    finishedEvents, \* history: task-finished events emitted
    isClosed        \* isClosedFlag

monitor == <<mission, record, monitored, call, answer, finishedEvents, isClosed>>

Final == {"done", "failed", "cancelled"}
Caller == Poll \cup Query \cup Canceller

MonitorInit ==
    /\ mission = "running" /\ record = "accepted" /\ monitored = TRUE
    /\ call = [c \in Caller |-> "idle"] /\ answer = [c \in Caller |-> "running"]
    /\ finishedEvents = 0 /\ isClosed = FALSE

Steps(c, from, to) == call[c] = from /\ call' = [call EXCEPT ![c] = to]

\* The scheduler, external here: it ends, or its tasks are blocked and released.
MissionMoves(status) ==
    /\ mission \notin Final /\ status # mission /\ mission' = status
    /\ UNCHANGED <<record, monitored, call, answer, finishedEvents, isClosed>>

\* pollTaskStatus and queryTask ask for a record that is not final ...
Asks(c) ==
    /\ ~isClosed /\ record \notin Final
    /\ c \in Poll => monitored
    /\ c \in Poll \cup Query /\ Steps(c, "idle", "asks")
    /\ UNCHANGED <<mission, record, monitored, answer, finishedEvents, isClosed>>

\* Mutant: a mission that cannot be read counts as failed.
UnreadableFails == "failed"

Unreadable == "blocked"

\* ... read the mission; a poll that cannot takes it for blocked ...
Reads(c) ==
    /\ Steps(c, "asks", "knows")
    /\ \/ answer' = [answer EXCEPT ![c] = mission]
       \/ c \in Poll /\ answer' = [answer EXCEPT ![c] = Unreadable]
    /\ UNCHANGED <<mission, record, monitored, finishedEvents, isClosed>>

\* ... and change the record.  A poll that ended the task stops the timer, waits
\* for the result of the mission and emits task-finished.
Polled(c) ==
    /\ c \in Poll
    /\ IF isClosed \/ answer[c] = record
       THEN Steps(c, "knows", "idle") /\ UNCHANGED <<record, monitored>>
       ELSE /\ Steps(c, "knows", IF answer[c] \in Final THEN "reports" ELSE "idle")
            /\ record' = answer[c]
            /\ monitored' = (monitored /\ answer[c] \notin Final)
    /\ UNCHANGED <<mission, answer, finishedEvents, isClosed>>

Queried(c) ==
    /\ c \in Query /\ Steps(c, "knows", "idle") /\ record' = answer[c]
    /\ UNCHANGED <<mission, monitored, answer, finishedEvents, isClosed>>

Reports(c) ==
    /\ Steps(c, "reports", "idle")
    /\ finishedEvents' = IF isClosed THEN finishedEvents ELSE finishedEvents + 1
    /\ UNCHANGED <<mission, record, monitored, answer, isClosed>>

\* cancelTask: the timer stops, the mission is cancelled, the event follows.
Cancels(c) ==
    /\ ~isClosed /\ record \notin Final /\ c \in Canceller
    /\ Steps(c, "idle", "cancels") /\ monitored' = FALSE
    /\ UNCHANGED <<mission, record, answer, finishedEvents, isClosed>>

CancelsMission(c) ==
    /\ Steps(c, "cancels", "cancelled") /\ mission' = "cancelled"
    /\ UNCHANGED <<record, monitored, answer, finishedEvents, isClosed>>

CancelReports(c) ==
    /\ Steps(c, "cancelled", "over") /\ record' = "cancelled"
    /\ finishedEvents' = finishedEvents + 1
    /\ UNCHANGED <<mission, monitored, answer, isClosed>>

\* shutdown() stops the timers and waits for the polls in flight.
ClosesApplication ==
    /\ ~isClosed /\ isClosed' = TRUE /\ monitored' = FALSE
    /\ UNCHANGED <<mission, record, call, answer, finishedEvents>>

MonitorNext ==
    \/ \E status \in {"running", "blocked", "done", "failed", "cancelled"} : MissionMoves(status)
    \/ \E c \in Caller :
        \/ Asks(c) \/ Reads(c) \/ Polled(c) \/ Queried(c) \/ Reports(c)
        \/ Cancels(c) \/ CancelsMission(c) \/ CancelReports(c)
    \/ ClosesApplication

MonitorSpec == MonitorInit /\ [][MonitorNext]_monitor

-----------------------------------------------------------------------------
(* Properties.                                                              *)

\* A task is reported as over only when its mission is over, whatever was read
\* before and applied late, and nothing is polled once the timer has stopped.
ReportedEndIsReal ==
    /\ record \in Final \/ finishedEvents > 0 => mission \in Final
    /\ \A c \in Poll : call[c] = "reports" => mission \in Final /\ ~monitored

\* "task-finished is emitted once, at the end only"
\* (docs/tasks/T07D_R1_APPLICATION_SDK_WIRING_TASK_CARD.md:65)
FinishedOnce == finishedEvents <= 1
=============================================================================
