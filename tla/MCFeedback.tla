------------------------------ MODULE MCFeedback ------------------------------
(* Instances of Mailbox, two messages for one agent, and of FeedbackSupervisor, *)
(* each on its own: part says which of the two a behaviour is about.            *)
EXTENDS FeedbackProcess

CONSTANTS agent, user, m1, m2

VARIABLE part

ToAgent == [m \in Message |-> agent]
Ranks   == [m \in Message |-> IF m = m1 THEN 1 ELSE 0]
Senders == [m \in Message |-> IF m = m2 THEN agent ELSE user]

\* A supervisor that was stopped before its first child said hello.
Stopped ==
    /\ current = 0 /\ alive = {} /\ started = 1 /\ stop = "done"
    /\ hung = {} /\ ready = {} /\ exiting = {}
    /\ pending = [g \in Generation |-> 0] /\ backoff = 0 /\ restarts = 0
    /\ starting = TRUE /\ looping = FALSE /\ faults = MaxFaults

\* Where the mailboxes move the supervisor has been stopped, and where the
\* supervisor moves nothing has been sent: no fair action of the other waits.
FeedbackInit ==
    /\ MailboxInit
    /\ \/ part = "mailbox" /\ Stopped
       \/ part = "supervisor" /\ SupervisorInit

FeedbackNext ==
    \/ part = "mailbox" /\ MailboxNext /\ UNCHANGED <<part, supervisorVars>>
    \/ part = "supervisor" /\ SupervisorNext /\ UNCHANGED <<part, mailboxVars>>

FeedbackSpec ==
    /\ FeedbackInit /\ [][FeedbackNext]_<<part, mailboxVars, supervisorVars>>
    /\ MailboxFairness /\ SupervisorFairness
=============================================================================
