-------------------------------- MODULE Mailbox --------------------------------
(***************************************************************************)
(* The delivery of feedback messages (feedback-process): the mailbox       *)
(* journals, the child process that serves them and the client in the main *)
(* process.                                                                *)
(*                                                                         *)
(* The child handles every IPC message as a task of its own.  A task reads *)
(* a journal in one step and saves it in a later one (a rename, so a save  *)
(* is all or nothing), and no lock keeps two tasks on the same journal     *)
(* apart.  A crash of the child loses its tasks, timers, statuses and      *)
(* whatever is on its way to the client.                                   *)
(***************************************************************************)
EXTENDS Naturals, FiniteSets

CONSTANTS
    Message,     \* the messages the main process sends
    Recipient,
    To,          \* To[m]: recipientId
    Rank,        \* Rank[m]: position of the priority in MESSAGE_PRIORITY_ORDER
    Sender,      \* Sender[m]: the agent that sends m, or a source that is not an agent
    Unhurried,   \* assume that file operations and IPC are over within 2 s
    MaxAttempts, \* bound: where the busy counter stops mattering
    MaxBusy,     \* bound: how often recipients become busy
    MaxCrashes   \* bound: crashes of the child

ASSUME MailboxAssumption ==
    /\ IsFiniteSet(Message) /\ IsFiniteSet(Recipient)
    /\ To \in [Message -> Recipient] /\ Rank \in [Message -> Nat]
    /\ DOMAIN Sender = Message /\ Unhurried \in BOOLEAN
    /\ {MaxAttempts, MaxBusy, MaxCrashes} \subseteq Nat

VARIABLES
    mailbox,     \* mailbox[r]: the journal file of r
    running,     \* is the child connected
    asked,       \* tasks of the child that are about to read a journal
    saving,      \* tasks that have read it, with the document they will save
    timer,       \* timer[r]: the delivery timer of r
    attempts,    \* busyAttemptCounters
    status,      \* statuses, and with them registeredAgentInstanceIds
    delivering,  \* deliver messages on their way to the client
    keys,        \* deliveredIdempotencyKeys of the present client
    handling,    \* messages whose handlers run for the present client
    outcome,     \* outcome[m]: what the caller of enqueue knows
    received,    \* history: messages some handler has received
    overwritten, \* history: messages the latest save of another task removed
    busied, crashes  \* bounds

childVars == <<running, asked, saving, timer, attempts, status>>
clientVars == <<delivering, keys, handling, outcome, received>>
boundVars == <<busied, crashes>>
mailboxVars == <<mailbox, childVars, clientVars, overwritten, boundVars>>

Entry == [id : Message, sequence : Nat, delivered : BOOLEAN]
Task(op, m) == [op |-> op, id |-> m]
Visit(op, r) == [op |-> op, to |-> r]

Has(document, m) == \E e \in document.messages : e.id = m

MailboxInit ==
    /\ mailbox = [r \in Recipient |-> [next |-> 1, messages |-> {}]]
    /\ running = TRUE
    /\ asked = {} /\ saving = {}
    /\ timer = [r \in Recipient |-> "none"]
    /\ attempts = [r \in Recipient |-> 0]
    /\ status = [r \in Recipient |-> "unset"]
    /\ delivering = {} /\ keys = {} /\ handling = {}
    /\ outcome = [m \in Message |-> "unsent"]
    /\ received = {} /\ overwritten = {}
    /\ busied = 0 /\ crashes = 0

----------------------------------------------------------------------------
(* What a task computes from the document it has read.                     *)

\* Mutant: the counter is not moved on.
EnqueuedSameNumber(document, m) ==
    [document EXCEPT !.messages =
        @ \cup {[id |-> m, sequence |-> document.next, delivered |-> FALSE]}]

Enqueued(document, m) ==
    [next |-> document.next + 1,
     messages |-> document.messages \cup
         {[id |-> m, sequence |-> document.next, delivered |-> FALSE]}]

Marked(document, m) ==
    [document EXCEPT !.messages =
        {IF e.id = m THEN [e EXCEPT !.delivered = TRUE] ELSE e : e \in @}]

Acked(document, m) == [document EXCEPT !.messages = {e \in @ : e.id # m}]

\* compareByPriorityThenSequence
Before(e, f) ==
    \/ Rank[e.id] < Rank[f.id]
    \/ Rank[e.id] = Rank[f.id] /\ e.sequence < f.sequence

\* peekNext: what was delivered and not acknowledged goes first.
PeekNext(document) ==
    LET unacked == {e \in document.messages : e.delivered}
        choices == IF unacked # {} THEN unacked ELSE document.messages
    IN  {e \in choices : \A f \in choices \ {e} : Before(e, f)}

----------------------------------------------------------------------------
(* The main process and its client.                                        *)

\* handleEnqueue: an agent the child has not heard of may not send.  The
\* client's enqueue resolves all the same.
Registered(m) == Sender[m] \in Recipient => status[Sender[m]] # "unset"

\* enqueue: a request to a child that is gone fails at once.  IPC keeps the
\* order of requests, so the child checks the sender as of this moment.
Enqueue(m) ==
    /\ outcome[m] = "unsent"
    /\ outcome' = [outcome EXCEPT ![m] =
           IF ~running THEN "failed" ELSE IF Registered(m) THEN "waiting" ELSE "refused"]
    /\ asked' = IF running /\ Registered(m) THEN asked \cup {Task("enqueue", m)} ELSE asked
    /\ UNCHANGED <<mailbox, running, saving, timer, attempts, status, delivering, keys,
                   handling, received, overwritten, boundVars>>

\* requestTimeoutMilliseconds passes: the caller is told of a failure, the
\* task of the child goes on.
RequestTimesOut(m) ==
    /\ outcome[m] = "waiting"
    /\ outcome' = [outcome EXCEPT ![m] = "failed"]
    /\ UNCHANGED <<mailbox, childVars, delivering, keys, handling, received, overwritten,
                   boundVars>>

\* setAgentStatus: the child notes the status and nothing else; a delivery
\* that backs off is not brought forward.
SetAgentStatus(r, s) ==
    /\ running /\ status[r] # s
    /\ s = "busy" => busied < MaxBusy
    /\ status' = [status EXCEPT ![r] = s]
    /\ busied' = IF s = "busy" THEN busied + 1 ELSE busied
    /\ UNCHANGED <<mailbox, running, asked, saving, timer, attempts, clientVars,
                   overwritten, crashes>>

\* handleDelivery: a key seen before is acknowledged at once, even while its
\* handler still runs.
HandleDelivery(m) ==
    /\ m \in delivering
    /\ delivering' = delivering \ {m}
    /\ IF m \in keys
       THEN /\ asked' = asked \cup {Task("ack", m)}
            /\ UNCHANGED <<keys, handling, received>>
       ELSE /\ keys' = keys \cup {m} /\ handling' = handling \cup {m}
            /\ received' = received \cup {m}
            /\ UNCHANGED asked
    /\ UNCHANGED <<mailbox, running, saving, timer, attempts, status, outcome, overwritten,
                   boundVars>>

\* Promise.allSettled(handlerResults): the client acknowledges.
HandlersSettle(m) ==
    /\ m \in handling /\ running
    /\ handling' = handling \ {m}
    /\ asked' = asked \cup {Task("ack", m)}
    /\ UNCHANGED <<mailbox, running, saving, timer, attempts, status, delivering, keys,
                   outcome, received, overwritten, boundVars>>

----------------------------------------------------------------------------
(* The tasks of the child.                                                 *)

Begins(task) == task \in asked /\ asked' = asked \ {task}

WillSave(op, m, document) ==
    saving' = saving \cup {[op |-> op, id |-> m, document |-> document]}

\* Mutant: the child answers before the journal is saved.
EnqueueAnswersEarly(m) ==
    /\ Begins(Task("enqueue", m))
    /\ WillSave("enqueue", m, Enqueued(mailbox[To[m]], m))
    /\ outcome' = [outcome EXCEPT ![m] = IF @ = "waiting" THEN "accepted" ELSE @]
    /\ UNCHANGED <<mailbox, running, timer, attempts, status, delivering, keys, handling,
                   received, overwritten, boundVars>>

\* journal.enqueue reads.
EnqueueReads(m) ==
    /\ Begins(Task("enqueue", m))
    /\ WillSave("enqueue", m, Enqueued(mailbox[To[m]], m))
    /\ UNCHANGED <<mailbox, running, timer, attempts, status, clientVars, overwritten,
                   boundVars>>

\* calculatePrimeBackoffSeconds stops growing at maximumBackoffSeconds.
BusyAgain(n) == IF n < MaxAttempts THEN n + 1 ELSE n

\* runDeliveryStep: busy recipients are tried again later; the others' next
\* message is marked, then sent.  Both ways out set the timer (2 s or more).
Peek(r) ==
    LET next == PeekNext(mailbox[r])
        busy == next # {} /\ status[r] \notin {"unset", "idle"}
    IN  /\ Visit("peek", r) \in asked
        /\ asked' = (asked \ {Visit("peek", r)}) \cup
                        (IF busy THEN {} ELSE {Task("mark", e.id) : e \in next})
        /\ timer' = IF busy \/ next = {} THEN [timer EXCEPT ![r] = "later"] ELSE timer
        /\ attempts' = [attempts EXCEPT ![r] =
               IF next = {} THEN @
               ELSE IF ~busy THEN 0
               ELSE BusyAgain(@)]
        /\ UNCHANGED <<mailbox, running, saving, status, clientVars, overwritten, boundVars>>

\* markDelivered reads.  A message that is gone is sent nevertheless.
MarkReads(m) ==
    /\ Begins(Task("mark", m))
    /\ IF Has(mailbox[To[m]], m)
       THEN WillSave("mark", m, Marked(mailbox[To[m]], m)) /\ UNCHANGED <<delivering, timer>>
       ELSE /\ delivering' = delivering \cup {m}
            /\ timer' = [timer EXCEPT ![To[m]] = "later"]
            /\ UNCHANGED saving
    /\ UNCHANGED <<mailbox, running, attempts, status, keys, handling, outcome, received,
                   overwritten, boundVars>>

\* ack reads; it has nothing to do for a message that is gone.
AckReads(m) ==
    /\ Begins(Task("ack", m))
    /\ IF Has(mailbox[To[m]], m)
       THEN WillSave("ack", m, Acked(mailbox[To[m]], m))
       ELSE UNCHANGED saving
    /\ UNCHANGED <<mailbox, running, timer, attempts, status, clientVars, overwritten,
                   boundVars>>

\* Mutant: the save of an acknowledgement removes every delivered message.
SavedForgetful(task) ==
    IF task.op = "ack"
    THEN [task.document EXCEPT !.messages = {e \in @ : ~e.delivered}]
    ELSE task.document

Saved(task) == task.document

\* saveDocument, and what the task does afterwards.
Saves(task) ==
    LET r    == To[task.id]
        lost == {m \in Message : Has(mailbox[r], m) /\ ~Has(task.document, m)}
    IN  /\ task \in saving
        /\ saving' = saving \ {task}
        /\ mailbox' = [mailbox EXCEPT ![r] = Saved(task)]
        /\ overwritten' = (overwritten \cup (IF task.op = "ack" THEN lost \ {task.id} ELSE lost))
                              \ {m \in Message : Has(task.document, m)}
        /\ outcome' = IF task.op = "enqueue" /\ outcome[task.id] = "waiting"
                      THEN [outcome EXCEPT ![task.id] = "accepted"] ELSE outcome
        /\ attempts' = IF task.op = "enqueue" THEN [attempts EXCEPT ![r] = 0] ELSE attempts
        /\ delivering' = IF task.op = "mark" THEN delivering \cup {task.id} ELSE delivering
        /\ timer' = IF task.op = "ack" THEN timer
                    ELSE [timer EXCEPT ![r] = IF task.op = "enqueue" THEN "now" ELSE "later"]
        /\ UNCHANGED <<running, asked, status, keys, handling, received, boundVars>>

\* handleReplay, for one journal: what was delivered and not acknowledged is
\* sent again, and deliveries start.
Replay(r) ==
    /\ Begins(Visit("replay", r))
    /\ delivering' = delivering \cup {e.id : e \in {e \in PeekNext(mailbox[r]) : e.delivered}}
    /\ timer' = [timer EXCEPT ![r] = "now"]
    /\ UNCHANGED <<mailbox, running, saving, attempts, status, keys, handling, outcome,
                   received, overwritten, boundVars>>

\* The tasks that work on the journal of r.
TasksOf(r) == {t \in asked : IF "to" \in DOMAIN t THEN t.to = r ELSE To[t.id] = r}
                  \cup {t \in saving : To[t.id] = r}

\* The timer of scheduleDeliveryAttempt.
TimerFires(r) ==
    /\ timer[r] # "none"
    /\ Unhurried /\ timer[r] = "later" =>
           TasksOf(r) = {} /\ \A m \in delivering : To[m] # r
    /\ timer' = [timer EXCEPT ![r] = "none"]
    /\ asked' = asked \cup {Visit("peek", r)}
    /\ UNCHANGED <<mailbox, running, saving, attempts, status, clientVars, overwritten,
                   boundVars>>

----------------------------------------------------------------------------
(* The child fails, and the supervisor starts another with a new client,   *)
(* which asks for a replay of every journal.  Handlers of the old client   *)
(* finish without being able to acknowledge.                               *)
ChildCrashes ==
    /\ running /\ crashes < MaxCrashes
    /\ running' = FALSE /\ crashes' = crashes + 1
    /\ asked' = {} /\ saving' = {} /\ delivering' = {} /\ handling' = {}
    /\ timer' = [r \in Recipient |-> "none"]
    /\ attempts' = [r \in Recipient |-> 0]
    /\ status' = [r \in Recipient |-> "unset"]
    /\ UNCHANGED <<mailbox, keys, outcome, received, overwritten, busied>>

\* Mutant: the new child is not asked for a replay.
RestartsSilently ==
    /\ ~running /\ running' = TRUE
    /\ keys' = {}
    /\ UNCHANGED <<mailbox, asked, saving, timer, attempts, status, delivering, handling,
                   outcome, received, overwritten, boundVars>>

ChildRestarts ==
    /\ ~running /\ running' = TRUE
    /\ keys' = {}
    /\ asked' = {Visit("replay", r) : r \in {x \in Recipient : mailbox[x].next > 1}}
    /\ UNCHANGED <<mailbox, saving, timer, attempts, status, delivering, handling, outcome,
                   received, overwritten, boundVars>>

ChildSteps ==
    \/ \E m \in Message : EnqueueReads(m) \/ MarkReads(m) \/ AckReads(m)
    \/ \E r \in Recipient : Peek(r) \/ Replay(r)
    \/ \E task \in saving : Saves(task)

MailboxNext ==
    \/ \E m \in Message : Enqueue(m) \/ RequestTimesOut(m)
    \/ \E r \in Recipient, s \in {"idle", "busy"} : SetAgentStatus(r, s)
    \/ \E m \in Message : HandleDelivery(m) \/ HandlersSettle(m)
    \/ \E r \in Recipient : TimerFires(r)
    \/ ChildSteps \/ ChildCrashes \/ ChildRestarts

MailboxSpec == MailboxInit /\ [][MailboxNext]_mailboxVars

\* The event loop of the child runs every task, IPC messages arrive, handlers
\* end, agents report that they are idle again (worker-agent.ts:681) and the
\* supervisor restarts the child.
MailboxFairness ==
    /\ \A m \in Message :
          /\ WF_mailboxVars(EnqueueReads(m)) /\ WF_mailboxVars(MarkReads(m))
          /\ WF_mailboxVars(AckReads(m))
          /\ WF_mailboxVars(HandleDelivery(m)) /\ WF_mailboxVars(HandlersSettle(m))
          /\ WF_mailboxVars(\E task \in saving : task.id = m /\ Saves(task))
    /\ \A r \in Recipient :
          /\ WF_mailboxVars(Peek(r)) /\ WF_mailboxVars(Replay(r)) /\ WF_mailboxVars(TimerFires(r))
          /\ WF_mailboxVars(status[r] = "busy" /\ SetAgentStatus(r, "idle"))
    /\ WF_mailboxVars(ChildRestarts)

FairMailboxSpec == MailboxSpec /\ MailboxFairness

----------------------------------------------------------------------------
(* Properties.                                                             *)

Document == [next : Nat, messages : SUBSET Entry]

MailboxTypeOK ==
    /\ mailbox \in [Recipient -> Document]
    /\ running \in BOOLEAN
    /\ asked \subseteq [op : {"enqueue", "mark", "ack"}, id : Message]
                           \cup [op : {"peek", "replay"}, to : Recipient]
    /\ saving \subseteq [op : {"enqueue", "mark", "ack"}, id : Message, document : Document]
    /\ timer \in [Recipient -> {"none", "now", "later"}]
    /\ attempts \in [Recipient -> 0..MaxAttempts]
    /\ status \in [Recipient -> {"unset", "idle", "busy"}]
    /\ {delivering, keys, handling, received, overwritten} \subseteq SUBSET Message
    /\ outcome \in [Message -> {"unsent", "waiting", "accepted", "refused", "failed"}]
    /\ busied \in 0..MaxBusy /\ crashes \in 0..MaxCrashes

\* How far each message has come, as the queue of FeedbackQueue sees it.
Stage == [m \in Message |->
    IF m \in received THEN "received"
    ELSE IF Has(mailbox[To[m]], m) THEN "journaled"
    ELSE IF m \in overwritten THEN "overwritten" ELSE "unsent"]

Promise == INSTANCE FeedbackQueue WITH stage <- Stage

\* The deliveries implement the queue: only a handler that received it, or
\* another task's save, ends a message's stay in its mailbox (safety), and
\* one of the two happens (liveness), whatever crashes in between.
QueuePromise == Promise!QueueSpec

\* peekNext and the order of sequence numbers rest on this: within a journal,
\* and within every document about to be saved, no message is there twice, no
\* sequence number is used twice, and the next one is new.
JournalInv ==
    \A document \in {mailbox[r] : r \in Recipient} \cup {t.document : t \in saving} :
        /\ \A e, f \in document.messages :
               e # f => e.id # f.id /\ e.sequence # f.sequence
        /\ \A e \in document.messages : e.sequence < document.next

\* A caller that was told its message was accepted can rely on it: the message
\* is in the journal or a handler has received it, even if the child crashed
\* right after the answer, unless a save of another task overwrote it.
AcceptedIsKept ==
    \A m \in Message :
        outcome[m] = "accepted" =>
            m \in received \cup overwritten \/ Has(mailbox[To[m]], m)

\* Every mailbox empties in the end, as often as the child is restarted.
MailboxesDrain == <>[](\A r \in Recipient : mailbox[r].messages = {})

\* The journals and the tasks that work on them, however these overlap and
\* whatever crashes: what is written down is in order and what was accepted is kept.
MailboxInv == MailboxTypeOK /\ JournalInv /\ AcceptedIsKept
=============================================================================
