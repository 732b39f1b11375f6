----------------------------- MODULE FeedbackProofs -----------------------------
(***************************************************************************)
(* What holds of the mailboxes and of the supervisor, for every set of     *)
(* messages and recipients, and any number of crashes and restarts; and    *)
(* that the deliveries implement the queue, message by message.            *)
(***************************************************************************)
EXTENDS FeedbackProcess, TLAPS

-----------------------------------------------------------------------------
(* The mailboxes.                                                           *)

\* A document whose messages and numbers are unique, and whose next number is new.
WellNumbered(document) ==
    /\ \A e, f \in document.messages : e # f => e.id # f.id /\ e.sequence # f.sequence
    /\ \A e \in document.messages : e.sequence < document.next

JournalsAreNumbered ==
    /\ \A r \in Recipient : WellNumbered(mailbox[r])
    /\ \A t \in saving : WellNumbered(t.document)

\* A message is in no mailbox but its recipient's.
MessagesAreAtHome ==
    /\ \A r \in Recipient : \A e \in mailbox[r].messages : To[e.id] = r
    /\ \A t \in saving : \A e \in t.document.messages : To[e.id] = To[t.id]

\* Until the child has read the journal for it a message is nowhere, and it is
\* enqueued once.
NowhereYet(m) ==
    /\ \A r \in Recipient : ~Has(mailbox[r], m)
    /\ \A t \in saving : ~Has(t.document, m)
EnqueuedOnce ==
    \A m \in Message :
        /\ outcome[m] = "unsent" => Task("enqueue", m) \notin asked
        /\ outcome[m] = "unsent" \/ Task("enqueue", m) \in asked => NowhereYet(m)

\* A message that was written down is in its mailbox, or a handler has received it,
\* or another task's save has removed it.
Known(m) == m \in received \cup overwritten \/ Has(mailbox[To[m]], m)

\* What is delivered was written down, what is acknowledged was received, and the
\* save of an enqueued message brings it.
TasksHaveGrounds ==
    /\ \A m \in Message :
          /\ outcome[m] = "accepted" \/ m \in delivering \/ Task("mark", m) \in asked => Known(m)
          /\ Task("ack", m) \in asked => m \in received
    /\ \A t \in saving :
          /\ t.op = "enqueue" => Has(t.document, t.id)
          /\ t.op = "mark" => Known(t.id)
          /\ t.op = "ack" => t.id \in received
    /\ keys \subseteq received /\ handling \subseteq received

MailboxIInv ==
    MailboxTypeOK /\ JournalsAreNumbered /\ MessagesAreAtHome /\ EnqueuedOnce /\ TasksHaveGrounds


-----------------------------------------------------------------------------
(* Proof about the supervisor.                                              *)

\* A failure that is handled is counted, and starts a timer or uses up the restarts.
LEMMA FailsHolds ==
    ASSUME SupervisorInv, Fails, UNCHANGED <<started, stop>>
    PROVE  /\ current' \in {0} \cup Generation /\ backoff' \in 0..MaxRestarts /\ restarts' \in Nat
           /\ looping' \in BOOLEAN
           /\ alive' \subseteq Generation /\ hung' \subseteq Generation /\ exiting' \subseteq Generation
           /\ RestartsAreCounted' /\ NeverForgotten'
<1>0. MaxRestarts \in Nat /\ SupervisorTypeOK /\ RestartsAreCounted /\ NeverForgotten
  BY SupervisorAssumption DEF SupervisorInv
<1>1. started \in Nat /\ started >= 1 /\ backoff \in Nat /\ restarts \in Nat
  BY <1>0 DEF SupervisorTypeOK, Generation
<1>2. CASE stop # "no"
  BY <1>0, <1>2 DEF Fails, SupervisorTypeOK, RestartsAreCounted, NeverForgotten
<1>3. CASE stop = "no"
  <2>1. /\ current' = 0 /\ restarts' = restarts + 1
        /\ alive' = alive \ {current} /\ hung' = hung \ {current}
        /\ exiting' = exiting \cup (alive \cap {current})
        /\ backoff' = (IF MayRestart THEN backoff + 1 ELSE backoff)
        /\ looping' = (looping /\ MayRestart)
    BY <1>3 DEF Fails
  <2>2. alive' \subseteq Generation /\ hung' \subseteq Generation /\ exiting' \subseteq Generation
    BY <1>0, <2>1 DEF SupervisorTypeOK
  <2>3. RestartsAreCounted' /\ backoff' \in 0..MaxRestarts
    BY <1>0, <1>1, <2>1 DEF RestartsAreCounted, MayRestart
  <2>4. NeverForgotten'
    BY <1>0, <1>1, <2>1 DEF NeverForgotten, MayRestart
  <2>5. looping' \in BOOLEAN
    <3>1. looping' = looping \/ looping' = FALSE
      BY <2>1
    <3> QED
      BY <1>0, <3>1 DEF SupervisorTypeOK
  <2> QED
    BY <1>1, <2>1, <2>2, <2>3, <2>4, <2>5
<1> QED
  BY <1>2, <1>3

\* What happens to the children themselves pays for nothing and forgets nobody.
LEMMA ChildrenHold ==
    ASSUME SupervisorInv, NEW g \in Generation, Dies(g) \/ Hangs(g) \/ BecomesReady(g) \/ WatchdogExits(g)
    PROVE  SupervisorInv'
<1>0. SupervisorTypeOK /\ RestartsAreCounted /\ NeverForgotten /\ MaxFaults \in Nat
  BY SupervisorAssumption DEF SupervisorInv
<1>1. UNCHANGED <<current, started, pending, backoff, restarts, stop>>
  BY DEF Dies, Hangs, BecomesReady, WatchdogExits
<1>2. RestartsAreCounted' /\ NeverForgotten'
  BY <1>0, <1>1 DEF RestartsAreCounted, NeverForgotten
<1>3. alive' \subseteq Generation /\ hung' \subseteq Generation /\ ready' \subseteq Generation
      /\ exiting' \subseteq Generation
  BY <1>0 DEF Dies, Hangs, BecomesReady, WatchdogExits, SupervisorTypeOK
<1>4. faults' \in 0..MaxFaults
  BY <1>0 DEF Dies, Hangs, BecomesReady, WatchdogExits, SupervisorTypeOK
<1>5. starting' \in BOOLEAN /\ looping' \in BOOLEAN
  <2>1. CASE BecomesReady(g)
    <3>1. starting' = (starting /\ g # 1) /\ looping' = (looping \/ (g = 1 /\ starting))
      BY <2>1 DEF BecomesReady
    <3>2. (starting /\ g # 1) \in BOOLEAN /\ (looping \/ (g = 1 /\ starting)) \in BOOLEAN
      OBVIOUS
    <3> QED
      BY <3>1, <3>2
  <2>2. CASE Dies(g) \/ Hangs(g) \/ WatchdogExits(g)
    BY <1>0, <2>2 DEF Dies, Hangs, WatchdogExits, SupervisorTypeOK
  <2> QED
    BY <2>1, <2>2
<1>6. SupervisorTypeOK'
  BY <1>0, <1>1, <1>3, <1>4, <1>5 DEF SupervisorTypeOK
<1> QED
  BY <1>2, <1>6 DEF SupervisorInv

LEMMA SupervisorStep ==
    ASSUME SupervisorInv, [SupervisorNext]_supervisorVars
    PROVE  SupervisorInv'
<1>0. /\ SupervisorTypeOK /\ RestartsAreCounted /\ NeverForgotten
      /\ MaxFaults \in Nat /\ MaxRestarts \in Nat /\ MaxPending \in Nat /\ MaxPending # 0
  BY SupervisorAssumption DEF SupervisorInv
<1>a. started \in Nat /\ started >= 1 /\ backoff \in Nat /\ restarts \in Nat
  BY <1>0 DEF SupervisorTypeOK, Generation
<1>1. ASSUME NEW g \in Generation, ExitHandled(g) PROVE SupervisorInv'
  <2>0. UNCHANGED <<alive, hung, ready, started, pending, starting, stop, faults>> /\ exiting' = exiting \ {g}
    BY <1>1 DEF ExitHandled
  <2>1. CASE g = current /\ stop = "no"
    <3>1. /\ current' = 0 /\ restarts' = restarts + 1
          /\ backoff' = (IF MayRestart THEN backoff + 1 ELSE backoff)
          /\ looping' = (looping /\ MayRestart)
      BY <1>1, <2>1 DEF ExitHandled
    <3>2. RestartsAreCounted' /\ backoff' \in 0..MaxRestarts
      BY <1>0, <1>a, <2>0, <3>1 DEF RestartsAreCounted, MayRestart
    <3>3. NeverForgotten'
      BY <1>0, <1>a, <3>1 DEF NeverForgotten, MayRestart
    <3>4. looping' = looping \/ looping' = FALSE
      BY <3>1
    <3>5. SupervisorTypeOK'
      BY <1>0, <1>a, <2>0, <3>1, <3>2, <3>4 DEF SupervisorTypeOK
    <3> QED
      BY <3>2, <3>3, <3>5 DEF SupervisorInv
  <2>2. CASE ~(g = current /\ stop = "no")
    <3>1. UNCHANGED <<current, restarts, backoff, looping>>
      BY <1>1, <2>2 DEF ExitHandled
    <3>2. SupervisorTypeOK'
      BY <1>0, <2>0, <3>1 DEF SupervisorTypeOK
    <3> QED
      BY <1>0, <2>0, <3>1, <3>2 DEF SupervisorInv, RestartsAreCounted, NeverForgotten
  <2> QED
    BY <2>1, <2>2
<1>2. CASE HealthCheck
  <2>1. CASE current \in alive
    <3>1. /\ pending[current] < MaxPending /\ pending' = [pending EXCEPT ![current] = @ + 1]
          /\ UNCHANGED <<current, alive, hung, exiting, backoff, restarts, looping,
                         ready, started, starting, stop, faults>>
      BY <1>2, <2>1 DEF HealthCheck
    <3>2. current \in Generation
      BY <1>0, <2>1 DEF SupervisorTypeOK
    <3>3. pending' \in [Generation -> 0..MaxPending]
      BY <1>0, <3>1, <3>2 DEF SupervisorTypeOK
    <3>4. SupervisorTypeOK'
      BY <1>0, <3>1, <3>3 DEF SupervisorTypeOK
    <3> QED
      BY <1>0, <3>1, <3>4 DEF SupervisorInv, RestartsAreCounted, NeverForgotten
  <2>2. CASE current \notin alive
    <3>1. Fails /\ UNCHANGED <<pending, ready, started, starting, stop, faults>>
      BY <1>2, <2>2 DEF HealthCheck
    <3> QED
      BY <1>0, <3>1, FailsHolds DEF SupervisorInv, SupervisorTypeOK
  <2> QED
    BY <2>1, <2>2
<1>3. ASSUME NEW g \in Generation, HealthAnswered(g) \/ HealthTimesOut(g) PROVE SupervisorInv'
  <2>1. pending' = [pending EXCEPT ![g] = @ - 1] /\ pending[g] > 0
    BY <1>3 DEF HealthAnswered, HealthTimesOut
  <2>2. pending' \in [Generation -> 0..MaxPending]
    BY <1>0, <2>1 DEF SupervisorTypeOK
  <2>3. CASE HealthAnswered(g)
    BY <1>0, <2>2, <2>3 DEF HealthAnswered, processVars, SupervisorInv, SupervisorTypeOK, RestartsAreCounted,
                            NeverForgotten
  <2>4. CASE HealthTimesOut(g)
    <3>1. Fails /\ UNCHANGED <<ready, started, starting, stop, faults>>
      BY <2>4 DEF HealthTimesOut
    <3> QED
      BY <1>0, <2>2, <3>1, FailsHolds DEF SupervisorInv, SupervisorTypeOK
  <2> QED
    BY <1>3, <2>3, <2>4
<1>4. CASE Respawns
  <2>0. /\ backoff > 0 /\ backoff' = backoff - 1
        /\ UNCHANGED <<hung, ready, exiting, pending, restarts, starting, looping, stop, faults>>
    BY <1>4 DEF Respawns
  <2>1. CASE stop # "no"
    <3>1. UNCHANGED <<current, alive, started>>
      BY <1>4, <2>1 DEF Respawns
    <3>2. RestartsAreCounted' /\ NeverForgotten'
      BY <1>0, <1>a, <2>0, <2>1, <3>1 DEF RestartsAreCounted, NeverForgotten
    <3> QED
      BY <1>0, <1>a, <2>0, <3>1, <3>2 DEF SupervisorInv, SupervisorTypeOK
  <2>2. CASE stop = "no"
    <3>1. started' = started + 1 /\ current' = started + 1 /\ alive' = alive \cup {started + 1}
      BY <1>4, <2>2 DEF Respawns
    <3>2. started + 1 \in Generation
      BY <1>0, <1>a, <2>0 DEF RestartsAreCounted, Generation
    <3>3. RestartsAreCounted'
      BY <1>0, <1>a, <2>0, <3>1 DEF RestartsAreCounted
    <3>4. NeverForgotten'
      BY <1>a, <3>1 DEF NeverForgotten
    <3> QED
      BY <1>0, <1>a, <2>0, <3>1, <3>2, <3>3, <3>4 DEF SupervisorInv, SupervisorTypeOK
  <2> QED
    BY <2>1, <2>2
<1>5. CASE StopRequested
  BY <1>0, <1>5 DEF StopRequested, processVars, SupervisorInv, SupervisorTypeOK, RestartsAreCounted, NeverForgotten
<1>6. CASE StopEnds
  BY <1>0, <1>6 DEF StopEnds, SupervisorInv, SupervisorTypeOK, RestartsAreCounted, NeverForgotten
<1>7. CASE UNCHANGED supervisorVars
  BY <1>0, <1>7 DEF supervisorVars, processVars, SupervisorInv, SupervisorTypeOK, RestartsAreCounted, NeverForgotten
<1> QED
  BY <1>1, <1>2, <1>3, <1>4, <1>5, <1>6, <1>7, ChildrenHold DEF SupervisorNext

LEMMA SupervisorStarts == SupervisorInit => SupervisorInv
<1> SUFFICES ASSUME SupervisorInit PROVE SupervisorInv
  OBVIOUS
<1>1. MaxRestarts \in Nat /\ MaxPending \in Nat /\ MaxFaults \in Nat /\ 1 \in Generation
  BY SupervisorAssumption DEF Generation
<1>2. pending \in [Generation -> 0..MaxPending] /\ {alive, hung, ready, exiting} \subseteq SUBSET Generation
  BY <1>1 DEF SupervisorInit
<1>3. starting \in BOOLEAN /\ looping \in BOOLEAN
  BY DEF SupervisorInit
<1>4. SupervisorTypeOK
  BY <1>1, <1>2, <1>3 DEF SupervisorInit, SupervisorTypeOK
<1> QED
  BY <1>1, <1>4 DEF SupervisorInit, SupervisorInv, RestartsAreCounted, NeverForgotten

-----------------------------------------------------------------------------
(* Proof about the mailboxes: the documents that are computed.              *)

LEMMA EnqueuedIsNumbered ==
    ASSUME NEW d \in Document, NEW m \in Message, WellNumbered(d), ~Has(d, m)
    PROVE  /\ Enqueued(d, m) \in Document /\ WellNumbered(Enqueued(d, m))
           /\ Has(Enqueued(d, m), m)
           /\ \A e \in Enqueued(d, m).messages : e \in d.messages \/ e.id = m
<1> DEFINE new == [id |-> m, sequence |-> d.next, delivered |-> FALSE]
<1>1. new \in Entry /\ new.id = m /\ new.sequence = d.next /\ d.next \in Nat /\ d.messages \subseteq Entry
  <2>1. d.next \in Nat /\ d.messages \subseteq Entry
    BY DEF Document
  <2> QED
    BY <2>1 DEF Entry
<1>2. Enqueued(d, m) = [next |-> d.next + 1, messages |-> d.messages \cup {new}]
  BY DEF Enqueued
<1> HIDE DEF new
<1>3. Enqueued(d, m) \in Document
  <2>1. d.next + 1 \in Nat /\ d.messages \cup {new} \in SUBSET Entry
    BY <1>1
  <2> QED
    BY <1>2, <2>1 DEF Document
<1>4. \A e \in d.messages : e.id # m /\ e.sequence < d.next /\ e.sequence \in Nat
  BY <1>1 DEF Has, WellNumbered, Entry
<1>5. ASSUME NEW e \in d.messages \cup {new}, NEW f \in d.messages \cup {new}, e # f
      PROVE  e.id # f.id /\ e.sequence # f.sequence
  <2>1. CASE e \in d.messages /\ f \in d.messages
    BY <1>5, <2>1 DEF WellNumbered
  <2>2. CASE e \in d.messages /\ f = new
    BY <1>1, <1>4, <2>2
  <2>3. CASE e = new /\ f \in d.messages
    BY <1>1, <1>4, <2>3
  <2> QED
    BY <1>5, <2>1, <2>2, <2>3
<1>6. \A e \in d.messages \cup {new} : e.sequence < d.next + 1
  BY <1>1, <1>4
<1> QED
  BY <1>1, <1>2, <1>3, <1>5, <1>6 DEF WellNumbered, Has

LEMMA MarkedIsNumbered ==
    ASSUME NEW d \in Document, NEW m \in Message, WellNumbered(d)
    PROVE  /\ Marked(d, m) \in Document /\ WellNumbered(Marked(d, m))
           /\ \A n : Has(Marked(d, m), n) <=> Has(d, n)
           /\ \A f \in Marked(d, m).messages : \E e \in d.messages : f.id = e.id
<1> DEFINE Mark(e) == IF e.id = m THEN [e EXCEPT !.delivered = TRUE] ELSE e
<1>1. d.messages \subseteq Entry /\ d.next \in Nat
  BY DEF Document
<1>2. Marked(d, m) = [next |-> d.next, messages |-> {Mark(e) : e \in d.messages}]
  <2>1. DOMAIN d = {"next", "messages"} /\ d = [next |-> d.next, messages |-> d.messages]
    BY DEF Document
  <2>2. Marked(d, m) = [d EXCEPT !.messages = {Mark(e) : e \in d.messages}]
    BY DEF Marked
  <2> HIDE DEF Mark
  <2> QED
    BY <2>1, <2>2
<1>3. \A e \in d.messages : Mark(e) \in Entry /\ Mark(e).id = e.id /\ Mark(e).sequence = e.sequence
  BY <1>1 DEF Entry
<1> HIDE DEF Mark
<1>4. Marked(d, m) \in Document
  BY <1>1, <1>2, <1>3 DEF Document
<1>5. WellNumbered(Marked(d, m))
  BY <1>2, <1>3 DEF WellNumbered
<1> QED
  BY <1>2, <1>3, <1>4, <1>5 DEF Has

LEMMA AckedIsNumbered ==
    ASSUME NEW d \in Document, NEW m \in Message, WellNumbered(d)
    PROVE  /\ Acked(d, m) \in Document /\ WellNumbered(Acked(d, m))
           /\ Acked(d, m).messages \subseteq d.messages
<1>1. Acked(d, m) = [next |-> d.next, messages |-> {e \in d.messages : e.id # m}]
  BY DEF Acked, Document
<1> QED
  BY <1>1 DEF WellNumbered, Document

-----------------------------------------------------------------------------
(* What a step leaves alone.                                                *)

\* While no journal is written and no task reads one ...
LEMMA JournalsStay ==
    ASSUME MailboxIInv, mailbox' = mailbox, saving' \subseteq saving
    PROVE  /\ JournalsAreNumbered' /\ MessagesAreAtHome'
           /\ \A m \in Message : NowhereYet(m) => NowhereYet(m)'
<1>1. \A r \in Recipient : mailbox'[r] = mailbox[r]
  OBVIOUS
<1> QED
  BY <1>1 DEF MailboxIInv, JournalsAreNumbered, MessagesAreAtHome, NowhereYet, WellNumbered, Has

LEMMA KnownStays ==
    ASSUME mailbox' = mailbox, received \subseteq received', overwritten' = overwritten
    PROVE  \A m \in Message : Known(m) => Known(m)'
BY DEF Known, Has

\* ... and when a task has read one, the document it will save is in order.
LEMMA WillSaveHolds ==
    ASSUME MailboxIInv, mailbox' = mailbox, NEW op, NEW m \in Message, NEW document \in Document,
           WellNumbered(document), \A e \in document.messages : To[e.id] = To[m],
           WillSave(op, m, document)
    PROVE  /\ JournalsAreNumbered' /\ MessagesAreAtHome'
           /\ \A n \in Message : NowhereYet(n) /\ ~Has(document, n) => NowhereYet(n)'
           /\ \A t \in saving' : t \in saving \/ (t.op = op /\ t.id = m /\ t.document = document)
<1>1. \A r \in Recipient : mailbox'[r] = mailbox[r]
  OBVIOUS
<1>2. \A t \in saving' : t \in saving \/ (t.op = op /\ t.id = m /\ t.document = document)
  BY DEF WillSave
<1>3. JournalsAreNumbered'
  BY <1>1, <1>2 DEF MailboxIInv, JournalsAreNumbered, WellNumbered
<1>4. MessagesAreAtHome'
  BY <1>1, <1>2 DEF MailboxIInv, MessagesAreAtHome
<1>5. \A n \in Message : NowhereYet(n) /\ ~Has(document, n) => NowhereYet(n)'
  BY <1>1, <1>2 DEF NowhereYet, Has
<1> QED
  BY <1>2, <1>3, <1>4, <1>5

-----------------------------------------------------------------------------
(* Proof about the mailboxes: the steps.                                    *)

JournalTask == [op : {"enqueue", "mark", "ack"}, id : Message]
VisitTask == [op : {"peek", "replay"}, to : Recipient]

LEMMA TasksAreTyped ==
    /\ \A m \in Message : \A op \in {"enqueue", "mark", "ack"} :
          Task(op, m) \in JournalTask /\ Task(op, m).op = op /\ Task(op, m).id = m
    /\ \A r \in Recipient : \A op \in {"peek", "replay"} :
          Visit(op, r) \in VisitTask /\ Visit(op, r).op = op
BY DEF JournalTask, VisitTask, Task, Visit

\* A message that peekNext finds is one of its recipient's.
LEMMA PeekedIsKnown ==
    ASSUME MailboxIInv, NEW r \in Recipient, NEW e \in PeekNext(mailbox[r])
    PROVE  e \in Entry /\ e.id \in Message /\ Known(e.id)
<1>1. e \in mailbox[r].messages
  BY DEF PeekNext
<1>2. mailbox[r].messages \subseteq Entry
  BY DEF MailboxIInv, MailboxTypeOK, Document
<1>3. To[e.id] = r
  BY <1>1 DEF MailboxIInv, MessagesAreAtHome
<1> QED
  BY <1>1, <1>2, <1>3 DEF Entry, Known, Has

\* Requests and reports of the main process.
LEMMA RequestsHold ==
    ASSUME MailboxIInv,
           \/ \E m \in Message : Enqueue(m) \/ RequestTimesOut(m)
           \/ \E r \in Recipient, s \in {"idle", "busy"} : SetAgentStatus(r, s)
    PROVE  MailboxIInv'
<1>0. MailboxTypeOK /\ EnqueuedOnce /\ TasksHaveGrounds
  BY DEF MailboxIInv
<1>1. /\ UNCHANGED <<mailbox, running, saving, timer, attempts, delivering, keys, handling, received,
                     overwritten, crashes>>
  BY DEF Enqueue, RequestTimesOut, SetAgentStatus, childVars, clientVars, boundVars
<1>2. /\ JournalsAreNumbered' /\ MessagesAreAtHome'
      /\ \A m \in Message : (NowhereYet(m) => NowhereYet(m)') /\ (Known(m) => Known(m)')
  BY <1>1, JournalsStay, KnownStays
<1>3. ASSUME NEW m \in Message, Enqueue(m) PROVE MailboxIInv'
  <2>1. /\ outcome[m] = "unsent" /\ status' = status /\ busied' = busied
        /\ outcome' = [outcome EXCEPT ![m] =
              IF ~running THEN "failed" ELSE IF Registered(m) THEN "waiting" ELSE "refused"]
        /\ asked' \subseteq asked \cup {Task("enqueue", m)}
    BY <1>3 DEF Enqueue, boundVars
  <2>2. MailboxTypeOK'
    <3>1. asked' \subseteq JournalTask \cup VisitTask
      BY <1>0, <2>1, TasksAreTyped DEF MailboxTypeOK, JournalTask, VisitTask
    <3>2. outcome' \in [Message -> {"unsent", "waiting", "accepted", "refused", "failed"}]
      BY <1>0, <2>1 DEF MailboxTypeOK
    <3> QED
      BY <1>0, <1>1, <2>1, <3>1, <3>2 DEF MailboxTypeOK, JournalTask, VisitTask
  <2>3. /\ outcome'[m] \in {"failed", "waiting", "refused"}
        /\ \A n \in Message \ {m} : outcome'[n] = outcome[n]
    BY <1>0, <2>1 DEF MailboxTypeOK
  <2>4. EnqueuedOnce'
    <3>1. \A n \in Message \ {m} : Task("enqueue", n) # Task("enqueue", m)
      BY TasksAreTyped
    <3>2. NowhereYet(m)
      BY <1>0, <2>1 DEF EnqueuedOnce
    <3> QED
      BY <1>0, <1>2, <2>1, <2>3, <3>1, <3>2 DEF EnqueuedOnce
  <2>5. TasksHaveGrounds'
    <3>1. \A n \in Message : /\ Task("mark", n) \in asked' => Task("mark", n) \in asked
                             /\ Task("ack", n) \in asked' => Task("ack", n) \in asked
      BY <2>1, TasksAreTyped
    <3>2. \A n \in Message : outcome'[n] = "accepted" => outcome[n] = "accepted"
      BY <2>3
    <3>3. \A t \in saving : t.id \in Message
      BY <1>0 DEF MailboxTypeOK
    <3> QED
      BY <1>0, <1>1, <1>2, <3>1, <3>2, <3>3 DEF TasksHaveGrounds, Has
  <2> QED
    BY <1>2, <2>2, <2>4, <2>5 DEF MailboxIInv
<1>4. ASSUME NEW m \in Message, RequestTimesOut(m) PROVE MailboxIInv'
  <2>1. /\ outcome[m] = "waiting" /\ outcome' = [outcome EXCEPT ![m] = "failed"]
        /\ asked' = asked /\ status' = status /\ busied' = busied
    BY <1>4 DEF RequestTimesOut, childVars, boundVars
  <2>2. outcome'[m] = "failed" /\ \A n \in Message \ {m} : outcome'[n] = outcome[n]
    BY <1>0, <2>1 DEF MailboxTypeOK
  <2>3. MailboxTypeOK'
    BY <1>0, <1>1, <2>1 DEF MailboxTypeOK
  <2>4. EnqueuedOnce'
    BY <1>0, <1>2, <2>1, <2>2 DEF EnqueuedOnce
  <2>5. \A t \in saving : t.id \in Message
    BY <1>0 DEF MailboxTypeOK
  <2>6. TasksHaveGrounds'
    BY <1>0, <1>1, <1>2, <2>1, <2>2, <2>5 DEF TasksHaveGrounds, Has
  <2> QED
    BY <1>2, <2>3, <2>4, <2>6 DEF MailboxIInv
<1>5. ASSUME NEW r \in Recipient, NEW s \in {"idle", "busy"}, SetAgentStatus(r, s) PROVE MailboxIInv'
  <2>1. /\ asked' = asked /\ outcome' = outcome /\ status' = [status EXCEPT ![r] = s]
        /\ s = "busy" => busied < MaxBusy
        /\ busied' = IF s = "busy" THEN busied + 1 ELSE busied
    BY <1>5 DEF SetAgentStatus, clientVars
  <2>2. MaxBusy \in Nat
    BY MailboxAssumption
  <2>3. status' \in [Recipient -> {"unset", "idle", "busy"}] /\ busied' \in 0..MaxBusy
    BY <1>0, <2>1, <2>2 DEF MailboxTypeOK
  <2>4. MailboxTypeOK'
    BY <1>0, <1>1, <2>1, <2>3 DEF MailboxTypeOK
  <2>5. EnqueuedOnce'
    BY <1>0, <1>2, <2>1 DEF EnqueuedOnce
  <2>6. \A t \in saving : t.id \in Message
    BY <1>0 DEF MailboxTypeOK
  <2>7. TasksHaveGrounds'
    BY <1>0, <1>1, <1>2, <2>1, <2>6 DEF TasksHaveGrounds, Has
  <2> QED
    BY <1>2, <2>4, <2>5, <2>7 DEF MailboxIInv
<1> QED
  BY <1>3, <1>4, <1>5

\* The client: a message that is delivered was written down, and one it has seen is acknowledged.
LEMMA ClientHolds ==
    ASSUME MailboxIInv, NEW m \in Message, HandleDelivery(m) \/ HandlersSettle(m)
    PROVE  MailboxIInv'
<1>0. MailboxTypeOK /\ EnqueuedOnce /\ TasksHaveGrounds
  BY DEF MailboxIInv
<1>1. /\ UNCHANGED <<mailbox, running, saving, timer, attempts, status, outcome, overwritten, boundVars>>
      /\ received \subseteq received' /\ received' \subseteq received \cup {m}
      /\ delivering' \subseteq delivering /\ asked' \subseteq asked \cup {Task("ack", m)}
      /\ keys' \subseteq keys \cup {m} /\ handling' \subseteq handling \cup {m}
      /\ keys' # keys \/ handling' \notin SUBSET handling => m \in received'
      /\ asked' # asked => m \in received
  BY <1>0 DEF HandleDelivery, HandlersSettle, TasksHaveGrounds
<1>2. /\ JournalsAreNumbered' /\ MessagesAreAtHome'
      /\ \A n \in Message : (NowhereYet(n) => NowhereYet(n)') /\ (Known(n) => Known(n)')
  BY <1>1, JournalsStay, KnownStays
<1>3. MailboxTypeOK'
  <2>1. asked' \subseteq JournalTask \cup VisitTask
    BY <1>0, <1>1, TasksAreTyped DEF MailboxTypeOK, JournalTask, VisitTask
  <2> QED
    BY <1>0, <1>1, <2>1 DEF MailboxTypeOK, JournalTask, VisitTask, boundVars
<1>4. \A n \in Message : /\ Task("enqueue", n) \in asked' => Task("enqueue", n) \in asked
                         /\ Task("mark", n) \in asked' => Task("mark", n) \in asked
                         /\ Task("ack", n) \in asked' => Task("ack", n) \in asked \/ n \in received
  BY <1>1, TasksAreTyped
<1>5. EnqueuedOnce'
  BY <1>0, <1>1, <1>2, <1>4 DEF EnqueuedOnce
<1>6. \A t \in saving : t.id \in Message
  BY <1>0 DEF MailboxTypeOK
<1>7. keys' \subseteq received' /\ handling' \subseteq received'
  BY <1>0, <1>1 DEF TasksHaveGrounds
<1>8. TasksHaveGrounds'
  BY <1>0, <1>1, <1>2, <1>4, <1>6, <1>7 DEF TasksHaveGrounds, Has
<1> QED
  BY <1>2, <1>3, <1>5, <1>8 DEF MailboxIInv

\* Visits of a journal and timers: what they send or mark is in the journal.
LEMMA VisitsHold ==
    ASSUME MailboxIInv, NEW r \in Recipient, Peek(r) \/ Replay(r) \/ TimerFires(r)
    PROVE  MailboxIInv'
<1>0. MailboxTypeOK /\ EnqueuedOnce /\ TasksHaveGrounds
  BY DEF MailboxIInv
<1>1. UNCHANGED <<mailbox, running, saving, status, keys, handling, outcome, received, overwritten, boundVars>>
  BY DEF Peek, Replay, TimerFires, clientVars
<1>2. /\ JournalsAreNumbered' /\ MessagesAreAtHome'
      /\ \A n \in Message : (NowhereYet(n) => NowhereYet(n)') /\ (Known(n) => Known(n)')
  BY <1>1, JournalsStay, KnownStays
<1>3. \A t \in asked' :
         t \in asked \/ t = Visit("peek", r) \/ \E n \in Message : Known(n) /\ t = Task("mark", n)
  <2>1. CASE Peek(r)
    <3>1. asked' \subseteq asked \cup {Task("mark", e.id) : e \in PeekNext(mailbox[r])}
      BY <2>1 DEF Peek
    <3> QED
      BY <3>1, PeekedIsKnown
  <2>2. CASE Replay(r)
    BY <2>2 DEF Replay, Begins
  <2>3. CASE TimerFires(r)
    BY <2>3 DEF TimerFires
  <2> QED
    BY <2>1, <2>2, <2>3
<1>4. \A n \in delivering' : n \in delivering \/ (n \in Message /\ Known(n))
  <2>1. CASE Replay(r)
    <3>1. delivering' = delivering \cup {e.id : e \in {e \in PeekNext(mailbox[r]) : e.delivered}}
      BY <2>1 DEF Replay
    <3> QED
      BY <3>1, PeekedIsKnown
  <2>2. CASE Peek(r) \/ TimerFires(r)
    BY <2>2 DEF Peek, TimerFires, clientVars
  <2> QED
    BY <2>1, <2>2
<1>5. timer' \in [Recipient -> {"none", "now", "later"}]
  BY <1>0 DEF MailboxTypeOK, Peek, Replay, TimerFires
<1>6. attempts' \in [Recipient -> 0..MaxAttempts]
  <2>1. MaxAttempts \in Nat
    BY MailboxAssumption
  <2>2. CASE Peek(r)
    <3>1. \A n \in 0..MaxAttempts : BusyAgain(n) \in 0..MaxAttempts
      BY <2>1 DEF BusyAgain
    <3>2. attempts[r] \in 0..MaxAttempts /\ 0 \in 0..MaxAttempts
      BY <1>0, <2>1 DEF MailboxTypeOK
    <3>3. PICK n \in {attempts[r], 0, BusyAgain(attempts[r])} : attempts' = [attempts EXCEPT ![r] = n]
      BY <2>2, Zenon DEF Peek
    <3> QED
      BY <1>0, <3>1, <3>2, <3>3 DEF MailboxTypeOK
  <2>3. CASE Replay(r) \/ TimerFires(r)
    BY <1>0, <2>3 DEF Replay, TimerFires, MailboxTypeOK
  <2> QED
    BY <2>2, <2>3
<1>7. MailboxTypeOK'
  <2>1. asked' \subseteq JournalTask \cup VisitTask
    BY <1>0, <1>3, TasksAreTyped DEF MailboxTypeOK, JournalTask, VisitTask
  <2>2. delivering' \subseteq Message
    BY <1>0, <1>4 DEF MailboxTypeOK
  <2> QED
    BY <1>0, <1>1, <1>5, <1>6, <2>1, <2>2 DEF MailboxTypeOK, JournalTask, VisitTask, boundVars
<1>8. \A n \in Message : /\ Task("enqueue", n) \in asked' => Task("enqueue", n) \in asked
                         /\ Task("mark", n) \in asked' => Task("mark", n) \in asked \/ Known(n)
                         /\ Task("ack", n) \in asked' => Task("ack", n) \in asked
  BY <1>3, TasksAreTyped
<1>9. EnqueuedOnce'
  BY <1>0, <1>1, <1>2, <1>8 DEF EnqueuedOnce
<1>10. \A t \in saving : t.id \in Message
  BY <1>0 DEF MailboxTypeOK
<1>11. TasksHaveGrounds'
  BY <1>0, <1>1, <1>2, <1>4, <1>8, <1>10 DEF TasksHaveGrounds, Has
<1> QED
  BY <1>2, <1>7, <1>9, <1>11 DEF MailboxIInv

\* A task that reads a journal: what it will save is in order.
LEMMA ReadsHold ==
    ASSUME MailboxIInv, NEW m \in Message, EnqueueReads(m) \/ MarkReads(m) \/ AckReads(m)
    PROVE  MailboxIInv'
<1>0. MailboxTypeOK /\ EnqueuedOnce /\ TasksHaveGrounds /\ JournalsAreNumbered /\ MessagesAreAtHome
  BY DEF MailboxIInv
<1> DEFINE d == mailbox[To[m]]
<1>1. UNCHANGED <<mailbox, running, attempts, status, keys, handling, outcome, received, overwritten, boundVars>>
      /\ asked' \subseteq asked
  BY DEF EnqueueReads, MarkReads, AckReads, clientVars, Begins
<1>2. To[m] \in Recipient /\ d \in Document /\ WellNumbered(d) /\ \A e \in d.messages : To[e.id] = To[m]
  BY <1>0, MailboxAssumption DEF MailboxTypeOK, JournalsAreNumbered, MessagesAreAtHome
<1>3. \A n \in Message : Known(n) => Known(n)'
  BY <1>1, KnownStays
<1>4. \A t \in saving : t.id \in Message
  BY <1>0 DEF MailboxTypeOK
<1>5. ASSUME NEW op \in {"enqueue", "mark", "ack"}, NEW document \in Document,
             WillSave(op, m, document), WellNumbered(document),
             \A e \in document.messages : To[e.id] = To[m],
             delivering' = delivering, timer' = timer,
             op = "enqueue" => Has(document, m),
             op = "mark" => Known(m),
             op = "ack" => m \in received,
             \A n \in Message : outcome[n] = "unsent" \/ Task("enqueue", n) \in asked' => ~Has(document, n)
      PROVE  MailboxIInv'
  <2>1. /\ JournalsAreNumbered' /\ MessagesAreAtHome'
        /\ \A n \in Message : NowhereYet(n) /\ ~Has(document, n) => NowhereYet(n)'
        /\ \A t \in saving' : t \in saving \/ (t.op = op /\ t.id = m /\ t.document = document)
    BY <1>1, <1>5, WillSaveHolds
  <2>2. MailboxTypeOK'
    <3>1. saving' = saving \cup {[op |-> op, id |-> m, document |-> document]}
      BY <1>5 DEF WillSave
    <3>2. saving' \subseteq [op : {"enqueue", "mark", "ack"}, id : Message, document : Document]
      BY <1>0, <3>1 DEF MailboxTypeOK
    <3> QED
      BY <1>0, <1>1, <1>5, <3>2 DEF MailboxTypeOK, boundVars
  <2>3. EnqueuedOnce'
    BY <1>0, <1>1, <1>5, <2>1 DEF EnqueuedOnce
  <2>4. \A t \in saving' : /\ t.op = "enqueue" => Has(t.document, t.id)
                           /\ t.op = "mark" => Known(t.id)'
                           /\ t.op = "ack" => t.id \in received
    BY <1>0, <1>3, <1>4, <1>5, <2>1 DEF TasksHaveGrounds
  <2>5. TasksHaveGrounds'
    BY <1>0, <1>1, <1>3, <1>5, <2>4 DEF TasksHaveGrounds, Has
  <2> QED
    BY <2>1, <2>2, <2>3, <2>5 DEF MailboxIInv
<1>6. CASE EnqueueReads(m)
  <2>1. Task("enqueue", m) \in asked /\ asked' = asked \ {Task("enqueue", m)}
        /\ WillSave("enqueue", m, Enqueued(d, m)) /\ delivering' = delivering /\ timer' = timer
    BY <1>6 DEF EnqueueReads, Begins, clientVars
  <2>2. ~Has(d, m) /\ outcome[m] # "unsent"
    BY <1>0, <1>2, <2>1 DEF EnqueuedOnce, NowhereYet
  <2>3. /\ Enqueued(d, m) \in Document /\ WellNumbered(Enqueued(d, m)) /\ Has(Enqueued(d, m), m)
        /\ \A e \in Enqueued(d, m).messages : e \in d.messages \/ e.id = m
    BY <1>2, <2>2, EnqueuedIsNumbered
  <2>4. ASSUME NEW n \in Message, outcome[n] = "unsent" \/ Task("enqueue", n) \in asked'
        PROVE  ~Has(Enqueued(d, m), n)
    <3>1. n # m /\ ~Has(d, n)
      BY <1>0, <1>2, <2>1, <2>2, <2>4 DEF EnqueuedOnce, NowhereYet
    <3> QED
      BY <2>3, <3>1 DEF Has
  <2>5. PICK op \in {"enqueue", "mark", "ack"} : op = "enqueue"
    OBVIOUS
  <2>6. \A e \in Enqueued(d, m).messages : To[e.id] = To[m]
    BY <1>2, <2>3
  <2> HIDE DEF d
  <2> QED
    BY <1>5, <2>1, <2>3, <2>4, <2>5, <2>6
<1>7. CASE MarkReads(m)
  <2>0. Task("mark", m) \in asked /\ asked' = asked \ {Task("mark", m)} /\ Known(m)
    BY <1>0, <1>7 DEF MarkReads, Begins, TasksHaveGrounds
  <2>1. CASE Has(d, m)
    <3>1. WillSave("mark", m, Marked(d, m)) /\ delivering' = delivering /\ timer' = timer
      BY <1>7, <2>1 DEF MarkReads
    <3>2. /\ Marked(d, m) \in Document /\ WellNumbered(Marked(d, m))
          /\ \A n : Has(Marked(d, m), n) <=> Has(d, n)
          /\ \A e \in Marked(d, m).messages : \E f \in d.messages : e.id = f.id
      BY <1>2, MarkedIsNumbered
    <3>3. \A n \in Message : outcome[n] = "unsent" \/ Task("enqueue", n) \in asked' => ~Has(Marked(d, m), n)
      BY <1>0, <1>2, <2>0, <3>2 DEF EnqueuedOnce, NowhereYet
    <3>4. \A e \in Marked(d, m).messages : To[e.id] = To[m]
      BY <1>2, <3>2
    <3>5. PICK op \in {"enqueue", "mark", "ack"} : op = "mark"
      OBVIOUS
    <3> HIDE DEF d
    <3> QED
      BY <1>5, <2>0, <3>1, <3>2, <3>3, <3>4, <3>5
  <2>2. CASE ~Has(d, m)
    <3>1. delivering' = delivering \cup {m} /\ timer' = [timer EXCEPT ![To[m]] = "later"] /\ saving' = saving
      BY <1>7, <2>2 DEF MarkReads
    <3>2. /\ JournalsAreNumbered' /\ MessagesAreAtHome' /\ \A n \in Message : NowhereYet(n) => NowhereYet(n)'
      BY <1>1, <3>1, JournalsStay
    <3>3. MailboxTypeOK'
      BY <1>0, <1>1, <3>1 DEF MailboxTypeOK, boundVars
    <3>4. EnqueuedOnce'
      BY <1>0, <1>1, <2>0, <3>2 DEF EnqueuedOnce
    <3>5. TasksHaveGrounds'
      BY <1>0, <1>1, <1>3, <1>4, <2>0, <3>1 DEF TasksHaveGrounds, Has
    <3> QED
      BY <3>2, <3>3, <3>4, <3>5 DEF MailboxIInv
  <2> QED
    BY <2>1, <2>2
<1>8. CASE AckReads(m)
  <2>0. /\ Task("ack", m) \in asked /\ asked' = asked \ {Task("ack", m)} /\ m \in received
        /\ delivering' = delivering /\ timer' = timer
    BY <1>0, <1>8 DEF AckReads, Begins, TasksHaveGrounds, clientVars
  <2>1. CASE Has(d, m)
    <3>1. WillSave("ack", m, Acked(d, m))
      BY <1>8, <2>1 DEF AckReads
    <3>2. /\ Acked(d, m) \in Document /\ WellNumbered(Acked(d, m))
          /\ Acked(d, m).messages \subseteq d.messages
      BY <1>2, AckedIsNumbered
    <3>3. \A n \in Message : outcome[n] = "unsent" \/ Task("enqueue", n) \in asked' => ~Has(Acked(d, m), n)
      BY <1>0, <1>2, <2>0, <3>2 DEF EnqueuedOnce, NowhereYet, Has
    <3>4. \A e \in Acked(d, m).messages : To[e.id] = To[m]
      BY <1>2, <3>2
    <3>5. PICK op \in {"enqueue", "mark", "ack"} : op = "ack"
      OBVIOUS
    <3> HIDE DEF d
    <3> QED
      BY <1>5, <2>0, <3>1, <3>2, <3>3, <3>4, <3>5
  <2>2. CASE ~Has(d, m)
    <3>1. saving' = saving
      BY <1>8, <2>2 DEF AckReads
    <3>2. /\ JournalsAreNumbered' /\ MessagesAreAtHome' /\ \A n \in Message : NowhereYet(n) => NowhereYet(n)'
      BY <1>1, <3>1, JournalsStay
    <3>3. MailboxTypeOK'
      BY <1>0, <1>1, <2>0, <3>1 DEF MailboxTypeOK, boundVars
    <3>4. EnqueuedOnce'
      BY <1>0, <1>1, <2>0, <3>2 DEF EnqueuedOnce
    <3>5. TasksHaveGrounds'
      BY <1>0, <1>1, <1>3, <1>4, <2>0, <3>1 DEF TasksHaveGrounds, Has
    <3> QED
      BY <3>2, <3>3, <3>4, <3>5 DEF MailboxIInv
  <2> QED
    BY <2>1, <2>2
<1> QED
  BY <1>6, <1>7, <1>8

\* What a save removes was received, or counts as overwritten from then on.
LEMMA KnownSurvivesSave ==
    ASSUME MailboxIInv, NEW task \in saving, Saves(task)
    PROVE  /\ \A m \in Message : Known(m) => Known(m)'
           /\ \A m \in Message : Has(task.document, m) => To[m] = To[task.id] /\ Has(mailbox'[To[m]], m)
           /\ \A m \in Message : m \in overwritten' => Known(m)
           /\ \A q \in Recipient : q # To[task.id] => mailbox'[q] = mailbox[q]
           /\ To[task.id] \in Recipient /\ mailbox'[To[task.id]] = task.document
<1>0. MailboxTypeOK /\ MessagesAreAtHome /\ TasksHaveGrounds
  BY DEF MailboxIInv
<1> DEFINE r == To[task.id]
           lost == {m \in Message : Has(mailbox[r], m) /\ ~Has(task.document, m)}
<1>1. task.id \in Message /\ r \in Recipient
  BY <1>0, MailboxAssumption DEF MailboxTypeOK
<1>2. mailbox' = [mailbox EXCEPT ![r] = task.document]
  BY DEF Saves, Saved
<1>3. mailbox'[r] = task.document /\ \A q \in Recipient : q # r => mailbox'[q] = mailbox[q]
  BY <1>0, <1>1, <1>2 DEF MailboxTypeOK
<1>4. /\ overwritten' = (overwritten \cup (IF task.op = "ack" THEN lost \ {task.id} ELSE lost))
                            \ {m \in Message : Has(task.document, m)}
      /\ received' = received
  BY DEF Saves
<1>5. \A m \in Message : Has(task.document, m) => To[m] = r
  BY <1>0 DEF MessagesAreAtHome, Has
<1>6. task.op = "ack" => task.id \in received
  BY <1>0 DEF TasksHaveGrounds
<1>7. \A m \in Message : To[m] \in Recipient
  BY MailboxAssumption
<1> HIDE DEF r
<1>8. ASSUME NEW m \in Message, Known(m) PROVE Known(m)'
  <2>1. CASE Has(task.document, m)
    BY <1>3, <1>5, <2>1 DEF Known, Has
  <2>2. CASE ~Has(task.document, m) /\ To[m] = r
    <3>1. m \in received \/ m \in overwritten \/ m \in lost
      BY <1>8, <2>2 DEF Known
    <3> QED
      BY <1>4, <1>6, <2>2, <3>1 DEF Known
  <2>3. CASE ~Has(task.document, m) /\ To[m] # r
    <3>1. mailbox'[To[m]] = mailbox[To[m]]
      BY <1>3, <1>7, <2>3
    <3> QED
      BY <1>4, <1>8, <2>3, <3>1 DEF Known, Has
  <2> QED
    BY <2>1, <2>2, <2>3
<1>9. ASSUME NEW m \in Message, m \in overwritten' PROVE Known(m)
  <2>1. m \in overwritten \/ Has(mailbox[r], m)
    BY <1>4, <1>9
  <2>2. Has(mailbox[r], m) => To[m] = r
    BY <1>0, <1>1 DEF MessagesAreAtHome, Has, r
  <2> QED
    BY <2>1, <2>2 DEF Known
<1> QED
  BY <1>1, <1>3, <1>5, <1>8, <1>9 DEF r, Has

LEMMA SavesHolds ==
    ASSUME MailboxIInv, NEW task \in saving, Saves(task)
    PROVE  MailboxIInv'
<1>0. MailboxTypeOK /\ EnqueuedOnce /\ TasksHaveGrounds /\ JournalsAreNumbered /\ MessagesAreAtHome
  BY DEF MailboxIInv
<1> DEFINE r == To[task.id]
<1>1. /\ \A m \in Message : Known(m) => Known(m)'
      /\ \A m \in Message : Has(task.document, m) => To[m] = r /\ Has(mailbox'[To[m]], m)
      /\ \A q \in Recipient : q # r => mailbox'[q] = mailbox[q]
      /\ r \in Recipient /\ mailbox'[r] = task.document
  BY KnownSurvivesSave
<1>2. /\ task.id \in Message /\ task.document \in Document /\ task.op \in {"enqueue", "mark", "ack"}
      /\ WellNumbered(task.document)
  BY <1>0 DEF MailboxTypeOK, JournalsAreNumbered
<1>3. /\ saving' = saving \ {task} /\ mailbox' = [mailbox EXCEPT ![r] = task.document]
      /\ outcome' = IF task.op = "enqueue" /\ outcome[task.id] = "waiting"
                    THEN [outcome EXCEPT ![task.id] = "accepted"] ELSE outcome
      /\ attempts' = IF task.op = "enqueue" THEN [attempts EXCEPT ![r] = 0] ELSE attempts
      /\ delivering' = IF task.op = "mark" THEN delivering \cup {task.id} ELSE delivering
      /\ timer' = IF task.op = "ack" THEN timer
                  ELSE [timer EXCEPT ![r] = IF task.op = "enqueue" THEN "now" ELSE "later"]
      /\ UNCHANGED <<running, asked, status, keys, handling, received, boundVars>>
  BY DEF Saves, Saved
<1>4. overwritten' \subseteq Message
  BY <1>0 DEF Saves, MailboxTypeOK
<1>5. MailboxTypeOK'
  <2>1. 0 \in 0..MaxAttempts
    BY MailboxAssumption
  <2>2. mailbox' \in [Recipient -> Document]
    BY <1>0, <1>2, <1>3 DEF MailboxTypeOK
  <2>3. attempts' \in [Recipient -> 0..MaxAttempts]
    BY <1>0, <1>3, <2>1 DEF MailboxTypeOK
  <2>4. timer' \in [Recipient -> {"none", "now", "later"}]
    BY <1>0, <1>3 DEF MailboxTypeOK
  <2>5. outcome' \in [Message -> {"unsent", "waiting", "accepted", "refused", "failed"}]
    BY <1>0, <1>3 DEF MailboxTypeOK
  <2>6. delivering' \subseteq Message /\ saving' \subseteq saving
    BY <1>0, <1>2, <1>3 DEF MailboxTypeOK
  <2> QED
    BY <1>0, <1>3, <1>4, <2>2, <2>3, <2>4, <2>5, <2>6 DEF MailboxTypeOK, boundVars
<1>6. \A q \in Recipient : mailbox'[q] = mailbox[q] \/ (q = r /\ mailbox'[q] = task.document)
  BY <1>1
<1>7. JournalsAreNumbered' /\ MessagesAreAtHome'
  BY <1>0, <1>2, <1>3, <1>6 DEF JournalsAreNumbered, MessagesAreAtHome, WellNumbered
<1>8. \A m \in Message : NowhereYet(m) => NowhereYet(m)'
  BY <1>3, <1>6 DEF NowhereYet, Has
<1>9. \A m \in Message : /\ outcome'[m] = "unsent" => outcome[m] = "unsent"
                         /\ outcome'[m] = "accepted" => outcome[m] = "accepted" \/ (m = task.id /\ task.op = "enqueue")
  BY <1>0, <1>3 DEF MailboxTypeOK
<1>10. EnqueuedOnce'
  BY <1>0, <1>3, <1>8, <1>9 DEF EnqueuedOnce
<1>11. task.op \in {"enqueue", "mark"} => Known(task.id)'
  <2>1. task.op = "enqueue" => Has(mailbox'[To[task.id]], task.id)
    BY <1>0, <1>1, <1>2 DEF TasksHaveGrounds
  <2>2. task.op = "mark" => Known(task.id)
    BY <1>0 DEF TasksHaveGrounds
  <2> QED
    BY <1>1, <1>2, <2>1, <2>2 DEF Known, Has
<1>12. \A t \in saving' : t \in saving /\ t.id \in Message
  BY <1>0, <1>3 DEF MailboxTypeOK
<1>13. \A m \in delivering' : m \in delivering \/ (m = task.id /\ task.op = "mark")
  BY <1>3
<1>14. TasksHaveGrounds'
  <2>1. \A m \in Message :
           /\ outcome'[m] = "accepted" \/ m \in delivering' \/ Task("mark", m) \in asked' => Known(m)'
           /\ Task("ack", m) \in asked' => m \in received'
    BY <1>0, <1>1, <1>3, <1>9, <1>11, <1>13 DEF TasksHaveGrounds
  <2>2. \A t \in saving' :
           /\ t.op = "enqueue" => Has(t.document, t.id)
           /\ t.op = "mark" => Known(t.id)'
           /\ t.op = "ack" => t.id \in received'
    BY <1>0, <1>1, <1>3, <1>12 DEF TasksHaveGrounds
  <2> QED
    BY <1>0, <1>3, <2>1, <2>2 DEF TasksHaveGrounds, Has
<1> QED
  BY <1>5, <1>7, <1>10, <1>14 DEF MailboxIInv

\* A crash loses what the child had not written down; nothing that was known is lost.
LEMMA CrashesHold ==
    ASSUME MailboxIInv, ChildCrashes \/ ChildRestarts
    PROVE  MailboxIInv'
<1>0. MailboxTypeOK /\ EnqueuedOnce /\ TasksHaveGrounds
  BY DEF MailboxIInv
<1>1. /\ UNCHANGED <<mailbox, outcome, received, overwritten>>
      /\ saving' \subseteq saving /\ delivering' \subseteq delivering /\ handling' \subseteq handling
      /\ keys' \subseteq keys
      /\ \A t \in asked' : t \in {Visit("replay", r) : r \in Recipient}
  BY DEF ChildCrashes, ChildRestarts
<1>2. /\ JournalsAreNumbered' /\ MessagesAreAtHome'
      /\ \A n \in Message : (NowhereYet(n) => NowhereYet(n)') /\ (Known(n) => Known(n)')
  BY <1>1, JournalsStay, KnownStays
<1>3. MailboxTypeOK'
  <2>1. asked' \subseteq VisitTask
    BY <1>1, TasksAreTyped
  <2>2. 0 \in 0..MaxAttempts /\ MaxCrashes \in Nat
    BY MailboxAssumption
  <2>3. crashes' \in 0..MaxCrashes /\ busied' = busied
    BY <1>0, <2>2 DEF ChildCrashes, ChildRestarts, MailboxTypeOK, boundVars
  <2>4. attempts' \in [Recipient -> 0..MaxAttempts]
    BY <1>0, <2>2 DEF ChildCrashes, ChildRestarts, MailboxTypeOK
  <2>5. timer' \in [Recipient -> {"none", "now", "later"}] /\ running' \in BOOLEAN
    BY <1>0 DEF ChildCrashes, ChildRestarts, MailboxTypeOK
  <2>6. status' \in [Recipient -> {"unset", "idle", "busy"}]
    BY <1>0 DEF ChildCrashes, ChildRestarts, MailboxTypeOK
  <2> QED
    BY <1>0, <1>1, <2>1, <2>3, <2>4, <2>5, <2>6 DEF MailboxTypeOK, VisitTask
<1>4. \A n \in Message : Task("enqueue", n) \notin asked' /\ Task("mark", n) \notin asked' /\ Task("ack", n) \notin asked'
  BY <1>1, TasksAreTyped
<1>5. EnqueuedOnce'
  BY <1>0, <1>1, <1>2, <1>4 DEF EnqueuedOnce
<1>6. \A t \in saving' : t \in saving /\ t.id \in Message
  BY <1>0, <1>1 DEF MailboxTypeOK
<1>7. TasksHaveGrounds'
  BY <1>0, <1>1, <1>2, <1>4, <1>6 DEF TasksHaveGrounds, Has
<1> QED
  BY <1>2, <1>3, <1>5, <1>7 DEF MailboxIInv

LEMMA MailboxStep ==
    ASSUME MailboxIInv, [MailboxNext]_mailboxVars
    PROVE  MailboxIInv'
<1>1. CASE UNCHANGED mailboxVars
  <2>1. UNCHANGED <<mailbox, running, asked, saving, timer, attempts, status, delivering, keys, handling,
                    outcome, received, overwritten, busied, crashes>>
    BY <1>1 DEF mailboxVars, childVars, clientVars, boundVars
  <2> QED
    BY <2>1 DEF MailboxIInv, MailboxTypeOK, JournalsAreNumbered, MessagesAreAtHome, EnqueuedOnce, NowhereYet,
                TasksHaveGrounds, Known, Has, WellNumbered
<1> QED
  BY <1>1, RequestsHold, ClientHolds, VisitsHold, ReadsHold, SavesHolds, CrashesHold DEF MailboxNext, ChildSteps

LEMMA MailboxStarts == MailboxInit => MailboxIInv
<1> SUFFICES ASSUME MailboxInit PROVE MailboxIInv
  OBVIOUS
<1> DEFINE empty == [next |-> 1, messages |-> {}]
<1>1. /\ mailbox = [r \in Recipient |-> empty] /\ asked = {} /\ saving = {}
      /\ delivering = {} /\ keys = {} /\ handling = {} /\ received = {} /\ overwritten = {}
      /\ outcome = [m \in Message |-> "unsent"]
  BY DEF MailboxInit
<1>2. empty \in Document
  BY DEF Document
<1>3. \A r \in Recipient : mailbox[r].messages = {}
  BY <1>1
<1>4. 0 \in 0..MaxAttempts /\ 0 \in 0..MaxBusy /\ 0 \in 0..MaxCrashes
  BY MailboxAssumption
<1>5. MailboxTypeOK
  <2>1. mailbox \in [Recipient -> Document]
    BY <1>1, <1>2
  <2> QED
    BY <1>1, <1>4, <2>1 DEF MailboxInit, MailboxTypeOK
<1>6. JournalsAreNumbered /\ MessagesAreAtHome /\ EnqueuedOnce /\ TasksHaveGrounds
  BY <1>1, <1>3 DEF JournalsAreNumbered, MessagesAreAtHome, EnqueuedOnce, TasksHaveGrounds, WellNumbered, NowhereYet, Has
<1> QED
  BY <1>5, <1>6 DEF MailboxIInv

LEMMA MailboxImplied == MailboxIInv => MailboxInv
BY DEF MailboxIInv, MailboxInv, JournalsAreNumbered, WellNumbered, JournalInv, TasksHaveGrounds, Known, AcceptedIsKept

\* However the tasks of the child overlap at a journal, messages are repeated, callers give up and
\* children crash: journals stay in order, and what was accepted is in its mailbox, was received,
\* or was overwritten by another task's save (mailbox-journal.ts:161); and every restart of a child is paid for by a
\* failure, and no failure is forgotten (mailbox-journal.ts, process-supervisor.ts).
THEOREM FeedbackIsSound == FeedbackProcessSpec => []FeedbackInv
<1>1. MailboxSpec => []MailboxInv
  BY MailboxStarts, MailboxStep, MailboxImplied, PTL DEF MailboxSpec
<1>2. SupervisorSpec => []SupervisorInv
  BY SupervisorStarts, SupervisorStep, PTL DEF SupervisorSpec
<1> QED
  BY <1>1, <1>2, PTL DEF FeedbackProcessSpec, FeedbackInv

-----------------------------------------------------------------------------
(* The refinement: the deliveries implement the queue.                      *)

\* Nothing that was written down is forgotten, and nothing is received, or overwritten,
\* that was not.
LEMMA MessagesGoForward ==
    ASSUME MailboxIInv, [MailboxNext]_mailboxVars, NEW m \in Message
    PROVE  /\ m \in received => m \in received'
           /\ Known(m) => Known(m)'
           /\ m \in received' \cup overwritten' => Known(m)
<1>1. CASE \E task \in saving : Saves(task)
  <2>1. PICK task \in saving : Saves(task)
    BY <1>1
  <2>2. received' = received
    BY <2>1 DEF Saves
  <2>3. (Known(m) => Known(m)') /\ (m \in overwritten' => Known(m))
    BY <2>1, KnownSurvivesSave
  <2> QED
    BY <2>2, <2>3 DEF Known
<1>2. CASE \E n \in Message : HandleDelivery(n)
  <2>1. PICK n \in Message : HandleDelivery(n)
    BY <1>2
  <2>2. /\ n \in delivering /\ mailbox' = mailbox /\ overwritten' = overwritten
        /\ received \subseteq received' /\ received' \subseteq received \cup {n}
    BY <2>1 DEF HandleDelivery
  <2>3. Known(n)
    BY <2>2 DEF MailboxIInv, TasksHaveGrounds
  <2> QED
    BY <2>2, <2>3, KnownStays DEF Known
<1>3. CASE UNCHANGED <<mailbox, received, overwritten>>
  BY <1>3, KnownStays DEF Known
<1>4. ~(\E task \in saving : Saves(task)) /\ ~(\E n \in Message : HandleDelivery(n)) =>
        UNCHANGED <<mailbox, received, overwritten>>
  BY DEF MailboxNext, ChildSteps, Enqueue, RequestTimesOut, SetAgentStatus, HandlersSettle, TimerFires,
         EnqueueReads, MarkReads, AckReads, Peek, Replay, ChildCrashes, ChildRestarts, mailboxVars, clientVars
<1> QED
  BY <1>1, <1>2, <1>3, <1>4

LEMMA StageStep ==
    ASSUME MailboxIInv, [MailboxNext]_mailboxVars
    PROVE  Promise!QueueNext
<1> DEFINE StageOf(m) == IF m \in received THEN "received"
                         ELSE IF Has(mailbox[To[m]], m) THEN "journaled"
                         ELSE IF m \in overwritten THEN "overwritten" ELSE "unsent"
           StageAfter(m) == IF m \in received' THEN "received"
                            ELSE IF Has(mailbox'[To[m]], m) THEN "journaled"
                            ELSE IF m \in overwritten' THEN "overwritten" ELSE "unsent"
<1>1. Stage = [m \in Message |-> StageOf(m)] /\ Stage' = [m \in Message |-> StageAfter(m)]
  BY DEF Stage, Has
<1>2. ASSUME NEW m \in Message
      PROVE  /\ StageAfter(m) \in {"unsent", "journaled", "received", "overwritten"}
             /\ StageAfter(m) # StageOf(m) => <<StageOf(m), StageAfter(m)>> \in Promise!Forward
  <2>1. /\ m \in received => m \in received'
        /\ Known(m) => Known(m)'
        /\ m \in received' \cup overwritten' => Known(m)
    BY MessagesGoForward
  <2>2. Known(m) <=> m \in received \/ m \in overwritten \/ Has(mailbox[To[m]], m)
    BY DEF Known
  <2>3. Known(m)' <=> m \in received' \/ m \in overwritten' \/ Has(mailbox'[To[m]], m)
    BY DEF Known, Has
  <2> QED
    BY <2>1, <2>2, <2>3 DEF Promise!Forward
<1> HIDE DEF StageOf, StageAfter
<1> QED
  BY <1>1, <1>2 DEF Promise!QueueNext

\* Whatever overlaps, is repeated or crashes: a message that is in a mailbox leaves it only when a
\* handler has received it or another task's save overwrites it, and nobody receives what was
\* never written down; step by step the deliveries are those of FeedbackQueue.
THEOREM DeliveriesImplementQueue == MailboxSpec => Promise!QueueSafety
<1>1. MailboxInit => Promise!QueueInit
  <2> SUFFICES ASSUME MailboxInit PROVE Promise!QueueInit
    OBVIOUS
  <2>1. received = {} /\ overwritten = {} /\ \A m \in Message : ~Has(mailbox[To[m]], m)
    <3>1. \A m \in Message : To[m] \in Recipient
      BY MailboxAssumption
    <3> QED
      BY <3>1 DEF MailboxInit, Has
  <2> QED
    BY <2>1 DEF Stage, Promise!QueueInit
<1>2. MailboxIInv /\ [MailboxNext]_mailboxVars => [Promise!QueueNext]_Stage
  BY StageStep
<1> QED
  BY <1>1, <1>2, MailboxStarts, MailboxStep, PTL DEF MailboxSpec, Promise!QueueSafety
=================================================================================
