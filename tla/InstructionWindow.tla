-------------------------- MODULE InstructionWindow --------------------------
(***************************************************************************)
(* orchestration/instruction-window-store.ts: the instructions of a user,  *)
(* at most a window of them dispatched, the others queued.  A receipt of a  *)
(* terminal outcome frees a slot and dispatches the head of the queue.      *)
(* Every store holds the whole document in memory and writes it as one      *)
(* file; a store is a process (the commands make one per call, the public   *)
(* application one for all).                                                *)
(*                                                                         *)
(* An instruction is named by the request that brings it: identifiers carry *)
(* the time and a counter.  Receipts the code refuses (repeated, stale,     *)
(* without tasks, of an unknown instruction) change nothing and are no      *)
(* steps.                                                                   *)
(***************************************************************************)
EXTENDS Naturals, Sequences, FiniteSets

CONSTANTS
    Store,
    Request,            \* 1..n: acceptUserInstruction, executeInstructionAcceptCommand
    Retry,              \* requests with the idempotency key of request 1
    WindowCapacity,     \* of the constructor
    MaxCapacity,        \* the largest one that is set
    Overlapping,        \* whether calls come before the first one has loaded
    Outcome,            \* the outcomes of receipts that are sent
    MaxWindowCalls,
    MaxWaiting,         \* writes of a store that wait
    MaxWindowFaults     \* failing writes, ends of a process

ASSUME WindowAssumption ==
    /\ IsFiniteSet(Request) /\ WindowCapacity \in Nat \ {0} /\ MaxCapacity \in Nat
    /\ Outcome \subseteq {"completed", "failed", "cancelled", "partially-completed"}

VARIABLES
    window,         \* per store: its copy of the document
    loading,        \* per store: how far loadFromDisk is
    known,          \* per store: the fingerprint of the state it knows, {} for null
    committed,      \* per store: hasCommittedState
    waiting,        \* per store: calls whose write waits: {request}, or {}
    commit,         \* per store: the write under way
    windowFile,     \* the file: the set of its document, or {}
    answered,       \* requests that were told admitted or queued
    requested,      \* requests so far
    strays,         \* new receipts for an instruction without a slot
    windowCalls, windowFaults

copies == <<window, loading, waiting>>
guarding == <<known, committed, commit>>
calls == <<strays, requested, windowCalls>>
windowVars == <<copies, guarding, windowFile, answered, calls, windowFaults>>

Key(r) == IF r \in Retry THEN 1 ELSE r

Occupying == {"dispatched", "partially-completed"}
Terminal == {"completed", "failed", "cancelled"}

\* The map keeps the order in which its records came: the place of a record.
EmptyWindow == [capacity |-> WindowCapacity, state |-> [r \in Request |-> "absent"],
                place |-> [r \in Request |-> 0], last |-> 0, queue |-> <<>>, receipts |-> {}]
NoCommit == [at |-> "idle", document |-> EmptyWindow, caller |-> {}]

WindowInit ==
    /\ window = [s \in Store |-> EmptyWindow] /\ loading = [s \in Store |-> "no"]
    /\ known = [s \in Store |-> {}] /\ committed = [s \in Store |-> FALSE]
    /\ waiting = [s \in Store |-> <<>>] /\ commit = [s \in Store |-> NoCommit]
    /\ windowFile = {} /\ answered = {} /\ strays = 0 /\ requested = 0
    /\ windowCalls = 0 /\ windowFaults = 0

Records(w) == {r \in Request : w.state[r] # "absent"}
Slots(w) == {r \in Request : w.state[r] \in Occupying}      \* activeRecords
Queued(w) == {w.queue[i] : i \in DOMAIN w.queue}

Earlier(w, set, r) == {q \in set : w.place[q] < w.place[r]}
InOrder(w, set) ==
    [i \in 1..Cardinality(set) |-> CHOOSE r \in set : Cardinality(Earlier(w, set, r)) = i - 1]

-----------------------------------------------------------------------------
(* loadFromDisk: the store counts as loaded from before the file is read.  *)

Fingerprint(w) == <<w.capacity, Records(w), w.queue, w.receipts>>
Fingerprints(documents) == {Fingerprint(d) : d \in documents}

BeginLoading(s) ==
    /\ loading[s] = "no" /\ loading' = [loading EXCEPT ![s] = "reading"]
    /\ UNCHANGED <<window, guarding, waiting, windowFile, answered, calls, windowFaults>>

\* The records are added to those in memory; the queue is replaced.
MergedWindow(w, d) ==
    [capacity |-> d.capacity, queue |-> d.queue, receipts |-> w.receipts \cup d.receipts,
     state |-> [r \in Request |-> IF r \in Records(d) THEN d.state[r] ELSE w.state[r]],
     place |-> [r \in Request |-> IF r \in Records(d) \ Records(w) THEN w.last + d.place[r] ELSE w.place[r]],
     last |-> w.last + d.last]

EndLoading(s) ==
    /\ loading[s] = "reading" /\ loading' = [loading EXCEPT ![s] = "yes"]
    /\ \/ windowFile = {} /\ UNCHANGED <<window, known>>
       \/ \E d \in windowFile : LET w == MergedWindow(window[s], d) IN
             window' = [window EXCEPT ![s] = w] /\ known' = [known EXCEPT ![s] = {Fingerprint(w)}]
    /\ UNCHANGED <<committed, waiting, commit, windowFile, answered, calls, windowFaults>>

Ready(s) == loading[s] = "yes" \/ (Overlapping /\ loading[s] = "reading")

-----------------------------------------------------------------------------
(* The calls: each changes the copy in memory and waits for a write of its  *)
(* own.                                                                     *)

WindowBecomes(s, w, told) ==
    /\ window' = [window EXCEPT ![s] = w]
    /\ waiting' = [waiting EXCEPT ![s] = Append(@, told)]
    /\ windowCalls < MaxWindowCalls /\ windowCalls' = windowCalls + 1
    /\ Len(waiting[s]) < MaxWaiting
    /\ UNCHANGED <<loading, guarding, windowFile, answered, windowFaults>>

\* Mutant: the key is not looked up.
IsNewAnyway(w, r) == r \notin Records(w)

IsNew(w, r) == \A e \in Records(w) : Key(e) # Key(r)

\* admitInstruction, without await between the comparison and the slot.
Admitted(w, r) ==
    LET fits == Cardinality(Slots(w)) < w.capacity IN
    [w EXCEPT !.last = @ + 1, !.place[r] = w.last + 1,
              !.state[r] = IF fits THEN "dispatched" ELSE "accepted",
              !.queue = IF fits THEN @ ELSE Append(@, r)]

Admit(s) ==
    LET r == requested + 1 IN
    /\ Ready(s) /\ r \in Request /\ requested' = r /\ IsNew(window[s], r)
    /\ WindowBecomes(s, Admitted(window[s], r), {r})
    /\ UNCHANGED strays

\* A known key: the call is told of its instruction, and nothing is written.
AdmitAgain(s) ==
    LET r == requested + 1 IN
    /\ Ready(s) /\ r \in Request /\ requested' = r /\ ~IsNew(window[s], r)
    /\ UNCHANGED <<copies, guarding, windowFile, answered, strays, windowCalls, windowFaults>>

\* Mutant: every receipt is taken, also one that was taken already.
IsAnyReceipt(w, r, outcome) == r \in Records(w)

IsNewReceipt(w, r, outcome) == r \in Records(w) /\ <<r, outcome>> \notin w.receipts

\* Mutant: the head of the queue is dispatched and stays in the queue.
BackfilledOnly(w) == IF w.queue = <<>> THEN w ELSE [w EXCEPT !.state[Head(w.queue)] = "dispatched"]

\* The head of the queue takes the slot that is free.
Backfilled(w) ==
    IF w.queue = <<>> THEN w
    ELSE [w EXCEPT !.state[Head(w.queue)] = "dispatched", !.queue = Tail(@)]

\* submitReceipt, for the revision of the instruction and with its tasks; what
\* state the instruction is in is not asked.  partially-completed stands for
\* awaiting-clarification too, which differs by open questions.
Received(w, r, outcome) ==
    LET taken == [w EXCEPT !.receipts = @ \cup {<<r, outcome>>}, !.state[r] = outcome] IN
    IF outcome \in Terminal THEN Backfilled(taken) ELSE taken

Receive(s, r, outcome) ==
    /\ Ready(s) /\ IsNewReceipt(window[s], r, outcome)
    /\ WindowBecomes(s, Received(window[s], r, outcome), {})
    /\ strays' = IF window[s].state[r] \in Occupying \/ <<r, outcome>> \in window[s].receipts
                 THEN strays ELSE strays + 1
    /\ UNCHANGED requested

\* setWindowCapacity: the last ones of those with a slot go back to the queue;
\* a larger window is not filled.
Resized(w, n) ==
    LET overflow == {r \in Slots(w) : Cardinality(Earlier(w, Slots(w), r)) >= n} IN
    [w EXCEPT !.capacity = n,
              !.state = [r \in Request |-> IF r \in overflow THEN "accepted" ELSE @[r]],
              !.queue = @ \o InOrder(w, overflow \ Queued(w))]

SetWindowCapacity(s, n) ==
    /\ Ready(s) /\ WindowBecomes(s, Resized(window[s], n), {})
    /\ UNCHANGED <<strays, requested>>

-----------------------------------------------------------------------------
(* enqueuePersist: the writes of a store wait for each other.              *)

CommitGoes(s, place) == commit' = [commit EXCEPT ![s].at = place]
WindowFault == windowFaults < MaxWindowFaults /\ windowFaults' = windowFaults + 1
Commits(s) == commit' = [commit EXCEPT ![s] = NoCommit]

\* persist: the document goes to a temporary file.
Persist(s) ==
    /\ commit[s].at = "idle" /\ waiting[s] # <<>>
    /\ commit' = [commit EXCEPT ![s] = [at |-> "written", document |-> window[s],
                                         caller |-> Head(waiting[s])]]
    /\ waiting' = [waiting EXCEPT ![s] = Tail(@)]
    /\ UNCHANGED <<window, loading, known, committed, windowFile, answered, calls, windowFaults>>

\* assertForeignWriteBeforeCommit.
MayCommit(s) ==
    /\ known[s] # {} => Fingerprints(windowFile) = known[s]
    /\ known[s] = {} /\ committed[s] => windowFile # {}

\* The guard throws: the caller is told so, and the copy in memory stays.
Guard(s) ==
    /\ commit[s].at = "written"
    /\ \/ MayCommit(s) /\ CommitGoes(s, "guarded")
       \/ ~MayCommit(s) /\ Commits(s)
    /\ UNCHANGED <<copies, known, committed, windowFile, answered, calls, windowFaults>>

RenameWindow(s) ==
    /\ commit[s].at = "guarded" /\ CommitGoes(s, "renamed") /\ windowFile' = {commit[s].document}
    /\ UNCHANGED <<copies, known, committed, answered, calls, windowFaults>>

\* What is on disk by now is what the store knows; the call returns.
Recheck(s) ==
    /\ commit[s].at = "renamed" /\ Commits(s)
    /\ known' = [known EXCEPT ![s] = Fingerprints(windowFile)] /\ committed' = [committed EXCEPT ![s] = TRUE]
    /\ answered' = answered \cup commit[s].caller
    /\ UNCHANGED <<copies, windowFile, calls, windowFaults>>

WriteFails(s) ==
    /\ commit[s].at \in {"written", "guarded"} /\ WindowFault /\ Commits(s)
    /\ UNCHANGED <<copies, known, committed, windowFile, answered, calls>>

\* The process ends, and the next one starts with nothing in memory.
StoreEnds(s) ==
    /\ loading[s] # "no" /\ WindowFault
    /\ window' = [window EXCEPT ![s] = EmptyWindow] /\ loading' = [loading EXCEPT ![s] = "no"]
    /\ known' = [known EXCEPT ![s] = {}] /\ committed' = [committed EXCEPT ![s] = FALSE]
    /\ waiting' = [waiting EXCEPT ![s] = <<>>] /\ Commits(s)
    /\ UNCHANGED <<windowFile, answered, calls>>

WindowNext ==
    \E s \in Store :
        \/ BeginLoading(s) \/ EndLoading(s)
        \/ Persist(s) \/ Guard(s) \/ RenameWindow(s) \/ Recheck(s) \/ WriteFails(s) \/ StoreEnds(s)
        \/ Admit(s) \/ AdmitAgain(s) \/ \E r \in Request, o \in Outcome : Receive(s, r, o)
        \/ \E n \in 1..MaxCapacity : SetWindowCapacity(s, n)

WindowSpec == WindowInit /\ [][WindowNext]_windowVars
-----------------------------------------------------------------------------
\* The copies of the document: in memory, and on disk.
Windows == {window[s] : s \in Store} \cup windowFile

\* An instruction that waits is in the queue once: receipts in any order,
\* changes of the capacity and restarts lose none and add none.  Unless an
\* instruction without a slot got a receipt, all that is in the queue waits.
AcceptedIsQueued ==
    \A w \in Windows :
        /\ \A r \in Request : w.state[r] = "accepted" => r \in Queued(w)
        /\ Len(w.queue) = Cardinality(Queued(w))
        /\ strays = 0 => \A r \in Queued(w) : w.state[r] = "accepted"

\* There are more instructions with a slot than the window has only by new
\* receipts for instructions that had none (see the README on those).
SlotsAreBounded == \A w \in Windows : Cardinality(Slots(w)) <= w.capacity + strays

\* While instructions wait, one has a slot: its receipt will dispatch
\* the next one.
QueueIsServed == \A w \in Windows : w.queue # <<>> => Slots(w) # {}

\* An idempotency key has one instruction.
OneInstructionPerKey == \A w \in Windows : \A q, r \in Records(w) : Key(q) = Key(r) => q = r

\* What a caller was told is in the window is in the file, whatever fails or
\* ends afterwards.
AnsweredIsKept == \A r \in answered : \E d \in windowFile : r \in Records(d)

WindowInv ==
    /\ AcceptedIsQueued /\ SlotsAreBounded /\ QueueIsServed
    /\ OneInstructionPerKey /\ AnsweredIsKept
=============================================================================
