----------------------------- MODULE GuidanceChanges -----------------------------
(***************************************************************************)
(* Changes of a task by guidance (runtime-guidance/guidance-change-intent  *)
(* and its journal, public-sdk.ts applyGuidanceChange): a change names the *)
(* revision of the task it was made for, and is decided once per delivery. *)
(*                                                                         *)
(* The decisions live in the memory of each process.  After each of them   *)
(* the process writes its whole memory to one file, without waiting for    *)
(* writes under way; a process that starts reads the file.                 *)
(***************************************************************************)
EXTENDS Naturals, FiniteSets

CONSTANTS
    Change,        \* intents of the user, each with a text of its own
    GuidedTask,
    TargetOf,      \* TargetOf[c]: targetTaskIdentifier
    Unclear,       \* changes of which the kind or what they invalidate is not stated
    MaxRevision,   \* bound: revisions the user may name
    MaxRestarts,   \* bound: restarts of the process
    MaxWrites      \* bound: writes of the file under way

ASSUME GuidanceChangesAssumption ==
    /\ TargetOf \in [Change -> GuidedTask] /\ Unclear \subseteq Change
    /\ {MaxRevision, MaxRestarts, MaxWrites} \subseteq Nat

VARIABLES
    memory,     \* the controller of the running process
    file,       \* change-intent.json
    writes,     \* writes under way: the snapshot of each, and for whom
    told,       \* deliveries whose caller was told, and with which decision
    instructed, \* instructed[c]: guidance submitted for accepted changes
    outrun,     \* history: has a write landed after that of a later snapshot
    restarted   \* bound

guidanceChangesVars == <<memory, file, writes, told, instructed, outrun, restarted>>

\* The delivery key: the identifier is computed from the change and the
\* revision it names, the guidanceRevision is always 1.
Delivery == Change \X (1..MaxRevision)

\* historyByTaskIdentifier: entries are never removed, their revision is
\* their position.
NoState == [revision |-> [t \in GuidedTask |-> 1], history |-> {}, decided |-> {}]

Decision(state, d) == CHOOSE x \in state.decided : x.delivery = d
IsDecided(state, d) == \E x \in state.decided : x.delivery = d

GuidanceChangesInit ==
    /\ memory = NoState /\ file = NoState
    /\ writes = {} /\ told = {} /\ instructed = [c \in Change |-> 0]
    /\ outrun = FALSE /\ restarted = 0

\* evaluate: first whether the change is clear, then its revision.
VerdictOn(state, d) ==
    IF d[1] \in Unclear THEN "needs-clarification"
    ELSE IF d[2] = state.revision[TargetOf[d[1]]] THEN "accepted" ELSE "rejected"

\* evaluateAppendOrRevise on an accepted change.
Evaluated(state, d) ==
    LET t == TargetOf[d[1]]
        v == VerdictOn(state, d)
    IN  [revision |-> IF v = "accepted" THEN [state.revision EXCEPT ![t] = @ + 1]
                      ELSE state.revision,
         history  |-> IF v = "accepted"
                      THEN state.history \cup {[task |-> t, revision |-> state.revision[t] + 1, by |-> d]}
                      ELSE state.history,
         decided  |-> {x \in state.decided : x.delivery # d} \cup {[delivery |-> d, status |-> v]}]

\* Mutant: repeated deliveries are not recognised.
AfterAnyDelivery(state, d) == Evaluated(state, d)

After(state, d) == IF IsDecided(state, d) THEN state ELSE Evaluated(state, d)

\* applyChange and the snapshot for the journal.
ApplyChange(d) ==
    /\ Cardinality(writes) < MaxWrites
    /\ memory' = After(memory, d)
    /\ writes' = writes \cup {[state |-> After(memory, d), delivery |-> d]}
    /\ UNCHANGED <<file, told, instructed, outrun, restarted>>

\* The write lands; the guidance of an accepted change is submitted, that of a
\* repeated delivery too.
Lands(w) ==
    LET verdict == Decision(w.state, w.delivery).status
    IN  /\ w \in writes /\ writes' = writes \ {w}
        /\ file' = w.state
        /\ outrun' = (outrun \/ ~(file.decided \subseteq w.state.decided))
        /\ told' = told \cup {[delivery |-> w.delivery, status |-> verdict]}
        /\ instructed' = IF verdict = "accepted" /\ instructed[w.delivery[1]] < 2
                         THEN [instructed EXCEPT ![w.delivery[1]] = @ + 1] ELSE instructed
        /\ UNCHANGED <<memory, restarted>>

\* A crash, and hydrate() of the next process.
Restart ==
    /\ restarted < MaxRestarts /\ restarted' = restarted + 1
    /\ memory' = file /\ writes' = {}
    /\ UNCHANGED <<file, told, instructed, outrun>>

GuidanceChangesNext ==
    \/ \E d \in Delivery : ApplyChange(d)
    \/ \E w \in writes : Lands(w)
    \/ Restart

GuidanceChangesSpec == GuidanceChangesInit /\ [][GuidanceChangesNext]_guidanceChangesVars

----------------------------------------------------------------------------
(* Properties.                                                             *)

\* In memory, in the file and in every snapshot: the history of a task has
\* exactly one entry per revision, each the accepted decision of another
\* delivery, so a change applied twice or a revision given twice shows.
Consistent(state) ==
    /\ \A t \in GuidedTask :
          {h.revision : h \in {h \in state.history : h.task = t}} = 2..state.revision[t]
    /\ \A h, g \in state.history :
          (h.task = g.task /\ h.revision = g.revision) \/ h.by = g.by => h = g
    /\ \A h \in state.history : [delivery |-> h.by, status |-> "accepted"] \in state.decided
    /\ \A x, y \in state.decided : x.delivery = y.delivery => x = y

ChangesAreConsistent ==
    Consistent(memory) /\ Consistent(file) /\ \A w \in writes : Consistent(w.state)

\* What a caller was told stays decided that way, across a restart too, unless
\* writes of the file have overtaken each other.
ToldStaysDecided == ~outrun => told \subseteq memory.decided

\* The decisions about changes, in memory, in the file and as callers know them.
ChangesInv == ChangesAreConsistent /\ ToldStaysDecided
=============================================================================
