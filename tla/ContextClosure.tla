----------------------------- MODULE ContextClosure -----------------------------
(***************************************************************************)
(* The context graph of an agent, the closure of its nodes when a task is  *)
(* done, and the review by a person afterwards (orchestration/local-       *)
(* context-graph-store.ts, context-node-lifecycle.ts, context-closure-     *)
(* capsule-store.ts, human-verification-controller.ts, public-sdk.ts).     *)
(* Every write of the graph is guarded by the revision its caller has      *)
(* read; capsules, entries for review and acceptances are files beside it. *)
(***************************************************************************)
EXTENDS Naturals, FiniteSets

CONSTANTS
    Node,             \* context nodes, one per task
    MaxGraphRevision  \* bound on the revisions of the graph

ASSUME ContextClosureAssumption == IsFiniteSet(Node) /\ MaxGraphRevision \in Nat

VARIABLES
    graph,       \* revision, state and openRequiredChildCount of each node, required edges
    capsules,    \* closure capsules: node and revision (the hash stands for both)
    entries,     \* deferred verification tasks: identifier, node and revision of the capsule
    acceptances, \* acceptance files: node and revision
    closing,     \* closing[n]: where completeTaskNode(n) is, and the revision it has read
    ruling,      \* where recordVerificationDecision is
    concluded,   \* history: nodes whose last completeTaskNode ended without an error
    stripped     \* history: nodes that lost entries to a rejection since that call ended

contextVars == <<graph, capsules, entries, acceptances, closing, ruling, concluded, stripped>>

\* The schema has a third closed state, superseded, that no code gives to a node.
Closed == {"accepted-closed", "deferred-review-closed"}
NodeState == Closed \cup {"absent", "active", "locally-verified", "awaiting-user-acceptance", "reopened"}

NotClosing == [phase |-> "idle", seen |-> 0]
NoVerdict == [phase |-> "idle", entry |-> 0]

ContextInit ==
    /\ graph = [revision |-> 1, state |-> [n \in Node |-> "absent"], open |-> [n \in Node |-> 0], required |-> {}]
    /\ capsules = {} /\ entries = {} /\ acceptances = {} /\ concluded = {} /\ stripped = {}
    /\ closing = [n \in Node |-> NotClosing] /\ ruling = NoVerdict

RequiredParents(n) == {p \in Node : <<p, n>> \in graph.required}
RequiredChildren(n) == {c \in Node : <<n, c>> \in graph.required}

--------------------------------------------------------------------------------
(* The graph store.  Each operation yields the next graph; every change    *)
(* moves the revision.                                                     *)

Marked(n, state) == [graph EXCEPT !.revision = @ + 1, !.state[n] = state]

\* closeNode, reopenNode: the counters of the required parents follow.
ClosedAs(n, state) ==
    [Marked(n, state) EXCEPT !.open =
        [p \in Node |-> IF p \in RequiredParents(n) /\ graph.open[p] > 0 THEN graph.open[p] - 1 ELSE graph.open[p]]]

\* A mutant: a node opens again and its parents keep their counters.
ReopenedAlone(n) == Marked(n, "reopened")
Reopened(n) ==
    [Marked(n, "reopened") EXCEPT !.open =
        [p \in Node |-> IF p \in RequiredParents(n) THEN graph.open[p] + 1 ELSE graph.open[p]]]
Closable(n, state) ==
    /\ graph.state[n] \in {"locally-verified", "awaiting-user-acceptance"}
    /\ graph.open[n] = 0
    /\ state = "accepted-closed" => \A c \in RequiredChildren(n) : graph.state[c] = "accepted-closed"

\* wouldCreateCycle: p is reached from c, so it is in every set that has c and what its members require.
WouldCreateCycle(p, c) ==
    \A S \in SUBSET Node : c \in S /\ (\A e \in graph.required : e[1] \in S => e[2] \in S) => p \in S

\* addEdge.  An edge is named by its ends: there is one for each pair.
AddEdge(p, c) ==
    /\ p # c /\ graph.revision < MaxGraphRevision
    /\ graph.state[p] # "absent" /\ graph.state[c] # "absent"
    /\ <<p, c>> \notin graph.required /\ ~WouldCreateCycle(p, c)
    /\ graph' = [graph EXCEPT !.revision = @ + 1, !.required = @ \cup {<<p, c>>},
                              !.open[p] = IF graph.state[c] \in Closed THEN @ ELSE @ + 1]
    /\ UNCHANGED <<capsules, entries, acceptances, closing, ruling, concluded, stripped>>

\* closeNode as its callers outside the life cycle may use it: a node is accepted.
CloseAccepted(n) ==
    /\ graph.revision < MaxGraphRevision
    /\ Closable(n, "accepted-closed")
    /\ graph' = ClosedAs(n, "accepted-closed")
    /\ UNCHANGED <<capsules, entries, acceptances, closing, ruling, concluded, stripped>>

--------------------------------------------------------------------------------
(* completeTaskNode: begin the node, mark it verified, close it or let it  *)
(* wait, then the capsule, then the entry for review.  Between reading the *)
(* graph and writing it others may have written: the call ends there with  *)
(* stale-revision, as it does when the process ends.                       *)

At(n, phase) == closing[n].phase = phase
Goes(n, phase) == closing' = [closing EXCEPT ![n] = [phase |-> phase, seen |-> graph.revision]]

Completes(n) ==
    /\ At(n, "idle")
    /\ IF graph.state[n] = "absent" THEN Goes(n, "adding") ELSE closing' = [closing EXCEPT ![n].phase = "begun"]
    /\ concluded' = concluded \ {n}
    /\ UNCHANGED <<graph, capsules, entries, acceptances, ruling, stripped>>

WritesState(n, phase, state, next) ==
    /\ At(n, phase) /\ closing[n].seen = graph.revision /\ graph.revision < MaxGraphRevision
    /\ graph' = Marked(n, state)
    /\ closing' = [closing EXCEPT ![n] = [phase |-> next, seen |-> IF next = "last" THEN graph.revision + 1 ELSE 0]]
    /\ UNCHANGED <<capsules, entries, acceptances, ruling, concluded, stripped>>

Adds(n) == WritesState(n, "adding", "active", "begun")
Verifies(n) == WritesState(n, "verifying", "locally-verified", "verified")

\* Each later part of the call reads the graph again.
ReadsToVerify(n) ==
    /\ At(n, "begun")
    /\ IF graph.state[n] \in {"active", "reopened"} THEN Goes(n, "verifying")
       ELSE closing' = [closing EXCEPT ![n].phase = "verified"]
    /\ UNCHANGED <<graph, capsules, entries, acceptances, ruling, concluded, stripped>>

\* The policy of the mode decides between closing and waiting for the person.  Whether an entry
\* for review is owed is settled here, from the state that is read: the entry follows the capsule
\* in phase "capsule", and the capsule is the last thing made in phase "last".
ReadsToClose(n, policy) ==
    /\ At(n, "verified")
    /\ Goes(n, IF graph.state[n] = "deferred-review-closed" THEN "capsule"
               ELSE IF graph.state[n] = "accepted-closed" THEN "last"
               ELSE IF policy = "continue-with-deferred-review" THEN "closing"
               ELSE IF graph.state[n] = "awaiting-user-acceptance" THEN "last" ELSE "waiting")
    /\ UNCHANGED <<graph, capsules, entries, acceptances, ruling, concluded, stripped>>

Waits(n) == WritesState(n, "waiting", "awaiting-user-acceptance", "last")

Closes(n) ==
    /\ At(n, "closing") /\ closing[n].seen = graph.revision /\ graph.revision < MaxGraphRevision
    /\ Closable(n, "deferred-review-closed")
    /\ graph' = ClosedAs(n, "deferred-review-closed")
    /\ closing' = [closing EXCEPT ![n] = [phase |-> "capsule", seen |-> graph.revision + 1]]
    /\ UNCHANGED <<capsules, entries, acceptances, ruling, concluded, stripped>>

\* ensureClosureCapsule, under the revision the call has seen last.
WithCapsule(n) == capsules \cup {<<n, closing[n].seen>>}

\* The call has returned to its caller.
EndsClosing(n) ==
    /\ closing' = [closing EXCEPT ![n] = NotClosing]
    /\ concluded' = concluded \cup {n} /\ stripped' = stripped \ {n}

MakesCapsule(n) ==
    /\ At(n, "capsule")
    /\ capsules' = WithCapsule(n)
    /\ closing' = [closing EXCEPT ![n].phase = "entry"]
    /\ UNCHANGED <<graph, entries, acceptances, ruling, concluded, stripped>>

MakesLastCapsule(n) ==
    /\ At(n, "last")
    /\ capsules' = WithCapsule(n)
    /\ EndsClosing(n)
    /\ UNCHANGED <<graph, entries, acceptances, ruling>>

\* listDeferredVerificationTasks: entries of closed nodes without an acceptance.
Listed == {e \in entries : graph.state[e.node] = "deferred-review-closed" /\ <<e.node, e.revision>> \notin acceptances}

\* ensureDeferredVerificationTask: the identifier is the task's, or carries the revision
\* when the task's own is listed; the file of that identifier is written over.
BaseIdentifier == 0
\* A mutant: an entry of the node will do, whatever it is about.
HasAnyEntryFor(n, revision) == \E e \in Listed : e.node = n
HasEntryFor(n, revision) == \E e \in Listed : e.node = n /\ e.revision = revision
Filed(n, revision) ==
    LET identifier == IF \E e \in Listed : e.node = n /\ e.id = BaseIdentifier THEN revision ELSE BaseIdentifier
    IN IF HasEntryFor(n, revision) \/ \E e \in Listed : e.node = n /\ e.id = identifier THEN entries
       ELSE {e \in entries : ~(e.node = n /\ e.id = identifier)} \cup {[node |-> n, id |-> identifier, revision |-> revision]}

\* The entry is filed for the state that was read, whatever the node is now.
MakesEntry(n) ==
    /\ At(n, "entry")
    /\ entries' = Filed(n, closing[n].seen)
    /\ EndsClosing(n)
    /\ UNCHANGED <<graph, capsules, acceptances, ruling>>

\* stale-revision, context-node-not-closable, or the end of the process.
GivesUp(n) ==
    /\ ~At(n, "idle")
    /\ closing' = [closing EXCEPT ![n] = NotClosing]
    /\ UNCHANGED <<graph, capsules, entries, acceptances, ruling, concluded, stripped>>

--------------------------------------------------------------------------------
(* recordVerificationDecision: the entry is looked up by its identifier,   *)
(* listed or not; its capsule must exist and its node be closed.           *)

Decides(e, phase) ==
    /\ ruling.phase = "idle" /\ e \in entries
    /\ <<e.node, e.revision>> \in capsules
    /\ graph.state[e.node] \in Closed
    /\ phase = "accepting" => e.revision = graph.revision
    /\ ruling' = [phase |-> phase, entry |-> e]
    /\ UNCHANGED <<graph, capsules, entries, acceptances, closing, concluded, stripped>>

\* recordUserAcceptance leaves the node as it is.
RecordsAcceptance ==
    /\ ruling.phase = "accepting"
    /\ acceptances' = acceptances \cup {<<ruling.entry.node, ruling.entry.revision>>}
    /\ ruling' = NoVerdict
    /\ UNCHANGED <<graph, capsules, entries, closing, concluded, stripped>>

\* recordUserRejection reads the graph again and opens the node ...
OpensAgain ==
    /\ ruling.phase = "rejecting"
    /\ LET n == ruling.entry.node
       IN /\ graph.state[n] \in Closed => graph.revision < MaxGraphRevision
          /\ graph' = IF graph.state[n] \in Closed THEN Reopened(n) ELSE graph
    /\ ruling' = [ruling EXCEPT !.phase = "removing"]
    /\ UNCHANGED <<capsules, entries, acceptances, closing, concluded, stripped>>

\* ... and removes the entries of the node that are listed then.  An open node has none listed:
\* what there is to remove belongs to a node that has closed again.
RemovesEntries ==
    /\ ruling.phase = "removing"
    /\ LET n == ruling.entry.node
           removed == {e \in Listed : e.node = n}
       IN /\ entries' = entries \ removed
          /\ stripped' = IF removed = {} THEN stripped ELSE stripped \cup {n}
    /\ ruling' = NoVerdict
    /\ UNCHANGED <<graph, capsules, acceptances, closing, concluded>>

VerdictIsLost ==
    /\ ruling.phase # "idle"
    /\ ruling' = NoVerdict
    /\ UNCHANGED <<graph, capsules, entries, acceptances, closing, concluded, stripped>>

ContextNext ==
    \/ \E p, c \in Node : AddEdge(p, c)
    \/ \E n \in Node :
        \/ CloseAccepted(n) \/ Completes(n) \/ Adds(n) \/ ReadsToVerify(n) \/ Verifies(n)
        \/ \E policy \in {"continue-with-deferred-review", "block-until-verified"} : ReadsToClose(n, policy)
        \/ Waits(n) \/ Closes(n) \/ MakesCapsule(n) \/ MakesLastCapsule(n) \/ MakesEntry(n)
        \/ GivesUp(n)
    \/ \E e \in entries, phase \in {"accepting", "rejecting"} : Decides(e, phase)
    \/ RecordsAcceptance \/ OpensAgain \/ RemovesEntries \/ VerdictIsLost

ContextSpec == ContextInit /\ [][ContextNext]_contextVars

--------------------------------------------------------------------------------
(* Properties.                                                             *)

\* The counter of a node is the number of its required children that are not closed, however
\* often they close and open again; no node requires itself through others, so that none waits
\* for its own closure; and an entry for review always has the capsule it is about.
CountersAreRight ==
    /\ graph.state \in [Node -> NodeState]
    /\ \A S \in SUBSET Node : S # {} => \E n \in S : RequiredChildren(n) \cap S = {}
    /\ \A p \in Node : graph.open[p] = Cardinality({c \in RequiredChildren(p) : graph.state[c] \notin Closed})
    /\ \A e \in entries : <<e.node, e.revision>> \in capsules

\* A task whose completion has ended and whose node is closed for a later review can be
\* reviewed, whatever was closed, opened, accepted or rejected meanwhile: its newest capsule
\* has an entry that is listed, or that has been accepted.  The code does not keep this for a
\* node that closes again while a rejection of it is still at work: the rejection's removal
\* then takes the new entry, and only the next completion of the task files one again.
ClosedIsReviewable ==
    \A n \in concluded \ stripped : graph.state[n] = "deferred-review-closed" =>
        \E c \in capsules :
            /\ c[1] = n /\ \A d \in capsules : d[1] = n => d[2] <= c[2]
            /\ c \in acceptances \/ \E e \in Listed : e.node = n /\ e.revision = c[2]

\* The graph of contexts, its capsules and its entries for review.
ContextInv == CountersAreRight /\ ClosedIsReviewable
================================================================================
