------------------------------ MODULE PermissionAsk ------------------------------
(***************************************************************************)
(* Questions for permission (orchestration/permission-ask-request-store.ts *)
(* and permission-ask-decision-entry.ts).  Each question is a file, which  *)
(* is read first and written later.  A decision runs under a mutex of its  *)
(* entry service, but public-sdk.ts creates a service for every decision:  *)
(* no two decisions ever meet at the same mutex.                           *)
(***************************************************************************)
EXTENDS Naturals, FiniteSets

CONSTANTS
    Operation,     \* (owner, task, tool, arguments): what permission is asked for
    Ask,           \* askIdentifiers, in the order of their creation (numbers)
    Decider        \* calls of decidePermissionAskRequest

ASSUME PermissionAskAssumption ==
    IsFiniteSet(Ask) /\ Ask \subseteq Nat \ {0}

VARIABLES
    asks,         \* asks[a]: the file of a question
    registering,  \* operations whose registration has found nothing pending
    deciding,     \* decisions that have read the file and will write it
    overdue,      \* questions whose time is over
    called,       \* deciders that have called
    answered,     \* what deciders were told
    registerRace, \* history: operations registered by overlapping calls
    decideRace    \* history: questions decided by overlapping calls

askVars == <<asks, registering, deciding, overdue, called, answered, registerRace, decideRace>>

NoAsk == [of |-> "none", status |-> "none", revision |-> 0]

AskInit ==
    /\ asks = [a \in Ask |-> NoAsk]
    /\ registering = [o \in Operation |-> 0]
    /\ deciding = {} /\ overdue = {} /\ called = {} /\ answered = {}
    /\ registerRace = {} /\ decideRace = {}

Pending(o) == {a \in Ask : asks[a].of = o /\ asks[a].status = "pending"}
NextAsk == {a \in Ask : asks[a] = NoAsk /\ \A b \in Ask : b < a => asks[b] # NoAsk}

\* registerRequest: a question that is pending is asked only once, ...
RegisterReads(o) ==
    /\ Pending(o) = {} /\ registering[o] < 2
    /\ registering' = [registering EXCEPT ![o] = @ + 1]
    /\ registerRace' = IF registering[o] > 0 THEN registerRace \cup {o} ELSE registerRace
    /\ UNCHANGED <<asks, deciding, overdue, called, answered, decideRace>>

\* Mutant: revisions start at 0.
NewAskUnnumbered(o, a) == [of |-> o, status |-> "pending", revision |-> 0]

NewAsk(o, a) == [of |-> o, status |-> "pending", revision |-> 1]

\* ... otherwise its file is written.
RegisterWrites(o) ==
    /\ registering[o] > 0
    /\ registering' = [registering EXCEPT ![o] = @ - 1]
    /\ \E a \in NextAsk : asks' = [asks EXCEPT ![a] = NewAsk(o, a)]
    /\ UNCHANGED <<deciding, overdue, called, answered, registerRace, decideRace>>

TimePasses(a) ==
    /\ asks[a] # NoAsk /\ a \notin overdue
    /\ overdue' = overdue \cup {a}
    /\ UNCHANGED <<asks, registering, deciding, called, answered, registerRace, decideRace>>

\* Mutant: the status is not looked at.
DecidableByRevision(a, known) == asks[a].revision = known

\* decideRequest, after its checks of the subject: status, revision (the
\* fingerprint never changes).
Decidable(a, known) == asks[a].status = "pending" /\ asks[a].revision = known

\* Each decider has seen the question in some revision.  What it reads decides
\* whether the file becomes expired, allowed or denied.
DecideReads(d, a, known, decision) ==
    /\ d \notin called /\ asks[a] # NoAsk /\ known <= asks[a].revision
    /\ called' = called \cup {d}
    /\ LET result == IF a \in overdue
                      THEN (IF asks[a].status = "pending" THEN "expired" ELSE "refused")
                      ELSE IF Decidable(a, known) THEN decision ELSE "refused"
       IN  deciding' = IF result = "refused" THEN deciding
                       ELSE deciding \cup {[by |-> d, ask |-> a, to |-> result, read |-> asks[a]]}
    /\ decideRace' = IF \E w \in deciding : w.ask = a THEN decideRace \cup {a} ELSE decideRace
    /\ UNCHANGED <<asks, registering, overdue, answered, registerRace>>

Decided(w) == [w.read EXCEPT !.status = w.to, !.revision = @ + 1]

DecideWrites(w) ==
    /\ w \in deciding /\ deciding' = deciding \ {w}
    /\ asks' = [asks EXCEPT ![w.ask] = Decided(w)]
    /\ answered' = IF w.to = "expired" THEN answered
                   ELSE answered \cup {[by |-> w.by, ask |-> w.ask, to |-> w.to]}
    /\ UNCHANGED <<registering, overdue, called, registerRace, decideRace>>

AskNext ==
    \/ \E o \in Operation : RegisterReads(o) \/ RegisterWrites(o)
    \/ \E a \in Ask : TimePasses(a)
    \/ \E d \in Decider, a \in Ask, known \in {1, 2}, decision \in {"allowed", "denied"} :
          DecideReads(d, a, known, decision)
    \/ \E w \in deciding : DecideWrites(w)

AskSpec == AskInit /\ [][AskNext]_askVars

----------------------------------------------------------------------------
(* Properties.                                                             *)

AskTypeOK ==
    \A a \in Ask : asks[a] = NoAsk \/
        asks[a] \in [of : Operation, status : {"pending", "allowed", "denied", "expired"},
                     revision : {1, 2}]

\* Decisions that do not overlap leave one answer, which is what the file says
\* forever; and registrations that do not overlap leave one pending question
\* for an operation.
AnswersAreFinal ==
    /\ \A x, y \in answered : x.ask = y.ask /\ x.ask \notin decideRace => x = y
    /\ \A x \in answered : x.ask \notin decideRace => asks[x.ask].status = x.to
    /\ \A o \in Operation \ registerRace : Cardinality(Pending(o)) <= 1

\* The questions in the file, and the answers people were told were taken.
AskInv == AskTypeOK /\ AnswersAreFinal
==============================================================================
