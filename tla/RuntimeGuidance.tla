---------------------------- MODULE RuntimeGuidance ----------------------------
(***************************************************************************)
(* What reaches a task while it runs: directions (Guidance), changes of    *)
(* the task (GuidanceChanges) and requests to cancel its long tools        *)
(* (LongToolCancellation).  The three keep no state in common, so their    *)
(* composition is a conjunction.                                           *)
(***************************************************************************)
EXTENDS Guidance, GuidanceChanges, LongToolCancellation

RuntimeGuidanceSpec == GuidanceSpec /\ GuidanceChangesSpec /\ LongToolSpec

\* What reaches a task that runs: guidance is applied once, changes stay as they were
\* decided, and the result of a long tool is delivered once.
RuntimeGuidanceInv == GuidanceInv /\ ChangesInv /\ LongToolInv
=============================================================================
