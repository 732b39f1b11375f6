--------------------------- MODULE PublicApplication ---------------------------
(***************************************************************************)
(* The public application as its callers see it: tasks are submitted       *)
(* (TaskSubmission), and their status and end are reported (TaskMonitor).  *)
(* The ledger of submissions and the record of a task have nothing in      *)
(* common, so their composition is a conjunction.                          *)
(***************************************************************************)
EXTENDS TaskSubmission, TaskMonitor

ApplicationSpec == SubmissionSpec /\ MonitorSpec

\* What the public application says of submissions and of the end of a task.
ApplicationInv == KeyRunsOncePerProcess /\ ReportedEndIsReal
=============================================================================
