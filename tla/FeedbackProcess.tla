---------------------------- MODULE FeedbackProcess ----------------------------
(***************************************************************************)
(* The feedback process as a whole: the mailboxes and their deliveries     *)
(* (Mailbox), and the supervisor that starts the child again               *)
(* (FeedbackSupervisor).  What the supervisor does reaches the mailboxes    *)
(* as crashes and restarts of the child, which may come at any time; so    *)
(* their composition is a conjunction.                                     *)
(***************************************************************************)
EXTENDS Mailbox, FeedbackSupervisor

FeedbackProcessSpec == MailboxSpec /\ SupervisorSpec

\* The journals, and the count of the restarts.
FeedbackInv == MailboxInv /\ SupervisorInv
================================================================================
