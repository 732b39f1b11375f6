----------------------------- MODULE FeedbackQueue -----------------------------
(***************************************************************************)
(* What the feedback process promises about one message: once it is in its *)
(* recipient's mailbox it stays there until a handler has received it.  A  *)
(* concurrent save of the same mailbox can overwrite it, and another can   *)
(* bring it back; nothing else removes it, no crash of the feedback        *)
(* process in particular.                                                  *)
(***************************************************************************)
CONSTANT Message

VARIABLE stage  \* stage[m]: how far message m has come

Forward ==
    {<<"unsent", "journaled">>, <<"journaled", "received">>,
     <<"journaled", "overwritten">>, <<"overwritten", "journaled">>,
     <<"overwritten", "received">>}   \* a delivery begun before it was overwritten

QueueInit == stage = [m \in Message |-> "unsent"]

\* One save may overwrite some messages and bring back others.
QueueNext ==
    /\ stage' \in [Message -> {"unsent", "journaled", "received", "overwritten"}]
    /\ \A m \in Message : stage'[m] # stage[m] => <<stage[m], stage'[m]>> \in Forward

\* A message in a mailbox is received unless it is overwritten.
Progress ==
    \A m \in Message :
        stage[m] = "journaled" ~> stage[m] \in {"received", "overwritten"}

\* What may happen to a message, and that something does.
QueueSafety == QueueInit /\ [][QueueNext]_stage
QueueSpec == QueueSafety /\ Progress
=============================================================================
