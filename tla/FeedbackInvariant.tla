-------------------------- MODULE FeedbackInvariant ---------------------------
(* The inductive invariant of Feedback: that of the client, and what the    *)
(* form has said.                                                           *)
EXTENDS Feedback, WriteQueueInvariant

IInv == WQInv /\ TypeOK /\ ReceivedIsStored

=============================================================================
