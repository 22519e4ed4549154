----------------------------- MODULE MCFeedback -----------------------------
(* Feedback on a small instance: submissions of two users, one refused.    *)
EXTENDS FeedbackInvariant

CONSTANTS w1, w2, w3, nobody, devotee

=============================================================================
