------------------------------ MODULE Feedback ------------------------------
(***************************************************************************)
(* A devotee's feedback, from the form (lib/screens/feedback_screen.dart,  *)
(* FirestoreService.submitFeedback) through the client's write queue to    *)
(* the document, which the panel marks as read, answers and deletes        *)
(* (cloudflare/admin/index.html).  A submission is one write; a document   *)
(* is the set of the parts it has.                                         *)
(***************************************************************************)
EXTENDS WriteQueue

CONSTANTS
    NoWrite,  \* no submission is awaited
    MaxEdits  \* bound: how many writes the panel makes in one behaviour

ASSUME FeedbackAssumption ==
    /\ NoWrite \notin Writes
    /\ MaxEdits \in Nat

VARIABLES
    awaited, \* the submission the form on the screen waits for
    thanked, \* history: submissions a form has called received
    docs,    \* the feedback collection
    edits    \* history: see MaxEdits

form == <<awaited, thanked>>
vars == <<wqVars, form, docs, edits>>

Parts == {"message", "read", "reply"}

Init ==
    /\ WQInit
    /\ awaited = NoWrite
    /\ thanked = {}
    /\ docs = [w \in Writes |-> {}]
    /\ edits = 0

-----------------------------------------------------------------------------
(* The form.                                                               *)

\* _submit: the button is disabled while a submission is awaited.
Submit(w) ==
    /\ awaited = NoWrite
    /\ Write(w)
    /\ awaited' = w
    /\ UNCHANGED <<thanked, docs, edits>>

\* Mutant: a write that is queued counts as received.
TimeoutIsSuccess ==
    /\ awaited # NoWrite
    /\ thanked' = thanked \cup {awaited}
    /\ awaited' = NoWrite
    /\ UNCHANGED <<wqVars, docs, edits>>

\* 'Your feedback has been received.'
Received ==
    /\ awaited # NoWrite /\ told[awaited] = "ok"
    /\ thanked' = thanked \cup {awaited}
    /\ awaited' = NoWrite
    /\ UNCHANGED <<wqVars, docs, edits>>

\* 'Could not submit. Please try again.': the write was refused, or 12 s have
\* passed and it stays in the queue.  Or the devotee has left the screen, and
\* nothing is shown once it is not mounted.
CouldNotSubmit ==
    /\ awaited # NoWrite
    /\ awaited' = NoWrite
    /\ UNCHANGED <<wqVars, thanked, docs, edits>>

\* The app is killed.
Kill ==
    /\ Relaunch
    /\ awaited' = NoWrite
    /\ UNCHANGED <<thanked, docs, edits>>

-----------------------------------------------------------------------------
(* The collection.                                                         *)

\* add() is a set without merge: it replaces whatever the document has become.
AddFeedback(w) ==
    /\ Commit(w) \/ LateCommit(w)
    /\ docs' = [docs EXCEPT ![w] = {"message"}]
    /\ UNCHANGED <<form, edits>>

\* The panel acts on what a list once showed; its setDoc merges, and creates
\* the document if it has been deleted.
Panel(w, parts) ==
    /\ w \in committed
    /\ edits < MaxEdits
    /\ edits' = edits + 1
    /\ docs' = [docs EXCEPT ![w] = parts]
    /\ UNCHANGED <<wqVars, form>>

MarkRead(w) == Panel(w, docs[w] \cup {"read"})

SaveReply(w) == Panel(w, docs[w] \cup {"read", "reply"})

DelFeedback(w) == Panel(w, {})

-----------------------------------------------------------------------------
\* The client and the network on their own.
Delivery ==
    /\ \/ OnStreamStart
       \/ BackoffElapsed
       \/ ServeHandshake
       \/ OnWriteStreamHandshakeComplete
       \/ \E w \in Writes : Refuse(w)
       \/ OnWriteStreamMutationResult
       \/ RejectFront
    /\ UNCHANGED <<form, docs, edits>>

Disturbance ==
    /\ \/ OnWriteStreamClose
       \/ IdleTimeout
       \/ NetworkAvailable
       \/ \E u \in Users : HandleCredentialChange(u)
       \/ LateLost
    /\ UNCHANGED <<form, docs, edits>>

Next ==
    \/ \E w \in Writes : Submit(w)
    \/ Received
    \/ CouldNotSubmit
    \/ Kill
    \/ Delivery
    \/ Disturbance
    \/ \E w \in Writes : AddFeedback(w)
    \/ \E w \in Writes : MarkRead(w) \/ SaveReply(w) \/ DelFeedback(w)

Spec == Init /\ [][Next]_vars

\* The client's own steps are timers and queued operations that always run, a
\* server that is reached takes its requests; streams break finitely often.
FairSpec ==
    Spec /\ WF_vars(Delivery) /\ WF_vars(\E w \in Writes : AddFeedback(w))

-----------------------------------------------------------------------------
(* Properties.                                                             *)

\* Type correctness of the form and the collection, and of the client.
TypeOK ==
    /\ WQTypeOK
    /\ awaited \in Writes \cup {NoWrite}
    /\ thanked \subseteq Writes
    /\ docs \in [Writes -> SUBSET Parts]
    /\ edits \in 0..MaxEdits

\* 'Your feedback has been received' is shown only of a feedback the panel can
\* see: the callback the form waits for is that of its own write.
ReceivedIsStored == thanked \subseteq committed

\* The set behind a feedback replaces the whole document each time it arrives.
\* That ends with its settlement: once a feedback has left the queue and no
\* broken stream carries it, what the panel made of it stays.
SettledIsFinal ==
    [][\A w \in written :
         w \notin Queued \cup Elements(late) /\ docs'[w] # docs[w]
            => edits' = edits + 1]_vars

Promise == INSTANCE Outbox WITH delivered <- committed

\* With all its streams, the client is the outbox it promises to be.
ImplementsOutbox == Promise!Spec

=============================================================================
