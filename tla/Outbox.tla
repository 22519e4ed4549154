------------------------------- MODULE Outbox -------------------------------
(***************************************************************************)
(* What the Firestore client promises of the writes it accepts: they are   *)
(* kept in the order they were made, reach the server for the first time   *)
(* in that order, and are settled one after the other, each with what the  *)
(* server did with it.  Streams, pipelines and restarts are not visible.   *)
(***************************************************************************)
EXTENDS Naturals, Sequences

CONSTANTS Writes, Users, Nobody, Refused

VARIABLES
    user,      \* whose writes are being delivered
    queue,     \* unsettled writes, by user
    written,   \* writes accepted so far
    delivered, \* writes the server has applied
    told       \* what callers have been told

vars == <<user, queue, written, delivered, told>>

Init ==
    /\ user = Nobody
    /\ queue = [u \in Users |-> <<>>]
    /\ written = {}
    /\ delivered = {}
    /\ told = [w \in Writes |-> "nothing"]

Accept(w) ==
    /\ w \notin written
    /\ written' = written \cup {w}
    /\ queue' = [queue EXCEPT ![user] = Append(@, w)]
    /\ UNCHANGED <<user, delivered, told>>

\* The first arrival of a write; a repeated one is not visible here.
Deliver(u, i) ==
    /\ queue[u][i] \notin delivered \cup Refused
    /\ \A j \in 1..(i - 1) : queue[u][j] \in delivered
    /\ delivered' = delivered \cup {queue[u][i]}
    /\ UNCHANGED <<user, queue, written, told>>

\* The oldest write is settled; its caller may have been killed meanwhile.
Settle(status) ==
    /\ queue[user] # <<>>
    /\ LET w == Head(queue[user]) IN
       /\ w \in (IF status = "ok" THEN delivered ELSE Refused)
       /\ told' \in {told, [told EXCEPT ![w] = status]}
    /\ queue' = [queue EXCEPT ![user] = Tail(@)]
    /\ UNCHANGED <<user, written, delivered>>

SignIn(u) ==
    /\ user = Nobody
    /\ user' = u
    /\ UNCHANGED <<queue, written, delivered, told>>

Next ==
    \/ \E w \in Writes : Accept(w)
    \/ \E u \in Users : \E i \in 1..Len(queue[u]) : Deliver(u, i)
    \/ Settle("ok")
    \/ Settle("refused")
    \/ \E u \in Users : SignIn(u)

Spec == Init /\ [][Next]_vars

=============================================================================
