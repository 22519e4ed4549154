------------------------------ MODULE Catalogue ------------------------------
(***************************************************************************)
(* What publishing promises to the readers of the app, with no requests,   *)
(* no tabs and one store: an item appears in the catalogue together with   *)
(* its files and leaves it together with them, once each.                  *)
(***************************************************************************)
CONSTANT Docs

VARIABLES
    status,  \* where an item is in its life
    readable \* the items in the catalogue all of whose files can be fetched

Init ==
    /\ status = [d \in Docs |-> "absent"]
    /\ readable = {}

Publish(d) ==
    /\ status[d] = "absent"
    /\ status' = [status EXCEPT ![d] = "live"]
    /\ readable' = readable \cup {d}

Retire(d) ==
    /\ status[d] = "live"
    /\ status' = [status EXCEPT ![d] = "deleted"]
    /\ readable' = readable \ {d}

Next == \E d \in Docs : Publish(d) \/ Retire(d)

Spec == Init /\ [][Next]_<<status, readable>>

=============================================================================
