------------------------- MODULE NewContentInvariant -------------------------
(***************************************************************************)
(* The inductive invariant of NewContent.                                  *)
(***************************************************************************)
EXTENDS NewContent

StampInv == \A k \in Kinds : \A s \in stamps[k] : s <= time

\* Only the first stored time can be ahead of the server's clock.
LastInv ==
    \A k \in Kinds :
        /\ last[k] = None <=> base[k] = None
        /\ last[k] # None => base[k] <= last[k]
        /\ last[k] # None => last[k] <= time \/ last[k] = base[k]

ShownInv ==
    \A k \in Kinds : \A s \in shown[k] : last[k] # None /\ s <= last[k]

\* Whether the check that runs is past the write of k.
Stored(k) ==
    step = "show" \/ (k = "audio" /\ step = "magazine")

CheckInv ==
    \A k \in Kinds :
        /\ step = "idle" => found[k] = None
        /\ step \in {"audio", "magazine", "show"} => found[k] # None
        /\ Stored(k) => last[k] = NextSeen(k)
        /\ step # "idle" /\ ~Stored(k) => last[k] = seen[k]
        /\ step # "idle" => \A s \in shown[k] : seen[k] # None /\ s <= seen[k]

FoundInv ==
    \A k \in Kinds : found[k] # None =>
        \A s \in found[k] : s <= time /\ After(k, s)

\* An answer leaves nothing out below its newest document.
AnswerInv ==
    \A k \in Kinds : found[k] # None =>
        \A s \in stamps[k] \ gone[k], f \in found[k] :
            After(k, s) /\ s <= f => s \in found[k] \cup lost[k]

\* The induction hypothesis of the proofs, checked here on the small instance.
IInv ==
    /\ TypeOK /\ StampInv /\ LastInv /\ ShownInv /\ CheckInv /\ FoundInv
    /\ AnswerInv /\ NeverSkipped

=============================================================================
