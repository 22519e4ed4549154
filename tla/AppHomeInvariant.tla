--------------------------- MODULE AppHomeInvariant ---------------------------
(* What makes the properties of AppHome inductive.                          *)
EXTENDS AppHome

\* A process that has ended fetches nothing, none shows a screen before its first
\* frame, and none is resumed before it is up.
OffInv ==
    /\ phase = "off" => fetches = <<>>
    /\ maintenance => phase \in {"built", "up"}
    /\ phase # "up" => \A i \in 1..Len(fetches) : fetches[i].who # "resume"

\* What an earlier run had fetched, when it is what is published, is active; so
\* the check finds it, or has found it.
DemandInv ==
    learnt /\ ~erred =>
        /\ stored = published
        /\ phase # "off" => active = published
        /\ phase \in {"built", "up"} => maintenance = published.maint
        /\ phase = "up" /\ published.demand /\ ~published.maint
            => checking \/ dialog

\* Since a load that had nothing before it, whatever was read, kept or is awaited
\* is no older than what the panel had saved when it began.
FreshInv ==
    due > 0 =>
        /\ cache = Nothing \/ cache >= due
        /\ \A i \in 1..Len(loads) :
            /\ loads[i].since >= due /\ loads[i].lists # "failed"
            /\ loads[i].settings = Nothing \/ loads[i].settings >= due

\* And so is what is shown, unless it is about to be replaced.
ShownInv ==
    due > 0 =>
        /\ phase \in {"built", "up"}
        /\ maintenance \/ loading \/ shown >= due

IInv ==
    /\ TypeOK
    /\ ShellUpToDate
    /\ OffInv
    /\ DemandInv
    /\ UpdateDemanded
    /\ FreshInv
    /\ ShownInv

=============================================================================
