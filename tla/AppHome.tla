------------------------------- MODULE AppHome -------------------------------
(***************************************************************************)
(* The app shell and its home screen: the maintenance screen takes the     *)
(* home screen away and brings a new one, the process takes all of both.   *)
(***************************************************************************)
EXTENDS AppShell, HomeLoads

vars == <<shellVars, homeVars>>

Init == ShellInit /\ HomeInit

Usable == phase = "up" /\ ~maintenance /\ ~dialog

\* build: the screens are there outside maintenance.
Rebuilt ==
    CASE maintenance /\ ~maintenance' -> Mount
      [] ~maintenance /\ maintenance' -> Unmount
      [] OTHER                        -> UNCHANGED homeVars

ShellStep ==
    \/ \E v \in Values : Publish(v) /\ UNCHANGED homeVars
    \/ \E ok \in BOOLEAN : Launch(ok) /\ UNCHANGED homeVars
    \/ FirstFrame /\ IF maintenance' THEN UNCHANGED homeVars ELSE Mount
    \/ AfterFirstFrame /\ UNCHANGED homeVars
    \/ \E ok \in BOOLEAN : CheckEnds(ok) /\ UNCHANGED homeVars
    \/ Resume /\ UNCHANGED homeVars
    \/ Kill /\ Forget
    \/ \E i \in 1..Len(fetches) :
        \/ \E arrive \in BOOLEAN : Fetched(i, arrive) /\ UNCHANGED homeVars
        \/ Activated(i) /\ Rebuilt
        \/ FetchFails(i) /\ Rebuilt

HomeStep ==
    /\ \/ Save
       \/ Usable /\ Refresh
       \/ \E i \in 1..Len(loads) :
           \/ \E v \in 0..version : SettingsRead(i, v)
           \/ \E how \in {"read", "failed"} : ListsRead(i, how)
           \/ LoadEnds(i)
    /\ UNCHANGED shellVars

Next == ShellStep \/ HomeStep

Spec == Init /\ [][Next]_vars

-----------------------------------------------------------------------------
(* Properties.                                                             *)

\* Type correctness of the shell, the home screen and what is under way.
TypeOK == ShellTypeOK /\ HomeTypeOK

\* While the app runs, the maintenance screen is there exactly when the active
\* values say so, unless a refresh is under way or the values that main asked
\* for came after the first frame and no refresh has ended since.
ShellUpToDate ==
    phase \in {"built", "up"} /\ maintenance # active.maint
        => late \/ \E i \in 1..Len(fetches) : fetches[i].who = "resume"

\* After the first load of a process, and after a pull to refresh that met no load
\* under way, the home screen shows settings no older than what the panel had
\* saved when it began ("Restart the app to see changes"), and so do the screens
\* that maintenance puts in its place meanwhile or later, until a read fails or is
\* answered by the device, or a refresh meets a load under way.
RefreshIsFresh == Usable /\ ~loading => shown >= due

\* A minimum version above the app's, published without maintenance, is demanded
\* by every run of the app that starts after an earlier run has fetched it, even
\* if that one ended before it could activate it: once the check is over the
\* dialog is there, unless init or the check has swallowed an error of a plugin.
\* What a run fetches for itself it does not look at again before the next one.
UpdateDemanded ==
    phase = "up" /\ ~checking /\ learnt /\ published.demand /\ ~published.maint
        => dialog \/ erred

=============================================================================
