------------------------------ MODULE AppShell -------------------------------
(***************************************************************************)
(* The app's start, its resumption and its two locks: the maintenance      *)
(* screen and the forced update (lib/main.dart, update_service.dart), both *)
(* decided by Remote Config values of which the device has two copies, the *)
(* fetched and the active ones (remote_config_service.dart).               *)
(*                                                                         *)
(* Actions leave the variables of the screens to AppHome.                  *)
(***************************************************************************)
EXTENDS Naturals, Sequences

CONSTANTS
    MaxChanges, \* bound: changes of the published values
    MaxFetches  \* bound: fetchAndActivate calls under way

ASSUME AppShellAssumption == MaxChanges \in Nat /\ MaxFetches \in Nat \ {0}

\* maint: maintenance_mode; demand: force_update_version is above this app's.
Values == [maint : BOOLEAN, demand : BOOLEAN]

NoValues == [maint |-> FALSE, demand |-> FALSE]

VARIABLES
    published,   \* the values in the console
    changes,
    stored,      \* fetched, on the device
    active,      \* activated, on the device
    phase,       \* of the process
    fetches,     \* fetchAndActivate calls: whose, and whether they have fetched
    maintenance, \* _maintenance
    checking,    \* checkAndShowIfRequired awaits the version of the package
    dialog,      \* the forced update's dialog, which nothing closes
    late,        \* history: main's fetch has changed active.maint after the
                 \* first frame, and no refresh has ended since
    learnt,      \* history: the values an earlier run had fetched were the ones
                 \* published when this one started, and still are
    erred        \* history: init or the check has swallowed an error in this run

shellVars == <<published, changes, stored, active, phase, fetches, maintenance,
               checking, dialog, late, learnt, erred>>

ShellInit ==
    /\ published \in Values /\ changes = 0
    /\ stored = NoValues /\ active = NoValues
    /\ phase = "off" /\ fetches = <<>>
    /\ maintenance = FALSE /\ checking = FALSE /\ dialog = FALSE
    /\ late = FALSE /\ learnt = FALSE /\ erred = FALSE

Publish(v) ==
    /\ changes < MaxChanges /\ v # published
    /\ published' = v
    /\ changes' = changes + 1
    /\ learnt' = FALSE
    /\ UNCHANGED <<stored, active, phase, fetches, maintenance, checking, dialog,
                   late, erred>>

-----------------------------------------------------------------------------
Fetch(who) == fetches' = Append(fetches, [who |-> who, fetched |-> FALSE])

\* Mutant: what an earlier run has fetched is left for fetchAndActivate.
LaunchUnactivated(ok) ==
    /\ phase = "off"
    /\ phase' = "starting"
    /\ active' = active
    /\ IF ok THEN Fetch("main") ELSE UNCHANGED fetches
    /\ learnt' = (stored = published)
    /\ erred' = ~ok
    /\ UNCHANGED <<published, changes, stored, maintenance, checking, dialog, late>>

\* main up to runApp: init activates what an earlier run has fetched and starts
\* a fetch that nobody waits for; an error of the plugin stops it.
Launch(ok) ==
    /\ phase = "off"
    /\ phase' = "starting"
    /\ IF ok THEN active' = stored /\ Fetch("main")
       ELSE UNCHANGED <<active, fetches>>
    /\ learnt' = (stored = published)
    /\ erred' = ~ok
    /\ UNCHANGED <<published, changes, stored, maintenance, checking, dialog, late>>

\* _MainShellState.initState.
FirstFrame ==
    /\ phase = "starting"
    /\ phase' = "built"
    /\ maintenance' = active.maint
    /\ UNCHANGED <<published, changes, stored, active, fetches, checking, dialog,
                   late, learnt, erred>>

\* The callback after that frame: checkAndShowIfRequired reads the minimum
\* version, and asks for the package's if there is one.
AfterFirstFrame ==
    /\ phase = "built"
    /\ phase' = "up"
    /\ checking' = (~maintenance /\ active.demand)
    /\ UNCHANGED <<published, changes, stored, active, fetches, maintenance, dialog,
                   late, learnt, erred>>

\* The package's version is there, whatever the values are by now; an error of
\* the plugin leaves the app without the dialog.
CheckEnds(ok) ==
    /\ checking
    /\ checking' = FALSE
    /\ dialog' = ok
    /\ erred' = (erred \/ ~ok)
    /\ UNCHANGED <<published, changes, stored, active, phase, fetches, maintenance,
                   late, learnt>>

\* The user leaves the app and comes back: didChangeAppLifecycleState, refresh.
Resume ==
    /\ phase = "up" /\ Len(fetches) < MaxFetches
    /\ Fetch("resume")
    /\ UNCHANGED <<published, changes, stored, active, phase, maintenance, checking,
                   dialog, late, learnt, erred>>

\* The process ends.
Kill ==
    /\ phase # "off"
    /\ phase' = "off"
    /\ fetches' = <<>>
    /\ maintenance' = FALSE /\ checking' = FALSE /\ dialog' = FALSE
    /\ late' = FALSE /\ learnt' = FALSE /\ erred' = FALSE
    /\ UNCHANGED <<published, changes, stored, active>>

-----------------------------------------------------------------------------
(* fetchAndActivate.                                                       *)

Without(i) == SubSeq(fetches, 1, i - 1) \o SubSeq(fetches, i + 1, Len(fetches))

\* The values arrive; within an hour of the last ones they are not asked for.
Fetched(i, arrive) ==
    /\ i \in 1..Len(fetches) /\ ~fetches[i].fetched
    /\ fetches' = [fetches EXCEPT ![i].fetched = TRUE]
    /\ stored' = IF arrive THEN published ELSE stored
    /\ UNCHANGED <<published, changes, active, phase, maintenance, checking, dialog,
                   late, learnt, erred>>

\* Mutant: the shell does not look again after a refresh.
NotLookedAt(i) == UNCHANGED <<maintenance, late>>

\* What follows a call: the shell looks at the values again after a refresh, in
\* main nobody does.
Ended(i) ==
    IF fetches[i].who = "resume"
    THEN maintenance' = active'.maint /\ late' = FALSE
    ELSE /\ UNCHANGED maintenance
         /\ late' = \/ late
                    \/ phase # "starting" /\ active'.maint # active.maint

Activated(i) ==
    /\ i \in 1..Len(fetches) /\ fetches[i].fetched
    /\ active' = stored
    /\ Ended(i)
    /\ fetches' = Without(i)
    /\ UNCHANGED <<published, changes, stored, phase, checking, dialog, learnt,
                   erred>>

\* No network, or three seconds without an answer: the values stay.
FetchFails(i) ==
    /\ i \in 1..Len(fetches) /\ ~fetches[i].fetched
    /\ active' = active
    /\ Ended(i)
    /\ fetches' = Without(i)
    /\ UNCHANGED <<published, changes, stored, phase, checking, dialog, learnt,
                   erred>>

-----------------------------------------------------------------------------
ShellTypeOK ==
    /\ {published, stored, active} \subseteq Values
    /\ changes \in 0..MaxChanges
    /\ phase \in {"off", "starting", "built", "up"}
    /\ fetches \in Seq([who : {"main", "resume"}, fetched : BOOLEAN])
    /\ Len(fetches) <= MaxFetches
    /\ {maintenance, checking, dialog, late, learnt, erred} \subseteq BOOLEAN

=============================================================================
