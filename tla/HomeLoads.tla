----------------------------- MODULE HomeLoads -------------------------------
(***************************************************************************)
(* The home screen's loads (lib/screens/home_screen.dart): each waits for  *)
(* lists that are read every time (magazines, programs) and for settings   *)
(* that are read once and kept for the session, their fallback included    *)
(* (home_cards_service.dart, quotes_service.dart; content_service.dart     *)
(* does the same for other screens).  A load goes on when its screen is    *)
(* gone, and still fills the cache.                                        *)
(*                                                                         *)
(* What the panel has saved of the settings is a version; the fallback is  *)
(* older than all.  The lists matter by their success.                     *)
(***************************************************************************)
EXTENDS Naturals, Sequences

CONSTANTS
    MaxVersion, \* bound: versions the panel saves
    MaxLoads,   \* bound: loads under way
    Nothing     \* no answer yet; an empty cache

ASSUME HomeLoadsAssumption ==
    MaxVersion \in Nat /\ MaxLoads \in Nat /\ Nothing \notin Nat

Fallback == 0

VARIABLES
    version, \* the settings, as last saved
    cache,   \* what the session keeps of them
    loads,   \* _load calls under way
    shown,   \* what the home screen shows of them
    loading, \* _loading
    due      \* history: the version when the last load began that had neither a
             \* cache to read nor a load before it; Fallback if since then a read
             \* failed or was the device's, or a refresh met a load under way

homeVars == <<version, cache, loads, shown, loading, due>>

HomeInit ==
    /\ version = 1
    /\ cache = Nothing /\ loads = <<>>
    /\ shown = Fallback /\ loading = FALSE
    /\ due = Fallback

Save ==
    /\ version < MaxVersion
    /\ version' = version + 1
    /\ UNCHANGED <<cache, loads, shown, loading, due>>

-----------------------------------------------------------------------------
\* A call of _load; kept is the cache it finds.
NewLoad(kept, by) ==
    [settings |-> kept, lists |-> "asked", since |-> version, by |-> by]

\* initState of a new screen.
Mount ==
    /\ Len(loads) < MaxLoads
    /\ loads' = Append(loads, NewLoad(cache, "start"))
    /\ shown' = Fallback
    /\ loading' = TRUE
    /\ due' = IF loads = <<>> /\ cache = Nothing THEN version ELSE due
    /\ UNCHANGED <<version, cache>>

\* The screen is disposed: setState is skipped from now on.
Unmount ==
    /\ loads' = [i \in 1..Len(loads) |-> [loads[i] EXCEPT !.by = "gone"]]
    /\ shown' = Fallback
    /\ loading' = FALSE
    /\ UNCHANGED <<version, cache, due>>

\* The process ends.
Forget ==
    /\ cache' = Nothing /\ loads' = <<>>
    /\ shown' = Fallback /\ loading' = FALSE
    /\ due' = Fallback
    /\ UNCHANGED version

\* Mutant: the load is started before the caches are cleared.
LoadThenClear ==
    /\ \A i \in 1..Len(loads) : loads[i].by # "refresh"
    /\ Len(loads) < MaxLoads
    /\ loads' = Append(loads, NewLoad(cache, "refresh"))
    /\ cache' = Nothing
    /\ loading' = TRUE
    /\ due' = IF loads = <<>> THEN version ELSE Fallback
    /\ UNCHANGED <<version, shown>>

\* A pull to refresh: the caches are cleared, then _load runs.
Refresh ==
    /\ \A i \in 1..Len(loads) : loads[i].by # "refresh"
    /\ Len(loads) < MaxLoads
    /\ cache' = Nothing
    /\ loads' = Append(loads, NewLoad(cache', "refresh"))
    /\ loading' = TRUE
    /\ due' = IF loads = <<>> THEN version ELSE Fallback
    /\ UNCHANGED <<version, shown>>

\* The settings are read: the server's of any time since it was asked, the
\* device's own, or none in twelve seconds; what arrives, or the fallback, is
\* kept.
SettingsRead(i, v) ==
    /\ i \in 1..Len(loads) /\ loads[i].settings = Nothing
    /\ v \in 0..version
    /\ cache' = v
    /\ loads' = [loads EXCEPT ![i].settings = v]
    /\ due' = IF v < loads[i].since THEN Fallback ELSE due
    /\ UNCHANGED <<version, shown, loading>>

ListsRead(i, how) ==
    /\ i \in 1..Len(loads) /\ loads[i].lists = "asked"
    /\ how \in {"read", "failed"}
    /\ loads' = [loads EXCEPT ![i].lists = how]
    /\ due' = IF how = "failed" THEN Fallback ELSE due
    /\ UNCHANGED <<version, cache, shown, loading>>

\* Mutant: shown as soon as the lists are there.
SettingsNotAwaited(i) ==
    /\ i \in 1..Len(loads)
    /\ loads[i].lists # "asked"
    /\ loads' = SubSeq(loads, 1, i - 1) \o SubSeq(loads, i + 1, Len(loads))
    /\ loading' = (loading /\ loads[i].by = "gone")
    /\ shown' = IF loads[i].by # "gone" /\ loads[i].lists = "read"
                THEN loads[i].settings ELSE shown
    /\ UNCHANGED <<version, cache, due>>

\* Future.wait is over: the answers are shown, unless one is an error.
LoadEnds(i) ==
    /\ i \in 1..Len(loads)
    /\ loads[i].settings # Nothing /\ loads[i].lists # "asked"
    /\ loads' = SubSeq(loads, 1, i - 1) \o SubSeq(loads, i + 1, Len(loads))
    /\ loading' = (loading /\ loads[i].by = "gone")
    /\ shown' = IF loads[i].by # "gone" /\ loads[i].lists = "read"
                THEN loads[i].settings ELSE shown
    /\ UNCHANGED <<version, cache, due>>

-----------------------------------------------------------------------------
Load == [settings : Nat \cup {Nothing}, lists : {"asked", "read", "failed"},
         since : Nat, by : {"start", "refresh", "gone"}]

HomeTypeOK ==
    /\ version \in Nat \ {0}
    /\ loads \in Seq(Load) /\ Len(loads) <= MaxLoads
    /\ {cache} \cup {loads[i].settings : i \in 1..Len(loads)}
        \subseteq 0..version \cup {Nothing}
    /\ {shown, due} \subseteq 0..version
    /\ loading \in BOOLEAN

=============================================================================
