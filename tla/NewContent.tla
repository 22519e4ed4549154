----------------------------- MODULE NewContent -----------------------------
(***************************************************************************)
(* The "New Content Available" popup of the app (NewContentService.check   *)
(* and HomeScreen._checkNewContent).  A check asks Firestore for what is   *)
(* newer than two times kept in SharedPreferences, moves these on and      *)
(* hands the counts to the home screen.  The app can be killed at every    *)
(* await, the home screen can go away (maintenance mode) while a check     *)
(* runs, the answer can be that of a stale local cache, and the clock of   *)
(* the device can be ahead of the server's.                                *)
(*                                                                         *)
(* Times are in ms.  An item is named by its created_at: the server's      *)
(* timestamps are in ms too.                                               *)
(***************************************************************************)
EXTENDS Integers, FiniteSets

CONSTANTS
    MaxTime,  \* bound: the server's clock stops here
    Ahead,    \* how much the clock of the device is ahead of the server's
    Limit,    \* the most documents a query returns (50)
    None      \* no time stored yet, no answer yet

Times == 1 .. MaxTime

ASSUME TimeAssumption ==
    /\ MaxTime \in Nat /\ Ahead \in Nat /\ Limit \in Nat \ {0}
    /\ None \notin Nat
    /\ \A S \in SUBSET Times : None # S

Kinds == {"audio", "magazine"}

VARIABLES
    time,    \* the server's clock
    stamps,  \* created_at of the documents ever published, by collection
    gone,    \* those deleted again
    last,    \* last_seen_audio_at and last_seen_magazine_at
    step,    \* the await the check stands at
    seen,    \* what the check read of last
    now,     \* the device's clock as the check read it
    found,   \* the documents the queries returned, None before they did
    mounted, \* whether the home screen that started the check is there
    shown,   \* history: items counted in a popup
    lost,    \* history: items beyond the limit of an answer, or counted by a
             \* check that ended without a popup
    base     \* history: what was stored of a collection first

store   == <<time, stamps, gone>>
check   == <<step, seen, now, found>>
history == <<shown, lost, base>>
vars    == <<store, last, check, mounted, history>>

TypeOK ==
    /\ time \in 0 .. MaxTime
    /\ stamps \in [Kinds -> SUBSET Times]
    /\ gone \in [Kinds -> SUBSET Times]
    /\ last \in [Kinds -> 0 .. MaxTime + Ahead \cup {None}]
    /\ step \in {"idle", "query", "audio", "magazine", "show"}
    /\ seen \in [Kinds -> 0 .. MaxTime + Ahead \cup {None}]
    /\ now \in 0 .. MaxTime + Ahead
    /\ found \in [Kinds -> {None} \cup SUBSET Times]
    /\ mounted \in BOOLEAN
    /\ shown \in [Kinds -> SUBSET Times]
    /\ lost \in [Kinds -> SUBSET Times]
    /\ base \in [Kinds -> 0 .. MaxTime + Ahead \cup {None}]

Init ==
    /\ time = 0
    /\ stamps = [k \in Kinds |-> {}]
    /\ gone = [k \in Kinds |-> {}]
    /\ last = [k \in Kinds |-> None]
    /\ step = "idle"
    /\ seen = [k \in Kinds |-> None]
    /\ now = 0
    /\ found = [k \in Kinds |-> None]
    /\ mounted = FALSE
    /\ shown = [k \in Kinds |-> {}]
    /\ lost = [k \in Kinds |-> {}]
    /\ base = [k \in Kinds |-> None]

-----------------------------------------------------------------------------
(* The server.                                                             *)

\* Somebody adds a document.  The panel adds magazines; its audio goes to
\* another collection than the one the check asks (audio_tracks), which is
\* filled by other means or not at all.  Bound: one document each ms.
Publish(k) ==
    /\ time < MaxTime
    /\ time' = time + 1
    /\ stamps' = [stamps EXCEPT ![k] = @ \cup {time + 1}]
    /\ UNCHANGED <<gone, last, check, mounted, history>>

\* delMag.
Withdraw(k) ==
    /\ \E s \in stamps[k] \ gone[k] : gone' = [gone EXCEPT ![k] = @ \cup {s}]
    /\ UNCHANGED <<time, stamps, last, check, mounted, history>>

-----------------------------------------------------------------------------
(* The check.                                                              *)

Largest(S) == CHOOSE s \in S : \A t \in S : t <= s

\* orderBy(field, descending: true).limit(50)
Newest(S) == {s \in S : Cardinality({t \in S : t > s}) < Limit}

\* The home screen was built two seconds ago and is still there.
\* Bound: one check at a time.  A second home screen is built only after a
\* maintenance mode, and the app fetches that at most once an hour.
Start ==
    /\ step = "idle"
    /\ mounted' = TRUE
    /\ step' = "query"
    /\ seen' = last
    /\ now' = time + Ahead
    /\ found' = [k \in Kinds |-> None]
    /\ UNCHANGED <<store, last, history>>

\* Mutant: isGreaterThanOrEqualTo.
AfterOrAt(k, s) == seen[k] = None \/ s >= seen[k]

\* Mutant: the where clause is forgotten.
AfterAny(k, s) == k \in Kinds /\ s \in Times

\* Whether a document is asked for: q.where(field, isGreaterThan: after).
After(k, s) == seen[k] = None \/ s > seen[k]

\* The answer of one query; offline it is that of the cache, which may lack
\* what came after some time and hold what has been deleted.
Answer(k) ==
    /\ step = "query" /\ found[k] = None
    /\ \E asOf \in 0 .. time, out \in SUBSET gone[k] :
         LET match == {s \in stamps[k] \ out : s <= asOf /\ After(k, s)}
         IN  /\ found' = [found EXCEPT ![k] = Newest(match)]
             /\ lost' = [lost EXCEPT ![k] = @ \cup (match \ Newest(match))]
    /\ UNCHANGED <<store, last, step, seen, now, mounted, shown, base>>

\* Future.wait is done.
Answered ==
    /\ step = "query" /\ \A k \in Kinds : found[k] # None
    /\ step' = "audio"
    /\ UNCHANGED <<store, last, seen, now, found, mounted, history>>

\* Counted by the check that runs.
Counted(k) == IF found[k] = None THEN {} ELSE found[k]

\* A query threw: the catch returns (0, 0), what the other one found is
\* dropped.
QueryFailed ==
    /\ step = "query"
    /\ step' = "idle"
    /\ found' = [k \in Kinds |-> None]
    /\ UNCHANGED <<store, last, seen, now, mounted, history>>

\* Mutant: without an answer, the device's clock is stored at every check.
NextAlways(k) == IF found[k] # {} THEN Largest(found[k]) ELSE now

\* Mutant: microsecondsSinceEpoch.
NextMicros(k) ==
    IF found[k] # {} THEN Largest(found[k]) * 1000
    ELSE IF seen[k] = None THEN now ELSE seen[k]

\* What is stored for a collection: the newest document found; without one
\* the device's clock on the very first launch, and else nothing new.
NextSeen(k) ==
    IF found[k] # {} THEN Largest(found[k])
    ELSE IF seen[k] = None THEN now ELSE seen[k]

\* prefs.setInt of one key.
Store(k, next) ==
    /\ step = k
    /\ step' = next
    /\ last' = [last EXCEPT ![k] = NextSeen(k)]
    /\ base' = IF base[k] = None THEN [base EXCEPT ![k] = NextSeen(k)] ELSE base
    /\ UNCHANGED <<store, seen, now, found, mounted, shown, lost>>

FirstLaunch == \A k \in Kinds : seen[k] = None

\* check() returns: the popup, if there is something new and the home screen
\* is still there.
Show ==
    /\ step = "show"
    /\ step' = "idle"
    /\ found' = [k \in Kinds |-> None]
    /\ IF mounted /\ ~FirstLaunch
       THEN /\ shown' = [k \in Kinds |-> shown[k] \cup found[k]]
            /\ UNCHANGED lost
       ELSE /\ lost' = [k \in Kinds |-> lost[k] \cup found[k]]
            /\ UNCHANGED shown
    /\ UNCHANGED <<store, last, seen, now, mounted, base>>

-----------------------------------------------------------------------------
\* Maintenance mode replaces the home screen; the check runs on.
Dispose ==
    /\ mounted
    /\ mounted' = FALSE
    /\ UNCHANGED <<store, last, check, history>>

\* The process ends.
Kill ==
    /\ step # "idle"
    /\ step' = "idle"
    /\ mounted' = FALSE
    /\ found' = [k \in Kinds |-> None]
    /\ lost' = [k \in Kinds |-> lost[k] \cup Counted(k)]
    /\ UNCHANGED <<store, last, seen, now, shown, base>>

-----------------------------------------------------------------------------
Next ==
    \/ \E k \in Kinds : Publish(k) \/ Withdraw(k) \/ Answer(k)
    \/ Start \/ Answered \/ QueryFailed
    \/ Store("audio", "magazine") \/ Store("magazine", "show")
    \/ Show \/ Dispose \/ Kill

Spec == Init /\ [][Next]_vars

-----------------------------------------------------------------------------
(* Properties                                                              *)

\* No popup counts an item that an earlier popup counted ("so the same items
\* are not shown again"), whatever launches were cut short between the query,
\* the two writes and the popup, and however stale the answers were.
NoRepeat ==
    step = "show" /\ mounted /\ ~FirstLaunch =>
        \A k \in Kinds : found[k] \cap shown[k] = {}

\* The stored times pass over no item: one that came after the first stored
\* time and is not newer than the last was counted by a check, this one or an
\* earlier one, or was beyond the limit of an answer.
NeverSkipped ==
    \A k \in Kinds : \A s \in stamps[k] \ gone[k] :
        last[k] # None /\ base[k] < s /\ s <= last[k] =>
            s \in shown[k] \cup lost[k] \cup Counted(k)

\* The stored times never go back, not even on a stale answer: a later
\* launch would announce everything in between once more.
LastOnlyAdvances ==
    [][\A k \in Kinds : last[k] # None => last'[k] >= last[k]]_vars

\* new_content_service.dart:9-10, "epoch ms of the newest magazine the user
\* has been shown": once something newer than the first stored time is on
\* record and no check runs, the item it stands for was in a popup.
LastSeenWasShown ==
    step = "idle" =>
        \A k \in Kinds : \A s \in stamps[k] :
            base[k] # None /\ base[k] < s /\ s = last[k] => s \in shown[k]

=============================================================================
