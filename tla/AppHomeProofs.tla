---------------------------- MODULE AppHomeProofs -----------------------------
(* What holds of the app shell and its home screen, for any number of loads  *)
(* and fetches under way, of published changes and of saved settings.        *)
EXTENDS AppHomeInvariant, SequenceLemmas

-----------------------------------------------------------------------------
(* The shell.                                                                *)

ShellInv == ShellTypeOK /\ ShellUpToDate /\ OffInv /\ DemandInv /\ UpdateDemanded

Fetches == [who : {"main", "resume"}, fetched : BOOLEAN]

\* A refresh that is under way stays so when calls are added or others end.
RefreshUnderWay(calls) == \E i \in 1..Len(calls) : calls[i].who = "resume"

LEMMA FetchTyped ==
    ASSUME ShellTypeOK, NEW i \in 1..Len(fetches)
    PROVE  /\ fetches[i] \in Fetches
           /\ fetches[i].who \in {"main", "resume"}
<1>1. fetches \in Seq(Fetches)
  BY DEF ShellTypeOK, Fetches
<1>2. fetches[i] \in Fetches
  BY <1>1, ElementOfSeq
<1> QED
  BY <1>2 DEF Fetches

LEMMA FetchAdded ==
    ASSUME ShellTypeOK, NEW who \in {"main", "resume"}, Fetch(who),
           Len(fetches) < MaxFetches
    PROVE  /\ fetches' \in Seq(Fetches) /\ Len(fetches') <= MaxFetches
           /\ RefreshUnderWay(fetches) \/ who = "resume" => RefreshUnderWay(fetches')
           /\ RefreshUnderWay(fetches') => RefreshUnderWay(fetches) \/ who = "resume"
<1> DEFINE c == [who |-> who, fetched |-> FALSE]
<1>1. /\ c \in Fetches /\ c.who = who
      /\ fetches \in Seq(Fetches) /\ fetches' = Append(fetches, c)
  BY DEF ShellTypeOK, Fetches, Fetch
<1> HIDE DEF c
<1>2. /\ fetches' \in Seq(Fetches) /\ Len(fetches') = Len(fetches) + 1
      /\ \A i \in 1..Len(fetches) : fetches'[i] = fetches[i]
      /\ fetches'[Len(fetches) + 1] = c
      /\ Len(fetches) \in Nat
  BY <1>1, AppendProperties
<1>3. Len(fetches') <= MaxFetches
  BY <1>2, AppShellAssumption DEF AppShellAssumption
<1>4. ASSUME RefreshUnderWay(fetches) PROVE RefreshUnderWay(fetches')
  <2>1. PICK i \in 1..Len(fetches) : fetches[i].who = "resume"
    BY <1>4 DEF RefreshUnderWay
  <2>2. i \in 1..Len(fetches') /\ fetches'[i].who = "resume"
    BY <1>2, <2>1
  <2> QED
    BY <2>2 DEF RefreshUnderWay
<1>5. ASSUME who = "resume" PROVE RefreshUnderWay(fetches')
  <2>1. Len(fetches) + 1 \in 1..Len(fetches') /\ fetches'[Len(fetches) + 1].who = "resume"
    BY <1>1, <1>2, <1>5
  <2> QED
    BY <2>1 DEF RefreshUnderWay
<1>6. ASSUME RefreshUnderWay(fetches'), who # "resume" PROVE RefreshUnderWay(fetches)
  <2>1. PICK i \in 1..Len(fetches') : fetches'[i].who = "resume"
    BY <1>6 DEF RefreshUnderWay
  <2>2. i \in 1..Len(fetches)
    BY <1>1, <1>2, <1>6, <2>1
  <2> QED
    BY <1>2, <2>1, <2>2 DEF RefreshUnderWay
<1> QED
  BY <1>2, <1>3, <1>4, <1>5, <1>6

LEMMA FetchEnded ==
    ASSUME ShellTypeOK, NEW i \in 1..Len(fetches), fetches' = Without(i)
    PROVE  /\ fetches' \in Seq(Fetches) /\ Len(fetches') <= MaxFetches
           /\ fetches[i].who # "resume" /\ RefreshUnderWay(fetches)
                => RefreshUnderWay(fetches')
           /\ RefreshUnderWay(fetches') => RefreshUnderWay(fetches)
<1>1. fetches \in Seq(Fetches) /\ fetches' = Cut(fetches, i) /\ Len(fetches) \in Nat
  BY DEF ShellTypeOK, Fetches, Without, Cut
<1>2. fetches' \in Seq(Fetches) /\ Len(fetches') = Len(fetches) - 1
  BY <1>1, CutProperties
<1>3. Len(fetches') <= MaxFetches
  BY <1>1, <1>2, AppShellAssumption DEF ShellTypeOK, AppShellAssumption
<1>4. ASSUME fetches[i].who # "resume", RefreshUnderWay(fetches)
      PROVE  RefreshUnderWay(fetches')
  <2>1. PICK k \in 1..Len(fetches) : fetches[k].who = "resume"
    BY <1>4 DEF RefreshUnderWay
  <2>2. \E j \in 1..Len(fetches') : fetches'[j] = fetches[k]
    BY <1>1, <1>4, <2>1, CutElements
  <2> QED
    BY <2>1, <2>2 DEF RefreshUnderWay
<1>5. ASSUME RefreshUnderWay(fetches') PROVE RefreshUnderWay(fetches)
  <2>1. PICK j \in 1..Len(fetches') : fetches'[j].who = "resume"
    BY <1>5 DEF RefreshUnderWay
  <2>2. \E k \in 1..Len(fetches) : fetches'[j] = fetches[k]
    BY <1>1, <2>1, CutElements
  <2> QED
    BY <2>1, <2>2 DEF RefreshUnderWay
<1> QED
  BY <1>2, <1>3, <1>4, <1>5

\* Whoever waited for the values: when the call has ended, the screen follows
\* them, or it is known why not.
LEMMA EndKeeps ==
    ASSUME ShellInv, NEW i \in 1..Len(fetches), fetches' = Without(i),
           Ended(i), active' \in {active, stored},
           UNCHANGED <<published, changes, stored, phase, checking, dialog, learnt,
                       erred>>
    PROVE  ShellInv'
<1>1. /\ ShellTypeOK /\ ShellUpToDate /\ OffInv /\ DemandInv /\ UpdateDemanded
      /\ active \in Values /\ stored \in Values /\ active' \in Values
  BY DEF ShellInv, ShellTypeOK
<1>2. /\ fetches' \in Seq(Fetches) /\ Len(fetches') <= MaxFetches
      /\ fetches[i].who # "resume" /\ RefreshUnderWay(fetches)
                => RefreshUnderWay(fetches')
      /\ RefreshUnderWay(fetches') => RefreshUnderWay(fetches)
  BY <1>1, FetchEnded
<1>3. /\ phase # "off"
      /\ RefreshUnderWay(fetches) => phase = "up"
      /\ maintenance => phase \in {"built", "up"}
  BY <1>1 DEF OffInv, RefreshUnderWay
<1>4. maintenance' \in BOOLEAN /\ late' \in BOOLEAN
  BY <1>1 DEF Ended, Values, ShellTypeOK
<1>5. ShellTypeOK'
  BY <1>1, <1>2, <1>4 DEF ShellTypeOK, Fetches
<1>6. ShellUpToDate'
  <2>1. CASE fetches[i].who = "resume"
    BY <2>1 DEF Ended, ShellUpToDate
  <2>2. CASE fetches[i].who # "resume"
    <3>1. /\ maintenance' = maintenance
          /\ late' = (late \/ (phase # "starting" /\ active'.maint # active.maint))
      BY <2>2 DEF Ended
    <3>2. phase \in {"built", "up"} /\ maintenance # active.maint
            => late \/ RefreshUnderWay(fetches)
      BY <1>1 DEF ShellUpToDate, RefreshUnderWay
    <3>3. phase' \in {"built", "up"} /\ maintenance' # active'.maint
            => late' \/ RefreshUnderWay(fetches')
      BY <1>2, <2>2, <3>1, <3>2
    <3> QED
      BY <3>3 DEF ShellUpToDate, RefreshUnderWay
  <2> QED
    BY <2>1, <2>2
<1>7. DemandInv' /\ UpdateDemanded'
  BY <1>1 DEF DemandInv, UpdateDemanded, Ended
<1>8. OffInv'
  <2>1. RefreshUnderWay(fetches') => phase' = "up"
    BY <1>2, <1>3
  <2>2. maintenance' => phase' \in {"built", "up"}
    <3>1. CASE fetches[i].who = "resume"
      BY <1>3, <3>1 DEF RefreshUnderWay
    <3>2. CASE fetches[i].who # "resume"
      BY <1>3, <3>2 DEF Ended
    <3> QED
      BY <3>1, <3>2
  <2> QED
    BY <1>3, <2>1, <2>2 DEF OffInv, RefreshUnderWay
<1> QED
  BY <1>5, <1>6, <1>7, <1>8 DEF ShellInv

LEMMA PublishKeeps ==
    ASSUME ShellInv, NEW v \in Values, Publish(v)
    PROVE  ShellInv'
<1>1. changes' \in 0..MaxChanges
  BY AppShellAssumption DEF AppShellAssumption, Publish, ShellInv, ShellTypeOK
<1> QED
  BY <1>1 DEF ShellInv, ShellTypeOK, ShellUpToDate, OffInv, DemandInv,
              UpdateDemanded, Publish

LEMMA LaunchKeeps ==
    ASSUME ShellInv, NEW ok \in BOOLEAN, Launch(ok)
    PROVE  ShellInv'
<1>1. /\ ShellTypeOK /\ phase = "off" /\ fetches = <<>>
      /\ phase' = "starting" /\ learnt' = (stored = published) /\ erred' = ~ok
      /\ UNCHANGED <<published, changes, stored, maintenance, checking, dialog, late>>
      /\ ok => active' = stored /\ Fetch("main")
      /\ ~ok => active' = active /\ fetches' = fetches
  BY DEF ShellInv, OffInv, Launch
<1>2. Len(fetches) < MaxFetches
  BY <1>1, EmptySeq, AppShellAssumption DEF AppShellAssumption
<1>3. fetches' \in Seq(Fetches) /\ Len(fetches') <= MaxFetches
  <2>1. CASE ok
    BY <1>1, <1>2, <2>1, FetchAdded
  <2>2. CASE ~ok
    BY <1>1, <2>2 DEF ShellTypeOK, Fetches
  <2> QED
    BY <2>1, <2>2
<1>4. ShellTypeOK'
  BY <1>1, <1>3 DEF ShellTypeOK, Fetches
<1>5. OffInv'
  <2>1. ~RefreshUnderWay(fetches)
    BY <1>1 DEF ShellInv, OffInv, RefreshUnderWay
  <2>2. ~RefreshUnderWay(fetches')
    BY <1>1, <1>2, <2>1, FetchAdded
  <2> QED
    BY <1>1, <2>2 DEF ShellInv, OffInv, RefreshUnderWay
<1>6. DemandInv'
  BY <1>1 DEF DemandInv
<1> QED
  BY <1>1, <1>4, <1>5, <1>6 DEF ShellInv, ShellUpToDate, UpdateDemanded

LEMMA FirstFrameKeeps == ShellInv /\ FirstFrame => ShellInv'
<1> SUFFICES ASSUME ShellInv, FirstFrame PROVE ShellInv'
  OBVIOUS
<1>1. /\ phase' = "built" /\ maintenance' = active.maint
      /\ UNCHANGED <<published, changes, stored, active, fetches, checking, dialog,
                     late, learnt, erred>>
  BY DEF FirstFrame
<1>2. active \in Values /\ active.maint \in BOOLEAN
  BY DEF ShellInv, ShellTypeOK, Values
<1>3. ShellTypeOK' /\ ShellUpToDate' /\ UpdateDemanded'
  BY <1>1, <1>2 DEF ShellInv, ShellTypeOK, ShellUpToDate, UpdateDemanded
<1>4. OffInv'
  BY <1>1 DEF ShellInv, OffInv, FirstFrame
<1>5. DemandInv'
  BY <1>1 DEF ShellInv, DemandInv, FirstFrame
<1> QED
  BY <1>3, <1>4, <1>5 DEF ShellInv

LEMMA AfterFirstFrameKeeps == ShellInv /\ AfterFirstFrame => ShellInv'
<1> SUFFICES ASSUME ShellInv, AfterFirstFrame PROVE ShellInv'
  OBVIOUS
<1>1. /\ phase = "built" /\ phase' = "up"
      /\ checking' = (~maintenance /\ active.demand)
      /\ UNCHANGED <<published, changes, stored, active, fetches, maintenance,
                     dialog, late, learnt, erred>>
  BY DEF AfterFirstFrame
<1>2. active \in Values /\ active.demand \in BOOLEAN /\ maintenance \in BOOLEAN
  BY DEF ShellInv, ShellTypeOK, Values
<1>3. DemandInv' /\ UpdateDemanded'
  BY <1>1, <1>2 DEF ShellInv, DemandInv, UpdateDemanded
<1> QED
  BY <1>1, <1>2, <1>3 DEF ShellInv, ShellTypeOK, ShellUpToDate, OffInv

\* The check ends with the dialog, or with an error that is on record.
LEMMA CheckEndsKeeps ==
    ASSUME ShellInv, NEW ok \in BOOLEAN, CheckEnds(ok)
    PROVE  ShellInv'
<1>1. /\ checking /\ checking' = FALSE /\ dialog' = ok /\ erred' = (erred \/ ~ok)
      /\ UNCHANGED <<published, changes, stored, active, phase, fetches,
                     maintenance, late, learnt>>
  BY DEF CheckEnds
<1>2. DemandInv' /\ UpdateDemanded'
  BY <1>1 DEF ShellInv, DemandInv, UpdateDemanded
<1> QED
  BY <1>1, <1>2 DEF ShellInv, ShellTypeOK, ShellUpToDate, OffInv

LEMMA ResumeKeeps == ShellInv /\ Resume => ShellInv'
<1> SUFFICES ASSUME ShellInv, Resume PROVE ShellInv'
  OBVIOUS
<1>1. /\ phase = "up" /\ Len(fetches) < MaxFetches /\ Fetch("resume")
      /\ UNCHANGED <<published, changes, stored, active, phase, maintenance,
                     checking, dialog, late, learnt, erred>>
  BY DEF Resume
<1>2. /\ fetches' \in Seq(Fetches) /\ Len(fetches') <= MaxFetches
      /\ RefreshUnderWay(fetches')
  BY <1>1, FetchAdded DEF ShellInv
<1>3. ShellTypeOK'
  BY <1>1, <1>2 DEF ShellInv, ShellTypeOK, Fetches
<1>4. ShellUpToDate'
  BY <1>2 DEF ShellUpToDate, RefreshUnderWay
<1> QED
  BY <1>1, <1>3, <1>4 DEF ShellInv, OffInv, DemandInv, UpdateDemanded

LEMMA KillKeeps == ShellInv /\ Kill => ShellInv'
<1> SUFFICES ASSUME ShellInv, Kill PROVE ShellInv'
  OBVIOUS
<1>1. /\ phase' = "off" /\ fetches' = <<>>
      /\ maintenance' = FALSE /\ checking' = FALSE /\ dialog' = FALSE
      /\ late' = FALSE /\ learnt' = FALSE /\ erred' = FALSE
      /\ UNCHANGED <<published, changes, stored, active>>
  BY DEF Kill
<1>2. fetches' \in Seq(Fetches) /\ Len(fetches') <= MaxFetches
  BY <1>1, EmptySeq, AppShellAssumption DEF AppShellAssumption
<1>3. ShellTypeOK'
  BY <1>1, <1>2 DEF ShellInv, ShellTypeOK, Fetches
<1> QED
  BY <1>1, <1>3 DEF ShellInv, ShellUpToDate, OffInv, DemandInv, UpdateDemanded

LEMMA FetchedKeeps ==
    ASSUME ShellInv, NEW i \in 1..Len(fetches), NEW arrive \in BOOLEAN,
           Fetched(i, arrive)
    PROVE  ShellInv'
<1>1. /\ ShellTypeOK /\ fetches \in Seq(Fetches) /\ Len(fetches) \in Nat
      /\ ~fetches[i].fetched
      /\ fetches' = [fetches EXCEPT ![i].fetched = TRUE]
      /\ stored' = IF arrive THEN published ELSE stored
      /\ UNCHANGED <<published, changes, active, phase, maintenance, checking,
                     dialog, late, learnt, erred>>
  BY DEF Fetched, ShellInv, ShellTypeOK, Fetches
<1>2. fetches[i] \in Fetches
  BY <1>1, FetchTyped
<1>3. /\ fetches' \in Seq(Fetches) /\ Len(fetches') = Len(fetches)
      /\ \A j \in 1..Len(fetches) : fetches'[j].who = fetches[j].who
  <2> DEFINE c == [fetches[i] EXCEPT !.fetched = TRUE]
  <2>1. c \in Fetches /\ c.who = fetches[i].who
    BY <1>2 DEF Fetches
  <2>2. fetches' = [fetches EXCEPT ![i] = c]
    BY <1>1
  <2> HIDE DEF c
  <2>3. /\ fetches' \in Seq(Fetches) /\ Len(fetches') = Len(fetches)
        /\ \A j \in 1..Len(fetches) : fetches'[j] = IF j = i THEN c ELSE fetches[j]
    <3>1. fetches \in Seq(Fetches) /\ c \in Fetches
      BY <1>1, <2>1
    <3>2. /\ [fetches EXCEPT ![i] = c] \in Seq(Fetches)
          /\ Len([fetches EXCEPT ![i] = c]) = Len(fetches)
          /\ \A j \in 1..Len(fetches) :
                [fetches EXCEPT ![i] = c][j] = IF j = i THEN c ELSE fetches[j]
      BY <3>1, ExceptSeq
    <3> QED
      BY <2>2, <3>2
  <2> QED
    BY <2>1, <2>3
<1>4. ShellTypeOK'
  BY <1>1, <1>3 DEF ShellTypeOK, Fetches
<1>5. ShellUpToDate'
  BY <1>1, <1>3 DEF ShellInv, ShellUpToDate
<1>6. OffInv'
  <2>1. fetches # <<>>
    BY <1>1, EmptySeq
  <2> QED
    BY <1>1, <2>1 DEF ShellInv, OffInv
<1> QED
  BY <1>1, <1>4, <1>5, <1>6 DEF ShellInv, DemandInv, UpdateDemanded

LEMMA ActivatedKeeps ==
    ASSUME ShellInv, NEW i \in 1..Len(fetches), Activated(i)
    PROVE  ShellInv'
BY EndKeeps DEF Activated

LEMMA FetchFailsKeeps ==
    ASSUME ShellInv, NEW i \in 1..Len(fetches), FetchFails(i)
    PROVE  ShellInv'
BY EndKeeps DEF FetchFails

LEMMA ShellStutters == ShellInv /\ UNCHANGED shellVars => ShellInv'
BY DEF ShellInv, ShellTypeOK, ShellUpToDate, OffInv, DemandInv, UpdateDemanded,
       shellVars

-----------------------------------------------------------------------------
(* The home screen's loads.                                                  *)

HomeInv == HomeTypeOK /\ FreshInv

\* A load that may end after a refresh from version d on.
FreshFor(l, d) ==
    /\ l.since >= d /\ l.lists # "failed"
    /\ l.settings = Nothing \/ l.settings >= d

\* A call of _load, of the settings saved up to v.
LoadOf(l, v) == l \in Load /\ l.settings \in 0..v \cup {Nothing}

LEMMA HomeFacts ==
    ASSUME HomeInv
    PROVE  /\ version \in Nat \ {0} /\ due \in 0..version /\ shown \in 0..version
           /\ cache \in 0..version \cup {Nothing} /\ loading \in BOOLEAN
           /\ loads \in Seq(Load) /\ Len(loads) \in Nat /\ Len(loads) <= MaxLoads
           /\ MaxLoads \in Nat /\ Nothing \notin Nat
           /\ \A i \in 1..Len(loads) : LoadOf(loads[i], version)
           /\ due > 0 => cache = Nothing \/ cache >= due
           /\ due > 0 => \A i \in 1..Len(loads) : FreshFor(loads[i], due)
<1>1. /\ version \in Nat \ {0} /\ due \in 0..version /\ shown \in 0..version
      /\ cache \in 0..version \cup {Nothing} /\ loading \in BOOLEAN
      /\ loads \in Seq(Load) /\ Len(loads) \in Nat /\ Len(loads) <= MaxLoads
      /\ \A i \in 1..Len(loads) : loads[i].settings \in 0..version \cup {Nothing}
  BY DEF HomeInv, HomeTypeOK
<1>2. \A i \in 1..Len(loads) : loads[i] \in Load
  BY <1>1, ElementOfSeq
<1>3. MaxLoads \in Nat /\ Nothing \notin Nat
  BY HomeLoadsAssumption DEF HomeLoadsAssumption
<1>4. /\ due > 0 => cache = Nothing \/ cache >= due
      /\ due > 0 => \A i \in 1..Len(loads) : FreshFor(loads[i], due)
  BY DEF HomeInv, FreshInv, FreshFor
<1> QED
  BY <1>1, <1>2, <1>3, <1>4 DEF LoadOf

LEMMA HomeKept ==
    ASSUME version' \in Nat \ {0}, due' \in 0..version', shown' \in 0..version',
           cache' \in 0..version' \cup {Nothing}, loading' \in BOOLEAN,
           loads' \in Seq(Load), Len(loads') <= MaxLoads,
           \A i \in 1..Len(loads') : LoadOf(loads'[i], version'),
           due' > 0 => cache' = Nothing \/ cache' >= due',
           due' > 0 => \A i \in 1..Len(loads') : FreshFor(loads'[i], due')
    PROVE  HomeInv'
BY DEF HomeInv, HomeTypeOK, FreshInv, LoadOf, FreshFor

\* A load that starts waits for what is no older than the last saved version.
LEMMA LoadStarts ==
    ASSUME HomeInv, NEW kept \in {cache, Nothing}, NEW by \in {"start", "refresh"},
           Len(loads) < MaxLoads, loads' = Append(loads, NewLoad(kept, by)),
           version' = version, NEW d \in {due, 0}
    PROVE  /\ loads' \in Seq(Load) /\ Len(loads') <= MaxLoads
           /\ \A i \in 1..Len(loads') : LoadOf(loads'[i], version')
           /\ d > 0 => \A i \in 1..Len(loads') : FreshFor(loads'[i], d)
           /\ kept = Nothing /\ loads = <<>> =>
                \A i \in 1..Len(loads') : FreshFor(loads'[i], version)
<1> DEFINE l == NewLoad(kept, by)
<1>1. /\ version \in Nat /\ due \in 0..version /\ cache \in 0..version \cup {Nothing}
      /\ loads \in Seq(Load) /\ Len(loads) \in Nat /\ MaxLoads \in Nat
      /\ Nothing \notin Nat
  BY HomeFacts
<1>2. /\ l \in Load /\ LoadOf(l, version)
      /\ l.since = version /\ l.lists = "asked" /\ l.settings = kept
  BY <1>1 DEF NewLoad, Load, LoadOf
<1>3. due > 0 => FreshFor(l, due)
  BY <1>1, <1>2, HomeFacts DEF FreshFor
<1>4. kept = Nothing => FreshFor(l, version)
  BY <1>1, <1>2 DEF FreshFor
<1> HIDE DEF l
<1>5. /\ loads' \in Seq(Load) /\ Len(loads') = Len(loads) + 1
      /\ \A i \in 1..Len(loads) : loads'[i] = loads[i]
      /\ loads'[Len(loads) + 1] = l
  BY <1>1, <1>2, AppendProperties DEF l
<1>6. Len(loads') <= MaxLoads
  BY <1>1, <1>5
<1>7. \A i \in 1..Len(loads') : i \in 1..Len(loads) \/ i = Len(loads) + 1
  BY <1>1, <1>5
<1>8. \A i \in 1..Len(loads') : LoadOf(loads'[i], version')
  BY <1>2, <1>5, <1>7, HomeFacts
<1>9. d > 0 => \A i \in 1..Len(loads') : FreshFor(loads'[i], d)
  BY <1>3, <1>5, <1>7, HomeFacts
<1>10. kept = Nothing /\ loads = <<>> =>
            \A i \in 1..Len(loads') : FreshFor(loads'[i], version)
  <2>1. loads = <<>> => Len(loads) = 0
    BY EmptySeq
  <2> QED
    BY <1>4, <1>5, <1>7, <2>1
<1> QED
  BY <1>5, <1>6, <1>8, <1>9, <1>10

LEMMA MountKeeps == HomeInv /\ Mount => HomeInv'
<1> SUFFICES ASSUME HomeInv, Mount PROVE HomeInv'
  OBVIOUS
<1>1. /\ Len(loads) < MaxLoads /\ loads' = Append(loads, NewLoad(cache, "start"))
      /\ shown' = 0 /\ loading' = TRUE /\ UNCHANGED <<version, cache>>
      /\ due' = IF loads = <<>> /\ cache = Nothing THEN version ELSE due
  BY DEF Mount, Fallback
<1>2. /\ loads' \in Seq(Load) /\ Len(loads') <= MaxLoads
      /\ \A i \in 1..Len(loads') : LoadOf(loads'[i], version')
      /\ due > 0 => \A i \in 1..Len(loads') : FreshFor(loads'[i], due)
      /\ cache = Nothing /\ loads = <<>> =>
            \A i \in 1..Len(loads') : FreshFor(loads'[i], version)
  BY <1>1, LoadStarts
<1>3. /\ version \in Nat \ {0} /\ due \in 0..version /\ 0 \in 0..version
      /\ cache \in 0..version \cup {Nothing}
      /\ due > 0 => cache = Nothing \/ cache >= due
  BY HomeFacts
<1>4. /\ due' \in 0..version
      /\ due' > 0 => cache = Nothing \/ cache >= due'
      /\ due' > 0 => \A i \in 1..Len(loads') : FreshFor(loads'[i], due')
  <2>1. CASE loads = <<>> /\ cache = Nothing
    BY <1>1, <1>2, <1>3, <2>1
  <2>2. CASE ~(loads = <<>> /\ cache = Nothing)
    BY <1>1, <1>2, <1>3, <2>2
  <2> QED
    BY <2>1, <2>2
<1> QED
  BY <1>1, <1>2, <1>3, <1>4, HomeKept

LEMMA RefreshKeeps == HomeInv /\ Refresh => HomeInv'
<1> SUFFICES ASSUME HomeInv, Refresh PROVE HomeInv'
  OBVIOUS
<1>1. /\ Len(loads) < MaxLoads /\ loads' = Append(loads, NewLoad(Nothing, "refresh"))
      /\ cache' = Nothing /\ loading' = TRUE
      /\ due' = IF loads = <<>> THEN version ELSE 0
      /\ UNCHANGED <<version, shown>>
  BY DEF Refresh, Fallback
<1>2. /\ loads' \in Seq(Load) /\ Len(loads') <= MaxLoads
      /\ \A i \in 1..Len(loads') : LoadOf(loads'[i], version')
      /\ loads = <<>> => \A i \in 1..Len(loads') : FreshFor(loads'[i], version)
  BY <1>1, LoadStarts
<1>3. version \in Nat \ {0} /\ shown \in 0..version
  BY HomeFacts
<1>4. due' \in 0..version /\ (due' > 0 => loads = <<>> /\ due' = version)
  BY <1>1, <1>3
<1> QED
  BY <1>1, <1>2, <1>3, <1>4, HomeKept

LEMMA SaveKeeps == HomeInv /\ Save => HomeInv'
<1> SUFFICES ASSUME HomeInv, Save PROVE HomeInv'
  OBVIOUS
<1>1. version' = version + 1 /\ UNCHANGED <<cache, loads, shown, loading, due>>
  BY DEF Save
<1>2. /\ version \in Nat \ {0} /\ due \in 0..version /\ shown \in 0..version
      /\ cache \in 0..version \cup {Nothing} /\ loading \in BOOLEAN
      /\ loads \in Seq(Load) /\ Len(loads) <= MaxLoads
      /\ \A i \in 1..Len(loads) : LoadOf(loads[i], version)
      /\ due > 0 => cache = Nothing \/ cache >= due
      /\ due > 0 => \A i \in 1..Len(loads) : FreshFor(loads[i], due)
  BY HomeFacts
<1>3. 0..version \subseteq 0..(version + 1) /\ version + 1 \in Nat \ {0}
  BY <1>2
<1>4. \A i \in 1..Len(loads') : LoadOf(loads'[i], version')
  BY <1>1, <1>2, <1>3 DEF LoadOf
<1>5. /\ version' \in Nat \ {0} /\ due' \in 0..version' /\ shown' \in 0..version'
      /\ cache' \in 0..version' \cup {Nothing}
  BY <1>1, <1>2, <1>3
<1> QED
  BY <1>1, <1>2, <1>4, <1>5, HomeKept

\* The answers of a load, one replaced.
LEMMA LoadChanged ==
    ASSUME HomeInv, NEW i \in 1..Len(loads), NEW l, LoadOf(l, version),
           loads' = [loads EXCEPT ![i] = l], version' = version,
           NEW d \in {due, 0}, d > 0 => FreshFor(l, d)
    PROVE  /\ loads' \in Seq(Load) /\ Len(loads') <= MaxLoads
           /\ \A j \in 1..Len(loads') : LoadOf(loads'[j], version')
           /\ d > 0 => \A j \in 1..Len(loads') : FreshFor(loads'[j], d)
<1>1. loads \in Seq(Load) /\ l \in Load /\ Len(loads) <= MaxLoads
  BY HomeFacts DEF LoadOf
<1>2. /\ loads' \in Seq(Load) /\ Len(loads') = Len(loads)
      /\ \A j \in 1..Len(loads) : loads'[j] = IF j = i THEN l ELSE loads[j]
  <2>1. /\ [loads EXCEPT ![i] = l] \in Seq(Load)
        /\ Len([loads EXCEPT ![i] = l]) = Len(loads)
        /\ \A j \in 1..Len(loads) :
              [loads EXCEPT ![i] = l][j] = IF j = i THEN l ELSE loads[j]
    BY <1>1, ExceptSeq
  <2> QED
    BY <2>1
<1>3. \A j \in 1..Len(loads') : LoadOf(loads'[j], version')
  BY <1>2, HomeFacts
<1>4. d > 0 => \A j \in 1..Len(loads') : FreshFor(loads'[j], d)
  BY <1>2, HomeFacts
<1> QED
  BY <1>1, <1>2, <1>3, <1>4

LEMMA SettingsReadKeeps ==
    ASSUME HomeInv, NEW i \in 1..Len(loads), NEW v \in 0..version, SettingsRead(i, v)
    PROVE  HomeInv' /\ due' \in {due, 0}
<1> DEFINE l == [loads[i] EXCEPT !.settings = v]
<1>1. /\ cache' = v /\ loads' = [loads EXCEPT ![i] = l]
      /\ due' = IF v < loads[i].since THEN 0 ELSE due
      /\ UNCHANGED <<version, shown, loading>>
  BY DEF SettingsRead, Fallback
<1>2. /\ version \in Nat \ {0} /\ due \in 0..version /\ shown \in 0..version
      /\ loading \in BOOLEAN /\ LoadOf(loads[i], version)
      /\ due > 0 => FreshFor(loads[i], due)
  BY HomeFacts
<1>3. /\ LoadOf(l, version) /\ l.settings = v
      /\ l.since = loads[i].since /\ l.lists = loads[i].lists
      /\ loads[i].since \in Nat
  BY <1>2 DEF LoadOf, Load
<1> HIDE DEF l
<1>4. due' \in {due, 0} /\ due' \in 0..version
  BY <1>1, <1>2
<1>5. due' > 0 => v >= due' /\ FreshFor(l, due')
  BY <1>1, <1>2, <1>3 DEF FreshFor
<1>6. /\ loads' \in Seq(Load) /\ Len(loads') <= MaxLoads
      /\ \A j \in 1..Len(loads') : LoadOf(loads'[j], version')
      /\ due' > 0 => \A j \in 1..Len(loads') : FreshFor(loads'[j], due')
  BY <1>1, <1>3, <1>4, <1>5, LoadChanged
<1> QED
  BY <1>1, <1>2, <1>4, <1>5, <1>6, HomeKept

LEMMA ListsReadKeeps ==
    ASSUME HomeInv, NEW i \in 1..Len(loads), NEW how \in {"read", "failed"},
           ListsRead(i, how)
    PROVE  HomeInv' /\ due' \in {due, 0}
<1> DEFINE l == [loads[i] EXCEPT !.lists = how]
<1>1. /\ loads' = [loads EXCEPT ![i] = l]
      /\ due' = IF how = "failed" THEN 0 ELSE due
      /\ UNCHANGED <<version, cache, shown, loading>>
  BY DEF ListsRead, Fallback
<1>2. /\ version \in Nat \ {0} /\ due \in 0..version /\ shown \in 0..version
      /\ cache \in 0..version \cup {Nothing}
      /\ loading \in BOOLEAN /\ LoadOf(loads[i], version)
      /\ due > 0 => cache = Nothing \/ cache >= due
      /\ due > 0 => FreshFor(loads[i], due)
  BY HomeFacts
<1>3. /\ LoadOf(l, version) /\ l.lists = how
      /\ l.since = loads[i].since /\ l.settings = loads[i].settings
  BY <1>2 DEF LoadOf, Load
<1> HIDE DEF l
<1>4. due' \in {due, 0} /\ due' \in 0..version
  BY <1>1, <1>2
<1>5. due' > 0 => FreshFor(l, due')
  BY <1>1, <1>2, <1>3 DEF FreshFor
<1>6. /\ loads' \in Seq(Load) /\ Len(loads') <= MaxLoads
      /\ \A j \in 1..Len(loads') : LoadOf(loads'[j], version')
      /\ due' > 0 => \A j \in 1..Len(loads') : FreshFor(loads'[j], due')
  BY <1>1, <1>3, <1>4, <1>5, LoadChanged
<1>7. due' > 0 => cache' = Nothing \/ cache' >= due'
  BY <1>1, <1>2, <1>4
<1> QED
  BY <1>1, <1>2, <1>4, <1>6, <1>7, HomeKept

\* What a load that ends puts on the screen, if it does, is fresh.
LEMMA LoadEndsKeeps ==
    ASSUME HomeInv, NEW i \in 1..Len(loads), LoadEnds(i)
    PROVE  /\ HomeInv' /\ due' = due
           /\ due > 0 => (loading' = loading /\ shown' = shown) \/ shown' >= due
<1>1. /\ loads[i].settings # Nothing /\ loads[i].lists # "asked"
      /\ loads' = Cut(loads, i)
      /\ loading' = (loading /\ loads[i].by = "gone")
      /\ shown' = IF loads[i].by # "gone" /\ loads[i].lists = "read"
                  THEN loads[i].settings ELSE shown
      /\ UNCHANGED <<version, cache, due>>
  BY DEF LoadEnds, Cut
<1>2. /\ version \in Nat \ {0} /\ due \in 0..version /\ shown \in 0..version
      /\ cache \in 0..version \cup {Nothing} /\ loading \in BOOLEAN
      /\ loads \in Seq(Load) /\ Len(loads) \in Nat /\ Len(loads) <= MaxLoads
      /\ MaxLoads \in Nat
      /\ LoadOf(loads[i], version)
      /\ due > 0 => cache = Nothing \/ cache >= due
      /\ due > 0 => FreshFor(loads[i], due)
  BY HomeFacts
<1>3. loads' \in Seq(Load) /\ Len(loads') = Len(loads) - 1
  BY <1>1, <1>2, CutProperties
<1>4. \A j \in 1..Len(loads') : \E k \in 1..Len(loads) : loads'[j] = loads[k]
  BY <1>1, <1>2, CutElements
<1>5. /\ \A j \in 1..Len(loads') : LoadOf(loads'[j], version)
      /\ due > 0 => \A j \in 1..Len(loads') : FreshFor(loads'[j], due)
  BY <1>4, HomeFacts
<1>6. Len(loads') <= MaxLoads
  BY <1>2, <1>3
<1>7. shown' \in 0..version
  BY <1>1, <1>2 DEF LoadOf
<1>8. due > 0 => (loading' = loading /\ shown' = shown) \/ shown' >= due
  <2>1. CASE loads[i].by = "gone"
    BY <1>1, <1>2, <2>1
  <2>2. CASE loads[i].by # "gone" /\ due > 0
    <3>1. loads[i].lists = "read" /\ loads[i].settings >= due
      BY <1>1, <1>2, <2>2 DEF LoadOf, Load, FreshFor
    <3> QED
      BY <1>1, <2>2, <3>1
  <2> QED
    BY <2>1, <2>2
<1>9. loading' \in BOOLEAN
  BY <1>1
<1>10. HomeInv'
  BY <1>1, <1>2, <1>3, <1>5, <1>6, <1>7, <1>9, HomeKept
<1> QED
  BY <1>1, <1>8, <1>10

LEMMA UnmountKeeps == HomeInv /\ Unmount => HomeInv'
<1> SUFFICES ASSUME HomeInv, Unmount PROVE HomeInv'
  OBVIOUS
<1>1. /\ loads' = [i \in 1..Len(loads) |-> [loads[i] EXCEPT !.by = "gone"]]
      /\ shown' = 0 /\ loading' = FALSE /\ UNCHANGED <<version, cache, due>>
  BY DEF Unmount, Fallback
<1>2. /\ version \in Nat \ {0} /\ due \in 0..version /\ 0 \in 0..version
      /\ cache \in 0..version \cup {Nothing}
      /\ Len(loads) \in Nat /\ Len(loads) <= MaxLoads
      /\ due > 0 => cache = Nothing \/ cache >= due
  BY HomeFacts
<1>3. ASSUME NEW i \in 1..Len(loads)
      PROVE  /\ LoadOf([loads[i] EXCEPT !.by = "gone"], version)
             /\ due > 0 => FreshFor([loads[i] EXCEPT !.by = "gone"], due)
  <2>1. LoadOf(loads[i], version) /\ (due > 0 => FreshFor(loads[i], due))
    BY HomeFacts
  <2> QED
    BY <2>1 DEF LoadOf, Load, FreshFor
<1>4. loads' \in [1..Len(loads) -> Load]
  BY <1>1, <1>3 DEF LoadOf
<1>5. loads' \in Seq(Load) /\ Len(loads') = Len(loads)
  BY <1>2, <1>4, SeqDef, LenProperties
<1>6. \A i \in 1..Len(loads') : LoadOf(loads'[i], version')
  BY <1>1, <1>3, <1>5
<1>7. due' > 0 => \A i \in 1..Len(loads') : FreshFor(loads'[i], due')
  BY <1>1, <1>3, <1>5
<1> QED
  BY <1>1, <1>2, <1>5, <1>6, <1>7, HomeKept

LEMMA ForgetKeeps == HomeInv /\ Forget => HomeInv'
<1> SUFFICES ASSUME HomeInv, Forget PROVE HomeInv'
  OBVIOUS
<1>1. /\ cache' = Nothing /\ loads' = <<>> /\ shown' = 0 /\ loading' = FALSE
      /\ due' = 0 /\ version' = version
  BY DEF Forget, Fallback
<1>2. version \in Nat \ {0} /\ MaxLoads \in Nat
  BY HomeFacts
<1>3. loads' \in Seq(Load) /\ Len(loads') <= MaxLoads
  BY <1>1, <1>2
<1>4. \A i \in 1..Len(loads') : LoadOf(loads'[i], version')
  BY <1>1
<1>5. 0 \in 0..version /\ ~(0 > 0)
  BY <1>2
<1> QED
  BY <1>1, <1>2, <1>3, <1>4, <1>5, HomeKept

LEMMA HomeStutters == HomeInv /\ UNCHANGED homeVars => HomeInv'
BY DEF HomeInv, HomeTypeOK, FreshInv, homeVars

-----------------------------------------------------------------------------
(* Both.                                                                     *)

LEMMA Parts ==
    /\ IInv <=> ShellInv /\ HomeInv /\ ShownInv
    /\ IInv' <=> ShellInv' /\ HomeInv' /\ ShownInv'
BY DEF IInv, ShellInv, HomeInv, TypeOK

\* What the screen shows while it is taken away, put back or left alone.
LEMMA RebuiltKeeps ==
    ASSUME HomeInv, ShownInv, Rebuilt, UNCHANGED phase,
           maintenance \in BOOLEAN, maintenance' \in BOOLEAN,
           maintenance => phase \in {"built", "up"}
    PROVE  HomeInv' /\ ShownInv'
<1>1. CASE maintenance /\ ~maintenance'
  <2>1. Mount
    BY <1>1 DEF Rebuilt
  <2>2. loading' = TRUE /\ phase' \in {"built", "up"}
    BY <1>1, <2>1 DEF Mount
  <2> QED
    BY <2>1, <2>2, MountKeeps DEF ShownInv
<1>2. CASE ~maintenance /\ maintenance'
  <2>1. Unmount
    BY <1>2 DEF Rebuilt
  <2>2. due' = due
    BY <2>1 DEF Unmount
  <2> QED
    BY <1>2, <2>1, <2>2, UnmountKeeps DEF ShownInv
<1>3. CASE maintenance' = maintenance
  <2>1. UNCHANGED homeVars
    BY <1>3 DEF Rebuilt
  <2> QED
    BY <1>3, <2>1, HomeStutters DEF ShownInv, homeVars
<1> QED
  BY <1>1, <1>2, <1>3

LEMMA ShellStepKeeps ==
    ASSUME IInv, ShellStep
    PROVE  IInv'
<1>1. ShellInv /\ HomeInv /\ ShownInv /\ maintenance \in BOOLEAN
  BY Parts DEF ShellInv, ShellTypeOK
<1>2. ASSUME UNCHANGED <<phase, maintenance>>, UNCHANGED homeVars
      PROVE  HomeInv' /\ ShownInv'
  BY <1>1, <1>2, HomeStutters DEF ShownInv, homeVars
<1>3. phase \notin {"built", "up"} => due = 0
  BY <1>1, HomeFacts DEF ShownInv
<1>4. ASSUME UNCHANGED homeVars, phase \notin {"built", "up"}
      PROVE  HomeInv' /\ ShownInv'
  BY <1>1, <1>3, <1>4, HomeStutters DEF ShownInv, homeVars
<1>5. ASSUME NEW v \in Values, Publish(v), UNCHANGED homeVars PROVE IInv'
  <2>1. UNCHANGED <<phase, maintenance>>
    BY <1>5 DEF Publish
  <2> QED
    BY <1>1, <1>2, <1>5, <2>1, PublishKeeps, Parts
<1>6. ASSUME NEW ok \in BOOLEAN, Launch(ok), UNCHANGED homeVars PROVE IInv'
  <2>1. phase \notin {"built", "up"}
    BY <1>6 DEF Launch
  <2> QED
    BY <1>1, <1>4, <1>6, <2>1, LaunchKeeps, Parts
<1>7. CASE FirstFrame /\ IF maintenance' THEN UNCHANGED homeVars ELSE Mount
  <2>1. phase \notin {"built", "up"} /\ phase' = "built"
    BY <1>7 DEF FirstFrame
  <2>2. CASE UNCHANGED homeVars
    BY <1>1, <1>4, <1>7, <2>1, <2>2, FirstFrameKeeps, Parts
  <2>3. CASE Mount
    <3>1. loading' = TRUE
      BY <2>3 DEF Mount
    <3>2. HomeInv' /\ ShownInv'
      BY <1>1, <2>1, <2>3, <3>1, MountKeeps DEF ShownInv
    <3> QED
      BY <1>1, <1>7, <3>2, FirstFrameKeeps, Parts
  <2> QED
    BY <1>7, <2>2, <2>3
<1>8. CASE AfterFirstFrame /\ UNCHANGED homeVars
  <2>1. phase' = "up" /\ UNCHANGED <<maintenance, homeVars>>
    BY <1>8 DEF AfterFirstFrame
  <2>2. HomeInv' /\ ShownInv'
    BY <1>1, <2>1, HomeStutters DEF ShownInv, homeVars
  <2> QED
    BY <1>1, <1>8, <2>2, AfterFirstFrameKeeps, Parts
<1>14. ASSUME NEW ok \in BOOLEAN, CheckEnds(ok), UNCHANGED homeVars PROVE IInv'
  <2>1. UNCHANGED <<phase, maintenance>>
    BY <1>14 DEF CheckEnds
  <2> QED
    BY <1>1, <1>2, <1>14, <2>1, CheckEndsKeeps, Parts
<1>9. CASE Resume /\ UNCHANGED homeVars
  <2>1. UNCHANGED <<phase, maintenance>>
    BY <1>9 DEF Resume
  <2> QED
    BY <1>1, <1>2, <1>9, <2>1, ResumeKeeps, Parts
<1>10. CASE Kill /\ Forget
  <2>1. due' = 0
    BY <1>10 DEF Forget, Fallback
  <2>2. ShownInv'
    BY <2>1 DEF ShownInv
  <2> QED
    BY <1>1, <1>10, <2>2, KillKeeps, ForgetKeeps, Parts
<1>11. ASSUME NEW i \in 1..Len(fetches), NEW arrive \in BOOLEAN,
              Fetched(i, arrive), UNCHANGED homeVars
       PROVE  IInv'
  <2>1. UNCHANGED <<phase, maintenance>>
    BY <1>11 DEF Fetched
  <2> QED
    BY <1>1, <1>2, <1>11, <2>1, FetchedKeeps, Parts
<1>12. ASSUME NEW i \in 1..Len(fetches), Activated(i), Rebuilt PROVE IInv'
  <2>1. ShellInv' /\ phase' = phase
    BY <1>1, <1>12, ActivatedKeeps DEF Activated
  <2>2. /\ maintenance' \in BOOLEAN
        /\ maintenance => phase \in {"built", "up"}
    BY <1>1, <2>1 DEF ShellInv, ShellTypeOK, OffInv
  <2>3. HomeInv' /\ ShownInv'
    BY <1>1, <1>12, <2>1, <2>2, RebuiltKeeps
  <2> QED
    BY <2>1, <2>3, Parts
<1>13. ASSUME NEW i \in 1..Len(fetches), FetchFails(i), Rebuilt PROVE IInv'
  <2>1. ShellInv' /\ phase' = phase
    BY <1>1, <1>13, FetchFailsKeeps DEF FetchFails
  <2>2. /\ maintenance' \in BOOLEAN
        /\ maintenance => phase \in {"built", "up"}
    BY <1>1, <2>1 DEF ShellInv, ShellTypeOK, OffInv
  <2>3. HomeInv' /\ ShownInv'
    BY <1>1, <1>13, <2>1, <2>2, RebuiltKeeps
  <2> QED
    BY <2>1, <2>3, Parts
<1> QED
  BY <1>5, <1>6, <1>7, <1>8, <1>9, <1>10, <1>11, <1>12, <1>13,
     <1>14 DEF ShellStep

LEMMA HomeStepKeeps ==
    ASSUME IInv, HomeStep
    PROVE  IInv'
<1>1. ShellInv /\ HomeInv /\ ShownInv
  BY Parts
<1>2. ShellInv' /\ UNCHANGED <<phase, maintenance>>
  BY <1>1, ShellStutters DEF HomeStep, shellVars
<1>3. CASE Save
  BY <1>1, <1>2, <1>3, SaveKeeps, Parts DEF ShownInv, Save
<1>4. CASE Usable /\ Refresh
  <2>1. phase' = "up" /\ loading' = TRUE
    BY <1>2, <1>4 DEF Usable, Refresh
  <2> QED
    BY <1>1, <1>2, <1>4, <2>1, RefreshKeeps, Parts DEF ShownInv
<1>5. ASSUME NEW i \in 1..Len(loads), NEW v \in 0..version, SettingsRead(i, v)
      PROVE  IInv'
  <2>1. HomeInv' /\ due' \in {due, 0} /\ UNCHANGED <<shown, loading>>
    BY <1>1, <1>5, SettingsReadKeeps DEF SettingsRead
  <2>2. ShownInv'
    BY <1>1, <1>2, <2>1 DEF ShownInv
  <2> QED
    BY <1>2, <2>1, <2>2, Parts
<1>6. ASSUME NEW i \in 1..Len(loads), NEW how \in {"read", "failed"}, ListsRead(i, how)
      PROVE  IInv'
  <2>1. HomeInv' /\ due' \in {due, 0} /\ UNCHANGED <<shown, loading>>
    BY <1>1, <1>6, ListsReadKeeps DEF ListsRead
  <2>2. ShownInv'
    BY <1>1, <1>2, <2>1 DEF ShownInv
  <2> QED
    BY <1>2, <2>1, <2>2, Parts
<1>7. ASSUME NEW i \in 1..Len(loads), LoadEnds(i) PROVE IInv'
  <2>1. /\ HomeInv' /\ due' = due
        /\ due > 0 => (loading' = loading /\ shown' = shown) \/ shown' >= due
    BY <1>1, <1>7, LoadEndsKeeps
  <2>2. ShownInv'
    BY <1>1, <1>2, <2>1 DEF ShownInv
  <2> QED
    BY <1>2, <2>1, <2>2, Parts
<1> QED
  BY <1>3, <1>4, <1>5, <1>6, <1>7 DEF HomeStep

LEMMA InitIInv == Init => IInv
<1> SUFFICES ASSUME Init PROVE IInv
  OBVIOUS
<1>1. ShellTypeOK
  <2>1. /\ fetches = <<>> /\ phase = "off" /\ changes = 0
        /\ published \in Values /\ stored = NoValues /\ active = NoValues
        /\ maintenance = FALSE /\ checking = FALSE /\ dialog = FALSE
        /\ late = FALSE /\ learnt = FALSE /\ erred = FALSE
    BY DEF Init, ShellInit
  <2>2. MaxChanges \in Nat /\ MaxFetches \in Nat /\ NoValues \in Values
    BY AppShellAssumption DEF AppShellAssumption, NoValues, Values
  <2>3. fetches \in Seq(Fetches) /\ Len(fetches) <= MaxFetches
    BY <2>1, <2>2
  <2> QED
    <3>1. {published, stored, active} \subseteq Values /\ changes \in 0..MaxChanges
      BY <2>1, <2>2
    <3>2. {maintenance, checking, dialog, late, learnt, erred} \subseteq BOOLEAN
      BY <2>1
    <3> QED
      BY <2>1, <2>3, <3>1, <3>2 DEF ShellTypeOK, Fetches
<1>2. HomeTypeOK
  <2>1. /\ version = 1 /\ cache = Nothing /\ loads = <<>>
        /\ shown = 0 /\ loading = FALSE /\ due = 0 /\ MaxLoads \in Nat
    BY HomeLoadsAssumption DEF HomeLoadsAssumption, Init, HomeInit, Fallback
  <2>2. loads \in Seq(Load) /\ Len(loads) <= MaxLoads /\ 1..Len(loads) = {}
    BY <2>1
  <2> QED
    <3>1. {loads[i].settings : i \in 1..Len(loads)} = {}
      BY <2>2
    <3>2. {cache} \cup {loads[i].settings : i \in 1..Len(loads)}
            \subseteq 0..version \cup {Nothing}
      BY <2>1, <3>1
    <3>3. {shown, due} \subseteq 0..version /\ version \in Nat \ {0}
      BY <2>1
    <3> QED
      BY <2>1, <2>2, <3>2, <3>3 DEF HomeTypeOK
<1>3. ShellUpToDate /\ OffInv /\ DemandInv /\ UpdateDemanded
  BY DEF Init, ShellInit, ShellUpToDate, OffInv, DemandInv, UpdateDemanded
<1>4. FreshInv /\ ShownInv
  BY DEF Init, HomeInit, Fallback, FreshInv, ShownInv
<1> QED
  BY <1>1, <1>2, <1>3, <1>4 DEF IInv, TypeOK

-----------------------------------------------------------------------------
(* The theorems.                                                             *)

\* The inductive invariant of the shell and its home screen.
THEOREM Invariance == Spec => []IInv
<1>1. IInv /\ [Next]_vars => IInv'
  <2> SUFFICES ASSUME IInv, [Next]_vars PROVE IInv'
    OBVIOUS
  <2>1. CASE UNCHANGED vars
    <3>1. UNCHANGED shellVars /\ UNCHANGED homeVars
      BY <2>1 DEF vars
    <3> QED
      BY <3>1, ShellStutters, HomeStutters, Parts DEF ShownInv, shellVars, homeVars
  <2> QED
    BY <2>1, ShellStepKeeps, HomeStepKeeps DEF Next
<1> QED
  BY <1>1, InitIInv, PTL DEF Spec

\* Every variable of the shell and of the home screen keeps its type.
THEOREM Typed == Spec => []TypeOK
<1>1. IInv => TypeOK
  BY DEF IInv
<1> QED
  BY Invariance, <1>1, PTL

\* The maintenance screen follows the active values, or a refresh is under way,
\* or main's own fetch has come after the first frame.
THEOREM ShellFollowsValues == Spec => []ShellUpToDate
<1>1. IInv => ShellUpToDate
  BY DEF IInv
<1> QED
  BY Invariance, <1>1, PTL

\* However loads overlap, outlive their screen and refill the cache, the first one
\* of a process, and a refresh that met none of them, end with settings no older
\* than they asked for, unless a read failed or was the device's.
THEOREM RefreshShowsFresh == Spec => []RefreshIsFresh
<1>1. IInv => RefreshIsFresh
  <2> SUFFICES ASSUME IInv, Usable, ~loading PROVE shown >= due
    BY DEF RefreshIsFresh
  <2>1. due \in Nat /\ shown \in Nat
    BY Parts, HomeFacts
  <2>2. due > 0 => shown >= due
    BY DEF IInv, ShownInv, Usable
  <2> QED
    BY <2>1, <2>2
<1> QED
  BY Invariance, <1>1, PTL

\* A minimum version that an earlier run had fetched is demanded by the next once
\* its check is over, unless init or the check swallowed an error of a plugin.
THEOREM KnownUpdateDemanded == Spec => []UpdateDemanded
<1>1. IInv => UpdateDemanded
  BY DEF IInv
<1> QED
  BY Invariance, <1>1, PTL

=============================================================================
