----------------------------- MODULE AudioPlayer -----------------------------
(***************************************************************************)
(* The audio screen (lib/screens/audio_screen.dart): taps on tracks, the   *)
(* mini player's buttons and slider, phone calls and unplugged headphones  *)
(* all command one player, whose answers arrive later and tell the screen  *)
(* what it shows.  Tracks and mini player are there only while their list  *)
(* is: not while it is loaded, nor after it failed to load.                *)
(*                                                                         *)
(* The player (package audioplayers) is modelled by what the screen relies *)
(* on: commands are performed in the order given, the last of play, pause  *)
(* and stop wins over a track that is still loading, a play ends when its  *)
(* track is loaded or with an error.                                       *)
(***************************************************************************)
EXTENDS Naturals, Sequences

CONSTANTS
    Tracks,
    NoTrack,
    MaxCommands, \* bound: commands and loads of tracks under way
    MaxListLoads \* bound: loads of the list under way

ASSUME AudioPlayerAssumption ==
    /\ NoTrack \notin Tracks
    /\ MaxCommands \in Nat
    /\ MaxListLoads \in Nat \ {0}

VARIABLES
    listLoading, \* _loading: the list makes place for a spinner
    listFailed,  \* _error: or for an error
    listLoads,   \* calls of _load under way

    current,   \* _current: the track of the mini player
    state,     \* _state: what the player said last
    buffering, \* _buffering: the spinner
    seeking,   \* _seeking: the position shown does not follow the player
    dragging,  \* a finger is on the slider
    settling,  \* seeks that wait out their 300 ms

    commands,  \* what the player has been told to do and has not done
    wanted,    \* the state it was last told to be in
    source,    \* the track it has been given,
    prepared,  \*   whether that is loaded,
    playing,   \*   and whether it plays when it is
    loading,   \* plays that wait for a track to be loaded

    inCall,    \* a phone call
    asked,     \* history: the user's last command: to play, pause or stop
    byCall,    \* history: since then the end of a call resumed
    overtaken, \* history: the player was commanded during a stop, and no
               \* track was started since
    overCall,  \* history: since the call began the user commanded
    begun,     \* history: a track was about to play when it began
    lost       \* history: the last seek has failed, or its finger had no
               \* slider left to be lifted from

list    == <<listLoading, listFailed, listLoads>>
screen  == <<current, state, buffering>>
slider  == <<seeking, dragging, settling, lost>>
player  == <<source, prepared, playing, loading>>
history == <<asked, byCall, overtaken, overCall, begun>>
vars == <<list, screen, slider, player, commands, wanted, inCall, history>>

Init ==
    /\ listLoading = TRUE /\ listFailed = FALSE /\ listLoads = 1
    /\ current = NoTrack /\ state = "stopped" /\ buffering = FALSE
    /\ seeking = FALSE /\ dragging = FALSE /\ settling = 0 /\ lost = FALSE
    /\ commands = <<>> /\ wanted = "stopped"
    /\ source = NoTrack /\ prepared = FALSE /\ playing = FALSE /\ loading = 0
    /\ inCall = FALSE
    /\ asked = "stop" /\ byCall = FALSE /\ overtaken = FALSE
    /\ overCall = FALSE /\ begun = FALSE

\* Tracks and mini player are on the screen.
ListShown == ~listLoading /\ ~listFailed

\* The track the mini player shows.
MiniPlayer == IF ListShown THEN current ELSE NoTrack

Commanded(what) == \E i \in 1..Len(commands) : commands[i].what = what

\* Nothing can be heard of a track that is not loaded.
Sounding == playing /\ prepared

-----------------------------------------------------------------------------
(* Commands.                                                               *)

Room == Len(commands) + loading + settling < MaxCommands

Command(what, state1) ==
    /\ commands' = Append(commands, [what |-> what, track |-> NoTrack])
    /\ wanted' = state1
    /\ overtaken' = (overtaken \/ Commanded("stop"))

Pause  == Command("pause", "paused")
Resume == Command("resume", "playing")

NoCommand == UNCHANGED <<commands, wanted, overtaken>>

\* What the user does.
ByUser(what) ==
    /\ asked' = what
    /\ byCall' = FALSE
    /\ overCall' = inCall
    /\ UNCHANGED begun

\* _play of the current track: the tile can be tapped while it is loading.
PlayCurrent(t) ==
    /\ Room /\ ListShown /\ t = current
    /\ IF state = "playing" THEN Pause /\ ByUser("pause")
       ELSE Resume /\ ByUser("play")
    /\ UNCHANGED <<list, screen, slider, player, inCall>>

\* _play of another one, up to its await.
PlayOther(t) ==
    /\ Room /\ ListShown /\ t # current
    /\ current' = t
    /\ buffering' = TRUE
    /\ commands' = Append(commands, [what |-> "source", track |-> t])
    /\ wanted' = "playing"
    /\ overtaken' = Commanded("stop")
    /\ ByUser("play")
    /\ UNCHANGED <<list, state, slider, player, inCall>>

\* Mutant: only what is heard is stopped.
StopIfPlaying ==
    /\ Room /\ MiniPlayer # NoTrack
    /\ IF state = "playing" THEN Command("stop", "stopped") ELSE NoCommand
    /\ ByUser("stop")
    /\ UNCHANGED <<list, screen, slider, player, inCall>>

\* _stop up to its await.
Stop ==
    /\ Room /\ MiniPlayer # NoTrack
    /\ Command("stop", "stopped")
    /\ ByUser("stop")
    /\ UNCHANGED <<list, screen, slider, player, inCall>>

\* A seek button, or a finger that is lifted from the slider: _seekTo up to its
\* await.
SeekTo ==
    /\ Room /\ MiniPlayer # NoTrack
    /\ seeking' = TRUE
    /\ dragging' = FALSE
    /\ commands' = Append(commands, [what |-> "seek", track |-> NoTrack])
    /\ UNCHANGED <<list, screen, settling, lost, player, wanted, inCall, history>>

DragSlider ==
    /\ MiniPlayer # NoTrack /\ ~dragging
    /\ seeking' = TRUE
    /\ dragging' = TRUE
    /\ UNCHANGED <<list, screen, settling, lost, player, commands, wanted,
                   inCall, history>>

\* The slider goes, and a finger with it.
SliderGone ==
    /\ dragging' = FALSE
    /\ lost' = (lost \/ dragging)
    /\ UNCHANGED <<seeking, settling>>

\* The refresh buttons, also while it is loaded: _load up to its awaits.
RefreshList ==
    /\ listLoads < MaxListLoads
    /\ listLoads' = listLoads + 1
    /\ listLoading' = TRUE
    /\ listFailed' = FALSE
    /\ SliderGone
    /\ UNCHANGED <<screen, player, commands, wanted, inCall, history>>

\* _load goes on with the tracks; the error of another one stays.
ListLoaded ==
    /\ listLoads > 0
    /\ listLoads' = listLoads - 1
    /\ listLoading' = FALSE
    /\ UNCHANGED <<listFailed, screen, slider, player, commands, wanted, inCall,
                   history>>

\* Or with an error, also in place of a list another one has brought.
ListFails ==
    /\ listLoads > 0
    /\ listLoads' = listLoads - 1
    /\ listLoading' = FALSE
    /\ listFailed' = TRUE
    /\ SliderGone
    /\ UNCHANGED <<screen, player, commands, wanted, inCall, history>>

AboutToPlay == loading > 0 \/ Commanded("source") \/ Commanded("resume")

\* Mutant: the begin of a call is not told from its end.
CallIgnored ==
    /\ Room /\ ~inCall
    /\ inCall' = TRUE
    /\ overCall' = FALSE
    /\ begun' = AboutToPlay
    /\ IF state = "paused" THEN Pause ELSE NoCommand
    /\ UNCHANGED <<list, screen, slider, player, asked, byCall>>

\* interruptionEventStream, event.begin.
CallBegins ==
    /\ Room /\ ~inCall
    /\ inCall' = TRUE
    /\ overCall' = FALSE
    /\ begun' = AboutToPlay
    /\ IF state = "playing" THEN Pause ELSE NoCommand
    /\ UNCHANGED <<list, screen, slider, player, asked, byCall>>

\* Its end, with or without the system's leave to resume.
CallEnds(mayResume) ==
    /\ Room /\ inCall
    /\ inCall' = FALSE
    /\ overCall' = FALSE
    /\ begun' = FALSE
    /\ IF mayResume /\ state = "paused" THEN Resume /\ byCall' = TRUE
       ELSE NoCommand /\ UNCHANGED byCall
    /\ UNCHANGED <<list, screen, slider, player, asked>>

\* becomingNoisyEventStream: headphones are unplugged.
BecomesNoisy ==
    /\ Room /\ state = "playing"
    /\ Pause
    /\ UNCHANGED <<list, screen, slider, player, inCall, asked, byCall, overCall,
                   begun>>

-----------------------------------------------------------------------------
(* What the player does, and the screen when it hears of it.               *)

Answers(what) ==
    /\ commands # <<>> /\ Head(commands).what = what
    /\ commands' = Tail(commands)

\* setSource of a play: the old track is gone, the new one starts to load.
Source ==
    /\ Answers("source")
    /\ source' = Head(commands).track
    /\ prepared' = FALSE
    /\ playing' = FALSE
    /\ loading' = loading + 1
    /\ UNCHANGED <<list, screen, slider, wanted, inCall, history>>

\* Mutant: the spinner ends when play returns.
SpinnerKept ==
    /\ Answers("resume")
    /\ playing' = TRUE
    /\ state' = "playing"
    /\ UNCHANGED <<list, current, buffering, slider, source, prepared, loading,
                   wanted, inCall, history>>

\* onPlayerStateChanged: playing.
Resumed ==
    /\ Answers("resume")
    /\ playing' = TRUE
    /\ state' = "playing"
    /\ buffering' = FALSE
    /\ UNCHANGED <<list, current, slider, source, prepared, loading, wanted,
                   inCall, history>>

Paused ==
    /\ Answers("pause")
    /\ playing' = FALSE
    /\ state' = "paused"
    /\ UNCHANGED <<list, current, buffering, slider, source, prepared, loading,
                   wanted, inCall, history>>

\* onPlayerStateChanged, then _stop after its await: the mini player goes, and
\* a finger with it.
Stopped ==
    /\ Answers("stop")
    /\ playing' = FALSE
    /\ prepared' = FALSE
    /\ state' = "stopped"
    /\ current' = NoTrack
    /\ buffering' = FALSE
    /\ SliderGone
    /\ UNCHANGED <<list, source, loading, wanted, inCall,
                   history>>

\* A seek is done; _seekTo goes on to wait.
Sought ==
    /\ Answers("seek")
    /\ settling' = settling + 1
    /\ UNCHANGED <<list, screen, seeking, dragging, lost, player, wanted,
                   inCall, history>>

\* Or it throws: nobody catches it.
SeekFails ==
    /\ Answers("seek")
    /\ lost' = TRUE
    /\ UNCHANGED <<list, screen, seeking, dragging, settling, player, wanted,
                   inCall, history>>

\* Mutant: released only when the player plays.
PausedStaysFrozen ==
    /\ settling > 0
    /\ settling' = settling - 1
    /\ seeking' = (seeking /\ state # "playing")
    /\ lost' = FALSE
    /\ UNCHANGED <<list, screen, dragging, player, commands, wanted, inCall,
                   history>>

\* The 300 ms of one are over, whatever others or a finger do.
SeekSettles ==
    /\ settling > 0
    /\ settling' = settling - 1
    /\ seeking' = FALSE
    /\ lost' = FALSE
    /\ UNCHANGED <<list, screen, dragging, player, commands, wanted, inCall,
                   history>>

\* Mutant: a play that waited plays, whatever was asked for since.
LoadedPlays ==
    /\ loading > 0 /\ ~prepared
    /\ prepared' = TRUE
    /\ loading' = 0
    /\ Resume
    /\ UNCHANGED <<list, screen, slider, source, playing, inCall, asked, byCall,
                   overCall, begun>>

\* The track is loaded: every play that waits goes on, and makes the player
\* play if that is still wanted.
Loaded ==
    /\ loading > 0 /\ ~prepared
    /\ prepared' = TRUE
    /\ loading' = 0
    /\ IF wanted = "playing" THEN Resume ELSE NoCommand
    /\ UNCHANGED <<list, screen, slider, source, playing, inCall, asked,
                   byCall, overCall, begun>>

\* Mutant: the error is shown, the spinner goes on.
ErrorKeepsSpinner ==
    /\ loading > 0
    /\ loading' = loading - 1
    /\ UNCHANGED <<list, screen, slider, source, prepared, playing, commands,
                   wanted, inCall, history>>

\* An error, or 30 seconds without an answer: a play throws, and _play ends the
\* spinner of whatever track is current.
PlayFails ==
    /\ loading > 0
    /\ loading' = loading - 1
    /\ buffering' = FALSE
    /\ UNCHANGED <<list, current, state, slider, source, prepared, playing,
                   commands, wanted, inCall, history>>

\* The track is over.
Completes ==
    /\ Sounding
    /\ playing' = FALSE
    /\ state' = "completed"
    /\ UNCHANGED <<list, current, buffering, slider, source, prepared, loading,
                   commands, wanted, inCall, history>>

\* The screen is disposed, and its player; a later one starts afresh.
Dispose ==
    /\ listLoading' = TRUE /\ listFailed' = FALSE /\ listLoads' = 1
    /\ current' = NoTrack /\ state' = "stopped" /\ buffering' = FALSE
    /\ seeking' = FALSE /\ dragging' = FALSE /\ settling' = 0 /\ lost' = FALSE
    /\ commands' = <<>> /\ wanted' = "stopped"
    /\ source' = NoTrack /\ prepared' = FALSE /\ playing' = FALSE /\ loading' = 0
    /\ asked' = "stop" /\ byCall' = FALSE /\ overtaken' = FALSE
    /\ overCall' = FALSE /\ begun' = FALSE
    /\ UNCHANGED inCall

-----------------------------------------------------------------------------
Answer ==
    \/ Source \/ Resumed \/ Paused \/ Stopped
    \/ Sought \/ SeekFails

Next ==
    \/ \E t \in Tracks : PlayCurrent(t) \/ PlayOther(t)
    \/ Stop
    \/ SeekTo
    \/ DragSlider
    \/ RefreshList
    \/ ListLoaded
    \/ ListFails
    \/ CallBegins
    \/ \E mayResume \in BOOLEAN : CallEnds(mayResume)
    \/ BecomesNoisy
    \/ Answer
    \/ SeekSettles
    \/ Loaded
    \/ PlayFails
    \/ Completes
    \/ Dispose

Spec == Init /\ [][Next]_vars

\* The player performs what it is told, and ends every load.
FairSpec ==
    /\ Spec
    /\ WF_vars(Answer)
    /\ WF_vars(Loaded \/ PlayFails)

-----------------------------------------------------------------------------
(* Properties.                                                             *)

States == {"stopped", "playing", "paused", "completed"}

\* What the player can be told.
Told == [what : {"source", "resume", "pause", "stop", "seek"},
         track : Tracks \cup {NoTrack}]

\* Type correctness of the screen, of the player and of what is under way.
TypeOK ==
    /\ {listLoading, listFailed} \subseteq BOOLEAN
    /\ listLoads \in 0..MaxListLoads
    /\ {current, source} \subseteq Tracks \cup {NoTrack}
    /\ {state, wanted} \subseteq States
    /\ {buffering, seeking, dragging, lost, prepared, playing, inCall, byCall,
        overtaken, overCall, begun} \subseteq BOOLEAN
    /\ asked \in {"play", "pause", "stop"}
    /\ commands \in Seq(Told)
    /\ {loading, settling} \subseteq Nat
    /\ Len(commands) + loading + settling <= MaxCommands

\* What is heard when the player has done all it was told.
Heard == commands = <<>> /\ Sounding

\* Wherever the list is shown, what is heard is what its mini player names, as
\* playing and not as loading, so that it can be paused and stopped.  Two things
\* leave a sound without it: a track that was tapped while a stop was under way
\* has no mini player at all, and while the list is loaded again, or after that
\* failed, there is none for any track (lines 203-208).
HeardIsShown ==
    Heard =>
        /\ state = "playing"
        /\ ~buffering
        /\ ListShown /\ ~overtaken => MiniPlayer = source

\* What the user has stopped is not heard again, whatever was loading and
\* whatever calls and headphones did, unless the stop was overtaken.
StoppedStays ==
    Heard /\ asked = "stop" => overtaken

\* During a call nothing is heard but what the user asked for in it, and a
\* track that was about to play when it began: "Phone call started - pause"
\* (line 83) pauses what plays, not what is loading.
CallIsQuiet ==
    Heard /\ inCall => overCall \/ begun

\* The position shown follows the player unless a seek is under way or a finger
\* is on the slider; only a seek that failed or a finger whose slider went
\* leaves it frozen.
FrozenOnlyIfLost ==
    seeking => dragging \/ settling > 0 \/ Commanded("seek") \/ lost

\* The spinner ends, however loads, errors and other commands interleave, unless
\* something pauses the player while it is loading.
SpinnerEnds == buffering ~> (~buffering \/ wanted # "playing")

-----------------------------------------------------------------------------
(* A claim of the code's comments that it does not keep.                   *)

\* "Phone call ended - resume if was playing" (line 86): what the user has
\* paused stays so.  Whatever is paused is resumed.
PauseStays ==
    Heard => asked # "pause"

=============================================================================
