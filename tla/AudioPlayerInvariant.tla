------------------------ MODULE AudioPlayerInvariant -------------------------
(* What the audio screen and its player keep true at every step, from which  *)
(* its properties follow: the history of the commands is in those that wait. *)
EXTENDS AudioPlayer

\* The state a command asks for.
Asks(what) ==
    IF what = "pause" THEN "paused"
    ELSE IF what = "stop" THEN "stopped"
    ELSE "playing"

\* Nothing in the queue q tells the player to play or to stop.
OnlySeeks(q) == \A i \in 1..Len(q) : q[i].what = "seek"

\* The i-th is the last command of q but for seeks.
LastOf(q, i) ==
    /\ q[i].what # "seek"
    /\ \A j \in 1..Len(q) : j > i => q[j].what = "seek"

\* Once q is done the player is in the state w, or has come to its end: that
\* is what the last command asks for, and what it does now if there is none.
EndsIn(q, w, plays) ==
    /\ \A i \in 1..Len(q) : LastOf(q, i) => w = Asks(q[i].what)
    /\ OnlySeeks(q) /\ plays => w = "playing"

\* Once q is done the player, which has the track s, has t.
EndsWith(q, s, t) ==
    /\ (\A i \in 1..Len(q) : q[i].what # "source") => s = t
    /\ \A i \in 1..Len(q) :
         /\ q[i].what = "source"
         /\ \A j \in 1..Len(q) : j > i => q[j].what # "source"
         => q[i].track = t

\* A stop is the last command of q but for seeks.
StopIsLast(q) ==
    \A i \in 1..Len(q) : q[i].what = "stop" => LastOf(q, i)

-----------------------------------------------------------------------------
\* What plays is shown as playing, and as loading only when another track is
\* about to take its place.
ShownInv ==
    /\ playing => state = "playing"
    /\ buffering /\ playing => Commanded("source")

\* The player does what it was told last, and that is to play only if the user
\* or the end of a call said so.
WantedInv ==
    /\ EndsIn(commands, wanted, playing)
    /\ wanted = "playing" => asked = "play" \/ byCall

\* Unless it was overtaken a stop was the last thing the player was told, and
\* the mini player has gone when it is done.
StopInv ==
    asked = "stop" /\ ~overtaken =>
        /\ wanted = "stopped"
        /\ current # NoTrack => Commanded("stop")

\* In a call nobody interfered with nothing is about to play, and what plays is
\* about to be silenced.
CallInv ==
    inCall /\ ~overCall /\ ~begun =>
        /\ ~AboutToPlay
        /\ playing => Commanded("pause") \/ Commanded("stop")

\* Unless a stop was overtaken the player follows the mini player: it ends with
\* its track, and without one it has been stopped.
FollowInv ==
    ~overtaken =>
        /\ StopIsLast(commands)
        /\ IF current = NoTrack
           THEN /\ ~playing /\ state = "stopped" /\ wanted = "stopped"
                /\ OnlySeeks(commands)
           ELSE EndsWith(commands, source, current)

IInv ==
    /\ TypeOK
    /\ ShownInv
    /\ WantedInv
    /\ StopInv
    /\ CallInv
    /\ FollowInv
    /\ FrozenOnlyIfLost

=============================================================================
