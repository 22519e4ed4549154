-------------------------- MODULE AudioPlayerProofs --------------------------
(* Theorems about the audio screen, for any tracks and any number of         *)
(* commands under way.                                                       *)
EXTENDS AudioPlayerInvariant, SequenceTheorems, TLAPS

-----------------------------------------------------------------------------
(* Queues of commands.                                                       *)

\* The command is in the queue q.
In(q, what) == \E i \in 1..Len(q) : q[i].what = what

\* A queue with one more command.
LEMMA AppendIndices ==
    ASSUME NEW q \in Seq(Told), NEW c \in Told
    PROVE  /\ Append(q, c) \in Seq(Told)
           /\ Len(q) \in Nat /\ Len(Append(q, c)) = Len(q) + 1
           /\ \A i \in 1..Len(q) : Append(q, c)[i] = q[i]
           /\ Append(q, c)[Len(q) + 1] = c
BY AppendProperties

\* What is in it, and what is last in it.
LEMMA Appended ==
    ASSUME NEW q \in Seq(Told), NEW c \in Told
    PROVE  /\ \A what : In(Append(q, c), what) <=> In(q, what) \/ c.what = what
           /\ OnlySeeks(Append(q, c)) <=> OnlySeeks(q) /\ c.what = "seek"
           /\ c.what # "seek" => LastOf(Append(q, c), Len(q) + 1)
           /\ c.what = "seek" =>
                \A i \in 1..Len(q) : LastOf(Append(q, c), i) <=> LastOf(q, i)
           /\ c.what # "seek" =>
                \A i \in 1..Len(q) : ~LastOf(Append(q, c), i)
<1> DEFINE p == Append(q, c)
           n == Len(q)
<1>1. /\ n \in Nat /\ Len(p) = n + 1 /\ p[n + 1] = c
      /\ \A i \in 1..n : p[i] = q[i]
  BY AppendIndices
<1>2. n + 1 \in 1..Len(p) /\ \A i \in 1..n : i \in 1..Len(p) /\ n + 1 > i
  BY <1>1
<1>3. \A i \in 1..Len(p) : i \in 1..n \/ i = n + 1
  BY <1>1
<1>4. \A j \in 1..Len(p) : ~(j > n + 1)
  BY <1>1
<1> HIDE DEF p
<1>5. \A what : In(p, what) <=> In(q, what) \/ c.what = what
  BY <1>1, <1>2, <1>3 DEF In
<1>6. OnlySeeks(p) <=> OnlySeeks(q) /\ c.what = "seek"
  BY <1>1, <1>2, <1>3 DEF OnlySeeks
<1>7. c.what # "seek" => LastOf(p, n + 1)
  BY <1>1, <1>4 DEF LastOf
<1>8. c.what = "seek" => \A i \in 1..n : LastOf(p, i) <=> LastOf(q, i)
  BY <1>1, <1>2, <1>3 DEF LastOf
<1>9. c.what # "seek" => \A i \in 1..n : ~LastOf(p, i)
  BY <1>1, <1>2 DEF LastOf
<1> QED
  BY <1>5, <1>6, <1>7, <1>8, <1>9 DEF p

\* The first command of a queue and the others.
LEMMA TailIndices ==
    ASSUME NEW q \in Seq(Told), q # <<>>
    PROVE  /\ Head(q) \in Told /\ Tail(q) \in Seq(Told)
           /\ Len(q) \in Nat /\ Len(q) > 0 /\ Len(Tail(q)) = Len(q) - 1
           /\ q[1] = Head(q)
           /\ \A i \in 1..(Len(q) - 1) : Tail(q)[i] = q[i + 1]
<1>1. Len(q) \in Nat /\ Len(q) > 0
  BY EmptySeq
<1> QED
  BY <1>1, HeadTailProperties

\* What is left in it, and what is last of that.
LEMMA Taken ==
    ASSUME NEW q \in Seq(Told), q # <<>>
    PROVE  /\ \A what : In(q, what) <=> In(Tail(q), what) \/ Head(q).what = what
           /\ OnlySeeks(q) <=> OnlySeeks(Tail(q)) /\ Head(q).what = "seek"
           /\ LastOf(q, 1) <=> OnlySeeks(Tail(q)) /\ Head(q).what # "seek"
           /\ \A i \in 1..(Len(q) - 1) :
                LastOf(Tail(q), i) <=> LastOf(q, i + 1)
<1> DEFINE p == Tail(q)
           n == Len(q)
<1>1. /\ n \in Nat /\ n > 0 /\ Len(p) = n - 1 /\ q[1] = Head(q)
      /\ \A i \in 1..(n - 1) : p[i] = q[i + 1]
  BY TailIndices
<1>2. 1 \in 1..n /\ \A i \in 1..Len(p) : i + 1 \in 1..n /\ i + 1 > 1
  BY <1>1
<1>3. \A i \in 1..n : i = 1 \/ \E k \in 1..Len(p) : i = k + 1
  <2>1. \A i \in 1..n : i = 1 \/ (i - 1 \in 1..Len(p) /\ i = (i - 1) + 1)
    BY <1>1
  <2> QED
    BY <2>1
<1>4. \A i \in 1..Len(p), j \in 1..Len(p) : j > i <=> j + 1 > i + 1
  BY <1>1
<1>5. \A i \in 1..Len(p) : ~(1 > i + 1)
  BY <1>1
<1> HIDE DEF p
<1>6. \A what : In(q, what) <=> In(p, what) \/ Head(q).what = what
  BY <1>1, <1>2, <1>3 DEF In
<1>7. OnlySeeks(q) <=> OnlySeeks(p) /\ Head(q).what = "seek"
  BY <1>1, <1>2, <1>3 DEF OnlySeeks
<1>8. LastOf(q, 1) <=> OnlySeeks(p) /\ Head(q).what # "seek"
  <2>1. ASSUME LastOf(q, 1) PROVE OnlySeeks(p) /\ q[1].what # "seek"
    <3>1. ASSUME NEW k \in 1..Len(p) PROVE p[k].what = "seek"
      <4>1. k + 1 \in 1..n /\ k + 1 > 1 /\ p[k] = q[k + 1]
        BY <1>1, <1>2
      <4> QED
        BY <2>1, <4>1 DEF LastOf
    <3> QED
      BY <2>1, <3>1 DEF LastOf, OnlySeeks
  <2>2. ASSUME OnlySeeks(p), q[1].what # "seek" PROVE LastOf(q, 1)
    <3>1. ASSUME NEW j \in 1..n, j > 1 PROVE q[j].what = "seek"
      <4>1. PICK k \in 1..Len(p) : j = k + 1
        BY <1>3, <3>1
      <4>2. p[k] = q[j]
        BY <1>1, <4>1
      <4> QED
        BY <2>2, <4>2 DEF OnlySeeks
    <3> QED
      BY <2>2, <3>1 DEF LastOf
  <2> QED
    BY <1>1, <2>1, <2>2
<1>9. ASSUME NEW i \in 1..(n - 1) PROVE LastOf(p, i) <=> LastOf(q, i + 1)
  <2>1. i \in 1..Len(p) /\ p[i] = q[i + 1]
    BY <1>1
  <2>2. ASSUME LastOf(p, i) PROVE LastOf(q, i + 1)
    <3>1. ASSUME NEW j \in 1..n, j > i + 1 PROVE q[j].what = "seek"
      <4>1. PICK k \in 1..Len(p) : j = k + 1
        BY <1>3, <1>5, <2>1, <3>1
      <4>2. k > i /\ p[k] = q[j]
        BY <1>1, <1>4, <2>1, <3>1, <4>1
      <4> QED
        BY <2>2, <4>2 DEF LastOf
    <3> QED
      BY <2>1, <2>2, <3>1 DEF LastOf
  <2>3. ASSUME LastOf(q, i + 1) PROVE LastOf(p, i)
    <3>1. ASSUME NEW k \in 1..Len(p), k > i PROVE p[k].what = "seek"
      <4>1. k + 1 \in 1..n /\ k + 1 > i + 1 /\ p[k] = q[k + 1]
        BY <1>1, <1>2, <1>4, <2>1, <3>1
      <4> QED
        BY <2>3, <4>1 DEF LastOf
    <3> QED
      BY <2>1, <2>3, <3>1 DEF LastOf
  <2> QED
    BY <2>2, <2>3
<1> QED
  BY <1>6, <1>7, <1>8, <1>9 DEF p

\* A command more: the queue ends as that says, a seek leaves its end as it was.
LEMMA AppendedEnds ==
    ASSUME NEW q \in Seq(Told), NEW c \in Told,
           NEW w, NEW plays \in BOOLEAN, NEW s, NEW t
    PROVE  /\ c.what # "seek" /\ w = Asks(c.what) =>
                EndsIn(Append(q, c), w, plays)
           /\ c.what = "seek" /\ EndsIn(q, w, plays) =>
                EndsIn(Append(q, c), w, plays)
           /\ c.what = "source" => EndsWith(Append(q, c), s, c.track)
           /\ c.what # "source" /\ EndsWith(q, s, t) =>
                EndsWith(Append(q, c), s, t)
           /\ c.what = "seek" /\ StopIsLast(q) => StopIsLast(Append(q, c))
           /\ ~In(q, "stop") => StopIsLast(Append(q, c))
<1> DEFINE p == Append(q, c)
           n == Len(q)
<1>1. /\ n \in Nat /\ Len(p) = n + 1 /\ p[n + 1] = c
      /\ \A i \in 1..n : p[i] = q[i]
  BY AppendIndices
<1>2. n + 1 \in 1..Len(p) /\ \A i \in 1..n : i \in 1..Len(p) /\ n + 1 > i
  BY <1>1
<1>3. \A i \in 1..Len(p) : i \in 1..n \/ i = n + 1
  BY <1>1
<1>4. \A j \in 1..Len(p) : ~(j > n + 1)
  BY <1>1
<1>5. /\ OnlySeeks(p) <=> OnlySeeks(q) /\ c.what = "seek"
      /\ c.what # "seek" => LastOf(p, n + 1)
      /\ c.what = "seek" => \A i \in 1..n : LastOf(p, i) <=> LastOf(q, i)
      /\ c.what # "seek" => \A i \in 1..n : ~LastOf(p, i)
  BY Appended
<1>6. c.what = "seek" => ~LastOf(p, n + 1)
  BY <1>1 DEF LastOf
<1> HIDE DEF p
<1>7. c.what # "seek" /\ w = Asks(c.what) => EndsIn(p, w, plays)
  BY <1>1, <1>3, <1>5 DEF EndsIn
<1>8. c.what = "seek" /\ EndsIn(q, w, plays) => EndsIn(p, w, plays)
  BY <1>1, <1>3, <1>5, <1>6 DEF EndsIn
<1>9. c.what = "source" => EndsWith(p, s, c.track)
  BY <1>1, <1>2, <1>3 DEF EndsWith
<1>10. c.what # "source" /\ EndsWith(q, s, t) => EndsWith(p, s, t)
  BY <1>1, <1>2, <1>3 DEF EndsWith
<1>11. c.what = "seek" /\ StopIsLast(q) => StopIsLast(p)
  BY <1>1, <1>3, <1>5 DEF StopIsLast
<1>12. ~In(q, "stop") => StopIsLast(p)
  BY <1>1, <1>3, <1>5 DEF StopIsLast, In
<1> QED
  BY <1>7, <1>8, <1>9, <1>10, <1>11, <1>12 DEF p

\* A command less, performed: the queue ends as before.
LEMMA TakenEnds ==
    ASSUME NEW q \in Seq(Told), q # <<>>, NEW w, NEW plays \in BOOLEAN,
           NEW s, NEW t
    PROVE  /\ EndsIn(q, w, plays) /\ Head(q).what = "seek" =>
                EndsIn(Tail(q), w, plays)
           /\ EndsIn(q, w, plays) => EndsIn(Tail(q), w, FALSE)
           /\ EndsIn(q, w, plays) /\ Head(q).what = "resume" =>
                EndsIn(Tail(q), w, TRUE)
           /\ EndsWith(q, s, t) /\ Head(q).what = "source" =>
                EndsWith(Tail(q), Head(q).track, t)
           /\ EndsWith(q, s, t) /\ Head(q).what # "source" =>
                EndsWith(Tail(q), s, t)
           /\ StopIsLast(q) => StopIsLast(Tail(q))
           /\ StopIsLast(q) /\ Head(q).what = "stop" => OnlySeeks(Tail(q))
<1> DEFINE p == Tail(q)
           n == Len(q)
<1>1. /\ n \in Nat /\ n > 0 /\ Len(p) = n - 1 /\ q[1] = Head(q)
      /\ \A i \in 1..(n - 1) : p[i] = q[i + 1]
  BY TailIndices
<1>2. 1 \in 1..n /\ \A i \in 1..Len(p) : i + 1 \in 1..n /\ i + 1 > 1
  BY <1>1
<1>3. \A i \in 1..n : i = 1 \/ \E k \in 1..Len(p) : i = k + 1
  <2>1. \A i \in 1..n : i = 1 \/ (i - 1 \in 1..Len(p) /\ i = (i - 1) + 1)
    BY <1>1
  <2> QED
    BY <2>1
<1>4. \A i \in 1..Len(p), j \in 1..Len(p) : j > i <=> j + 1 > i + 1
  BY <1>1
<1>5. /\ OnlySeeks(q) <=> OnlySeeks(p) /\ Head(q).what = "seek"
      /\ LastOf(q, 1) <=> OnlySeeks(p) /\ Head(q).what # "seek"
      /\ \A i \in 1..(n - 1) : LastOf(p, i) <=> LastOf(q, i + 1)
  BY Taken
<1> HIDE DEF p
<1>6. ASSUME EndsIn(q, w, plays), NEW i \in 1..Len(p), LastOf(p, i)
      PROVE  w = Asks(p[i].what)
  <2>1. i + 1 \in 1..n /\ LastOf(q, i + 1) /\ p[i] = q[i + 1]
    BY <1>1, <1>2, <1>5, <1>6
  <2> QED
    BY <1>6, <2>1 DEF EndsIn
<1>7. EndsIn(q, w, plays) /\ Head(q).what = "seek" => EndsIn(p, w, plays)
  BY <1>5, <1>6 DEF EndsIn
<1>8. EndsIn(q, w, plays) => EndsIn(p, w, FALSE)
  BY <1>6 DEF EndsIn
<1>9. ASSUME EndsIn(q, w, plays), Head(q).what = "resume"
      PROVE  EndsIn(p, w, TRUE)
  <2>1. OnlySeeks(p) => w = "playing"
    BY <1>1, <1>2, <1>5, <1>9 DEF EndsIn, Asks
  <2> QED
    BY <1>6, <1>9, <2>1 DEF EndsIn
<1>10. ASSUME EndsWith(q, s, t), NEW i \in 1..Len(p), p[i].what = "source",
              \A j \in 1..Len(p) : j > i => p[j].what # "source"
       PROVE  p[i].track = t
  <2>1. i + 1 \in 1..n /\ p[i] = q[i + 1] /\ i \in Nat
    BY <1>1, <1>2
  <2>2. ASSUME NEW j \in 1..n, j > i + 1 PROVE q[j].what # "source"
    <3>1. PICK k \in 1..Len(p) : j = k + 1
      BY <1>3, <2>1, <2>2
    <3>2. k > i /\ p[k] = q[j]
      BY <1>1, <1>4, <2>2, <3>1
    <3> QED
      BY <1>10, <3>2
  <2> QED
    BY <1>10, <2>1, <2>2 DEF EndsWith
<1>11. ASSUME \A i \in 1..Len(p) : p[i].what # "source"
       PROVE  \A j \in 1..n : j > 1 => q[j].what # "source"
  <2>1. ASSUME NEW j \in 1..n, j > 1 PROVE q[j].what # "source"
    <3>1. PICK k \in 1..Len(p) : j = k + 1
      BY <1>3, <2>1
    <3> QED
      BY <1>1, <1>11, <3>1
  <2> QED
    BY <2>1
<1>12. EndsWith(q, s, t) /\ Head(q).what = "source" =>
          EndsWith(p, Head(q).track, t)
  BY <1>1, <1>2, <1>10, <1>11 DEF EndsWith
<1>13. ASSUME EndsWith(q, s, t), Head(q).what # "source"
       PROVE  EndsWith(p, s, t)
  <2>1. (\A i \in 1..Len(p) : p[i].what # "source") => s = t
    <3>1. ASSUME \A i \in 1..Len(p) : p[i].what # "source"
          PROVE  \A j \in 1..n : q[j].what # "source"
      <4>1. \A j \in 1..n : j = 1 \/ j > 1
        BY <1>1
      <4> QED
        BY <1>1, <1>11, <1>13, <3>1, <4>1
    <3> QED
      BY <1>13, <3>1 DEF EndsWith
  <2> QED
    BY <1>10, <1>13, <2>1 DEF EndsWith
<1>14. ASSUME StopIsLast(q), NEW i \in 1..Len(p), p[i].what = "stop"
       PROVE  LastOf(p, i)
  <2>1. i + 1 \in 1..n /\ p[i] = q[i + 1]
    BY <1>1, <1>2
  <2> QED
    BY <1>1, <1>5, <1>14, <2>1 DEF StopIsLast
<1>15. StopIsLast(q) /\ Head(q).what = "stop" => OnlySeeks(p)
  BY <1>1, <1>2, <1>5 DEF StopIsLast
<1>16. StopIsLast(q) => StopIsLast(p)
  BY <1>14 DEF StopIsLast
<1> QED
  BY <1>7, <1>8, <1>9, <1>12, <1>13, <1>15, <1>16 DEF p

-----------------------------------------------------------------------------
(* What is done to the queue.                                                *)

\* What is commanded is in the queue.
LEMMA CommandedIsIn ==
    /\ \A what : Commanded(what) <=> In(commands, what)
    /\ (\A what : Commanded(what) <=> In(commands, what))'
BY DEF Commanded, In

\* Anyone who tells the player to play, to pause or to stop: the player ends as
\* it is told last, and follows the mini player unless it had been stopped.
LEMMA CommandEnds ==
    ASSUME IInv, NEW what \in {"pause", "resume", "stop"},
           NEW w, w = Asks(what), Command(what, w),
           current # NoTrack \/ state # "stopped" \/ wanted # "stopped",
           UNCHANGED <<current, state, source, playing>>
    PROVE  /\ commands' \in Seq(Told) /\ Len(commands') = Len(commands) + 1
           /\ wanted' \in States /\ overtaken' \in BOOLEAN
           /\ EndsIn(commands, wanted, playing)'
           /\ FollowInv'
           /\ \A x : Commanded(x)' <=> Commanded(x) \/ x = what
<1> DEFINE c == [what |-> what, track |-> NoTrack]
<1>1. c \in Told /\ c.what = what /\ what # "seek" /\ what # "source"
  BY DEF Told
<1>2. commands' = Append(commands, c) /\ wanted' = w
  BY DEF Command
<1>3. commands \in Seq(Told) /\ playing \in BOOLEAN /\ overtaken \in BOOLEAN
  BY DEF IInv, TypeOK
<1> HIDE DEF c
<1>4. commands' \in Seq(Told) /\ Len(commands') = Len(commands) + 1
  BY <1>1, <1>2, <1>3, AppendIndices
<1>5. EndsIn(commands', w, playing)
  BY <1>1, <1>2, <1>3, AppendedEnds
<1>6. \A x : In(commands', x) <=> In(commands, x) \/ x = what
  BY <1>1, <1>2, <1>3, Appended
<1>7. \A x : Commanded(x)' <=> Commanded(x) \/ x = what
  BY <1>6, CommandedIsIn
<1>8. FollowInv'
  <2> SUFFICES ASSUME ~overtaken'
               PROVE  /\ StopIsLast(commands') /\ current' # NoTrack
                      /\ EndsWith(commands', source', current')
    BY DEF FollowInv
  <2>1. ~overtaken /\ ~In(commands, "stop")
    BY <1>3, CommandedIsIn DEF Command
  <2>2. current # NoTrack /\ EndsWith(commands, source, current)
    BY <2>1 DEF IInv, FollowInv
  <2>3. StopIsLast(commands')
    BY <1>1, <1>2, <1>3, <2>1, AppendedEnds
  <2>4. EndsWith(commands', source, current)
    BY <1>1, <1>2, <1>3, <2>2, AppendedEnds
  <2> QED
    BY <2>2, <2>3, <2>4
<1>9. wanted' \in States /\ overtaken' \in BOOLEAN
  BY <1>2, <1>3 DEF Asks, States, Command
<1> QED
  BY <1>2, <1>4, <1>5, <1>7, <1>8, <1>9

\* A seek leaves the end as it was.
LEMMA SeekEnds ==
    ASSUME IInv, commands' = Append(commands, [what |-> "seek", track |-> NoTrack]),
           UNCHANGED <<current, state, source, playing, wanted, overtaken>>
    PROVE  /\ commands' \in Seq(Told) /\ Len(commands') = Len(commands) + 1
           /\ EndsIn(commands, wanted, playing)'
           /\ FollowInv'
           /\ \A x : Commanded(x)' <=> Commanded(x) \/ x = "seek"
<1> DEFINE c == [what |-> "seek", track |-> NoTrack]
<1>1. c \in Told /\ c.what = "seek"
  BY DEF Told
<1>2. commands \in Seq(Told) /\ playing \in BOOLEAN
  BY DEF IInv, TypeOK
<1>3. commands' = Append(commands, c)
  OBVIOUS
<1> HIDE DEF c
<1>4. commands' \in Seq(Told) /\ Len(commands') = Len(commands) + 1
  BY <1>1, <1>2, <1>3, AppendIndices
<1>5. EndsIn(commands, wanted, playing)
  BY DEF IInv, WantedInv
<1>6. EndsIn(commands', wanted, playing)
  BY <1>1, <1>2, <1>3, <1>5, AppendedEnds
<1>7. \A x : In(commands', x) <=> In(commands, x) \/ x = "seek"
  BY <1>1, <1>2, <1>3, Appended
<1>8. /\ OnlySeeks(commands) => OnlySeeks(commands')
      /\ StopIsLast(commands) => StopIsLast(commands')
      /\ EndsWith(commands, source, current) =>
            EndsWith(commands', source, current)
  <2>1. OnlySeeks(commands) => OnlySeeks(commands')
    BY <1>1, <1>2, <1>3, Appended
  <2>2. StopIsLast(commands) => StopIsLast(commands')
    BY <1>1, <1>2, <1>3, AppendedEnds
  <2>3. EndsWith(commands, source, current) =>
            EndsWith(commands', source, current)
    BY <1>1, <1>2, <1>3, AppendedEnds
  <2> QED
    BY <2>1, <2>2, <2>3
<1>9. FollowInv'
  BY <1>8 DEF IInv, FollowInv
<1> QED
  BY <1>4, <1>6, <1>7, <1>9, CommandedIsIn

\* The player does the first thing it has been told.
LEMMA AnswerTakes ==
    ASSUME IInv, NEW what, Answers(what)
    PROVE  /\ commands \in Seq(Told) /\ commands # <<>>
           /\ commands' = Tail(commands) /\ commands' \in Seq(Told)
           /\ Len(commands') = Len(commands) - 1
           /\ Head(commands) \in Told /\ Head(commands).what = what
           /\ \A x : Commanded(x) <=> Commanded(x)' \/ x = what
           /\ OnlySeeks(commands) <=> OnlySeeks(commands') /\ what = "seek"
<1>1. /\ commands # <<>> /\ Head(commands).what = what
      /\ commands' = Tail(commands) /\ commands \in Seq(Told)
  BY DEF IInv, TypeOK, Answers
<1>2. /\ \A x : In(commands, x) <=> In(commands', x) \/ what = x
      /\ OnlySeeks(commands) <=> OnlySeeks(commands') /\ what = "seek"
  BY <1>1, Taken
<1> QED
  BY <1>1, <1>2, TailIndices, CommandedIsIn

\* It follows the mini player as before, with the track it has by now.
LEMMA AnswerFollows ==
    ASSUME IInv, NEW what, Answers(what), playing' => playing \/ what = "resume",
           UNCHANGED <<current, wanted, overtaken>>, what = "seek" => state' = state,
           source' = IF what = "source" THEN Head(commands).track ELSE source
    PROVE  ~overtaken =>
              /\ StopIsLast(commands')
              /\ IF current = NoTrack
                 THEN ~playing' /\ state' = "stopped" /\ OnlySeeks(commands')
                 ELSE EndsWith(commands', source', current)
<1> SUFFICES ASSUME ~overtaken
             PROVE  /\ StopIsLast(commands')
                    /\ IF current = NoTrack
                       THEN /\ ~playing' /\ state' = "stopped"
                            /\ OnlySeeks(commands')
                       ELSE EndsWith(commands', source', current)
  OBVIOUS
<1>1. /\ commands \in Seq(Told) /\ commands # <<>>
      /\ commands' = Tail(commands) /\ Head(commands).what = what
      /\ OnlySeeks(commands) <=> OnlySeeks(commands') /\ what = "seek"
  BY AnswerTakes
<1>2. StopIsLast(commands) => StopIsLast(commands')
  BY <1>1, TakenEnds
<1>3. EndsWith(commands, source, current) =>
          EndsWith(commands', source', current)
  BY <1>1, TakenEnds
<1> QED
  BY <1>1, <1>2, <1>3 DEF IInv, FollowInv

-----------------------------------------------------------------------------
(* What the user, calls and headphones do.                                   *)

\* Room is left for what they command.
LEMMA RoomForOne ==
    ASSUME TypeOK, Room, commands' \in Seq(Told),
           Len(commands') = Len(commands) + 1,
           UNCHANGED <<loading, settling>>
    PROVE  Len(commands') + loading' + settling' <= MaxCommands
BY AudioPlayerAssumption DEF TypeOK, Room, AudioPlayerAssumption

LEMMA PlayCurrentKeeps ==
    ASSUME IInv, NEW t \in Tracks, PlayCurrent(t)
    PROVE  IInv'
<1>1. /\ current # NoTrack
      /\ UNCHANGED <<list, screen, slider, player, inCall>>
      /\ overCall' = inCall /\ byCall' = FALSE /\ begun' = begun
      /\ \/ Command("pause", "paused") /\ asked' = "pause"
         \/ Command("resume", "playing") /\ asked' = "play"
  BY AudioPlayerAssumption
     DEF AudioPlayerAssumption, PlayCurrent, Pause, Resume, ByUser
<1>2. /\ commands' \in Seq(Told) /\ Len(commands') = Len(commands) + 1
      /\ wanted' \in States /\ overtaken' \in BOOLEAN
      /\ EndsIn(commands, wanted, playing)'
      /\ FollowInv'
      /\ \A x : Commanded(x) => Commanded(x)'
      /\ wanted' = "playing" => asked' = "play"
      /\ asked' # "stop"
  <2>1. CASE Command("pause", "paused") /\ asked' = "pause"
    <3>1. wanted' = "paused" /\ "paused" = Asks("pause")
      BY <2>1 DEF Command, Asks
    <3> QED
      BY <1>1, <2>1, <3>1, CommandEnds DEF screen, player
  <2>2. CASE Command("resume", "playing") /\ asked' = "play"
    <3>1. "playing" = Asks("resume")
      BY DEF Asks
    <3> QED
      BY <1>1, <2>2, <3>1, CommandEnds DEF screen, player
  <2> QED
    BY <1>1, <2>1, <2>2
<1>3. TypeOK'
  <2>1. Len(commands') + loading' + settling' <= MaxCommands
    BY <1>1, <1>2, RoomForOne DEF IInv, PlayCurrent, player, slider
  <2>2. asked' \in {"play", "pause", "stop"}
    BY <1>1
  <2> QED
    BY <1>1, <1>2, <2>1, <2>2 DEF IInv, TypeOK, list, screen, slider, player
<1>4. ShownInv'
  BY <1>1, <1>2 DEF IInv, ShownInv, screen, player
<1>5. WantedInv'
  BY <1>2 DEF WantedInv
<1>6. CallInv'
  BY <1>1 DEF CallInv
<1>7. FrozenOnlyIfLost'
  BY <1>1, <1>2 DEF IInv, FrozenOnlyIfLost, slider
<1>8. StopInv'
  BY <1>2 DEF StopInv
<1> QED
  BY <1>2, <1>3, <1>4, <1>5, <1>6, <1>7, <1>8 DEF IInv

LEMMA PlayOtherKeeps ==
    ASSUME IInv, NEW t \in Tracks, PlayOther(t)
    PROVE  IInv'
<1> DEFINE c == [what |-> "source", track |-> t]
<1>1. /\ current' = t /\ buffering' = TRUE
      /\ commands' = Append(commands, c) /\ wanted' = "playing"
      /\ overtaken' = Commanded("stop")
      /\ asked' = "play" /\ byCall' = FALSE /\ overCall' = inCall
      /\ begun' = begun
      /\ UNCHANGED <<list, state, slider, player, inCall>>
      /\ Room
  BY DEF PlayOther, ByUser
<1>2. /\ c \in Told /\ c.what = "source" /\ c.track = t
      /\ commands \in Seq(Told) /\ playing \in BOOLEAN
  BY DEF Told, IInv, TypeOK
<1> HIDE DEF c
<1>3. commands' \in Seq(Told) /\ Len(commands') = Len(commands) + 1
  BY <1>1, <1>2, AppendIndices
<1>4. \A x : Commanded(x)' <=> Commanded(x) \/ x = "source"
  <2>1. \A x : In(commands', x) <=> In(commands, x) \/ x = "source"
    BY <1>1, <1>2, Appended
  <2> QED
    BY <2>1, CommandedIsIn
<1>5. "playing" = Asks("source")
  BY DEF Asks
<1>6. EndsIn(commands', "playing", playing)
  BY <1>1, <1>2, <1>5, AppendedEnds
<1>7. EndsWith(commands', source, t)
  BY <1>1, <1>2, AppendedEnds
<1>8. FollowInv'
  <2>1. ~overtaken' => StopIsLast(commands')
    BY <1>1, <1>2, AppendedEnds, CommandedIsIn
  <2>2. current' # NoTrack
    BY <1>1, AudioPlayerAssumption DEF AudioPlayerAssumption
  <2> QED
    BY <1>1, <1>7, <2>1, <2>2 DEF FollowInv, player
<1>9. TypeOK'
  <2>1. Len(commands') + loading' + settling' <= MaxCommands
    BY <1>1, <1>3, RoomForOne DEF IInv, player, slider
  <2>2. wanted' \in States /\ overtaken' \in BOOLEAN
    BY <1>1 DEF States, Commanded
  <2> QED
    BY <1>1, <1>3, <2>1, <2>2 DEF IInv, TypeOK, list, slider, player
<1>10. ShownInv'
  BY <1>1, <1>4 DEF IInv, ShownInv, player
<1>11. WantedInv'
  BY <1>1, <1>6 DEF WantedInv, player
<1>12. CallInv'
  BY <1>1 DEF CallInv
<1>13. FrozenOnlyIfLost'
  BY <1>1, <1>4 DEF IInv, FrozenOnlyIfLost, slider
<1>14. StopInv'
  BY <1>1 DEF StopInv
<1> QED
  BY <1>8, <1>9, <1>10, <1>11, <1>12, <1>13, <1>14 DEF IInv

LEMMA StopKeeps ==
    ASSUME IInv, Stop
    PROVE  IInv'
<1>1. /\ current # NoTrack /\ Command("stop", "stopped") /\ Room
      /\ asked' = "stop" /\ byCall' = FALSE /\ overCall' = inCall
      /\ begun' = begun
      /\ UNCHANGED <<list, screen, slider, player, inCall>>
      /\ wanted' = "stopped" /\ "stopped" = Asks("stop")
  BY DEF Stop, MiniPlayer, ByUser, Command, Asks
<1>2. /\ commands' \in Seq(Told) /\ Len(commands') = Len(commands) + 1
      /\ wanted' \in States /\ overtaken' \in BOOLEAN
      /\ EndsIn(commands, wanted, playing)'
      /\ FollowInv'
      /\ \A x : Commanded(x) => Commanded(x)'
      /\ Commanded("stop")'
  BY <1>1, CommandEnds DEF screen, player
<1>3. TypeOK'
  <2>1. Len(commands') + loading' + settling' <= MaxCommands
    BY <1>1, <1>2, RoomForOne DEF IInv, player, slider
  <2> QED
    BY <1>1, <1>2, <2>1 DEF IInv, TypeOK, list, screen, slider, player
<1>4. ShownInv'
  BY <1>1, <1>2 DEF IInv, ShownInv, screen, player
<1>5. WantedInv'
  BY <1>1, <1>2 DEF WantedInv
<1>6. CallInv'
  BY <1>1 DEF CallInv
<1>7. FrozenOnlyIfLost'
  BY <1>1, <1>2 DEF IInv, FrozenOnlyIfLost, slider
<1>8. StopInv'
  BY <1>1, <1>2 DEF StopInv
<1> QED
  BY <1>2, <1>3, <1>4, <1>5, <1>6, <1>7, <1>8 DEF IInv

LEMMA SeekToKeeps ==
    ASSUME IInv, SeekTo
    PROVE  IInv'
<1>1. /\ Room /\ seeking' = TRUE /\ dragging' = FALSE
      /\ commands' = Append(commands, [what |-> "seek", track |-> NoTrack])
      /\ UNCHANGED <<list, screen, settling, lost, player, wanted, inCall,
                     history>>
  BY DEF SeekTo
<1>2. /\ commands' \in Seq(Told) /\ Len(commands') = Len(commands) + 1
      /\ EndsIn(commands, wanted, playing)'
      /\ FollowInv'
      /\ \A x : Commanded(x)' <=> Commanded(x) \/ x = "seek"
  BY <1>1, SeekEnds DEF screen, player, history
<1>3. TypeOK'
  <2>1. Len(commands') + loading' + settling' <= MaxCommands
    BY <1>1, <1>2, RoomForOne DEF IInv, player
  <2> QED
    BY <1>1, <1>2, <2>1 DEF IInv, TypeOK, list, screen, player, history
<1>4. ShownInv'
  BY <1>1, <1>2 DEF IInv, ShownInv, screen, player
<1>5. WantedInv'
  BY <1>1, <1>2 DEF IInv, WantedInv, history
<1>6. CallInv'
  <2>1. AboutToPlay' <=> AboutToPlay
    BY <1>1, <1>2 DEF AboutToPlay, player
  <2> QED
    BY <1>1, <1>2, <2>1 DEF IInv, CallInv, player, history
<1>7. FrozenOnlyIfLost'
  BY <1>2 DEF FrozenOnlyIfLost
<1>8. StopInv'
  BY <1>1, <1>2 DEF IInv, StopInv, screen, history
<1> QED
  BY <1>2, <1>3, <1>4, <1>5, <1>6, <1>7, <1>8 DEF IInv

\* What touches neither the queue nor the player leaves the queue's end alone.
LEMMA QueueUntouched ==
    ASSUME IInv, UNCHANGED <<current, state, commands, wanted, overtaken,
                             source, playing>>
    PROVE  /\ EndsIn(commands, wanted, playing)'
           /\ FollowInv'
           /\ \A x : Commanded(x)' <=> Commanded(x)
<1>1. EndsIn(commands, wanted, playing)'
  BY DEF IInv, WantedInv
<1>2. FollowInv'
  BY DEF IInv, FollowInv
<1>3. \A x : Commanded(x)' <=> Commanded(x)
  BY DEF Commanded
<1> QED
  BY <1>1, <1>2, <1>3

LEMMA DragSliderKeeps ==
    ASSUME IInv, DragSlider
    PROVE  IInv'
<1>1. /\ seeking' = TRUE /\ dragging' = TRUE
      /\ UNCHANGED <<list, screen, settling, lost, player, commands, wanted,
                     inCall, history>>
  BY DEF DragSlider
<1>2. /\ EndsIn(commands, wanted, playing)' /\ FollowInv'
      /\ \A x : Commanded(x)' <=> Commanded(x)
  BY <1>1, QueueUntouched DEF screen, player, history
<1>3. TypeOK'
  BY <1>1 DEF IInv, TypeOK, list, screen, player, history
<1>4. ShownInv' /\ WantedInv'
  BY <1>1, <1>2
     DEF IInv, ShownInv, WantedInv, screen, player, history
<1>5. CallInv'
  <2>1. AboutToPlay' <=> AboutToPlay
    BY <1>1, <1>2 DEF AboutToPlay, player
  <2> QED
    BY <1>1, <1>2, <2>1 DEF IInv, CallInv, player, history
<1>6. FrozenOnlyIfLost'
  BY <1>1 DEF FrozenOnlyIfLost
<1>7. StopInv'
  BY <1>1, <1>2 DEF IInv, StopInv, screen, history
<1> QED
  BY <1>2, <1>3, <1>4, <1>5, <1>6, <1>7 DEF IInv

\* The system tells the player to pause or to resume, or does not: neither
\* screen nor user is concerned.
LEMMA SystemCommandKeeps ==
    ASSUME IInv, Room,
           \/ Command("pause", "paused") /\ state = "playing"
           \/ Command("resume", "playing") /\ state = "paused" /\ byCall'
           \/ NoCommand,
           UNCHANGED <<list, screen, slider, player, asked>>,
           byCall' \in BOOLEAN, byCall => byCall',
           {inCall', overCall', begun'} \subseteq BOOLEAN, CallInv'
    PROVE  IInv'
<1>1. /\ commands' \in Seq(Told)
      /\ Len(commands') + loading' + settling' <= MaxCommands
      /\ wanted' \in States /\ overtaken' \in BOOLEAN
      /\ EndsIn(commands, wanted, playing)'
      /\ FollowInv'
      /\ \A x : Commanded(x) => Commanded(x)'
      /\ wanted' = "playing" => wanted = "playing" \/ byCall'
  <2>1. CASE Command("pause", "paused") /\ state = "playing"
    <3>1. wanted' = "paused" /\ "paused" = Asks("pause")
      BY <2>1 DEF Command, Asks
    <3>2. /\ commands' \in Seq(Told) /\ Len(commands') = Len(commands) + 1
          /\ wanted' \in States /\ overtaken' \in BOOLEAN
          /\ EndsIn(commands, wanted, playing)'
          /\ FollowInv'
          /\ \A x : Commanded(x) => Commanded(x)'
      BY <2>1, <3>1, CommandEnds DEF screen, player
    <3>3. Len(commands') + loading' + settling' <= MaxCommands
      BY <3>2, RoomForOne DEF IInv, player, slider
    <3> QED
      BY <3>1, <3>2, <3>3
  <2>2. CASE Command("resume", "playing") /\ state = "paused" /\ byCall'
    <3>1. "playing" = Asks("resume")
      BY DEF Asks
    <3>2. /\ commands' \in Seq(Told) /\ Len(commands') = Len(commands) + 1
          /\ wanted' \in States /\ overtaken' \in BOOLEAN
          /\ EndsIn(commands, wanted, playing)'
          /\ FollowInv'
          /\ \A x : Commanded(x) => Commanded(x)'
      BY <2>2, <3>1, CommandEnds DEF screen, player
    <3>3. Len(commands') + loading' + settling' <= MaxCommands
      BY <3>2, RoomForOne DEF IInv, player, slider
    <3> QED
      BY <2>2, <3>2, <3>3
  <2>3. CASE NoCommand
    <3>1. /\ EndsIn(commands, wanted, playing)' /\ FollowInv'
          /\ \A x : Commanded(x)' <=> Commanded(x)
      BY <2>3, QueueUntouched DEF NoCommand, screen, player
    <3> QED
      BY <2>3, <3>1 DEF IInv, TypeOK, list, NoCommand, player, slider
  <2> QED
    BY <2>1, <2>2, <2>3
<1>2. TypeOK'
  BY <1>1 DEF IInv, TypeOK, list, screen, slider, player
<1>3. ShownInv'
  BY <1>1 DEF IInv, ShownInv, screen, player
<1>4. WantedInv'
  BY <1>1 DEF IInv, WantedInv
<1>5. FrozenOnlyIfLost'
  BY <1>1 DEF IInv, FrozenOnlyIfLost, slider
<1>6. StopInv'
  <2>1. CASE NoCommand
    <3>1. Commanded("stop")' <=> Commanded("stop")
      BY <2>1 DEF NoCommand, Commanded
    <3> QED
      BY <2>1, <3>1 DEF IInv, StopInv, NoCommand, screen
  <2>2. ASSUME NEW what, NEW w, Command(what, w),
               state = "playing" \/ state = "paused",
               asked = "stop", ~overtaken'
        PROVE  FALSE
    <3>1. ~overtaken /\ ~Commanded("stop")
      BY <2>2 DEF Command
    <3>2. current = NoTrack
      BY <2>2, <3>1 DEF IInv, StopInv
    <3> QED
      BY <2>2, <3>1, <3>2 DEF IInv, FollowInv
  <2> QED
    BY <2>1, <2>2 DEF StopInv
<1> QED
  BY <1>1, <1>2, <1>3, <1>4, <1>5, <1>6 DEF IInv

LEMMA CallBeginsKeeps ==
    ASSUME IInv, CallBegins
    PROVE  IInv'
<1>1. /\ Room /\ inCall' = TRUE /\ overCall' = FALSE /\ begun' = AboutToPlay
      /\ UNCHANGED <<list, screen, slider, player, asked, byCall>>
      /\ \/ Command("pause", "paused") /\ state = "playing"
         \/ NoCommand /\ state # "playing"
  BY DEF CallBegins, Pause
<1>2. AboutToPlay \in BOOLEAN /\ byCall \in BOOLEAN
  BY DEF AboutToPlay, Commanded, IInv, TypeOK
<1>3. CallInv'
  <2> SUFFICES ASSUME ~overCall', ~begun'
               PROVE  /\ ~AboutToPlay'
                      /\ playing' => Commanded("pause")' \/ Commanded("stop")'
    BY DEF CallInv
  <2>1. ~AboutToPlay
    BY <1>1
  <2>2. CASE Command("pause", "paused") /\ state = "playing"
    <3>1. "paused" = Asks("pause")
      BY DEF Asks
    <3>2. \A x : Commanded(x)' <=> Commanded(x) \/ x = "pause"
      BY <1>1, <2>2, <3>1, CommandEnds DEF screen, player
    <3> QED
      BY <1>1, <2>1, <3>2 DEF AboutToPlay, player
  <2>3. CASE NoCommand /\ state # "playing"
    <3>1. \A x : Commanded(x)' <=> Commanded(x)
      BY <2>3 DEF Commanded, NoCommand
    <3>2. ~playing'
      BY <1>1, <2>3 DEF IInv, ShownInv, player
    <3> QED
      BY <1>1, <2>1, <3>1, <3>2 DEF AboutToPlay, player
  <2> QED
    BY <1>1, <2>2, <2>3
<1> QED
  BY <1>1, <1>2, <1>3, SystemCommandKeeps

LEMMA CallEndsKeeps ==
    ASSUME IInv, NEW mayResume \in BOOLEAN, CallEnds(mayResume)
    PROVE  IInv'
<1>1. /\ Room /\ inCall' = FALSE /\ overCall' = FALSE /\ begun' = FALSE
      /\ UNCHANGED <<list, screen, slider, player, asked>>
      /\ \/ Command("resume", "playing") /\ state = "paused" /\ byCall' = TRUE
         \/ NoCommand /\ UNCHANGED byCall
  BY DEF CallEnds, Resume
<1>2. byCall' \in BOOLEAN /\ (byCall => byCall')
  <2>1. byCall \in BOOLEAN
    BY DEF IInv, TypeOK
  <2>2. byCall' = TRUE \/ byCall' = byCall
    BY <1>1
  <2> QED
    BY <2>1, <2>2
<1>3. CallInv'
  BY <1>1 DEF CallInv
<1> QED
  BY <1>1, <1>2, <1>3, SystemCommandKeeps

LEMMA BecomesNoisyKeeps ==
    ASSUME IInv, BecomesNoisy
    PROVE  IInv'
<1>1. /\ Room /\ Command("pause", "paused") /\ state = "playing"
      /\ UNCHANGED <<list, screen, slider, player, inCall, asked, byCall,
                     overCall, begun>>
  BY DEF BecomesNoisy, Pause
<1>2. {inCall', overCall', begun', byCall'} \subseteq BOOLEAN
  BY <1>1 DEF IInv, TypeOK
<1>3. "paused" = Asks("pause")
  BY DEF Asks
<1>4. \A x : Commanded(x)' <=> Commanded(x) \/ x = "pause"
  BY <1>1, <1>3, CommandEnds DEF screen, player
<1>5. AboutToPlay' <=> AboutToPlay
  BY <1>1, <1>4 DEF AboutToPlay, player
<1>6. CallInv'
  BY <1>1, <1>4, <1>5 DEF IInv, CallInv, player
<1> QED
  BY <1>1, <1>2, <1>6, SystemCommandKeeps

\* The list comes and goes, and a finger with its slider: neither player nor
\* mini player's track is concerned.
LEMMA ListStepKeeps ==
    ASSUME IInv,
           {listLoading', listFailed'} \subseteq BOOLEAN,
           listLoads' \in 0..MaxListLoads,
           SliderGone \/ UNCHANGED slider,
           UNCHANGED <<screen, player, commands, wanted, inCall, history>>
    PROVE  IInv'
<1>1. /\ EndsIn(commands, wanted, playing)' /\ FollowInv'
      /\ \A x : Commanded(x)' <=> Commanded(x)
  BY QueueUntouched DEF screen, player, history
<1>2. /\ {seeking', dragging', lost'} \subseteq BOOLEAN
      /\ UNCHANGED <<seeking, settling>>
      /\ dragging => dragging' \/ lost'
      /\ lost => lost'
  <2>1. {seeking, dragging, lost} \subseteq BOOLEAN
    BY DEF IInv, TypeOK
  <2>2. CASE SliderGone
    BY <2>1, <2>2, Zenon DEF SliderGone
  <2>3. CASE UNCHANGED slider
    BY <2>1, <2>3 DEF slider
  <2> QED
    BY <2>2, <2>3
<1>3. TypeOK'
  BY <1>2 DEF IInv, TypeOK, screen, player, history
<1>4. ShownInv' /\ WantedInv' /\ StopInv'
  BY <1>1 DEF IInv, ShownInv, WantedInv, StopInv, screen, player, history
<1>5. CallInv'
  <2>1. AboutToPlay' <=> AboutToPlay
    BY <1>1 DEF AboutToPlay, player
  <2> QED
    BY <1>1, <2>1 DEF IInv, CallInv, player, history
<1>6. FrozenOnlyIfLost'
  BY <1>1, <1>2 DEF IInv, FrozenOnlyIfLost
<1> QED
  BY <1>1, <1>3, <1>4, <1>5, <1>6 DEF IInv

\* One more load of the list, or one less.
LEMMA ListLoadsBounded ==
    ASSUME TypeOK
    PROVE  /\ listLoads < MaxListLoads => listLoads + 1 \in 0..MaxListLoads
           /\ listLoads > 0 => listLoads - 1 \in 0..MaxListLoads
BY AudioPlayerAssumption DEF AudioPlayerAssumption, TypeOK

LEMMA RefreshListKeeps ==
    ASSUME IInv, RefreshList
    PROVE  IInv'
BY ListLoadsBounded, ListStepKeeps DEF RefreshList, IInv

LEMMA ListLoadedKeeps ==
    ASSUME IInv, ListLoaded
    PROVE  IInv'
<1>1. listFailed \in BOOLEAN /\ TypeOK
  BY DEF IInv, TypeOK
<1> QED
  BY <1>1, ListLoadsBounded, ListStepKeeps DEF ListLoaded

LEMMA ListFailsKeeps ==
    ASSUME IInv, ListFails
    PROVE  IInv'
BY ListLoadsBounded, ListStepKeeps DEF ListFails, IInv

-----------------------------------------------------------------------------
(* What the player does.                                                     *)

LEMMA SourceKeeps ==
    ASSUME IInv, Source
    PROVE  IInv'
<1>1. /\ Answers("source") /\ source' = Head(commands).track
      /\ prepared' = FALSE /\ playing' = FALSE /\ loading' = loading + 1
      /\ UNCHANGED <<list, screen, slider, wanted, inCall, history>>
  BY DEF Source
<1>2. /\ commands \in Seq(Told) /\ commands # <<>>
      /\ commands' = Tail(commands) /\ commands' \in Seq(Told)
      /\ Len(commands) \in Nat /\ Len(commands') = Len(commands) - 1
      /\ Head(commands) \in Told
      /\ \A x : Commanded(x) <=> Commanded(x)' \/ x = "source"
      /\ ~OnlySeeks(commands)
  BY <1>1, AnswerTakes
<1>3. TypeOK'
  <2>1. source' \in Tracks \cup {NoTrack}
    BY <1>1, <1>2 DEF Told
  <2>2. /\ loading' \in Nat
        /\ Len(commands') + loading' + settling' <= MaxCommands
    BY <1>1, <1>2, AudioPlayerAssumption
       DEF AudioPlayerAssumption, IInv, TypeOK, slider
  <2> QED
    BY <1>1, <1>2, <2>1, <2>2 DEF IInv, TypeOK, list, screen, slider, history
<1>4. ShownInv'
  BY <1>1 DEF ShownInv
<1>5. WantedInv'
  <2>1. EndsIn(commands, wanted, playing) /\ playing \in BOOLEAN
    BY DEF IInv, WantedInv, TypeOK
  <2>2. EndsIn(commands', wanted, FALSE)
    BY <1>2, <2>1, TakenEnds
  <2> QED
    BY <1>1, <2>2 DEF IInv, WantedInv, history
<1>6. CallInv'
  BY <1>1, <1>2 DEF IInv, CallInv, AboutToPlay, history
<1>7. FollowInv'
  <2>1. UNCHANGED <<current, state, wanted, overtaken>>
    BY <1>1 DEF screen, history
  <2> QED
    BY <1>1, <1>2, <2>1, AnswerFollows DEF IInv, FollowInv
<1>8. FrozenOnlyIfLost'
  BY <1>1, <1>2 DEF IInv, FrozenOnlyIfLost, slider
<1>9. StopInv'
  BY <1>1, <1>2 DEF IInv, StopInv, screen, history
<1> QED
  BY <1>3, <1>4, <1>5, <1>6, <1>7, <1>8, <1>9 DEF IInv

LEMMA ResumedKeeps ==
    ASSUME IInv, Resumed
    PROVE  IInv'
<1>1. /\ Answers("resume") /\ playing' = TRUE
      /\ state' = "playing" /\ buffering' = FALSE
      /\ UNCHANGED <<list, current, slider, source, prepared, loading, wanted,
                     inCall, history>>
  BY DEF Resumed
<1>2. /\ commands \in Seq(Told) /\ commands # <<>>
      /\ commands' = Tail(commands) /\ commands' \in Seq(Told)
      /\ Len(commands) \in Nat /\ Len(commands') = Len(commands) - 1
      /\ Head(commands).what = "resume"
      /\ \A x : Commanded(x) <=> Commanded(x)' \/ x = "resume"
      /\ ~OnlySeeks(commands)
  BY <1>1, AnswerTakes
<1>3. TypeOK'
  <2>1. Len(commands') + loading' + settling' <= MaxCommands
    BY <1>1, <1>2, AudioPlayerAssumption
       DEF AudioPlayerAssumption, IInv, TypeOK, slider
  <2> QED
    BY <1>1, <1>2, <2>1 DEF IInv, TypeOK, list, States, slider, history
<1>4. ShownInv'
  BY <1>1 DEF ShownInv
<1>5. WantedInv'
  <2>1. EndsIn(commands, wanted, playing) /\ playing \in BOOLEAN
    BY DEF IInv, WantedInv, TypeOK
  <2>2. EndsIn(commands', wanted, TRUE)
    BY <1>2, <2>1, TakenEnds
  <2> QED
    BY <1>1, <2>2 DEF IInv, WantedInv, history
<1>6. CallInv'
  <2>1. AboutToPlay
    BY <1>2 DEF AboutToPlay
  <2> QED
    BY <1>1, <2>1 DEF IInv, CallInv, history
<1>7. FollowInv'
  <2>1. UNCHANGED <<current, wanted, overtaken>>
    BY <1>1 DEF history
  <2> QED
    BY <1>1, <1>2, <2>1, AnswerFollows DEF IInv, FollowInv
<1>8. FrozenOnlyIfLost'
  BY <1>1, <1>2 DEF IInv, FrozenOnlyIfLost, slider
<1>9. StopInv'
  BY <1>1, <1>2 DEF IInv, StopInv, history
<1> QED
  BY <1>3, <1>4, <1>5, <1>6, <1>7, <1>8, <1>9 DEF IInv

LEMMA PausedKeeps ==
    ASSUME IInv, Paused
    PROVE  IInv'
<1>1. /\ Answers("pause") /\ playing' = FALSE /\ state' = "paused"
      /\ UNCHANGED <<list, current, buffering, slider, source, prepared,
                     loading, wanted, inCall, history>>
  BY DEF Paused
<1>2. /\ commands \in Seq(Told) /\ commands # <<>>
      /\ commands' = Tail(commands) /\ commands' \in Seq(Told)
      /\ Len(commands) \in Nat /\ Len(commands') = Len(commands) - 1
      /\ Head(commands).what = "pause"
      /\ \A x : Commanded(x) <=> Commanded(x)' \/ x = "pause"
      /\ ~OnlySeeks(commands)
  BY <1>1, AnswerTakes
<1>3. TypeOK'
  <2>1. Len(commands') + loading' + settling' <= MaxCommands
    BY <1>1, <1>2, AudioPlayerAssumption
       DEF AudioPlayerAssumption, IInv, TypeOK, slider
  <2> QED
    BY <1>1, <1>2, <2>1 DEF IInv, TypeOK, list, States, slider, history
<1>4. ShownInv'
  BY <1>1 DEF ShownInv
<1>5. WantedInv'
  <2>1. EndsIn(commands, wanted, playing) /\ playing \in BOOLEAN
    BY DEF IInv, WantedInv, TypeOK
  <2>2. EndsIn(commands', wanted, FALSE)
    BY <1>2, <2>1, TakenEnds
  <2> QED
    BY <1>1, <2>2 DEF IInv, WantedInv, history
<1>6. CallInv'
  BY <1>1, <1>2 DEF IInv, CallInv, AboutToPlay, history
<1>7. FollowInv'
  <2>1. UNCHANGED <<current, wanted, overtaken>>
    BY <1>1 DEF history
  <2> QED
    BY <1>1, <1>2, <2>1, AnswerFollows DEF IInv, FollowInv
<1>8. FrozenOnlyIfLost'
  BY <1>1, <1>2 DEF IInv, FrozenOnlyIfLost, slider
<1>9. StopInv'
  BY <1>1, <1>2 DEF IInv, StopInv, history
<1> QED
  BY <1>3, <1>4, <1>5, <1>6, <1>7, <1>8, <1>9 DEF IInv

\* The mini player goes; unless the stop was overtaken it was the last thing the
\* player was told.
LEMMA StoppedKeeps ==
    ASSUME IInv, Stopped
    PROVE  IInv'
<1>1. /\ Answers("stop") /\ playing' = FALSE /\ prepared' = FALSE
      /\ state' = "stopped" /\ current' = NoTrack /\ buffering' = FALSE
      /\ SliderGone
      /\ UNCHANGED <<list, seeking, settling, source, loading, wanted, inCall,
                     history>>
  BY DEF Stopped, SliderGone
<1>2. /\ commands \in Seq(Told) /\ commands # <<>>
      /\ commands' = Tail(commands) /\ commands' \in Seq(Told)
      /\ Len(commands) \in Nat /\ Len(commands') = Len(commands) - 1
      /\ Head(commands).what = "stop"
      /\ \A x : Commanded(x) <=> Commanded(x)' \/ x = "stop"
  BY <1>1, AnswerTakes
<1>3. TypeOK'
  <2>1. Len(commands') + loading' + settling' <= MaxCommands
    BY <1>1, <1>2, AudioPlayerAssumption
       DEF AudioPlayerAssumption, IInv, TypeOK
  <2>2. {lost', dragging'} \subseteq BOOLEAN
    BY <1>1 DEF SliderGone
  <2> QED
    BY <1>1, <1>2, <2>1, <2>2 DEF IInv, TypeOK, list, States, history
<1>4. ShownInv'
  BY <1>1 DEF ShownInv
<1>5. EndsIn(commands, wanted, playing) /\ playing \in BOOLEAN
  BY DEF IInv, WantedInv, TypeOK
<1>6. WantedInv'
  <2>1. EndsIn(commands', wanted, FALSE)
    BY <1>2, <1>5, TakenEnds
  <2> QED
    BY <1>1, <2>1 DEF IInv, WantedInv, history
<1>7. CallInv'
  BY <1>1, <1>2 DEF IInv, CallInv, AboutToPlay, history
<1>8. FollowInv'
  <2> SUFFICES ASSUME ~overtaken
               PROVE  /\ StopIsLast(commands') /\ OnlySeeks(commands')
                      /\ wanted = "stopped"
    BY <1>1 DEF FollowInv, history
  <2>1. StopIsLast(commands)
    BY DEF IInv, FollowInv
  <2>2. StopIsLast(commands') /\ OnlySeeks(commands')
    BY <1>2, <2>1, TakenEnds
  <2>3. LastOf(commands, 1) /\ commands[1].what = "stop" /\ 1 \in 1..Len(commands)
    BY <1>2, <2>2, Taken, TailIndices
  <2>4. wanted = Asks("stop")
    BY <1>5, <2>3 DEF EndsIn
  <2> QED
    BY <2>2, <2>4 DEF Asks
<1>9. FrozenOnlyIfLost'
  <2>1. dragging => lost'
    BY <1>1 DEF SliderGone
  <2>2. lost => lost'
    BY <1>1 DEF SliderGone
  <2> QED
    BY <1>1, <1>2, <2>1, <2>2 DEF IInv, FrozenOnlyIfLost
<1>10. StopInv'
  BY <1>1 DEF IInv, StopInv, history
<1> QED
  BY <1>3, <1>4, <1>6, <1>7, <1>8, <1>9, <1>10 DEF IInv

\* A seek answered, with a position or an error.
LEMMA SeekAnswered ==
    ASSUME IInv, Answers("seek"), settling' \in {settling, settling + 1},
           lost' \in BOOLEAN,
           UNCHANGED <<list, screen, seeking, dragging, player, wanted,
                       inCall, history>>,
           FrozenOnlyIfLost'
    PROVE  IInv'
<1>1. /\ commands \in Seq(Told) /\ commands # <<>>
      /\ commands' = Tail(commands) /\ commands' \in Seq(Told)
      /\ Len(commands) \in Nat /\ Len(commands') = Len(commands) - 1
      /\ Head(commands).what = "seek"
      /\ \A x : Commanded(x) <=> Commanded(x)' \/ x = "seek"
  BY AnswerTakes
<1>2. TypeOK'
  <2>1. /\ settling' \in Nat
        /\ Len(commands') + loading' + settling' <= MaxCommands
    BY <1>1, AudioPlayerAssumption
       DEF AudioPlayerAssumption, IInv, TypeOK, player
  <2> QED
    BY <1>1, <2>1 DEF IInv, TypeOK, list, screen, player, history
<1>3. ShownInv'
  BY <1>1 DEF IInv, ShownInv, screen, player
<1>4. WantedInv'
  <2>1. EndsIn(commands, wanted, playing) /\ playing \in BOOLEAN
    BY DEF IInv, WantedInv, TypeOK
  <2>2. EndsIn(commands', wanted, playing)
    BY <1>1, <2>1, TakenEnds
  <2> QED
    BY <2>2 DEF IInv, WantedInv, player, history
<1>5. CallInv'
  <2>1. AboutToPlay' => AboutToPlay
    BY <1>1 DEF AboutToPlay, player
  <2> QED
    BY <1>1, <2>1 DEF IInv, CallInv, player, history
<1>6. FollowInv'
  <2>1. UNCHANGED <<current, state, wanted, overtaken, source, playing>>
    BY DEF screen, player, history
  <2> QED
    BY <1>1, <2>1, AnswerFollows DEF IInv, FollowInv
<1>7. StopInv'
  BY <1>1 DEF IInv, StopInv, screen, history
<1> QED
  BY <1>2, <1>3, <1>4, <1>5, <1>6, <1>7 DEF IInv

LEMMA SoughtKeeps ==
    ASSUME IInv, Sought
    PROVE  IInv'
<1>1. lost \in BOOLEAN /\ settling \in Nat
  BY DEF IInv, TypeOK
<1>2. FrozenOnlyIfLost'
  BY <1>1 DEF Sought, FrozenOnlyIfLost
<1> QED
  BY <1>1, <1>2, SeekAnswered DEF Sought

LEMMA SeekFailsKeeps ==
    ASSUME IInv, SeekFails
    PROVE  IInv'
<1>1. FrozenOnlyIfLost'
  BY DEF SeekFails, FrozenOnlyIfLost
<1> QED
  BY <1>1, SeekAnswered DEF SeekFails

LEMMA SeekSettlesKeeps ==
    ASSUME IInv, SeekSettles
    PROVE  IInv'
<1>1. /\ settling > 0 /\ settling' = settling - 1
      /\ seeking' = FALSE /\ lost' = FALSE
      /\ UNCHANGED <<list, screen, dragging, player, commands, wanted, inCall,
                     history>>
  BY DEF SeekSettles
<1>2. /\ EndsIn(commands, wanted, playing)' /\ FollowInv'
      /\ \A x : Commanded(x)' <=> Commanded(x)
  BY <1>1, QueueUntouched DEF screen, player, history
<1>3. TypeOK'
  <2>1. /\ settling' \in Nat
        /\ Len(commands') + loading' + settling' <= MaxCommands
    BY <1>1, AudioPlayerAssumption
       DEF AudioPlayerAssumption, IInv, TypeOK, player
  <2> QED
    BY <1>1, <2>1 DEF IInv, TypeOK, list, screen, player, history
<1>4. ShownInv' /\ WantedInv'
  BY <1>1, <1>2
     DEF IInv, ShownInv, WantedInv, screen, player, history
<1>5. CallInv'
  <2>1. AboutToPlay' <=> AboutToPlay
    BY <1>1, <1>2 DEF AboutToPlay, player
  <2> QED
    BY <1>1, <1>2, <2>1 DEF IInv, CallInv, player, history
<1>6. FrozenOnlyIfLost'
  BY <1>1 DEF FrozenOnlyIfLost
<1>7. StopInv'
  BY <1>1, <1>2 DEF IInv, StopInv, screen, history
<1> QED
  BY <1>2, <1>3, <1>4, <1>5, <1>6, <1>7 DEF IInv

\* The plays that waited resume the player if that is what it was told last:
\* then the user or the end of a call said so, and it is the mini player's.
LEMMA LoadedKeeps ==
    ASSUME IInv, Loaded
    PROVE  IInv'
<1>1. /\ loading > 0 /\ prepared' = TRUE /\ loading' = 0
      /\ UNCHANGED <<list, screen, slider, source, playing, inCall, asked,
                     byCall, overCall, begun>>
      /\ \/ Command("resume", "playing") /\ wanted = "playing"
         \/ NoCommand
  BY DEF Loaded, Resume
<1>2. /\ commands \in Seq(Told) /\ loading \in Nat /\ settling \in Nat
      /\ Len(commands) + loading + settling <= MaxCommands
      /\ Len(commands) \in Nat /\ MaxCommands \in Nat
  BY AudioPlayerAssumption DEF AudioPlayerAssumption, IInv, TypeOK
<1>3. /\ commands' \in Seq(Told) /\ Len(commands') <= Len(commands) + 1
      /\ wanted' \in States /\ overtaken' \in BOOLEAN
      /\ EndsIn(commands, wanted, playing)'
      /\ FollowInv'
      /\ \A x : Commanded(x) => Commanded(x)'
      /\ wanted' = wanted
  <2>1. CASE Command("resume", "playing") /\ wanted = "playing"
    <3>1. "playing" = Asks("resume") /\ wanted' = "playing"
      BY <2>1 DEF Asks, Command
    <3>2. UNCHANGED <<current, state, source, playing>>
      BY <1>1 DEF screen
    <3>3. /\ commands' \in Seq(Told) /\ Len(commands') = Len(commands) + 1
          /\ wanted' \in States /\ overtaken' \in BOOLEAN
          /\ EndsIn(commands, wanted, playing)'
          /\ FollowInv'
          /\ \A x : Commanded(x) => Commanded(x)'
      BY <2>1, <3>1, <3>2, CommandEnds
    <3> QED
      BY <1>2, <2>1, <3>1, <3>3
  <2>2. CASE NoCommand
    <3>1. /\ EndsIn(commands, wanted, playing)' /\ FollowInv'
          /\ \A x : Commanded(x)' <=> Commanded(x)
      BY <1>1, <2>2, QueueUntouched DEF NoCommand, screen
    <3> QED
      BY <1>2, <2>2, <3>1 DEF NoCommand, IInv, TypeOK
  <2> QED
    BY <1>1, <2>1, <2>2
<1>4. TypeOK'
  <2>1. Len(commands') \in Nat
    BY <1>3
  <2>2. loading' \in Nat /\ Len(commands') + loading' + settling' <= MaxCommands
    BY <1>1, <1>2, <1>3, <2>1 DEF slider
  <2> QED
    BY <1>1, <1>3, <2>2 DEF IInv, TypeOK, list, screen, slider
<1>5. ShownInv'
  BY <1>1, <1>3 DEF IInv, ShownInv, screen
<1>6. WantedInv'
  BY <1>1, <1>3 DEF IInv, WantedInv
<1>7. CallInv'
  BY <1>1 DEF IInv, CallInv, AboutToPlay
<1>8. FrozenOnlyIfLost'
  BY <1>1, <1>3 DEF IInv, FrozenOnlyIfLost, slider
<1>9. StopInv'
  <2> SUFFICES ASSUME asked = "stop", ~overtaken'
               PROVE  /\ wanted = "stopped"
                      /\ current # NoTrack => Commanded("stop")
    BY <1>1, <1>3 DEF StopInv, screen
  <2>1. ~overtaken
    BY <1>1 DEF Command, NoCommand
  <2> QED
    BY <2>1 DEF IInv, StopInv
<1> QED
  BY <1>3, <1>4, <1>5, <1>6, <1>7, <1>8, <1>9 DEF IInv

LEMMA PlayFailsKeeps ==
    ASSUME IInv, PlayFails
    PROVE  IInv'
<1>1. /\ loading > 0 /\ loading' = loading - 1 /\ buffering' = FALSE
      /\ UNCHANGED <<list, current, state, slider, source, prepared, playing,
                     commands, wanted, inCall, history>>
  BY DEF PlayFails
<1>2. /\ EndsIn(commands, wanted, playing)' /\ FollowInv'
      /\ \A x : Commanded(x)' <=> Commanded(x)
  BY <1>1, QueueUntouched DEF history
<1>3. loading \in Nat
  BY DEF IInv, TypeOK
<1>4. TypeOK'
  <2>1. /\ loading' \in Nat
        /\ Len(commands') + loading' + settling' <= MaxCommands
    BY <1>1, AudioPlayerAssumption
       DEF AudioPlayerAssumption, IInv, TypeOK, slider
  <2> QED
    BY <1>1, <2>1 DEF IInv, TypeOK, list, slider, history
<1>5. ShownInv' /\ WantedInv'
  BY <1>1, <1>2 DEF IInv, ShownInv, WantedInv, history
<1>6. CallInv'
  BY <1>1, <1>2 DEF IInv, CallInv, AboutToPlay, history
<1>7. FrozenOnlyIfLost'
  BY <1>1, <1>2 DEF IInv, FrozenOnlyIfLost, slider
<1>8. StopInv'
  BY <1>1, <1>2 DEF IInv, StopInv, history
<1> QED
  BY <1>2, <1>4, <1>5, <1>6, <1>7, <1>8 DEF IInv

LEMMA CompletesKeeps ==
    ASSUME IInv, Completes
    PROVE  IInv'
<1>1. /\ playing /\ playing' = FALSE /\ state' = "completed"
      /\ UNCHANGED <<list, current, buffering, slider, source, prepared,
                     loading, commands, wanted, inCall, history>>
  BY DEF Completes, Sounding
<1>2. \A x : Commanded(x)' <=> Commanded(x)
  BY <1>1 DEF Commanded
<1>3. TypeOK'
  BY <1>1 DEF IInv, TypeOK, list, States, slider, history
<1>4. ShownInv'
  BY <1>1 DEF ShownInv
<1>5. WantedInv'
  BY <1>1 DEF IInv, WantedInv, EndsIn, history
<1>6. CallInv'
  BY <1>1, <1>2 DEF IInv, CallInv, AboutToPlay, history
<1>7. FollowInv'
  BY <1>1 DEF IInv, FollowInv, history
<1>8. FrozenOnlyIfLost'
  BY <1>1, <1>2 DEF IInv, FrozenOnlyIfLost, slider
<1>9. StopInv'
  BY <1>1, <1>2 DEF IInv, StopInv, history
<1> QED
  BY <1>3, <1>4, <1>5, <1>6, <1>7, <1>8, <1>9 DEF IInv

-----------------------------------------------------------------------------
(* The steps together.                                                       *)

LEMMA InitInv ==
    ASSUME Init
    PROVE  IInv
<1>1. Len(commands) = 0 /\ commands \in Seq(Told)
  BY EmptySeq DEF Init
<1>2. /\ \A i : i \notin 1..Len(commands)
      /\ \A x : ~Commanded(x)
  <2>1. \A i : i \notin 1..Len(commands)
    BY <1>1
  <2> QED
    BY <2>1 DEF Commanded
<1>3. TypeOK
  <2>1. Len(commands) + loading + settling <= MaxCommands
    BY <1>1, AudioPlayerAssumption DEF AudioPlayerAssumption, Init
  <2>2. {loading, settling} \subseteq Nat
    BY DEF Init
  <2>3. listLoads \in 0..MaxListLoads
    BY AudioPlayerAssumption DEF AudioPlayerAssumption, Init
  <2> QED
    BY <1>1, <2>1, <2>2, <2>3 DEF TypeOK, States, Init
<1>4. ShownInv /\ FrozenOnlyIfLost /\ CallInv
  BY <1>2 DEF ShownInv, FrozenOnlyIfLost, CallInv, AboutToPlay, Init
<1>5. WantedInv
  BY <1>2 DEF WantedInv, EndsIn, Init
<1>6. FollowInv
  BY <1>2 DEF FollowInv, OnlySeeks, StopIsLast, Init
<1>7. StopInv
  BY DEF StopInv, Init
<1> QED
  BY <1>3, <1>4, <1>5, <1>6, <1>7 DEF IInv

\* A screen and a player that start afresh, in a call or not.
LEMMA DisposeKeeps ==
    ASSUME IInv, Dispose
    PROVE  IInv'
<1>1. inCall' \in BOOLEAN
  BY DEF Dispose, IInv, TypeOK
<1>2. Len(commands') = 0 /\ commands' \in Seq(Told)
  BY EmptySeq DEF Dispose
<1>3. /\ \A i : i \notin 1..Len(commands')
      /\ \A x : ~Commanded(x)'
  <2>1. \A i : i \notin 1..Len(commands')
    BY <1>2
  <2> QED
    BY <2>1 DEF Commanded
<1>4. TypeOK'
  <2>1. Len(commands') + loading' + settling' <= MaxCommands
    BY <1>2, AudioPlayerAssumption DEF AudioPlayerAssumption, Dispose
  <2>2. {loading', settling'} \subseteq Nat
    BY DEF Dispose
  <2>3. listLoads' \in 0..MaxListLoads
    BY AudioPlayerAssumption DEF AudioPlayerAssumption, Dispose
  <2> QED
    BY <1>1, <1>2, <2>1, <2>2, <2>3 DEF TypeOK, States, Dispose
<1>5. ShownInv' /\ FrozenOnlyIfLost' /\ CallInv'
  BY <1>3 DEF ShownInv, FrozenOnlyIfLost, CallInv, AboutToPlay, Dispose
<1>6. WantedInv'
  BY <1>3 DEF WantedInv, EndsIn, Dispose
<1>7. FollowInv'
  BY <1>3 DEF FollowInv, OnlySeeks, StopIsLast, Dispose
<1>8. StopInv'
  BY DEF StopInv, Dispose
<1> QED
  BY <1>4, <1>5, <1>6, <1>7, <1>8 DEF IInv

LEMMA StutterKeeps ==
    ASSUME IInv, UNCHANGED vars
    PROVE  IInv'
BY DEF IInv, TypeOK, list, ShownInv, WantedInv, CallInv, AboutToPlay, Commanded,
       StopInv, FollowInv, FrozenOnlyIfLost, vars, screen, slider, player, history

LEMMA StepInv == IInv /\ [Next]_vars => IInv'
<1> SUFFICES ASSUME IInv, [Next]_vars PROVE IInv'
  OBVIOUS
<1>1. ASSUME NEW t \in Tracks, PlayCurrent(t) PROVE IInv'
  BY <1>1, PlayCurrentKeeps
<1>2. ASSUME NEW t \in Tracks, PlayOther(t) PROVE IInv'
  BY <1>2, PlayOtherKeeps
<1>3. ASSUME NEW mayResume \in BOOLEAN, CallEnds(mayResume) PROVE IInv'
  BY <1>3, CallEndsKeeps
<1>4. CASE Answer
  BY <1>4, SourceKeeps, ResumedKeeps, PausedKeeps, StoppedKeeps, SoughtKeeps,
     SeekFailsKeeps
     DEF Answer
<1> QED
  BY <1>1, <1>2, <1>3, <1>4, StopKeeps, SeekToKeeps, DragSliderKeeps,
     RefreshListKeeps, ListLoadedKeeps, ListFailsKeeps,
     CallBeginsKeeps, BecomesNoisyKeeps, SeekSettlesKeeps, LoadedKeeps,
     PlayFailsKeeps, CompletesKeeps, DisposeKeeps, StutterKeeps
     DEF Next

\* IInv holds in every reachable state: taps, calls, headphones, seeks, loads
\* and errors in every order keep screen, player and waiting commands in line.
THEOREM Invariance == Spec => []IInv
<1>1. Init => IInv
  BY InitInv
<1>2. IInv /\ [Next]_vars => IInv'
  BY StepInv
<1> QED
  BY <1>1, <1>2, PTL DEF Spec

\* TypeOK: state and queue have their types, and no more commands, loads and
\* settling seeks are under way than the bound allows.
THEOREM Typed == Spec => []TypeOK
<1>1. IInv => TypeOK
  BY DEF IInv
<1> QED
  BY <1>1, Invariance, PTL

\* HeardIsShown: what the player is heard with once it has done what it was told
\* is shown as playing and without a spinner, and it is the mini player's track
\* wherever the list is on the screen and no command overtook a stop.
THEOREM HeardShown == Spec => []HeardIsShown
<1>1. IInv => HeardIsShown
  <2> SUFFICES ASSUME IInv, commands = <<>>, playing
               PROVE  /\ state = "playing"
                      /\ ~buffering
                      /\ ListShown /\ ~overtaken => MiniPlayer = source
    BY DEF HeardIsShown, Heard, Sounding
  <2>1. \A i : i \notin 1..Len(commands)
    BY EmptySeq
  <2>2. ~overtaken => source = current
    BY <2>1 DEF IInv, FollowInv, EndsWith
  <2>3. state = "playing" /\ ~buffering
    BY <2>1 DEF IInv, ShownInv, TypeOK, Commanded
  <2> QED
    BY <2>2, <2>3 DEF MiniPlayer
<1> QED
  BY <1>1, Invariance, PTL

\* StoppedStays: what the user stopped is not heard again until it starts a
\* track, whatever was still loading and whatever calls and headphones do, unless
\* another command overtook the stop.
THEOREM StopSilences == Spec => []StoppedStays
<1>1. IInv => StoppedStays
  <2> SUFFICES ASSUME IInv, commands = <<>>, playing, asked = "stop", ~overtaken
               PROVE  FALSE
    BY DEF StoppedStays, Heard, Sounding
  <2>1. OnlySeeks(commands)
    BY EmptySeq DEF OnlySeeks
  <2>2. wanted = "playing"
    BY <2>1 DEF IInv, WantedInv, EndsIn
  <2> QED
    BY <2>2 DEF IInv, StopInv
<1> QED
  BY <1>1, Invariance, PTL

\* CallIsQuiet: in a call nothing is heard that the user did not ask for in it
\* and that was not about to play when it began.
THEOREM CallQuiet == Spec => []CallIsQuiet
<1>1. IInv => CallIsQuiet
  <2>1. commands = <<>> => \A x : ~Commanded(x)
    BY EmptySeq DEF Commanded
  <2> QED
    BY <2>1 DEF IInv, CallInv, CallIsQuiet, Heard, Sounding
<1> QED
  BY <1>1, Invariance, PTL

\* FrozenOnlyIfLost: the position shown follows the player unless a seek or a
\* finger has it, or one of them was lost.
THEOREM Frozen == Spec => []FrozenOnlyIfLost
<1>1. IInv => FrozenOnlyIfLost
  BY DEF IInv
<1> QED
  BY <1>1, Invariance, PTL

=============================================================================
