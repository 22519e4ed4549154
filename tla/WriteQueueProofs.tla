--------------------------- MODULE WriteQueueProofs ---------------------------
(* Each handler of the Firestore client, and each step of the server and the *)
(* network, keeps the client's invariant: for any writes, users, refusals and *)
(* any limit of the pipeline.  FeedbackProofs makes theorems of these lemmas. *)
EXTENDS WriteQueueInvariant, SequenceLemmas

-----------------------------------------------------------------------------
(* Sequences.                                                                *)

Distinct(q) == \A i, j \in 1..Len(q) : q[i] = q[j] => i = j

Prefix(p, q) == Len(p) <= Len(q) /\ \A i \in 1..Len(p) : p[i] = q[i]

LEMMA FirstProperties ==
    ASSUME NEW S, NEW s \in Seq(S), NEW n \in Nat
    PROVE  /\ First(s, n) \in Seq(S)
           /\ Len(First(s, n)) = IF Len(s) < n THEN Len(s) ELSE n
           /\ \A i \in 1..Len(First(s, n)) : First(s, n)[i] = s[i]
<1> DEFINE m == IF Len(s) < n THEN Len(s) ELSE n
<1>1. m \in Nat /\ m <= Len(s) /\ \A i \in 1..m : s[i] \in S
  OBVIOUS
<1>2. First(s, n) = SubSeq(s, 1, m)
  BY DEF First
<1> QED
  BY <1>1, <1>2, SubSeqProperties, SMT

\* The writes of a prefix stand in the queue where they stand in the prefix.
LEMMA PlaceInPrefix ==
    ASSUME NEW q \in Seq(Writes), Distinct(q), NEW i \in 1..Len(q)
    PROVE  q[i] \in Elements(q) /\ Place(q, q[i]) = i
BY DEF Distinct, Elements, Place

\* What FillWritePipeline adds to the front of a queue is what comes next.
LEMMA AfterPrefix ==
    ASSUME NEW q \in Seq(Writes), Distinct(q),
           NEW p \in Seq(Writes), Prefix(p, q)
    PROVE  /\ After(q, p) \in Seq(Writes)
           /\ Len(After(q, p)) = Len(q) - Len(p)
           /\ \A i \in 1..(Len(q) - Len(p)) : After(q, p)[i] = q[Len(p) + i]
<1>1. CASE p = <<>>
  BY <1>1 DEF After
<1>2. CASE p # <<>>
  <2>1. Len(p) \in 1..Len(q) /\ p[Len(p)] = q[Len(p)]
    BY <1>2 DEF Prefix
  <2>2. After(q, p) = SubSeq(q, Len(p) + 1, Len(q))
    BY <1>2, <2>1, PlaceInPrefix DEF After
  <2> QED
    BY <2>1, <2>2, SuffixProperties
<1> QED
  BY <1>1, <1>2

LEMMA RefillPipeline ==
    ASSUME NEW q \in Seq(Writes), Distinct(q),
           NEW p \in Seq(Writes), Prefix(p, q), Len(p) <= MaxPending
    PROVE  LET more == First(After(q, p), Room(p)) IN
           /\ more \in Seq(Writes)
           /\ p \o more \in Seq(Writes)
           /\ p \o more = First(q, MaxPending)
<1> DEFINE rest == After(q, p)
           more == First(rest, Room(p))
<1>1. MaxPending \in Nat \ {0} /\ Room(p) \in Nat /\ Room(p) = MaxPending - Len(p)
  BY WriteQueueAssumption DEF WriteQueueAssumption, Room
<1>2. /\ rest \in Seq(Writes) /\ Len(rest) = Len(q) - Len(p)
      /\ \A i \in 1..(Len(q) - Len(p)) : rest[i] = q[Len(p) + i]
  BY AfterPrefix
<1>3. /\ more \in Seq(Writes)
      /\ Len(more) = IF Len(rest) < Room(p) THEN Len(rest) ELSE Room(p)
      /\ \A i \in 1..Len(more) : more[i] = rest[i]
  BY <1>1, <1>2, FirstProperties
<1>4. /\ First(q, MaxPending) \in Seq(Writes)
      /\ Len(First(q, MaxPending)) = IF Len(q) < MaxPending THEN Len(q) ELSE MaxPending
      /\ \A i \in 1..Len(First(q, MaxPending)) : First(q, MaxPending)[i] = q[i]
  BY <1>1, FirstProperties
<1> HIDE DEF rest, more
<1>5. Len(p) <= Len(q) /\ \A i \in 1..Len(p) : p[i] = q[i]
  BY DEF Prefix
<1>6. /\ p \o more \in Seq(Writes)
      /\ Len(p \o more) = Len(p) + Len(more)
      /\ \A i \in 1..(Len(p) + Len(more)) :
            (p \o more)[i] = IF i <= Len(p) THEN p[i] ELSE more[i - Len(p)]
  BY <1>3, ConcatProperties
<1>7. Len(p \o more) = Len(First(q, MaxPending))
  BY <1>1, <1>2, <1>3, <1>4, <1>5, <1>6
<1>8. ASSUME NEW i \in 1..Len(p \o more)
      PROVE  (p \o more)[i] = First(q, MaxPending)[i]
  <2>1. First(q, MaxPending)[i] = q[i]
    BY <1>4, <1>7
  <2>2. CASE i <= Len(p)
    BY <1>5, <1>6, <2>1, <2>2
  <2>3. CASE i > Len(p)
    <3>1. i - Len(p) \in 1..Len(more) /\ i - Len(p) \in 1..(Len(q) - Len(p))
      BY <1>2, <1>3, <1>6, <2>3
    <3>2. (p \o more)[i] = more[i - Len(p)]
      BY <1>6, <2>3
    <3>3. more[i - Len(p)] = rest[i - Len(p)]
      BY <1>3, <3>1
    <3>4. rest[i - Len(p)] = q[Len(p) + (i - Len(p))]
      BY <1>2, <3>1
    <3> QED
      BY <2>1, <3>2, <3>3, <3>4
  <2> QED
    BY <1>6, <2>2, <2>3
<1>9. p \o more = First(q, MaxPending)
  BY <1>4, <1>6, <1>7, <1>8, SeqEqual
<1> QED
  BY <1>3, <1>6, <1>9 DEF more, rest

\* The front of a queue without duplicates is removed as its head.
LEMMA WithoutHead ==
    ASSUME NEW q \in Seq(Writes), Distinct(q), q # <<>>
    PROVE  Without(q, Head(q)) = Tail(q)
<1>1. 1 \in 1..Len(q) /\ Head(q) = q[1]
  OBVIOUS
<1>2. Head(q) \in Elements(q) /\ Place(q, Head(q)) = 1
  BY <1>1, PlaceInPrefix
<1>3. SubSeq(q, 1, 0) = <<>>
  BY SubSeqEmpty
<1>4. /\ SubSeq(q, 2, Len(q)) \in Seq(Writes)
      /\ SubSeq(q, 2, Len(q)) = Tail(q)
  BY <1>1, SuffixProperties, TailIsSubSeq
<1> QED
  BY <1>2, <1>3, <1>4, ConcatEmptySeq DEF Without

-----------------------------------------------------------------------------
(* The queues.                                                               *)

LEMMA QueuedWhere ==
    ASSUME NEW w
    PROVE  w \in Queued <=>
            \E u \in Users : \E i \in 1..Len(queue[u]) : queue[u][i] = w
BY DEF Queued, Elements

LEMMA QueueTyped ==
    ASSUME WQTypeOK, QueueInv, NEW u \in Users
    PROVE  /\ queue[u] \in Seq(Writes)
           /\ Distinct(queue[u])
           /\ \A i \in 1..Len(queue[u]) : queue[u][i] \in Writes /\ queue[u][i] \in Queued
<1>1. queue[u] \in Seq(Writes)
  BY DEF WQTypeOK
<1>2. Distinct(queue[u])
  BY DEF QueueInv, Distinct
<1>3. \A i \in 1..Len(queue[u]) : queue[u][i] \in Queued
  BY QueuedWhere
<1> QED
  BY <1>1, <1>2, <1>3, ElementOfSeq

\* A write of the app is queued behind the user's others.
LEMMA QueueGrows ==
    ASSUME WQTypeOK, QueueInv, NEW w \in Writes, w \notin written,
           queue' = [queue EXCEPT ![user] = Append(@, w)]
    PROVE  /\ queue' \in [Users -> Seq(Writes)]
           /\ queue'[user] = Append(queue[user], w)
           /\ \A u \in Users : queue'[u] # queue[u] => u = user
           /\ \A u \in Users : Distinct(queue'[u])
           /\ Queued' = Queued \cup {w}
<1>1. user \in Users /\ queue \in [Users -> Seq(Writes)]
  BY DEF WQTypeOK
<1>2. /\ queue'[user] = Append(queue[user], w)
      /\ \A u \in Users : queue'[u] # queue[u] => u = user
  BY <1>1
<1>3. /\ Append(queue[user], w) \in Seq(Writes)
      /\ Len(Append(queue[user], w)) = Len(queue[user]) + 1
      /\ \A i \in 1..Len(queue[user]) : Append(queue[user], w)[i] = queue[user][i]
      /\ Append(queue[user], w)[Len(queue[user]) + 1] = w
      /\ Len(queue[user]) \in Nat
  BY <1>1, AppendProperties
<1>4. queue' \in [Users -> Seq(Writes)]
  BY <1>1, <1>3
<1>5. \A i \in 1..Len(queue[user]) : queue[user][i] # w
  BY <1>1, QueueTyped DEF QueueInv
<1>6. Distinct(queue'[user])
  <2> SUFFICES ASSUME NEW i \in 1..(Len(queue[user]) + 1),
                      NEW j \in 1..(Len(queue[user]) + 1),
                      Append(queue[user], w)[i] = Append(queue[user], w)[j]
               PROVE  i = j
    BY <1>2, <1>3 DEF Distinct
  <2>1. CASE i \in 1..Len(queue[user]) /\ j \in 1..Len(queue[user])
    BY <1>1, <1>3, <2>1 DEF QueueInv
  <2>2. CASE i = Len(queue[user]) + 1 \/ j = Len(queue[user]) + 1
    BY <1>3, <1>5, <2>2
  <2> QED
    BY <1>3, <2>1, <2>2
<1>7. \A u \in Users : Distinct(queue'[u])
  BY <1>2, <1>6, QueueTyped
<1>8. Queued' = Queued \cup {w}
  <2>1. ASSUME NEW x \in Queued' PROVE x \in Queued \cup {w}
    <3>1. PICK u \in Users : \E i \in 1..Len(queue'[u]) : queue'[u][i] = x
      BY <2>1 DEF Queued, Elements
    <3>2. CASE u # user
      BY <1>2, <3>1, <3>2, QueuedWhere
    <3>3. CASE u = user
      <4>1. PICK i \in 1..(Len(queue[user]) + 1) : Append(queue[user], w)[i] = x
        BY <1>2, <1>3, <3>1, <3>3
      <4>2. CASE i = Len(queue[user]) + 1
        BY <1>3, <4>1, <4>2
      <4>3. CASE i \in 1..Len(queue[user])
        BY <1>1, <1>3, <4>1, <4>3, QueuedWhere
      <4> QED
        BY <1>3, <4>2, <4>3
    <3> QED
      BY <3>2, <3>3
  <2>2. ASSUME NEW x \in Queued \cup {w} PROVE x \in Queued'
    <3>1. \E u \in Users : \E i \in 1..Len(queue'[u]) : queue'[u][i] = x
      <4>1. CASE x = w
        BY <1>1, <1>2, <1>3, <4>1
      <4>2. CASE x \in Queued
        <5>1. PICK u \in Users : \E i \in 1..Len(queue[u]) : queue[u][i] = x
          BY <4>2, QueuedWhere
        <5>2. CASE u # user
          BY <1>2, <5>1, <5>2
        <5>3. CASE u = user
          <6>1. PICK i \in 1..Len(queue[user]) : queue[user][i] = x
            BY <5>1, <5>3
          <6>2. i \in 1..Len(queue'[user]) /\ queue'[user][i] = x
            BY <1>2, <1>3, <6>1
          <6> QED
            BY <1>1, <6>2
        <5> QED
          BY <5>2, <5>3
      <4> QED
        BY <2>2, <4>1, <4>2
    <3> QED
      BY <3>1 DEF Queued, Elements
  <2> QED
    BY <2>1, <2>2
<1> QED
  BY <1>2, <1>4, <1>7, <1>8

\* A settled write leaves at the front.
LEMMA QueueShrinks ==
    ASSUME WQTypeOK, QueueInv, queue[user] # <<>>,
           RemoveMutationBatch(Head(queue[user]))
    PROVE  /\ queue' \in [Users -> Seq(Writes)]
           /\ queue'[user] = Tail(queue[user])
           /\ \A u \in Users : queue'[u] # queue[u] => u = user
           /\ \A u \in Users : Distinct(queue'[u])
           /\ Queued' \subseteq Queued
           /\ Queued \subseteq Queued' \cup {Head(queue[user])}
<1>1. /\ user \in Users /\ queue \in [Users -> Seq(Writes)]
      /\ queue[user] \in Seq(Writes) /\ Distinct(queue[user])
  BY QueueTyped DEF WQTypeOK
<1>2. /\ queue'[user] = Tail(queue[user])
      /\ \A u \in Users : queue'[u] # queue[u] => u = user
  BY <1>1, WithoutHead DEF RemoveMutationBatch
<1>3. /\ Tail(queue[user]) \in Seq(Writes)
      /\ Len(Tail(queue[user])) = Len(queue[user]) - 1
      /\ \A i \in 1..Len(Tail(queue[user])) : Tail(queue[user])[i] = queue[user][i + 1]
      /\ Len(queue[user]) \in Nat \ {0}
      /\ Head(queue[user]) = queue[user][1]
  BY <1>1, HeadTailProperties
<1>4. queue' \in [Users -> Seq(Writes)]
  BY <1>1, <1>2, <1>3 DEF RemoveMutationBatch
<1>5. Distinct(queue'[user])
  <2> SUFFICES ASSUME NEW i \in 1..(Len(queue[user]) - 1),
                      NEW j \in 1..(Len(queue[user]) - 1),
                      queue[user][i + 1] = queue[user][j + 1]
               PROVE  i = j
    BY <1>2, <1>3 DEF Distinct
  <2>1. i + 1 \in 1..Len(queue[user]) /\ j + 1 \in 1..Len(queue[user])
    BY <1>3
  <2>2. i + 1 = j + 1
    BY <1>1, <2>1 DEF Distinct
  <2> QED
    BY <2>2
<1>6. \A u \in Users : Distinct(queue'[u])
  BY <1>2, <1>5, QueueTyped
<1>7. Queued' \subseteq Queued
  <2> SUFFICES ASSUME NEW x \in Queued' PROVE x \in Queued
    OBVIOUS
  <2>1. PICK u \in Users : \E i \in 1..Len(queue'[u]) : queue'[u][i] = x
    BY DEF Queued, Elements
  <2>2. CASE u # user
    BY <1>2, <2>1, <2>2, QueuedWhere
  <2>3. CASE u = user
    <3>1. PICK i \in 1..(Len(queue[user]) - 1) : queue[user][i + 1] = x
      BY <1>2, <1>3, <2>1, <2>3
    <3>2. i + 1 \in 1..Len(queue[user])
      BY <1>3
    <3> QED
      BY <1>1, <3>1, <3>2, QueuedWhere
  <2> QED
    BY <2>2, <2>3
<1>8. Queued \subseteq Queued' \cup {Head(queue[user])}
  <2> SUFFICES ASSUME NEW x \in Queued, x # Head(queue[user]) PROVE x \in Queued'
    OBVIOUS
  <2>1. PICK u \in Users : \E i \in 1..Len(queue[u]) : queue[u][i] = x
    BY QueuedWhere
  <2>2. \E i \in 1..Len(queue'[u]) : queue'[u][i] = x
    <3>1. CASE u # user
      BY <1>2, <2>1, <3>1
    <3>2. CASE u = user
      <4>1. PICK i \in 1..Len(queue[user]) : queue[user][i] = x
        BY <2>1, <3>2
      <4>2. i # 1
        BY <1>3, <4>1
      <4>3. i - 1 \in 1..Len(queue'[user]) /\ queue'[user][i - 1] = x
        BY <1>2, <1>3, <4>1, <4>2
      <4> QED
        BY <3>2, <4>3
    <3> QED
      BY <3>1, <3>2
  <2> QED
    BY <2>2 DEF Queued, Elements
<1> QED
  BY <1>2, <1>4, <1>6, <1>7, <1>8

-----------------------------------------------------------------------------
(* Filling the pipeline.                                                     *)

\* Whatever state the stream is in, the pipeline becomes the front of the queue
\* and the stream is started for it.
LEMMA Fill ==
    ASSUME NEW q \in Seq(Writes), Distinct(q),
           NEW p \in Seq(Writes), Prefix(p, q), Len(p) <= MaxPending,
           NEW s \in Streams, FillWritePipeline(q, p, s)
    PROVE  /\ pipeline' = First(q, MaxPending)
           /\ pipeline' \in Seq(Writes) /\ Len(pipeline') <= MaxPending
           /\ stream' \in Streams /\ (s = "open" <=> stream' = "open")
           /\ pipeline' # <<>> => IsStarted(stream')
           /\ s # "open" => toServer' = <<>> /\ idle' = FALSE
<1>1. MaxPending \in Nat
  BY WriteQueueAssumption DEF WriteQueueAssumption
<1>2. /\ p \o First(After(q, p), Room(p)) \in Seq(Writes)
      /\ p \o First(After(q, p), Room(p)) = First(q, MaxPending)
  BY RefillPipeline
<1>3. pipeline' = First(q, MaxPending) /\ pipeline' \in Seq(Writes)
  BY <1>2 DEF FillWritePipeline
<1>4. Len(pipeline') <= MaxPending
  BY <1>1, <1>3, FirstProperties
<1>5. stream' = StartIfNeeded(s, pipeline')
  BY DEF FillWritePipeline
<1>6. /\ stream' \in Streams /\ (s = "open" <=> stream' = "open")
      /\ pipeline' # <<>> => IsStarted(stream')
  BY <1>5 DEF StartIfNeeded, IsStarted, Start, Streams
<1>7. s # "open" => toServer' = <<>> /\ idle' = FALSE
  BY DEF FillWritePipeline, IdleAfter
<1> QED
  BY <1>3, <1>4, <1>6, <1>7

\* The pipeline is a prefix of its queue, and its rest one of the queue's rest.
LEMMA PipelinePrefix ==
    ASSUME WQTypeOK, QueueInv, PipelineServed
    PROVE  /\ Prefix(pipeline, queue[user])
           /\ pipeline \in Seq(Writes) /\ Len(pipeline) \in 0..MaxPending
           /\ pipeline # <<>> =>
                /\ queue[user] # <<>> /\ Head(pipeline) = Head(queue[user])
                /\ Head(pipeline) \in Writes
                /\ Tail(pipeline) \in Seq(Writes)
                /\ Len(Tail(pipeline)) = Len(pipeline) - 1
                /\ Prefix(Tail(pipeline), Tail(queue[user]))
<1>1. /\ MaxPending \in Nat
      /\ pipeline \in Seq(Writes) /\ Len(pipeline) \in Nat
      /\ Len(pipeline) <= MaxPending
      /\ user \in Users /\ queue[user] \in Seq(Writes)
  BY WriteQueueAssumption DEF WriteQueueAssumption, WQTypeOK
<1>2. /\ Len(pipeline) <= Len(queue[user])
      /\ \A i \in 1..Len(pipeline) : pipeline[i] = queue[user][i]
  BY <1>1, FirstProperties DEF PipelineServed
<1>3. ASSUME pipeline # <<>>
      PROVE  /\ queue[user] # <<>> /\ Head(pipeline) = Head(queue[user])
             /\ Head(pipeline) \in Writes
             /\ Tail(pipeline) \in Seq(Writes)
             /\ Len(Tail(pipeline)) = Len(pipeline) - 1
             /\ Prefix(Tail(pipeline), Tail(queue[user]))
  <2>1. Len(pipeline) # 0
    BY <1>1, <1>3, EmptySeq
  <2>2. queue[user] # <<>> /\ Head(pipeline) = Head(queue[user])
    BY <1>1, <1>2, <2>1
  <2>3. /\ Tail(pipeline) \in Seq(Writes) /\ Tail(queue[user]) \in Seq(Writes)
        /\ Len(Tail(pipeline)) = Len(pipeline) - 1
        /\ Len(Tail(queue[user])) = Len(queue[user]) - 1
        /\ \A i \in 1..Len(Tail(pipeline)) : Tail(pipeline)[i] = pipeline[i + 1]
        /\ \A i \in 1..Len(Tail(queue[user])) :
                Tail(queue[user])[i] = queue[user][i + 1]
        /\ Head(pipeline) \in Writes
    BY <1>1, <1>3, <2>2, HeadTailProperties
  <2>4. Len(queue[user]) \in Nat
    BY <1>1
  <2>5. \A i \in 1..Len(Tail(pipeline)) :
            Tail(pipeline)[i] = Tail(queue[user])[i]
    <3> SUFFICES ASSUME NEW i \in 1..(Len(pipeline) - 1)
                 PROVE  Tail(pipeline)[i] = Tail(queue[user])[i]
      BY <2>3
    <3>1. i + 1 \in 1..Len(pipeline) /\ i \in 1..(Len(queue[user]) - 1)
      BY <1>1, <1>2, <2>4
    <3> QED
      BY <1>2, <2>3, <3>1
  <2> QED
    BY <1>1, <1>2, <2>2, <2>3, <2>4, <2>5 DEF Prefix
<1> QED
  BY <1>1, <1>2, <1>3 DEF Prefix

-----------------------------------------------------------------------------
(* Broken streams.                                                           *)

\* While a stream has shaken hands, what it carries is the pipeline's.
LEMMA StreamCarries ==
    ASSUME WQInv, shaken
    PROVE  /\ Len(toClient) \in Nat /\ Len(toServer) \in Nat
           /\ Len(toClient) + Len(toServer) = Len(pipeline)
           /\ \A i \in 1..Len(toClient) :
                toClient[i].of = queue[user][i] /\ i \in 1..Len(queue[user])
           /\ \A i \in 1..Len(toServer) :
                /\ toServer[i] = queue[user][Len(toClient) + i]
                /\ Len(toClient) + i \in 1..Len(queue[user])
                /\ toServer[i] \in Writes
           /\ toServer \in Seq(Writes)
<1>1. /\ Len(toClient) \in Nat /\ Len(toServer) \in Nat
      /\ toServer \in Seq(Writes \cup {Hello})
      /\ user \in Users /\ queue[user] \in Seq(Writes) /\ Len(queue[user]) \in Nat
  BY DEF WQInv, WQTypeOK
<1>2. /\ Len(toClient) + Len(toServer) = Len(pipeline)
      /\ \A i \in 1..Len(toClient) : toClient[i].of = pipeline[i]
      /\ \A i \in 1..Len(toServer) : toServer[i] = pipeline[Len(toClient) + i]
  BY DEF WQInv, MatchInv
<1>3. /\ Len(pipeline) <= Len(queue[user])
      /\ \A i \in 1..Len(pipeline) : pipeline[i] = queue[user][i]
  BY PipelinePrefix DEF WQInv, Prefix
<1>4. \A i \in 1..Len(toClient) :
        toClient[i].of = queue[user][i] /\ i \in 1..Len(queue[user])
  BY <1>1, <1>2, <1>3
<1>5. \A i \in 1..Len(toServer) :
        /\ toServer[i] = queue[user][Len(toClient) + i]
        /\ Len(toClient) + i \in 1..Len(queue[user])
  <2> SUFFICES ASSUME NEW i \in 1..Len(toServer)
               PROVE  /\ toServer[i] = queue[user][Len(toClient) + i]
                      /\ Len(toClient) + i \in 1..Len(queue[user])
    OBVIOUS
  <2>1. Len(toClient) + i \in 1..Len(pipeline)
    BY <1>1, <1>2
  <2> QED
    BY <1>1, <1>2, <1>3, <2>1
<1>6. \A i \in 1..Len(toServer) : toServer[i] \in Writes
  BY <1>1, <1>5, ElementOfSeq
<1>7. toServer \in Seq(Writes)
  BY <1>1, <1>6, SeqOfElements
<1> QED
  BY <1>1, <1>2, <1>4, <1>5, <1>6, <1>7

\* Nothing but the last response ends the call: before that, all are good.
LEMMA AnsweredCommitted ==
    ASSUME WQInv, shaken, ~Ended, NEW i \in 1..Len(toClient)
    PROVE  queue[user][i] \in committed
<1>1. /\ Len(toClient) \in Nat /\ toClient # <<>>
      /\ toClient \in Seq([kind : {"ok", "refused"}, of : Writes \cup {Hello}])
  BY DEF WQInv, WQTypeOK
<1>2. toClient[i].kind \in {"ok", "refused"}
  <2>1. toClient[i] \in [kind : {"ok", "refused"}, of : Writes \cup {Hello}]
    BY <1>1, ElementOfSeq
  <2> QED
    BY <2>1
<1>3. toClient[i].kind = "ok"
  <2>1. toClient[i].kind = "refused" => i = Len(toClient)
    BY DEF WQInv, AnswerInv
  <2> QED
    BY <1>1, <1>2, <2>1 DEF Ended
<1>4. toClient[i].of = queue[user][i] /\ queue[user][i] \in Writes
  BY StreamCarries, QueueTyped DEF WQInv, WQTypeOK
<1>5. toClient[i].of # Hello
  BY <1>4, WriteQueueAssumption DEF WriteQueueAssumption
<1> QED
  BY <1>3, <1>4, <1>5 DEF WQInv, AnswerInv

\* A write of u's queue, standing at i, that only the first k - 1 requests of
\* travel keep from being next.
Follows(u, i, travel, k) ==
    \A j \in 1..(i - 1) :
        \/ queue[u][j] \in committed
        \/ \E m \in 1..(k - 1) : travel[m] = queue[u][j]

\* The requests of a stream that is torn down follow each other in the queue.
LEMMA CarriedFollows ==
    ASSUME WQInv, shaken, ~Ended, NEW k \in 1..Len(toServer)
    PROVE  /\ queue[user][Len(toClient) + k] = toServer[k]
           /\ Len(toClient) + k \in 1..Len(queue[user])
           /\ Follows(user, Len(toClient) + k, toServer, k)
<1>1. /\ Len(toClient) \in Nat /\ Len(toServer) \in Nat
      /\ \A i \in 1..Len(toServer) :
            /\ toServer[i] = queue[user][Len(toClient) + i]
            /\ Len(toClient) + i \in 1..Len(queue[user])
  BY StreamCarries
<1>2. ASSUME NEW j \in 1..(Len(toClient) + k - 1)
      PROVE  \/ queue[user][j] \in committed
             \/ \E m \in 1..(k - 1) : toServer[m] = queue[user][j]
  <2>1. CASE j \in 1..Len(toClient)
    BY <2>1, AnsweredCommitted
  <2>2. CASE j \notin 1..Len(toClient)
    <3> DEFINE m == j - Len(toClient)
    <3>1. m \in 1..(k - 1) /\ m \in 1..Len(toServer) /\ Len(toClient) + m = j
      BY <1>1, <2>2
    <3>2. toServer[m] = queue[user][j]
      BY <1>1, <3>1
    <3> QED
      BY <3>1, <3>2
  <2> QED
    BY <2>1, <2>2
<1>3. Follows(user, Len(toClient) + k, toServer, k)
  BY <1>2 DEF Follows
<1> QED
  BY <1>1, <1>3

\* Of a stream that is torn down, the requests not taken may still arrive.
LEMMA TornLate ==
    ASSUME WQInv, TornDown, UNCHANGED <<queue, written, committed>>
    PROVE  late' \in Seq(Writes) /\ LateInv'
<1>1. CASE late' = late
  <2>1. late \in Seq(Writes) /\ LateInv
    BY DEF WQInv, WQTypeOK
  <2>2. late' = late /\ queue' = queue /\ written' = written /\ committed' = committed
    BY <1>1
  <2> QED
    BY <2>1, <2>2 DEF LateInv, Elements
<1>2. CASE late' # late
  <2>1. shaken /\ ~Ended /\ late' = toServer
    BY <1>2 DEF TornDown, Travelling
  <2>2. /\ user \in Users /\ toServer \in Seq(Writes)
        /\ \A i \in 1..Len(toServer) :
                /\ toServer[i] = queue[user][Len(toClient) + i]
                /\ Len(toClient) + i \in 1..Len(queue[user])
    BY <2>1, StreamCarries DEF WQInv, WQTypeOK
  <2>3. Elements(late') \subseteq written'
    <3>1. \A i \in 1..Len(toServer) : toServer[i] \in written
      BY <2>2, QueueTyped DEF WQInv, QueueInv
    <3> QED
      BY <2>1, <3>1 DEF Elements
  <2>4. ASSUME NEW k \in 1..Len(late')
        PROVE  \E i \in 1..Len(queue'[user]) :
                /\ queue'[user][i] = late'[k]
                /\ \A j \in 1..(i - 1) :
                    \/ queue'[user][j] \in committed'
                    \/ \E m \in 1..(k - 1) : late'[m] = queue'[user][j]
    <3>1. /\ queue[user][Len(toClient) + k] = toServer[k]
          /\ Len(toClient) + k \in 1..Len(queue[user])
          /\ Follows(user, Len(toClient) + k, toServer, k)
      BY <2>1, CarriedFollows
    <3> QED
      BY <2>1, <3>1 DEF Follows
  <2> QED
    BY <2>1, <2>2, <2>3, <2>4 DEF LateInv
<1> QED
  BY <1>1, <1>2

\* Queues that grow at the end and shrink at the front, by settled writes, do
\* not outrun the requests on their way.
LEMMA LateKept ==
    ASSUME WQInv, late' = late,
           committed \subseteq committed', written \subseteq written',
           \A u \in Users :
                \/ queue'[u] = queue[u]
                \/ \E w \in Writes : queue'[u] = Append(queue[u], w)
                \/ /\ queue[u] # <<>> /\ queue'[u] = Tail(queue[u])
                   /\ Head(queue[u]) \in committed' \cup Refused
    PROVE  LateInv'
<1>1. Elements(late') \subseteq written'
  BY DEF WQInv, LateInv, Elements
<1>2. ASSUME NEW k \in 1..Len(late), late[k] \notin committed' \cup Refused
      PROVE  \E u \in Users : \E i \in 1..Len(queue'[u]) :
                /\ queue'[u][i] = late[k]
                /\ \A j \in 1..(i - 1) :
                    \/ queue'[u][j] \in committed'
                    \/ \E m \in 1..(k - 1) : late[m] = queue'[u][j]
  <2>1. PICK u \in Users : \E i \in 1..Len(queue[u]) :
            queue[u][i] = late[k] /\ Follows(u, i, late, k)
    BY <1>2 DEF WQInv, LateInv, Follows
  <2>2. PICK i \in 1..Len(queue[u]) :
            queue[u][i] = late[k] /\ Follows(u, i, late, k)
    BY <2>1
  <2>3. queue[u] \in Seq(Writes) /\ Len(queue[u]) \in Nat
    BY QueueTyped DEF WQInv
  <2>4. \A j \in 1..(i - 1) :
            \/ queue[u][j] \in committed'
            \/ \E m \in 1..(k - 1) : late[m] = queue[u][j]
    BY <2>2 DEF Follows
  <2>5. CASE queue'[u] = queue[u]
    BY <2>2, <2>4, <2>5
  <2>6. CASE \E w \in Writes : queue'[u] = Append(queue[u], w)
    <3>1. /\ Len(queue'[u]) = Len(queue[u]) + 1
          /\ \A j \in 1..Len(queue[u]) : queue'[u][j] = queue[u][j]
      BY <2>3, <2>6, AppendProperties
    <3>2. i \in 1..Len(queue'[u]) /\ \A j \in 1..(i - 1) : j \in 1..Len(queue[u])
      BY <2>3, <3>1
    <3>3. queue'[u][i] = late[k]
      BY <2>2, <3>1
    <3>4. \A j \in 1..(i - 1) :
            \/ queue'[u][j] \in committed'
            \/ \E m \in 1..(k - 1) : late[m] = queue'[u][j]
      BY <2>4, <3>1, <3>2
    <3> QED
      BY <3>2, <3>3, <3>4
  <2>7. CASE /\ queue[u] # <<>> /\ queue'[u] = Tail(queue[u])
             /\ Head(queue[u]) \in committed' \cup Refused
    <3>1. /\ Len(queue'[u]) = Len(queue[u]) - 1
          /\ \A j \in 1..Len(queue'[u]) : queue'[u][j] = queue[u][j + 1]
          /\ Head(queue[u]) = queue[u][1]
      BY <2>3, <2>7, HeadTailProperties
    <3>2. i # 1
      BY <1>2, <2>2, <2>7, <3>1
    <3>3. i - 1 \in 1..Len(queue'[u]) /\ queue'[u][i - 1] = late[k]
      BY <2>2, <2>3, <3>1, <3>2
    <3>4. ASSUME NEW j \in 1..(i - 1 - 1)
          PROVE  \/ queue'[u][j] \in committed'
                 \/ \E m \in 1..(k - 1) : late[m] = queue'[u][j]
      <4>1. j + 1 \in 1..(i - 1) /\ queue'[u][j] = queue[u][j + 1]
        BY <2>3, <3>1, <3>3
      <4> QED
        BY <2>4, <4>1
    <3> QED
      BY <3>3, <3>4
  <2> QED
    BY <2>5, <2>6, <2>7
<1> QED
  BY <1>1, <1>2 DEF LateInv

-----------------------------------------------------------------------------
(* Handlers that draw the pipeline anew or go on with it.                    *)

LEMMA QueueKept ==
    ASSUME QueueInv, UNCHANGED <<queue, written>>
    PROVE  QueueInv' /\ Queued' = Queued
BY DEF QueueInv, Queued, Elements

\* Of a stream that is gone nothing is left to be matched.
LEMMA NothingCarried ==
    ASSUME shaken' = FALSE, toClient' = <<>>, toServer' = <<>>, stream' # "open"
    PROVE  MatchInv' /\ AnswerInv'
BY DEF MatchInv, AnswerInv

\* Sums of lengths, out of sight of the sequences.
LEMMA Sum3 ==
    ASSUME NEW i \in Nat, NEW j \in Nat, NEW k \in Nat
    PROVE  i + (j + k) = (i + j) + k
OBVIOUS

Responses == [kind : {"ok", "refused"}, of : Writes \cup {Hello}]

\* The requests r are the end of pipeline p, behind as many as are answered.
Matches(answers, r, p) ==
    /\ Len(answers) + Len(r) = Len(p)
    /\ \A i \in 1..Len(r) : r[i] = p[Len(answers) + i]

\* What is added to a pipeline and sent continues both.
LEMMA MatchExtends ==
    ASSUME NEW a \in Seq(Responses),
           NEW p \in Seq(Writes), NEW more \in Seq(Writes),
           NEW r \in Seq(Writes \cup {Hello}),
           Matches(a, r, p)
    PROVE  /\ r \o more \in Seq(Writes \cup {Hello})
           /\ Matches(a, r \o more, p \o more)
           /\ \A i \in 1..Len(a) : (p \o more)[i] = p[i]
<1>1. /\ Len(a) \in Nat /\ Len(p) \in Nat /\ Len(r) \in Nat /\ Len(more) \in Nat
      /\ more \in Seq(Writes \cup {Hello})
      /\ Len(a) + Len(r) = Len(p)
  BY SeqMonotonic DEF Matches
<1>2. /\ r \o more \in Seq(Writes \cup {Hello})
      /\ Len(r \o more) = Len(r) + Len(more)
      /\ \A i \in 1..Len(r) : (r \o more)[i] = r[i]
      /\ \A i \in 1..Len(more) : (r \o more)[Len(r) + i] = more[i]
  BY <1>1, ConcatParts
<1>3. /\ Len(p \o more) = Len(p) + Len(more)
      /\ \A i \in 1..Len(p) : (p \o more)[i] = p[i]
      /\ \A i \in 1..Len(more) : (p \o more)[Len(p) + i] = more[i]
  BY ConcatParts
<1>4. ASSUME NEW i \in 1..(Len(r) + Len(more))
      PROVE  (r \o more)[i] = (p \o more)[Len(a) + i]
  <2>1. CASE i <= Len(r)
    <3>1. i \in 1..Len(r) /\ Len(a) + i \in 1..Len(p)
      BY <1>1, <2>1
    <3> QED
      BY <1>2, <1>3, <3>1 DEF Matches
  <2>2. CASE i > Len(r)
    <3>1. PICK n \in 1..Len(more) : i = Len(r) + n
      <4>1. i - Len(r) \in 1..Len(more) /\ i = Len(r) + (i - Len(r))
        BY <1>1, <2>2
      <4> QED
        BY <4>1
    <3>2. Len(a) + i = Len(p) + n
      BY <1>1, <3>1
    <3> QED
      BY <1>2, <1>3, <3>1, <3>2
  <2> QED
    BY <1>1, <2>1, <2>2
<1>5. \A i \in 1..Len(a) : (p \o more)[i] = p[i]
  <2> SUFFICES ASSUME NEW i \in 1..Len(a) PROVE (p \o more)[i] = p[i]
    OBVIOUS
  <2>1. i \in 1..Len(p)
    BY <1>1
  <2> QED
    BY <1>3, <2>1
<1>6. Len(a) + Len(r \o more) = Len(p \o more)
  <2>1. /\ Len(a) \in Nat /\ Len(r) \in Nat /\ Len(more) \in Nat
        /\ Len(p) = Len(a) + Len(r)
    BY <1>1
  <2>2. Len(r \o more) = Len(r) + Len(more) /\ Len(p \o more) = Len(p) + Len(more)
    BY <1>2, <1>3
  <2> QED
    BY <2>1, <2>2, Sum3
<1>7. 1..Len(r \o more) = 1..(Len(r) + Len(more))
  BY <1>2
<1>8. Matches(a, r \o more, p \o more)
  BY <1>4, <1>6, <1>7 DEF Matches
<1> QED
  BY <1>2, <1>5, <1>8

AnswersTo(answers, p) == \A i \in 1..Len(answers) : answers[i].of = p[i]

\* A stream goes on with pipeline p, of which the answers a are on their way.
LEMMA StreamGoesOn ==
    ASSUME WQInv,
           NEW q \in Seq(Writes), Distinct(q),
           NEW p \in Seq(Writes), Prefix(p, q), Len(p) <= MaxPending,
           FillWritePipeline(q, p, stream),
           UNCHANGED shaken, shaken \/ q # <<>>,
           idle => p = <<>>,
           toClient' \in Seq(Responses),
           shaken => Matches(toClient', toServer, p) /\ AnswersTo(toClient', p),
           ~shaken => toClient' = toClient
    PROVE  /\ toServer' \in Seq(Writes \cup {Hello})
           /\ idle' \in BOOLEAN
           /\ idle' => pipeline' = <<>> /\ stream' = "open" /\ shaken'
           /\ MatchInv'
<1> DEFINE more == First(After(q, p), Room(p))
<1>1. /\ more \in Seq(Writes)
      /\ p \o more = First(q, MaxPending)
  BY RefillPipeline
<1>2. /\ pipeline' = p \o more
      /\ toServer' = IF stream # "open" THEN <<>>
                     ELSE IF CanWrite(stream) THEN toServer \o more ELSE toServer
      /\ idle' = IdleAfter(stream, p, more)
  BY DEF FillWritePipeline
<1> HIDE DEF more
<1>3. stream \in Streams /\ toServer \in Seq(Writes \cup {Hello}) /\ shaken \in BOOLEAN
  BY DEF WQInv, WQTypeOK
<1>4. (stream = "open" <=> stream' = "open") /\ pipeline' = First(q, MaxPending)
  BY <1>3, Fill
<1>5. idle' \in BOOLEAN
  BY <1>2 DEF IdleAfter
<1>6. q # <<>> => pipeline' # <<>>
  <2>1. MaxPending \in Nat \ {0}
    BY WriteQueueAssumption DEF WriteQueueAssumption
  <2>2. Len(pipeline') = IF Len(q) < MaxPending THEN Len(q) ELSE MaxPending
    BY <1>4, <2>1, FirstProperties
  <2>3. q # <<>> => Len(q) \in Nat \ {0}
    BY EmptySeq, LenProperties
  <2>4. q # <<>> => Len(pipeline') # 0
    BY <2>1, <2>2, <2>3
  <2> QED
    BY <2>4, EmptySeq
<1>7. ASSUME idle' PROVE pipeline' = <<>> /\ stream' = "open" /\ shaken'
  <2>1. stream = "open" /\ (p \o more = <<>> \/ (idle /\ ~(more # <<>> /\ CanWrite(stream))))
    BY <1>2, <1>7 DEF IdleAfter
  <2>2. idle => shaken
    BY DEF WQInv, PipelineServed
  <2>3. pipeline' = <<>>
    <3>1. CASE p \o more = <<>>
      BY <1>2, <3>1
    <3>2. CASE idle /\ ~(more # <<>> /\ CanWrite(stream))
      <4>1. p = <<>> /\ more = <<>>
        BY <2>1, <2>2, <3>2 DEF CanWrite
      <4> QED
        BY <1>1, <1>2, <4>1, ConcatEmptySeq
    <3> QED
      BY <2>1, <3>1, <3>2
  <2> QED
    BY <1>4, <1>6, <2>1, <2>3
<1>8. CASE shaken
  <2>1. stream = "open" /\ CanWrite(stream) /\ toServer' = toServer \o more
    BY <1>2, <1>8 DEF WQInv, MatchInv, CanWrite
  <2>2. /\ toServer \o more \in Seq(Writes \cup {Hello})
        /\ Matches(toClient', toServer \o more, p \o more)
        /\ \A i \in 1..Len(toClient') : (p \o more)[i] = p[i]
    <3>1. Matches(toClient', toServer, p) /\ toClient' \in Seq(Responses)
      BY <1>8
    <3> QED
      BY <1>1, <1>3, <3>1, MatchExtends
  <2>3. Matches(toClient', toServer', pipeline')
    BY <1>2, <2>1, <2>2
  <2>4. AnswersTo(toClient', pipeline')
    BY <1>2, <1>8, <2>2 DEF AnswersTo
  <2>5. MatchInv'
    BY <1>4, <1>8, <2>1, <2>3, <2>4 DEF MatchInv, Matches, AnswersTo
  <2> QED
    BY <1>5, <1>7, <2>1, <2>2, <2>5
<1>9. CASE ~shaken
  <2>1. ~shaken' /\ toClient' = toClient
    BY <1>9
  <2>2. /\ stream = "open" => toServer' = toServer
        /\ stream # "open" => toServer' = <<>>
    BY <1>2, <1>9 DEF CanWrite
  <2>3. toServer' \in Seq(Writes \cup {Hello})
    BY <1>3, <2>2, EmptySeq
  <2>4. MatchInv'
    BY <1>4, <1>9, <2>1, <2>2 DEF WQInv, MatchInv
  <2> QED
    BY <1>5, <1>7, <2>3, <2>4
<1> QED
  BY <1>3, <1>8, <1>9

-----------------------------------------------------------------------------
(* The app's side keeps the invariant.                                       *)

LEMMA WriteKeeps ==
    ASSUME WQInv, NEW w \in Writes, Write(w)
    PROVE  WQInv'
<1> DEFINE q == Append(queue[user], w)
<1>1. /\ w \notin written /\ written' = written \cup {w}
      /\ queue' = [queue EXCEPT ![user] = Append(@, w)]
      /\ callbacks' = [callbacks EXCEPT ![user] = @ \cup {w}]
      /\ FillWritePipeline(queue'[user], pipeline, stream)
      /\ UNCHANGED <<user, shaken, toClient, late, committed, told, breaks>>
  BY DEF Write
<1>2. /\ WQTypeOK /\ QueueInv /\ PipelineServed /\ MatchInv /\ AnswerInv
      /\ LateInv /\ CommittedInv /\ NothingLost /\ ToldTruth
  BY DEF WQInv
<1>3. user \in Users /\ queue[user] \in Seq(Writes) /\ stream \in Streams
  BY <1>2 DEF WQTypeOK
<1>4. /\ queue' \in [Users -> Seq(Writes)]
      /\ queue'[user] = q
      /\ \A u \in Users : queue'[u] # queue[u] => u = user
      /\ \A u \in Users : Distinct(queue'[u])
      /\ Queued' = Queued \cup {w}
  BY <1>1, <1>2, QueueGrows
<1>5. /\ pipeline \in Seq(Writes) /\ Len(pipeline) <= MaxPending
      /\ Prefix(pipeline, queue[user])
  BY <1>2, PipelinePrefix DEF WQTypeOK
<1>6. /\ q \in Seq(Writes) /\ Distinct(q) /\ q # <<>>
      /\ Len(q) = Len(queue[user]) + 1
      /\ \A i \in 1..Len(queue[user]) : q[i] = queue[user][i]
  <2>1. /\ q \in Seq(Writes) /\ Len(q) = Len(queue[user]) + 1
        /\ \A i \in 1..Len(queue[user]) : q[i] = queue[user][i]
        /\ Len(queue[user]) \in Nat
    BY <1>3, AppendProperties
  <2>2. Distinct(q)
    BY <1>3, <1>4
  <2>3. q # <<>>
    BY <2>1, EmptySeq
  <2> QED
    BY <2>1, <2>2, <2>3
<1>7. Prefix(pipeline, q)
  <2>1. Len(pipeline) \in Nat /\ Len(queue[user]) \in Nat
    BY <1>3, <1>5
  <2> QED
    BY <1>5, <1>6, <2>1 DEF Prefix
<1> HIDE DEF q
<1>8. FillWritePipeline(q, pipeline, stream)
  BY <1>1, <1>4
<1>9. /\ pipeline' = First(q, MaxPending)
      /\ pipeline' \in Seq(Writes) /\ Len(pipeline') <= MaxPending
      /\ stream' \in Streams /\ (pipeline' # <<>> => IsStarted(stream'))
  BY <1>3, <1>5, <1>6, <1>7, <1>8, Fill
<1>10. /\ toServer' \in Seq(Writes \cup {Hello}) /\ idle' \in BOOLEAN
       /\ idle' => pipeline' = <<>> /\ stream' = "open" /\ shaken'
       /\ MatchInv'
  <2>1. idle => pipeline = <<>>
    BY <1>2 DEF PipelineServed
  <2>2. toClient' \in Seq(Responses) /\ toClient' = toClient
    BY <1>1, <1>2 DEF WQTypeOK, Responses
  <2>3. shaken => Matches(toClient', toServer, pipeline) /\ AnswersTo(toClient', pipeline)
    BY <1>2, <2>2 DEF MatchInv, Matches, AnswersTo
  <2> QED
    BY <1>1, <1>5, <1>6, <1>7, <1>8, <2>1, <2>2, <2>3, StreamGoesOn
<1>11. WQTypeOK'
  BY <1>1, <1>2, <1>4, <1>9, <1>10 DEF WQTypeOK
<1>12. QueueInv'
  BY <1>1, <1>2, <1>4 DEF QueueInv, Distinct
<1>13. PipelineServed'
  BY <1>1, <1>4, <1>9, <1>10 DEF PipelineServed
<1>14. AnswerInv'
  BY <1>1, <1>2 DEF AnswerInv
<1>15. LateInv'
  <2>1. \A u \in Users : queue'[u] = queue[u] \/ queue'[u] = Append(queue[u], w)
    BY <1>4 DEF q
  <2> QED
    BY <1>1, <2>1, LateKept
<1>16. CommittedInv' /\ NothingLost' /\ ToldTruth'
  BY <1>1, <1>2, <1>4 DEF CommittedInv, NothingLost, ToldTruth
<1> QED
  BY <1>10, <1>11, <1>12, <1>13, <1>14, <1>15, <1>16 DEF WQInv

LEMMA RestartKeeps ==
    ASSUME WQInv, NEW u \in Users, RestartNetwork(u), user' = u,
           callbacks' \in [Users -> SUBSET Writes]
    PROVE  WQInv'
<1>1. /\ breaks < MaxBreaks /\ breaks' = breaks + 1
      /\ FillWritePipeline(queue[u], <<>>, "initial")
      /\ TornDown
      /\ UNCHANGED <<queue, written, committed, told>>
  BY DEF RestartNetwork, history
<1>2. /\ WQTypeOK /\ QueueInv /\ CommittedInv /\ NothingLost /\ ToldTruth
  BY DEF WQInv
<1>3. queue[u] \in Seq(Writes) /\ Distinct(queue[u])
  BY <1>2, QueueTyped
<1>4. /\ pipeline' = First(queue[u], MaxPending)
      /\ pipeline' \in Seq(Writes) /\ Len(pipeline') <= MaxPending
      /\ stream' \in Streams /\ stream' # "open"
      /\ pipeline' # <<>> => IsStarted(stream')
      /\ toServer' = <<>> /\ idle' = FALSE
  <2>1. <<>> \in Seq(Writes) /\ Len(<<>>) = 0 /\ "initial" \in Streams
    BY EmptySeq DEF Streams
  <2>2. Prefix(<<>>, queue[u]) /\ Len(<<>>) <= MaxPending
    BY <1>3, <2>1, WriteQueueAssumption DEF Prefix, WriteQueueAssumption
  <2> QED
    BY <1>1, <1>3, <2>1, <2>2, Fill
<1>5. shaken' = FALSE /\ toClient' = <<>>
  BY <1>1 DEF TornDown
<1>6. MatchInv' /\ AnswerInv'
  BY <1>4, <1>5, NothingCarried
<1>7. late' \in Seq(Writes) /\ LateInv'
  BY <1>1, TornLate
<1>8. breaks' \in 0..MaxBreaks
  BY <1>1, <1>2, WriteQueueAssumption DEF WQTypeOK, WriteQueueAssumption
<1>9. WQTypeOK'
  BY <1>1, <1>2, <1>4, <1>5, <1>7, <1>8, EmptySeq DEF WQTypeOK
<1>10. QueueInv' /\ Queued' = Queued
  BY <1>1, <1>2, QueueKept
<1>11. PipelineServed'
  BY <1>1, <1>4 DEF PipelineServed
<1>12. CommittedInv' /\ NothingLost' /\ ToldTruth'
  BY <1>1, <1>2, <1>10 DEF CommittedInv, NothingLost, ToldTruth
<1> QED
  BY <1>6, <1>7, <1>9, <1>10, <1>11, <1>12 DEF WQInv

LEMMA NetworkAvailableKeeps == WQInv /\ NetworkAvailable => WQInv'
BY RestartKeeps DEF NetworkAvailable, WQInv, WQTypeOK

LEMMA HandleCredentialChangeKeeps ==
    ASSUME WQInv, NEW u \in Users, HandleCredentialChange(u)
    PROVE  WQInv'
BY RestartKeeps DEF HandleCredentialChange, WQInv, WQTypeOK

LEMMA RelaunchKeeps == WQInv /\ Relaunch => WQInv'
BY RestartKeeps DEF Relaunch, WQInv, WQTypeOK

-----------------------------------------------------------------------------
(* The stream keeps the invariant.                                           *)

LEMMA OnStreamStartKeeps == WQInv /\ OnStreamStart => WQInv'
<1> SUFFICES ASSUME WQInv, OnStreamStart PROVE WQInv'
  OBVIOUS
<1>1. /\ stream = "starting" /\ stream' = "open"
      /\ toServer' = <<Hello>> /\ idle' = FALSE
      /\ UNCHANGED <<user, queue, callbacks, pipeline, shaken, toClient, late,
                     written, committed, told, breaks>>
  BY DEF OnStreamStart, disk, history
<1>2. /\ WQTypeOK /\ QueueInv /\ PipelineServed /\ MatchInv /\ AnswerInv
      /\ LateInv /\ CommittedInv /\ NothingLost /\ ToldTruth
  BY DEF WQInv
<1>3. ~shaken /\ toClient = <<>>
  BY <1>1, <1>2 DEF MatchInv
<1>4. <<Hello>> \in Seq(Writes \cup {Hello})
  OBVIOUS
<1>5. WQTypeOK'
  BY <1>1, <1>2, <1>4 DEF WQTypeOK, Streams
<1>6. PipelineServed'
  BY <1>1, <1>2 DEF PipelineServed, IsStarted
<1>7. MatchInv'
  BY <1>1, <1>3 DEF MatchInv
<1>8. QueueInv' /\ Queued' = Queued
  BY <1>1, <1>2, QueueKept
<1>9. AnswerInv' /\ LateInv' /\ CommittedInv' /\ NothingLost' /\ ToldTruth'
  BY <1>1, <1>2, <1>8 DEF AnswerInv, LateInv, Elements, CommittedInv,
                          NothingLost, ToldTruth
<1> QED
  BY <1>5, <1>6, <1>7, <1>8, <1>9 DEF WQInv

LEMMA BackoffElapsedKeeps == WQInv /\ BackoffElapsed => WQInv'
<1> SUFFICES ASSUME WQInv, BackoffElapsed PROVE WQInv'
  OBVIOUS
<1>1. /\ stream = "backoff" /\ stream' = "starting"
      /\ UNCHANGED <<user, queue, callbacks, pipeline, shaken, idle, toServer,
                     toClient, late, written, committed, told, breaks>>
  BY DEF BackoffElapsed, Start, disk, net, history
<1>2. /\ WQTypeOK /\ QueueInv /\ PipelineServed /\ MatchInv /\ AnswerInv
      /\ LateInv /\ CommittedInv /\ NothingLost /\ ToldTruth
  BY DEF WQInv
<1>3. WQTypeOK'
  BY <1>1, <1>2 DEF WQTypeOK, Streams
<1>4. PipelineServed'
  BY <1>1, <1>2 DEF PipelineServed, IsStarted
<1>5. MatchInv'
  BY <1>1, <1>2 DEF MatchInv
<1>6. QueueInv' /\ Queued' = Queued
  BY <1>1, <1>2, QueueKept
<1>7. AnswerInv' /\ LateInv' /\ CommittedInv' /\ NothingLost' /\ ToldTruth'
  BY <1>1, <1>2, <1>6 DEF AnswerInv, LateInv, Elements, CommittedInv,
                          NothingLost, ToldTruth
<1> QED
  BY <1>3, <1>4, <1>5, <1>6, <1>7 DEF WQInv

LEMMA OnWriteStreamHandshakeCompleteKeeps ==
    WQInv /\ OnWriteStreamHandshakeComplete => WQInv'
<1> SUFFICES ASSUME WQInv, OnWriteStreamHandshakeComplete PROVE WQInv'
  OBVIOUS
<1>1. /\ stream = "open" /\ ~shaken /\ toClient # <<>> /\ shaken' = TRUE
      /\ toServer' = toServer \o pipeline
      /\ toClient' = Tail(toClient)
      /\ idle' = (idle /\ pipeline = <<>>)
      /\ UNCHANGED <<user, queue, callbacks, pipeline, stream, late, written,
                     committed, told, breaks>>
  BY DEF OnWriteStreamHandshakeComplete, disk, history
<1>2. /\ WQTypeOK /\ QueueInv /\ PipelineServed /\ MatchInv /\ AnswerInv
      /\ LateInv /\ CommittedInv /\ NothingLost /\ ToldTruth
  BY DEF WQInv
<1>3. toServer = <<>> /\ Len(toClient) = 1
  BY <1>1, <1>2 DEF MatchInv
<1>4. /\ Tail(toClient) \in Seq(Responses) /\ Len(Tail(toClient)) = 0
      /\ Tail(toClient) = <<>>
  BY <1>1, <1>2, <1>3, HeadTailProperties, EmptySeq DEF WQTypeOK, Responses
<1>5. pipeline \in Seq(Writes) /\ pipeline \in Seq(Writes \cup {Hello})
  BY <1>2, SeqMonotonic DEF WQTypeOK
<1>6. toServer' = pipeline /\ Len(pipeline) \in Nat
  BY <1>1, <1>3, <1>5, ConcatEmptySeq
<1>7. WQTypeOK'
  BY <1>1, <1>2, <1>4, <1>5, <1>6 DEF WQTypeOK, Responses
<1>8. PipelineServed'
  BY <1>1, <1>2 DEF PipelineServed
<1>9. MatchInv' /\ AnswerInv'
  BY <1>1, <1>4, <1>6 DEF MatchInv, AnswerInv
<1>10. QueueInv' /\ Queued' = Queued
  BY <1>1, <1>2, QueueKept
<1>11. LateInv' /\ CommittedInv' /\ NothingLost' /\ ToldTruth'
  BY <1>1, <1>2, <1>10 DEF LateInv, Elements, CommittedInv, NothingLost, ToldTruth
<1> QED
  BY <1>7, <1>8, <1>9, <1>10, <1>11 DEF WQInv

LEMMA OnWriteStreamCloseKeeps == WQInv /\ OnWriteStreamClose => WQInv'
<1> SUFFICES ASSUME WQInv, OnWriteStreamClose PROVE WQInv'
  OBVIOUS
<1>1. /\ breaks < MaxBreaks /\ breaks' = breaks + 1
      /\ stream' = StartIfNeeded("error", pipeline)
      /\ toServer' = <<>> /\ idle' = FALSE
      /\ TornDown
      /\ UNCHANGED <<user, queue, callbacks, pipeline, written, committed, told>>
  BY DEF OnWriteStreamClose, disk, history
<1>2. /\ WQTypeOK /\ QueueInv /\ PipelineServed
      /\ CommittedInv /\ NothingLost /\ ToldTruth
  BY DEF WQInv
<1>3. /\ stream' \in Streams /\ stream' # "open"
      /\ pipeline # <<>> => IsStarted(stream')
  BY <1>1 DEF StartIfNeeded, IsStarted, Start, Streams
<1>4. shaken' = FALSE /\ toClient' = <<>>
  BY <1>1 DEF TornDown
<1>5. MatchInv' /\ AnswerInv'
  BY <1>1, <1>3, <1>4, NothingCarried
<1>6. late' \in Seq(Writes) /\ LateInv'
  BY <1>1, TornLate
<1>7. breaks' \in 0..MaxBreaks
  BY <1>1, <1>2, WriteQueueAssumption DEF WQTypeOK, WriteQueueAssumption
<1>8. WQTypeOK'
  BY <1>1, <1>2, <1>3, <1>4, <1>6, <1>7, EmptySeq DEF WQTypeOK
<1>9. QueueInv' /\ Queued' = Queued
  BY <1>1, <1>2, QueueKept
<1>10. PipelineServed'
  BY <1>1, <1>2, <1>3 DEF PipelineServed
<1>11. CommittedInv' /\ NothingLost' /\ ToldTruth'
  BY <1>1, <1>2, <1>9 DEF CommittedInv, NothingLost, ToldTruth
<1> QED
  BY <1>5, <1>6, <1>8, <1>9, <1>10, <1>11 DEF WQInv

LEMMA IdleTimeoutKeeps == WQInv /\ IdleTimeout => WQInv'
<1> SUFFICES ASSUME WQInv, IdleTimeout PROVE WQInv'
  OBVIOUS
<1>1. /\ idle /\ stream' = "initial" /\ toServer' = <<>> /\ idle' = FALSE
      /\ TornDown
      /\ UNCHANGED <<user, queue, callbacks, pipeline, written, committed, told,
                     breaks>>
  BY DEF IdleTimeout, disk, history
<1>2. /\ WQTypeOK /\ QueueInv /\ PipelineServed
      /\ CommittedInv /\ NothingLost /\ ToldTruth
  BY DEF WQInv
<1>3. pipeline = <<>>
  BY <1>1, <1>2 DEF PipelineServed
<1>4. shaken' = FALSE /\ toClient' = <<>>
  BY <1>1 DEF TornDown
<1>5. MatchInv' /\ AnswerInv'
  BY <1>1, <1>4, NothingCarried
<1>6. late' \in Seq(Writes) /\ LateInv'
  BY <1>1, TornLate
<1>7. WQTypeOK'
  BY <1>1, <1>2, <1>4, <1>6, EmptySeq DEF WQTypeOK, Streams
<1>8. QueueInv' /\ Queued' = Queued
  BY <1>1, <1>2, QueueKept
<1>9. PipelineServed'
  BY <1>1, <1>2, <1>3 DEF PipelineServed
<1>10. CommittedInv' /\ NothingLost' /\ ToldTruth'
  BY <1>1, <1>2, <1>8 DEF CommittedInv, NothingLost, ToldTruth
<1> QED
  BY <1>5, <1>6, <1>7, <1>8, <1>9, <1>10 DEF WQInv

-----------------------------------------------------------------------------
(* The server and the network keep the invariant.                            *)

LEMMA Unsettled ==
    ASSUME WQInv,
           UNCHANGED <<user, queue, pipeline, stream, shaken, idle, written, told>>,
           committed \subseteq committed'
    PROVE  QueueInv' /\ PipelineServed' /\ NothingLost' /\ ToldTruth'
<1>1. QueueInv /\ PipelineServed /\ NothingLost /\ ToldTruth
  BY DEF WQInv
<1>2. QueueInv' /\ Queued' = Queued
  BY <1>1, QueueKept
<1>3. PipelineServed'
  BY <1>1 DEF PipelineServed
<1> QED
  BY <1>1, <1>2, <1>3 DEF NothingLost, ToldTruth

LEMMA ServeHandshakeKeeps == WQInv /\ ServeHandshake => WQInv'
<1> SUFFICES ASSUME WQInv, ServeHandshake PROVE WQInv'
  OBVIOUS
<1>1. /\ toServer # <<>> /\ Head(toServer) = Hello
      /\ toClient' = Append(toClient, [kind |-> "ok", of |-> Hello])
      /\ toServer' = Tail(toServer)
      /\ UNCHANGED <<user, queue, callbacks, pipeline, stream, shaken, idle,
                     written, told, breaks, late, committed>>
  BY DEF ServeHandshake, Respond, Client, disk
<1>2. WQTypeOK /\ MatchInv /\ CommittedInv /\ LateInv
  BY DEF WQInv
<1>3. ~shaken
  <2> SUFFICES ASSUME shaken PROVE FALSE
    OBVIOUS
  <2>1. toServer \in Seq(Writes)
    BY StreamCarries
  <2>2. Head(toServer) \in Writes
    BY <1>1, <2>1
  <2> QED
    BY <1>1, <2>2, WriteQueueAssumption DEF WriteQueueAssumption
<1>4. stream = "open" /\ toClient = <<>> /\ toServer = <<Hello>>
  BY <1>1, <1>2, <1>3 DEF MatchInv
<1>5. /\ toServer' = <<>>
      /\ toClient' = <<[kind |-> "ok", of |-> Hello]>>
  BY <1>1, <1>4
<1>6. toClient' \in Seq(Responses)
  BY <1>5 DEF Responses
<1>7. WQTypeOK'
  BY <1>1, <1>2, <1>5, <1>6, EmptySeq DEF WQTypeOK, Responses
<1>8. MatchInv' /\ AnswerInv'
  BY <1>1, <1>3, <1>4, <1>5 DEF MatchInv, AnswerInv
<1>9. LateInv' /\ CommittedInv'
  BY <1>1, <1>2 DEF LateInv, Elements, CommittedInv
<1>10. QueueInv' /\ PipelineServed' /\ NothingLost' /\ ToldTruth'
  BY <1>1, Unsettled
<1> QED
  BY <1>7, <1>8, <1>9, <1>10 DEF WQInv

\* A request of a write is answered only after the handshake, and in order.
LEMMA TakenInOrder ==
    ASSUME WQInv, toServer # <<>>, NEW w \in Writes, Head(toServer) = w
    PROVE  /\ shaken /\ stream = "open"
           /\ 1 \in 1..Len(toServer) /\ toServer[1] = w
           /\ w \in Queued
<1>1. WQTypeOK /\ MatchInv
  BY DEF WQInv
<1>2. toServer \in Seq(Writes \cup {Hello})
  BY <1>1 DEF WQTypeOK
<1>3. 1 \in 1..Len(toServer) /\ toServer[1] = w
  BY <1>2, HeadTailProperties
<1>4. shaken /\ stream = "open"
  BY <1>1, WriteQueueAssumption DEF MatchInv, WriteQueueAssumption
<1>5. user \in Users /\ w = queue[user][Len(toClient) + 1]
      /\ Len(toClient) + 1 \in 1..Len(queue[user])
  BY <1>1, <1>3, <1>4, StreamCarries DEF WQTypeOK
<1> QED
  BY <1>3, <1>4, <1>5, QueuedWhere

LEMMA Responding ==
    ASSUME WQInv, ~Ended, toServer # <<>>, NEW w \in Writes, Head(toServer) = w,
           NEW k \in {"ok", "refused"}, Respond(k, w), toServer' = Tail(toServer),
           UNCHANGED <<pipeline, stream, shaken>>,
           committed \subseteq committed',
           k = "ok" => w \in committed', k = "refused" => w \in Refused
    PROVE  /\ toClient' \in Seq(Responses)
           /\ toServer' \in Seq(Writes \cup {Hello})
           /\ MatchInv' /\ AnswerInv'
<1> DEFINE r == [kind |-> k, of |-> w]
<1>1. WQTypeOK /\ MatchInv /\ AnswerInv
  BY DEF WQInv
<1>2. shaken /\ stream = "open" /\ toServer[1] = w
  BY TakenInOrder
<1>3. /\ r \in Responses /\ r.kind = k /\ r.of = w
      /\ toClient \in Seq(Responses) /\ Len(toClient) \in Nat
      /\ toServer \in Seq(Writes \cup {Hello}) /\ Len(toServer) \in Nat
  BY <1>1 DEF WQTypeOK, Responses
<1>4. toClient' = Append(toClient, r)
  BY DEF Respond
<1> HIDE DEF r
<1>5. /\ toClient' \in Seq(Responses) /\ Len(toClient') = Len(toClient) + 1
      /\ \A i \in 1..Len(toClient) : toClient'[i] = toClient[i]
      /\ toClient'[Len(toClient) + 1] = r
  BY <1>3, <1>4, AppendProperties
<1>6. /\ toServer' \in Seq(Writes \cup {Hello})
      /\ Len(toServer') = Len(toServer) - 1
      /\ \A i \in 1..Len(toServer') : toServer'[i] = toServer[i + 1]
  BY <1>3, HeadTailProperties
<1>7. /\ Len(toClient) + Len(toServer) = Len(pipeline)
      /\ AnswersTo(toClient, pipeline)
      /\ Matches(toClient, toServer, pipeline)
  BY <1>1, <1>2 DEF MatchInv, AnswersTo, Matches
<1>8. Len(toServer) # 0
  BY <1>3, EmptySeq
<1>9. Len(toClient') + Len(toServer') = Len(pipeline)
  BY <1>3, <1>5, <1>6, <1>7, <1>8
<1>10. ASSUME NEW i \in 1..Len(toClient') PROVE toClient'[i].of = pipeline[i]
  <2>1. CASE i \in 1..Len(toClient)
    BY <1>5, <1>7, <2>1 DEF AnswersTo
  <2>2. CASE i = Len(toClient) + 1
    <3>1. 1 \in 1..Len(toServer)
      BY <1>3, <1>8
    <3> QED
      BY <1>2, <1>3, <1>5, <1>7, <2>2, <3>1 DEF Matches
  <2> QED
    BY <1>3, <1>5, <2>1, <2>2
<1>11. ASSUME NEW i \in 1..Len(toServer')
       PROVE  toServer'[i] = pipeline[Len(toClient') + i]
  <2>1. i + 1 \in 1..Len(toServer) /\ toServer'[i] = toServer[i + 1]
    BY <1>3, <1>6
  <2>2. Len(toClient') + i = Len(toClient) + (i + 1)
    BY <1>3, <1>5
  <2> QED
    BY <1>7, <2>1, <2>2 DEF Matches
<1>12. MatchInv'
  BY <1>2, <1>9, <1>10, <1>11 DEF MatchInv
<1>13. ASSUME NEW i \in 1..Len(toClient')
       PROVE  /\ toClient'[i].kind = "ok" =>
                    toClient'[i].of = Hello \/ toClient'[i].of \in committed'
              /\ toClient'[i].kind = "refused" =>
                    toClient'[i].of \in Refused /\ i = Len(toClient')
  <2>1. CASE i \in 1..Len(toClient)
    <3>1. toClient[i].kind # "refused"
      BY <1>1, <1>3, <2>1, EmptySeq DEF AnswerInv, Ended
    <3> QED
      BY <1>1, <1>5, <2>1, <3>1 DEF AnswerInv
  <2>2. CASE i = Len(toClient) + 1
    BY <1>3, <1>5, <2>2
  <2> QED
    BY <1>3, <1>5, <2>1, <2>2
<1>14. AnswerInv'
  BY <1>13 DEF AnswerInv
<1> QED
  BY <1>5, <1>6, <1>12, <1>14

LEMMA CommitKeeps ==
    ASSUME WQInv, NEW w \in Writes, Commit(w)
    PROVE  WQInv'
<1>1. /\ ~Ended /\ toServer # <<>> /\ Head(toServer) = w /\ w \notin Refused
      /\ committed' = committed \cup {w}
      /\ Respond("ok", w) /\ toServer' = Tail(toServer)
      /\ UNCHANGED <<user, queue, callbacks, pipeline, stream, shaken, idle,
                     written, told, breaks, late>>
  BY DEF Commit, Client, disk
<1>2. WQTypeOK /\ QueueInv /\ CommittedInv
  BY DEF WQInv
<1>3. /\ toClient' \in Seq(Responses)
      /\ toServer' \in Seq(Writes \cup {Hello})
      /\ MatchInv' /\ AnswerInv'
  BY <1>1, Responding
<1>4. WQTypeOK'
  BY <1>1, <1>2, <1>3 DEF WQTypeOK, Responses
<1>5. CommittedInv'
  BY <1>1, <1>2, TakenInOrder DEF CommittedInv, QueueInv
<1>6. LateInv'
  BY <1>1, LateKept
<1>7. QueueInv' /\ PipelineServed' /\ NothingLost' /\ ToldTruth'
  BY <1>1, Unsettled
<1> QED
  BY <1>3, <1>4, <1>5, <1>6, <1>7 DEF WQInv

LEMMA RefuseKeeps ==
    ASSUME WQInv, NEW w \in Writes, Refuse(w)
    PROVE  WQInv'
<1>1. /\ ~Ended /\ toServer # <<>> /\ Head(toServer) = w /\ w \in Refused
      /\ Respond("refused", w) /\ toServer' = Tail(toServer)
      /\ UNCHANGED <<user, queue, callbacks, pipeline, stream, shaken, idle,
                     written, told, breaks, late, committed>>
  BY DEF Refuse, Client, disk
<1>2. WQTypeOK /\ CommittedInv
  BY DEF WQInv
<1>3. /\ toClient' \in Seq(Responses)
      /\ toServer' \in Seq(Writes \cup {Hello})
      /\ MatchInv' /\ AnswerInv'
  BY <1>1, Responding
<1>4. WQTypeOK'
  BY <1>1, <1>2, <1>3 DEF WQTypeOK, Responses
<1>5. CommittedInv'
  BY <1>1, <1>2 DEF CommittedInv
<1>6. LateInv'
  BY <1>1, LateKept
<1>7. QueueInv' /\ PipelineServed' /\ NothingLost' /\ ToldTruth'
  BY <1>1, Unsettled
<1> QED
  BY <1>3, <1>4, <1>5, <1>6, <1>7 DEF WQInv

LEMMA LateCommitKeeps ==
    ASSUME WQInv, NEW w \in Writes, LateCommit(w)
    PROVE  WQInv'
<1>1. /\ late # <<>> /\ Head(late) = w /\ w \notin Refused
      /\ committed' = committed \cup {w} /\ late' = Tail(late)
      /\ UNCHANGED <<user, queue, callbacks, pipeline, stream, shaken, idle,
                     written, told, breaks, toServer, toClient>>
  BY DEF LateCommit, Client, disk
<1>2. WQTypeOK /\ MatchInv /\ AnswerInv /\ LateInv /\ CommittedInv
  BY DEF WQInv
<1>3. /\ late \in Seq(Writes) /\ Len(late) \in Nat \ {0}
      /\ late' \in Seq(Writes) /\ Len(late') = Len(late) - 1
      /\ \A i \in 1..Len(late') : late'[i] = late[i + 1]
      /\ late[1] = w
  BY <1>1, <1>2, HeadTailProperties, EmptySeq DEF WQTypeOK
<1>4. WQTypeOK'
  BY <1>1, <1>2, <1>3 DEF WQTypeOK
<1>5. MatchInv' /\ AnswerInv'
  BY <1>1, <1>2 DEF MatchInv, AnswerInv
<1>6. w \in written
  BY <1>2, <1>3 DEF LateInv, Elements
<1>7. CommittedInv'
  BY <1>1, <1>2, <1>6 DEF CommittedInv
<1>8. Elements(late') \subseteq written'
  <2> SUFFICES ASSUME NEW i \in 1..Len(late') PROVE late'[i] \in written
    BY <1>1 DEF Elements
  <2>1. i + 1 \in 1..Len(late) /\ late'[i] = late[i + 1]
    BY <1>3
  <2> QED
    BY <1>2, <2>1 DEF LateInv, Elements
<1>9. ASSUME NEW k \in 1..Len(late'), late'[k] \notin committed' \cup Refused
      PROVE  \E u \in Users : \E i \in 1..Len(queue'[u]) :
                /\ queue'[u][i] = late'[k]
                /\ \A j \in 1..(i - 1) :
                    \/ queue'[u][j] \in committed'
                    \/ \E m \in 1..(k - 1) : late'[m] = queue'[u][j]
  <2>1. k + 1 \in 1..Len(late) /\ late'[k] = late[k + 1] /\ (k + 1) - 1 = k
    BY <1>3
  <2>2. PICK u \in Users : \E i \in 1..Len(queue[u]) :
            queue[u][i] = late[k + 1] /\ Follows(u, i, late, k + 1)
    BY <1>1, <1>2, <1>9, <2>1 DEF LateInv, Follows
  <2>3. PICK i \in 1..Len(queue[u]) :
            queue[u][i] = late[k + 1] /\ Follows(u, i, late, k + 1)
    BY <2>2
  <2>4. ASSUME NEW j \in 1..(i - 1)
        PROVE  \/ queue[u][j] \in committed'
               \/ \E m \in 1..(k - 1) : late'[m] = queue[u][j]
    <3>1. CASE queue[u][j] \in committed
      BY <1>1, <3>1
    <3>2. CASE queue[u][j] \notin committed
      <4>1. PICK m \in 1..k : late[m] = queue[u][j]
        BY <2>1, <2>3, <3>2 DEF Follows
      <4>2. CASE m = 1
        BY <1>1, <1>3, <4>1, <4>2
      <4>3. CASE m # 1
        <5>1. PICK n \in 1..(k - 1) : m = n + 1
          <6>1. m - 1 \in 1..(k - 1) /\ m = (m - 1) + 1
            BY <4>3
          <6> QED
            BY <6>1
        <5>2. n \in 1..Len(late')
          BY <1>3
        <5>3. late'[n] = queue[u][j]
          BY <1>3, <4>1, <5>1, <5>2
        <5> QED
          BY <5>3
      <4> QED
        BY <4>2, <4>3
    <3> QED
      BY <3>1, <3>2
  <2>5. /\ queue'[u] = queue[u] /\ i \in 1..Len(queue'[u])
        /\ queue'[u][i] = late'[k]
    BY <1>1, <2>1, <2>3
  <2> QED
    BY <2>4, <2>5
<1>10. LateInv'
  BY <1>8, <1>9 DEF LateInv
<1>11. QueueInv' /\ PipelineServed' /\ NothingLost' /\ ToldTruth'
  BY <1>1, Unsettled
<1> QED
  BY <1>4, <1>5, <1>7, <1>10, <1>11 DEF WQInv

LEMMA LateLostKeeps == WQInv /\ LateLost => WQInv'
<1> SUFFICES ASSUME WQInv, LateLost PROVE WQInv'
  OBVIOUS
<1>1. /\ late' = <<>>
      /\ UNCHANGED <<user, queue, callbacks, pipeline, stream, shaken, idle,
                     written, told, breaks, toServer, toClient, committed>>
  BY DEF LateLost, Client, disk
<1>2. WQTypeOK /\ MatchInv /\ AnswerInv /\ CommittedInv
  BY DEF WQInv
<1>3. WQTypeOK'
  BY <1>1, <1>2, EmptySeq DEF WQTypeOK
<1>4. MatchInv' /\ AnswerInv' /\ CommittedInv'
  BY <1>1, <1>2 DEF MatchInv, AnswerInv, CommittedInv
<1>5. LateInv'
  BY <1>1 DEF LateInv, Elements
<1>6. QueueInv' /\ PipelineServed' /\ NothingLost' /\ ToldTruth'
  BY <1>1, Unsettled
<1> QED
  BY <1>3, <1>4, <1>5, <1>6 DEF WQInv

-----------------------------------------------------------------------------
(* Settling the write at the front keeps the invariant.                      *)

LEMMA SettledFront ==
    ASSUME WQInv, pipeline # <<>>, NEW status \in {"ok", "refused"},
           NotifyUser(Head(pipeline), status), RemoveMutationBatch(Head(pipeline)),
           status = "ok" => Head(pipeline) \in committed,
           status = "refused" => Head(pipeline) \in Refused,
           UNCHANGED <<user, written, committed>>
    PROVE  /\ Head(pipeline) = Head(queue[user]) /\ queue[user] # <<>>
           /\ queue' \in [Users -> Seq(Writes)]
           /\ queue'[user] = Tail(queue[user])
           /\ \A u \in Users : queue'[u] # queue[u] => u = user
           /\ callbacks' \in [Users -> SUBSET Writes]
           /\ told' \in [Writes -> {"nothing", "ok", "refused"}]
           /\ Distinct(queue'[user]) /\ Prefix(Tail(pipeline), queue'[user])
           /\ QueueInv' /\ NothingLost' /\ ToldTruth'
<1>1. WQTypeOK /\ QueueInv /\ PipelineServed /\ NothingLost /\ ToldTruth
  BY DEF WQInv
<1>2. /\ user \in Users /\ callbacks \in [Users -> SUBSET Writes]
      /\ told \in [Writes -> {"nothing", "ok", "refused"}]
  BY <1>1 DEF WQTypeOK
<1>3. /\ queue[user] # <<>> /\ Head(pipeline) = Head(queue[user])
      /\ Head(pipeline) \in Writes
      /\ Prefix(Tail(pipeline), Tail(queue[user]))
  BY <1>1, PipelinePrefix
<1>4. /\ queue' \in [Users -> Seq(Writes)]
      /\ queue'[user] = Tail(queue[user])
      /\ \A u \in Users : queue'[u] # queue[u] => u = user
      /\ \A u \in Users : Distinct(queue'[u])
      /\ Queued' \subseteq Queued
      /\ Queued \subseteq Queued' \cup {Head(queue[user])}
  BY <1>1, <1>3, QueueShrinks
<1>5. callbacks' \in [Users -> SUBSET Writes]
  BY <1>2 DEF NotifyUser
<1>6. told' = told \/ told' = [told EXCEPT ![Head(pipeline)] = status]
  BY DEF NotifyUser
<1>7. told' \in [Writes -> {"nothing", "ok", "refused"}]
  BY <1>2, <1>6
<1>8. QueueInv'
  BY <1>1, <1>4 DEF QueueInv, Distinct
<1>9. NothingLost'
  BY <1>1, <1>3, <1>4 DEF NothingLost
<1>10. ToldTruth'
  BY <1>1, <1>2, <1>3, <1>6 DEF ToldTruth
<1> QED
  BY <1>2, <1>3, <1>4, <1>5, <1>7, <1>8, <1>9, <1>10

\* The first response answers the front of the pipeline.
LEMMA FirstAnswer ==
    ASSUME WQInv, shaken, toClient # <<>>, pipeline # <<>>
    PROVE  /\ Head(toClient) = toClient[1] /\ 1 \in 1..Len(toClient)
           /\ Head(pipeline) \in Writes
           /\ toClient[1].kind = "ok" => Head(pipeline) \in committed
           /\ toClient[1].kind = "refused" => Head(pipeline) \in Refused /\ Ended
<1>1. WQTypeOK /\ MatchInv /\ AnswerInv
  BY DEF WQInv
<1>2. /\ toClient \in Seq(Responses) /\ pipeline \in Seq(Writes)
      /\ Len(toClient) \in Nat \ {0}
  BY <1>1, EmptySeq DEF WQTypeOK, Responses
<1>3. Head(toClient) = toClient[1] /\ 1 \in 1..Len(toClient)
  BY <1>2, HeadTailProperties
<1>4. Head(pipeline) = pipeline[1] /\ Head(pipeline) \in Writes
  BY <1>2, HeadTailProperties
<1>5. toClient[1].of = Head(pipeline)
  BY <1>1, <1>3, <1>4 DEF MatchInv
<1>6. Head(pipeline) # Hello
  BY <1>4, WriteQueueAssumption DEF WriteQueueAssumption
<1>7. toClient[1].kind = "refused" => Ended
  BY <1>1, <1>3 DEF AnswerInv, Ended
<1> QED
  BY <1>1, <1>3, <1>4, <1>5, <1>6, <1>7 DEF AnswerInv

LEMMA OnWriteStreamMutationResultKeeps ==
    WQInv /\ OnWriteStreamMutationResult => WQInv'
<1> SUFFICES ASSUME WQInv, OnWriteStreamMutationResult PROVE WQInv'
  OBVIOUS
<1>1. /\ stream = "open" /\ shaken
      /\ toClient # <<>> /\ Head(toClient).kind = "ok"
      /\ pipeline # <<>>
      /\ NotifyUser(Head(pipeline), "ok")
      /\ RemoveMutationBatch(Head(pipeline))
      /\ FillWritePipeline(queue'[user], Tail(pipeline), stream)
      /\ toClient' = Tail(toClient)
      /\ UNCHANGED <<user, shaken, late, written, committed, breaks>>
  BY DEF OnWriteStreamMutationResult
<1>2. WQTypeOK /\ QueueInv /\ PipelineServed /\ MatchInv /\ AnswerInv /\ CommittedInv
  BY DEF WQInv
<1>3. Head(pipeline) \in committed
  BY <1>1, FirstAnswer
<1>4. /\ Head(pipeline) = Head(queue[user]) /\ queue[user] # <<>>
      /\ queue' \in [Users -> Seq(Writes)]
      /\ queue'[user] = Tail(queue[user])
      /\ \A u \in Users : queue'[u] # queue[u] => u = user
      /\ callbacks' \in [Users -> SUBSET Writes]
      /\ told' \in [Writes -> {"nothing", "ok", "refused"}]
      /\ Distinct(queue'[user]) /\ Prefix(Tail(pipeline), queue'[user])
      /\ QueueInv' /\ NothingLost' /\ ToldTruth'
  BY <1>1, <1>3, SettledFront
<1>5. /\ Tail(pipeline) \in Seq(Writes) /\ Len(Tail(pipeline)) = Len(pipeline) - 1
      /\ Len(pipeline) \in Nat /\ MaxPending \in Nat
      /\ Len(pipeline) <= MaxPending
      /\ \A i \in 1..Len(Tail(pipeline)) : Tail(pipeline)[i] = pipeline[i + 1]
  BY <1>1, <1>2, WriteQueueAssumption, HeadTailProperties DEF WQTypeOK, WriteQueueAssumption
<1>6. Len(Tail(pipeline)) <= MaxPending
  BY <1>5
<1>7. user \in Users /\ queue'[user] \in Seq(Writes) /\ stream \in Streams
  BY <1>2, <1>4 DEF WQTypeOK
<1>8. /\ pipeline' = First(queue'[user], MaxPending)
      /\ pipeline' \in Seq(Writes) /\ Len(pipeline') <= MaxPending
      /\ stream' \in Streams /\ (pipeline' # <<>> => IsStarted(stream'))
  BY <1>1, <1>4, <1>5, <1>6, <1>7, Fill
<1>9. /\ toClient' \in Seq(Responses) /\ Len(toClient') = Len(toClient) - 1
      /\ Len(toClient) \in Nat \ {0}
      /\ \A i \in 1..Len(toClient') : toClient'[i] = toClient[i + 1]
  BY <1>1, <1>2, HeadTailProperties, EmptySeq DEF WQTypeOK, Responses
<1>10. /\ Matches(toClient, toServer, pipeline) /\ AnswersTo(toClient, pipeline)
       /\ Len(toClient) + Len(toServer) = Len(pipeline) /\ Len(toServer) \in Nat
  BY <1>1, <1>2 DEF MatchInv, Matches, AnswersTo, WQTypeOK
<1>11. Matches(toClient', toServer, Tail(pipeline))
  <2>1. Len(toClient') + Len(toServer) = Len(Tail(pipeline))
    <3>1. /\ Len(toClient') = Len(toClient) - 1
          /\ Len(Tail(pipeline)) = Len(pipeline) - 1
          /\ Len(toClient) + Len(toServer) = Len(pipeline)
          /\ Len(toClient) \in Nat /\ Len(toServer) \in Nat
      BY <1>5, <1>9, <1>10
    <3> QED
      BY <3>1
  <2>2. ASSUME NEW i \in 1..Len(toServer)
        PROVE  toServer[i] = Tail(pipeline)[Len(toClient') + i]
    <3>1. Len(toClient') + i \in 1..Len(Tail(pipeline))
      BY <1>9, <1>10, <2>1
    <3>2. (Len(toClient') + i) + 1 = Len(toClient) + i
      BY <1>9
    <3>3. toServer[i] = pipeline[Len(toClient) + i]
      BY <1>10 DEF Matches
    <3> QED
      BY <1>5, <3>1, <3>2, <3>3
  <2> QED
    BY <2>1, <2>2 DEF Matches
<1>12. AnswersTo(toClient', Tail(pipeline))
  <2> SUFFICES ASSUME NEW i \in 1..Len(toClient')
               PROVE  toClient'[i].of = Tail(pipeline)[i]
    BY DEF AnswersTo
  <2>1. i + 1 \in 1..Len(toClient) /\ i \in 1..Len(Tail(pipeline))
    BY <1>5, <1>9, <1>10
  <2> QED
    BY <1>5, <1>9, <1>10, <2>1 DEF AnswersTo
<1>13. /\ toServer' \in Seq(Writes \cup {Hello}) /\ idle' \in BOOLEAN
       /\ idle' => pipeline' = <<>> /\ stream' = "open" /\ shaken'
       /\ MatchInv'
  <2>1. ~idle
    BY <1>1, <1>2 DEF PipelineServed
  <2> QED
    BY <1>1, <1>4, <1>5, <1>6, <1>7, <1>9, <1>11, <1>12, <2>1, StreamGoesOn
<1>14. WQTypeOK'
  BY <1>1, <1>2, <1>4, <1>8, <1>9, <1>13 DEF WQTypeOK, Responses
<1>15. PipelineServed'
  BY <1>1, <1>8, <1>13 DEF PipelineServed
<1>16. AnswerInv'
  <2> SUFFICES ASSUME NEW i \in 1..Len(toClient')
               PROVE  /\ toClient'[i].kind = "ok" =>
                            toClient'[i].of = Hello \/ toClient'[i].of \in committed
                      /\ toClient'[i].kind = "refused" =>
                            toClient'[i].of \in Refused /\ i = Len(toClient')
    BY <1>1 DEF AnswerInv
  <2>1. i + 1 \in 1..Len(toClient) /\ toClient'[i] = toClient[i + 1]
    BY <1>9
  <2>2. i + 1 = Len(toClient) => i = Len(toClient')
    BY <1>9
  <2> QED
    BY <1>2, <2>1, <2>2 DEF AnswerInv
<1>17. LateInv'
  <2>1. \A u \in Users :
            \/ queue'[u] = queue[u]
            \/ /\ queue[u] # <<>> /\ queue'[u] = Tail(queue[u])
               /\ Head(queue[u]) \in committed' \cup Refused
    BY <1>1, <1>3, <1>4
  <2> QED
    BY <1>1, <2>1, LateKept
<1>18. CommittedInv'
  BY <1>1, <1>2 DEF CommittedInv
<1> QED
  BY <1>4, <1>13, <1>14, <1>15, <1>16, <1>17, <1>18 DEF WQInv

LEMMA RejectFrontKeeps == WQInv /\ RejectFront => WQInv'
<1> SUFFICES ASSUME WQInv, RejectFront PROVE WQInv'
  OBVIOUS
<1>1. /\ stream = "open" /\ shaken
      /\ toClient # <<>> /\ Head(toClient).kind = "refused"
      /\ pipeline # <<>>
      /\ NotifyUser(Head(pipeline), "refused")
      /\ RemoveMutationBatch(Head(pipeline))
      /\ FillWritePipeline(queue'[user], Tail(pipeline), "initial")
      /\ TornDown
      /\ UNCHANGED <<user, written, committed, breaks>>
  BY DEF RejectFront
<1>2. WQTypeOK /\ QueueInv /\ PipelineServed /\ MatchInv /\ AnswerInv /\ CommittedInv
  BY DEF WQInv
<1>3. Head(pipeline) \in Refused /\ Ended
  BY <1>1, FirstAnswer
<1>4. /\ Head(pipeline) = Head(queue[user]) /\ queue[user] # <<>>
      /\ queue' \in [Users -> Seq(Writes)]
      /\ queue'[user] = Tail(queue[user])
      /\ \A u \in Users : queue'[u] # queue[u] => u = user
      /\ callbacks' \in [Users -> SUBSET Writes]
      /\ told' \in [Writes -> {"nothing", "ok", "refused"}]
      /\ Distinct(queue'[user]) /\ Prefix(Tail(pipeline), queue'[user])
      /\ QueueInv' /\ NothingLost' /\ ToldTruth'
  BY <1>1, <1>3, SettledFront
<1>5. /\ Tail(pipeline) \in Seq(Writes)
      /\ Len(Tail(pipeline)) <= MaxPending
      /\ "initial" \in Streams
  <2>1. /\ Len(Tail(pipeline)) = Len(pipeline) - 1 /\ Len(pipeline) \in Nat
        /\ Len(pipeline) <= MaxPending /\ MaxPending \in Nat
        /\ Tail(pipeline) \in Seq(Writes)
    BY <1>1, <1>2, WriteQueueAssumption, HeadTailProperties DEF WQTypeOK, WriteQueueAssumption
  <2> QED
    BY <2>1 DEF Streams
<1>6. user \in Users /\ queue'[user] \in Seq(Writes)
  BY <1>2, <1>4 DEF WQTypeOK
<1>7. /\ pipeline' = First(queue'[user], MaxPending)
      /\ pipeline' \in Seq(Writes) /\ Len(pipeline') <= MaxPending
      /\ stream' \in Streams /\ stream' # "open"
      /\ pipeline' # <<>> => IsStarted(stream')
      /\ toServer' = <<>> /\ idle' = FALSE
  BY <1>1, <1>4, <1>5, <1>6, Fill
<1>8. shaken' = FALSE /\ toClient' = <<>> /\ late' = late
  BY <1>1, <1>3 DEF TornDown, Travelling
<1>9. MatchInv' /\ AnswerInv'
  BY <1>7, <1>8, NothingCarried
<1>10. WQTypeOK'
  BY <1>1, <1>2, <1>4, <1>7, <1>8, EmptySeq DEF WQTypeOK
<1>11. PipelineServed'
  BY <1>1, <1>7 DEF PipelineServed
<1>12. LateInv'
  <2>1. \A u \in Users :
            \/ queue'[u] = queue[u]
            \/ /\ queue[u] # <<>> /\ queue'[u] = Tail(queue[u])
               /\ Head(queue[u]) \in committed' \cup Refused
    BY <1>3, <1>4
  <2> QED
    BY <1>1, <1>8, <2>1, LateKept
<1>13. CommittedInv'
  BY <1>1, <1>2 DEF CommittedInv
<1> QED
  BY <1>4, <1>9, <1>10, <1>11, <1>12, <1>13 DEF WQInv

=============================================================================
