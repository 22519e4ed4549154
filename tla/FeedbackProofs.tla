---------------------------- MODULE FeedbackProofs ----------------------------
(* What holds of every feedback, its document and the client's writes, for   *)
(* any submissions, users and refusals, any limit of the pipeline, and       *)
(* however often streams break and the app is killed.                        *)
EXTENDS FeedbackInvariant, WriteQueueProofs

-----------------------------------------------------------------------------
(* The client in the whole system.                                           *)

LEMMA StutterKeeps == WQInv /\ UNCHANGED wqVars => WQInv'
<1> SUFFICES ASSUME WQInv, UNCHANGED wqVars PROVE WQInv'
  OBVIOUS
<1>1. UNCHANGED <<user, queue, callbacks, pipeline, stream, shaken, idle, toServer,
                  toClient, late, written, committed, told, breaks>>
  BY DEF wqVars
<1>2. WQTypeOK /\ MatchInv /\ AnswerInv /\ LateInv /\ CommittedInv
  BY DEF WQInv
<1>3. WQTypeOK'
  BY <1>1, <1>2 DEF WQTypeOK
<1>4. MatchInv' /\ AnswerInv' /\ LateInv' /\ CommittedInv'
  BY <1>1, <1>2 DEF MatchInv, AnswerInv, LateInv, Elements, CommittedInv
<1>5. QueueInv' /\ PipelineServed' /\ NothingLost' /\ ToldTruth'
  BY <1>1, Unsettled
<1> QED
  BY <1>3, <1>4, <1>5 DEF WQInv

LEMMA DeliveryKeeps == WQInv /\ Delivery => WQInv'
<1> SUFFICES ASSUME WQInv, Delivery PROVE WQInv'
  OBVIOUS
<1>1. CASE OnStreamStart
  BY <1>1, OnStreamStartKeeps
<1>2. CASE BackoffElapsed
  BY <1>2, BackoffElapsedKeeps
<1>3. CASE ServeHandshake
  BY <1>3, ServeHandshakeKeeps
<1>4. CASE OnWriteStreamHandshakeComplete
  BY <1>4, OnWriteStreamHandshakeCompleteKeeps
<1>5. ASSUME NEW w \in Writes, Refuse(w) PROVE WQInv'
  BY <1>5, RefuseKeeps
<1>6. CASE OnWriteStreamMutationResult
  BY <1>6, OnWriteStreamMutationResultKeeps
<1>7. CASE RejectFront
  BY <1>7, RejectFrontKeeps
<1> QED
  BY <1>1, <1>2, <1>3, <1>4, <1>5, <1>6, <1>7 DEF Delivery

LEMMA DisturbanceKeeps == WQInv /\ Disturbance => WQInv'
<1> SUFFICES ASSUME WQInv, Disturbance PROVE WQInv'
  OBVIOUS
<1>1. CASE OnWriteStreamClose
  BY <1>1, OnWriteStreamCloseKeeps
<1>2. CASE IdleTimeout
  BY <1>2, IdleTimeoutKeeps
<1>3. CASE NetworkAvailable
  BY <1>3, NetworkAvailableKeeps
<1>4. ASSUME NEW u \in Users, HandleCredentialChange(u) PROVE WQInv'
  BY <1>4, HandleCredentialChangeKeeps
<1>5. CASE LateLost
  BY <1>5, LateLostKeeps
<1> QED
  BY <1>1, <1>2, <1>3, <1>4, <1>5 DEF Disturbance

LEMMA AddFeedbackKeeps ==
    ASSUME WQInv, NEW w \in Writes, AddFeedback(w)
    PROVE  WQInv'
BY CommitKeeps, LateCommitKeeps DEF AddFeedback

LEMMA ClientStep == WQInv /\ [Next]_vars => WQInv'
<1> SUFFICES ASSUME WQInv, [Next]_vars PROVE WQInv'
  OBVIOUS
<1>1. ASSUME NEW w \in Writes, Submit(w) PROVE WQInv'
  BY <1>1, WriteKeeps DEF Submit
<1>2. CASE Received
  BY <1>2, StutterKeeps DEF Received
<1>3. CASE CouldNotSubmit
  BY <1>3, StutterKeeps DEF CouldNotSubmit
<1>4. CASE Kill
  BY <1>4, RelaunchKeeps DEF Kill
<1>5. CASE Delivery
  BY <1>5, DeliveryKeeps
<1>6. CASE Disturbance
  BY <1>6, DisturbanceKeeps
<1>7. ASSUME NEW w \in Writes, AddFeedback(w) PROVE WQInv'
  BY <1>7, AddFeedbackKeeps
<1>8. ASSUME NEW w \in Writes, MarkRead(w) \/ SaveReply(w) \/ DelFeedback(w)
      PROVE  WQInv'
  BY <1>8, StutterKeeps DEF MarkRead, SaveReply, DelFeedback, Panel
<1>9. CASE UNCHANGED vars
  BY <1>9, StutterKeeps DEF vars
<1> QED
  BY <1>1, <1>2, <1>3, <1>4, <1>5, <1>6, <1>7, <1>8, <1>9 DEF Next

LEMMA InitiallyServed == WQInit => WQInv
<1> SUFFICES ASSUME WQInit PROVE WQInv
  OBVIOUS
<1>1. WQTypeOK
  <2>1. /\ Nobody \in Users /\ 0 \in 0..MaxBreaks
        /\ MaxPending \in Nat /\ 0 <= MaxPending
    BY WriteQueueAssumption DEF WriteQueueAssumption
  <2>2. /\ user \in Users /\ stream \in Streams /\ shaken \in BOOLEAN
        /\ idle \in BOOLEAN /\ written \subseteq Writes
        /\ committed \subseteq Writes /\ breaks \in 0..MaxBreaks
    BY <2>1 DEF WQInit, Streams
  <2>3. /\ queue \in [Users -> Seq(Writes)]
        /\ callbacks \in [Users -> SUBSET Writes]
        /\ told \in [Writes -> {"nothing", "ok", "refused"}]
    BY EmptySeq DEF WQInit
  <2>4. /\ pipeline \in Seq(Writes) /\ Len(pipeline) <= MaxPending
        /\ toServer \in Seq(Writes \cup {Hello})
        /\ toClient \in Seq([kind : {"ok", "refused"}, of : Writes \cup {Hello}])
        /\ late \in Seq(Writes)
    BY <2>1, EmptySeq DEF WQInit
  <2> QED
    BY <2>2, <2>3, <2>4 DEF WQTypeOK
<1>2. \A u \in Users : queue[u] = <<>> /\ Len(queue[u]) = 0
  BY DEF WQInit
<1>3. Queued = {}
  <2>1. \A w : w \notin Queued
    BY <1>2, QueuedWhere
  <2> QED
    BY <2>1
<1>4. QueueInv
  BY <1>2, <1>3 DEF QueueInv
<1>5. PipelineServed
  <2>1. queue[user] \in Seq(Writes) /\ Len(queue[user]) = 0
    BY <1>1, <1>2 DEF WQTypeOK
  <2>2. First(queue[user], MaxPending) = <<>>
    BY <2>1, WriteQueueAssumption, FirstProperties, EmptySeq DEF WriteQueueAssumption
  <2> QED
    BY <2>2 DEF WQInit, PipelineServed
<1>6. MatchInv /\ AnswerInv /\ LateInv /\ CommittedInv /\ NothingLost /\ ToldTruth
  BY DEF WQInit, MatchInv, AnswerInv, LateInv, Elements, CommittedInv,
         NothingLost, ToldTruth
<1> QED
  BY <1>1, <1>4, <1>5, <1>6 DEF WQInv

-----------------------------------------------------------------------------
(* The form and the collection.                                              *)

\* The server forgets no write.
LEMMA CommittedGrows == [Next]_vars => committed \subseteq committed'
<1> USE DEF disk, net, history, wqVars, Client
<1> SUFFICES ASSUME [Next]_vars PROVE committed \subseteq committed'
  OBVIOUS
<1>1. ASSUME NEW w \in Writes, Submit(w) PROVE committed \subseteq committed'
  BY <1>1 DEF Submit, Write
<1>2. CASE Received \/ CouldNotSubmit
  BY <1>2 DEF Received, CouldNotSubmit
<1>3. CASE Kill
  BY <1>3 DEF Kill, Relaunch, RestartNetwork
<1>4. CASE Delivery
  BY <1>4 DEF Delivery, OnStreamStart, BackoffElapsed, ServeHandshake,
              OnWriteStreamHandshakeComplete, Refuse, OnWriteStreamMutationResult,
              RejectFront
<1>5. CASE Disturbance
  BY <1>5 DEF Disturbance, OnWriteStreamClose, IdleTimeout, NetworkAvailable,
              HandleCredentialChange, RestartNetwork, LateLost
<1>6. ASSUME NEW w \in Writes, AddFeedback(w) PROVE committed \subseteq committed'
  BY <1>6 DEF AddFeedback, Commit, LateCommit
<1>7. ASSUME NEW w \in Writes, MarkRead(w) \/ SaveReply(w) \/ DelFeedback(w)
      PROVE  committed \subseteq committed'
  BY <1>7 DEF MarkRead, SaveReply, DelFeedback, Panel
<1>8. CASE UNCHANGED vars
  BY <1>8 DEF vars
<1> QED
  BY <1>1, <1>2, <1>3, <1>4, <1>5, <1>6, <1>7, <1>8 DEF Next

FormOK ==
    /\ awaited \in Writes \cup {NoWrite}
    /\ thanked \subseteq Writes
    /\ docs \in [Writes -> SUBSET Parts]
    /\ edits \in 0..MaxEdits

LEMMA FormStep ==
    ASSUME IInv, [Next]_vars
    PROVE  FormOK' /\ ReceivedIsStored'
<1>1. WQInv /\ FormOK /\ ReceivedIsStored
  BY DEF IInv, TypeOK, FormOK
<1>2. committed \subseteq committed' /\ MaxEdits \in Nat
  BY CommittedGrows, FeedbackAssumption DEF FeedbackAssumption
<1>3. ASSUME NEW w \in Writes, Submit(w) PROVE FormOK' /\ ReceivedIsStored'
  BY <1>1, <1>2, <1>3 DEF Submit, FormOK, ReceivedIsStored
<1>4. CASE Received
  <2>1. awaited \in Writes /\ awaited \in committed
    BY <1>1, <1>4 DEF Received, FormOK, WQInv, ToldTruth
  <2> QED
    BY <1>1, <1>2, <1>4, <2>1 DEF Received, FormOK, ReceivedIsStored
<1>5. CASE CouldNotSubmit
  BY <1>1, <1>2, <1>5 DEF CouldNotSubmit, FormOK, ReceivedIsStored
<1>6. CASE Kill
  BY <1>1, <1>2, <1>6 DEF Kill, FormOK, ReceivedIsStored
<1>7. CASE Delivery \/ Disturbance
  <2>1. UNCHANGED <<awaited, thanked, docs, edits>>
    BY <1>7 DEF Delivery, Disturbance, form
  <2> QED
    BY <1>1, <1>2, <2>1 DEF FormOK, ReceivedIsStored
<1>8. ASSUME NEW w \in Writes, AddFeedback(w) PROVE FormOK' /\ ReceivedIsStored'
  <2>1. /\ UNCHANGED <<awaited, thanked, edits>>
        /\ docs' = [docs EXCEPT ![w] = {"message"}]
    BY <1>8 DEF AddFeedback, form
  <2> QED
    BY <1>1, <1>2, <2>1 DEF FormOK, ReceivedIsStored, Parts
<1>9. ASSUME NEW w \in Writes, MarkRead(w) \/ SaveReply(w) \/ DelFeedback(w)
      PROVE  FormOK' /\ ReceivedIsStored'
  <2>1. PICK parts \in SUBSET Parts : Panel(w, parts)
    BY <1>1, <1>9 DEF MarkRead, SaveReply, DelFeedback, FormOK, Parts
  <2> QED
    BY <1>1, <1>2, <2>1 DEF Panel, form, FormOK, ReceivedIsStored
<1>10. CASE UNCHANGED vars
  BY <1>1, <1>2, <1>10 DEF vars, form, FormOK, ReceivedIsStored
<1> QED
  BY <1>3, <1>4, <1>5, <1>6, <1>7, <1>8, <1>9, <1>10 DEF Next

LEMMA InitIInv == Init => IInv
BY InitiallyServed, FeedbackAssumption
   DEF Init, IInv, WQInv, TypeOK, ReceivedIsStored, FeedbackAssumption, WQInit

LEMMA StepIInv == IInv /\ [Next]_vars => IInv'
BY ClientStep, FormStep DEF IInv, TypeOK, FormOK, WQInv

\* The inductive invariant of a feedback's way to its document.
THEOREM Invariance == Spec => []IInv
<1>1. Init => IInv
  BY InitIInv
<1>2. IInv /\ [Next]_vars => IInv'
  BY StepIInv
<1> QED
  BY <1>1, <1>2, PTL DEF Spec

\* Every variable of the client, the form and the collection keeps its type.
THEOREM Typed == Spec => []TypeOK
<1>1. IInv => TypeOK
  BY DEF IInv
<1> QED
  BY Invariance, <1>1, PTL

-----------------------------------------------------------------------------
(* What the client keeps.                                                    *)

LEMMA AnsweredSeq ==
    ASSUME WQTypeOK
    PROVE  /\ Answered \in Seq(Writes \cup {Hello}) /\ Len(Answered) = Len(toClient)
           /\ \A i \in 1..Len(toClient) : Answered[i] = toClient[i].of
<1>1. toClient \in Seq(Responses) /\ Len(toClient) \in Nat
  BY DEF WQTypeOK, Responses
<1>2. \A i \in 1..Len(toClient) : toClient[i].of \in Writes \cup {Hello}
  <2> SUFFICES ASSUME NEW i \in 1..Len(toClient)
               PROVE  toClient[i].of \in Writes \cup {Hello}
    OBVIOUS
  <2>1. toClient[i] \in Responses
    BY <1>1, ElementOfSeq
  <2> QED
    BY <2>1 DEF Responses
<1>3. Answered \in [1..Len(toClient) -> Writes \cup {Hello}]
  BY <1>2 DEF Answered
<1>4. Answered \in Seq(Writes \cup {Hello}) /\ Len(Answered) = Len(toClient)
  BY <1>1, <1>3, SeqDef, LenProperties
<1> QED
  BY <1>4 DEF Answered

LEMMA MatchByPosition == WQTypeOK /\ MatchInv => AnswersMatchPipeline
<1> SUFFICES ASSUME WQTypeOK, MatchInv PROVE AnswersMatchPipeline
  OBVIOUS
<1>1. /\ Answered \in Seq(Writes \cup {Hello}) /\ Len(Answered) = Len(toClient)
      /\ \A i \in 1..Len(toClient) : Answered[i] = toClient[i].of
  BY AnsweredSeq
<1>2. /\ toServer \in Seq(Writes \cup {Hello}) /\ pipeline \in Seq(Writes)
      /\ Len(toClient) \in Nat /\ Len(toServer) \in Nat
      /\ toClient \in Seq(Responses)
  BY DEF WQTypeOK, Responses
<1>3. /\ Answered \o toServer \in Seq(Writes \cup {Hello})
      /\ Len(Answered \o toServer) = Len(toClient) + Len(toServer)
      /\ \A i \in 1..Len(toClient) : (Answered \o toServer)[i] = toClient[i].of
      /\ \A i \in 1..Len(toServer) :
            (Answered \o toServer)[Len(toClient) + i] = toServer[i]
  <2>1. /\ Answered \o toServer \in Seq(Writes \cup {Hello})
        /\ Len(Answered \o toServer) = Len(Answered) + Len(toServer)
        /\ \A i \in 1..Len(Answered) : (Answered \o toServer)[i] = Answered[i]
        /\ \A i \in 1..Len(toServer) :
              (Answered \o toServer)[Len(Answered) + i] = toServer[i]
    <3>1. /\ Answered \in Seq(Writes \cup {Hello})
          /\ toServer \in Seq(Writes \cup {Hello})
      BY <1>1, <1>2
    <3> QED
      BY <3>1, ConcatParts
  <2> QED
    BY <1>1, <2>1
<1> DEFINE carried == Answered \o toServer
<1> HIDE DEF carried
<1>4. ASSUME shaken PROVE carried = pipeline
  <2>1. /\ AnswersTo(toClient, pipeline) /\ Matches(toClient, toServer, pipeline)
        /\ Len(toClient) + Len(toServer) = Len(pipeline)
    BY <1>4 DEF MatchInv, AnswersTo, Matches
  <2>2. ASSUME NEW i \in 1..Len(pipeline) PROVE carried[i] = pipeline[i]
    <3>1. CASE i \in 1..Len(toClient)
      BY <1>3, <2>1, <3>1 DEF AnswersTo, carried
    <3>2. CASE i \notin 1..Len(toClient)
      <4>1. PICK n \in 1..Len(toServer) : i = Len(toClient) + n
        <5>1. i - Len(toClient) \in 1..Len(toServer)
          BY <1>2, <2>1, <3>2
        <5>2. i = Len(toClient) + (i - Len(toClient))
          BY <1>2
        <5> QED
          BY <5>1, <5>2
      <4> QED
        BY <1>3, <2>1, <4>1 DEF Matches, carried
    <3> QED
      BY <3>1, <3>2
  <2> QED
    <3>1. pipeline \in Seq(Writes \cup {Hello})
      BY <1>2, SeqMonotonic
    <3>2. carried \in Seq(Writes \cup {Hello}) /\ Len(carried) = Len(pipeline)
      BY <1>3, <2>1 DEF carried
    <3> QED
      BY <2>2, <3>1, <3>2, SeqEqual
<1>5. ASSUME stream = "open", ~shaken PROVE carried = <<Hello>>
  <2>1. Len(<<Hello>>) = 1 /\ <<Hello>>[1] = Hello /\ <<Hello>> \in Seq(Writes \cup {Hello})
    OBVIOUS
  <2>2. Len(carried) = 1 /\ carried[1] = Hello
    <3>1. CASE toClient = <<>> /\ toServer = <<Hello>>
      BY <1>2, <1>3, <2>1, <3>1 DEF carried
    <3>2. CASE toServer = <<>> /\ Len(toClient) = 1 /\ toClient[1].of = Hello
      BY <1>2, <1>3, <3>2 DEF carried
    <3> QED
      BY <1>5, <3>1, <3>2 DEF MatchInv
  <2> QED
    <3>1. carried \in Seq(Writes \cup {Hello})
      BY <1>3 DEF carried
    <3>2. Len(carried) = Len(<<Hello>>)
      BY <2>1, <2>2
    <3>3. \A i \in 1..Len(carried) : carried[i] = <<Hello>>[i]
      BY <2>1, <2>2
    <3> QED
      BY <2>1, <3>1, <3>2, <3>3, SeqEqual
<1> QED
  BY <1>4, <1>5 DEF AnswersMatchPipeline, MatchInv, carried

\* Whatever streams broke and whatever was resent, the n-th response on a
\* stream is the answer to the n-th write of the pipeline.
THEOREM AnswersMatched == Spec => []AnswersMatchPipeline
<1>1. IInv => AnswersMatchPipeline
  BY MatchByPosition DEF IInv, WQInv
<1> QED
  BY Invariance, <1>1, PTL

\* The pipeline is the front of the current user's queue, and while it holds a
\* write, a stream serves it: none waits for an event that may never come.
THEOREM Served == Spec => []PipelineServed
<1>1. IInv => PipelineServed
  BY DEF IInv, WQInv
<1> QED
  BY Invariance, <1>1, PTL

\* A lost response, a restart, a killed app or a sign-in loses no write.
THEOREM NoWriteLost == Spec => []NothingLost
<1>1. IInv => NothingLost
  BY DEF IInv, WQInv
<1> QED
  BY Invariance, <1>1, PTL

\* A caller is told of its write what the server did with that write.
THEOREM Truth == Spec => []ToldTruth
<1>1. IInv => ToldTruth
  BY DEF IInv, WQInv
<1> QED
  BY Invariance, <1>1, PTL

-----------------------------------------------------------------------------
(* What the devotee and the panel rely on.                                   *)

\* Only a feedback the panel can see is called received.
THEOREM ThanksAreTrue == Spec => []ReceivedIsStored
<1>1. IInv => ReceivedIsStored
  BY DEF IInv
<1> QED
  BY Invariance, <1>1, PTL

\* After a feedback has left the queue and no broken stream carries it, the
\* set behind it cannot replace the document again.
THEOREM Final == Spec => SettledIsFinal
<1> DEFINE Kept == \A w \in written :
                w \notin Queued \cup Elements(late) /\ docs'[w] # docs[w]
                    => edits' = edits + 1
<1>1. IInv /\ [Next]_vars => [Kept]_vars
  <2> SUFFICES ASSUME IInv, Next, NEW w \in written,
                      w \notin Queued \cup Elements(late), docs'[w] # docs[w]
               PROVE  edits' = edits + 1
    OBVIOUS
  <2>1. WQInv /\ w \in Writes /\ docs \in [Writes -> SUBSET Parts]
    BY DEF IInv, WQInv, WQTypeOK, TypeOK
  <2>2. CASE \E v \in Writes : Submit(v)
    BY <2>2 DEF Submit
  <2>3. CASE Received \/ CouldNotSubmit \/ Kill
    BY <2>3 DEF Received, CouldNotSubmit, Kill
  <2>4. CASE Delivery \/ Disturbance
    BY <2>4 DEF Delivery, Disturbance
  <2>5. ASSUME NEW v \in Writes, AddFeedback(v) PROVE edits' = edits + 1
    <3>1. docs' = [docs EXCEPT ![v] = {"message"}]
      BY <2>5 DEF AddFeedback
    <3>2. w = v
      BY <2>1, <3>1
    <3>3. CASE Commit(v)
      <4>1. toServer # <<>> /\ Head(toServer) = v
        BY <3>3 DEF Commit
      <4> QED
        BY <2>1, <3>2, <4>1, TakenInOrder
    <3>4. CASE LateCommit(v)
      <4>1. late # <<>> /\ Head(late) = v /\ late \in Seq(Writes)
        BY <2>1, <3>4 DEF LateCommit, WQInv, WQTypeOK
      <4>2. 1 \in 1..Len(late) /\ late[1] = v
        BY <4>1, HeadTailProperties, EmptySeq
      <4> QED
        BY <3>2, <4>2 DEF Elements
    <3> QED
      BY <2>5, <3>3, <3>4 DEF AddFeedback
  <2>6. CASE \E v \in Writes : MarkRead(v) \/ SaveReply(v) \/ DelFeedback(v)
    BY <2>6 DEF MarkRead, SaveReply, DelFeedback, Panel
  <2> QED
    BY <2>2, <2>3, <2>4, <2>5, <2>6 DEF Next
<1> QED
  BY Invariance, <1>1, PTL DEF Spec, SettledIsFinal

-----------------------------------------------------------------------------
(* The client implements the outbox.                                         *)

\* What only the client sees is a stutter of the outbox.
LEMMA Hidden ==
    ASSUME UNCHANGED <<user, queue, written, committed, told>>
    PROVE  UNCHANGED Promise!vars
BY DEF Promise!vars

\* A write's first arrival is one the outbox allows: what stands before it in
\* its queue has arrived.
LEMMA FirstArrival ==
    ASSUME WQInv, NEW w \in Writes, Commit(w) \/ LateCommit(w), w \notin committed
    PROVE  \E u \in Users : \E i \in 1..Len(queue[u]) : Promise!Deliver(u, i)
<1>1. /\ committed' = committed \cup {w} /\ w \notin committed \cup Refused
      /\ UNCHANGED <<user, queue, written, told>>
  BY DEF Commit, LateCommit, Client, disk
<1>2. \E u \in Users : \E i \in 1..Len(queue[u]) :
        queue[u][i] = w /\ \A j \in 1..(i - 1) : queue[u][j] \in committed
  <2>1. CASE Commit(w)
    <3>1. ~Ended /\ toServer # <<>> /\ Head(toServer) = w
      BY <2>1 DEF Commit
    <3>2. shaken /\ 1 \in 1..Len(toServer) /\ toServer[1] = w
      BY <3>1, TakenInOrder
    <3>3. /\ queue[user][Len(toClient) + 1] = w
          /\ Len(toClient) + 1 \in 1..Len(queue[user])
          /\ Follows(user, Len(toClient) + 1, toServer, 1)
      BY <3>1, <3>2, CarriedFollows
    <3>4. user \in Users
      BY DEF WQInv, WQTypeOK
    <3> QED
      BY <3>3, <3>4 DEF Follows
  <2>2. CASE LateCommit(w)
    <3>1. late # <<>> /\ Head(late) = w /\ late \in Seq(Writes)
      BY <2>2 DEF LateCommit, WQInv, WQTypeOK
    <3>2. 1 \in 1..Len(late) /\ late[1] = w
      BY <3>1, HeadTailProperties, EmptySeq
    <3>3. PICK u \in Users : \E i \in 1..Len(queue[u]) :
            queue[u][i] = w /\ Follows(u, i, late, 1)
      BY <1>1, <3>2 DEF WQInv, LateInv, Follows
    <3> QED
      BY <3>3 DEF Follows
  <2> QED
    BY <2>1, <2>2
<1> QED
  BY <1>1, <1>2 DEF Promise!Deliver

\* The front of the pipeline, once answered, is what the outbox settles.
LEMMA FrontSettled ==
    ASSUME WQInv, pipeline # <<>>, NEW status \in {"ok", "refused"},
           NotifyUser(Head(pipeline), status), RemoveMutationBatch(Head(pipeline)),
           status = "ok" => Head(pipeline) \in committed,
           status = "refused" => Head(pipeline) \in Refused,
           UNCHANGED <<user, written, committed>>
    PROVE  Promise!Settle(status)
<1>1. /\ Head(pipeline) = Head(queue[user]) /\ queue[user] # <<>>
      /\ queue' \in [Users -> Seq(Writes)]
      /\ queue'[user] = Tail(queue[user])
      /\ \A u \in Users : queue'[u] # queue[u] => u = user
  BY SettledFront
<1>2. user \in Users /\ queue \in [Users -> Seq(Writes)]
  BY DEF WQInv, WQTypeOK
<1>3. queue' = [queue EXCEPT ![user] = Tail(@)]
  BY <1>1, <1>2
<1>4. told' \in {told, [told EXCEPT ![Head(pipeline)] = status]}
  BY DEF NotifyUser
<1>5. Head(queue[user]) \in (IF status = "ok" THEN committed ELSE Refused)
  BY <1>1
<1> QED
  BY <1>1, <1>3, <1>4, <1>5 DEF Promise!Settle

LEMMA OutboxStep == IInv /\ [Next]_vars => [Promise!Next]_(Promise!vars)
<1> SUFFICES ASSUME IInv, [Next]_vars PROVE Promise!Next \/ UNCHANGED Promise!vars
  OBVIOUS
<1> USE DEF disk, net, history, Client
<1>1. WQInv
  BY DEF IInv
<1>2. ASSUME NEW w \in Writes, Submit(w) PROVE Promise!Next
  BY <1>2 DEF Submit, Write, Promise!Next, Promise!Accept
<1>3. CASE Received \/ CouldNotSubmit
  BY <1>3, Hidden DEF Received, CouldNotSubmit, wqVars
<1>4. CASE Kill
  BY <1>4, Hidden DEF Kill, Relaunch, RestartNetwork
<1>5. CASE OnStreamStart \/ BackoffElapsed \/ ServeHandshake
           \/ OnWriteStreamHandshakeComplete
  BY <1>5, Hidden DEF OnStreamStart, BackoffElapsed, ServeHandshake,
                      OnWriteStreamHandshakeComplete
<1>6. CASE \E w \in Writes : Refuse(w)
  BY <1>6, Hidden DEF Refuse
<1>7. CASE OnWriteStreamMutationResult
  <2>1. /\ shaken /\ toClient # <<>> /\ Head(toClient).kind = "ok"
        /\ pipeline # <<>>
        /\ NotifyUser(Head(pipeline), "ok")
        /\ RemoveMutationBatch(Head(pipeline))
        /\ UNCHANGED <<user, written, committed>>
    BY <1>7 DEF OnWriteStreamMutationResult
  <2>2. Head(pipeline) \in committed
    BY <1>1, <2>1, FirstAnswer
  <2>3. Promise!Settle("ok")
    BY <1>1, <2>1, <2>2, FrontSettled
  <2> QED
    BY <2>3 DEF Promise!Next
<1>8. CASE RejectFront
  <2>1. /\ shaken /\ toClient # <<>> /\ Head(toClient).kind = "refused"
        /\ pipeline # <<>>
        /\ NotifyUser(Head(pipeline), "refused")
        /\ RemoveMutationBatch(Head(pipeline))
        /\ UNCHANGED <<user, written, committed>>
    BY <1>8 DEF RejectFront
  <2>2. Head(pipeline) \in Refused
    BY <1>1, <2>1, FirstAnswer
  <2>3. Promise!Settle("refused")
    BY <1>1, <2>1, <2>2, FrontSettled
  <2> QED
    BY <2>3 DEF Promise!Next
<1>9. CASE OnWriteStreamClose \/ IdleTimeout \/ NetworkAvailable \/ LateLost
  BY <1>9, Hidden DEF OnWriteStreamClose, IdleTimeout, NetworkAvailable,
                      RestartNetwork, LateLost
<1>10. ASSUME NEW u \in Users, HandleCredentialChange(u) PROVE Promise!Next
  BY <1>10 DEF HandleCredentialChange, RestartNetwork, Promise!Next, Promise!SignIn
<1>11. ASSUME NEW w \in Writes, AddFeedback(w)
       PROVE  Promise!Next \/ UNCHANGED Promise!vars
  <2>1. Commit(w) \/ LateCommit(w)
    BY <1>11 DEF AddFeedback
  <2>2. CASE w \in committed
    BY <2>1, <2>2, Hidden DEF Commit, LateCommit
  <2>3. CASE w \notin committed
    BY <1>1, <2>1, <2>3, FirstArrival DEF Promise!Next
  <2> QED
    BY <2>2, <2>3
<1>12. CASE \E w \in Writes : MarkRead(w) \/ SaveReply(w) \/ DelFeedback(w)
  BY <1>12, Hidden DEF MarkRead, SaveReply, DelFeedback, Panel, wqVars
<1>13. CASE UNCHANGED vars
  BY <1>13, Hidden DEF vars, wqVars
<1> QED
  BY <1>2, <1>3, <1>4, <1>5, <1>6, <1>7, <1>8, <1>9, <1>10, <1>11, <1>12, <1>13
     DEF Next, Delivery, Disturbance

\* Streams that break, back off and restart, responses without identity and
\* requests that arrive late amount to an outbox: writes arrive for the first
\* time in the order of their queue and are settled from its front.
THEOREM ClientIsOutbox == Spec => ImplementsOutbox
<1>1. Init => Promise!Init
  BY DEF Init, WQInit, Promise!Init
<1>2. IInv /\ [Next]_vars => [Promise!Next]_(Promise!vars)
  BY OutboxStep
<1> QED
  BY <1>1, <1>2, Invariance, PTL DEF Spec, ImplementsOutbox, Promise!Spec

=============================================================================
