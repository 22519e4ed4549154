------------------------- MODULE WriteQueueInvariant --------------------------
(* What makes the properties of WriteQueue inductive.                       *)
EXTENDS WriteQueue

\* A write is queued once, and only what the app has written is.
QueueInv ==
    /\ \A u \in Users : \A i, j \in 1..Len(queue[u]) :
            queue[u][i] = queue[u][j] => i = j
    /\ Queued \subseteq written

\* AnswersMatchPipeline by positions: on a stream that has shaken hands, the
\* responses under way and then the requests not taken are the pipeline.
MatchInv ==
    /\ shaken =>
        /\ stream = "open"
        /\ Len(toClient) + Len(toServer) = Len(pipeline)
        /\ \A i \in 1..Len(toClient) : toClient[i].of = pipeline[i]
        /\ \A i \in 1..Len(toServer) : toServer[i] = pipeline[Len(toClient) + i]
    /\ stream = "open" /\ ~shaken =>
        \/ toClient = <<>> /\ toServer = <<Hello>>
        \/ toServer = <<>> /\ Len(toClient) = 1 /\ toClient[1].of = Hello
    /\ stream # "open" => toClient = <<>> /\ toServer = <<>>

\* A response tells what the server did, and only the last one ends the call.
AnswerInv ==
    \A i \in 1..Len(toClient) :
        /\ toClient[i].kind = "ok" =>
            toClient[i].of = Hello \/ toClient[i].of \in committed
        /\ toClient[i].kind = "refused" =>
            toClient[i].of \in Refused /\ i = Len(toClient)

\* A request of the last broken stream that the server could still apply for
\* the first time is queued, behind writes that are applied or travel before it.
LateInv ==
    /\ Elements(late) \subseteq written
    /\ \A k \in 1..Len(late) :
        late[k] \notin committed \cup Refused =>
            \E u \in Users : \E i \in 1..Len(queue[u]) :
                /\ queue[u][i] = late[k]
                /\ \A j \in 1..(i - 1) :
                    \/ queue[u][j] \in committed
                    \/ \E m \in 1..(k - 1) : late[m] = queue[u][j]

CommittedInv == committed \subseteq written \ Refused

WQInv ==
    /\ WQTypeOK
    /\ QueueInv
    /\ PipelineServed
    /\ MatchInv
    /\ AnswerInv
    /\ LateInv
    /\ CommittedInv
    /\ NothingLost
    /\ ToldTruth

=============================================================================
