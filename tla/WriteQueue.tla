----------------------------- MODULE WriteQueue -----------------------------
(***************************************************************************)
(* The write path of the Firestore client the app ships (the pods under    *)
(* ios_backup/Pods/FirebaseFirestoreInternal): a write of the app enters   *)
(* the persistent queue of the signed-in user (local/local_store.cc), is   *)
(* drawn into the pipeline (remote/remote_store.cc) and travels on a write *)
(* stream (remote/stream.cc, remote/write_stream.cc) that can break, back  *)
(* off, fall idle or be restarted.  A response carries no identity: it is  *)
(* taken to answer the front of the pipeline.  All handlers run on one     *)
(* worker queue, so each of them is one action.                            *)
(***************************************************************************)
EXTENDS Naturals, Sequences

CONSTANTS
    Writes,     \* mutation batches the app may hand to the client
    Users,      \* users the client may run for, each with a queue of its own
    Nobody,     \* the user before AuthService.init has signed in
    Refused,    \* the writes the security rules refuse, whenever they arrive
    Hello,      \* the handshake
    MaxPending, \* kMaxPendingWrites
    MaxBreaks   \* bound: how often streams break or are restarted, and the
                \* app is killed, in one behaviour

ASSUME WriteQueueAssumption ==
    /\ Nobody \in Users
    /\ Refused \subseteq Writes
    /\ Hello \notin Writes
    /\ MaxPending \in Nat \ {0}
    /\ MaxBreaks \in Nat

VARIABLES
    user,      \* current_user_
    queue,     \* the mutation queue of each user, on disk
    callbacks, \* mutation_callbacks_: the writes whose caller waits, by user
    pipeline,  \* write_pipeline_
    stream,    \* state_ of the write stream ("open" is Open or Healthy)
    shaken,    \* handshake_complete_
    idle,      \* whether idleness_timer_ runs
    toServer,  \* requests of this stream the server has not taken
    toClient,  \* its responses, and the error that ends it, on their way
    late,      \* requests of the last broken stream the server may yet take
    written,   \* history: writes handed to the client, each once
    committed, \* history: writes the server has applied
    told,      \* history: what the callback of a write was called with
    breaks     \* history: see MaxBreaks

disk   == <<user, queue>>
net    == <<toServer, toClient, late>>
history == <<written, committed, told>>
wqVars == <<user, queue, callbacks, pipeline, stream, shaken, idle, toServer,
            toClient, late, written, committed, told, breaks>>

Elements(s) == {s[i] : i \in 1..Len(s)}

Queued == UNION {Elements(queue[u]) : u \in Users}

WQInit ==
    /\ user = Nobody
    /\ queue = [u \in Users |-> <<>>]
    /\ callbacks = [u \in Users |-> {}]
    /\ pipeline = <<>>
    /\ stream = "initial"
    /\ shaken = FALSE
    /\ idle = FALSE
    /\ toServer = <<>>
    /\ toClient = <<>>
    /\ late = <<>>
    /\ written = {}
    /\ committed = {}
    /\ told = [w \in Writes |-> "nothing"]
    /\ breaks = 0

-----------------------------------------------------------------------------
(* Filling the pipeline.                                                   *)

IsStarted(s) == s \in {"starting", "open", "backoff"}

\* Stream::Start: after an error it backs off first.
Start(s) == IF s = "error" THEN "backoff" ELSE "starting"

\* Mutant: a stream that ended with an error is not started again.
NeverRestarted(s, p) == IF s = "initial" /\ p # <<>> THEN "starting" ELSE s

\* StartWriteStream if ShouldStartWriteStream.
StartIfNeeded(s, p) == IF ~IsStarted(s) /\ p # <<>> THEN Start(s) ELSE s

\* Where batch w stands in queue q.
Place(q, w) == CHOOSE i \in 1..Len(q) : q[i] = w

\* The batches of queue q after the last one of pipeline p: all of them if that
\* one has left the queue, which it does at the front.
After(q, p) ==
    IF p = <<>> \/ p[Len(p)] \notin Elements(q) THEN q
    ELSE SubSeq(q, Place(q, p[Len(p)]) + 1, Len(q))

\* At most n elements of s.
First(s, n) == SubSeq(s, 1, IF Len(s) < n THEN Len(s) ELSE n)

\* Mutant: off by one.
OneTooMany(p) == MaxPending + 1 - Len(p)

\* CanAddToWritePipeline: how many batches still fit.
Room(p) == MaxPending - Len(p)

\* Mutant: writes are sent before the handshake is complete, and again then.
OpenIsEnough(s) == s = "open"

\* Whether AddToWritePipeline sends what it adds.
CanWrite(s) == s = "open" /\ shaken

\* Mutant: writing does not cancel the idleness timer.
TimerKept(s, p, more) == s = "open" /\ (p \o more = <<>> \/ idle)

\* MarkIdle with an empty pipeline; Stream::Write cancels the timer.
IdleAfter(s, p, more) ==
    /\ s = "open"
    /\ \/ p \o more = <<>>
       \/ idle /\ ~(more # <<>> /\ CanWrite(s))

\* FillWritePipeline with queue q, pipeline p and the stream in state s:
\* batches that fit are added, and sent if the stream has shaken hands.
FillWritePipeline(q, p, s) ==
    LET more == First(After(q, p), Room(p)) IN
    /\ pipeline' = p \o more
    /\ toServer' = IF s # "open" THEN <<>>
                   ELSE IF CanWrite(s) THEN toServer \o more ELSE toServer
    /\ idle' = IdleAfter(s, p, more)
    /\ stream' = StartIfNeeded(s, p \o more)

\* The server has ended the call: it takes no more requests of this stream.
Ended == toClient # <<>> /\ toClient[Len(toClient)].kind = "refused"

\* What may still reach the server of a stream that is torn down.
Travelling == IF shaken /\ ~Ended THEN toServer ELSE <<>>

\* Mutant: handshake_complete_ is not reset.
HandshakeKept ==
    /\ shaken' = shaken
    /\ toClient' = <<>>
    /\ late' = IF Travelling = <<>> THEN late ELSE Travelling

TornDown ==
    /\ shaken' = FALSE
    /\ toClient' = <<>>
    /\ late' = IF Travelling = <<>> THEN late ELSE Travelling

-----------------------------------------------------------------------------
(* The app's side.                                                         *)

\* SyncEngine::WriteMutations.
Write(w) ==
    /\ w \notin written
    /\ written' = written \cup {w}
    /\ queue' = [queue EXCEPT ![user] = Append(@, w)]
    /\ callbacks' = [callbacks EXCEPT ![user] = @ \cup {w}]
    /\ FillWritePipeline(queue'[user], pipeline, stream)
    /\ UNCHANGED <<user, shaken, toClient, late, committed, told, breaks>>

\* RestartNetwork, for the user u: the stream is stopped and the pipeline
\* drawn anew from the queue.
RestartNetwork(u) ==
    /\ breaks < MaxBreaks
    /\ breaks' = breaks + 1
    /\ FillWritePipeline(queue[u], <<>>, "initial")
    /\ TornDown
    /\ UNCHANGED <<queue, history>>

\* The connectivity monitor reports a network, or the token was renewed.
NetworkAvailable ==
    /\ RestartNetwork(user)
    /\ UNCHANGED <<user, callbacks>>

\* Mutant: the streams go on with what the pipeline holds of the old user.
PipelineSurvivesSignIn(u) ==
    /\ user = Nobody /\ u # Nobody
    /\ user' = u
    /\ breaks < MaxBreaks
    /\ breaks' = breaks + 1
    /\ UNCHANGED <<queue, callbacks, pipeline, stream, shaken, idle, net,
                   history>>

\* SyncEngine::HandleCredentialChange: AuthService.init has signed in; nobody
\* ever signs out.
HandleCredentialChange(u) ==
    /\ user = Nobody /\ u # Nobody
    /\ user' = u
    /\ RestartNetwork(u)
    /\ UNCHANGED callbacks

\* The app is killed and started again: only the disk is left.
Relaunch ==
    /\ RestartNetwork(user)
    /\ callbacks' = [u \in Users |-> {}]
    /\ UNCHANGED user

-----------------------------------------------------------------------------
(* The stream.                                                             *)

\* ResumeStartWithCredentials, OnStreamStart, OnWriteStreamOpen.
OnStreamStart ==
    /\ stream = "starting"
    /\ stream' = "open"
    /\ toServer' = <<Hello>>
    /\ idle' = FALSE
    /\ UNCHANGED <<disk, callbacks, pipeline, shaken, toClient, late,
                   history, breaks>>

\* The delayed operation of BackoffAndTryRestarting.
BackoffElapsed ==
    /\ stream = "backoff"
    /\ stream' = Start("initial")
    /\ UNCHANGED <<disk, callbacks, pipeline, shaken, idle, net, history,
                   breaks>>

\* The first response: everything in the pipeline is sent.
OnWriteStreamHandshakeComplete ==
    /\ stream = "open" /\ ~shaken
    /\ toClient # <<>>
    /\ shaken' = TRUE
    /\ toServer' = toServer \o pipeline
    /\ toClient' = Tail(toClient)
    /\ idle' = (idle /\ pipeline = <<>>)
    /\ UNCHANGED <<disk, callbacks, pipeline, stream, late, history,
                   breaks>>

\* SyncEngine::NotifyUser: the callback, if this process holds one.
NotifyUser(w, status) ==
    /\ told' = IF w \in callbacks[user] THEN [told EXCEPT ![w] = status]
               ELSE told
    /\ callbacks' = [callbacks EXCEPT ![user] = @ \ {w}]

\* LocalStore::ApplyBatchResult and RejectBatch: the batch leaves the queue.
Without(q, w) ==
    IF w \notin Elements(q) THEN q
    ELSE SubSeq(q, 1, Place(q, w) - 1) \o SubSeq(q, Place(q, w) + 1, Len(q))

RemoveMutationBatch(w) == queue' = [queue EXCEPT ![user] = Without(@, w)]

\* Mutant: the answered batch is not taken off the pipeline.
PipelineKept ==
    /\ stream = "open" /\ shaken
    /\ toClient # <<>> /\ Head(toClient).kind = "ok"
    /\ pipeline # <<>>
    /\ NotifyUser(Head(pipeline), "ok")
    /\ RemoveMutationBatch(Head(pipeline))
    /\ FillWritePipeline(queue'[user], pipeline, stream)
    /\ toClient' = Tail(toClient)
    /\ UNCHANGED <<user, shaken, late, written, committed, breaks>>

\* OnWriteStreamMutationResult.
OnWriteStreamMutationResult ==
    /\ stream = "open" /\ shaken
    /\ toClient # <<>> /\ Head(toClient).kind = "ok"
    /\ pipeline # <<>>
    /\ NotifyUser(Head(pipeline), "ok")
    /\ RemoveMutationBatch(Head(pipeline))
    /\ FillWritePipeline(queue'[user], Tail(pipeline), stream)
    /\ toClient' = Tail(toClient)
    /\ UNCHANGED <<user, shaken, late, written, committed, breaks>>

\* OnWriteStreamClose with a permanent error and HandleWriteError.
RejectFront ==
    /\ stream = "open" /\ shaken
    /\ toClient # <<>> /\ Head(toClient).kind = "refused"
    /\ pipeline # <<>>
    /\ NotifyUser(Head(pipeline), "refused")
    /\ RemoveMutationBatch(Head(pipeline))
    /\ FillWritePipeline(queue'[user], Tail(pipeline), "initial")
    /\ TornDown
    /\ UNCHANGED <<user, written, committed, breaks>>

\* Mutant: every error is taken for the fault of the write at the front.
AnyErrorRejects ==
    /\ stream \in {"starting", "open"}
    /\ breaks < MaxBreaks /\ pipeline # <<>>
    /\ breaks' = breaks + 1
    /\ NotifyUser(Head(pipeline), "refused")
    /\ RemoveMutationBatch(Head(pipeline))
    /\ FillWritePipeline(queue'[user], Tail(pipeline), "initial")
    /\ TornDown
    /\ UNCHANGED <<user, written, committed>>

\* OnWriteStreamClose with any other error: what is in the pipeline stays
\* there for the next stream.
OnWriteStreamClose ==
    /\ stream \in {"starting", "open"}
    /\ breaks < MaxBreaks
    /\ breaks' = breaks + 1
    /\ stream' = StartIfNeeded("error", pipeline)
    /\ toServer' = <<>>
    /\ idle' = FALSE
    /\ TornDown
    /\ UNCHANGED <<disk, callbacks, pipeline, history>>

\* The idleness timer stops the stream.
IdleTimeout ==
    /\ idle
    /\ stream' = "initial"
    /\ toServer' = <<>>
    /\ idle' = FALSE
    /\ TornDown
    /\ UNCHANGED <<disk, callbacks, pipeline, history, breaks>>

-----------------------------------------------------------------------------
(* The server.                                                             *)

Respond(k, x) == toClient' = Append(toClient, [kind |-> k, of |-> x])

Client == <<disk, callbacks, pipeline, stream, shaken, idle, written,
            told, breaks>>

ServeHandshake ==
    /\ ~Ended
    /\ toServer # <<>> /\ Head(toServer) = Hello
    /\ Respond("ok", Hello)
    /\ toServer' = Tail(toServer)
    /\ UNCHANGED <<Client, late, committed>>

Commit(w) ==
    /\ ~Ended
    /\ toServer # <<>> /\ Head(toServer) = w
    /\ w \notin Refused
    /\ committed' = committed \cup {w}
    /\ Respond("ok", w)
    /\ toServer' = Tail(toServer)
    /\ UNCHANGED <<Client, late>>

Refuse(w) ==
    /\ ~Ended
    /\ toServer # <<>> /\ Head(toServer) = w
    /\ w \in Refused
    /\ Respond("refused", w)
    /\ toServer' = Tail(toServer)
    /\ UNCHANGED <<Client, late, committed>>

\* A request of a stream the client has given up is applied all the same.
LateCommit(w) ==
    /\ late # <<>> /\ Head(late) = w
    /\ w \notin Refused
    /\ committed' = committed \cup {w}
    /\ late' = Tail(late)
    /\ UNCHANGED <<Client, toServer, toClient>>

\* The others never arrive, or are refused where nobody hears of it.
LateLost ==
    /\ late # <<>>
    /\ late' = <<>>
    /\ UNCHANGED <<Client, toServer, toClient, committed>>

-----------------------------------------------------------------------------
(* The properties of the client alone.                                     *)

Streams == {"initial", "starting", "open", "error", "backoff"}

\* Type correctness of the client's state and of what travels.
WQTypeOK ==
    /\ user \in Users
    /\ queue \in [Users -> Seq(Writes)]
    /\ callbacks \in [Users -> SUBSET Writes]
    /\ pipeline \in Seq(Writes) /\ Len(pipeline) <= MaxPending
    /\ stream \in Streams
    /\ shaken \in BOOLEAN
    /\ idle \in BOOLEAN
    /\ toServer \in Seq(Writes \cup {Hello})
    /\ toClient \in Seq([kind : {"ok", "refused"}, of : Writes \cup {Hello}])
    /\ late \in Seq(Writes)
    /\ written \subseteq Writes
    /\ committed \subseteq Writes
    /\ told \in [Writes -> {"nothing", "ok", "refused"}]
    /\ breaks \in 0..MaxBreaks

Answered == [i \in 1..Len(toClient) |-> toClient[i].of]

\* Responses are matched to writes by position alone: on a stream that has
\* shaken hands, the responses under way followed by the requests the server
\* has not taken are exactly the pipeline, whatever was resent before.
AnswersMatchPipeline ==
    /\ shaken => stream = "open" /\ Answered \o toServer = pipeline
    /\ stream = "open" /\ ~shaken => Answered \o toServer = <<Hello>>
    /\ stream # "open" => toServer = <<>> /\ toClient = <<>>

\* No queued write waits for an event that may never come: the pipeline is the
\* front of the current user's queue, as long as the limit allows; while it
\* holds a write the stream is started, and the idleness timer does not run.
PipelineServed ==
    /\ pipeline = First(queue[user], MaxPending)
    /\ pipeline # <<>> => IsStarted(stream)
    /\ idle => pipeline = <<>> /\ stream = "open" /\ shaken

\* A write leaves the queue only when the server has it or has refused it: a
\* response lost with its stream, a restart, a killed app or a user change
\* never lose one.
NothingLost == written \subseteq Queued \cup committed \cup Refused

\* What the app is told of a write is what happened to that write.
ToldTruth ==
    \A w \in Writes : /\ told[w] = "ok" => w \in committed
                      /\ told[w] = "refused" => w \in Refused

\* A write of the user who stays signed in is settled in the end; one queued
\* before AuthService.init has signed in stays behind in nobody's queue.
Settles ==
    \A w \in Writes : \A u \in Users :
        (user = u /\ w \in Elements(queue[u]))
            ~> (user # u \/ w \notin Elements(queue[u]))

=============================================================================
