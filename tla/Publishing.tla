----------------------------- MODULE Publishing -----------------------------
(***************************************************************************)
(* How the admin panel (cloudflare/admin/index.html) publishes and deletes *)
(* media.  A published item lives in two stores nothing keeps in step: a   *)
(* Firestore document and one or two objects in the R2 bucket behind the   *)
(* upload worker (cloudflare/worker/worker.js).  uploadMag, uploadBook and *)
(* uploadAudio put the files and then add the document; delMag, delBook    *)
(* and delAudio delete the document and then remove the files.  Several    *)
(* tabs run these handlers at once, every request can be late, lost or     *)
(* answered with an error, and a tab can be closed or reloaded at any      *)
(* await.                                                                  *)
(*                                                                         *)
(* One instance models one of the three collections: they share neither    *)
(* documents, paths, buttons nor lists.                                    *)
(***************************************************************************)
EXTENDS Naturals, FiniteSets

CONSTANTS
    Docs,      \* the items that may be uploaded; an item names its document
               \* (addDoc draws a fresh id) and the content of its files
    Tabs,      \* open admin panels
    PdfPaths,  \* bucket keys of main files (PDF or audio)
    CoverPaths,\* bucket keys of cover images
    Covers,    \* Covers[p]: the cover keys the panel derives from main key p
    NoPath,    \* no file: cover_image_path is ''
    NoDoc,     \* no document, no object
    Audio,     \* TRUE: uploadAudio, FALSE: uploadMag and uploadBook
    MaxBatch,  \* bound: the most files one uploadAudio is started with
    MaxStray,  \* bound: the most requests that travel on with nobody waiting;
               \* one more counts as lost
    Reuse      \* whether admins may upload to a key that was used before

Paths == PdfPaths \cup CoverPaths

ASSUME ConstantsAssumption ==
    /\ NoPath \notin Paths
    /\ NoDoc \notin Docs
    /\ PdfPaths \cap CoverPaths = {}
    /\ Covers \in [PdfPaths -> SUBSET CoverPaths]
    /\ \A p, q \in PdfPaths : p # q => Covers[p] \cap Covers[q] = {}
    /\ Audio \in BOOLEAN
    /\ Reuse \in BOOLEAN
    /\ MaxBatch \in Nat \ {0}
    /\ MaxStray \in Nat

VARIABLES
    stage,      \* how far the upload of an item has come
    file,       \* the keys chosen for an item, the paths of its document
    cur,        \* the item the upload handler of a tab is working on
    todo,       \* the items its loop has not reached
    del,        \* the await a delete handler stands at, by tab and document
    shown,      \* the documents a tab renders a delete button for
    pending,    \* whether a tab waits for the list it asked for
    net,        \* requests that are travelling or whose answer is
    doc,        \* the Firestore collection
    bucket,     \* the R2 bucket: which item's content a key holds
    unconfirmed \* history: items a file of which may have been left behind
                \* by a delete that ended early or whose error was swallowed

panel  == <<stage, file, cur, todo, del, shown, pending>>
stores == <<doc, bucket>>
vars   == <<stage, file, cur, todo, del, shown, pending, net, doc, bucket,
            unconfirmed>>

Request == [op : {"put", "add", "deldoc", "rm"}, doc : Docs,
            path : Paths \cup {NoPath}, tab : Tabs,
            phase : {"sent", "answered", "stray"}]

TypeOK ==
    /\ stage \in [Docs -> {"new", "queued", "pdf", "cover", "add", "done",
                           "failed"}]
    /\ file \in [Docs -> [pdf : PdfPaths \cup {NoPath},
                          cover : CoverPaths \cup {NoPath}]]
    /\ cur \in [Tabs -> Docs \cup {NoDoc}]
    /\ todo \in [Tabs -> SUBSET Docs]
    /\ del \in [Tabs -> [Docs -> {"idle", "doc", "pdf", "cover"}]]
    /\ shown \in [Tabs -> SUBSET Docs]
    /\ pending \in [Tabs -> BOOLEAN]
    /\ net \subseteq Request
    /\ doc \in [Docs -> {"absent", "live", "deleted"}]
    /\ bucket \in [Paths -> Docs \cup {NoDoc}]
    /\ unconfirmed \subseteq Docs

Init ==
    /\ stage = [d \in Docs |-> "new"]
    /\ file = [d \in Docs |-> [pdf |-> NoPath, cover |-> NoPath]]
    /\ cur = [t \in Tabs |-> NoDoc]
    /\ todo = [t \in Tabs |-> {}]
    /\ del = [t \in Tabs |-> [d \in Docs |-> "idle"]]
    /\ shown = [t \in Tabs |-> {}]
    /\ pending = [t \in Tabs |-> TRUE]
    /\ net = {}
    /\ doc = [d \in Docs |-> "absent"]
    /\ bucket = [p \in Paths |-> NoDoc]
    /\ unconfirmed = {}

-----------------------------------------------------------------------------
(* Requests.  A request is "sent" until it is served, "answered" while its *)
(* answer travels back, and "stray" when nobody waits for it any more.     *)

Send(op, d, p, t) ==
    [op |-> op, doc |-> d, path |-> p, tab |-> t, phase |-> "sent"]

Answer(r) == [r EXCEPT !.phase = "answered"]

Leave(r) == [r EXCEPT !.phase = "stray"]

Served(r) ==
    (net \ {r}) \cup
    (IF r.phase = "sent" THEN {Answer(r)} ELSE {})

Stray == {r \in net : r.phase = "stray"}

\* Requests that nobody waits for any more, and may yet be served.
Unattended(R) ==
    {Leave(r) : r \in {q \in R : q.phase = "sent"}}

\* The handler gives up on r, served or not.
Abandoned(r) ==
    (net \ {r, Answer(r)}) \cup
    (IF Cardinality(Stray) < MaxStray THEN Unattended(net \cap {r}) ELSE {})

FilesOf(d) == {file[d].pdf, file[d].cover} \ {NoPath}

UsedPaths == UNION {FilesOf(d) : d \in Docs}

-----------------------------------------------------------------------------
(* The stores.  env.YCT_BUCKET.put and .delete act on whatever the key     *)
(* holds; Firestore commits an addDoc or a deleteDoc.                      *)

PutObject(r) ==
    /\ r.op = "put" /\ r.phase # "answered"
    /\ bucket' = [bucket EXCEPT ![r.path] = r.doc]
    /\ net' = Served(r)
    /\ UNCHANGED <<panel, doc, unconfirmed>>

RemoveObject(r) ==
    /\ r.op = "rm" /\ r.phase # "answered"
    /\ bucket' = [bucket EXCEPT ![r.path] = NoDoc]
    /\ net' = Served(r)
    /\ UNCHANGED <<panel, doc, unconfirmed>>

CommitAdd(r) ==
    /\ r.op = "add" /\ r.phase # "answered"
    /\ doc' = [doc EXCEPT ![r.doc] = "live"]
    /\ net' = Served(r)
    /\ UNCHANGED <<panel, bucket, unconfirmed>>

CommitDelete(r) ==
    /\ r.op = "deldoc" /\ r.phase # "answered"
    /\ doc' = [doc EXCEPT ![r.doc] = "deleted"]
    /\ net' = Served(r)
    /\ UNCHANGED <<panel, bucket, unconfirmed>>

\* A request that never reaches its server, or that the worker answers with
\* an error.  The Firestore client resends while its tab is open.
LoseRequest(r) ==
    /\ r.phase = "stray" \/ (r.phase = "sent" /\ r.op \in {"put", "rm"})
    /\ net' = net \ {r}
    /\ UNCHANGED <<panel, stores, unconfirmed>>

-----------------------------------------------------------------------------
(* uploadMag, uploadBook, uploadAudio                                      *)

\* What can be picked: uploadMag and uploadBook upload one item, uploadAudio
\* all files of a pick.
Batches ==
    {b \in SUBSET {d \in Docs : stage[d] = "new"} :
        b # {} /\ Cardinality(b) <= IF Audio THEN MaxBatch ELSE 1}

\* The keys of a batch: no two of its files have one name; a cover is
\* optional, and there is none for audio.
ValidKeys(batch, key, cover) ==
    /\ \A d, e \in batch : key[d] = key[e] => d = e
    /\ \A d \in batch :
         cover[d] \in {NoPath} \cup (IF Audio THEN {} ELSE Covers[key[d]])
    /\ Reuse \/ \A d \in batch : {key[d], cover[d]} \cap UsedPaths = {}

\* The handler starts: every item has its keys, the main file of the first
\* one goes out.
Begin(t, batch, key, cover, first) ==
    /\ stage' = [d \in Docs |-> IF d = first THEN "pdf"
                                ELSE IF d \in batch THEN "queued"
                                ELSE stage[d]]
    /\ file' = [d \in Docs |-> IF d \in batch
                               THEN [pdf |-> key[d], cover |-> cover[d]]
                               ELSE file[d]]
    /\ cur' = [cur EXCEPT ![t] = first]
    /\ todo' = [todo EXCEPT ![t] = batch \ {first}]
    /\ net' = net \cup {Send("put", first, key[first], t)}
    /\ UNCHANGED <<del, shown, pending, stores, unconfirmed>>

\* The button is enabled and clicked.
StartUpload(t) ==
    /\ cur[t] = NoDoc
    /\ \E batch \in Batches :
       \E key \in [batch -> PdfPaths], cover \in [batch -> CoverPaths \cup {NoPath}] :
         /\ ValidKeys(batch, key, cover)
         /\ \E first \in batch : Begin(t, batch, key, cover, first)

\* The request r2up is waiting for.
KeyAt(d) == IF stage[d] = "pdf" THEN file[d].pdf ELSE file[d].cover

PutOf(t) == Send("put", cur[t], KeyAt(cur[t]), t)

AddOf(t) == Send("add", cur[t], NoPath, t)

\* Mutant: the "Loading..." row gets a delete button too.
LoadingRowShown(t) ==
    /\ shown' = [shown EXCEPT ![t] = {NoDoc}]
    /\ pending' = [pending EXCEPT ![t] = TRUE]

\* loadMags and its like: the list is replaced by "Loading...", so its
\* buttons are gone until the answer is rendered.
Reload(t) ==
    /\ shown' = [shown EXCEPT ![t] = {}]
    /\ pending' = [pending EXCEPT ![t] = TRUE]

\* The item is over, well or badly, and left is what remains of net: the
\* loop goes on with the next file; after the last one the button is
\* enabled again.  uploadMag and uploadBook reload the list inside the try,
\* uploadAudio after the loop.
EndItem(t, outcome, left) ==
    LET d == cur[t] IN
    \/ /\ todo[t] = {}
       /\ stage' = [stage EXCEPT ![d] = outcome]
       /\ cur' = [cur EXCEPT ![t] = NoDoc]
       /\ net' = left
       /\ IF outcome = "done" \/ Audio
          THEN Reload(t)
          ELSE UNCHANGED <<shown, pending>>
       /\ UNCHANGED todo
    \/ \E e \in todo[t] :
       /\ stage' = [stage EXCEPT ![d] = outcome, ![e] = "pdf"]
       /\ cur' = [cur EXCEPT ![t] = e]
       /\ todo' = [todo EXCEPT ![t] = @ \ {e}]
       /\ net' = left \cup {Send("put", e, file[e].pdf, t)}
       /\ UNCHANGED <<shown, pending>>

Putting(t) == cur[t] \in Docs /\ stage[cur[t]] \in {"pdf", "cover"}

\* Mutant: r2up is not awaited.
PutUnawaited(t) ==
    /\ Putting(t)
    /\ LET d == cur[t]
           withCover == stage[d] = "pdf" /\ file[d].cover # NoPath
       IN  /\ stage' = [stage EXCEPT ![d] = IF withCover THEN "cover" ELSE "add"]
           /\ net' = net \cup
                     {IF withCover THEN Send("put", d, file[d].cover, t)
                                   ELSE Send("add", d, NoPath, t)}
    /\ UNCHANGED <<file, cur, todo, del, shown, pending, stores, unconfirmed>>

\* xhr.onload with a status below 300: on to the cover image, if one was
\* picked, and else to addDoc.
PutResolved(t) ==
    /\ Putting(t)
    /\ LET d == cur[t]
           withCover == stage[d] = "pdf" /\ file[d].cover # NoPath
       IN  /\ Answer(PutOf(t)) \in net
           /\ stage' = [stage EXCEPT ![d] = IF withCover THEN "cover" ELSE "add"]
           /\ net' = (net \ {Answer(PutOf(t))}) \cup
                     {IF withCover THEN Send("put", d, file[d].cover, t)
                                   ELSE Send("add", d, NoPath, t)}
    /\ UNCHANGED <<file, cur, todo, del, shown, pending, stores, unconfirmed>>

\* Mutant: no xhr.onerror and no look at the status, the promise stays open.
PutNeverRejected(t) == Putting(t) /\ FALSE

\* xhr.onerror or a status of 300 and above; the catch only shows the error.
PutRejected(t) ==
    /\ Putting(t)
    /\ EndItem(t, "failed", Abandoned(PutOf(t)))
    /\ UNCHANGED <<file, del, stores, unconfirmed>>

Adding(t) == cur[t] \in Docs /\ stage[cur[t]] = "add"

AddResolved(t) ==
    /\ Adding(t)
    /\ Answer(AddOf(t)) \in net
    /\ EndItem(t, "done", net \ {Answer(AddOf(t))})
    /\ UNCHANGED <<file, del, stores, unconfirmed>>

\* Firestore refuses the write.
AddRejected(t) ==
    /\ Adding(t)
    /\ AddOf(t) \in net
    /\ EndItem(t, "failed", net \ {AddOf(t)})
    /\ UNCHANGED <<file, del, stores, unconfirmed>>

-----------------------------------------------------------------------------
(* delMag, delBook, delAudio                                               *)

DocDeleteOf(t, d) == Send("deldoc", d, NoPath, t)

\* Mutant: the file is removed before the document.
ClickRemovesFirst(t, d) ==
    /\ d \in shown[t]
    /\ del[t][d] = "idle"
    /\ del' = [del EXCEPT ![t][d] = "doc"]
    /\ net' = net \cup {DocDeleteOf(t, d), Send("rm", d, file[d].pdf, t)}
    /\ UNCHANGED <<stage, file, cur, todo, shown, pending, stores, unconfirmed>>

\* A rendered button is clicked and confirmed.  Bound: one delete of a
\* document per tab at a time (the code has no such limit; a second tab
\* stands for the second click).
ClickDelete(t, d) ==
    /\ d \in shown[t]
    /\ del[t][d] = "idle"
    /\ del' = [del EXCEPT ![t][d] = "doc"]
    /\ net' = net \cup {DocDeleteOf(t, d)}
    /\ UNCHANGED <<stage, file, cur, todo, shown, pending, stores, unconfirmed>>

\* Mutant: the handler ends with the document, no r2del.
DeleteDocEnds(t, d) ==
    /\ del[t][d] = "doc"
    /\ Answer(DocDeleteOf(t, d)) \in net
    /\ del' = [del EXCEPT ![t][d] = "idle"]
    /\ net' = net \ {Answer(DocDeleteOf(t, d))}
    /\ Reload(t)
    /\ UNCHANGED <<stage, file, cur, todo, stores, unconfirmed>>

\* deleteDoc resolved: r2del of the path the button was rendered with.
DeleteDocResolved(t, d) ==
    /\ del[t][d] = "doc"
    /\ Answer(DocDeleteOf(t, d)) \in net
    /\ del' = [del EXCEPT ![t][d] = "pdf"]
    /\ net' = (net \ {Answer(DocDeleteOf(t, d))})
              \cup {Send("rm", d, file[d].pdf, t)}
    /\ UNCHANGED <<stage, file, cur, todo, shown, pending, stores, unconfirmed>>

\* deleteDoc is not in a try: a refusal ends the handler, the list stays.
DeleteDocRejected(t, d) ==
    /\ del[t][d] = "doc"
    /\ DocDeleteOf(t, d) \in net
    /\ del' = [del EXCEPT ![t][d] = "idle"]
    /\ net' = net \ {DocDeleteOf(t, d)}
    /\ UNCHANGED <<stage, file, cur, todo, shown, pending, stores, unconfirmed>>

\* The request r2del is waiting for.
RmKey(t, d) == IF del[t][d] = "pdf" THEN file[d].pdf ELSE file[d].cover

RmOf(t, d) == Send("rm", d, RmKey(t, d), t)

\* Mutant: the cover image is forgotten.
RemoveOne(t, d, left) ==
    /\ del' = [del EXCEPT ![t][d] = "idle"]
    /\ net' = left
    /\ Reload(t)

\* r2del returns, left is what remains of net: the cover is next (r2del does
\* nothing for an empty path), then the list is reloaded.
RemoveNext(t, d, left) ==
    IF del[t][d] = "pdf" /\ file[d].cover # NoPath
    THEN /\ del' = [del EXCEPT ![t][d] = "cover"]
         /\ net' = left \cup {Send("rm", d, file[d].cover, t)}
         /\ UNCHANGED <<shown, pending>>
    ELSE /\ del' = [del EXCEPT ![t][d] = "idle"]
         /\ net' = left
         /\ Reload(t)

RemoveAnswered(t, d) ==
    /\ del[t][d] \in {"pdf", "cover"}
    /\ Answer(RmOf(t, d)) \in net
    /\ RemoveNext(t, d, net \ {Answer(RmOf(t, d))})
    /\ UNCHANGED <<stage, file, cur, todo, stores, unconfirmed>>

\* catch(_){} of r2del, or an error status it never looks at: the handler
\* goes on as if the file were gone.
RemoveErrored(t, d) ==
    /\ del[t][d] \in {"pdf", "cover"}
    /\ RemoveNext(t, d, Abandoned(RmOf(t, d)))
    /\ unconfirmed' = unconfirmed \cup {d}
    /\ UNCHANGED <<stage, file, cur, todo, stores>>

-----------------------------------------------------------------------------
(* The list and the tab                                                    *)

ListLoaded(t) ==
    /\ pending[t]
    /\ pending' = [pending EXCEPT ![t] = FALSE]
    /\ shown' = [shown EXCEPT ![t] = {d \in Docs : doc[d] = "live"}]
    /\ UNCHANGED <<stage, file, cur, todo, del, net, stores, unconfirmed>>

ListFailed(t) ==
    /\ pending[t]
    /\ pending' = [pending EXCEPT ![t] = FALSE]
    /\ shown' = [shown EXCEPT ![t] = {}]
    /\ UNCHANGED <<stage, file, cur, todo, del, net, stores, unconfirmed>>

\* The tab is closed or reloaded: its handlers are gone wherever they stood,
\* what they sent is not.  The page that opens next asks for the list.
CloseTab(t) ==
    /\ stage' = [d \in Docs |-> IF d = cur[t] \/ d \in todo[t] THEN "failed"
                                ELSE stage[d]]
    /\ cur' = [cur EXCEPT ![t] = NoDoc]
    /\ todo' = [todo EXCEPT ![t] = {}]
    /\ del' = [del EXCEPT ![t] = [d \in Docs |-> "idle"]]
    /\ Reload(t)
    /\ \E left \in SUBSET Unattended({r \in net : r.tab = t}) :
         /\ Cardinality(Stray \cup left) <= MaxStray
         /\ net' = {r \in net : r.tab # t} \cup Stray \cup left
    /\ unconfirmed' = unconfirmed \cup {d \in Docs : del[t][d] # "idle"}
    /\ UNCHANGED <<file, stores>>

-----------------------------------------------------------------------------
Network(r) ==
    \/ PutObject(r) \/ RemoveObject(r) \/ CommitAdd(r) \/ CommitDelete(r)
    \/ LoseRequest(r)

Handler(t) ==
    \/ StartUpload(t)
    \/ PutResolved(t) \/ PutRejected(t)
    \/ AddResolved(t) \/ AddRejected(t)

Deletion(t, d) ==
    \/ ClickDelete(t, d)
    \/ DeleteDocResolved(t, d) \/ DeleteDocRejected(t, d)
    \/ RemoveAnswered(t, d) \/ RemoveErrored(t, d)

Page(t) == ListLoaded(t) \/ ListFailed(t) \/ CloseTab(t)

Next ==
    \/ \E r \in net : Network(r)
    \/ \E t \in Tabs : Handler(t) \/ Page(t) \/ \E d \in Docs : Deletion(t, d)

Spec == Init /\ [][Next]_vars

\* Every request of an open tab settles: the browser ends each XMLHttpRequest
\* and fetch with an answer or an error, and Firestore resends a write until
\* it is committed or refused.  Nobody has to click, and no tab has to close.
Fairness ==
    /\ \A t \in Tabs :
         /\ WF_vars(PutResolved(t) \/ PutRejected(t))
         /\ WF_vars(AddResolved(t) \/ AddRejected(t))
         /\ WF_vars(\E r \in net : r.tab = t /\ CommitAdd(r))
    /\ \A t \in Tabs, d \in Docs :
         /\ WF_vars(\E r \in net : r.tab = t /\ r.doc = d /\ CommitDelete(r))
         /\ WF_vars(DeleteDocResolved(t, d) \/ DeleteDocRejected(t, d))
         /\ WF_vars(RemoveAnswered(t, d) \/ RemoveErrored(t, d))

FairSpec == Spec /\ Fairness

-----------------------------------------------------------------------------
(* Properties                                                              *)

\* Another upload was pointed at the same key.
Shared(d, p) ==
    \E e \in Docs \ {d} : stage[e] # "new" /\ p \in FilesOf(e)

\* A document in the app's collection has its files: what its upload put is
\* under its keys, unless another upload was pointed at the same key.  It
\* rests on the order of both handlers: addDoc after every r2up answered
\* (uploadMag), deleteDoc answered before any r2del (delMag), whatever is
\* lost, late or cut off by a closing tab.
IntactOrShared ==
    \A d \in Docs : doc[d] = "live" =>
        \A p \in FilesOf(d) : bucket[p] = d \/ Shared(d, p)

\* Which deletes still have the object under p to remove.
StillToRemove(d, p) ==
    \E t \in Tabs : \/ del[t][d] \in {"doc", "pdf"}
                    \/ del[t][d] = "cover" /\ p = file[d].cover

\* No object is left in the bucket without a reason: its document is live,
\* its upload is running or broke off before the document existed, a delete
\* is still under way, or a delete lost a request or its tab.  In particular
\* a delete that met no error leaves none of the item's files behind.
EveryObjectAccounted ==
    \A p \in Paths : bucket[p] # NoDoc =>
        LET d == bucket[p] IN
        \/ doc[d] = "live"
        \/ doc[d] = "absent" /\ stage[d] \in {"pdf", "cover", "add", "failed"}
        \/ StillToRemove(d, p)
        \/ d \in unconfirmed

\* The upload button comes back: the handler of a tab ends every item it
\* began, however its requests end.
UploadEnds ==
    \A t \in Tabs, d \in Docs : cur[t] = d ~> cur[t] # d

\* A deleted document takes its objects with it, or the panel has lost track
\* of a request: they do not just stay because nobody acts.
DeleteReachesBucket ==
    \A d \in Docs :
        doc[d] = "deleted" ~> \/ d \in unconfirmed
                              \/ \A p \in FilesOf(d) : bucket[p] # d

\* index.html:596, "Removes from database AND Cloudflare R2": when the delete
\* handler runs to its end, none of the item's objects is left.
DeleteRemovesFiles ==
    [][\A t \in Tabs, d \in Docs :
         (RemoveAnswered(t, d) \/ RemoveErrored(t, d)) /\ del'[t][d] = "idle"
         => \A p \in FilesOf(d) : bucket'[p] # d]_vars

=============================================================================
