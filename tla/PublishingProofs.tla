-------------------------- MODULE PublishingProofs --------------------------
(* Proofs about Publishing, for every set of items, tabs and keys.         *)
EXTENDS PublishingInvariant, TLAPS

LEMMA SendType ==
    ASSUME NEW op \in {"put", "add", "deldoc", "rm"}, NEW d \in Docs,
           NEW p \in Paths \cup {NoPath}, NEW t \in Tabs
    PROVE  Send(op, d, p, t) \in Request
BY DEF Send, Request

LEMMA ServedType ==
    ASSUME TypeOK, NEW r \in net
    PROVE  Served(r) \subseteq Request
<1>1. r \in Request
    BY DEF TypeOK
<1>2. Answer(r) \in Request
    BY <1>1 DEF Request, Answer
<1>. QED BY <1>2 DEF Served, TypeOK

LEMMA UnattendedType ==
    ASSUME NEW R \in SUBSET Request
    PROVE  Unattended(R) \subseteq Request
BY DEF Unattended, Leave, Request

LEMMA AbandonedType ==
    ASSUME TypeOK, NEW r
    PROVE  Abandoned(r) \subseteq Request
<1>1. Unattended(net \cap {r}) \subseteq Request
    BY UnattendedType DEF TypeOK
<1>. QED BY <1>1 DEF Abandoned, TypeOK

\* The network and the stores keep their types.
LEMMA NetworkType ==
    ASSUME TypeOK, NEW r \in net, Network(r)
    PROVE  TypeOK'
<1>1. Served(r) \subseteq Request
    BY ServedType
<1>2. r \in Request
    BY DEF TypeOK
<1>3. CASE PutObject(r)
    <2>1. bucket' \in [Paths -> Docs \cup {NoDoc}]
        BY <1>2, <1>3 DEF PutObject, TypeOK, Request
    <2>. QED BY <1>1, <1>3, <2>1 DEF PutObject, TypeOK, panel
<1>4. CASE RemoveObject(r)
    <2>1. bucket' \in [Paths -> Docs \cup {NoDoc}]
        BY <1>2, <1>4 DEF RemoveObject, TypeOK, Request
    <2>. QED BY <1>1, <1>4, <2>1 DEF RemoveObject, TypeOK, panel
<1>5. CASE CommitAdd(r)
    BY <1>1, <1>2, <1>5 DEF CommitAdd, TypeOK, panel, Request
<1>6. CASE CommitDelete(r)
    BY <1>1, <1>2, <1>6 DEF CommitDelete, TypeOK, panel, Request
<1>7. CASE LoseRequest(r)
    BY <1>7 DEF LoseRequest, TypeOK, panel, stores
<1>. QED BY <1>3, <1>4, <1>5, <1>6, <1>7 DEF Network

LEMMA StartUploadType ==
    ASSUME TypeOK, NEW t \in Tabs, StartUpload(t)
    PROVE  TypeOK'
<1>1. PICK batch \in Batches :
         \E key \in [batch -> PdfPaths],
            cover \in [batch -> CoverPaths \cup {NoPath}], first \in batch :
           ValidKeys(batch, key, cover) /\ Begin(t, batch, key, cover, first)
    BY DEF StartUpload
<1>2. PICK key \in [batch -> PdfPaths],
           cover \in [batch -> CoverPaths \cup {NoPath}], first \in batch :
         ValidKeys(batch, key, cover) /\ Begin(t, batch, key, cover, first)
    BY <1>1
<1>3. batch \subseteq Docs
    BY DEF Batches
<1>4. Send("put", first, key[first], t) \in Request
    BY <1>3, SendType DEF Paths
<1>5. file' \in [Docs -> [pdf : PdfPaths \cup {NoPath},
                          cover : CoverPaths \cup {NoPath}]]
    BY <1>2, <1>3 DEF TypeOK, Begin
<1>. QED BY <1>2, <1>3, <1>4, <1>5 DEF TypeOK, Begin, stores

LEMMA ReloadType ==
    ASSUME TypeOK, NEW t \in Tabs, Reload(t)
    PROVE  shown' \in [Tabs -> SUBSET Docs] /\ pending' \in [Tabs -> BOOLEAN]
BY DEF TypeOK, Reload

LEMMA EndItemType ==
    ASSUME TypeOK, NEW t \in Tabs, cur[t] \in Docs,
           NEW outcome \in {"done", "failed"}, NEW left \in SUBSET Request,
           \A d \in todo[t] : file[d].pdf \in PdfPaths,
           EndItem(t, outcome, left)
    PROVE  /\ stage' \in [Docs -> {"new", "queued", "pdf", "cover", "add",
                                   "done", "failed"}]
           /\ cur' \in [Tabs -> Docs \cup {NoDoc}]
           /\ todo' \in [Tabs -> SUBSET Docs]
           /\ net' \subseteq Request
           /\ shown' \in [Tabs -> SUBSET Docs]
           /\ pending' \in [Tabs -> BOOLEAN]
<1>1. CASE todo[t] = {} /\ UNCHANGED todo
           /\ stage' = [stage EXCEPT ![cur[t]] = outcome]
           /\ cur' = [cur EXCEPT ![t] = NoDoc] /\ net' = left
           /\ (Reload(t) \/ UNCHANGED <<shown, pending>>)
    BY <1>1, ReloadType DEF TypeOK
<1>2. CASE \E e \in todo[t] :
             /\ stage' = [stage EXCEPT ![cur[t]] = outcome, ![e] = "pdf"]
             /\ cur' = [cur EXCEPT ![t] = e]
             /\ todo' = [todo EXCEPT ![t] = @ \ {e}]
             /\ net' = left \cup {Send("put", e, file[e].pdf, t)}
             /\ UNCHANGED <<shown, pending>>
    <2>. PICK e \in todo[t] :
             /\ stage' = [stage EXCEPT ![cur[t]] = outcome, ![e] = "pdf"]
             /\ cur' = [cur EXCEPT ![t] = e]
             /\ todo' = [todo EXCEPT ![t] = @ \ {e}]
             /\ net' = left \cup {Send("put", e, file[e].pdf, t)}
             /\ UNCHANGED <<shown, pending>>
        BY <1>2
    <2>1. Send("put", e, file[e].pdf, t) \in Request
        BY SendType DEF TypeOK, Paths
    <2>. QED BY <2>1 DEF TypeOK
<1>. QED BY <1>1, <1>2 DEF EndItem

LEMMA HandlerType ==
    ASSUME TypeOK, HandlerInv, NEW t \in Tabs, Handler(t)
    PROVE  TypeOK'
<1>1. \A d \in todo[t] : file[d].pdf \in PdfPaths
    BY DEF TypeOK, HandlerInv, WorkInv, ItemInv
<1>2. CASE StartUpload(t)
    BY <1>2, StartUploadType
<1>3. CASE PutResolved(t)
    <2>. DEFINE d == cur[t]
    <2>1. d \in Docs
        BY <1>3 DEF PutResolved, Putting
    <2>2. Send("put", d, file[d].cover, t) \in Request
        BY <2>1, SendType DEF TypeOK, Paths
    <2>3. Send("add", d, NoPath, t) \in Request
        BY <2>1, SendType
    <2>. QED BY <1>3, <2>1, <2>2, <2>3 DEF PutResolved, TypeOK, stores
<1>4. CASE PutRejected(t)
    <2>1. cur[t] \in Docs
        BY <1>4 DEF PutRejected, Putting
    <2>2. Abandoned(PutOf(t)) \subseteq Request
        BY AbandonedType
    <2>. QED BY <1>1, <1>4, <2>1, <2>2, EndItemType
             DEF PutRejected, TypeOK, stores
<1>5. CASE AddResolved(t)
    <2>1. cur[t] \in Docs
        BY <1>5 DEF AddResolved, Adding
    <2>2. net \ {Answer(AddOf(t))} \subseteq Request
        BY DEF TypeOK
    <2>. QED BY <1>1, <1>5, <2>1, <2>2, EndItemType
             DEF AddResolved, TypeOK, stores
<1>6. CASE AddRejected(t)
    <2>1. cur[t] \in Docs
        BY <1>6 DEF AddRejected, Adding
    <2>2. net \ {AddOf(t)} \subseteq Request
        BY DEF TypeOK
    <2>. QED BY <1>1, <1>6, <2>1, <2>2, EndItemType
             DEF AddRejected, TypeOK, stores
<1>. QED BY <1>2, <1>3, <1>4, <1>5, <1>6 DEF Handler

LEMMA RemoveNextType ==
    ASSUME TypeOK, NEW t \in Tabs, NEW d \in Docs,
           NEW left \in SUBSET Request, RemoveNext(t, d, left)
    PROVE  /\ del' \in [Tabs -> [Docs -> {"idle", "doc", "pdf", "cover"}]]
           /\ net' \subseteq Request
           /\ shown' \in [Tabs -> SUBSET Docs]
           /\ pending' \in [Tabs -> BOOLEAN]
<1>1. Send("rm", d, file[d].cover, t) \in Request
    BY SendType DEF TypeOK, Paths
<1>2. CASE del[t][d] = "pdf" /\ file[d].cover # NoPath
    <2>1. del' = [del EXCEPT ![t][d] = "cover"]
        BY <1>2 DEF RemoveNext
    <2>2. del' \in [Tabs -> [Docs -> {"idle", "doc", "pdf", "cover"}]]
        BY <2>1 DEF TypeOK
    <2>. QED BY <1>1, <1>2, <2>2 DEF RemoveNext, TypeOK
<1>3. CASE ~(del[t][d] = "pdf" /\ file[d].cover # NoPath)
    <2>1. /\ del' = [del EXCEPT ![t][d] = "idle"]
          /\ net' = left
          /\ Reload(t)
        BY <1>3 DEF RemoveNext
    <2>2. del' \in [Tabs -> [Docs -> {"idle", "doc", "pdf", "cover"}]]
        BY <2>1 DEF TypeOK
    <2>. QED BY <2>1, <2>2, ReloadType
<1>. QED BY <1>2, <1>3

LEMMA DeletionType ==
    ASSUME TypeOK, NEW t \in Tabs, NEW d \in Docs, Deletion(t, d)
    PROVE  TypeOK'
<1>1. CASE ClickDelete(t, d)
    <2>1. DocDeleteOf(t, d) \in Request
        BY SendType DEF DocDeleteOf
    <2>. QED BY <1>1, <2>1 DEF ClickDelete, TypeOK, stores
<1>2. CASE DeleteDocResolved(t, d)
    <2>1. Send("rm", d, file[d].pdf, t) \in Request
        BY SendType DEF TypeOK, Paths
    <2>. QED BY <1>2, <2>1 DEF DeleteDocResolved, TypeOK, stores
<1>3. CASE DeleteDocRejected(t, d)
    BY <1>3 DEF DeleteDocRejected, TypeOK, stores
<1>4. CASE RemoveAnswered(t, d)
    <2>1. net \ {Answer(RmOf(t, d))} \subseteq Request
        BY DEF TypeOK
    <2>. QED BY <1>4, <2>1, RemoveNextType DEF RemoveAnswered, TypeOK, stores
<1>5. CASE RemoveErrored(t, d)
    <2>1. Abandoned(RmOf(t, d)) \subseteq Request
        BY AbandonedType
    <2>. QED BY <1>5, <2>1, RemoveNextType DEF RemoveErrored, TypeOK, stores
<1>. QED BY <1>1, <1>2, <1>3, <1>4, <1>5 DEF Deletion

LEMMA PageType ==
    ASSUME TypeOK, NEW t \in Tabs, Page(t)
    PROVE  TypeOK'
<1>1. CASE ListLoaded(t)
    BY <1>1 DEF ListLoaded, TypeOK, stores
<1>2. CASE ListFailed(t)
    BY <1>2 DEF ListFailed, TypeOK, stores
<1>3. CASE CloseTab(t)
    <2>1. Unattended({r \in net : r.tab = t}) \subseteq Request
        BY UnattendedType DEF TypeOK
    <2>2. net' \subseteq Request
        BY <1>3, <2>1 DEF CloseTab, TypeOK, Stray
    <2>. QED BY <1>3, <2>2 DEF CloseTab, Reload, TypeOK, stores
<1>. QED BY <1>1, <1>2, <1>3 DEF Page

LEMMA NextType ==
    ASSUME TypeOK, HandlerInv, [Next]_vars
    PROVE  TypeOK'
<1>1. CASE UNCHANGED vars
    BY <1>1 DEF vars, TypeOK
<1>. QED BY <1>1, NetworkType, HandlerType, DeletionType, PageType DEF Next

-----------------------------------------------------------------------------
(* Requests: their fields, and what the sets built from net contain.       *)

LEMMA SendFields ==
    ASSUME NEW op, NEW d, NEW p, NEW t
    PROVE  /\ Send(op, d, p, t).op = op
           /\ Send(op, d, p, t).doc = d
           /\ Send(op, d, p, t).path = p
           /\ Send(op, d, p, t).tab = t
           /\ Send(op, d, p, t).phase = "sent"
BY DEF Send

LEMMA AnswerFields ==
    ASSUME NEW r \in Request
    PROVE  /\ Answer(r) \in Request
           /\ Answer(r).op = r.op
           /\ Answer(r).doc = r.doc
           /\ Answer(r).path = r.path
           /\ Answer(r).tab = r.tab
           /\ Answer(r).phase = "answered"
BY DEF Answer, Request

LEMMA LeaveFields ==
    ASSUME NEW r \in Request
    PROVE  /\ Leave(r) \in Request
           /\ Leave(r).op = r.op
           /\ Leave(r).doc = r.doc
           /\ Leave(r).path = r.path
           /\ Leave(r).tab = r.tab
           /\ Leave(r).phase = "stray"
BY DEF Leave, Request

\* A request somebody waits for is one that was sent, or its answer.
LEMMA Attended ==
    ASSUME NEW r \in Request, r.phase # "stray"
    PROVE  LET s == Send(r.op, r.doc, r.path, r.tab)
           IN  r = IF r.phase = "sent" THEN s ELSE Answer(s)
<1>1. CASE r.phase = "sent"
    BY <1>1 DEF Request, Send
<1>2. CASE r.phase = "answered"
    BY <1>2 DEF Request, Send, Answer
<1>. QED BY <1>1, <1>2 DEF Request

LEMMA ServedMembers ==
    ASSUME NEW r \in net
    PROVE  \A s \in Served(r) :
              (s \in net /\ s # r) \/ (r.phase = "sent" /\ s = Answer(r))
BY DEF Served

LEMMA AbandonedMembers ==
    ASSUME NEW r
    PROVE  \A s \in Abandoned(r) :
              \/ s \in net /\ s # r /\ s # Answer(r)
              \/ r \in net /\ r.phase = "sent" /\ s = Leave(r)
BY DEF Abandoned, Unattended

LEMMA UnattendedMembers ==
    ASSUME NEW R
    PROVE  \A s \in Unattended(R) : \E r \in R : r.phase = "sent" /\ s = Leave(r)
BY DEF Unattended

-----------------------------------------------------------------------------
(* Keys never change once chosen, so what is shared stays shared.          *)

FilesKept ==
    \A d \in Docs : stage[d] # "new" => stage'[d] # "new" /\ file'[d] = file[d]

LEMMA SharedKept ==
    ASSUME FilesKept, NEW d \in Docs, NEW p
    PROVE  Shared(d, p) => Shared(d, p)'
BY DEF FilesKept, Shared, FilesOf

LEMMA FilesInPaths ==
    ASSUME TypeOK, NEW d \in Docs
    PROVE  FilesOf(d) \subseteq Paths
BY DEF TypeOK, FilesOf, Paths

-----------------------------------------------------------------------------
(* Steps of the network and the stores.                                    *)

ActiveInv == WorkInv /\ OneTabInv /\ OneUploadInv /\ UploaderInv /\ OneDeleteInv

DocInv == ItemInv /\ PutInv /\ AddInv /\ DocDeleteInv /\ RmInv /\ DeletionInv

LEMMA InvParts ==
    IInv <=> TypeOK /\ ActiveInv /\ DocInv /\ IntactInv /\ ObjectInv /\ FreshInv
BY DEF IInv, HandlerInv, UploadNetInv, DeleteNetInv, ActiveInv, DocInv

\* What every step of the network leaves alone.
LEMMA NetworkFrame ==
    ASSUME TypeOK, NEW r \in net, Network(r)
    PROVE  /\ r \in Request /\ net \subseteq Request /\ net' \subseteq Request
           /\ r.phase # "answered"
           /\ \A s \in net' : (s \in net /\ s # r) \/ (r.phase = "sent" /\ s = Answer(r))
           /\ UNCHANGED <<stage, file, cur, todo, del, shown, pending, unconfirmed>>
           /\ FilesKept
           /\ \A d \in Docs : FilesOf(d)' = FilesOf(d)
           /\ LoseRequest(r) => net' \subseteq net
           /\ \A t \in Tabs, d \in Docs :
                 Answer(DocDeleteOf(t, d)) \in net => Answer(DocDeleteOf(t, d)) \in net'
<1>1. r \in Request /\ net \subseteq Request
    BY DEF TypeOK
<1>2. UNCHANGED <<stage, file, cur, todo, del, shown, pending, unconfirmed>>
    BY DEF Network, PutObject, RemoveObject, CommitAdd, CommitDelete,
           LoseRequest, panel
<1>3. r.phase # "answered" /\ (net' = Served(r) \/ net' = net \ {r})
    BY <1>1 DEF Network, PutObject, RemoveObject, CommitAdd, CommitDelete,
           LoseRequest
<1>4. \A s \in net' : (s \in net /\ s # r) \/ (r.phase = "sent" /\ s = Answer(r))
    BY <1>3, ServedMembers
<1>5. \A t \in Tabs, d \in Docs :
        Answer(DocDeleteOf(t, d)) \in net => Answer(DocDeleteOf(t, d)) \in net'
    <2>. SUFFICES ASSUME NEW t \in Tabs, NEW d \in Docs
                  PROVE  Answer(DocDeleteOf(t, d)) # r
        BY <1>3 DEF Served
    <2>1. DocDeleteOf(t, d) \in Request
        BY SendType DEF DocDeleteOf
    <2>. QED BY <1>3, <2>1, AnswerFields
<1>6. \A d \in Docs : FilesOf(d)' = FilesOf(d)
    BY <1>2 DEF FilesOf
<1>7. LoseRequest(r) => net' \subseteq net
    BY DEF LoseRequest
<1>8. net' \subseteq Request
    BY <1>1, <1>4, AnswerFields
<1>. QED BY <1>1, <1>2, <1>3, <1>4, <1>5, <1>6, <1>7, <1>8 DEF FilesKept

LEMMA NetworkActive ==
    ASSUME IInv, NEW r \in net, Network(r)
    PROVE  ActiveInv' /\ FreshInv'
<1>. TypeOK /\ ActiveInv /\ FreshInv
    BY InvParts
<1>. USE NetworkFrame, AnswerFields
<1>1. WorkInv' /\ OneTabInv'
    BY DEF ActiveInv, WorkInv, OneTabInv
<1>2. OneUploadInv'
    BY DEF ActiveInv, OneUploadInv, IsUpload
<1>3. UploaderInv'
    BY DEF ActiveInv, UploaderInv, IsUpload, KeyAt
<1>4. OneDeleteInv'
    BY DEF ActiveInv, OneDeleteInv, IsDelete
<1>5. FreshInv'
    BY DEF FreshInv, FilesOf
<1>. QED BY <1>1, <1>2, <1>3, <1>4, <1>5 DEF ActiveInv

LEMMA NetworkDoc ==
    ASSUME IInv, NEW r \in net, Network(r)
    PROVE  DocInv'
<1>. TypeOK /\ ActiveInv /\ DocInv
    BY InvParts
<1>. USE NetworkFrame, AnswerFields
<1>. r.doc \in Docs
    BY DEF Request
<1>0. CASE LoseRequest(r)
    <2>1. UNCHANGED <<doc, bucket>> /\ net' \subseteq net
        BY <1>0 DEF LoseRequest, stores
    <2>2. ItemInv' /\ DeletionInv'
        BY <2>1 DEF DocInv, ItemInv, DeletionInv
    <2>3. PutInv' /\ AddInv' /\ DocDeleteInv'
        BY <2>1 DEF DocInv, PutInv, AddInv, DocDeleteInv, Unserved, Request
    <2>4. RmInv'
        BY <2>1 DEF DocInv, RmInv, RmKey, Request
    <2>. QED BY <2>2, <2>3, <2>4 DEF DocInv
<1>1. CASE PutObject(r) \/ RemoveObject(r)
    <2>1. /\ UNCHANGED doc
          /\ \A p \in Paths : \/ bucket'[p] = bucket[p]
                              \/ r.op = "put" /\ bucket'[p] = r.doc
                              \/ bucket'[p] = NoDoc
          /\ RemoveObject(r) => bucket'[r.path] = NoDoc
        BY <1>1, FilesInPaths DEF PutObject, RemoveObject, TypeOK, DocInv, RmInv
    <2>2. ItemInv' /\ DeletionInv'
        BY <2>1 DEF DocInv, ItemInv, DeletionInv
    <2>3. PutInv' /\ AddInv' /\ DocDeleteInv'
        BY <1>1, <2>1 DEF DocInv, PutInv, AddInv, DocDeleteInv,
           PutObject, RemoveObject, Unserved, Request
    <2>4. RmInv'
        <3>. SUFFICES ASSUME NEW s \in net', s.op = "rm"
                      PROVE  /\ doc[s.doc] = "deleted"
                             /\ s.path \in FilesOf(s.doc)
                             /\ s.phase # "stray" =>
                                  /\ del[s.tab][s.doc] \in {"pdf", "cover"}
                                  /\ s.path = RmKey(s.tab, s.doc)
                             /\ s.phase = "answered" => bucket'[s.path] # s.doc
            BY <2>1 DEF RmInv, RmKey, Request
        <3>1. CASE s \in net
            <4>. s.doc \in Docs /\ s.path \in Paths
                BY <3>1, FilesInPaths DEF DocInv, RmInv, Request
            <4>1. r.op = "put" => r.doc # s.doc
                BY <3>1 DEF DocInv, RmInv, PutInv
            <4>. QED BY <2>1, <3>1, <4>1, ConstantsAssumption DEF DocInv, RmInv
        <3>2. CASE r.phase = "sent" /\ s = Answer(r)
            <4>. r.op = "rm" /\ r.path \in Paths
                BY <3>2, FilesInPaths DEF DocInv, RmInv
            <4>1. RemoveObject(r)
                BY <1>1, <3>2 DEF PutObject
            <4>. QED BY <2>1, <3>2, <4>1, ConstantsAssumption DEF DocInv, RmInv
        <3>. QED BY <3>1, <3>2
    <2>. QED BY <2>2, <2>3, <2>4 DEF DocInv
<1>2. CASE CommitAdd(r)
    <2>1. r.op = "add" /\ doc' = [doc EXCEPT ![r.doc] = "live"] /\ UNCHANGED bucket
        BY <1>2 DEF CommitAdd
    <2>2. doc[r.doc] = "absent" /\ stage[r.doc] \in {"add", "failed"}
        BY <2>1 DEF DocInv, AddInv, ActiveInv, UploaderInv, IsUpload, Unserved, Request
    <2>3. ItemInv'
        BY <2>1, <2>2 DEF DocInv, ItemInv, TypeOK
    <2>4. PutInv'
        BY <2>1 DEF DocInv, PutInv, ActiveInv, OneUploadInv, IsUpload, TypeOK, Request
    <2>5. AddInv'
        BY <2>1 DEF DocInv, AddInv, ActiveInv, OneUploadInv, IsUpload, Unserved, TypeOK, Request
    <2>6. DocDeleteInv'
        BY <2>1, <2>2 DEF DocInv, DocDeleteInv, TypeOK, Request
    <2>7. RmInv'
        BY <2>1, <2>2 DEF DocInv, RmInv, RmKey, TypeOK, Request
    <2>8. DeletionInv'
        BY <2>1, <2>2 DEF DocInv, DeletionInv, TypeOK
    <2>. QED BY <2>3, <2>4, <2>5, <2>6, <2>7, <2>8 DEF DocInv
<1>3. CASE CommitDelete(r)
    <2>1. r.op = "deldoc" /\ doc' = [doc EXCEPT ![r.doc] = "deleted"] /\ UNCHANGED bucket
        BY <1>3 DEF CommitDelete
    <2>2. doc[r.doc] # "absent"
        BY <2>1 DEF DocInv, DocDeleteInv
    <2>3. ItemInv'
        BY <2>1, <2>2 DEF DocInv, ItemInv, TypeOK
    <2>4. PutInv'
        BY <2>1, <2>2 DEF DocInv, PutInv, TypeOK, Request
    <2>5. AddInv'
        BY <2>1, <2>2 DEF DocInv, AddInv, Unserved, TypeOK, Request
    <2>6. DocDeleteInv'
        BY <2>1, <2>2 DEF DocInv, DocDeleteInv, TypeOK, Request
    <2>7. RmInv'
        BY <2>1, <2>2 DEF DocInv, RmInv, RmKey, TypeOK, Request
    <2>8. DeletionInv'
        BY <2>1, <2>2 DEF DocInv, DeletionInv, TypeOK
    <2>. QED BY <2>3, <2>4, <2>5, <2>6, <2>7, <2>8 DEF DocInv
<1>. QED BY <1>0, <1>1, <1>2, <1>3 DEF Network

\* Whoever overwrites or removes an object shares its key with the item that
\* put it there, or that item's document is not live.
LEMMA NetworkIntactKept ==
    ASSUME IInv, NEW r \in net, Network(r)
    PROVE  \A d \in Docs : \A p \in FilesOf(d) :
              Intact(d, p) /\ doc[d] # "deleted" => Intact(d, p)'
<1>. TypeOK /\ ActiveInv /\ DocInv
    BY InvParts
<1>. SUFFICES ASSUME NEW d \in Docs, NEW p \in FilesOf(d),
                     Intact(d, p), doc[d] # "deleted"
              PROVE  Intact(d, p)'
    OBVIOUS
<1>. USE NetworkFrame
<1>. p \in Paths
    BY FilesInPaths
<1>. r.doc \in Docs
    BY DEF Request
<1>1. CASE bucket'[p] = bucket[p] \/ bucket'[p] = d \/ Shared(d, p)
    BY <1>1, SharedKept DEF Intact
<1>2. CASE PutObject(r) /\ r.path = p /\ r.doc # d
    <2>1. p \in FilesOf(r.doc)
        BY <1>2 DEF DocInv, PutInv, PutObject
    <2>2. Shared(d, p)
        BY <1>2, <2>1 DEF Shared, DocInv, ItemInv
    <2>. QED BY <2>2, <1>1
<1>3. CASE RemoveObject(r) /\ r.path = p
    <2>1. p \in FilesOf(r.doc) /\ doc[r.doc] = "deleted"
        BY <1>3 DEF DocInv, RmInv, RemoveObject
    <2>2. Shared(d, p)
        BY <1>3, <2>1 DEF Shared, DocInv, ItemInv
    <2>. QED BY <2>2, <1>1
<1>4. CASE PutObject(r) /\ (r.path # p \/ r.doc = d)
    <2>1. bucket'[p] = bucket[p] \/ bucket'[p] = d
        BY <1>4 DEF PutObject, TypeOK
    <2>. QED BY <2>1, <1>1
<1>5. CASE ~PutObject(r) /\ ~(RemoveObject(r) /\ r.path = p)
    <2>1. bucket'[p] = bucket[p]
        BY <1>5 DEF Network, RemoveObject, CommitAdd, CommitDelete,
           LoseRequest, TypeOK, stores
    <2>. QED BY <2>1, <1>1
<1>. QED BY <1>2, <1>3, <1>4, <1>5

LEMMA NetworkIntact ==
    ASSUME IInv, NEW r \in net, Network(r)
    PROVE  IntactInv'
<1>. TypeOK /\ ActiveInv /\ DocInv /\ IntactInv
    BY InvParts
<1>. USE NetworkFrame, NetworkIntactKept, AnswerFields
<1>. r.doc \in Docs
    BY DEF Request
<1>1. \A d \in Docs : \/ doc'[d] = doc[d]
                      \/ d = r.doc /\ r.op = "add" /\ r.phase # "answered"
                           /\ doc[d] = "absent" /\ doc'[d] = "live"
                      \/ doc[d] # "absent" /\ doc'[d] = "deleted"
    BY DEF Network, PutObject, RemoveObject, CommitAdd, CommitDelete,
       LoseRequest, TypeOK, stores, DocInv, AddInv, DocDeleteInv, Unserved, Request
<1>2. PutIntact'
    <2>. SUFFICES ASSUME NEW s \in net', s.op = "put", s.phase = "answered"
                  PROVE  Intact(s.doc, s.path)'
        BY DEF PutIntact
    <2>1. CASE s \in net
        <3>1. /\ s.doc \in Docs /\ s.path \in FilesOf(s.doc)
              /\ Intact(s.doc, s.path) /\ doc[s.doc] = "absent"
            BY <2>1 DEF DocInv, PutInv, IntactInv, PutIntact, Request
        <3>. QED BY <3>1
    <2>2. CASE r.phase = "sent" /\ s = Answer(r)
        <3>1. PutObject(r) \/ LoseRequest(r)
            BY <2>2 DEF Network, RemoveObject, CommitAdd, CommitDelete
        <3>2. r.path \in Paths
            BY <2>2, FilesInPaths DEF DocInv, PutInv
        <3>3. PutObject(r) => bucket'[r.path] = r.doc
            BY <3>2 DEF PutObject, TypeOK
        <3>. QED BY <2>1, <2>2, <3>1, <3>3 DEF Intact
    <2>. QED BY <2>1, <2>2
<1>3. CoverIntact'
    <2>. SUFFICES ASSUME NEW d \in Docs, stage[d] = "cover"
                  PROVE  Intact(d, file[d].pdf)'
        BY DEF CoverIntact
    <2>1. /\ Intact(d, file[d].pdf) /\ doc[d] = "absent"
          /\ file[d].pdf \in PdfPaths
        BY DEF IntactInv, CoverIntact, DocInv, ItemInv, TypeOK
    <2>2. file[d].pdf \in FilesOf(d)
        BY <2>1, ConstantsAssumption DEF FilesOf, Paths
    <2>. QED BY <2>1, <2>2
<1>4. AddIntact'
    BY <1>1 DEF IntactInv, AddIntact
<1>5. AddSentIntact'
    <2>. SUFFICES ASSUME NEW s \in net', s.op = "add", Unserved(s),
                         NEW p \in FilesOf(s.doc)
                  PROVE  Intact(s.doc, p)'
        BY DEF AddSentIntact, Unserved, Request
    <2>1. s \in net
        BY DEF Unserved
    <2>2. s.doc \in Docs /\ doc[s.doc] = "absent" /\ Intact(s.doc, p)
        BY <2>1 DEF DocInv, AddInv, IntactInv, AddSentIntact, Request
    <2>. QED BY <2>2
<1>6. IntactOrShared'
    <2>. SUFFICES ASSUME NEW d \in Docs, doc'[d] = "live", NEW p \in FilesOf(d)
                  PROVE  Intact(d, p)'
        BY DEF IntactOrShared, Intact
    <2>1. CASE doc[d] = "live"
        BY <2>1 DEF IntactInv, IntactOrShared, Intact
    <2>2. CASE d = r.doc /\ r.op = "add" /\ r.phase # "answered" /\ doc[d] = "absent"
        BY <2>2 DEF IntactInv, AddSentIntact, Unserved, Request
    <2>. QED BY <1>1, <2>1, <2>2
<1>. QED BY <1>2, <1>3, <1>4, <1>5, <1>6 DEF IntactInv

LEMMA NetworkObject ==
    ASSUME IInv, NEW r \in net, Network(r)
    PROVE  ObjectInv'
<1>. TypeOK /\ ActiveInv /\ DocInv /\ ObjectInv
    BY InvParts
<1>. USE NetworkFrame
<1>. SUFFICES ASSUME NEW p \in Paths, bucket'[p] # NoDoc
              PROVE  LeftWithReason(p, bucket[p])'
    BY DEF ObjectInv
<1>. r.doc \in Docs
    BY DEF Request
<1>1. CASE PutObject(r) /\ p = r.path
    <2>1. bucket'[p] = r.doc /\ UNCHANGED doc
        BY <1>1 DEF PutObject, TypeOK
    <2>2. /\ r.path \in FilesOf(r.doc) /\ doc[r.doc] = "absent"
          /\ stage[r.doc] \in {"pdf", "cover", "add", "failed"}
        BY <1>1 DEF PutObject, DocInv, PutInv, ActiveInv, UploaderInv, IsUpload
    <2>. QED BY <1>1, <2>1, <2>2 DEF LeftWithReason
<1>2. CASE bucket'[p] = bucket[p]
    <2>. PICK d \in Docs : d = bucket[p]
        BY <1>2 DEF TypeOK
    <2>1. bucket'[p] = d /\ LeftWithReason(p, d)
        BY <1>2 DEF ObjectInv
    <2>2. Removing(d, p) => Removing(d, p)'
        BY <2>1 DEF Removing, RemovingBy
    <2>3. doc'[d] = doc[d] \/ (doc'[d] = "live" /\ doc[d] = "absent")
          \/ (CommitDelete(r) /\ d = r.doc)
        BY <2>1 DEF Network, PutObject, RemoveObject, CommitAdd, CommitDelete,
           LoseRequest, TypeOK, stores, DocInv, AddInv, Unserved, Request
    <2>4. CASE CommitDelete(r) /\ d = r.doc
        <3>1. r.op = "deldoc" /\ doc'[d] = "deleted" /\ net' = Served(r)
            BY <2>1, <2>4 DEF CommitDelete, TypeOK
        <3>2. CASE r.phase = "stray"
            BY <1>2, <2>1, <2>4, <3>1, <3>2 DEF LeftWithReason, DocInv, DocDeleteInv
        <3>3. CASE r.phase # "stray"
            <4>1. r = DocDeleteOf(r.tab, d)
                BY <2>4, <3>1, <3>3, Attended
                   DEF DocDeleteOf, DocInv, DocDeleteInv, Request
            <4>2. del[r.tab][d] = "doc" /\ r.phase = "sent" /\ r.tab \in Tabs
                BY <2>4, <3>1, <3>3 DEF DocInv, DocDeleteInv, Request
            <4>3. Answer(DocDeleteOf(r.tab, d)) \in net'
                BY <3>1, <4>1, <4>2 DEF Served
            <4>4. Removing(d, p)'
                BY <4>2, <4>3 DEF Removing, RemovingBy, DocDeleteOf
            <4>. QED BY <1>2, <2>1, <3>1, <4>4 DEF LeftWithReason
        <3>. QED BY <3>2, <3>3
    <2>5. CASE doc'[d] = doc[d] \/ (doc'[d] = "live" /\ doc[d] = "absent")
        BY <1>2, <2>1, <2>2, <2>5 DEF LeftWithReason
    <2>. QED BY <2>3, <2>4, <2>5
<1>3. bucket'[p] = bucket[p] \/ (PutObject(r) /\ p = r.path)
    BY DEF Network, PutObject, RemoveObject, CommitAdd, CommitDelete,
       LoseRequest, TypeOK, stores
<1>. QED BY <1>1, <1>2, <1>3

LEMMA NetworkStep ==
    ASSUME IInv, NEW r \in net, Network(r)
    PROVE  IInv'
<1>1. TypeOK'
    BY NetworkType, InvParts
<1>. QED BY <1>1, NetworkActive, NetworkDoc, NetworkIntact, NetworkObject
         DEF IInv, HandlerInv, UploadNetInv, DeleteNetInv, ActiveInv, DocInv

-----------------------------------------------------------------------------
(* Steps of the upload handler.  They leave deletes and the stores alone.  *)

UploadFrame ==
    /\ FilesKept
    /\ UNCHANGED <<del, doc, bucket, unconfirmed>>
    /\ \A t \in Tabs : shown'[t] \subseteq shown[t]
    /\ \A r \in Request : IsDelete(r) => (r \in net <=> r \in net')
    /\ \A d \in Docs :
         doc[d] = "absent" /\ stage[d] \in {"pdf", "cover", "add", "failed"}
         => stage'[d] \in {"pdf", "cover", "add", "failed"}

LEMMA UploadFrameFiles ==
    ASSUME IInv, UploadFrame, NEW d \in Docs
    PROVE  /\ FilesOf(d) # {} => file'[d] = file[d] /\ FilesOf(d)' = FilesOf(d)
           /\ doc[d] # "absent" => file'[d] = file[d] /\ FilesOf(d)' = FilesOf(d)
BY InvParts DEF UploadFrame, FilesKept, FilesOf, DocInv, ItemInv

LEMMA UploadFrameDeletes ==
    ASSUME IInv, TypeOK', UploadFrame
    PROVE  OneDeleteInv' /\ DocDeleteInv' /\ RmInv' /\ DeletionInv'
<1>. TypeOK /\ ActiveInv /\ DocInv
    BY InvParts
<1>1. /\ net' \subseteq Request /\ UNCHANGED <<del, doc, bucket, unconfirmed>>
      /\ \A r \in net' : IsDelete(r) => r \in net
    BY DEF UploadFrame, TypeOK
<1>2. OneDeleteInv'
    BY <1>1 DEF ActiveInv, OneDeleteInv, IsDelete
<1>3. DocDeleteInv'
    BY <1>1 DEF DocInv, DocDeleteInv, IsDelete
<1>4. RmInv'
    BY <1>1, UploadFrameFiles DEF DocInv, RmInv, RmKey, IsDelete, Request
<1>5. DeletionInv'
    BY <1>1, UploadFrameFiles DEF DocInv, DeletionInv, UploadFrame
<1>. QED BY <1>2, <1>3, <1>4, <1>5

LEMMA UploadFrameObjects ==
    ASSUME IInv, TypeOK', UploadFrame
    PROVE  ObjectInv' /\ IntactOrShared'
<1>. TypeOK /\ DocInv /\ ObjectInv /\ IntactInv
    BY InvParts
<1>. UNCHANGED <<del, doc, bucket, unconfirmed>>
    BY DEF UploadFrame
<1>1. ObjectInv'
    <2>. SUFFICES ASSUME NEW p \in Paths, bucket[p] # NoDoc
                  PROVE  LeftWithReason(p, bucket[p])'
        BY DEF ObjectInv
    <2>. PICK d \in Docs : d = bucket[p]
        BY DEF TypeOK
    <2>1. bucket'[p] = d /\ LeftWithReason(p, d)
        BY DEF ObjectInv
    <2>2. FilesOf(d)' = FilesOf(d) /\ file'[d] = file[d]
        BY <2>1, UploadFrameFiles DEF LeftWithReason
    <2>3. \A t \in Tabs :
            Answer(DocDeleteOf(t, d)) \in net => Answer(DocDeleteOf(t, d)) \in net'
        <3>. SUFFICES ASSUME NEW t \in Tabs, Answer(DocDeleteOf(t, d)) \in net
                      PROVE  Answer(DocDeleteOf(t, d)) \in net'
            OBVIOUS
        <3>1. DocDeleteOf(t, d) \in Request /\ DocDeleteOf(t, d).op = "deldoc"
            BY SendType, SendFields DEF DocDeleteOf
        <3>. QED BY <3>1, AnswerFields DEF UploadFrame, IsDelete
    <2>4. Removing(d, p) => Removing(d, p)'
        BY <2>2, <2>3 DEF Removing, RemovingBy, DocDeleteOf
    <2>. QED BY <2>1, <2>2, <2>4 DEF LeftWithReason, UploadFrame
<1>2. IntactOrShared'
    <2>. SUFFICES ASSUME NEW d \in Docs, doc[d] = "live", NEW p \in FilesOf(d)'
                  PROVE  bucket[p] = d \/ Shared(d, p)'
        BY DEF IntactOrShared
    <2>1. p \in FilesOf(d)
        BY UploadFrameFiles
    <2>. QED BY <2>1, SharedKept DEF IntactInv, IntactOrShared, UploadFrame
<1>. QED BY <1>1, <1>2

\* The upload requests of the item a tab works on are the one its handler
\* waits for and that one's answer.
LEMMA HandlerRequests ==
    ASSUME IInv, NEW t \in Tabs, cur[t] \in Docs,
           NEW r \in net, IsUpload(r), r.doc = cur[t]
    PROVE  /\ r.tab = t /\ r.phase # "stray"
           /\ r.op = "put" => Putting(t) /\ r \in {PutOf(t), Answer(PutOf(t))}
           /\ r.op = "add" => Adding(t) /\ r \in {AddOf(t), Answer(AddOf(t))}
<1>. TypeOK /\ ActiveInv /\ DocInv
    BY InvParts
<1>1. r \in Request
    BY DEF TypeOK
<1>2. r.phase # "stray" /\ cur[r.tab] = r.doc
    BY DEF ActiveInv, UploaderInv, WorkInv
<1>3. r.tab = t
    BY <1>1, <1>2, ConstantsAssumption DEF ActiveInv, OneTabInv, Request
<1>4. ASSUME r.op = "put" PROVE Putting(t) /\ r \in {PutOf(t), Answer(PutOf(t))}
    <2>1. stage[cur[t]] \in {"pdf", "cover"} /\ r.path = KeyAt(cur[t])
        BY <1>2, <1>4 DEF ActiveInv, UploaderInv
    <2>. QED BY <1>1, <1>2, <1>3, <1>4, <2>1, Attended DEF PutOf, Putting
<1>5. ASSUME r.op = "add" PROVE Adding(t) /\ r \in {AddOf(t), Answer(AddOf(t))}
    <2>1. stage[cur[t]] = "add" /\ r.path = NoPath
        BY <1>2, <1>5 DEF ActiveInv, UploaderInv, DocInv, AddInv
    <2>. QED BY <1>1, <1>2, <1>3, <1>5, <2>1, Attended DEF AddOf, Adding
<1>. QED BY <1>2, <1>3, <1>4, <1>5

\* An item that is new or queued has no upload request.
LEMMA NoRequestYet ==
    ASSUME IInv, NEW d \in Docs, stage[d] \in {"new", "queued"}
    PROVE  \A r \in net : IsUpload(r) => r.doc # d
<1>. TypeOK /\ ActiveInv
    BY InvParts
<1>. SUFFICES ASSUME NEW r \in net, IsUpload(r), r.doc = d
              PROVE  FALSE
    OBVIOUS
<1>1. r.tab \in Tabs
    BY DEF TypeOK, Request
<1>2. r.phase # "stray" /\ cur[r.tab] = d
    BY DEF ActiveInv, UploaderInv
<1>. QED BY <1>1, <1>2 DEF ActiveInv, WorkInv

\* r2up resolved: the next request goes out with the files so far in place.
LEMMA PutResolvedStep ==
    ASSUME IInv, NEW t \in Tabs, PutResolved(t)
    PROVE  IInv'
<1>. TypeOK /\ ActiveInv /\ DocInv /\ IntactInv /\ FreshInv
    BY InvParts
<1>. PICK d \in Docs : d = cur[t]
    BY DEF PutResolved, Putting
<1>. PICK c \in BOOLEAN : c = (stage[d] = "pdf" /\ file[d].cover # NoPath)
    OBVIOUS
<1>. PICK a : a = Answer(PutOf(t))
    OBVIOUS
<1>. PICK n : n = IF c THEN Send("put", d, file[d].cover, t)
                       ELSE Send("add", d, NoPath, t)
    OBVIOUS
<1>1. /\ stage[d] \in {"pdf", "cover"}
      /\ a \in net
      /\ stage' = [stage EXCEPT ![d] = IF c THEN "cover" ELSE "add"]
      /\ net' = (net \ {a}) \cup {n}
      /\ UNCHANGED <<file, cur, todo, del, shown, pending, doc, bucket, unconfirmed>>
    BY DEF PutResolved, Putting, stores
<1>2. TypeOK'
    BY HandlerType DEF Handler, IInv
<1>3. /\ a \in Request /\ a.op = "put" /\ a.doc = d /\ a.path = KeyAt(d)
      /\ a.phase = "answered"
    <2>1. PutOf(t) \in Request
        BY SendType DEF PutOf, KeyAt, TypeOK, Paths
    <2>. QED BY <2>1, AnswerFields, SendFields DEF PutOf
<1>4. /\ n \in Request /\ n.op = (IF c THEN "put" ELSE "add") /\ n.doc = d
      /\ n.path = (IF c THEN file[d].cover ELSE NoPath)
      /\ n.phase = "sent" /\ n.tab = t
    <2>1. file[d].cover \in Paths \cup {NoPath}
        BY DEF TypeOK, Paths
    <2>2. CASE c
        BY <2>1, <2>2, SendType, SendFields
    <2>3. CASE ~c
        BY <2>3, SendType, SendFields
    <2>. QED BY <2>2, <2>3
<1>5. \A r \in net : IsUpload(r) /\ r.doc = d => r = a
    BY <1>1, <1>3 DEF ActiveInv, OneUploadInv, IsUpload
<1>6. doc[d] = "absent" /\ Intact(d, KeyAt(d)) /\ d # NoDoc
    BY <1>1, <1>3, ConstantsAssumption DEF DocInv, PutInv, IntactInv, PutIntact
<1>7. UploadFrame /\ FilesKept
    BY <1>1, <1>3, <1>4 DEF UploadFrame, FilesKept, IsDelete, TypeOK
<1>8. \A e \in Docs : FilesOf(e)' = FilesOf(e)
    BY <1>1 DEF FilesOf
<1>9. \A e \in Docs : \A p \in FilesOf(e) : Intact(e, p) => Intact(e, p)'
    BY <1>1, <1>7, SharedKept DEF Intact
<1>10. \A r \in net' : r = n \/ (r \in net /\ r.phase \in {"sent", "answered", "stray"}
                                 /\ r.doc \in Docs /\ r.tab \in Tabs
                                 /\ (IsUpload(r) => r.doc # d))
    BY <1>1, <1>5 DEF TypeOK, Request
<1>11. WorkInv' /\ OneTabInv'
    BY <1>1 DEF ActiveInv, WorkInv, OneTabInv, TypeOK
<1>12. ItemInv'
    BY <1>1, <1>6, <1>8 DEF DocInv, ItemInv, TypeOK
<1>13. OneUploadInv'
    BY <1>4, <1>10 DEF ActiveInv, OneUploadInv, IsUpload
<1>14. UploaderInv'
    BY <1>1, <1>4, <1>10 DEF ActiveInv, UploaderInv, IsUpload, KeyAt, TypeOK
<1>15. PutInv' /\ AddInv'
    <2>1. c => n.path \in FilesOf(d)
        BY <1>4 DEF FilesOf
    <2>. QED BY <1>1, <1>4, <1>6, <1>8, <1>10, <2>1
             DEF DocInv, PutInv, AddInv, Unserved
<1>16. FilesOf(d) = {file[d].pdf, file[d].cover} \ {NoPath}
    BY DEF FilesOf
<1>17. c => Intact(d, file[d].pdf) /\ file[d].pdf \in FilesOf(d)
    <2>1. c => file[d].pdf = a.path
        BY <1>3 DEF KeyAt
    <2>. QED BY <1>1, <1>3, <1>6, <2>1 DEF DocInv, PutInv
<1>18. ~c => \A p \in FilesOf(d) : Intact(d, p)
    BY <1>1, <1>6, <1>16 DEF KeyAt, IntactInv, CoverIntact
<1>19. PutIntact'
    BY <1>4, <1>9, <1>10 DEF IntactInv, PutIntact, DocInv, PutInv, IsUpload
<1>20. CoverIntact'
    <2>. SUFFICES ASSUME NEW e \in Docs, stage'[e] = "cover"
                  PROVE  Intact(e, file[e].pdf)'
        BY DEF CoverIntact
    <2>1. Intact(e, file[e].pdf) /\ file[e].pdf \in FilesOf(e)
        <3>1. CASE e = d
            BY <1>1, <1>17, <3>1 DEF TypeOK
        <3>2. CASE e # d
            <4>1. stage[e] = "cover" /\ file[e].pdf \in PdfPaths
                BY <1>1, <3>2 DEF TypeOK, DocInv, ItemInv
            <4>. QED BY <4>1, ConstantsAssumption
                     DEF IntactInv, CoverIntact, FilesOf, Paths
        <3>. QED BY <3>1, <3>2
    <2>. QED BY <1>1, <1>9, <2>1
<1>21. AddIntact'
    BY <1>1, <1>8, <1>9, <1>18 DEF IntactInv, AddIntact, TypeOK
<1>22. AddSentIntact'
    BY <1>1, <1>4, <1>8, <1>9, <1>10, <1>18 DEF IntactInv, AddSentIntact, IsUpload, Unserved
<1>23. FreshInv'
    BY <1>8 DEF FreshInv
<1>. QED BY <1>2, <1>7, <1>11, <1>12, <1>13, <1>14, <1>15, <1>19, <1>20, <1>21,
            <1>22, <1>23, UploadFrameDeletes, UploadFrameObjects
         DEF IInv, HandlerInv, UploadNetInv, DeleteNetInv, IntactInv

\* The end of an item: d is over, of its upload requests at most a stray one
\* is left.  Then the handler ends, or begins the next item of its batch.
LEMMA EndItemStep ==
    ASSUME IInv, NEW t \in Tabs, NEW d \in Docs, d = cur[t],
           NEW outcome \in {"done", "failed"}, NEW left \in SUBSET Request,
           EndItem(t, outcome, left),
           UNCHANGED <<file, del, doc, bucket, unconfirmed>>,
           TypeOK',
           \A r \in left :
              \/ r \in net /\ (IsUpload(r) => r.doc # d)
              \/ /\ outcome = "failed" /\ doc[d] = "absent"
                 /\ r.op = "put" /\ r.phase = "stray" /\ r.doc = d
                 /\ r.path \in FilesOf(d),
           \A r, s \in left : IsUpload(r) /\ IsUpload(s) /\ r.doc = d /\ s.doc = d
                              => r = s,
           \A r \in net : IsDelete(r) => r \in left,
           outcome = "done" => doc[d] # "absent"
    PROVE  IInv'
<1>. TypeOK /\ ActiveInv /\ DocInv /\ IntactInv /\ FreshInv
    BY InvParts
<1>1. \E e \in Docs \cup {NoDoc} :
         /\ e # d
         /\ e \in Docs => /\ e \in todo[t] /\ stage[e] = "queued"
                          /\ stage' = [stage EXCEPT ![d] = outcome, ![e] = "pdf"]
                          /\ todo' = [todo EXCEPT ![t] = @ \ {e}]
                          /\ net' = left \cup {Send("put", e, file[e].pdf, t)}
         /\ e = NoDoc => /\ stage' = [stage EXCEPT ![d] = outcome]
                         /\ UNCHANGED todo
                         /\ net' = left
         /\ cur' = [cur EXCEPT ![t] = e]
    <2>1. CASE todo[t] = {}
        BY <2>1, ConstantsAssumption DEF EndItem
    <2>2. CASE todo[t] # {}
        <3>. PICK e \in todo[t] :
               /\ stage' = [stage EXCEPT ![d] = outcome, ![e] = "pdf"]
               /\ cur' = [cur EXCEPT ![t] = e]
               /\ todo' = [todo EXCEPT ![t] = @ \ {e}]
               /\ net' = left \cup {Send("put", e, file[e].pdf, t)}
            BY <2>2 DEF EndItem
        <3>1. e \in Docs /\ e # NoDoc
            BY ConstantsAssumption DEF TypeOK
        <3>2. stage[e] = "queued" /\ e # d
            BY <3>1 DEF ActiveInv, WorkInv
        <3>. QED BY <3>1, <3>2
    <2>. QED BY <2>1, <2>2
<1>. PICK e \in Docs \cup {NoDoc} :
         /\ e # d
         /\ e \in Docs => /\ e \in todo[t] /\ stage[e] = "queued"
                          /\ stage' = [stage EXCEPT ![d] = outcome, ![e] = "pdf"]
                          /\ todo' = [todo EXCEPT ![t] = @ \ {e}]
                          /\ net' = left \cup {Send("put", e, file[e].pdf, t)}
         /\ e = NoDoc => /\ stage' = [stage EXCEPT ![d] = outcome]
                         /\ UNCHANGED todo
                         /\ net' = left
         /\ cur' = [cur EXCEPT ![t] = e]
    BY <1>1
<1>. PICK n : n = Send("put", e, file[e].pdf, t)
    OBVIOUS
<1>. /\ d # NoDoc /\ stage[d] \in {"pdf", "cover", "add"}
     /\ UNCHANGED <<file, del, doc, bucket, unconfirmed>>
    BY ConstantsAssumption DEF ActiveInv, WorkInv
<1>2. /\ stage'[d] = outcome
      /\ e \in Docs => stage[e] = "queued" /\ stage'[e] = "pdf"
      /\ \A x \in Docs \ {d, e} : stage'[x] = stage[x]
      /\ cur'[t] = e
      /\ \A u \in Tabs \ {t} : cur'[u] = cur[u] /\ todo'[u] = todo[u]
      /\ todo'[t] = todo[t] \ {e} /\ (e \in Docs => e \in todo[t])
    BY ConstantsAssumption DEF TypeOK
<1>3. e \in Docs => /\ n \in Request /\ n.op = "put" /\ n.doc = e
                    /\ n.path = file[e].pdf /\ n.phase = "sent" /\ n.tab = t
    <2>. SUFFICES ASSUME e \in Docs
                  PROVE  /\ n \in Request /\ n.op = "put" /\ n.doc = e
                         /\ n.path = file[e].pdf /\ n.phase = "sent" /\ n.tab = t
        OBVIOUS
    <2>1. file[e].pdf \in Paths \cup {NoPath}
        BY DEF TypeOK, Paths
    <2>. QED BY <2>1, SendType, SendFields
<1>4. /\ \A r \in net' : r \in left \/ (e \in Docs /\ r = n)
      /\ left \subseteq net'
    <2>1. CASE e \in Docs
        BY <2>1
    <2>2. CASE e = NoDoc
        BY <2>2
    <2>. QED BY <2>1, <2>2
<1>5. e \in Docs => \A r \in left : IsUpload(r) => r.doc # e
    BY NoRequestYet
<1>6. UploadFrame /\ FilesKept
    <2>1. FilesKept
        BY <1>2, ConstantsAssumption DEF FilesKept
    <2>2. \A u \in Tabs : shown'[u] \subseteq shown[u]
        <3>1. UNCHANGED shown \/ Reload(t)
            BY DEF EndItem
        <3>2. UNCHANGED shown \/ shown' = [shown EXCEPT ![t] = {}]
            BY <3>1 DEF Reload
        <3>3. shown \in [Tabs -> SUBSET Docs]
            BY DEF TypeOK
        <3>. QED BY ONLY <3>2, <3>3
    <2>3. \A r \in Request : IsDelete(r) => (r \in net <=> r \in net')
        BY <1>3, <1>4 DEF IsDelete
    <2>4. \A x \in Docs :
            doc[x] = "absent" /\ stage[x] \in {"pdf", "cover", "add", "failed"}
            => stage'[x] \in {"pdf", "cover", "add", "failed"}
        BY <1>2
    <2>. QED BY <2>1, <2>2, <2>3, <2>4 DEF UploadFrame
<1>7. /\ \A x \in Docs : FilesOf(x)' = FilesOf(x)
      /\ \A x \in Docs : \A p \in FilesOf(x) : Intact(x, p) => Intact(x, p)'
    BY <1>6, SharedKept DEF Intact, FilesOf
<1>8. \A r \in left : r.doc \in Docs /\ r.tab \in Tabs /\ r \in Request
    BY DEF Request
<1>9. WorkInv'
    <2>. SUFFICES ASSUME NEW u \in Tabs
                  PROVE  /\ cur'[u] \in Docs => stage'[cur'[u]] \in {"pdf", "cover", "add"}
                         /\ \A x \in todo'[u] : stage'[x] = "queued"
        BY DEF WorkInv
    <2>1. CASE u = t
        <3>1. cur'[u] = e /\ todo'[u] = todo[t] \ {e}
            BY <1>2, <2>1
        <3>2. \A x \in todo[t] : x \in Docs \ {d} /\ stage[x] = "queued"
            BY DEF ActiveInv, WorkInv, TypeOK
        <3>3. e \in Docs => stage'[e] = "pdf"
            BY <1>2
        <3>4. \A x \in todo'[u] : stage'[x] = "queued"
            BY <1>2, <3>1, <3>2
        <3>. QED BY ONLY <3>1, <3>3, <3>4
    <2>2. CASE u # t
        <3>1. cur[u] # d /\ todo[u] \cap todo[t] = {}
            BY <2>2 DEF ActiveInv, OneTabInv
        <3>2. cur'[u] = cur[u] /\ todo'[u] = todo[u]
            BY <1>2, <2>2
        <3>3. /\ cur[u] \in Docs => stage[cur[u]] \in {"pdf", "cover", "add"}
              /\ \A x \in todo[u] : x \in Docs /\ stage[x] = "queued"
              /\ d \notin todo[u] /\ e \notin todo[u]
            BY <1>2, <3>1, ConstantsAssumption DEF ActiveInv, WorkInv, TypeOK
        <3>4. cur[u] \in Docs => cur[u] # e
            BY <1>2, <3>3
        <3>5. \A x \in todo'[u] : stage'[x] = "queued"
            BY <1>2, <3>2, <3>3
        <3>. QED BY <1>2, <3>1, <3>2, <3>3, <3>4, <3>5
    <2>. QED BY <2>1, <2>2
<1>10. OneTabInv'
    <2>1. \A u \in Tabs \ {t} : /\ cur[u] = e => e = NoDoc
                                /\ todo[u] \cap todo[t] = {}
        BY DEF ActiveInv, OneTabInv, WorkInv
    <2>. QED BY <1>2, <2>1 DEF ActiveInv, OneTabInv
<1>11. ItemInv'
    BY <1>2, <1>7 DEF DocInv, ItemInv
<1>12. OneUploadInv'
    <2>1. \A r, s \in left : IsUpload(r) /\ IsUpload(s) /\ r.doc = s.doc => r = s
        BY DEF ActiveInv, OneUploadInv
    <2>. QED BY <1>3, <1>4, <1>5, <2>1 DEF OneUploadInv
<1>13. UploaderInv'
    <2>. SUFFICES ASSUME NEW r \in net', IsUpload(r)
                  PROVE  IF r.phase = "stray"
                         THEN stage'[r.doc] = "failed"
                         ELSE /\ cur'[r.tab] = r.doc
                              /\ r.op = "put" => stage'[r.doc] \in {"pdf", "cover"}
                              /\ r.op = "put" => r.path = KeyAt(r.doc)'
                              /\ r.op = "add" => stage'[r.doc] = "add"
        BY DEF UploaderInv
    <2>1. CASE e \in Docs /\ r = n
        BY <1>2, <1>3, <2>1 DEF KeyAt
    <2>2. CASE r \in left /\ r.doc = d
        BY <1>2, <2>2
    <2>3. CASE r \in left /\ r.doc # d
        <3>1. r \in net /\ stage'[r.doc] = stage[r.doc]
            BY <1>2, <1>5, <1>8, <2>3
        <3>2. r.phase # "stray" => r.tab # t
            BY <2>3, <3>1 DEF ActiveInv, UploaderInv
        <3>. QED BY <1>2, <1>8, <2>3, <3>1, <3>2
                 DEF ActiveInv, UploaderInv, KeyAt
    <2>. QED BY <1>4, <2>1, <2>2, <2>3
<1>14. e \in Docs => /\ doc[e] = "absent" /\ file[e].pdf \in FilesOf(e)
    <2>1. e \in Docs => doc[e] = "absent" /\ file[e].pdf \in PdfPaths
        BY <1>2 DEF DocInv, ItemInv
    <2>. QED BY <2>1, ConstantsAssumption DEF FilesOf, Paths
<1>15. PutInv'
    BY <1>3, <1>4, <1>7, <1>8, <1>14 DEF DocInv, PutInv
<1>16. AddInv'
    BY <1>3, <1>4 DEF DocInv, AddInv, Unserved
<1>17. PutIntact'
    BY <1>3, <1>4, <1>7, <1>8 DEF IntactInv, PutIntact, DocInv, PutInv
<1>18. CoverIntact'
    <2>. SUFFICES ASSUME NEW x \in Docs, stage'[x] = "cover"
                  PROVE  Intact(x, file[x].pdf)'
        BY DEF CoverIntact
    <2>1. stage[x] = "cover" /\ file[x].pdf \in PdfPaths
        BY <1>2 DEF DocInv, ItemInv
    <2>2. Intact(x, file[x].pdf) /\ file[x].pdf \in FilesOf(x)
        BY <2>1, ConstantsAssumption DEF IntactInv, CoverIntact, FilesOf, Paths
    <2>. QED BY <1>7, <2>2
<1>19. AddIntact'
    BY <1>2, <1>7 DEF IntactInv, AddIntact
<1>20. AddSentIntact'
    BY <1>3, <1>4, <1>7, <1>8 DEF IntactInv, AddSentIntact, Unserved
<1>21. FreshInv'
    BY <1>7 DEF FreshInv
<1>. QED BY <1>6, <1>9, <1>10, <1>11, <1>12, <1>13, <1>15, <1>16, <1>17, <1>18,
            <1>19, <1>20, <1>21, UploadFrameDeletes, UploadFrameObjects
         DEF IInv, HandlerInv, UploadNetInv, DeleteNetInv, IntactInv

LEMMA PutRejectedStep ==
    ASSUME IInv, NEW t \in Tabs, PutRejected(t)
    PROVE  IInv'
<1>. TypeOK /\ ActiveInv /\ DocInv
    BY InvParts
<1>. PICK d \in Docs : d = cur[t]
    BY DEF PutRejected, Putting
<1>. PICK r : r = PutOf(t)
    OBVIOUS
<1>. PICK left : left = Abandoned(r)
    OBVIOUS
<1>1. /\ Putting(t) /\ EndItem(t, "failed", left)
      /\ UNCHANGED <<file, del, doc, bucket, unconfirmed>>
    BY DEF PutRejected, stores
<1>2. TypeOK'
    BY HandlerType DEF Handler, IInv
<1>3. left \in SUBSET Request
    BY AbandonedType
<1>4. r \in Request /\ r.op = "put" /\ r.doc = d /\ Answer(r).op = "put"
    <2>1. r \in Request
        BY SendType DEF PutOf, KeyAt, TypeOK, Paths
    <2>. QED BY <2>1, SendFields, AnswerFields DEF PutOf
<1>5. \A s \in net : IsUpload(s) /\ s.doc = d => s \in {r, Answer(r)}
    BY <1>1, HandlerRequests DEF Putting, Adding, IsUpload
<1>6. \A s \in left :
        \/ s \in net /\ s # r /\ s # Answer(r)
        \/ r \in net /\ r.phase = "sent" /\ s = Leave(r)
    BY AbandonedMembers
<1>7. r \in net => doc[d] = "absent" /\ r.path \in FilesOf(d)
    BY <1>4 DEF DocInv, PutInv
<1>8. \A s \in left :
         \/ s \in net /\ (IsUpload(s) => s.doc # d)
         \/ /\ doc[d] = "absent" /\ s.op = "put" /\ s.phase = "stray" /\ s.doc = d
            /\ s.path \in FilesOf(d) /\ s = Leave(r)
    BY <1>4, <1>5, <1>6, <1>7, LeaveFields
<1>9. \A s \in net : IsDelete(s) => s \in left
    BY <1>4 DEF Abandoned, IsDelete
<1>. QED BY <1>1, <1>2, <1>3, <1>8, <1>9, EndItemStep

LEMMA AddResolvedStep ==
    ASSUME IInv, NEW t \in Tabs, AddResolved(t)
    PROVE  IInv'
<1>. TypeOK /\ ActiveInv /\ DocInv
    BY InvParts
<1>. PICK d \in Docs : d = cur[t]
    BY DEF AddResolved, Adding
<1>. PICK a : a = Answer(AddOf(t))
    OBVIOUS
<1>. PICK left : left = net \ {a}
    OBVIOUS
<1>1. /\ a \in net /\ EndItem(t, "done", left)
      /\ UNCHANGED <<file, del, doc, bucket, unconfirmed>>
    BY DEF AddResolved, stores
<1>2. TypeOK' /\ left \in SUBSET Request
    BY HandlerType DEF Handler, IInv, TypeOK
<1>3. a.op = "add" /\ a.doc = d /\ a.phase = "answered"
    <2>1. AddOf(t) \in Request
        BY SendType DEF AddOf
    <2>. QED BY <2>1, SendFields, AnswerFields DEF AddOf
<1>4. \A s \in left : s \in net /\ (IsUpload(s) => s.doc # d)
    BY <1>1, <1>3 DEF ActiveInv, OneUploadInv, IsUpload
<1>5. doc[d] # "absent"
    BY <1>1, <1>3 DEF DocInv, AddInv, Unserved
<1>6. \A s \in net : IsDelete(s) => s \in left
    BY <1>3 DEF IsDelete
<1>. QED BY <1>1, <1>2, <1>4, <1>5, <1>6, EndItemStep

LEMMA AddRejectedStep ==
    ASSUME IInv, NEW t \in Tabs, AddRejected(t)
    PROVE  IInv'
<1>. TypeOK /\ ActiveInv /\ DocInv
    BY InvParts
<1>. PICK d \in Docs : d = cur[t]
    BY DEF AddRejected, Adding
<1>. PICK a : a = AddOf(t)
    OBVIOUS
<1>. PICK left : left = net \ {a}
    OBVIOUS
<1>1. /\ a \in net /\ EndItem(t, "failed", left)
      /\ UNCHANGED <<file, del, doc, bucket, unconfirmed>>
    BY DEF AddRejected, stores
<1>2. TypeOK' /\ left \in SUBSET Request
    BY HandlerType DEF Handler, IInv, TypeOK
<1>3. a.op = "add" /\ a.doc = d
    BY SendFields DEF AddOf
<1>4. \A s \in left : s \in net /\ (IsUpload(s) => s.doc # d)
    BY <1>1, <1>3 DEF ActiveInv, OneUploadInv, IsUpload
<1>5. \A s \in net : IsDelete(s) => s \in left
    BY <1>3 DEF IsDelete
<1>. QED BY <1>1, <1>2, <1>4, <1>5, EndItemStep

\* A batch of new items: nothing is known of them but their keys.
LEMMA StartUploadStep ==
    ASSUME IInv, NEW t \in Tabs, StartUpload(t)
    PROVE  IInv'
<1>. TypeOK /\ ActiveInv /\ DocInv /\ IntactInv /\ FreshInv
    BY InvParts
<1>1. PICK batch \in Batches :
         \E key \in [batch -> PdfPaths],
            cover \in [batch -> CoverPaths \cup {NoPath}], first \in batch :
           ValidKeys(batch, key, cover) /\ Begin(t, batch, key, cover, first)
    BY DEF StartUpload
<1>2. PICK key \in [batch -> PdfPaths],
           cover \in [batch -> CoverPaths \cup {NoPath}], first \in batch :
         ValidKeys(batch, key, cover) /\ Begin(t, batch, key, cover, first)
    BY <1>1
<1>. PICK n : n = Send("put", first, key[first], t)
    OBVIOUS
<1>3. /\ batch \subseteq Docs /\ first \in Docs
      /\ \A d \in batch : stage[d] = "new" /\ doc[d] = "absent" /\ FilesOf(d) = {}
      /\ cur[t] = NoDoc
    BY DEF Batches, StartUpload, DocInv, ItemInv
<1>4. /\ UNCHANGED <<del, shown, pending, doc, bucket, unconfirmed>>
      /\ net' = net \cup {n}
      /\ cur' = [cur EXCEPT ![t] = first]
      /\ todo' = [todo EXCEPT ![t] = batch \ {first}]
    BY <1>2 DEF Begin, stores
<1>5. /\ stage'[first] = "pdf"
      /\ \A d \in batch \ {first} : stage'[d] = "queued"
      /\ \A d \in Docs \ batch : stage'[d] = stage[d] /\ file'[d] = file[d]
      /\ \A d \in batch : file'[d] = [pdf |-> key[d], cover |-> cover[d]]
    BY <1>2, <1>3 DEF Begin
<1>6. TypeOK'
    BY HandlerType DEF Handler, IInv
<1>7. /\ n \in Request /\ n.op = "put" /\ n.doc = first /\ n.path = key[first]
      /\ n.phase = "sent" /\ n.tab = t
    BY <1>3, SendType, SendFields DEF Paths
<1>8. \A r \in net : r.doc \in Docs /\ r.tab \in Tabs /\ r \in Request
                     /\ (IsUpload(r) => r.doc \notin batch)
    BY <1>3, NoRequestYet DEF TypeOK, Request
<1>9. UploadFrame /\ FilesKept
    <2>1. FilesKept
        BY <1>3, <1>5 DEF FilesKept
    <2>2. \A r \in Request : IsDelete(r) => (r \in net <=> r \in net')
        BY <1>4, <1>7 DEF IsDelete
    <2>3. \A x \in Docs :
            doc[x] = "absent" /\ stage[x] \in {"pdf", "cover", "add", "failed"}
            => stage'[x] \in {"pdf", "cover", "add", "failed"}
        BY <1>3, <1>5
    <2>. QED BY <1>4, <2>1, <2>2, <2>3 DEF UploadFrame
<1>10. \A d \in Docs \ batch : /\ FilesOf(d)' = FilesOf(d)
                               /\ \A p : Intact(d, p) => Intact(d, p)'
    BY <1>4, <1>5, <1>9, SharedKept DEF FilesOf, Intact
<1>11. \A d \in batch :
         /\ FilesOf(d)' = {key[d], cover[d]} \ {NoPath}
         /\ key[d] \in PdfPaths /\ key[d] \in FilesOf(d)'
         /\ file'[d].pdf = key[d]
    <2>. SUFFICES ASSUME NEW d \in batch
                  PROVE  /\ FilesOf(d)' = {key[d], cover[d]} \ {NoPath}
                         /\ key[d] \in PdfPaths /\ key[d] \in FilesOf(d)'
                         /\ file'[d].pdf = key[d]
        OBVIOUS
    <2>1. file'[d].pdf = key[d] /\ file'[d].cover = cover[d]
        <3>1. file'[d] = [pdf |-> key[d], cover |-> cover[d]]
            BY <1>5
        <3>. QED BY ONLY <3>1
    <2>2. FilesOf(d)' = {key[d], cover[d]} \ {NoPath}
        BY <2>1 DEF FilesOf
    <2>. QED BY <2>1, <2>2, ConstantsAssumption DEF Paths
<1>12. \A r \in net' : r \in net \/ r = n
    BY <1>4
<1>13. WorkInv' /\ OneTabInv'
    <2>1. /\ cur'[t] = first /\ todo'[t] = batch \ {first}
          /\ \A u \in Tabs \ {t} : cur'[u] = cur[u] /\ todo'[u] = todo[u]
        BY <1>4 DEF TypeOK
    <2>2. \A u \in Tabs : /\ cur[u] \in Docs => cur[u] \notin batch
                          /\ todo[u] \cap batch = {}
        BY <1>3 DEF ActiveInv, WorkInv
    <2>3. WorkInv'
        <3>. SUFFICES ASSUME NEW u \in Tabs
                      PROVE  /\ cur'[u] \in Docs => stage'[cur'[u]] \in {"pdf", "cover", "add"}
                             /\ \A x \in todo'[u] : stage'[x] = "queued"
            BY DEF WorkInv
        <3>1. CASE u = t
            BY <1>5, <2>1, <3>1
        <3>2. CASE u # t
            <4>1. \A x \in todo[u] : x \in Docs
                BY DEF TypeOK
            <4>. QED BY <1>5, <2>1, <2>2, <3>2, <4>1 DEF ActiveInv, WorkInv
        <3>. QED BY <3>1, <3>2
    <2>4. OneTabInv'
        BY <1>3, <2>1, <2>2 DEF ActiveInv, OneTabInv
    <2>. QED BY <2>3, <2>4
<1>14. ItemInv'
    <2>. SUFFICES ASSUME NEW d \in Docs
                  PROVE  /\ stage'[d] # "new" => file'[d].pdf \in PdfPaths
                         /\ stage'[d] = "new" => FilesOf(d)' = {}
                         /\ stage'[d] = "cover" => file'[d].cover # NoPath
                         /\ doc[d] # "absent" => stage'[d] \in {"add", "done", "failed"}
        BY <1>4 DEF ItemInv
    <2>1. CASE d \in batch
        BY <1>3, <1>5, <1>11, <2>1
    <2>2. CASE d \notin batch
        BY <1>5, <1>10, <2>2 DEF DocInv, ItemInv
    <2>. QED BY <2>1, <2>2
<1>15. OneUploadInv'
    BY <1>7, <1>8, <1>12 DEF ActiveInv, OneUploadInv, IsUpload
<1>16. UploaderInv'
    <2>. SUFFICES ASSUME NEW r \in net', IsUpload(r)
                  PROVE  IF r.phase = "stray"
                         THEN stage'[r.doc] = "failed"
                         ELSE /\ cur'[r.tab] = r.doc
                              /\ r.op = "put" => stage'[r.doc] \in {"pdf", "cover"}
                              /\ r.op = "put" => r.path = KeyAt(r.doc)'
                              /\ r.op = "add" => stage'[r.doc] = "add"
        BY DEF UploaderInv
    <2>1. CASE r = n
        <3>1. cur'[t] = first /\ file'[first].pdf = key[first]
            BY <1>4, <1>11 DEF TypeOK
        <3>. QED BY <1>5, <1>7, <2>1, <3>1 DEF KeyAt
    <2>2. CASE r \in net
        <3>1. /\ stage'[r.doc] = stage[r.doc] /\ file'[r.doc] = file[r.doc]
              /\ r.doc \in Docs /\ r.tab \in Tabs
            BY <1>5, <1>8, <2>2
        <3>2. r.phase # "stray" => cur[r.tab] = r.doc /\ r.tab # t
            BY <1>3, <2>2, <3>1, ConstantsAssumption DEF ActiveInv, UploaderInv
        <3>3. r.phase # "stray" => cur'[r.tab] = r.doc
            BY <1>4, <3>1, <3>2 DEF TypeOK
        <3>. QED BY <2>2, <3>1, <3>3 DEF ActiveInv, UploaderInv, KeyAt
    <2>. QED BY <1>12, <2>1, <2>2
<1>17. PutInv'
    BY <1>3, <1>4, <1>7, <1>8, <1>10, <1>11, <1>12 DEF DocInv, PutInv, IsUpload
<1>18. AddInv'
    BY <1>4, <1>7, <1>12 DEF DocInv, AddInv, Unserved
<1>19. PutIntact'
    BY <1>7, <1>8, <1>10, <1>12 DEF IntactInv, PutIntact, IsUpload
<1>20. CoverIntact'
    <2>. SUFFICES ASSUME NEW d \in Docs, stage'[d] = "cover"
                  PROVE  Intact(d, file[d].pdf)'
        BY DEF CoverIntact
    <2>1. d \notin batch
        BY <1>5
    <2>. QED BY <1>5, <1>10, <2>1 DEF IntactInv, CoverIntact
<1>21. AddIntact'
    BY <1>4, <1>5, <1>10 DEF IntactInv, AddIntact
<1>22. AddSentIntact'
    BY <1>7, <1>8, <1>10, <1>12 DEF IntactInv, AddSentIntact, Unserved, IsUpload
<1>23. FreshInv'
    <2>. SUFFICES ASSUME ~Reuse, NEW d \in Docs, NEW e \in Docs, d # e,
                         NEW p \in FilesOf(d)', p \in FilesOf(e)'
                  PROVE  FALSE
        BY DEF FreshInv
    <2>1. CASE d \notin batch /\ e \notin batch
        BY <1>10, <2>1 DEF FreshInv
    <2>2. \A x \in batch, y \in Docs \ batch : FilesOf(x)' \cap FilesOf(y)' = {}
        BY <1>2, <1>10, <1>11 DEF ValidKeys, UsedPaths
    <2>3. CASE d \in batch /\ e \in batch
        <3>1. key[d] # key[e] /\ key[d] \in PdfPaths /\ key[e] \in PdfPaths
            BY <1>2, <2>3 DEF ValidKeys
        <3>2. /\ cover[d] \in Covers[key[d]] \cup {NoPath}
              /\ cover[e] \in Covers[key[e]] \cup {NoPath}
              /\ Covers[key[d]] \subseteq CoverPaths
              /\ Covers[key[e]] \subseteq CoverPaths
            BY <1>2, <2>3, <3>1, ConstantsAssumption DEF ValidKeys
        <3>3. Covers[key[d]] \cap Covers[key[e]] = {}
            BY <3>1, ConstantsAssumption
        <3>. QED BY <1>11, <2>3, <3>1, <3>2, <3>3, ConstantsAssumption
    <2>. QED BY <2>1, <2>2, <2>3
<1>. QED BY <1>6, <1>9, <1>13, <1>14, <1>15, <1>16, <1>17, <1>18, <1>19, <1>20,
            <1>21, <1>22, <1>23, UploadFrameDeletes, UploadFrameObjects
         DEF IInv, HandlerInv, UploadNetInv, DeleteNetInv, IntactInv

LEMMA HandlerStep ==
    ASSUME IInv, NEW t \in Tabs, Handler(t)
    PROVE  IInv'
BY StartUploadStep, PutResolvedStep, PutRejectedStep, AddResolvedStep,
   AddRejectedStep DEF Handler

-----------------------------------------------------------------------------
(* Steps of the delete handlers.  They leave uploads and the stores alone. *)

DeletionFrame ==
    /\ UNCHANGED <<stage, file, cur, todo, doc, bucket>>
    /\ \A r \in net' : IsUpload(r) => r \in net

LEMMA DeletionFrameUploads ==
    ASSUME IInv, DeletionFrame
    PROVE  HandlerInv' /\ UploadNetInv' /\ IntactInv' /\ FreshInv'
<1>. TypeOK /\ ActiveInv /\ DocInv /\ IntactInv /\ FreshInv
    BY InvParts
<1>. /\ UNCHANGED <<stage, file, cur, todo, doc, bucket>>
     /\ \A r \in net' : IsUpload(r) => r \in net
    BY DEF DeletionFrame
<1>1. /\ \A d \in Docs : FilesOf(d)' = FilesOf(d)
      /\ \A r \in net : r.doc \in Docs
    BY DEF FilesOf, TypeOK, Request
<1>2. \A d \in Docs : \A p : Intact(d, p) => Intact(d, p)'
    BY SharedKept DEF FilesKept, Intact
<1>3. HandlerInv'
    BY <1>1 DEF HandlerInv, WorkInv, OneTabInv, ItemInv, ActiveInv, DocInv
<1>4. OneUploadInv' /\ UploaderInv'
    BY DEF ActiveInv, OneUploadInv, UploaderInv, KeyAt
<1>5. PutInv' /\ AddInv'
    BY <1>1 DEF DocInv, PutInv, AddInv, IsUpload, Unserved
<1>6. PutIntact' /\ AddSentIntact'
    BY <1>1, <1>2 DEF IntactInv, PutIntact, AddSentIntact, IsUpload, Unserved
<1>7. CoverIntact' /\ AddIntact'
    BY <1>1, <1>2 DEF IntactInv, CoverIntact, AddIntact
<1>8. IntactOrShared'
    BY <1>1, <1>2 DEF IntactInv, IntactOrShared, Intact
<1>9. FreshInv'
    BY <1>1 DEF FreshInv
<1>. QED BY <1>3, <1>4, <1>5, <1>6, <1>7, <1>8, <1>9 DEF UploadNetInv, IntactInv

\* The request a delete handler waits for.
Awaited(r, t, d) == IsDelete(r) /\ r.doc = d /\ r.tab = t /\ r.phase # "stray"

\* A step of the handler of tab t for document d: what it waited for is gone,
\* left behind on record, or replaced by the request it now waits for.
LEMMA DeletionStepKeeps ==
    ASSUME IInv, TypeOK', NEW t \in Tabs, NEW d \in Docs,
           DeletionFrame,
           NEW new \in SUBSET Request,
           \A r \in net' :
              \/ r \in net /\ ~Awaited(r, t, d)
              \/ r \in new
              \/ /\ r.op = "rm" /\ r.phase = "stray" /\ r.doc = d
                 /\ r.path \in FilesOf(d) /\ doc[d] = "deleted"
                 /\ d \in unconfirmed',
           \A r \in net : Awaited(r, t, d) \/ r \in net',
           \A r, s \in new : r = s,
           \A r \in new :
              /\ r.doc = d /\ r.tab = t /\ r.phase = "sent"
              /\ \/ r.op = "deldoc" /\ r.path = NoPath /\ del'[t][d] = "doc"
                 \/ /\ r.op = "rm" /\ r.path \in FilesOf(d)
                    /\ del'[t][d] \in {"pdf", "cover"} /\ r.path = RmKey(t, d)',
           \A u \in Tabs, e \in Docs : (u = t /\ e = d) \/ del'[u][e] = del[u][e],
           del'[t][d] = "doc" => doc[d] # "absent",
           del'[t][d] \in {"pdf", "cover"} => doc[d] = "deleted",
           del'[t][d] = "cover" => file[d].cover # NoPath,
           \A u \in Tabs : shown'[u] \subseteq shown[u],
           unconfirmed \subseteq unconfirmed',
           \A p \in FilesOf(d) :
              bucket[p] = d /\ RemovingBy(t, d, p)
              => RemovingBy(t, d, p)' \/ d \in unconfirmed'
    PROVE  IInv'
<1>. TypeOK /\ ActiveInv /\ DocInv /\ ObjectInv
    BY InvParts
<1>1. /\ UNCHANGED <<stage, file, cur, todo, doc, bucket>>
      /\ \A e \in Docs : FilesOf(e)' = FilesOf(e)
    BY DEF DeletionFrame, FilesOf
<1>2. \A r \in net' : r \in Request /\ r.doc \in Docs /\ r.tab \in Tabs
    BY DEF TypeOK, Request
<1>3. OneDeleteInv'
    BY <1>2 DEF ActiveInv, OneDeleteInv, Awaited
<1>4. DocDeleteInv'
    <2>. SUFFICES ASSUME NEW r \in net', r.op = "deldoc"
                  PROVE  /\ r.path = NoPath
                         /\ doc[r.doc] # "absent"
                         /\ r.phase = "answered" => doc[r.doc] = "deleted"
                         /\ IF r.phase = "stray" THEN r.doc \in unconfirmed'
                            ELSE del'[r.tab][r.doc] = "doc"
        BY <1>1 DEF DocDeleteInv
    <2>1. CASE r \in net /\ ~Awaited(r, t, d)
        BY <1>2, <2>1 DEF DocInv, DocDeleteInv, Awaited, IsDelete
    <2>2. CASE r \in new
        BY <2>2
    <2>. QED BY <2>1, <2>2
<1>5. RmInv'
    <2>. SUFFICES ASSUME NEW r \in net', r.op = "rm"
                  PROVE  /\ doc[r.doc] = "deleted"
                         /\ r.path \in FilesOf(r.doc)
                         /\ r.phase # "stray" =>
                              /\ del'[r.tab][r.doc] \in {"pdf", "cover"}
                              /\ r.path = RmKey(r.tab, r.doc)'
                         /\ r.phase = "answered" => bucket[r.path] # r.doc
        BY <1>1, <1>2 DEF RmInv
    <2>1. CASE r \in net /\ ~Awaited(r, t, d)
        BY <1>1, <1>2, <2>1 DEF DocInv, RmInv, Awaited, IsDelete, RmKey
    <2>2. CASE r \in new
        BY <2>2
    <2>. QED BY <2>1, <2>2
<1>6. DeletionInv'
    BY <1>1 DEF DocInv, DeletionInv
<1>7. ObjectInv'
    <2>. SUFFICES ASSUME NEW p \in Paths, bucket[p] # NoDoc
                  PROVE  LeftWithReason(p, bucket[p])'
        BY <1>1 DEF ObjectInv
    <2>. PICK e \in Docs : e = bucket[p]
        BY DEF TypeOK
    <2>1. bucket'[p] = e /\ LeftWithReason(p, e)
        BY <1>1 DEF ObjectInv
    <2>2. ASSUME NEW u \in Tabs, RemovingBy(u, e, p)
          PROVE  RemovingBy(u, e, p)' \/ e \in unconfirmed'
        <3>1. CASE u = t /\ e = d
            BY <2>1, <2>2, <3>1 DEF LeftWithReason
        <3>2. CASE ~(u = t /\ e = d)
            <4>1. DocDeleteOf(u, e) \in Request
                BY SendType DEF DocDeleteOf
            <4>2. Answer(DocDeleteOf(u, e)).doc = e /\ Answer(DocDeleteOf(u, e)).tab = u
                BY <4>1, AnswerFields, SendFields DEF DocDeleteOf
            <4>3. Answer(DocDeleteOf(u, e)) \in net => Answer(DocDeleteOf(u, e)) \in net'
                BY <3>2, <4>2 DEF Awaited
            <4>4. del'[u][e] = del[u][e]
                BY <3>2
            <4>. QED BY <1>1, <2>2, <4>3, <4>4 DEF RemovingBy, DocDeleteOf
        <3>. QED BY <3>1, <3>2
    <2>3. Removing(e, p) => Removing(e, p)' \/ e \in unconfirmed'
        BY <2>2 DEF Removing
    <2>. QED BY <1>1, <2>1, <2>3 DEF LeftWithReason
<1>. QED BY <1>3, <1>4, <1>5, <1>6, <1>7, DeletionFrameUploads
         DEF IInv, DeleteNetInv

\* What a delete handler waits for is the request it sent or its answer.
LEMMA AwaitedRequest ==
    ASSUME IInv, NEW t \in Tabs, NEW d \in Docs, NEW r \in net, Awaited(r, t, d)
    PROVE  \/ del[t][d] = "doc" /\ r \in {DocDeleteOf(t, d), Answer(DocDeleteOf(t, d))}
           \/ del[t][d] \in {"pdf", "cover"} /\ r \in {RmOf(t, d), Answer(RmOf(t, d))}
<1>. TypeOK /\ ActiveInv /\ DocInv
    BY InvParts
<1>1. r \in Request
    BY DEF TypeOK
<1>2. CASE r.op = "deldoc"
    <2>1. del[t][d] = "doc" /\ r.path = NoPath
        BY <1>2 DEF DocInv, DocDeleteInv, Awaited
    <2>. QED BY <1>1, <1>2, <2>1, Attended DEF Awaited, DocDeleteOf
<1>3. CASE r.op = "rm"
    <2>1. del[t][d] \in {"pdf", "cover"} /\ r.path = RmKey(t, d)
        BY <1>3 DEF DocInv, RmInv, Awaited
    <2>. QED BY <1>1, <1>3, <2>1, Attended DEF Awaited, RmOf
<1>. QED BY <1>2, <1>3 DEF Awaited, IsDelete

LEMMA DocDeleteFields ==
    ASSUME NEW t \in Tabs, NEW d \in Docs
    PROVE  LET r == DocDeleteOf(t, d) IN
           /\ r \in Request /\ Answer(r) \in Request
           /\ r.op = "deldoc" /\ r.doc = d /\ r.path = NoPath /\ r.tab = t
           /\ r.phase = "sent" /\ Awaited(r, t, d)
           /\ Answer(r).op = "deldoc" /\ Answer(r).doc = d /\ Answer(r).tab = t
           /\ Answer(r).phase = "answered" /\ Awaited(Answer(r), t, d)
<1>1. DocDeleteOf(t, d) \in Request
    BY SendType DEF DocDeleteOf
<1>. QED BY <1>1, SendFields, AnswerFields DEF DocDeleteOf, Awaited, IsDelete

LEMMA RmFields ==
    ASSUME TypeOK, NEW t \in Tabs, NEW d \in Docs
    PROVE  LET r == RmOf(t, d) IN
           /\ r \in Request /\ Answer(r) \in Request
           /\ r.op = "rm" /\ r.doc = d /\ r.path = RmKey(t, d) /\ r.tab = t
           /\ r.phase = "sent" /\ Awaited(r, t, d)
           /\ Answer(r).op = "rm" /\ Answer(r).doc = d /\ Answer(r).tab = t
           /\ Answer(r).path = RmKey(t, d)
           /\ Answer(r).phase = "answered" /\ Awaited(Answer(r), t, d)
<1>1. RmOf(t, d) \in Request
    BY SendType DEF RmOf, RmKey, TypeOK, Paths
<1>. QED BY <1>1, SendFields, AnswerFields DEF RmOf, Awaited, IsDelete

LEMMA ClickDeleteStep ==
    ASSUME IInv, NEW t \in Tabs, NEW d \in Docs, ClickDelete(t, d)
    PROVE  IInv'
<1>. TypeOK /\ DocInv
    BY InvParts
<1>. PICK n : n = DocDeleteOf(t, d)
    OBVIOUS
<1>1. TypeOK'
    BY DeletionType DEF Deletion, IInv
<1>2. /\ del[t][d] = "idle" /\ doc[d] # "absent"
      /\ net' = net \cup {n}
      /\ UNCHANGED <<stage, file, cur, todo, shown, doc, bucket, unconfirmed>>
    BY DEF ClickDelete, stores, DocInv, DeletionInv
<1>3. /\ n \in Request /\ n.op = "deldoc" /\ n.doc = d /\ n.path = NoPath
      /\ n.tab = t /\ n.phase = "sent"
    BY DocDeleteFields
<1>4. /\ del'[t][d] = "doc"
      /\ \A u \in Tabs, e \in Docs : (u = t /\ e = d) \/ del'[u][e] = del[u][e]
    BY DEF ClickDelete, TypeOK
<1>5. \A r \in net : ~Awaited(r, t, d)
    BY <1>2, AwaitedRequest
<1>6. DeletionFrame
    BY <1>2, <1>3 DEF DeletionFrame, IsUpload
<1>7. \A p \in FilesOf(d) : ~RemovingBy(t, d, p)
    BY <1>2 DEF RemovingBy
<1>8. {n} \in SUBSET Request
    BY <1>3
<1>. QED BY <1>1, <1>2, <1>3, <1>4, <1>5, <1>6, <1>7, <1>8, DeletionStepKeeps

LEMMA DeleteDocResolvedStep ==
    ASSUME IInv, NEW t \in Tabs, NEW d \in Docs, DeleteDocResolved(t, d)
    PROVE  IInv'
<1>. TypeOK /\ ActiveInv /\ DocInv
    BY InvParts
<1>. PICK a : a = Answer(DocDeleteOf(t, d))
    OBVIOUS
<1>. PICK n : n = Send("rm", d, file[d].pdf, t)
    OBVIOUS
<1>1. TypeOK'
    BY DeletionType DEF Deletion, IInv
<1>2. /\ del[t][d] = "doc" /\ a \in net
      /\ net' = (net \ {a}) \cup {n}
      /\ UNCHANGED <<stage, file, cur, todo, shown, doc, bucket, unconfirmed>>
    BY DEF DeleteDocResolved, stores
<1>3. a.op = "deldoc" /\ a.doc = d /\ a.phase = "answered" /\ Awaited(a, t, d)
    BY DocDeleteFields
<1>4. file[d].pdf \in FilesOf(d) /\ file[d].pdf \in Paths /\ doc[d] = "deleted"
    <2>1. doc[d] = "deleted"
        BY <1>2, <1>3 DEF DocInv, DocDeleteInv
    <2>2. file[d].pdf \in PdfPaths
        BY <2>1 DEF DocInv, ItemInv
    <2>. QED BY <2>1, <2>2, ConstantsAssumption DEF FilesOf, Paths
<1>5. /\ n \in Request /\ n.op = "rm" /\ n.doc = d /\ n.path = file[d].pdf
      /\ n.tab = t /\ n.phase = "sent"
    BY <1>4, SendType, SendFields
<1>6. /\ del'[t][d] = "pdf"
      /\ \A u \in Tabs, e \in Docs : (u = t /\ e = d) \/ del'[u][e] = del[u][e]
    BY DEF DeleteDocResolved, TypeOK
<1>7. \A r \in net : Awaited(r, t, d) => r = a
    BY <1>2, <1>3 DEF ActiveInv, OneDeleteInv, Awaited
<1>8. DeletionFrame
    BY <1>2, <1>5 DEF DeletionFrame, IsUpload
<1>9. \A p \in FilesOf(d) : RemovingBy(t, d, p)'
    BY <1>6 DEF RemovingBy
<1>10. RmKey(t, d)' = file[d].pdf
    BY <1>2, <1>6 DEF RmKey
<1>11. \A r \in net' : (r \in net /\ ~Awaited(r, t, d)) \/ r \in {n}
    BY <1>2, <1>7
<1>12. \A r \in net : Awaited(r, t, d) \/ r \in net'
    BY <1>2, <1>3
<1>13. \A r \in {n} : /\ r.doc = d /\ r.tab = t /\ r.phase = "sent"
                      /\ r.op = "rm" /\ r.path \in FilesOf(d)
                      /\ del'[t][d] \in {"pdf", "cover"} /\ r.path = RmKey(t, d)'
    BY <1>4, <1>5, <1>6, <1>10
<1>14. {n} \in SUBSET Request /\ \A r, s \in {n} : r = s
    BY <1>5
<1>. QED BY <1>1, <1>2, <1>4, <1>6, <1>8, <1>9, <1>11, <1>12, <1>13, <1>14,
            DeletionStepKeeps

LEMMA DeleteDocRejectedStep ==
    ASSUME IInv, NEW t \in Tabs, NEW d \in Docs, DeleteDocRejected(t, d)
    PROVE  IInv'
<1>. TypeOK /\ ActiveInv /\ DocInv
    BY InvParts
<1>. PICK a : a = DocDeleteOf(t, d)
    OBVIOUS
<1>1. TypeOK'
    BY DeletionType DEF Deletion, IInv
<1>2. /\ del[t][d] = "doc" /\ a \in net
      /\ net' = net \ {a}
      /\ UNCHANGED <<stage, file, cur, todo, shown, doc, bucket, unconfirmed>>
    BY DEF DeleteDocRejected, stores
<1>3. /\ a.op = "deldoc" /\ a.doc = d /\ a.phase = "sent" /\ Awaited(a, t, d)
      /\ Awaited(Answer(a), t, d) /\ Answer(a).phase = "answered"
    BY DocDeleteFields
<1>4. /\ del'[t][d] = "idle"
      /\ \A u \in Tabs, e \in Docs : (u = t /\ e = d) \/ del'[u][e] = del[u][e]
    BY DEF DeleteDocRejected, TypeOK
<1>5. \A r \in net : Awaited(r, t, d) => r = a
    BY <1>2, <1>3 DEF ActiveInv, OneDeleteInv, Awaited
<1>6. DeletionFrame
    BY <1>2 DEF DeletionFrame
<1>7. \A p \in FilesOf(d) : ~RemovingBy(t, d, p)
    <2>1. Answer(a) \notin net
        BY <1>3, <1>5
    <2>. QED BY <1>2, <2>1 DEF RemovingBy
<1>8. \A r \in net' : r \in net /\ ~Awaited(r, t, d)
    BY <1>2, <1>5
<1>9. \A r \in net : Awaited(r, t, d) \/ r \in net'
    BY <1>2, <1>3
<1>10. {} \in SUBSET Request
    OBVIOUS
<1>. QED BY <1>1, <1>2, <1>4, <1>6, <1>7, <1>8, <1>9, <1>10, DeletionStepKeeps

\* r2del returns, whatever it was told: gone is what it waited for.
LEMMA RemoveNextStep ==
    ASSUME IInv, NEW t \in Tabs, NEW d \in Docs,
           del[t][d] \in {"pdf", "cover"},
           NEW left \in SUBSET Request,
           RemoveNext(t, d, left),
           TypeOK',
           UNCHANGED <<stage, file, cur, todo, doc, bucket>>,
           unconfirmed \subseteq unconfirmed',
           \A r \in left :
              \/ r \in net /\ ~Awaited(r, t, d)
              \/ /\ r.op = "rm" /\ r.phase = "stray" /\ r.doc = d
                 /\ r.path \in FilesOf(d) /\ doc[d] = "deleted"
                 /\ d \in unconfirmed',
           \A r \in net : Awaited(r, t, d) \/ r \in left,
           bucket[RmKey(t, d)] # d \/ d \in unconfirmed'
    PROVE  IInv'
<1>. TypeOK /\ DocInv
    BY InvParts
<1>1. doc[d] = "deleted"
    BY DEF DocInv, DeletionInv
<1>2. CASE del[t][d] = "pdf" /\ file[d].cover # NoPath
    <2>. PICK n : n = Send("rm", d, file[d].cover, t)
        OBVIOUS
    <2>1. /\ net' = left \cup {n}
          /\ UNCHANGED <<shown, pending>>
          /\ del' = [del EXCEPT ![t][d] = "cover"]
        BY <1>2 DEF RemoveNext
    <2>2. file[d].cover \in FilesOf(d) /\ file[d].cover \in Paths
        BY <1>2 DEF FilesOf, TypeOK, Paths
    <2>3. /\ n \in Request /\ n.op = "rm" /\ n.doc = d /\ n.path = file[d].cover
          /\ n.tab = t /\ n.phase = "sent"
        BY <2>2, SendType, SendFields
    <2>4. /\ del'[t][d] = "cover"
          /\ \A u \in Tabs, e \in Docs : (u = t /\ e = d) \/ del'[u][e] = del[u][e]
        BY <2>1 DEF TypeOK
    <2>5. DeletionFrame
        BY <2>1, <2>3 DEF DeletionFrame, IsUpload
    <2>6. RmKey(t, d)' = file[d].cover
        BY <2>4 DEF RmKey
    <2>7. \A p \in FilesOf(d) : bucket[p] = d => RemovingBy(t, d, p)' \/ d \in unconfirmed'
        BY <1>2, <2>4 DEF RemovingBy, RmKey, FilesOf
    <2>8. \A r \in {n} : /\ r.doc = d /\ r.tab = t /\ r.phase = "sent"
                         /\ r.op = "rm" /\ r.path \in FilesOf(d)
                         /\ del'[t][d] \in {"pdf", "cover"} /\ r.path = RmKey(t, d)'
        BY <2>2, <2>3, <2>4, <2>6
    <2>9. {n} \in SUBSET Request /\ \A r, s \in {n} : r = s
        BY <2>3
    <2>10. /\ \A r \in net' :
                \/ r \in net /\ ~Awaited(r, t, d)
                \/ r \in {n}
                \/ /\ r.op = "rm" /\ r.phase = "stray" /\ r.doc = d
                   /\ r.path \in FilesOf(d) /\ doc[d] = "deleted"
                   /\ d \in unconfirmed'
           /\ \A r \in net : Awaited(r, t, d) \/ r \in net'
        BY <2>1
    <2>11. \A u \in Tabs : shown'[u] \subseteq shown[u]
        BY <2>1
    <2>. QED BY <1>1, <1>2, <2>4, <2>5, <2>7, <2>8, <2>9, <2>10, <2>11,
                DeletionStepKeeps
<1>3. CASE ~(del[t][d] = "pdf" /\ file[d].cover # NoPath)
    <2>1. net' = left /\ Reload(t) /\ del' = [del EXCEPT ![t][d] = "idle"]
        BY <1>3 DEF RemoveNext
    <2>2. \A u \in Tabs : shown'[u] \subseteq shown[u]
        BY <2>1 DEF Reload, TypeOK
    <2>3. /\ del'[t][d] = "idle"
          /\ \A u \in Tabs, e \in Docs : (u = t /\ e = d) \/ del'[u][e] = del[u][e]
        BY <2>1 DEF TypeOK
    <2>4. DeletionFrame
        BY <2>1 DEF DeletionFrame, IsUpload
    <2>5. \A p \in FilesOf(d) : bucket[p] = d /\ RemovingBy(t, d, p) => d \in unconfirmed'
        BY <1>3 DEF RemovingBy, RmKey, FilesOf
    <2>6. {} \in SUBSET Request
        OBVIOUS
    <2>. QED BY <2>1, <2>2, <2>3, <2>4, <2>5, <2>6, DeletionStepKeeps
<1>. QED BY <1>2, <1>3

LEMMA RemoveAnsweredStep ==
    ASSUME IInv, NEW t \in Tabs, NEW d \in Docs, RemoveAnswered(t, d)
    PROVE  IInv'
<1>. TypeOK /\ ActiveInv /\ DocInv
    BY InvParts
<1>. PICK a : a = Answer(RmOf(t, d))
    OBVIOUS
<1>. PICK left : left = net \ {a}
    OBVIOUS
<1>1. TypeOK'
    BY DeletionType DEF Deletion, IInv
<1>2. /\ del[t][d] \in {"pdf", "cover"} /\ a \in net
      /\ RemoveNext(t, d, left)
      /\ UNCHANGED <<stage, file, cur, todo, doc, bucket, unconfirmed>>
    BY DEF RemoveAnswered, stores
<1>3. /\ a.op = "rm" /\ a.doc = d /\ a.path = RmKey(t, d)
      /\ a.phase = "answered" /\ Awaited(a, t, d)
    BY RmFields
<1>4. bucket[RmKey(t, d)] # d
    BY <1>2, <1>3 DEF DocInv, RmInv
<1>5. \A r \in net : Awaited(r, t, d) => r = a
    BY <1>2, <1>3 DEF ActiveInv, OneDeleteInv, Awaited
<1>6. left \in SUBSET Request
    BY DEF TypeOK
<1>7. /\ \A r \in left : r \in net /\ ~Awaited(r, t, d)
      /\ \A r \in net : Awaited(r, t, d) \/ r \in left
    BY <1>3, <1>5
<1>. QED BY <1>1, <1>2, <1>4, <1>6, <1>7, RemoveNextStep

LEMMA RemoveErroredStep ==
    ASSUME IInv, NEW t \in Tabs, NEW d \in Docs, RemoveErrored(t, d)
    PROVE  IInv'
<1>. TypeOK /\ ActiveInv /\ DocInv
    BY InvParts
<1>. PICK a : a = RmOf(t, d)
    OBVIOUS
<1>. PICK left : left = Abandoned(a)
    OBVIOUS
<1>1. TypeOK'
    BY DeletionType DEF Deletion, IInv
<1>2. /\ del[t][d] \in {"pdf", "cover"}
      /\ RemoveNext(t, d, left)
      /\ UNCHANGED <<stage, file, cur, todo, doc, bucket>>
      /\ unconfirmed' = unconfirmed \cup {d}
    BY DEF RemoveErrored, stores
<1>3. /\ a \in Request /\ a.op = "rm" /\ a.doc = d /\ a.path = RmKey(t, d)
      /\ a.phase = "sent" /\ Awaited(a, t, d) /\ Awaited(Answer(a), t, d)
    BY RmFields
<1>4. a \in net => a.path \in FilesOf(d) /\ doc[d] = "deleted"
    BY <1>3 DEF DocInv, RmInv
<1>5. \A r \in net : Awaited(r, t, d) => r \in {a, Answer(a)}
    BY <1>2, AwaitedRequest
<1>6. left \in SUBSET Request
    BY AbandonedType
<1>7. \A r \in left :
        \/ r \in net /\ r # a /\ r # Answer(a)
        \/ a \in net /\ r = Leave(a)
    BY AbandonedMembers
<1>8. \A r \in left :
         \/ r \in net /\ ~Awaited(r, t, d)
         \/ /\ r.op = "rm" /\ r.phase = "stray" /\ r.doc = d
            /\ r.path \in FilesOf(d) /\ doc[d] = "deleted"
    BY <1>3, <1>4, <1>5, <1>7, LeaveFields
<1>9. \A r \in net : Awaited(r, t, d) \/ r \in left
    BY <1>3 DEF Abandoned
<1>. QED BY <1>1, <1>2, <1>6, <1>8, <1>9, RemoveNextStep

LEMMA DeletionStep ==
    ASSUME IInv, NEW t \in Tabs, NEW d \in Docs, Deletion(t, d)
    PROVE  IInv'
BY ClickDeleteStep, DeleteDocResolvedStep, DeleteDocRejectedStep,
   RemoveAnsweredStep, RemoveErroredStep DEF Deletion

-----------------------------------------------------------------------------
(* Steps of the page.                                                      *)

LEMMA ListStep ==
    ASSUME IInv, NEW t \in Tabs, ListLoaded(t) \/ ListFailed(t)
    PROVE  IInv'
<1>. TypeOK /\ ActiveInv /\ DocInv /\ ObjectInv
    BY InvParts
<1>1. TypeOK'
    BY PageType DEF Page, IInv
<1>2. /\ UNCHANGED <<stage, file, cur, todo, del, net, doc, bucket, unconfirmed>>
      /\ \A u \in Tabs : \A d \in shown'[u] :
            d \in Docs /\ (d \in shown[u] \/ doc[d] # "absent")
    <2>1. CASE ListLoaded(t)
        BY <2>1 DEF ListLoaded, TypeOK, stores
    <2>2. CASE ListFailed(t)
        BY <2>2 DEF ListFailed, TypeOK, stores
    <2>. QED BY <2>1, <2>2
<1>3. DeletionFrame
    BY <1>2 DEF DeletionFrame
<1>4. OneDeleteInv' /\ DocDeleteInv'
    BY <1>2 DEF ActiveInv, DocInv, OneDeleteInv, DocDeleteInv
<1>5. RmInv'
    BY <1>2 DEF DocInv, RmInv, RmKey, FilesOf
<1>6. DeletionInv'
    BY <1>2 DEF DocInv, DeletionInv
<1>7. ObjectInv'
    BY <1>2 DEF ObjectInv, LeftWithReason, Removing, RemovingBy, FilesOf, DocDeleteOf
<1>. QED BY <1>1, <1>3, <1>4, <1>5, <1>6, <1>7, DeletionFrameUploads
         DEF IInv, DeleteNetInv

\* What is left of the requests of a closed tab is stray.
LEMMA CloseTabStep ==
    ASSUME IInv, NEW t \in Tabs, CloseTab(t)
    PROVE  IInv'
<1>. TypeOK /\ ActiveInv /\ DocInv /\ IntactInv /\ ObjectInv /\ FreshInv
    BY InvParts
<1>1. TypeOK'
    BY PageType DEF Page, IInv
<1>. UNCHANGED <<file, doc, bucket>>
    BY DEF CloseTab, stores
<1>2. /\ unconfirmed \subseteq unconfirmed'
      /\ \A d \in Docs : del[t][d] # "idle" => d \in unconfirmed'
    BY DEF CloseTab
<1>3. /\ cur'[t] = NoDoc /\ todo'[t] = {} /\ shown'[t] = {}
      /\ \A d \in Docs : del'[t][d] = "idle"
      /\ \A u \in Tabs \ {t} : /\ cur'[u] = cur[u] /\ todo'[u] = todo[u]
                               /\ shown'[u] = shown[u] /\ del'[u] = del[u]
    BY DEF CloseTab, Reload, TypeOK
<1>4. \A d \in Docs :
        /\ d = cur[t] \/ d \in todo[t] => stage'[d] = "failed"
        /\ d # cur[t] /\ d \notin todo[t] => stage'[d] = stage[d]
    BY DEF CloseTab
<1>5. \A r \in net' :
        \/ r \in net /\ (r.tab # t \/ r.phase = "stray")
        \/ \E s \in net : s.tab = t /\ s.phase = "sent" /\ r = Leave(s)
    <2>1. PICK left \in SUBSET Unattended({r \in net : r.tab = t}) :
            net' = {r \in net : r.tab # t} \cup Stray \cup left
        BY DEF CloseTab
    <2>2. \A r \in left :
            \E s \in {q \in net : q.tab = t} : s.phase = "sent" /\ r = Leave(s)
        BY UnattendedMembers
    <2>. QED BY <2>1, <2>2 DEF Stray
<1>6. \A r \in net : r.tab # t => r \in net'
    BY DEF CloseTab
<1>7. \A r \in net :
        /\ r \in Request /\ r.doc \in Docs /\ r.tab \in Tabs
        /\ Leave(r).op = r.op /\ Leave(r).doc = r.doc /\ Leave(r).path = r.path
        /\ Leave(r).tab = r.tab /\ Leave(r).phase = "stray"
    BY LeaveFields DEF TypeOK, Request
\* Each request stems from one of the same item, operation and key.
<1>8. \A r \in net' : \E s \in net :
        /\ r.op = s.op /\ r.doc = s.doc /\ r.path = s.path /\ r.tab = s.tab
        /\ Unserved(r) <=> Unserved(s)
        /\ r = IF s.tab = t /\ s.phase = "sent" THEN Leave(s) ELSE s
        /\ r.phase # "stray" => r = s /\ s.tab # t
    BY <1>5, <1>7 DEF Unserved
<1>9. \A d \in Docs : stage[d] # "new" => stage'[d] # "new"
    BY <1>4
<1>10. /\ FilesKept /\ \A d \in Docs : FilesOf(d)' = FilesOf(d)
       /\ \A d \in Docs : \A p : Intact(d, p) => Intact(d, p)'
    <2>1. FilesKept /\ \A d \in Docs : FilesOf(d)' = FilesOf(d)
        BY <1>9 DEF FilesKept, FilesOf
    <2>. QED BY <2>1, SharedKept DEF Intact
<1>11. WorkInv' /\ OneTabInv'
    <2>1. \A u \in Tabs \ {t} :
            /\ cur[u] \in Docs => cur[u] # cur[t] /\ cur[u] \notin todo[t]
            /\ \A d \in todo[u] : d \in Docs /\ d # cur[t] /\ d \notin todo[t]
        <3>. SUFFICES ASSUME NEW u \in Tabs \ {t}
                      PROVE  /\ cur[u] \in Docs => cur[u] # cur[t] /\ cur[u] \notin todo[t]
                             /\ \A d \in todo[u] : d \in Docs /\ d # cur[t] /\ d \notin todo[t]
            OBVIOUS
        <3>1. cur[u] \in Docs => cur[u] # cur[t]
            BY ConstantsAssumption DEF ActiveInv, OneTabInv
        <3>2. cur[u] \in Docs => stage[cur[u]] # "queued"
            BY DEF ActiveInv, WorkInv
        <3>3. \A d \in todo[t] : stage[d] = "queued"
            BY DEF ActiveInv, WorkInv
        <3>4. \A d \in todo[u] : d \in Docs /\ stage[d] = "queued"
            BY DEF ActiveInv, WorkInv, TypeOK
        <3>5. cur[t] \in Docs => stage[cur[t]] # "queued"
            BY DEF ActiveInv, WorkInv
        <3>6. todo[u] \cap todo[t] = {}
            BY DEF ActiveInv, OneTabInv
        <3>. QED BY <3>1, <3>2, <3>3, <3>4, <3>5, <3>6
    <2>2. WorkInv'
        <3>. SUFFICES ASSUME NEW u \in Tabs
                      PROVE  /\ cur'[u] \in Docs => stage'[cur'[u]] \in {"pdf", "cover", "add"}
                             /\ \A x \in todo'[u] : stage'[x] = "queued"
            BY DEF WorkInv
        <3>1. CASE u = t
            BY <1>3, <3>1, ConstantsAssumption
        <3>2. CASE u # t
            BY <1>3, <1>4, <2>1, <3>2 DEF ActiveInv, WorkInv
        <3>. QED BY <3>1, <3>2
    <2>3. OneTabInv'
        BY <1>3 DEF ActiveInv, OneTabInv
    <2>. QED BY <2>2, <2>3
<1>12. ItemInv'
    BY <1>4, <1>10 DEF DocInv, ItemInv, ActiveInv, WorkInv
<1>13. OneUploadInv'
    <2>. SUFFICES ASSUME NEW r \in net', NEW s \in net', IsUpload(r), IsUpload(s),
                         r.doc = s.doc
                  PROVE  r = s
        BY DEF OneUploadInv
    <2>1. PICK a \in net : /\ r.op = a.op /\ r.doc = a.doc
                           /\ r = IF a.tab = t /\ a.phase = "sent" THEN Leave(a) ELSE a
        BY <1>8
    <2>2. PICK b \in net : /\ s.op = b.op /\ s.doc = b.doc
                           /\ s = IF b.tab = t /\ b.phase = "sent" THEN Leave(b) ELSE b
        BY <1>8
    <2>3. a = b
        BY <2>1, <2>2 DEF ActiveInv, OneUploadInv, IsUpload
    <2>. QED BY <2>1, <2>2, <2>3
<1>14. UploaderInv'
    <2>. SUFFICES ASSUME NEW r \in net', IsUpload(r)
                  PROVE  IF r.phase = "stray"
                         THEN stage'[r.doc] = "failed"
                         ELSE /\ cur'[r.tab] = r.doc
                              /\ r.op = "put" => stage'[r.doc] \in {"pdf", "cover"}
                              /\ r.op = "put" => r.path = KeyAt(r.doc)'
                              /\ r.op = "add" => stage'[r.doc] = "add"
        BY DEF UploaderInv
    <2>1. CASE r \in net /\ r.phase = "stray"
        BY <1>4, <1>7, <2>1 DEF ActiveInv, UploaderInv
    <2>2. CASE r \in net /\ r.phase # "stray" /\ r.tab # t
        <3>1. /\ cur[r.tab] = r.doc /\ r.doc \in Docs /\ r.tab \in Tabs
              /\ cur'[r.tab] = cur[r.tab]
            BY <1>3, <1>7, <2>2 DEF ActiveInv, UploaderInv
        <3>2. r.doc # cur[t] /\ r.doc \notin todo[t]
            BY <2>2, <3>1, ConstantsAssumption DEF ActiveInv, WorkInv, OneTabInv
        <3>3. stage'[r.doc] = stage[r.doc]
            BY <1>4, <3>1, <3>2
        <3>. QED BY <2>2, <3>1, <3>3 DEF ActiveInv, UploaderInv, KeyAt
    <2>3. CASE \E s \in net : s.tab = t /\ s.phase = "sent" /\ r = Leave(s)
        <3>. PICK s \in net : s.tab = t /\ s.phase = "sent" /\ r = Leave(s)
            BY <2>3
        <3>1. cur[t] = s.doc /\ r.doc = s.doc /\ s.doc \in Docs /\ r.phase = "stray"
            BY <1>7 DEF ActiveInv, UploaderInv, IsUpload
        <3>. QED BY <1>4, <3>1
    <2>. QED BY <1>5, <2>1, <2>2, <2>3
<1>15. PutInv' /\ AddInv'
    BY <1>7, <1>8, <1>10 DEF DocInv, PutInv, AddInv
<1>16. OneDeleteInv'
    BY <1>8 DEF ActiveInv, OneDeleteInv, IsDelete
<1>17. DocDeleteInv'
    <2>. SUFFICES ASSUME NEW r \in net', r.op = "deldoc"
                  PROVE  /\ r.path = NoPath
                         /\ doc[r.doc] # "absent"
                         /\ r.phase = "answered" => doc[r.doc] = "deleted"
                         /\ IF r.phase = "stray" THEN r.doc \in unconfirmed'
                            ELSE del'[r.tab][r.doc] = "doc"
        BY DEF DocDeleteInv
    <2>1. CASE r \in net /\ (r.tab # t \/ r.phase = "stray")
        BY <1>2, <1>3, <1>7, <2>1 DEF DocInv, DocDeleteInv
    <2>2. CASE \E s \in net : s.tab = t /\ s.phase = "sent" /\ r = Leave(s)
        BY <1>2, <1>7, <2>2 DEF DocInv, DocDeleteInv
    <2>. QED BY <1>5, <2>1, <2>2
<1>18. RmInv'
    <2>. SUFFICES ASSUME NEW r \in net', r.op = "rm"
                  PROVE  /\ doc[r.doc] = "deleted"
                         /\ r.path \in FilesOf(r.doc)'
                         /\ r.phase # "stray" =>
                              /\ del'[r.tab][r.doc] \in {"pdf", "cover"}
                              /\ r.path = RmKey(r.tab, r.doc)'
                         /\ r.phase = "answered" => bucket[r.path] # r.doc
        BY DEF RmInv
    <2>1. CASE r \in net /\ (r.tab # t \/ r.phase = "stray")
        BY <1>3, <1>7, <1>10, <2>1 DEF DocInv, RmInv, RmKey
    <2>2. CASE \E s \in net : s.tab = t /\ s.phase = "sent" /\ r = Leave(s)
        BY <1>7, <1>10, <2>2 DEF DocInv, RmInv
    <2>. QED BY <1>5, <2>1, <2>2
<1>19. DeletionInv'
    <2>. SUFFICES ASSUME NEW u \in Tabs, NEW d \in Docs
                  PROVE  /\ d \in shown'[u] => doc[d] # "absent"
                         /\ del'[u][d] = "doc" => doc[d] # "absent"
                         /\ del'[u][d] \in {"pdf", "cover"} => doc[d] = "deleted"
                         /\ del'[u][d] = "cover" => file[d].cover # NoPath
        BY DEF DeletionInv
    <2>1. CASE u = t
        BY <1>3, <2>1
    <2>2. CASE u # t
        BY <1>3, <2>2 DEF DocInv, DeletionInv
    <2>. QED BY <2>1, <2>2
<1>20. PutIntact' /\ AddSentIntact'
    <2>1. PutIntact'
        BY <1>7, <1>8, <1>10 DEF IntactInv, PutIntact
    <2>2. AddSentIntact'
        BY <1>7, <1>8, <1>10 DEF IntactInv, AddSentIntact
    <2>. QED BY <2>1, <2>2
<1>21. CoverIntact' /\ AddIntact'
    BY <1>4, <1>10 DEF IntactInv, CoverIntact, AddIntact
<1>22. IntactOrShared'
    BY <1>10 DEF IntactInv, IntactOrShared, Intact
<1>23. ObjectInv'
    <2>. SUFFICES ASSUME NEW p \in Paths, bucket[p] # NoDoc
                  PROVE  LeftWithReason(p, bucket[p])'
        BY DEF ObjectInv
    <2>. PICK d \in Docs : d = bucket[p]
        BY DEF TypeOK
    <2>1. bucket'[p] = d /\ LeftWithReason(p, d)
        BY DEF ObjectInv
    <2>2. ASSUME NEW u \in Tabs, RemovingBy(u, d, p)
          PROVE  RemovingBy(u, d, p)' \/ d \in unconfirmed'
        <3>1. CASE u = t
            BY <1>2, <2>2, <3>1 DEF RemovingBy
        <3>2. CASE u # t
            <4>1. Answer(DocDeleteOf(u, d)) \in net => Answer(DocDeleteOf(u, d)) \in net'
                BY <1>6, <3>2, DocDeleteFields
            <4>2. del'[u] = del[u]
                BY <1>3, <3>2
            <4>. QED BY <2>2, <4>1, <4>2 DEF RemovingBy, DocDeleteOf
        <3>. QED BY <3>1, <3>2
    <2>3. Removing(d, p) => Removing(d, p)' \/ d \in unconfirmed'
        BY <2>2 DEF Removing
    <2>. QED BY <1>2, <1>4, <1>10, <2>1, <2>3 DEF LeftWithReason
<1>24. FreshInv'
    BY <1>10 DEF FreshInv
<1>. QED BY <1>1, <1>11, <1>12, <1>13, <1>14, <1>15, <1>16, <1>17, <1>18, <1>19,
            <1>20, <1>21, <1>22, <1>23, <1>24
         DEF IInv, HandlerInv, UploadNetInv, DeleteNetInv, IntactInv

-----------------------------------------------------------------------------
(* The invariant, and what follows from it.                                *)

LEMMA InitIInv == Init => IInv
<1>. SUFFICES ASSUME Init PROVE IInv
    OBVIOUS
<1>. USE DEF Init
<1>1. TypeOK
    BY DEF TypeOK
<1>2. \A d \in Docs : FilesOf(d) = {}
    BY DEF FilesOf
<1>3. HandlerInv
    BY <1>2, ConstantsAssumption DEF HandlerInv, WorkInv, OneTabInv, ItemInv
<1>4. UploadNetInv
    BY DEF UploadNetInv, OneUploadInv, UploaderInv, PutInv, AddInv
<1>5. DeleteNetInv
    BY DEF DeleteNetInv, OneDeleteInv, DocDeleteInv, RmInv, DeletionInv
<1>6. IntactInv
    BY DEF IntactInv, PutIntact, CoverIntact, AddIntact, AddSentIntact, IntactOrShared
<1>7. ObjectInv /\ FreshInv
    BY <1>2 DEF ObjectInv, FreshInv
<1>. QED BY <1>1, <1>3, <1>4, <1>5, <1>6, <1>7 DEF IInv

LEMMA PageStep ==
    ASSUME IInv, NEW t \in Tabs, Page(t)
    PROVE  IInv'
BY ListStep, CloseTabStep DEF Page

LEMMA StutterStep ==
    ASSUME IInv, UNCHANGED vars
    PROVE  IInv'
<1>. UNCHANGED <<stage, file, cur, todo, del, shown, pending, net, doc, bucket,
                 unconfirmed>>
    BY DEF vars
<1>1. TypeOK' /\ HandlerInv'
    BY DEF IInv, TypeOK, HandlerInv, WorkInv, OneTabInv, ItemInv, FilesOf
<1>2. UploadNetInv'
    BY DEF IInv, UploadNetInv, OneUploadInv, UploaderInv, PutInv, AddInv, KeyAt,
           FilesOf, Unserved
<1>3. DeleteNetInv'
    BY DEF IInv, DeleteNetInv, OneDeleteInv, DocDeleteInv, RmInv, DeletionInv,
           RmKey, FilesOf
<1>4. DeletionFrame
    BY DEF DeletionFrame
<1>5. ObjectInv'
    BY DEF IInv, ObjectInv, LeftWithReason, Removing, RemovingBy, FilesOf, DocDeleteOf
<1>. QED BY <1>1, <1>2, <1>3, <1>4, <1>5, DeletionFrameUploads DEF IInv

\* IInv holds in every state: what the handlers, the requests and the stores
\* of the admin panel agree on, whatever is lost, late, repeated or cut off.
THEOREM Inductive == Spec => []IInv
<1>1. ASSUME IInv, [Next]_vars
      PROVE  IInv'
    BY <1>1, NetworkStep, HandlerStep, DeletionStep, PageStep, StutterStep DEF Next
<1>. QED BY InitIInv, <1>1, PTL DEF Spec

\* Every variable keeps its type.
THEOREM Typed == Spec => []TypeOK
<1>1. IInv => TypeOK
    BY DEF IInv
<1>. QED BY Inductive, <1>1, PTL

\* A document in the app's collection has its files, unless an admin pointed
\* another upload at the same key: uploadMag adds the document after every
\* r2up was answered, delMag removes files after deleteDoc was answered.
THEOREM LiveDocumentsIntact == Spec => []IntactOrShared
<1>1. IInv => IntactOrShared
    BY DEF IInv, IntactInv
<1>. QED BY Inductive, <1>1, PTL

\* No object stays in the bucket without a reason: a document, an upload that
\* runs or broke off, a delete under way or one that lost track of a request.
THEOREM ObjectsAccounted == Spec => []EveryObjectAccounted
<1>1. IInv => EveryObjectAccounted
    <2>. SUFFICES ASSUME IInv, NEW p \in Paths, bucket[p] # NoDoc, NEW d,
                         d = bucket[p]
                  PROVE  \/ doc[d] = "live"
                         \/ doc[d] = "absent" /\ stage[d] \in {"pdf", "cover", "add", "failed"}
                         \/ StillToRemove(d, p)
                         \/ d \in unconfirmed
        BY DEF EveryObjectAccounted
    <2>1. d \in Docs /\ doc[d] \in {"absent", "live", "deleted"}
        BY DEF IInv, TypeOK
    <2>2. LeftWithReason(p, d)
        BY DEF IInv, ObjectInv
    <2>3. Removing(d, p) => StillToRemove(d, p)
        BY DEF Removing, RemovingBy, StillToRemove
    <2>. QED BY <2>1, <2>2, <2>3 DEF LeftWithReason
<1>. QED BY Inductive, <1>1, PTL

-----------------------------------------------------------------------------
(* With fresh keys the panel implements the catalogue.                     *)

LEMMA ReadableIsLive ==
    ASSUME IInv, ~Reuse
    PROVE  Readable = {d \in Docs : doc[d] = "live"}
<1>. SUFFICES ASSUME NEW d \in Docs, doc[d] = "live", NEW p \in FilesOf(d)
              PROVE  bucket[p] = d
    BY DEF Readable
<1>1. ~Shared(d, p)
    BY DEF IInv, FreshInv, Shared
<1>. QED BY <1>1 DEF IInv, IntactInv, IntactOrShared

\* CommitAdd publishes an item, the first CommitDelete of it retires it.
LEMMA CatalogueStep ==
    ASSUME IInv, IInv', ~Reuse, [Next]_vars
    PROVE  [Cat!Next]_<<doc, Readable>>
<1>. TypeOK /\ DocInv /\ TypeOK'
    BY InvParts DEF IInv
<1>1. Readable = {d \in Docs : doc[d] = "live"}
    BY ReadableIsLive
<1>2. Readable' = {d \in Docs : doc'[d] = "live"}
    <2>1. \A d \in Docs : \A p \in FilesOf(d)' : doc'[d] = "live" => bucket'[p] = d
        <3>. SUFFICES ASSUME NEW d \in Docs, NEW p \in FilesOf(d)', doc'[d] = "live"
                      PROVE  bucket'[p] = d
            OBVIOUS
        <3>1. ~Shared(d, p)'
            BY DEF IInv, FreshInv, Shared
        <3>. QED BY <3>1 DEF IInv, IntactInv, IntactOrShared
    <2>. QED BY <2>1 DEF Readable
<1>3. CASE UNCHANGED doc
    BY <1>1, <1>2, <1>3
<1>4. ASSUME NEW r \in net, CommitAdd(r)
      PROVE  Cat!Publish(r.doc) /\ r.doc \in Docs
    <2>1. r.doc \in Docs /\ doc[r.doc] = "absent"
        BY <1>4 DEF CommitAdd, TypeOK, Request, DocInv, AddInv, Unserved
    <2>2. doc' = [doc EXCEPT ![r.doc] = "live"]
        BY <1>4 DEF CommitAdd
    <2>3. Readable' = Readable \cup {r.doc}
        BY <1>1, <1>2, <2>1, <2>2 DEF TypeOK
    <2>. QED BY <2>1, <2>2, <2>3 DEF Cat!Publish
<1>5. ASSUME NEW r \in net, CommitDelete(r)
      PROVE  UNCHANGED doc \/ (Cat!Retire(r.doc) /\ r.doc \in Docs)
    <2>1. r.doc \in Docs /\ doc[r.doc] \in {"live", "deleted"}
        BY <1>5 DEF CommitDelete, TypeOK, Request, DocInv, DocDeleteInv
    <2>2. doc' = [doc EXCEPT ![r.doc] = "deleted"]
        BY <1>5 DEF CommitDelete
    <2>3. CASE doc[r.doc] = "live"
        <3>1. Readable' = Readable \ {r.doc}
            BY <1>1, <1>2, <2>1, <2>2 DEF TypeOK
        <3>. QED BY <2>1, <2>2, <2>3, <3>1 DEF Cat!Retire
    <2>4. CASE doc[r.doc] = "deleted"
        BY <2>2, <2>4 DEF TypeOK
    <2>. QED BY <2>1, <2>3, <2>4
<1>6. \/ UNCHANGED doc
      \/ \E r \in net : CommitAdd(r) \/ CommitDelete(r)
    <2>1. ASSUME NEW r \in net, Network(r)
          PROVE  UNCHANGED doc \/ CommitAdd(r) \/ CommitDelete(r)
        BY <2>1 DEF Network, PutObject, RemoveObject, LoseRequest, stores
    <2>2. ASSUME NEW t \in Tabs, Handler(t)
          PROVE  UNCHANGED doc
        BY <2>2 DEF Handler, StartUpload, Begin, PutResolved, PutRejected,
           AddResolved, AddRejected, stores
    <2>3. ASSUME NEW t \in Tabs, NEW d \in Docs, Deletion(t, d)
          PROVE  UNCHANGED doc
        BY <2>3 DEF Deletion, ClickDelete, DeleteDocResolved, DeleteDocRejected,
           RemoveAnswered, RemoveErrored, stores
    <2>4. ASSUME NEW t \in Tabs, Page(t)
          PROVE  UNCHANGED doc
        BY <2>4 DEF Page, ListLoaded, ListFailed, CloseTab, stores
    <2>5. UNCHANGED vars => UNCHANGED doc
        BY DEF vars
    <2>. QED BY <2>1, <2>2, <2>3, <2>4, <2>5 DEF Next
<1>. QED BY <1>3, <1>4, <1>5, <1>6 DEF Cat!Next

\* As long as no key is used for two uploads, readers of the app see nothing
\* but a catalogue: an item appears once with all its files, and goes for
\* good, whatever happens to the panel's requests and tabs.
THEOREM PublishingImplementsCatalogue ==
    ASSUME ~Reuse
    PROVE  Spec => ImplementsCatalogue
<1>1. Init => Cat!Init
    <2>. SUFFICES ASSUME Init PROVE Cat!Init
        OBVIOUS
    <2>. QED BY DEF Init, Cat!Init, Readable
<1>2. IInv /\ IInv' /\ [Next]_vars => [Cat!Next]_<<doc, Readable>>
    BY CatalogueStep
<1>. QED BY <1>1, <1>2, Inductive, PTL DEF Spec, ImplementsCatalogue, Cat!Spec

=============================================================================
