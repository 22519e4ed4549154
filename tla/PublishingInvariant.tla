------------------------ MODULE PublishingInvariant ------------------------
(***************************************************************************)
(* The inductive invariant of Publishing: what is true of requests, of the *)
(* handlers and of the two stores in every state, said strongly enough to  *)
(* be preserved by every step.                                             *)
(***************************************************************************)
EXTENDS PublishingCatalogue

Unserved(r) == r.phase \in {"sent", "stray"}

Intact(d, p) == bucket[p] = d \/ Shared(d, p)

\* Handlers and items: who works on what, and what an item has chosen.
WorkInv ==
    \A t \in Tabs :
        /\ cur[t] \in Docs => stage[cur[t]] \in {"pdf", "cover", "add"}
        /\ \A d \in todo[t] : stage[d] = "queued"

OneTabInv ==
    \A t, u \in Tabs : t # u => /\ cur[t] = cur[u] => cur[t] = NoDoc
                                /\ todo[t] \cap todo[u] = {}

ItemInv ==
    \A d \in Docs :
        /\ stage[d] # "new" => file[d].pdf \in PdfPaths
        /\ stage[d] = "new" => FilesOf(d) = {}
        /\ stage[d] = "cover" => file[d].cover # NoPath
        /\ doc[d] # "absent" => stage[d] \in {"add", "done", "failed"}

HandlerInv == WorkInv /\ OneTabInv /\ ItemInv

\* Requests of uploads: an item has one at a time, attended to by the tab
\* that works on it or left behind by an upload that failed.
IsUpload(r) == r.op \in {"put", "add"}

OneUploadInv ==
    \A r, s \in net : IsUpload(r) /\ IsUpload(s) /\ r.doc = s.doc => r = s

UploaderInv ==
    \A r \in net : IsUpload(r) =>
        IF r.phase = "stray"
        THEN stage[r.doc] = "failed"
        ELSE /\ cur[r.tab] = r.doc
             /\ r.op = "put" => stage[r.doc] \in {"pdf", "cover"}
             /\ r.op = "put" => r.path = KeyAt(r.doc)
             /\ r.op = "add" => stage[r.doc] = "add"

PutInv ==
    \A r \in net : r.op = "put" =>
        r.path \in FilesOf(r.doc) /\ doc[r.doc] = "absent"

AddInv ==
    \A r \in net : r.op = "add" =>
        r.path = NoPath /\ (doc[r.doc] = "absent" <=> Unserved(r))

UploadNetInv == OneUploadInv /\ UploaderInv /\ PutInv /\ AddInv

\* Requests of deletes: no object is asked to go before the document is gone,
\* and a request that nobody waits for is on record.
IsDelete(r) == r.op \in {"deldoc", "rm"}

OneDeleteInv ==
    \A r, s \in net :
        /\ IsDelete(r) /\ IsDelete(s)
        /\ r.doc = s.doc /\ r.tab = s.tab
        /\ r.phase # "stray" /\ s.phase # "stray"
        => r = s

DocDeleteInv ==
    \A r \in net : r.op = "deldoc" =>
        /\ r.path = NoPath
        /\ doc[r.doc] # "absent"
        /\ r.phase = "answered" => doc[r.doc] = "deleted"
        /\ IF r.phase = "stray" THEN r.doc \in unconfirmed
           ELSE del[r.tab][r.doc] = "doc"

RmInv ==
    \A r \in net : r.op = "rm" =>
        /\ doc[r.doc] = "deleted"
        /\ r.path \in FilesOf(r.doc)
        /\ r.phase # "stray" => /\ del[r.tab][r.doc] \in {"pdf", "cover"}
                                /\ r.path = RmKey(r.tab, r.doc)
        /\ r.phase = "answered" => bucket[r.path] # r.doc

DeletionInv ==
    \A t \in Tabs, d \in Docs :
        /\ d \in shown[t] => doc[d] # "absent"
        /\ del[t][d] = "doc" => doc[d] # "absent"
        /\ del[t][d] \in {"pdf", "cover"} => doc[d] = "deleted"
        /\ del[t][d] = "cover" => file[d].cover # NoPath

DeleteNetInv == OneDeleteInv /\ DocDeleteInv /\ RmInv /\ DeletionInv

\* Files in place: as soon as the next step may be addDoc, and from then on
\* until the document is deleted.
PutIntact ==
    \A r \in net : r.op = "put" /\ r.phase = "answered" => Intact(r.doc, r.path)

CoverIntact ==
    \A d \in Docs : stage[d] = "cover" => Intact(d, file[d].pdf)

AddIntact ==
    \A d \in Docs : stage[d] = "add" /\ doc[d] = "absent" =>
        \A p \in FilesOf(d) : Intact(d, p)

AddSentIntact ==
    \A r \in net : r.op = "add" /\ Unserved(r) =>
        \A p \in FilesOf(r.doc) : Intact(r.doc, p)

IntactInv ==
    /\ PutIntact /\ CoverIntact /\ AddIntact /\ AddSentIntact /\ IntactOrShared

\* A delete that still has to remove p and has its document's deletion behind
\* it.
RemovingBy(t, d, p) ==
    \/ del[t][d] = "doc" /\ Answer(DocDeleteOf(t, d)) \in net
    \/ del[t][d] = "pdf"
    \/ del[t][d] = "cover" /\ p = file[d].cover

Removing(d, p) == \E t \in Tabs : RemovingBy(t, d, p)

\* Objects left in the bucket: the object of d under p.
LeftWithReason(p, d) ==
    /\ p \in FilesOf(d)
    /\ doc[d] = "absent" => stage[d] \in {"pdf", "cover", "add", "failed"}
    /\ doc[d] = "deleted" => Removing(d, p) \/ d \in unconfirmed

ObjectInv ==
    \A p \in Paths : bucket[p] # NoDoc => LeftWithReason(p, bucket[p])

\* With fresh keys only, no key belongs to two items.
FreshInv ==
    ~Reuse => \A d, e \in Docs : d # e => FilesOf(d) \cap FilesOf(e) = {}

\* The induction hypothesis of the proofs, checked here on the small instance:
\* the six parts together hold in every state.
IInv ==
    /\ TypeOK /\ HandlerInv /\ UploadNetInv /\ DeleteNetInv /\ IntactInv
    /\ ObjectInv /\ FreshInv

=============================================================================
