------------------------- MODULE PublishingCatalogue -------------------------
(***************************************************************************)
(* Publishing implements the Catalogue as long as no two uploads are       *)
(* pointed at the same key.                                                *)
(***************************************************************************)
EXTENDS Publishing

\* The live items whose keys hold what their own upload put there.
Readable == {d \in Docs : /\ doc[d] = "live"
                          /\ \A p \in FilesOf(d) : bucket[p] = d}

Cat == INSTANCE Catalogue WITH status <- doc, readable <- Readable

\* Without reuse of keys a reader sees an item appear with all its files, keep
\* them while it is listed, and disappear for good: each step of the panel,
\* of the worker and of the network publishes one item, retires one or shows
\* nothing.  With reuse the property fails, see IntactOrShared.
ImplementsCatalogue == Cat!Spec

=============================================================================
