---------------------------- MODULE MCPublishing ----------------------------
(* Publishing on small instances.                                          *)
EXTENDS PublishingInvariant, TLC

CONSTANTS d1, d2, d3, t1, t2, p1, p2, c1

\* The first key has one possible cover key, the others none.
MCCovers == [p \in PdfPaths |-> IF p = p1 THEN CoverPaths ELSE {}]

\* Items and tabs are interchangeable; keys are not, because of MCCovers.
Interchangeable == Permutations(Docs) \cup Permutations(Tabs)

=============================================================================
