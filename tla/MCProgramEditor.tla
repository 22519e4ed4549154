--------------------------- MODULE MCProgramEditor ---------------------------
(* The programs editor on small instances.                                 *)
EXTENDS ProgramEditorInvariant, TLC

CONSTANTS p1, p2, t1, t2, yoga, camp

\* Two programs on one day, so that entries are interchangeable: no guard reads
\* the day but for the bound MaxDrift.
MCDayOf == [e \in Entries |-> 10]

Interchangeable == Permutations(Tabs) \cup Permutations(Programs) \cup Permutations(Entries)

=============================================================================
