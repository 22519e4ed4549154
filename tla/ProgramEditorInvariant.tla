------------------------ MODULE ProgramEditorInvariant ------------------------
(* What makes the properties of ProgramEditor inductive.                    *)
EXTENDS ProgramEditor

WholeDocument == [entry : Entries, start : Int, end : Dates]

Form == [edit : Programs \cup {NoProgram}, entry : Entries \cup {NoProgram},
         start : Dates, end : Dates]

Write ==
    [op : {"save"}, id : Programs, data : WholeDocument]
        \cup [op : {"toggle", "delete"}, id : Programs]

Typed ==
    /\ docs \in [Programs -> WholeDocument \cup {Shell, Absent}]
    /\ form \in [Tabs -> Form]
    /\ saving \in [Tabs -> BOOLEAN]
    /\ opening \in [Tabs -> SUBSET Programs]
    /\ flight \in [Tabs -> Seq(Write)]
    /\ listed \subseteq Programs
    /\ typed \subseteq Entries
    /\ shells \subseteq Programs

\* A document that is not whole is a toggle's.
ShellInv ==
    \A p \in Programs :
        docs[p] # Absent /\ docs[p] \notin WholeDocument => p \in shells

IsSave(t, i) == i \in 1..Len(flight[t]) /\ flight[t][i].op = "save"

\* The button is disabled while one save is under way.
SaveInv ==
    \A t \in Tabs :
        /\ saving[t] <=> \E i \in 1..Len(flight[t]) : IsSave(t, i)
        /\ \A i, j \in 1..Len(flight[t]) : IsSave(t, i) /\ IsSave(t, j) => i = j

(* Where an entry can be.                                                   *)
Stored(p, e) == docs[p] # Absent /\ docs[p].entry = e

Saved(t, p, e) ==
    \E i \in 1..Len(flight[t]) :
        IsSave(t, i) /\ flight[t][i].id = p /\ flight[t][i].data.entry = e

Edited(t, p, e) == form[t].edit = p /\ form[t].entry = e

Owns(p, e) ==
    \/ Stored(p, e)
    \/ \E t \in Tabs : Saved(t, p, e) \/ Edited(t, p, e)

\* The documents, writes and edits that hold an entry are of one program.
OwnInv ==
    \A e \in Entries : \A p, q \in Programs : Owns(p, e) /\ Owns(q, e) => p = q

\* An entry in a form that adds a program is nowhere else but in that form's
\* own save.
NewInv ==
    \A t \in Tabs : \A e \in Entries :
        Edited(t, NoProgram, e) =>
            /\ \A p \in Programs : ~Stored(p, e)
            /\ \A u \in Tabs \ {t} :
                /\ form[u].entry # e
                /\ \A p \in Programs : ~Saved(u, p, e)

\* What has not been typed is nowhere.
TypedInv ==
    \A e \in Entries :
        /\ \A p \in Programs : Owns(p, e) => e \in typed
        /\ \A t \in Tabs : form[t].entry = e => e \in typed

(* Days, of the fields of a document and of the form that are dates.        *)

DateFields == {"start", "end"}

\* What a save makes of a day.
TimeOf(k, day) == IF k = "start" THEN StartOf(day) ELSE EndOf(day)

\* Where the UTC day of that is the same day.
Zones(k) == IF k = "start" THEN -(Quarters - 1)..0 ELSE 0..(Quarters - 1)

\* The day an entry is meant for, as a save leaves it.
OnItsDay(data, k) == data[k] = TimeOf(k, DayOf[data.entry])

\* Documents, writes under way and forms carry the day of their entry, unless a
\* toggle has left their program without dates; a form without an entry has no
\* date.
DaysInv(k) ==
    /\ \A p \in Programs \ shells : docs[p] # Absent => OnItsDay(docs[p], k)
    /\ \A t \in Tabs : \A i \in 1..Len(flight[t]) :
          IsSave(t, i) /\ flight[t][i].id \notin shells =>
              OnItsDay(flight[t][i].data, k)
    /\ \A t \in Tabs : form[t].edit \notin shells =>
          form[t][k] = IF form[t].entry = NoProgram THEN NoDate
                       ELSE DayOf[form[t].entry]

IInv ==
    /\ Typed
    /\ ShellInv
    /\ SaveInv
    /\ OwnInv /\ NewInv /\ TypedInv
    /\ \A k \in DateFields : Offset \in Zones(k) => DaysInv(k)

=============================================================================
