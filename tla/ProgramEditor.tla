---------------------------- MODULE ProgramEditor ----------------------------
(***************************************************************************)
(* The programs editor of the admin panel (cloudflare/admin/index.html):   *)
(* a form that adds or edits, a list with edit, hide and delete buttons,   *)
(* and a collection that several tabs write without reading it first.  The *)
(* quotes editor is the same protocol, without the dates.                  *)
(*                                                                         *)
(* Times are counted in quarters of a day; Offset is how far the tabs'     *)
(* time zone is ahead of UTC, which none is by three quarters.             *)
(***************************************************************************)
EXTENDS Integers, Sequences, FiniteSets

CONSTANTS
    Programs,  \* document ids, drawn by addDoc
    Tabs,      \* open panels
    Entries,   \* programs an administrator may type in, each once
    DayOf,     \* the day each of them is meant for
    NoProgram, \* prog-edit-id is empty; an entry nobody has typed
    Absent,    \* no document
    NoDate,    \* no date in a document, '' in the form
    Offset,    \* see above; one quarter for India
    MaxFlight, \* bound: writes under way at a time, of all tabs
    MaxDrift   \* bound: days a date that is saved has moved from its entry's

Quarters == 4

ASSUME ProgramEditorAssumption ==
    /\ NoProgram \notin Programs \cup Entries
    /\ DayOf \in [Entries -> Nat]
    /\ NoDate \notin Int
    /\ Offset \in -(Quarters - 1)..(Quarters - 1)
    /\ MaxFlight \in Nat /\ MaxDrift \in Nat

VARIABLES
    docs,    \* the programs collection
    form,    \* the form of each tab
    saving,  \* whether its save button is disabled
    opening, \* the programs whose getDoc an editProgram of the tab awaits
    listed,  \* the programs some list has buttons for: all there ever were,
             \* as _allPrograms of a tab is as old as its last loadPrograms,
             \* and the search box renders its buttons again at any time
    flight,  \* writes the Firestore client of the tab has not seen settled
    typed,   \* history: entries typed so far
    shells   \* history: programs a toggle has brought back from deletion, on
             \* the server or in what a tab with the toggle under way was shown

panel == <<form, saving, opening>>
vars  == <<docs, panel, flight, listed, typed, shells>>

EmptyForm == [edit |-> NoProgram, entry |-> NoProgram, start |-> NoDate,
              end |-> NoDate]

Init ==
    /\ docs = [p \in Programs |-> Absent]
    /\ form = [t \in Tabs |-> EmptyForm]
    /\ saving = [t \in Tabs |-> FALSE]
    /\ opening = [t \in Tabs |-> {}]
    /\ listed = {}
    /\ flight = [t \in Tabs |-> <<>>]
    /\ typed = {}
    /\ shells = {}

-----------------------------------------------------------------------------
(* Dates.                                                                  *)

\* new Date(day + 'T00:00:00') and new Date(day + 'T23:59:59'), local times.
StartOf(day) == IF day = NoDate THEN NoDate ELSE day * Quarters - Offset

\* Mutant: the last day is stored by its first moment, as the first day is.
EndIsStart(day) == StartOf(day)

EndOf(day) == IF day = NoDate THEN NoDate
              ELSE day * Quarters + (Quarters - 1) - Offset

\* toISOString().split('T')[0]: the day in UTC.
IsoDay(time) == time \div Quarters

\* toLocaleDateString of the list: the day in the tab's own zone.
LocalDay(time) == (time + Offset) \div Quarters

\* Whether a date is within MaxDrift of the day its entry is meant for.
Near(date, e) ==
    date # NoDate => date - DayOf[e] \in -MaxDrift..MaxDrift

-----------------------------------------------------------------------------
(* Writes.                                                                 *)

Contents(f) == [entry |-> f.entry, start |-> StartOf(f.start),
                end |-> EndOf(f.end)]

Shell == [entry |-> NoProgram, start |-> NoDate, end |-> NoDate]

\* Mutant: a deleted program is only flagged.
SoftDelete(write, ds) ==
    [ds EXCEPT ![write.id] =
        CASE write.op = "delete" -> [deleted |-> TRUE]
          [] write.op = "toggle" -> IF @ = Absent THEN Shell ELSE @
          [] OTHER               -> write.data]

\* What a write makes of the collection: addDoc and the merge of a whole form
\* leave the form's values, the merge of is_published alone what was there.
Apply(write, ds) ==
    [ds EXCEPT ![write.id] =
        CASE write.op = "delete" -> Absent
          [] write.op = "toggle" -> IF @ = Absent THEN Shell ELSE @
          [] OTHER               -> write.data]

\* The last of tab t's writes under way that leave nothing of program p as it was.
Decisive(t, p) ==
    {i \in 1..Len(flight[t]) :
        /\ flight[t][i].id = p /\ flight[t][i].op # "toggle"
        /\ \A j \in 1..Len(flight[t]) :
            flight[t][j].id = p /\ flight[t][j].op # "toggle" => j <= i}

\* Program p as tab t reads it: its own writes under way included.
View(t, p) ==
    LET i == CHOOSE i \in Decisive(t, p) : TRUE
        since == IF Decisive(t, p) = {} THEN 0 ELSE i
        base == IF Decisive(t, p) = {} THEN docs[p]
                ELSE IF flight[t][i].op = "delete" THEN Absent
                ELSE flight[t][i].data
        toggled == \E j \in 1..Len(flight[t]) :
                    j > since /\ flight[t][j].id = p
    IN  IF base = Absent /\ toggled THEN Shell ELSE base

UnderWay == UNION {{<<t, i>> : i \in 1..Len(flight[t])} : t \in Tabs}

Issue(t, write) ==
    /\ Cardinality(UnderWay) < MaxFlight
    /\ flight' = [flight EXCEPT ![t] = Append(@, write)]

-----------------------------------------------------------------------------
(* The form.                                                               *)

\* The administrator fills in an empty title, and the date if there is none.
Type(t, e) ==
    /\ e \notin typed
    /\ form[t].entry = NoProgram
    /\ typed' = typed \cup {e}
    /\ form' = [form EXCEPT ![t] =
                    [edit |-> @.edit, entry |-> e,
                     start |-> IF @.start = NoDate THEN DayOf[e] ELSE @.start,
                     end |-> IF @.end = NoDate THEN DayOf[e] ELSE @.end]]
    /\ UNCHANGED <<docs, saving, opening, listed, flight, shells>>

\* An id that has not been drawn.
Fresh(p) ==
    /\ p \notin listed
    /\ \A t \in Tabs : \A i \in 1..Len(flight[t]) : flight[t][i].id # p

\* Mutant: an empty title is accepted.
SaveUnchecked(t, p) ==
    /\ ~saving[t]
    /\ IF form[t].edit = NoProgram THEN Fresh(p) ELSE p = form[t].edit
    /\ saving' = [saving EXCEPT ![t] = TRUE]
    /\ Issue(t, [op |-> "save", id |-> p, data |-> Contents(form[t])])
    /\ UNCHANGED <<docs, form, opening, listed, typed, shells>>

\* saveProgram up to its await: title and start date are required, the form is
\* read at once and stays open.
SaveProgram(t, p) ==
    /\ ~saving[t]
    /\ form[t].entry # NoProgram /\ form[t].start # NoDate
    /\ Near(form[t].start, form[t].entry) /\ Near(form[t].end, form[t].entry)
    /\ IF form[t].edit = NoProgram THEN Fresh(p) ELSE p = form[t].edit
    /\ saving' = [saving EXCEPT ![t] = TRUE]
    /\ Issue(t, [op |-> "save", id |-> p, data |-> Contents(form[t])])
    /\ UNCHANGED <<docs, form, opening, listed, typed, shells>>

\* cancelEditProgram.
ResetProgramForm(t) ==
    /\ form[t] # EmptyForm
    /\ form' = [form EXCEPT ![t] = EmptyForm]
    /\ UNCHANGED <<docs, saving, opening, listed, flight, typed, shells>>

\* Mutant: prog-edit-id is set before getDoc is awaited.
EditIdFirst(t, p) ==
    /\ p \in listed
    /\ opening' = [opening EXCEPT ![t] = @ \cup {p}]
    /\ form' = [form EXCEPT ![t].edit = p]
    /\ UNCHANGED <<docs, saving, listed, flight, typed, shells>>

\* editProgram up to its await.
EditProgram(t, p) ==
    /\ p \in listed
    /\ opening' = [opening EXCEPT ![t] = @ \cup {p}]
    /\ UNCHANGED <<docs, form, saving, listed, flight, typed, shells>>

\* Its answer fills the form, whatever it holds by now; a start date that the
\* document does not have is left as it is.
FillForm(t, p) ==
    /\ p \in opening[t]
    /\ opening' = [opening EXCEPT ![t] = @ \ {p}]
    /\ form' =
        IF View(t, p) = Absent THEN form
        ELSE LET d == View(t, p) IN
             [form EXCEPT ![t] =
                [edit |-> p, entry |-> d.entry,
                 start |-> IF d.start = NoDate THEN @.start
                           ELSE IsoDay(d.start),
                 end |-> IF d.end = NoDate THEN NoDate ELSE IsoDay(d.end)]]
    /\ shells' = IF View(t, p) = Shell THEN shells \cup {p} ELSE shells
    /\ UNCHANGED <<docs, saving, listed, flight, typed>>

-----------------------------------------------------------------------------
(* The list.                                                               *)

ToggleProgram(t, p) ==
    /\ p \in listed
    /\ Issue(t, [op |-> "toggle", id |-> p])
    /\ UNCHANGED <<docs, panel, listed, typed, shells>>

\* delProgram; a form that is open on p stays open.
DelProgram(t, p) ==
    /\ p \in listed
    /\ Issue(t, [op |-> "delete", id |-> p])
    /\ UNCHANGED <<docs, panel, listed, typed, shells>>

-----------------------------------------------------------------------------
(* Answers.  The client sends the writes of a tab in order.                *)

\* Mutant: the button is enabled, the form is not emptied.
FormKept(t, ok) ==
    /\ form' = form
    /\ saving' = [saving EXCEPT ![t] = FALSE]

\* saveProgram after its await: the form is emptied, whatever is in it by now.
EndSave(t, ok) ==
    /\ form' = IF ok THEN [form EXCEPT ![t] = EmptyForm] ELSE form
    /\ saving' = [saving EXCEPT ![t] = FALSE]

Settle(t, ok) ==
    /\ flight[t] # <<>>
    /\ flight' = [flight EXCEPT ![t] = Tail(@)]
    /\ IF Head(flight[t]).op = "save" THEN EndSave(t, ok)
       ELSE UNCHANGED <<form, saving>>
    /\ UNCHANGED <<opening, typed>>

Commit(t) ==
    /\ Settle(t, TRUE)
    /\ docs' = Apply(Head(flight[t]), docs)
    /\ listed' = listed \cup {p \in Programs : docs'[p] # Absent}
    /\ LET w == Head(flight[t]) IN
       shells' = IF w.op = "toggle" /\ docs[w.id] = Absent
                 THEN shells \cup {w.id} ELSE shells

\* Mutant: the button is enabled only on success.
StuckButton(t) ==
    /\ flight[t] # <<>>
    /\ flight' = [flight EXCEPT ![t] = Tail(@)]
    /\ UNCHANGED <<docs, panel, listed, typed, shells>>

\* The write is refused: an error is shown, the form is kept for another try.
Reject(t) ==
    /\ Settle(t, FALSE)
    /\ UNCHANGED <<docs, listed, shells>>

\* A tab is closed or reloaded: writes that have not arrived are lost.
CloseTab(t) ==
    /\ form' = [form EXCEPT ![t] = EmptyForm]
    /\ saving' = [saving EXCEPT ![t] = FALSE]
    /\ opening' = [opening EXCEPT ![t] = {}]
    /\ flight' = [flight EXCEPT ![t] = <<>>]
    /\ UNCHANGED <<docs, listed, typed, shells>>

-----------------------------------------------------------------------------
Next ==
    \E t \in Tabs :
        \/ \E e \in Entries : Type(t, e)
        \/ \E p \in Programs : SaveProgram(t, p)
        \/ ResetProgramForm(t)
        \/ \E p \in Programs : EditProgram(t, p)
        \/ \E p \in Programs : FillForm(t, p)
        \/ \E p \in Programs : ToggleProgram(t, p)
        \/ \E p \in Programs : DelProgram(t, p)
        \/ Commit(t)
        \/ Reject(t)
        \/ CloseTab(t)

Spec == Init /\ [][Next]_vars

-----------------------------------------------------------------------------
(* Properties.                                                             *)

Dates == Int \cup {NoDate}

Document == [entry : Entries \cup {NoProgram}, start : Dates, end : Dates]

\* Type correctness of the collection, the forms and the writes under way.
TypeOK ==
    /\ \A p \in Programs : docs[p] = Absent \/ docs[p] \in Document
    /\ form \in [Tabs -> [edit : Programs \cup {NoProgram},
                          entry : Entries \cup {NoProgram},
                          start : Dates, end : Dates]]
    /\ saving \in [Tabs -> BOOLEAN]
    /\ opening \in [Tabs -> SUBSET Programs]
    /\ listed \subseteq Programs
    /\ typed \subseteq Entries
    /\ shells \subseteq Programs

\* However saves, edits, cancels and errors of the tabs interleave, what was
\* typed as one program is in one document: no second save of an added one, no
\* save of one program's form into another.
NoEntryTwice ==
    \A p, q \in Programs :
        docs[p] # Absent /\ docs[q] # Absent
            /\ docs[p].entry = docs[q].entry /\ docs[p].entry # NoProgram
                => p = q

\* A save that brings a deleted program back by its merge brings it back whole.
\* Only the toggle of a deleted one leaves a document with a bare flag.
WholeUnlessToggled ==
    \A p \in Programs \ shells :
        docs[p] # Absent => docs[p].entry # NoProgram /\ docs[p].start # NoDate

\* A program that is edited and saved with its dates left alone is listed with
\* the first day it was entered for.
StartsAsEntered ==
    \A p \in Programs \ shells :
        docs[p] # Absent /\ docs[p].entry # NoProgram
            => LocalDay(docs[p].start) = DayOf[docs[p].entry]

\* And with the last.
EndsAsEntered ==
    \A p \in Programs \ shells :
        docs[p] # Absent /\ docs[p].entry # NoProgram
            => LocalDay(docs[p].end) = DayOf[docs[p].entry]

\* However often programs are edited and saved, and from however many tabs: the
\* last day, at 23:59:59, survives the UTC day of the form at Greenwich and east
\* of it, and the first, at 00:00:00, at Greenwich and west of it.
DaysAsEntered ==
    /\ Offset >= 0 => EndsAsEntered
    /\ Offset <= 0 => StartsAsEntered

\* The save button is disabled exactly while a save is under way, and only one
\* is: neither an error nor an edit opened meanwhile leaves it disabled.
ButtonMatchesSave ==
    \A t \in Tabs :
        LET saves == {i \in 1..Len(flight[t]) : flight[t][i].op = "save"} IN
        /\ saving[t] <=> saves # {}
        /\ \A i, j \in saves : i = j

=============================================================================
