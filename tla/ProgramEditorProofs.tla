------------------------- MODULE ProgramEditorProofs --------------------------
(* Theorems about the programs editor, for any number of tabs, programs and  *)
(* entries, and any time zone.                                               *)
EXTENDS ProgramEditorInvariant, TLAPS

-----------------------------------------------------------------------------
(* Operators.                                                                *)

\* Dates stay dates on their way into a document and back into the form.
LEMMA DateTypes ==
    ASSUME NEW d \in Dates
    PROVE  /\ StartOf(d) \in Dates /\ EndOf(d) \in Dates
           /\ d # NoDate => StartOf(d) \in Int /\ IsoDay(d) \in Int
BY ProgramEditorAssumption, SMTT(30)
   DEF ProgramEditorAssumption, Dates, StartOf, EndOf, IsoDay, Quarters

\* What saveProgram accepts makes a whole document.
LEMMA ContentsWhole ==
    ASSUME NEW f \in Form, f.entry # NoProgram, f.start # NoDate
    PROVE  Contents(f) \in WholeDocument
<1>1. f.start \in Dates /\ f.end \in Dates /\ f.entry \in Entries
  BY DEF Form
<1> QED
  BY <1>1, DateTypes DEF Contents, WholeDocument

\* What a tab reads of a program is a document, and its entry is the one the
\* collection or a save of the tab has for this very program.
LEMMA ViewOrigin ==
    ASSUME Typed, NEW t \in Tabs, NEW p \in Programs
    PROVE  /\ View(t, p) \in WholeDocument \cup {Shell, Absent}
           /\ View(t, p) # Absent =>
                \/ View(t, p).entry = NoProgram
                \/ Stored(p, View(t, p).entry)
                \/ Saved(t, p, View(t, p).entry)
<1> DEFINE i == CHOOSE k \in Decisive(t, p) : TRUE
           base == IF Decisive(t, p) = {} THEN docs[p]
                   ELSE IF flight[t][i].op = "delete" THEN Absent
                   ELSE flight[t][i].data
<1>1. View(t, p) \in {base, Shell}
  BY DEF View
<1>2. Shell.entry = NoProgram
  BY DEF Shell
<1>3. docs[p] \in WholeDocument \cup {Shell, Absent}
  BY DEF Typed
<1>4. docs[p] # Absent => Stored(p, docs[p].entry)
  BY DEF Stored
<1>5. ASSUME Decisive(t, p) # {}, flight[t][i].op # "delete"
      PROVE  /\ flight[t][i].data \in WholeDocument
             /\ Saved(t, p, flight[t][i].data.entry)
  <2>1. i \in Decisive(t, p)
    BY <1>5
  <2>2. i \in 1..Len(flight[t]) /\ flight[t][i].id = p /\ flight[t][i].op # "toggle"
    BY <2>1 DEF Decisive
  <2>3. flight[t][i] \in Write
    BY <2>2 DEF Typed
  <2>4. flight[t][i].op = "save" /\ flight[t][i].data \in WholeDocument
    BY <1>5, <2>2, <2>3 DEF Write
  <2> QED
    BY <2>2, <2>4 DEF Saved, IsSave
<1>6. /\ base \in WholeDocument \cup {Shell, Absent}
      /\ base # Absent => Stored(p, base.entry) \/ Saved(t, p, base.entry)
  BY <1>3, <1>4, <1>5
<1> HIDE DEF base, i
<1> QED
  BY <1>1, <1>2, <1>6

\* A write leaves a collection of documents.
LEMMA ApplyTyped ==
    ASSUME NEW w \in Write,
           NEW ds \in [Programs -> WholeDocument \cup {Shell, Absent}]
    PROVE  Apply(w, ds) \in [Programs -> WholeDocument \cup {Shell, Absent}]
BY DEF Apply, Write

-----------------------------------------------------------------------------
(* The writes of a tab.                                                      *)

\* A new write is the last of its tab's.
LEMMA IssueSaves ==
    ASSUME Typed, NEW t \in Tabs, NEW w \in Write, Issue(t, w)
    PROVE  /\ flight' \in [Tabs -> Seq(Write)]
           /\ \A u \in Tabs \ {t} : flight'[u] = flight[u]
           /\ Len(flight'[t]) = Len(flight[t]) + 1
           /\ flight'[t][Len(flight[t]) + 1] = w
           /\ \A i \in 1..Len(flight[t]) : flight'[t][i] = flight[t][i]
           /\ Len(flight[t]) \in Nat
<1>1. flight[t] \in Seq(Write) /\ flight'[t] = Append(flight[t], w)
  BY DEF Typed, Issue
<1>2. flight' \in [Tabs -> Seq(Write)]
  BY <1>1 DEF Typed, Issue
<1>3. \A u \in Tabs \ {t} : flight'[u] = flight[u]
  BY DEF Typed, Issue
<1> QED
  BY <1>1, <1>2, <1>3

\* An answer drops the first.
LEMMA SettleSaves ==
    ASSUME Typed, NEW t \in Tabs, flight[t] # <<>>,
           flight' = [flight EXCEPT ![t] = Tail(@)]
    PROVE  /\ flight' \in [Tabs -> Seq(Write)]
           /\ \A u \in Tabs \ {t} : flight'[u] = flight[u]
           /\ Len(flight[t]) \in Nat \ {0}
           /\ Len(flight'[t]) = Len(flight[t]) - 1
           /\ \A i \in 1..Len(flight'[t]) : flight'[t][i] = flight[t][i + 1]
           /\ Head(flight[t]) = flight[t][1] /\ flight[t][1] \in Write
<1>1. flight[t] \in Seq(Write) /\ flight'[t] = Tail(flight[t])
  BY DEF Typed
<1>2. flight' \in [Tabs -> Seq(Write)]
  BY <1>1 DEF Typed
<1>3. \A u \in Tabs \ {t} : flight'[u] = flight[u]
  BY DEF Typed
<1> QED
  BY <1>1, <1>2, <1>3

-----------------------------------------------------------------------------
(* Types.                                                                    *)

LEMMA InitTyped == Init => Typed
<1> SUFFICES ASSUME Init PROVE Typed
  OBVIOUS
<1>1. EmptyForm \in Form
  BY DEF EmptyForm, Form, Dates
<1>2. \A t \in Tabs : <<>> \in Seq(Write)
  OBVIOUS
<1> QED
  BY <1>1, <1>2 DEF Init, Typed

\* What saveProgram, toggleProgram and delProgram send.
LEMMA WritesTyped ==
    ASSUME Typed, NEW t \in Tabs, NEW p \in Programs
    PROVE  /\ [op |-> "toggle", id |-> p] \in Write
           /\ [op |-> "delete", id |-> p] \in Write
           /\ form[t].entry # NoProgram /\ form[t].start # NoDate
                => [op |-> "save", id |-> p, data |-> Contents(form[t])] \in Write
<1>1. form[t] \in Form
  BY DEF Typed
<1>2. form[t].entry # NoProgram /\ form[t].start # NoDate
        => Contents(form[t]) \in WholeDocument
  BY <1>1, ContentsWhole
<1> QED
  BY <1>2 DEF Write

LEMMA FillTyped ==
    ASSUME Typed, NEW t \in Tabs, NEW p \in Programs, FillForm(t, p)
    PROVE  /\ form' \in [Tabs -> Form]
           /\ \A u \in Tabs \ {t} : form'[u] = form[u]
           /\ \/ form'[t] = form[t]
              \/ /\ View(t, p) # Absent
                 /\ form'[t].edit = p
                 /\ form'[t].entry = View(t, p).entry
<1> DEFINE d == View(t, p)
           new == [edit |-> p, entry |-> d.entry,
                   start |-> IF d.start = NoDate THEN form[t].start
                             ELSE IsoDay(d.start),
                   end |-> IF d.end = NoDate THEN NoDate ELSE IsoDay(d.end)]
<1>1. CASE d = Absent
  <2>1. form' = form
    BY <1>1 DEF FillForm
  <2> QED
    BY <2>1 DEF Typed
<1>2. CASE d # Absent
  <2>1. d \in WholeDocument \cup {Shell}
    BY <1>2, ViewOrigin
  <2>2. d.entry \in Entries \cup {NoProgram} /\ d.start \in Dates /\ d.end \in Dates
    BY <2>1 DEF WholeDocument, Shell, Dates
  <2>3. /\ d.start # NoDate => IsoDay(d.start) \in Dates
        /\ d.end # NoDate => IsoDay(d.end) \in Dates
        /\ NoDate \in Dates
    BY <2>2, DateTypes DEF Dates
  <2>4. form[t] \in Form /\ form[t].start \in Dates
    BY DEF Typed, Form
  <2>5. form' = [form EXCEPT ![t] = new]
    BY <1>2 DEF FillForm
  <2>6. new \in Form
    BY <2>2, <2>3, <2>4 DEF Form
  <2>7. new.edit = p /\ new.entry = d.entry
    OBVIOUS
  <2> HIDE DEF new, d
  <2>8. form' \in [Tabs -> Form] /\ form'[t] = new
           /\ \A u \in Tabs \ {t} : form'[u] = form[u]
    BY <2>5, <2>6 DEF Typed
  <2> QED
    BY <1>2, <2>7, <2>8 DEF d
<1> QED
  BY <1>1, <1>2

\* Every action keeps the types.
LEMMA TypedStep == Typed /\ [Next]_vars => Typed'
<1> SUFFICES ASSUME Typed, [Next]_vars PROVE Typed'
  OBVIOUS
<1>e. EmptyForm \in Form /\ <<>> \in Seq(Write)
  BY DEF EmptyForm, Form, Dates
<1>1. ASSUME NEW t \in Tabs, NEW e \in Entries, Type(t, e) PROVE Typed'
  <2>1. DayOf[e] \in Dates
    BY ProgramEditorAssumption DEF ProgramEditorAssumption, Dates
  <2> DEFINE old == form[t]
             new == [edit |-> old.edit, entry |-> e,
                     start |-> IF old.start = NoDate THEN DayOf[e] ELSE old.start,
                     end |-> IF old.end = NoDate THEN DayOf[e] ELSE old.end]
  <2>2. form[t] \in Form
    BY DEF Typed
  <2>3. new \in Form
    BY <2>1, <2>2 DEF Form
  <2>4. form' = [form EXCEPT ![t] = new]
    BY <1>1 DEF Type
  <2> HIDE DEF new
  <2>5. form' \in [Tabs -> Form]
    BY <2>3, <2>4 DEF Typed
  <2> QED
    BY <1>1, <2>5 DEF Type, Typed
<1>2. ASSUME NEW t \in Tabs, NEW p \in Programs, SaveProgram(t, p) PROVE Typed'
  <2>1. flight' \in [Tabs -> Seq(Write)]
    BY <1>2, WritesTyped, IssueSaves DEF SaveProgram
  <2> QED
    BY <1>2, <2>1 DEF SaveProgram, Typed
<1>3. ASSUME NEW t \in Tabs, ResetProgramForm(t) PROVE Typed'
  BY <1>3, <1>e DEF ResetProgramForm, Typed
<1>4. ASSUME NEW t \in Tabs, NEW p \in Programs, EditProgram(t, p) PROVE Typed'
  BY <1>4 DEF EditProgram, Typed
<1>5. ASSUME NEW t \in Tabs, NEW p \in Programs, FillForm(t, p) PROVE Typed'
  <2>1. form' \in [Tabs -> Form]
    BY <1>5, FillTyped
  <2> QED
    BY <1>5, <2>1 DEF FillForm, Typed
<1>6. ASSUME NEW t \in Tabs, NEW p \in Programs, ToggleProgram(t, p) PROVE Typed'
  <2>1. flight' \in [Tabs -> Seq(Write)]
    BY <1>6, WritesTyped, IssueSaves DEF ToggleProgram
  <2> QED
    BY <1>6, <2>1 DEF ToggleProgram, Typed, panel
<1>7. ASSUME NEW t \in Tabs, NEW p \in Programs, DelProgram(t, p) PROVE Typed'
  <2>1. flight' \in [Tabs -> Seq(Write)]
    BY <1>7, WritesTyped, IssueSaves DEF DelProgram
  <2> QED
    BY <1>7, <2>1 DEF DelProgram, Typed, panel
<1>s. ASSUME NEW t \in Tabs, NEW ok \in BOOLEAN, Settle(t, ok)
      PROVE  /\ flight' \in [Tabs -> Seq(Write)]
             /\ form' \in [Tabs -> Form]
             /\ saving' \in [Tabs -> BOOLEAN]
             /\ opening' = opening /\ typed' = typed
             /\ Head(flight[t]) \in Write
  <2>1. flight' \in [Tabs -> Seq(Write)] /\ Head(flight[t]) \in Write
    BY <1>s, SettleSaves DEF Settle
  <2>2. form' \in [Tabs -> Form] /\ saving' \in [Tabs -> BOOLEAN]
    BY <1>s, <1>e DEF Settle, EndSave, Typed
  <2> QED
    BY <1>s, <2>1, <2>2 DEF Settle
<1>8. ASSUME NEW t \in Tabs, Commit(t) PROVE Typed'
  <2>1. Head(flight[t]) \in Write
    BY <1>8, <1>s DEF Commit
  <2>2. docs' \in [Programs -> WholeDocument \cup {Shell, Absent}]
    BY <1>8, <2>1, ApplyTyped DEF Commit, Typed
  <2>3. listed' \subseteq Programs
    BY <1>8 DEF Commit, Typed
  <2>4. Head(flight[t]).id \in Programs
    BY <2>1 DEF Write
  <2>5. shells' \subseteq Programs
    BY <1>8, <2>4 DEF Commit, Typed
  <2> QED
    BY <1>8, <1>s, <2>2, <2>3, <2>5 DEF Commit, Typed
<1>9. ASSUME NEW t \in Tabs, Reject(t) PROVE Typed'
  BY <1>9, <1>s DEF Reject, Typed
<1>10. ASSUME NEW t \in Tabs, CloseTab(t) PROVE Typed'
  BY <1>10, <1>e DEF CloseTab, Typed
<1>11. CASE UNCHANGED vars
  BY <1>11 DEF vars, panel, Typed
<1> QED
  BY <1>1, <1>2, <1>3, <1>4, <1>5, <1>6, <1>7, <1>8, <1>9, <1>10, <1>11 DEF Next

-----------------------------------------------------------------------------
(* Saves under way.                                                          *)

\* A toggle or a delete changes no save.
LEMMA OthersSaves ==
    ASSUME Typed, NEW t \in Tabs, NEW w \in Write, w.op # "save", Issue(t, w)
    PROVE  \A u \in Tabs :
             /\ Len(flight[u]) \in Nat /\ Len(flight'[u]) >= Len(flight[u])
             /\ \A i \in 1..Len(flight'[u]) :
                  IsSave(u, i)' => IsSave(u, i) /\ flight'[u][i] = flight[u][i]
             /\ \A i \in 1..Len(flight[u]) : IsSave(u, i) => IsSave(u, i)'
<1> SUFFICES ASSUME NEW u \in Tabs
             PROVE /\ Len(flight[u]) \in Nat /\ Len(flight'[u]) >= Len(flight[u])
                   /\ \A i \in 1..Len(flight'[u]) :
                        IsSave(u, i)' => IsSave(u, i) /\ flight'[u][i] = flight[u][i]
                   /\ \A i \in 1..Len(flight[u]) : IsSave(u, i) => IsSave(u, i)'
  OBVIOUS
<1>1. CASE u = t
  <2>1. \A i \in 1..Len(flight'[t]) :
          i \in 1..Len(flight[t]) \/ i = Len(flight[t]) + 1
    BY IssueSaves
  <2> QED
    BY <1>1, <2>1, IssueSaves DEF IsSave
<1>2. CASE u # t
  <2>1. flight'[u] = flight[u] /\ flight[u] \in Seq(Write)
    BY <1>2, IssueSaves DEF Typed
  <2> QED
    BY <2>1 DEF IsSave
<1> QED
  BY <1>1, <1>2

LEMMA OthersSaved ==
    ASSUME Typed, NEW t \in Tabs, NEW w \in Write, w.op # "save", Issue(t, w)
    PROVE  \A u \in Tabs : \A p, e : Saved(u, p, e)' => Saved(u, p, e)
BY OthersSaves DEF Saved, IsSave

\* A new save adds its entry to its program.
LEMMA SaveSaved ==
    ASSUME Typed, NEW t \in Tabs, NEW w \in Write, w.op = "save", Issue(t, w)
    PROVE  \A u \in Tabs : \A p, e :
             Saved(u, p, e)' =>
                \/ Saved(u, p, e)
                \/ u = t /\ p = w.id /\ e = w.data.entry
<1> SUFFICES ASSUME NEW u \in Tabs, NEW p, NEW e, Saved(u, p, e)'
             PROVE  Saved(u, p, e) \/ (u = t /\ p = w.id /\ e = w.data.entry)
  OBVIOUS
<1>1. PICK i \in 1..Len(flight'[u]) :
        /\ flight'[u][i].op = "save" /\ flight'[u][i].id = p
        /\ flight'[u][i].data.entry = e
  BY DEF Saved, IsSave
<1>2. CASE u = t
  <2>1. i \in 1..Len(flight'[t])
    BY <1>2
  <2>2. i \in 1..Len(flight[t]) \/ i = Len(flight[t]) + 1
    BY <2>1, IssueSaves
  <2>3. CASE i = Len(flight[t]) + 1
    <3>1. flight'[t][i] = w
      BY <2>3, IssueSaves
    <3> QED
      BY <1>1, <1>2, <3>1
  <2>4. CASE i \in 1..Len(flight[t])
    <3>1. flight'[t][i] = flight[t][i]
      BY <2>4, IssueSaves
    <3> QED
      BY <1>1, <1>2, <2>4, <3>1 DEF Saved, IsSave
  <2> QED
    BY <2>2, <2>3, <2>4
<1>3. CASE u # t
  BY <1>1, <1>3, IssueSaves DEF Saved, IsSave
<1> QED
  BY <1>2, <1>3

\* An answer adds none, and what it answers was one.
LEMMA SettleSaved ==
    ASSUME Typed, NEW t \in Tabs, flight[t] # <<>>,
           flight' = [flight EXCEPT ![t] = Tail(@)]
    PROVE  /\ \A u \in Tabs : \A p, e : Saved(u, p, e)' => Saved(u, p, e)
           /\ Head(flight[t]).op = "save" =>
                Saved(t, Head(flight[t]).id, Head(flight[t]).data.entry)
<1>0. /\ Len(flight[t]) \in Nat \ {0}
      /\ Len(flight'[t]) = Len(flight[t]) - 1
      /\ \A i \in 1..Len(flight'[t]) : flight'[t][i] = flight[t][i + 1]
  BY SettleSaves
<1>1. ASSUME NEW u \in Tabs, NEW p, NEW e, Saved(u, p, e)'
      PROVE  Saved(u, p, e)
  <2>1. PICK i \in 1..Len(flight'[u]) :
          /\ flight'[u][i].op = "save" /\ flight'[u][i].id = p
          /\ flight'[u][i].data.entry = e
    BY <1>1 DEF Saved, IsSave
  <2>2. CASE u = t
    <3>1. i \in 1..Len(flight'[t])
      BY <2>2
    <3>2. i + 1 \in 1..Len(flight[t]) /\ flight'[t][i] = flight[t][i + 1]
      BY <1>0, <3>1
    <3> QED
      BY <2>1, <2>2, <3>2 DEF Saved, IsSave
  <2>3. CASE u # t
    BY <2>1, <2>3, SettleSaves DEF Saved, IsSave
  <2> QED
    BY <2>2, <2>3
<1>2. 1 \in 1..Len(flight[t]) /\ Head(flight[t]) = flight[t][1]
  BY SettleSaves
<1> QED
  BY <1>1, <1>2 DEF Saved, IsSave

-----------------------------------------------------------------------------
(* The properties' invariants, one after the other.                          *)

\* Only a toggle leaves a document that is not whole.
LEMMA ShellStep == Typed /\ ShellInv /\ [Next]_vars => ShellInv'
<1> SUFFICES ASSUME Typed, ShellInv, [Next]_vars PROVE ShellInv'
  OBVIOUS
<1>1. CASE \E t \in Tabs : Commit(t)
  <2>1. PICK t \in Tabs : Commit(t)
    BY <1>1
  <2> DEFINE w == Head(flight[t])
  <2>2. w \in Write
    BY <2>1, SettleSaves DEF Commit, Settle
  <2>3. docs' = Apply(w, docs)
    BY <2>1 DEF Commit
  <2>4. shells' = IF w.op = "toggle" /\ docs[w.id] = Absent
                  THEN shells \cup {w.id} ELSE shells
    BY <2>1 DEF Commit
  <2> HIDE DEF w
  <2> SUFFICES ASSUME NEW p \in Programs, docs'[p] # Absent,
                      docs'[p] \notin WholeDocument
               PROVE  p \in shells'
    BY DEF ShellInv
  <2>5. docs \in [Programs -> WholeDocument \cup {Shell, Absent}]
    BY DEF Typed
  <2>6. CASE w.id # p
    <3>1. docs'[p] = docs[p]
      BY <2>3, <2>5, <2>6 DEF Apply
    <3> QED
      BY <2>4, <3>1 DEF ShellInv
  <2>7. CASE w.id = p /\ w.op = "delete"
    BY <2>3, <2>5, <2>7 DEF Apply
  <2>8. CASE w.id = p /\ w.op = "toggle"
    <3>1. w.op # "delete"
      BY <2>8
    <3>2. docs'[p] = IF docs[p] = Absent THEN Shell ELSE docs[p]
      BY <2>3, <2>5, <2>8, <3>1 DEF Apply
    <3> QED
      BY <2>4, <2>8, <3>2 DEF ShellInv
  <2>9. CASE w.id = p /\ w.op = "save"
    <3>1. w.op # "delete" /\ w.op # "toggle" /\ w.data \in WholeDocument
      BY <2>2, <2>9 DEF Write
    <3>2. docs'[p] = w.data
      BY <2>3, <2>5, <2>9, <3>1 DEF Apply
    <3> QED
      BY <3>1, <3>2
  <2> QED
    BY <2>2, <2>6, <2>7, <2>8, <2>9 DEF Write
<1>2. CASE ~\E t \in Tabs : Commit(t)
  <2>1. docs' = docs /\ shells \subseteq shells'
    BY <1>2 DEF Next, Type, SaveProgram, ResetProgramForm, EditProgram, FillForm,
                ToggleProgram, DelProgram, Reject, CloseTab, vars
  <2> QED
    BY <2>1 DEF ShellInv
<1> QED
  BY <1>1, <1>2

\* The button is disabled while one save is under way.
LEMMA SaveStep == Typed /\ SaveInv /\ [Next]_vars => SaveInv'
<1> SUFFICES ASSUME Typed, SaveInv, [Next]_vars PROVE SaveInv'
  OBVIOUS
<1>1. ASSUME UNCHANGED <<saving, flight>> PROVE SaveInv'
  BY <1>1 DEF SaveInv, IsSave
<1>2. ASSUME NEW t \in Tabs, NEW w \in Write, w.op # "save", Issue(t, w),
             saving' = saving
      PROVE  SaveInv'
  <2> SUFFICES ASSUME NEW u \in Tabs
               PROVE  /\ saving'[u] <=> \E i \in 1..Len(flight'[u]) : IsSave(u, i)'
                      /\ \A i, j \in 1..Len(flight'[u]) :
                            IsSave(u, i)' /\ IsSave(u, j)' => i = j
    BY DEF SaveInv
  <2>1. /\ Len(flight[u]) \in Nat /\ Len(flight'[u]) >= Len(flight[u])
        /\ \A i \in 1..Len(flight'[u]) : IsSave(u, i)' => IsSave(u, i)
        /\ \A i \in 1..Len(flight[u]) : IsSave(u, i) => IsSave(u, i)'
    BY <1>2, OthersSaves
  <2>2. \A i : IsSave(u, i)' => i \in 1..Len(flight'[u])
    BY DEF IsSave
  <2>3. \A i : IsSave(u, i) => i \in 1..Len(flight[u])
    BY DEF IsSave
  <2>4. \A i : IsSave(u, i) <=> IsSave(u, i)'
    BY <2>1, <2>2, <2>3
  <2>5. (\E i \in 1..Len(flight[u]) : IsSave(u, i))
            <=> \E i \in 1..Len(flight'[u]) : IsSave(u, i)'
    BY <2>2, <2>3, <2>4
  <2> QED
    BY <1>2, <2>2, <2>3, <2>4, <2>5 DEF SaveInv
<1>3. ASSUME NEW t \in Tabs, NEW p \in Programs, SaveProgram(t, p) PROVE SaveInv'
  <2> DEFINE w == [op |-> "save", id |-> p, data |-> Contents(form[t])]
  <2>1. w \in Write /\ w.op = "save" /\ Issue(t, w)
    BY <1>3, WritesTyped DEF SaveProgram
  <2> HIDE DEF w
  <2>n. PICK n \in Nat : n = Len(flight[t])
    BY <2>1, IssueSaves
  <2>2. /\ Len(flight[t]) = n /\ Len(flight'[t]) = n + 1 /\ flight'[t][n + 1] = w
        /\ \A i \in 1..n : flight'[t][i] = flight[t][i]
        /\ \A u \in Tabs \ {t} : flight'[u] = flight[u]
    BY <2>1, <2>n, IssueSaves
  <2>3. ~saving[t] /\ saving' = [saving EXCEPT ![t] = TRUE]
    BY <1>3 DEF SaveProgram
  <2> SUFFICES ASSUME NEW u \in Tabs
               PROVE  /\ saving'[u] <=> \E i \in 1..Len(flight'[u]) : IsSave(u, i)'
                      /\ \A i, j \in 1..Len(flight'[u]) :
                            IsSave(u, i)' /\ IsSave(u, j)' => i = j
    BY DEF SaveInv
  <2>4. CASE u = t
    <3>1. \A i \in 1..n : ~IsSave(t, i)
      BY <2>n, <2>3 DEF SaveInv
    <3>2. \A i \in 1..n : ~IsSave(t, i)'
      BY <2>2, <3>1 DEF IsSave
    <3>3. \A i \in 1..Len(flight'[t]) : i \in 1..n \/ i = n + 1
      BY <2>2
    <3>4. n + 1 \in 1..Len(flight'[t])
      BY <2>2
    <3>5. IsSave(t, n + 1)'
      BY <2>1, <2>2, <3>4 DEF IsSave
    <3>6. saving'[t]
      BY <2>3 DEF Typed
    <3>7. \A i \in 1..Len(flight'[t]) : IsSave(t, i)' => i = n + 1
      BY <3>2, <3>3
    <3> QED
      BY <2>4, <3>4, <3>5, <3>6, <3>7
  <2>5. CASE u # t
    <3>1. flight'[u] = flight[u] /\ saving'[u] = saving[u]
      BY <2>2, <2>3, <2>5 DEF Typed
    <3> QED
      BY <3>1 DEF SaveInv, IsSave
  <2> QED
    BY <2>4, <2>5
<1>4. ASSUME NEW t \in Tabs, NEW ok \in BOOLEAN, Settle(t, ok) PROVE SaveInv'
  <2> DEFINE n == Len(flight'[t])
  <2>1. /\ flight[t] # <<>> /\ flight' = [flight EXCEPT ![t] = Tail(@)]
    BY <1>4 DEF Settle
  <2>2. /\ n \in Nat /\ Len(flight[t]) = n + 1
        /\ \A i \in 1..n : flight'[t][i] = flight[t][i + 1]
        /\ Head(flight[t]) = flight[t][1]
        /\ \A u \in Tabs \ {t} : flight'[u] = flight[u]
    <3>1. /\ Len(flight[t]) \in Nat \ {0} /\ n = Len(flight[t]) - 1
          /\ \A i \in 1..n : flight'[t][i] = flight[t][i + 1]
          /\ Head(flight[t]) = flight[t][1]
          /\ \A u \in Tabs \ {t} : flight'[u] = flight[u]
      BY <2>1, SettleSaves
    <3>2. n \in Nat /\ Len(flight[t]) = n + 1
      BY <3>1
    <3> QED
      BY <3>1, <3>2
  <2>3. \A u \in Tabs \ {t} : saving'[u] = saving[u]
    BY <1>4 DEF Settle, EndSave, Typed
  <2>4. \A i \in 1..n : IsSave(t, i)' <=> IsSave(t, i + 1)
    BY <2>2 DEF IsSave
  <2>5. IsSave(t, 1) <=> Head(flight[t]).op = "save"
    BY <2>2 DEF IsSave
  <2> SUFFICES ASSUME NEW u \in Tabs
               PROVE  /\ saving'[u] <=> \E i \in 1..Len(flight'[u]) : IsSave(u, i)'
                      /\ \A i, j \in 1..Len(flight'[u]) :
                            IsSave(u, i)' /\ IsSave(u, j)' => i = j
    BY DEF SaveInv
  <2>6. CASE u # t
    <3>1. flight'[u] = flight[u] /\ saving'[u] = saving[u]
      BY <2>2, <2>3, <2>6
    <3> QED
      BY <3>1 DEF SaveInv, IsSave
  <2>7. \A i, j \in 1..Len(flight[t]) : IsSave(t, i) /\ IsSave(t, j) => i = j
    BY DEF SaveInv
  <2>8. \A i, j \in 1..n : IsSave(t, i)' /\ IsSave(t, j)' => i = j
    <3> SUFFICES ASSUME NEW i \in 1..n, NEW j \in 1..n, IsSave(t, i)', IsSave(t, j)'
                 PROVE  i = j
      OBVIOUS
    <3>1. i + 1 \in 1..Len(flight[t]) /\ j + 1 \in 1..Len(flight[t])
      BY <2>2
    <3>2. IsSave(t, i + 1) /\ IsSave(t, j + 1)
      BY <2>4
    <3>3. i + 1 = j + 1
      BY <2>7, <3>1, <3>2
    <3> HIDE DEF n
    <3> QED
      BY <2>2, <3>3
  <2>9. CASE u = t /\ Head(flight[t]).op = "save"
    <3>1. saving'[t] = FALSE
      BY <1>4, <2>9 DEF Settle, EndSave, Typed
    <3>2. \A i \in 1..n : ~IsSave(t, i)'
      <4> SUFFICES ASSUME NEW i \in 1..n, IsSave(t, i)' PROVE FALSE
        OBVIOUS
      <4>1. IsSave(t, i + 1) /\ IsSave(t, 1)
        BY <2>4, <2>5, <2>9
      <4>2. i + 1 \in 1..Len(flight[t]) /\ 1 \in 1..Len(flight[t])
        BY <2>2
      <4>3. i + 1 = 1
        BY <2>7, <4>1, <4>2
      <4> HIDE DEF n
      <4> QED
        BY <2>2, <4>3
    <3> QED
      BY <2>8, <2>9, <3>1, <3>2
  <2>10. CASE u = t /\ Head(flight[t]).op # "save"
    <3>1. saving' = saving
      BY <1>4, <2>10 DEF Settle
    <3>2. \A i \in 1..Len(flight[t]) : IsSave(t, i) => i - 1 \in 1..n /\ IsSave(t, i - 1)'
      <4> SUFFICES ASSUME NEW i \in 1..Len(flight[t]), IsSave(t, i)
                   PROVE  i - 1 \in 1..n /\ IsSave(t, i - 1)'
        OBVIOUS
      <4>1. i # 1
        BY <2>5, <2>10
      <4> DEFINE k == i - 1
      <4>2. k \in 1..n /\ k + 1 = i
        BY <2>2, <4>1
      <4> HIDE DEF k
      <4>3. IsSave(t, k)'
        BY <2>4, <4>2
      <4> QED
        BY <4>2, <4>3 DEF k
    <3>3. \A i \in 1..n : i + 1 \in 1..Len(flight[t])
      BY <2>2
    <3>4. (\E i \in 1..Len(flight[t]) : IsSave(t, i)) <=> \E i \in 1..n : IsSave(t, i)'
      BY <2>4, <3>2, <3>3
    <3>5. saving[t] <=> \E i \in 1..Len(flight[t]) : IsSave(t, i)
      BY DEF SaveInv
    <3> QED
      BY <2>8, <2>10, <3>1, <3>4, <3>5
  <2> QED
    BY <2>6, <2>9, <2>10
<1>5. ASSUME NEW t \in Tabs, CloseTab(t) PROVE SaveInv'
  <2> SUFFICES ASSUME NEW u \in Tabs
               PROVE  /\ saving'[u] <=> \E i \in 1..Len(flight'[u]) : IsSave(u, i)'
                      /\ \A i, j \in 1..Len(flight'[u]) :
                            IsSave(u, i)' /\ IsSave(u, j)' => i = j
    BY DEF SaveInv
  <2>1. CASE u = t
    <3>1. saving'[u] = FALSE /\ Len(flight'[u]) = 0
      BY <1>5, <2>1 DEF CloseTab, Typed
    <3> QED
      BY <3>1
  <2>2. CASE u # t
    <3>1. saving'[u] = saving[u] /\ flight'[u] = flight[u]
      BY <1>5, <2>2 DEF CloseTab, Typed
    <3> QED
      BY <3>1 DEF SaveInv, IsSave
  <2> QED
    BY <2>1, <2>2
<1>6. ASSUME NEW t \in Tabs, NEW e \in Entries, Type(t, e) PROVE SaveInv'
  BY <1>1, <1>6 DEF Type
<1>7. ASSUME NEW t \in Tabs, ResetProgramForm(t) PROVE SaveInv'
  BY <1>1, <1>7 DEF ResetProgramForm
<1>8. ASSUME NEW t \in Tabs, NEW p \in Programs, EditProgram(t, p) PROVE SaveInv'
  BY <1>1, <1>8 DEF EditProgram
<1>9. ASSUME NEW t \in Tabs, NEW p \in Programs, FillForm(t, p) PROVE SaveInv'
  BY <1>1, <1>9 DEF FillForm
<1>10. ASSUME NEW t \in Tabs, NEW p \in Programs, ToggleProgram(t, p) PROVE SaveInv'
  BY <1>2, <1>10, WritesTyped DEF ToggleProgram, panel
<1>11. ASSUME NEW t \in Tabs, NEW p \in Programs, DelProgram(t, p) PROVE SaveInv'
  BY <1>2, <1>11, WritesTyped DEF DelProgram, panel
<1>12. ASSUME NEW t \in Tabs, Commit(t) PROVE SaveInv'
  BY <1>4, <1>12 DEF Commit
<1>13. ASSUME NEW t \in Tabs, Reject(t) PROVE SaveInv'
  BY <1>4, <1>13 DEF Reject
<1>14. CASE UNCHANGED vars
  BY <1>1, <1>14 DEF vars, panel
<1> QED
  BY <1>3, <1>5, <1>6, <1>7, <1>8, <1>9, <1>10, <1>11, <1>12, <1>13, <1>14 DEF Next

\* No entry gets to a place it was not, apart from a save that arrives, which
\* empties the form it was made from.
LEMMA Shrinks ==
    ASSUME Typed, OwnInv, NewInv, TypedInv,
           \A p \in Programs, e \in Entries :
              Stored(p, e)' =>
                \/ Stored(p, e)
                \/ \E t \in Tabs : Saved(t, p, e) /\ form'[t] = EmptyForm,
           \A t \in Tabs : \A p \in Programs, e \in Entries :
              Saved(t, p, e)' => Saved(t, p, e),
           \A t \in Tabs : form'[t] \in {form[t], EmptyForm},
           typed \subseteq typed'
    PROVE  OwnInv' /\ NewInv' /\ TypedInv'
<1>1. \A e \in Entries : e # NoProgram
  BY ProgramEditorAssumption DEF ProgramEditorAssumption
<1>2. \A t \in Tabs, e \in Entries : form'[t].entry = e => form'[t] = form[t]
  BY <1>1 DEF EmptyForm
<1>3. \A t \in Tabs, e \in Entries : \A p : Edited(t, p, e)' => Edited(t, p, e)
  BY <1>2 DEF Edited
<1>4. \A e \in Entries, p \in Programs : Owns(p, e)' => Owns(p, e)
  BY <1>3 DEF Owns
<1>5. OwnInv'
  BY <1>4 DEF OwnInv
<1>6. TypedInv'
  BY <1>2, <1>4 DEF TypedInv
<1>7. NewInv'
  <2> SUFFICES ASSUME NEW t \in Tabs, NEW e \in Entries, Edited(t, NoProgram, e)'
               PROVE  /\ \A p \in Programs : ~Stored(p, e)'
                      /\ \A u \in Tabs \ {t} :
                            /\ form'[u].entry # e
                            /\ \A p \in Programs : ~Saved(u, p, e)'
    BY DEF NewInv
  <2>1. Edited(t, NoProgram, e) /\ form'[t] # EmptyForm
    BY <1>1, <1>3 DEF Edited, EmptyForm
  <2>2. /\ \A p \in Programs : ~Stored(p, e)
        /\ \A u \in Tabs \ {t} :
              /\ form[u].entry # e
              /\ \A p \in Programs : ~Saved(u, p, e)
    BY <2>1 DEF NewInv
  <2> QED
    BY <1>2, <2>1, <2>2
<1> QED
  BY <1>5, <1>6, <1>7

\* An arriving write stores the entry of a save, and that save's form is emptied.
LEMMA CommitStored ==
    ASSUME Typed, NEW t \in Tabs, Commit(t)
    PROVE  \A p \in Programs, e \in Entries :
              Stored(p, e)' =>
                \/ Stored(p, e)
                \/ Saved(t, p, e) /\ form'[t] = EmptyForm
<1> DEFINE w == Head(flight[t])
<1> SUFFICES ASSUME NEW p \in Programs, NEW e \in Entries, Stored(p, e)'
             PROVE  \/ Stored(p, e)
                    \/ Saved(t, p, e) /\ form'[t] = EmptyForm
  OBVIOUS
<1>1. w \in Write /\ (w.op = "save" => Saved(t, w.id, w.data.entry))
  BY SettleSaves, SettleSaved DEF Commit, Settle
<1>2. docs' = Apply(w, docs)
  BY DEF Commit
<1>3. w.op = "save" => form'[t] = EmptyForm
  BY DEF Commit, Settle, EndSave, Typed
<1> HIDE DEF w
<1>4. docs \in [Programs -> WholeDocument \cup {Shell, Absent}]
  BY DEF Typed
<1>5. docs'[p] # Absent /\ docs'[p].entry = e /\ e # NoProgram
  BY ProgramEditorAssumption DEF Stored, ProgramEditorAssumption
<1>6. CASE w.id # p
  BY <1>2, <1>4, <1>5, <1>6 DEF Apply, Stored
<1>7. CASE w.id = p /\ w.op = "delete"
  BY <1>2, <1>4, <1>5, <1>7 DEF Apply
<1>8. CASE w.id = p /\ w.op = "toggle"
  <2>1. w.op # "delete"
    BY <1>8
  <2>2. docs'[p] = IF docs[p] = Absent THEN Shell ELSE docs[p]
    BY <1>2, <1>4, <1>8, <2>1 DEF Apply
  <2> QED
    BY <1>5, <2>2 DEF Stored, Shell
<1>9. CASE w.id = p /\ w.op = "save"
  <2>1. w.op # "delete" /\ w.op # "toggle"
    BY <1>9
  <2>2. docs'[p] = w.data
    BY <1>2, <1>4, <1>9, <2>1 DEF Apply
  <2> QED
    BY <1>1, <1>3, <1>5, <1>9, <2>2
<1> QED
  BY <1>1, <1>6, <1>7, <1>8, <1>9 DEF Write

Ownership == OwnInv /\ NewInv /\ TypedInv

\* What is typed is new, and belongs to the program that is edited, if any.
LEMMA TypeOwns ==
    ASSUME Typed, Ownership, NEW t \in Tabs, NEW e \in Entries, Type(t, e)
    PROVE  Ownership'
<1>1. /\ form'[t].edit = form[t].edit /\ form'[t].entry = e
      /\ \A u \in Tabs \ {t} : form'[u] = form[u]
      /\ typed' = typed \cup {e} /\ e \notin typed
      /\ form[t].entry = NoProgram
      /\ UNCHANGED <<docs, flight>>
  BY DEF Type, Typed
<1>2. \A x \in Entries : x # NoProgram
  BY ProgramEditorAssumption DEF ProgramEditorAssumption
<1>3. /\ \A p, x : Stored(p, x)' <=> Stored(p, x)
      /\ \A u, p, x : Saved(u, p, x)' <=> Saved(u, p, x)
  BY <1>1 DEF Stored, Saved, IsSave
<1>4. /\ \A p \in Programs : ~Owns(p, e)
      /\ \A u \in Tabs : form[u].entry # e
  BY <1>1 DEF Ownership, TypedInv
<1>5. \A u \in Tabs : \A p, x : Edited(u, p, x)' =>
        Edited(u, p, x) \/ (u = t /\ p = form[t].edit /\ x = e)
  BY <1>1 DEF Edited
<1>6. \A p \in Programs, x \in Entries :
        Owns(p, x)' => Owns(p, x) \/ (p = form[t].edit /\ x = e)
  BY <1>3, <1>5 DEF Owns
<1>7. OwnInv'
  BY <1>4, <1>6 DEF Ownership, OwnInv
<1>8. TypedInv'
  BY <1>1, <1>6 DEF Ownership, TypedInv
<1>9. NewInv'
  <2> SUFFICES ASSUME NEW u \in Tabs, NEW x \in Entries, Edited(u, NoProgram, x)'
               PROVE  /\ \A p \in Programs : ~Stored(p, x)
                      /\ \A v \in Tabs \ {u} :
                            /\ form'[v].entry # x
                            /\ \A p \in Programs : ~Saved(v, p, x)
    BY <1>3 DEF NewInv
  <2>1. CASE x = e
    <3>1. u = t
      BY <1>4, <1>5, <2>1 DEF Edited
    <3> QED
      BY <1>1, <1>4, <2>1, <3>1 DEF Owns
  <2>2. CASE x # e
    <3>1. Edited(u, NoProgram, x)
      BY <1>5, <2>2
    <3> QED
      BY <1>1, <2>2, <3>1 DEF Ownership, NewInv
  <2> QED
    BY <2>1, <2>2
<1> QED
  BY <1>7, <1>8, <1>9 DEF Ownership

\* A save puts the form's entry on its way to the program it is of: the one that
\* is edited, or a fresh one if the entry is in no other.
LEMMA SaveOwns ==
    ASSUME Typed, SaveInv, Ownership, NEW t \in Tabs, NEW p \in Programs,
           SaveProgram(t, p)
    PROVE  Ownership'
<1> DEFINE e == form[t].entry
           w == [op |-> "save", id |-> p, data |-> Contents(form[t])]
<1>1. /\ UNCHANGED <<docs, form, typed>> /\ ~saving[t]
      /\ e # NoProgram /\ (form[t].edit # NoProgram => p = form[t].edit)
      /\ Issue(t, w)
  BY DEF SaveProgram
<1>2. w \in Write /\ w.op = "save" /\ w.id = p /\ w.data.entry = e
  BY WritesTyped DEF SaveProgram, Contents
<1>3. form[t] \in Form /\ e \in Entries /\ NoProgram \notin Programs
  BY <1>1, ProgramEditorAssumption DEF Typed, Form, ProgramEditorAssumption
<1> HIDE DEF w
<1>4. \A u \in Tabs : \A q, x :
        Saved(u, q, x)' => Saved(u, q, x) \/ (u = t /\ q = p /\ x = e)
  BY <1>1, <1>2, SaveSaved
<1> HIDE DEF e
<1>5. /\ \A q, x : Stored(q, x)' <=> Stored(q, x)
      /\ \A u, q, x : Edited(u, q, x)' <=> Edited(u, q, x)
  BY <1>1 DEF Stored, Edited
<1>6. \A q \in Programs, x \in Entries :
        Owns(q, x)' => Owns(q, x) \/ (q = p /\ x = e)
  BY <1>4, <1>5 DEF Owns
<1>7. \A q \in Programs : Owns(q, e) => q = p
  <2>1. CASE form[t].edit # NoProgram
    <3>1. Owns(p, e)
      BY <1>1, <2>1 DEF Owns, Edited, e
    <3> QED
      BY <1>3, <3>1 DEF Ownership, OwnInv
  <2>2. CASE form[t].edit = NoProgram
    <3>1. Edited(t, NoProgram, e)
      BY <2>2 DEF Edited, e
    <3>2. /\ \A q \in Programs : ~Stored(q, e)
          /\ \A u \in Tabs \ {t} :
                /\ form[u].entry # e
                /\ \A q \in Programs : ~Saved(u, q, e)
      BY <1>3, <3>1 DEF Ownership, NewInv
    <3>3. \A q \in Programs : ~Saved(t, q, e)
      BY <1>1 DEF SaveInv, Saved
    <3>4. \A u \in Tabs, q \in Programs : ~Edited(u, q, e)
      BY <1>3, <2>2, <3>2 DEF Edited
    <3> QED
      BY <3>2, <3>3, <3>4 DEF Owns
  <2> QED
    BY <2>1, <2>2
<1>8. OwnInv'
  <2> SUFFICES ASSUME NEW x \in Entries, NEW q \in Programs, NEW r \in Programs,
                      Owns(q, x)', Owns(r, x)'
               PROVE  q = r
    BY DEF OwnInv
  <2>1. CASE x = e
    BY <1>6, <1>7, <2>1
  <2>2. CASE x # e
    BY <1>6, <2>2 DEF Ownership, OwnInv
  <2> QED
    BY <2>1, <2>2
<1>9. TypedInv'
  BY <1>1, <1>3, <1>6 DEF Ownership, TypedInv, e
<1>10. NewInv'
  <2> SUFFICES ASSUME NEW u \in Tabs, NEW x \in Entries, Edited(u, NoProgram, x)
               PROVE  /\ \A q \in Programs : ~Stored(q, x)
                      /\ \A v \in Tabs \ {u} :
                            /\ form[v].entry # x
                            /\ \A q \in Programs : ~Saved(v, q, x)'
    BY <1>1, <1>5 DEF NewInv
  <2>1. /\ \A q \in Programs : ~Stored(q, x)
        /\ \A v \in Tabs \ {u} :
              /\ form[v].entry # x
              /\ \A q \in Programs : ~Saved(v, q, x)
    BY DEF Ownership, NewInv
  <2> QED
    BY <1>4, <2>1 DEF e
<1> QED
  BY <1>8, <1>9, <1>10 DEF Ownership

\* An edit brings an entry into the form together with its program.
LEMMA FillOwns ==
    ASSUME Typed, Ownership, NEW t \in Tabs, NEW p \in Programs, FillForm(t, p)
    PROVE  Ownership'
<1>1. UNCHANGED <<docs, flight, typed>>
  BY DEF FillForm
<1>2. NoProgram \notin Programs /\ \A e \in Entries : e # NoProgram
  BY ProgramEditorAssumption DEF ProgramEditorAssumption
<1>3. /\ \A q, x : Stored(q, x)' <=> Stored(q, x)
      /\ \A u, q, x : Saved(u, q, x)' <=> Saved(u, q, x)
  BY <1>1 DEF Stored, Saved, IsSave
<1>4. \A u \in Tabs \ {t} : form'[u] = form[u]
  BY FillTyped
<1>5. CASE form'[t] = form[t]
  <2>1. \A u \in Tabs : form'[u] = form[u]
    BY <1>4, <1>5
  <2> QED
    BY <1>1, <1>3, <2>1, Shrinks DEF Ownership
<1>6. CASE form'[t] # form[t]
  <2> DEFINE e == form'[t].entry
  <2>1. form'[t].edit = p /\ (e = NoProgram \/ Stored(p, e) \/ Saved(t, p, e))
    BY <1>6, FillTyped, ViewOrigin
  <2>2. \A u \in Tabs : \A q, x :
          Edited(u, q, x)' => Edited(u, q, x) \/ (u = t /\ q = p /\ x = e)
    BY <1>4, <2>1 DEF Edited
  <2>3. \A q \in Programs, x \in Entries : Owns(q, x)' => Owns(q, x)
    BY <1>2, <1>3, <2>1, <2>2 DEF Owns
  <2>4. OwnInv'
    BY <2>3 DEF Ownership, OwnInv
  <2>5. e \in Entries => Owns(p, e)
    BY <1>2, <2>1 DEF Owns
  <2>6. TypedInv'
    BY <1>1, <1>4, <2>3, <2>5 DEF Ownership, TypedInv
  <2>7. NewInv'
    <3> SUFFICES ASSUME NEW u \in Tabs, NEW x \in Entries, Edited(u, NoProgram, x)'
                 PROVE  /\ \A q \in Programs : ~Stored(q, x)
                        /\ \A v \in Tabs \ {u} :
                              /\ form'[v].entry # x
                              /\ \A q \in Programs : ~Saved(v, q, x)
      BY <1>3 DEF NewInv
    <3>1. u # t /\ Edited(u, NoProgram, x)
      BY <1>2, <2>1, <2>2 DEF Edited
    <3>2. /\ \A q \in Programs : ~Stored(q, x)
          /\ \A v \in Tabs \ {u} :
                /\ form[v].entry # x
                /\ \A q \in Programs : ~Saved(v, q, x)
      BY <3>1 DEF Ownership, NewInv
    <3>3. e # x
      BY <1>2, <2>1, <3>1, <3>2
    <3> QED
      BY <1>4, <3>2, <3>3
  <2> QED
    BY <2>4, <2>6, <2>7 DEF Ownership
<1> QED
  BY <1>5, <1>6

\* Every action leaves an entry with one program.
LEMMA OwnStep == Typed /\ SaveInv /\ Ownership /\ [Next]_vars => Ownership'
<1> SUFFICES ASSUME Typed, SaveInv, Ownership, [Next]_vars PROVE Ownership'
  OBVIOUS
<1>1. ASSUME UNCHANGED <<docs, typed>>,
             \A t \in Tabs : \A p, e : Saved(t, p, e)' => Saved(t, p, e),
             \A t \in Tabs : form'[t] \in {form[t], EmptyForm}
      PROVE  Ownership'
  <2>1. \A p, e : Stored(p, e)' <=> Stored(p, e)
    BY <1>1 DEF Stored
  <2> QED
    BY <1>1, <2>1, Shrinks DEF Ownership
<1>2. ASSUME UNCHANGED flight
      PROVE  \A t \in Tabs : \A p, e : Saved(t, p, e)' => Saved(t, p, e)
  BY <1>2 DEF Saved, IsSave
<1>3. ASSUME NEW t \in Tabs, ResetProgramForm(t) PROVE Ownership'
  <2>1. \A u \in Tabs : form'[u] \in {form[u], EmptyForm}
    BY <1>3 DEF ResetProgramForm, Typed
  <2> QED
    BY <1>1, <1>2, <1>3, <2>1 DEF ResetProgramForm
<1>4. ASSUME NEW t \in Tabs, NEW p \in Programs, EditProgram(t, p) PROVE Ownership'
  BY <1>1, <1>2, <1>4 DEF EditProgram
<1>5. ASSUME NEW t \in Tabs, NEW p \in Programs, ToggleProgram(t, p) PROVE Ownership'
  <2>1. \A u \in Tabs : \A q, e : Saved(u, q, e)' => Saved(u, q, e)
    BY <1>5, WritesTyped, OthersSaved DEF ToggleProgram
  <2> QED
    BY <1>1, <1>5, <2>1 DEF ToggleProgram, panel
<1>6. ASSUME NEW t \in Tabs, NEW p \in Programs, DelProgram(t, p) PROVE Ownership'
  <2>1. \A u \in Tabs : \A q, e : Saved(u, q, e)' => Saved(u, q, e)
    BY <1>6, WritesTyped, OthersSaved DEF DelProgram
  <2> QED
    BY <1>1, <1>6, <2>1 DEF DelProgram, panel
<1>7. ASSUME NEW t \in Tabs, Reject(t) PROVE Ownership'
  <2>1. \A u \in Tabs : \A q, e : Saved(u, q, e)' => Saved(u, q, e)
    BY <1>7, SettleSaved DEF Reject, Settle
  <2>2. form' = form
    BY <1>7 DEF Reject, Settle, EndSave
  <2> QED
    BY <1>1, <1>7, <2>1, <2>2 DEF Reject, Settle
<1>8. ASSUME NEW t \in Tabs, Commit(t) PROVE Ownership'
  <2>1. \A u \in Tabs : \A q, e : Saved(u, q, e)' => Saved(u, q, e)
    BY <1>8, SettleSaved DEF Commit, Settle
  <2>2. \A u \in Tabs : form'[u] \in {form[u], EmptyForm}
    BY <1>8 DEF Commit, Settle, EndSave, Typed
  <2>3. typed' = typed
    BY <1>8 DEF Commit, Settle
  <2> QED
    BY <1>8, <2>1, <2>2, <2>3, CommitStored, Shrinks DEF Ownership
<1>9. ASSUME NEW t \in Tabs, CloseTab(t) PROVE Ownership'
  <2>1. \A u \in Tabs : form'[u] \in {form[u], EmptyForm}
    BY <1>9 DEF CloseTab, Typed
  <2>2. \A u \in Tabs : flight'[u] = flight[u] \/ Len(flight'[u]) = 0
    BY <1>9 DEF CloseTab, Typed
  <2>3. \A u \in Tabs : \A q, e : Saved(u, q, e)' => Saved(u, q, e)
    BY <2>2 DEF Saved, IsSave
  <2> QED
    BY <1>1, <1>9, <2>1, <2>3 DEF CloseTab
<1>10. CASE UNCHANGED vars
  BY <1>1, <1>2, <1>10 DEF vars, panel
<1> QED
  BY <1>3, <1>4, <1>5, <1>6, <1>7, <1>8, <1>9, <1>10, TypeOwns, SaveOwns, FillOwns
     DEF Next

-----------------------------------------------------------------------------
(* Days.  A date field k of the documents is followed in the zones where the *)
(* UTC day of its time is the day it was made from.                          *)

\* A day comes back from a document as it went in: to the list everywhere, to the
\* form in the zones of its field.
LEMMA DayReturns ==
    ASSUME NEW k \in DateFields, NEW day \in Nat
    PROVE  /\ TimeOf(k, day) # NoDate
           /\ LocalDay(TimeOf(k, day)) = day
           /\ Offset \in Zones(k) => IsoDay(TimeOf(k, day)) = day
<1>1. day # NoDate /\ NoDate \notin Int /\ Offset \in Int
  BY ProgramEditorAssumption DEF ProgramEditorAssumption
<1>2. StartOf(day) = day * 4 - Offset /\ EndOf(day) = day * 4 + 3 - Offset
  BY <1>1 DEF StartOf, EndOf, Quarters
<1>3. (day * 4) \div 4 = day /\ (day * 4 + 3) \div 4 = day
  OBVIOUS
<1>4. CASE k = "start"
  <2>1. TimeOf(k, day) = day * 4 - Offset
    BY <1>2, <1>4 DEF TimeOf
  <2>2. TimeOf(k, day) + Offset = day * 4
    BY <1>1, <2>1
  <2>3. Offset \in Zones(k) => (day * 4 - Offset) \div 4 = day
    BY <1>4 DEF Zones, Quarters
  <2> QED
    BY <1>1, <1>3, <2>1, <2>2, <2>3 DEF IsoDay, LocalDay, Quarters
<1>5. CASE k = "end"
  <2>1. TimeOf(k, day) = day * 4 + 3 - Offset
    BY <1>2, <1>5 DEF TimeOf
  <2>2. TimeOf(k, day) + Offset = day * 4 + 3
    BY <1>1, <2>1
  <2>3. Offset \in Zones(k) => (day * 4 + 3 - Offset) \div 4 = day
    BY <1>5 DEF Zones, Quarters
  <2> QED
    BY <1>1, <1>3, <2>1, <2>2, <2>3 DEF IsoDay, LocalDay, Quarters
<1> QED
  BY <1>4, <1>5 DEF DateFields

\* Every entry has its day.
LEMMA DaysOfEntries ==
    ASSUME NEW e \in Entries
    PROVE  DayOf[e] \in Nat /\ DayOf[e] # NoDate /\ e # NoProgram
BY ProgramEditorAssumption DEF ProgramEditorAssumption

\* What a tab reads of a program is what the collection has, what a save of the
\* tab will leave, or a toggle's.
LEMMA ViewSource ==
    ASSUME Typed, NEW t \in Tabs, NEW p \in Programs, View(t, p) # Absent
    PROVE  \/ View(t, p) = Shell
           \/ View(t, p) = docs[p]
           \/ \E i \in 1..Len(flight[t]) :
                /\ IsSave(t, i) /\ flight[t][i].id = p
                /\ View(t, p) = flight[t][i].data
<1> DEFINE i == CHOOSE k \in Decisive(t, p) : TRUE
           base == IF Decisive(t, p) = {} THEN docs[p]
                   ELSE IF flight[t][i].op = "delete" THEN Absent
                   ELSE flight[t][i].data
<1>1. View(t, p) \in {base, Shell}
  BY DEF View
<1>2. ASSUME Decisive(t, p) # {}, flight[t][i].op # "delete"
      PROVE  i \in 1..Len(flight[t]) /\ IsSave(t, i) /\ flight[t][i].id = p
  <2>1. i \in Decisive(t, p)
    BY <1>2
  <2>2. i \in 1..Len(flight[t]) /\ flight[t][i].id = p /\ flight[t][i].op # "toggle"
    BY <2>1 DEF Decisive
  <2>3. flight[t][i] \in Write
    BY <2>2 DEF Typed
  <2> QED
    BY <1>2, <2>2, <2>3 DEF Write, IsSave
<1>3. base # Absent /\ Decisive(t, p) # {} =>
        flight[t][i].op # "delete" /\ base = flight[t][i].data
  OBVIOUS
<1>4. Decisive(t, p) = {} => base = docs[p]
  OBVIOUS
<1> HIDE DEF base, i
<1> QED
  BY <1>1, <1>2, <1>3, <1>4

\* The three parts of DaysInv.
DocsOnTheirDays(k) ==
    \A p \in Programs \ shells : docs[p] # Absent => OnItsDay(docs[p], k)

SavesOnTheirDays(k) ==
    \A t \in Tabs : \A i \in 1..Len(flight[t]) :
        IsSave(t, i) /\ flight[t][i].id \notin shells =>
            OnItsDay(flight[t][i].data, k)

OfItsDay(f, k) ==
    f.edit \notin shells =>
        f[k] = IF f.entry = NoProgram THEN NoDate ELSE DayOf[f.entry]

LEMMA DaysParts ==
    ASSUME NEW k \in DateFields
    PROVE  /\ DaysInv(k) <=> /\ DocsOnTheirDays(k) /\ SavesOnTheirDays(k)
                             /\ \A t \in Tabs : OfItsDay(form[t], k)
           /\ DaysInv(k)' <=> /\ DocsOnTheirDays(k)' /\ SavesOnTheirDays(k)'
                              /\ \A t \in Tabs : OfItsDay(form[t], k)'
BY DEF DaysInv, DocsOnTheirDays, SavesOnTheirDays, OfItsDay

\* The form as it is filled has the days of what the tab reads.
LEMMA FillDays ==
    ASSUME NEW k \in DateFields, Offset \in Zones(k), IInv, DaysInv(k),
           NEW t \in Tabs, NEW p \in Programs, FillForm(t, p)
    PROVE  OfItsDay(form[t], k)'
<1> DEFINE d == View(t, p)
<1>1. Typed /\ ShellInv
  BY DEF IInv
<1>2. shells \subseteq shells' /\ (d = Shell => p \in shells')
  BY DEF FillForm
<1>3. OfItsDay(form[t], k)
  BY DaysParts
<1>4. CASE d = Absent
  <2>1. form'[t] = form[t]
    BY <1>1, <1>4 DEF FillForm, Typed
  <2> QED
    BY <1>2, <1>3, <2>1 DEF OfItsDay
<1>5. CASE d # Absent
  <2>1. /\ form'[t].edit = p /\ form'[t].entry = d.entry
        /\ form'[t].start = IF d.start = NoDate THEN form[t].start
                            ELSE IsoDay(d.start)
        /\ form'[t].end = IF d.end = NoDate THEN NoDate ELSE IsoDay(d.end)
    BY <1>1, <1>5 DEF FillForm, Typed
  <2>2. ASSUME d[k] # NoDate PROVE form'[t][k] = IsoDay(d[k])
    <3>1. CASE k = "start"
      BY <2>1, <2>2, <3>1
    <3>2. CASE k = "end"
      BY <2>1, <2>2, <3>2
    <3> QED
      BY <3>1, <3>2 DEF DateFields
  <2> SUFFICES ASSUME p \notin shells'
               PROVE  d.entry # NoProgram /\ form'[t][k] = DayOf[d.entry]
    BY <2>1 DEF OfItsDay
  <2>3. p \notin shells /\ d # Shell
    BY <1>2
  <2>4. d \in WholeDocument
    BY <1>1, <1>5, <2>3, ViewOrigin
  <2>5. OnItsDay(d, k)
    <3>1. DocsOnTheirDays(k) /\ SavesOnTheirDays(k)
      BY DaysParts
    <3>2. CASE d = docs[p]
      BY <1>5, <2>3, <3>1, <3>2 DEF DocsOnTheirDays
    <3>3. CASE \E i \in 1..Len(flight[t]) :
                 /\ IsSave(t, i) /\ flight[t][i].id = p
                 /\ d = flight[t][i].data
      BY <2>3, <3>1, <3>3 DEF SavesOnTheirDays
    <3> QED
      BY <1>1, <1>5, <2>3, <3>2, <3>3, ViewSource
  <2>6. d.entry \in Entries
    BY <2>4 DEF WholeDocument
  <2> HIDE DEF d
  <2>7. DayOf[d.entry] \in Nat /\ d.entry # NoProgram
    BY <2>6, DaysOfEntries
  <2>8. d[k] # NoDate /\ IsoDay(d[k]) = DayOf[d.entry]
    BY <2>5, <2>7, DayReturns DEF OnItsDay
  <2> QED
    BY <2>2, <2>7, <2>8
<1> QED
  BY <1>4, <1>5

\* An arriving write leaves its program on its day, or with a bare flag.
LEMMA CommitDays ==
    ASSUME NEW k \in DateFields, IInv, DaysInv(k), NEW t \in Tabs, Commit(t)
    PROVE  DocsOnTheirDays(k)'
<1> DEFINE w == Head(flight[t])
<1>1. Typed /\ DocsOnTheirDays(k) /\ SavesOnTheirDays(k)
  BY DaysParts DEF IInv
<1>2. /\ w \in Write /\ w = flight[t][1] /\ Len(flight[t]) \in Nat \ {0}
  BY <1>1, SettleSaves DEF Commit, Settle
<1>3. /\ docs' = Apply(w, docs)
      /\ shells' = IF w.op = "toggle" /\ docs[w.id] = Absent
                   THEN shells \cup {w.id} ELSE shells
  BY DEF Commit
<1>4. w.op = "save" /\ w.id \notin shells => OnItsDay(w.data, k)
  BY <1>1, <1>2 DEF SavesOnTheirDays, IsSave
<1> HIDE DEF w
<1> SUFFICES ASSUME NEW p \in Programs, p \notin shells', docs'[p] # Absent
             PROVE  OnItsDay(docs'[p], k)
  BY DEF DocsOnTheirDays, OnItsDay
<1>5. docs \in [Programs -> WholeDocument \cup {Shell, Absent}]
  BY <1>1 DEF Typed
<1>6. p \notin shells
  BY <1>3
<1>7. CASE w.id # p
  <2>1. docs'[p] = docs[p]
    BY <1>3, <1>5, <1>7 DEF Apply
  <2> QED
    BY <1>1, <1>6, <2>1 DEF DocsOnTheirDays
<1>8. CASE w.id = p /\ w.op = "delete"
  BY <1>3, <1>5, <1>8 DEF Apply
<1>9. CASE w.id = p /\ w.op = "toggle"
  <2>1. docs'[p] = docs[p]
    BY <1>3, <1>5, <1>9 DEF Apply
  <2> QED
    BY <1>1, <1>6, <2>1 DEF DocsOnTheirDays
<1>10. CASE w.id = p /\ w.op = "save"
  <2>1. docs'[p] = w.data
    BY <1>3, <1>5, <1>10 DEF Apply
  <2> QED
    BY <1>4, <1>6, <1>10, <2>1
<1> QED
  BY <1>2, <1>7, <1>8, <1>9, <1>10 DEF Write

\* A save carries the day of the entry in its form.
LEMMA SaveDays ==
    ASSUME NEW k \in DateFields, IInv, DaysInv(k), NEW t \in Tabs, NEW p \in Programs, SaveProgram(t, p)
    PROVE  SavesOnTheirDays(k)'
<1> DEFINE w == [op |-> "save", id |-> p, data |-> Contents(form[t])]
<1>1. Typed /\ SavesOnTheirDays(k) /\ OfItsDay(form[t], k)
  BY DaysParts DEF IInv
<1>2. /\ Issue(t, w) /\ form[t].entry # NoProgram /\ shells' = shells
      /\ form[t].edit # NoProgram => p = form[t].edit
  BY DEF SaveProgram
<1>3. w \in Write /\ w.id = p /\ w.data = Contents(form[t])
  BY <1>1, WritesTyped DEF SaveProgram
<1> HIDE DEF w
<1>4. /\ flight' \in [Tabs -> Seq(Write)]
      /\ \A u \in Tabs \ {t} : flight'[u] = flight[u]
      /\ Len(flight'[t]) = Len(flight[t]) + 1
      /\ flight'[t][Len(flight[t]) + 1] = w
      /\ \A i \in 1..Len(flight[t]) : flight'[t][i] = flight[t][i]
      /\ Len(flight[t]) \in Nat
  BY <1>1, <1>2, <1>3, IssueSaves
<1>5. p \notin shells => OnItsDay(w.data, k)
  <2> SUFFICES ASSUME p \notin shells PROVE OnItsDay(w.data, k)
    OBVIOUS
  <2>1. form[t].edit \notin shells
    <3>1. NoProgram \notin shells
      BY <1>1, ProgramEditorAssumption DEF Typed, ProgramEditorAssumption
    <3> QED
      BY <1>2, <3>1
  <2> QED
    <3>1. form[t][k] = DayOf[form[t].entry]
      BY <1>1, <1>2, <2>1 DEF OfItsDay
    <3>2. /\ w.data.entry = form[t].entry
          /\ w.data.start = StartOf(form[t].start) /\ w.data.end = EndOf(form[t].end)
      BY <1>3 DEF Contents
    <3>3. w.data[k] = TimeOf(k, form[t][k])
      BY <3>2 DEF TimeOf, DateFields
    <3> QED
      BY <3>1, <3>2, <3>3 DEF OnItsDay
<1> SUFFICES ASSUME NEW u \in Tabs, NEW i \in 1..Len(flight'[u]),
                    flight'[u][i].op = "save", flight'[u][i].id \notin shells
             PROVE  OnItsDay(flight'[u][i].data, k)
  BY <1>2 DEF SavesOnTheirDays, IsSave, OnItsDay
<1>6. CASE u # t
  <2>1. flight'[u] = flight[u]
    BY <1>4, <1>6
  <2> QED
    BY <1>1, <2>1 DEF SavesOnTheirDays, IsSave
<1>7. CASE u = t /\ i = Len(flight[t]) + 1
  BY <1>3, <1>4, <1>5, <1>7
<1>8. CASE u = t /\ i \in 1..Len(flight[t])
  <2>1. flight'[t][i] = flight[t][i]
    BY <1>4, <1>8
  <2> QED
    BY <1>1, <1>8, <2>1 DEF SavesOnTheirDays, IsSave
<1>9. u = t => i \in 1..Len(flight[t]) \/ i = Len(flight[t]) + 1
  BY <1>4
<1> QED
  BY <1>6, <1>7, <1>8, <1>9

\* The other steps bring no save under way.
LEMMA NoNewSave ==
    ASSUME NEW k \in DateFields, Typed, SavesOnTheirDays(k), shells \subseteq shells',
           \A t \in Tabs : \A i \in 1..Len(flight'[t]) :
              IsSave(t, i)' =>
                  \E j \in 1..Len(flight[t]) :
                      IsSave(t, j) /\ flight'[t][i] = flight[t][j]
    PROVE  SavesOnTheirDays(k)'
<1> SUFFICES ASSUME NEW t \in Tabs, NEW i \in 1..Len(flight'[t]),
                    IsSave(t, i)', flight'[t][i].id \notin shells'
             PROVE  OnItsDay(flight'[t][i].data, k)
  BY DEF SavesOnTheirDays, OnItsDay
<1>1. PICK j \in 1..Len(flight[t]) :
        IsSave(t, j) /\ flight'[t][i] = flight[t][j]
  OBVIOUS
<1> QED
  BY <1>1 DEF SavesOnTheirDays

\* Neither other writes nor answers do.
LEMMA OthersDays ==
    ASSUME NEW k \in DateFields, Typed, SavesOnTheirDays(k),
           shells \subseteq shells', NEW t \in Tabs,
           \/ flight' = flight
           \/ \E w \in Write : w.op # "save" /\ Issue(t, w)
           \/ flight[t] # <<>> /\ flight' = [flight EXCEPT ![t] = Tail(@)]
           \/ flight' = [flight EXCEPT ![t] = <<>>]
    PROVE  SavesOnTheirDays(k)'
<1> SUFFICES ASSUME NEW u \in Tabs, NEW i \in 1..Len(flight'[u]), IsSave(u, i)'
             PROVE  \E j \in 1..Len(flight[u]) :
                        IsSave(u, j) /\ flight'[u][i] = flight[u][j]
  BY NoNewSave
<1>1. CASE flight'[u] = flight[u]
  BY <1>1 DEF IsSave
<1>2. ASSUME NEW w \in Write, w.op # "save", Issue(t, w)
      PROVE  IsSave(u, i) /\ flight'[u][i] = flight[u][i]
  BY <1>2, OthersSaves
<1>3. CASE flight[t] # <<>> /\ flight' = [flight EXCEPT ![t] = Tail(@)]
  <2>1. CASE u = t
    <3>1. i + 1 \in 1..Len(flight[t]) /\ flight'[t][i] = flight[t][i + 1]
      <4>1. /\ Len(flight[t]) \in Nat \ {0}
            /\ Len(flight'[t]) = Len(flight[t]) - 1
            /\ \A j \in 1..Len(flight'[t]) : flight'[t][j] = flight[t][j + 1]
        BY <1>3, SettleSaves
      <4> QED
        BY <2>1, <4>1
    <3> QED
      BY <2>1, <3>1 DEF IsSave
  <2>2. CASE u # t
    BY <1>1, <1>3, <2>2 DEF Typed
  <2> QED
    BY <2>1, <2>2
<1>4. CASE flight' = [flight EXCEPT ![t] = <<>>]
  <2>1. u # t
    BY <1>4 DEF Typed
  <2> QED
    BY <1>1, <1>4, <2>1 DEF Typed
<1> QED
  BY <1>1, <1>2, <1>3, <1>4 DEF IsSave

\* Every action keeps the days.
LEMMA DaysStep ==
    ASSUME NEW k \in DateFields, Offset \in Zones(k), IInv, DaysInv(k), [Next]_vars
    PROVE  DaysInv(k)'
<1>1. /\ Typed /\ DocsOnTheirDays(k) /\ SavesOnTheirDays(k)
      /\ \A t \in Tabs : OfItsDay(form[t], k)
  BY DaysParts DEF IInv
<1>e. OfItsDay(EmptyForm, k)'
  BY DEF OfItsDay, EmptyForm, DateFields
<1>f. ASSUME shells \subseteq shells', NEW t \in Tabs,
             form'[t] \in {form[t], EmptyForm}
      PROVE  OfItsDay(form[t], k)'
  BY <1>1, <1>e, <1>f DEF OfItsDay
<1>d. ASSUME docs' = docs, shells \subseteq shells' PROVE DocsOnTheirDays(k)'
  BY <1>1, <1>d DEF DocsOnTheirDays
<1>2. ASSUME NEW t \in Tabs, NEW e \in Entries, Type(t, e) PROVE DaysInv(k)'
  <2>1. /\ UNCHANGED <<docs, flight, shells>> /\ form[t].entry = NoProgram
        /\ \A u \in Tabs \ {t} : form'[u] = form[u]
        /\ form'[t] = [edit |-> form[t].edit, entry |-> e,
              start |-> IF form[t].start = NoDate THEN DayOf[e] ELSE form[t].start,
              end |-> IF form[t].end = NoDate THEN DayOf[e] ELSE form[t].end]
    BY <1>1, <1>2 DEF Type, Typed
  <2>2. OfItsDay(form[t], k)'
    <3>1. form[t].edit \notin shells => form[t][k] = NoDate
      BY <1>1, <2>1 DEF OfItsDay
    <3>2. form[t][k] = NoDate => form'[t][k] = DayOf[e]
      <4>1. CASE k = "start"
        BY <2>1, <4>1
      <4>2. CASE k = "end"
        BY <2>1, <4>2
      <4> QED
        BY <4>1, <4>2 DEF DateFields
    <3>3. form'[t].edit = form[t].edit /\ form'[t].entry = e /\ e # NoProgram
      BY <2>1, DaysOfEntries
    <3> QED
      BY <2>1, <3>1, <3>2, <3>3 DEF OfItsDay
  <2>3. \A u \in Tabs : OfItsDay(form[u], k)'
    BY <1>f, <2>1, <2>2
  <2>4. SavesOnTheirDays(k)'
    BY <1>1, <1>2, <2>1, OthersDays
  <2> QED
    BY <1>d, <2>1, <2>3, <2>4, DaysParts
<1>3. ASSUME NEW t \in Tabs, NEW p \in Programs, SaveProgram(t, p) PROVE DaysInv(k)'
  <2>1. UNCHANGED <<docs, form, shells>>
    BY <1>3 DEF SaveProgram
  <2> QED
    BY <1>3, <1>d, <1>f, <2>1, SaveDays, DaysParts
<1>4. ASSUME NEW t \in Tabs, NEW p \in Programs, FillForm(t, p) PROVE DaysInv(k)'
  <2>1. UNCHANGED <<docs, flight>> /\ shells \subseteq shells'
    BY <1>4 DEF FillForm
  <2>2. \A u \in Tabs : OfItsDay(form[u], k)'
    BY <1>1, <1>4, <1>f, <2>1, FillTyped, FillDays
  <2>3. SavesOnTheirDays(k)'
    BY <1>1, <1>4, <2>1, OthersDays
  <2> QED
    BY <1>d, <2>1, <2>2, <2>3, DaysParts
<1>5. ASSUME NEW t \in Tabs, Commit(t) PROVE DaysInv(k)'
  <2>1. shells \subseteq shells'
    BY <1>5 DEF Commit
  <2>2. \A u \in Tabs : form'[u] \in {form[u], EmptyForm}
    BY <1>1, <1>5 DEF Commit, Settle, EndSave, Typed
  <2>3. SavesOnTheirDays(k)'
    BY <1>1, <1>5, <2>1, OthersDays DEF Commit, Settle
  <2> QED
    BY <1>5, <1>f, <2>1, <2>2, <2>3, CommitDays, DaysParts
<1>6. ASSUME UNCHANGED <<docs, shells>>,
             \A u \in Tabs : form'[u] \in {form[u], EmptyForm},
             SavesOnTheirDays(k)'
      PROVE  DaysInv(k)'
  BY <1>d, <1>f, <1>6, DaysParts
<1>7. ASSUME NEW t \in Tabs, Reject(t) \/ CloseTab(t) \/ ResetProgramForm(t)
      PROVE  DaysInv(k)'
  <2>1. UNCHANGED <<docs, shells>>
    BY <1>7 DEF Reject, CloseTab, ResetProgramForm
  <2>2. \A u \in Tabs : form'[u] \in {form[u], EmptyForm}
    BY <1>1, <1>7
       DEF Reject, Settle, EndSave, CloseTab, ResetProgramForm, Typed
  <2>3. SavesOnTheirDays(k)'
    BY <1>1, <1>7, <2>1, OthersDays
       DEF Reject, Settle, CloseTab, ResetProgramForm
  <2> QED
    BY <1>6, <2>1, <2>2, <2>3
<1>8. ASSUME NEW t \in Tabs, NEW p \in Programs,
             EditProgram(t, p) \/ ToggleProgram(t, p) \/ DelProgram(t, p)
      PROVE  DaysInv(k)'
  <2>1. UNCHANGED <<docs, shells, form>>
    BY <1>8 DEF EditProgram, ToggleProgram, DelProgram, panel
  <2>2. \/ flight' = flight
        \/ \E w \in Write : w.op # "save" /\ Issue(t, w)
    <3>1. [op |-> "toggle", id |-> p] \in Write /\ [op |-> "delete", id |-> p] \in Write
      BY DEF Write
    <3> QED
      BY <1>8, <3>1 DEF EditProgram, ToggleProgram, DelProgram
  <2>3. SavesOnTheirDays(k)'
    BY <1>1, <2>1, <2>2, OthersDays
  <2> QED
    BY <1>6, <2>1, <2>3
<1>9. CASE UNCHANGED vars
  <2>1. UNCHANGED <<docs, shells, form, flight>>
    BY <1>9 DEF vars, panel
  <2>2. SavesOnTheirDays(k)'
    BY <1>1, <2>1 DEF SavesOnTheirDays, IsSave
  <2> QED
    BY <1>6, <2>1, <2>2
<1> QED
  BY <1>2, <1>3, <1>4, <1>5, <1>7, <1>8, <1>9 DEF Next

LEMMA InitDays ==
    ASSUME NEW k \in DateFields, Init
    PROVE  DaysInv(k)
<1>1. \A t \in Tabs : form[t] = EmptyForm /\ Len(flight[t]) = 0
  BY DEF Init
<1>2. \A p \in Programs : docs[p] = Absent
  BY DEF Init
<1> QED
  BY <1>1, <1>2 DEF DaysInv, EmptyForm, DateFields

-----------------------------------------------------------------------------
(* Theorems.                                                                 *)

LEMMA InitInvariant == Init => IInv
<1> SUFFICES ASSUME Init PROVE IInv
  OBVIOUS
<1>1. \A e \in Entries : e # NoProgram
  BY ProgramEditorAssumption DEF ProgramEditorAssumption
<1>2. /\ \A p \in Programs : docs[p] = Absent
      /\ \A t \in Tabs : form[t].entry = NoProgram /\ ~saving[t] /\ Len(flight[t]) = 0
  BY DEF Init, EmptyForm
<1>3. \A p \in Programs, e \in Entries : ~Owns(p, e)
  BY <1>1, <1>2 DEF Owns, Stored, Saved, Edited
<1>4. OwnInv /\ NewInv /\ TypedInv
  BY <1>1, <1>2, <1>3 DEF OwnInv, NewInv, TypedInv, Edited
<1>5. ShellInv /\ SaveInv
  BY <1>2 DEF ShellInv, SaveInv
<1> QED
  BY <1>4, <1>5, InitTyped, InitDays DEF IInv

\* Whatever the tabs of the panel do, an entry belongs to one program, in the
\* collection, in the writes under way and in the forms: the inductive invariant
\* of saveProgram, editProgram, toggleProgram and delProgram.
THEOREM Inductive == Spec => []IInv
<1>1. IInv /\ [Next]_vars => IInv'
  BY TypedStep, ShellStep, SaveStep, OwnStep, DaysStep DEF IInv, Ownership
<1> QED
  BY <1>1, InitInvariant, PTL DEF Spec

\* Documents, forms and lists keep their types in every time zone.
THEOREM TypesKept == Spec => []TypeOK
<1>1. IInv => TypeOK
  <2> SUFFICES ASSUME Typed PROVE TypeOK
    BY DEF IInv
  <2>1. WholeDocument \cup {Shell} \subseteq Document
    BY DEF WholeDocument, Document, Shell, Dates
  <2> QED
    BY <2>1 DEF Typed, TypeOK, Form
<1> QED
  BY <1>1, Inductive, PTL

\* What was typed as one program is never in two documents.
THEOREM OneDocumentPerEntry == Spec => []NoEntryTwice
<1>1. IInv => NoEntryTwice
  <2> SUFFICES ASSUME Typed, OwnInv,
                      NEW p \in Programs, NEW q \in Programs,
                      docs[p] # Absent, docs[q] # Absent,
                      docs[p].entry = docs[q].entry, docs[p].entry # NoProgram
               PROVE  p = q
    BY DEF IInv, NoEntryTwice
  <2>1. docs[p] \in WholeDocument
    BY DEF Typed, Shell
  <2>2. docs[p].entry \in Entries
    BY <2>1 DEF WholeDocument
  <2>3. Owns(p, docs[p].entry) /\ Owns(q, docs[p].entry)
    BY DEF Owns, Stored
  <2> QED
    BY <2>2, <2>3 DEF OwnInv
<1> QED
  BY <1>1, Inductive, PTL

\* A document without title or start date is the work of a toggle that was
\* under way when its program was deleted.
THEOREM WholeDocuments == Spec => []WholeUnlessToggled
<1>1. IInv => WholeUnlessToggled
  <2> SUFFICES ASSUME Typed, ShellInv, NEW p \in Programs \ shells, docs[p] # Absent
               PROVE  docs[p].entry # NoProgram /\ docs[p].start # NoDate
    BY DEF IInv, WholeUnlessToggled
  <2>1. docs[p] \in WholeDocument
    BY DEF ShellInv
  <2>2. docs[p].entry \in Entries /\ docs[p].start \in Int
    BY <2>1 DEF WholeDocument
  <2> QED
    BY <2>2, ProgramEditorAssumption DEF ProgramEditorAssumption
<1> QED
  BY <1>1, Inductive, PTL

\* The save button is disabled exactly while one save is under way.
THEOREM ButtonFollowsSave == Spec => []ButtonMatchesSave
<1>1. IInv => ButtonMatchesSave
  <2> SUFFICES ASSUME SaveInv PROVE ButtonMatchesSave
    BY DEF IInv
  <2>1. \A t \in Tabs : \A i : IsSave(t, i) <=>
          i \in {k \in 1..Len(flight[t]) : flight[t][k].op = "save"}
    BY DEF IsSave
  <2> QED
    BY <2>1 DEF SaveInv, ButtonMatchesSave
<1> QED
  BY <1>1, Inductive, PTL

\* In every time zone: east of Greenwich the last day of a program, and west of it
\* the first, is listed as it was entered, however often the program is edited and
\* saved with its dates left alone, as toISOString gives the day that the end, or
\* the start, of the local one was made from.  A run shows what becomes of the
\* first day in India.
THEOREM DaysKept == Spec => []DaysAsEntered
<1>1. ASSUME IInv, NEW k \in DateFields, Offset \in Zones(k),
             NEW p \in Programs \ shells, docs[p] # Absent
      PROVE  LocalDay(docs[p][k]) = DayOf[docs[p].entry]
  <2>1. docs[p] \in WholeDocument /\ OnItsDay(docs[p], k)
    BY <1>1 DEF IInv, ShellInv, DaysInv
  <2>2. DayOf[docs[p].entry] \in Nat
    BY <2>1, DaysOfEntries DEF WholeDocument
  <2> QED
    BY <2>1, <2>2, DayReturns DEF OnItsDay
<1>2. IInv => DaysAsEntered
  <2> SUFFICES ASSUME IInv
               PROVE  /\ Offset >= 0 => EndsAsEntered
                      /\ Offset <= 0 => StartsAsEntered
    BY DEF DaysAsEntered
  <2>1. Offset \in -3..3
    BY ProgramEditorAssumption DEF ProgramEditorAssumption, Quarters
  <2>2. ASSUME Offset >= 0 PROVE EndsAsEntered
    <3>1. Offset \in Zones("end") /\ "end" \in DateFields
      BY <2>1, <2>2 DEF Zones, DateFields, Quarters
    <3> QED
      BY <1>1, <3>1 DEF EndsAsEntered
  <2>3. ASSUME Offset <= 0 PROVE StartsAsEntered
    <3>1. Offset \in Zones("start") /\ "start" \in DateFields
      BY <2>1, <2>3 DEF Zones, DateFields, Quarters
    <3> QED
      BY <1>1, <3>1 DEF StartsAsEntered
  <2> QED
    BY <2>2, <2>3
<1> QED
  BY <1>2, Inductive, PTL

=============================================================================
