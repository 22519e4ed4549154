\* Two tabs in India (UTC+5:30, in whole quarters), two programs, two writes
\* under way in all.
CONSTANTS
    p1 = p1  p2 = p2  t1 = t1  t2 = t2  yoga = yoga  camp = camp
    Programs = {p1, p2}
    Tabs = {t1, t2}
    Entries = {yoga, camp}
    DayOf <- MCDayOf
    NoProgram = NoProgram
    Absent = Absent
    NoDate = NoDate
    Offset = 1
    MaxFlight = 2
    MaxDrift = 1
SPECIFICATION Spec
SYMMETRY Interchangeable
INVARIANTS TypeOK NoEntryTwice WholeUnlessToggled ButtonMatchesSave
    DaysAsEntered IInv
