\* One tab in India (UTC+5:30, in whole quarters), one program.
CONSTANTS
    p1 = p1  p2 = p2  t1 = t1  t2 = t2  yoga = yoga  camp = camp
    Programs = {p1, p2}
    Tabs = {t1}
    Entries = {yoga, camp}
    DayOf <- MCDayOf
    NoProgram = NoProgram
    Absent = Absent
    NoDate = NoDate
    Offset = 1
    MaxFlight = 1
    MaxDrift = 1
SPECIFICATION Spec
INVARIANT StartsAsEntered
