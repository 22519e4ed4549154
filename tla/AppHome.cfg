\* A change of the values, two fetches, two loads, one save of the panel.
CONSTANTS
    MaxChanges = 1
    MaxFetches = 2
    MaxVersion = 2
    MaxLoads = 2
    Nothing = Nothing
SPECIFICATION Spec
INVARIANTS TypeOK ShellUpToDate  UpdateDemanded IInv
