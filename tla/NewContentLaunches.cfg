\* Launches that are cut short, cached answers, a device clock ahead.
CONSTANTS
    MaxTime = 3
    Ahead = 1
    Limit = 2
    None = None
SPECIFICATION Spec
INVARIANTS IInv NoRepeat NeverSkipped
PROPERTY LastOnlyAdvances
