\* What the header says of the stored times.
CONSTANTS
    MaxTime = 3
    Ahead = 1
    Limit = 2
    None = None
SPECIFICATION Spec
INVARIANT LastSeenWasShown
