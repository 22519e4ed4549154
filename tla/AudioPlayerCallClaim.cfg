\* One track, up to two commands, loads and seeks under way, and one load of the
\* list.
CONSTANTS
    Tracks = {a}
    NoTrack = NoTrack
    MaxCommands = 2
    MaxListLoads = 1
SPECIFICATION Spec
INVARIANT PauseStays
