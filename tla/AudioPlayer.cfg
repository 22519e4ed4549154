\* Two tracks, up to three commands, loads and seeks under way, and two loads of
\* the list.
CONSTANTS
    Tracks = {a, b}
    NoTrack = NoTrack
    MaxCommands = 3
    MaxListLoads = 2
SPECIFICATION FairSpec
INVARIANTS IInv HeardIsShown StoppedStays CallIsQuiet FrozenOnlyIfLost
PROPERTY SpinnerEnds
