\* Three submissions, the third refused, through a pipeline of two, with two
\* breaks, restarts, sign-ins or kills, and one act of the panel.
CONSTANTS
    w1 = w1  w2 = w2  w3 = w3  nobody = nobody  devotee = devotee
    Writes = {w1, w2, w3}
    Users = {nobody, devotee}
    Nobody = nobody
    Refused = {w3}
    Hello = Hello
    NoWrite = NoWrite
    MaxPending = 2
    MaxBreaks = 2
    MaxEdits = 1
SPECIFICATION FairSpec
INVARIANTS TypeOK AnswersMatchPipeline PipelineServed NothingLost ToldTruth
    ReceivedIsStored IInv
PROPERTIES SettledIsFinal ImplementsOutbox Settles
CHECK_DEADLOCK FALSE
