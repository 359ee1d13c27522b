\* One validation, from a directory that may hold an old sentinel.
CONSTANTS
    NumPolls = 20
    SentinelHere = TRUE
SPECIFICATION FairSpec
INVARIANTS
    SnapshotAfterTrace
    NoReplayForgotten
    ValidationInv
PROPERTIES
    ScriptEnds
