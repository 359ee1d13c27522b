\* What run_validation.sh:6 says of the snapshot.
CONSTANTS
    NumPolls = 3
    SentinelHere = TRUE
SPECIFICATION Spec
INVARIANTS
    AliveWhenSnapshotted
