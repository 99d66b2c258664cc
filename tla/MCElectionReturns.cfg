CONSTANTS
    CapSettings <- Traces
    ElectionSettings <- DirectoryFailures
SPECIFICATION ElectionAlone
CHECK_DEADLOCK FALSE
INVARIANTS
    RecoveredLeaderIsFenced
