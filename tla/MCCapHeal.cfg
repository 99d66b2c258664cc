CONSTANTS
    CapSettings <- Traces
    ElectionSettings <- DirectoryFailures
SPECIFICATION CapAlone
CHECK_DEADLOCK FALSE
INVARIANTS
    ObservesTheNewest
