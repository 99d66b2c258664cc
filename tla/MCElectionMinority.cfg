CONSTANTS
    CapSettings <- Traces
    ElectionSettings <- FollowerFails
SPECIFICATION ElectionAlone
CHECK_DEADLOCK FALSE
INVARIANTS
    MajorityRemains
