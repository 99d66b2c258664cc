CONSTANTS
    Connections = {c1, c2, c3}
    PlayerIds <- Ids2
    IdSpace = 2
    Inputs <- Sendable
    MaxPlayers = 1
    WorldLimit = 0
    StepUnits = 0
    SpawnSpacing = 0
    SpawnOffset = 0
    MaxTick = 0
    MaxSequence = 3
    LastSequence = 1
    TickMs = 50
    MaxPredictionTicks = 2
SPECIFICATION ServerSpec
\* The tick counter of a model is finite and connections are used once.
CHECK_DEADLOCK FALSE
INVARIANTS
    EachPlayerHasOneSession
PROPERTIES
    ClosedSessionsEnd
