CONSTANTS
    Connections = {c1}
    PlayerIds <- Ids4
    IdSpace = 4
    Inputs <- Sendable
    MaxPlayers = 2
    WorldLimit = 0
    StepUnits = 0
    SpawnSpacing = 0
    SpawnOffset = 0
    MaxTick = 2
    MaxSequence = 4
    LastSequence = 3
    TickMs = 50
    MaxPredictionTicks = 2
SPECIFICATION FairSpec
\* The tick counter of a model is finite and connections are used once.
CHECK_DEADLOCK FALSE
INVARIANTS
    ServerHoldsWhatWasSent
    PendingIsUnacknowledged
PROPERTIES
    FollowsCanonicalTicks
    IntentConverges
