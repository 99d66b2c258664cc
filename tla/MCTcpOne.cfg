CONSTANTS
    Connections = {c1}
    PlayerIds <- Ids4
    IdSpace = 4
    SocketFrames = 1
    Inputs <- TwoCommands
    MaxPlayers = 2
    WorldLimit = 0
    StepUnits = 0
    SpawnSpacing = 0
    SpawnOffset = 0
    MaxTick = 3
SPECIFICATION FairSpec
\* The tick counter of a model is finite and connections are used once.
CHECK_DEADLOCK FALSE
INVARIANTS
    TypeOK
    NoLostWakeup
    PipelineInOrder
PROPERTIES
    ImplementsSnapshotFeed
    SessionsEnd
    PublishedIsSeen
