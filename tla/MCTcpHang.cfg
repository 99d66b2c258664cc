CONSTANTS
    Connections = {c1}
    PlayerIds <- Ids4
    IdSpace = 4
    SocketFrames = 1
    Inputs <- NoCommands
    MaxPlayers = 2
    WorldLimit = 0
    StepUnits = 0
    SpawnSpacing = 0
    SpawnOffset = 0
    MaxTick = 2
SPECIFICATION ThreadSpec
\* The tick counter of a model is finite and connections are used once.
CHECK_DEADLOCK FALSE
PROPERTIES
    PlayerRemovedOnEveryExit
