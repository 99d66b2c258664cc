CONSTANTS
    Connections = {c1, c2}
    PlayerIds <- Ids3
    IdSpace = 3
    SocketFrames = 1
    Inputs <- NoCommands
    MaxPlayers = 2
    WorldLimit = 0
    StepUnits = 0
    SpawnSpacing = 0
    SpawnOffset = 0
    MaxTick = 1
SPECIFICATION ReusingSpec
SYMMETRY Symmetry
\* The tick counter of a model is finite and connections may all be refused.
CHECK_DEADLOCK FALSE
INVARIANTS
    EachPlayerHasOneSession
    ListedWhileServed
