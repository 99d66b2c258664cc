CONSTANTS
    SimulationSettings <- MCSimulationSettings
    CapSettings <- MCCapSettings
    CacheSettings <- MCCacheSettings
    KeyPattern <- Pattern
    AdmissionSettings <- MCAdmissionSettings
    FlowSettings <- MCFlowSettings
    ShardingSettings <- MCShardingSettings
    IngressSettings <- MCIngressSettings
    RoomSettings <- MCRoomSettings
    ServiceStates <- MCServiceStates
    FleetSettings <- MCFleetSettings
    DistributionSettings <- MCDistributionSettings
    ElectionSettings <- MCElectionSettings
    ByteValues = 4
    WideBytes = 2
    MaxSnapshotPlayers = 2
    HashOffset = 5
    HashPrime = 3
    WireMessages <- MCWireMessages
    PacketCount = 3
    MaxCopies = 2
    RequestCount = 3
    MaxFaults = 2
    MaxTimeouts = 2
    DropSettings = {0, 1, 2, 3}
    StepUnits = 2
    WorldLimit = 5
    TickMs = 3
    MaxPredictionTicks = 2
    MaxElapsedMs = 12
SPECIFICATION Spec
\* Every exhibit ends with its trace.
CHECK_DEADLOCK FALSE
INVARIANTS
    NodesKeepTheirLimits
    StalenessIsConfined
    CachePromises
    LimitsHold
    OnlyToTheNewNode
    DrawnAsServed
    GlobalPromises
    PlacementsHold
    ElectionsReplaceTheFailed
    ExperimentsHold
    FramesAreFaithful
