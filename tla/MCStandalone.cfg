CONSTANTS
    PlayerIds = {0, 1, 2, 3}
    Inputs <- MCInputs
    MaxPlayers = 2
    WorldLimit = 3
    StepUnits = 2
    SpawnSpacing = 1
    SpawnOffset = 1
    MaxTick = 2
    MaxConnects = 3
    MaxSequence = 3
    ReplicaCount = 4
    Delays = {0, 1, 4}
    Gaps = {1}
    WriteTimeoutMs = 3
    ReadTimeoutMs = 2
    Partitions <- SomePartitions
    MaxOperations = 3
    NodeCount = 3
    RequestCount = 4
    IntervalMs = 2
    FailurePlans <- Plans
    HealthCheckModes = {"active", "passive"}
    BreakerEnabled = {TRUE, FALSE}
    HealthCheckIntervalMs = 2
    HealthFailureThreshold = 2
    FailoverDelayMs = 3
    AttemptTimeoutMs = 3
    AnswerMs <- Answers
    MaxRetries = 2
    BaseBackoffMs = 1
    Jitters <- SomeJitter
    FailureThreshold = 2
    OpenMs = 4
SPECIFICATION Spec
INVARIANTS
    TypeOK
    NewestIntentInForce
    AcknowledgesNewestDue
    PageHoldsOneSession
    ReplicationTypeOK
    NoUpdateIsLost
    AcknowledgedIsReplicated
    ReadYourWrites
    EachRequestIsPendingOnce
    NoBackendDuringFailover
    DetectedWhileFailing
PROPERTIES
    AcknowledgementsNeverRegress
    IntentIsSent
    ImplementsRegister
    BreakersIsolateNodes
