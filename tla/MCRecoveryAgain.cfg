CONSTANTS
    NodeCount = 3
    RequestCount = 5
    IntervalMs = 2
    FailurePlans <- TwoUp
    HealthCheckModes = {"active"}
    BreakerEnabled = {FALSE}
    HealthCheckIntervalMs = 2
    HealthFailureThreshold = 2
    FailoverDelayMs = 3
    AttemptTimeoutMs = 3
    AnswerMs <- Answers
    MaxRetries = 2
    BaseBackoffMs = 1
    Jitters <- NoJitter
    FailureThreshold = 2
    OpenMs = 4
SPECIFICATION RecoverySpec
\* The simulation ends when the queue is empty.
CHECK_DEADLOCK FALSE
PROPERTIES
    MarkedMeansFailover
