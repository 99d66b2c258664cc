------------------------------ MODULE Recovery ------------------------------
(***************************************************************************)
(* The service-recovery simulator (web/lib/recovery.ts, simulateRecovery): *)
(* one active node and ordered standbys, health checks, failover, retries  *)
(* and a circuit breaker per node.                                         *)
(*                                                                         *)
(* One step is one turn of the simulator's loop: the earliest pending      *)
(* attempt is taken, the infrastructure is advanced to its time, and the   *)
(* attempt is refused, short-circuited, failed or answered.  A failed      *)
(* attempt is recorded at its end, which lies in the modelled future.      *)
(***************************************************************************)
EXTENDS Integers, Sequences, FiniteSets

CONSTANTS
    NodeCount, RequestCount,
    IntervalMs,             \* between two requests' arrivals
    FailurePlans,           \* the failure windows of every node, in the order configured
    HealthCheckModes,       \* the modes to simulate
    BreakerEnabled,         \* whether there are circuit breakers: the settings to simulate
    HealthCheckIntervalMs, HealthFailureThreshold, FailoverDelayMs,
    AttemptTimeoutMs,       \* how long an attempt on a failed node takes
    AnswerMs,               \* how long an attempt on a healthy node takes
    MaxRetries, BaseBackoffMs, Jitters,
    FailureThreshold, OpenMs

Nodes == 1..NodeCount
Requests == 1..RequestCount
Window == [startMs : Nat, endMs : Nat]

None == 0

ASSUME RecoveryAssumption ==
    /\ NodeCount \in Nat \ {0, 1}
    /\ RequestCount \in Nat
    /\ {IntervalMs, HealthCheckIntervalMs, HealthFailureThreshold, AttemptTimeoutMs,
        FailureThreshold} \subseteq Nat \ {0}
    /\ {FailoverDelayMs, MaxRetries, BaseBackoffMs, OpenMs} \subseteq Nat
    /\ AnswerMs \in [Nodes -> Nat]
    /\ Jitters \subseteq Int
    /\ HealthCheckModes \subseteq {"active", "passive"}
    /\ BreakerEnabled \subseteq BOOLEAN

ASSUME FailureAssumption ==
    \A plan \in FailurePlans :
        /\ plan \in [Nodes -> Seq(Window)]
        /\ \A n \in Nodes : \A i \in DOMAIN plan[n] : plan[n][i].startMs < plan[n][i].endMs

VARIABLES
    config,         \* failures, healthCheckMode and circuitBreaker.enabled
    queue,          \* the pending attempts
    requests,       \* per request: attempts made, completed, success
    breakers,       \* breakerByNode
    passiveFailures,
    service,        \* activeNodeId, markedUnhealthy and failover
    attempt         \* the attempt recorded last

recovering == <<config, queue, requests, breakers, passiveFailures, service, attempt>>

-----------------------------------------------------------------------------

(* Health and failover. *)

NoFailover == [fromNodeId |-> None, detectedAtMs |-> 0, completeAtMs |-> 0, completed |-> FALSE]

isPhysicallyFailed(n, atMs) ==
    \E i \in DOMAIN config.failures[n] :
        config.failures[n][i].startMs <= atMs /\ atMs < config.failures[n][i].endMs

firstCheckAt(w) ==
    ((w.startMs + HealthCheckIntervalMs - 1) \div HealthCheckIntervalMs) * HealthCheckIntervalMs

\* When enough checks of a window have failed.
activeDetectionAt(w) == firstCheckAt(w) + (HealthFailureThreshold - 1) * HealthCheckIntervalMs

\* Mutant of Detected: the window may be over before enough checks failed.
Detected_EvenIfOver(w, atMs) == activeDetectionAt(w) <= atMs

Detected(w, atMs) == activeDetectionAt(w) < w.endMs /\ activeDetectionAt(w) <= atMs

markUnhealthy(s, n, atMs) ==
    IF n \in s.marked THEN s
    ELSE [s EXCEPT !.marked = @ \cup {n},
                   !.failover = IF s.active = n /\ @ = NoFailover
                                THEN [fromNodeId |-> n, detectedAtMs |-> atMs,
                                      completeAtMs |-> atMs + FailoverDelayMs,
                                      completed |-> FALSE]
                                ELSE @]

\* The first configured window of the active node that has been detected marks it.
processActiveDetection(s, atMs) ==
    IF config.healthCheckMode # "active" \/ s.active = None THEN s
    ELSE LET windows == config.failures[s.active]
             found == {i \in DOMAIN windows : Detected(windows[i], atMs)}
         IN  IF found = {} THEN s
             ELSE markUnhealthy(s, s.active,
                      activeDetectionAt(windows[CHOOSE i \in found : \A j \in found : i <= j]))

\* The first of these nodes in stable order, or none.
First(nodes) == IF nodes = {} THEN None ELSE CHOOSE n \in nodes : \A m \in nodes : n <= m

\* The nodes that can be promoted.
Standbys(s) == {n \in Nodes \ {s.failover.fromNodeId} :
                    ~isPhysicallyFailed(n, s.failover.completeAtMs)}

processFailover(s, atMs) ==
    IF s.failover = NoFailover \/ s.failover.completed \/ s.failover.completeAtMs > atMs THEN s
    ELSE [s EXCEPT !.active = First(Standbys(s)), !.failover.completed = TRUE]

\* Without an active node the first healthy one becomes active.
CapacityReturns(s, atMs) ==
    IF s.active # None THEN s
    ELSE [s EXCEPT !.active = First({n \in Nodes : ~isPhysicallyFailed(n, atMs)})]

advanceInfrastructure(atMs) ==
    CapacityReturns(processFailover(processActiveDetection(service, atMs), atMs), atMs)

-----------------------------------------------------------------------------

(* Circuit breakers. *)

advanceBreaker(b, atMs) ==
    IF config.enabled /\ b.state = "open" /\ atMs >= b.reopenAtMs
    THEN [b EXCEPT !.state = "half-open", !.reopenAtMs = None]
    ELSE b

\* Mutant of breakerFailed: a failed probe is counted like any other failure.
breakerFailed_ProbeCounts(b, atMs) ==
    IF ~config.enabled THEN b
    ELSE IF b.consecutiveFailures + 1 >= FailureThreshold
    THEN [state |-> "open", consecutiveFailures |-> 0, reopenAtMs |-> atMs + OpenMs]
    ELSE [b EXCEPT !.consecutiveFailures = @ + 1]

\* recordBackendFailure, the breaker's part.
breakerFailed(b, atMs) ==
    IF ~config.enabled THEN b
    ELSE IF b.state = "half-open" \/ b.consecutiveFailures + 1 >= FailureThreshold
    THEN [state |-> "open", consecutiveFailures |-> 0, reopenAtMs |-> atMs + OpenMs]
    ELSE [b EXCEPT !.consecutiveFailures = @ + 1]

Closed == [state |-> "closed", consecutiveFailures |-> 0, reopenAtMs |-> None]

-----------------------------------------------------------------------------

(* Attempts. *)

compareAttempts(p, q) ==
    \/ p.atMs < q.atMs
    \/ p.atMs = q.atMs /\ p.request < q.request
    \/ p.atMs = q.atMs /\ p.request = q.request /\ p.attempt <= q.attempt

Earliest(p) == p \in queue /\ \A q \in queue : compareAttempts(p, q)

Larger(x, y) == IF x >= y THEN x ELSE y

retryDelay(attemptIndex, jitter) == Larger(0, BaseBackoffMs * 2 ^ attemptIndex + jitter)

Retry(p, endMs) ==
    /\ p.attempt < MaxRetries
    /\ \E jitter \in Jitters :
           queue' = (queue \ {p}) \cup
                        {[atMs |-> endMs + retryDelay(p.attempt, jitter),
                          request |-> p.request, attempt |-> p.attempt + 1]}
    /\ requests' = [requests EXCEPT ![p.request].attempts = @ + 1]

\* Mutant of GiveUp: the last retry is scheduled no more, and the request is forgotten.
GiveUp_Forgets(p) ==
    /\ p.attempt >= MaxRetries
    /\ queue' = queue \ {p}
    /\ requests' = [requests EXCEPT ![p.request].attempts = @ + 1]

GiveUp(p) ==
    /\ p.attempt >= MaxRetries
    /\ queue' = queue \ {p}
    /\ requests' = [requests EXCEPT ![p.request].attempts = @ + 1,
                                    ![p.request].completed = TRUE]

scheduleRetry(p, endMs) == Retry(p, endMs) \/ GiveUp(p)

Recorded(p, endMs, n, outcome, before) ==
    attempt' = [request |-> p.request, startMs |-> p.atMs, endMs |-> endMs, nodeId |-> n,
                outcome |-> outcome, circuitStateBefore |-> before]

\* An attempt that reaches no node ends at once and is no observation of any node.
Refused(p, s, n, outcome, before) ==
    /\ scheduleRetry(p, p.atMs)
    /\ service' = s
    /\ Recorded(p, p.atMs, n, outcome, before)
    /\ UNCHANGED <<breakers, passiveFailures>>

\* Mutant of FailingOver: traffic goes on to the active node until promotion.
FailingOver_Never(p, s) == FALSE

FailingOver(p, s) ==
    s.failover # NoFailover /\ ~s.failover.completed /\ p.atMs >= s.failover.detectedAtMs

FailoverInProgress(p, s) ==
    /\ FailingOver(p, s)
    /\ Refused(p, s, None, "failover-in-progress", "none")

NoActiveNode(p, s) ==
    /\ ~FailingOver(p, s)
    /\ s.active = None
    /\ Refused(p, s, None, "no-active-node", "none")

\* The active node's breaker as the attempt finds it.
BreakerAt(p, s) == advanceBreaker(breakers[s.active], p.atMs)

Routed(p, s) == ~FailingOver(p, s) /\ s.active # None

CircuitOpen(p, s) ==
    /\ Routed(p, s)
    /\ config.enabled /\ BreakerAt(p, s).state = "open"
    /\ Refused(p, s, s.active, "circuit-open", "open")

ReachesNode(p, s) == Routed(p, s) /\ ~(config.enabled /\ BreakerAt(p, s).state = "open")

Observed(s) == config.healthCheckMode = "passive" /\ s.active \notin s.marked

\* recordBackendFailure, the health check's part.
PassivelyDetected(s, endMs) ==
    IF Observed(s) /\ passiveFailures[s.active] + 1 >= HealthFailureThreshold
    THEN markUnhealthy(s, s.active, endMs)
    ELSE s

BackendFails(p, s) ==
    LET endMs == p.atMs + AttemptTimeoutMs
    IN  /\ ReachesNode(p, s)
        /\ isPhysicallyFailed(s.active, p.atMs)
        /\ passiveFailures' = IF Observed(s)
                              THEN [passiveFailures EXCEPT ![s.active] = @ + 1]
                              ELSE passiveFailures
        /\ service' = PassivelyDetected(s, endMs)
        /\ breakers' = [breakers EXCEPT ![s.active] = breakerFailed(BreakerAt(p, s), endMs)]
        /\ scheduleRetry(p, endMs)
        /\ Recorded(p, endMs, s.active, "backend-failed", BreakerAt(p, s).state)

BackendAnswers(p, s) ==
    /\ ReachesNode(p, s)
    /\ ~isPhysicallyFailed(s.active, p.atMs)
    /\ passiveFailures' = [passiveFailures EXCEPT ![s.active] = 0]
    /\ service' = s
    /\ breakers' = [breakers EXCEPT ![s.active] = Closed]
    /\ queue' = queue \ {p}
    /\ requests' = [requests EXCEPT ![p.request] =
                        [attempts |-> @.attempts + 1, completed |-> TRUE, success |-> TRUE]]
    /\ Recorded(p, p.atMs + AnswerMs[s.active], s.active, "success", BreakerAt(p, s).state)

-----------------------------------------------------------------------------

Configurations ==
    [failures : FailurePlans, healthCheckMode : HealthCheckModes, enabled : BreakerEnabled]

RecoveryInit ==
    /\ config \in Configurations
    /\ queue = {[atMs |-> (r - 1) * IntervalMs, request |-> r, attempt |-> 0] : r \in Requests}
    /\ requests = [r \in Requests |-> [attempts |-> 0, completed |-> FALSE, success |-> FALSE]]
    /\ breakers = [n \in Nodes |-> Closed]
    /\ passiveFailures = [n \in Nodes |-> 0]
    /\ service = [active |-> 1, marked |-> {}, failover |-> NoFailover]
    /\ attempt = [request |-> 1, startMs |-> 0, endMs |-> 0, nodeId |-> None,
                  outcome |-> "none", circuitStateBefore |-> "none"]

Turn(p) ==
    LET s == advanceInfrastructure(p.atMs)
    IN  \/ FailoverInProgress(p, s)
        \/ NoActiveNode(p, s)
        \/ CircuitOpen(p, s)
        \/ BackendFails(p, s)
        \/ BackendAnswers(p, s)

RecoveryNext ==
    /\ \E p \in queue : Earliest(p) /\ Turn(p)
    /\ UNCHANGED config

RecoverySpec == RecoveryInit /\ [][RecoveryNext]_recovering

-----------------------------------------------------------------------------

\* A request that is not completed has exactly one attempt pending, the one after those
\* already made; a completed one has none.  It is given up only after every retry.
EachRequestIsPendingOnce ==
    /\ \A r \in Requests :
           IF requests[r].completed
           THEN \A p \in queue : p.request # r
           ELSE {p.attempt : p \in {q \in queue : q.request = r}} = {requests[r].attempts}
    /\ Cardinality(queue) = Cardinality({r \in Requests : ~requests[r].completed})
    /\ \A r \in Requests : requests[r].completed /\ ~requests[r].success
           => requests[r].attempts = MaxRetries + 1

\* Once a failover has begun no attempt reaches any node until its promotion.
NoBackendDuringFailover ==
    attempt.outcome \in {"backend-failed", "success", "circuit-open"} /\ service.failover # NoFailover
        => ~(service.failover.detectedAtMs <= attempt.startMs
                 /\ attempt.startMs < service.failover.completeAtMs)

\* Active checks detect a failure while it lasts, after it has been checked often enough.
DetectedWhileFailing ==
    config.healthCheckMode = "active" /\ service.failover # NoFailover
        => isPhysicallyFailed(service.failover.fromNodeId, service.failover.detectedAtMs)

\* A node's breaker changes only by what that node did, an open one lets nothing through
\* before its interval is over, a failed probe opens it again and an answer wipes its slate.
BreakersIsolateNodes ==
    [][\A n \in Nodes :
        /\ breakers'[n] # breakers[n] =>
               attempt'.nodeId = n /\ attempt'.outcome \in {"backend-failed", "success"}
        /\ breakers'[n] # breakers[n] /\ breakers[n].state = "open" =>
               /\ attempt'.startMs >= breakers[n].reopenAtMs
               /\ breakers'[n].state = IF attempt'.outcome = "success" THEN "closed" ELSE "open"
        /\ attempt'.nodeId = n /\ attempt'.outcome = "success" => breakers'[n] = Closed]_recovering

\* Contract, Failover: after the active node is marked unhealthy a failover starts.
MarkedMeansFailover ==
    [][\A n \in service'.marked \ service.marked :
           service.active = n => service'.failover # service.failover]_recovering

=============================================================================
