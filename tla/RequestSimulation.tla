-------------------------- MODULE RequestSimulation --------------------------
(***************************************************************************)
(* The request simulator (web/lib/simulation.ts, simulate): a producer     *)
(* under backpressure, a load balancer, and nodes with workers and a       *)
(* bounded waiting queue.                                                  *)
(*                                                                         *)
(* One step is one turn of the simulator's loop: the next request arrives, *)
(* is routed, and is rejected or scheduled to its end.  Requests are       *)
(* processed in the order they are sent; with jitter they may reach a node *)
(* in another order.  Modelled time is whole milliseconds.                 *)
(***************************************************************************)
EXTENDS Integers, Sequences, FiniteSetsExt

CONSTANT SimulationSettings     \* the configurations to simulate

ASSUME SimulationAssumption ==
    \A c \in SimulationSettings :
        /\ c.policy \in {"round-robin", "least-connections", "random"}
        /\ c.overloadPolicy \in {"queue", "reject", "shed-load"}
        /\ {c.requestCount, c.maxQueueWaitMs, c.backpressureLimit} \subseteq Nat
        /\ c.baseIntervalMs \in Nat \ {0}
        /\ c.burst \in [startRequest : Nat, requestCount : Nat, multiplier : Nat \ {0}]
        /\ c.jitters \subseteq Int \* the outcomes of the latency jitter
        /\ c.nodes # <<>>
        /\ \A i \in DOMAIN c.nodes :
               /\ {c.nodes[i].serviceTimeMs, c.nodes[i].workers} \subseteq Nat \ {0}
               /\ {c.nodes[i].networkLatencyMs, c.nodes[i].queueCapacity} \subseteq Nat
               /\ \A w \in c.nodes[i].failures : w.startMs \in Nat /\ w.startMs < w.endMs

VARIABLE simulation     \* config, clocks, completions of accepted requests, cursor, the
                        \* nodes' schedules and workers, and the results so far

-----------------------------------------------------------------------------

(* The producer. *)

requestIntervalMs(c, r) ==
    IF r = 0 THEN 0
    ELSE IF r >= c.burst.startRequest /\ r < c.burst.startRequest + c.burst.requestCount
    THEN c.baseIntervalMs \div c.burst.multiplier
    ELSE c.baseIntervalMs

Outstanding(completions, atMs) == {x \in completions : x.atMs > atMs}

BelowLimit(s, atMs) ==
    Cardinality(Outstanding(s.completions, atMs)) < s.config.backpressureLimit

\* The producer waits for completions, one after another, until it is below its limit.
applyBackpressure(s, scheduledMs) ==
    LET candidateMs == Max({scheduledMs, s.previousArrivalMs})
        completing == {x.atMs : x \in Outstanding(s.completions, candidateMs)}
    IN  IF s.config.backpressureLimit = 0 THEN candidateMs
        ELSE Min({t \in {candidateMs} \cup completing : BelowLimit(s, t)})

-----------------------------------------------------------------------------

(* The load balancer. *)

isHealthy(node, atMs) == \A w \in node.failures : atMs < w.startMs \/ w.endMs <= atMs

Pruned(scheduled, atMs) == {w \in scheduled : w.serviceEndMs > atMs}

\* How many nodes after the cursor a node is.
Offset(s, n) == (n - 1 - s.cursor) % Len(s.config.nodes)

\* n, one of the healthy nodes, may be chosen, and cursor is the cursor afterwards.
chooseNode(s, healthy, load, n, cursor) ==
    CASE s.config.policy = "least-connections" ->
             /\ \A m \in healthy : load[n] < load[m] \/ (load[n] = load[m] /\ n <= m)
             /\ cursor = s.cursor
      [] s.config.policy = "random" -> cursor = s.cursor
      [] s.config.policy = "round-robin" ->
             /\ \A m \in healthy : Offset(s, n) <= Offset(s, m)
             /\ cursor = n % Len(s.config.nodes)

-----------------------------------------------------------------------------

(* A node. *)

jitteredLatency(node, jitter) == Max({0, node.networkLatencyMs + jitter})

\* The worker that becomes free first, the lowest index among equals.
earliestWorkerIndex(available) ==
    CHOOSE w \in DOMAIN available :
        \A v \in DOMAIN available :
            available[w] < available[v] \/ (available[w] = available[v] /\ w <= v)

\* Mutant of admissionFailureReason: the queue takes one request too many.
admissionFailureReason_OneMore(c, node, queueDelayMs, queueDepth) ==
    IF queueDelayMs = 0 THEN "none"
    ELSE CASE c.overloadPolicy = "reject" -> "over-capacity"
           [] c.overloadPolicy = "shed-load" ->
                  IF queueDepth > node.queueCapacity \/ queueDelayMs > c.maxQueueWaitMs
                  THEN "shed-load" ELSE "none"
           [] c.overloadPolicy = "queue" ->
                  IF queueDepth > node.queueCapacity THEN "queue-full" ELSE "none"

\* Why a request that would have to wait is refused, if it is.
admissionFailureReason(c, node, queueDelayMs, queueDepth) ==
    IF queueDelayMs = 0 THEN "none"
    ELSE CASE c.overloadPolicy = "reject" -> "over-capacity"
           [] c.overloadPolicy = "shed-load" ->
                  IF queueDepth >= node.queueCapacity \/ queueDelayMs > c.maxQueueWaitMs
                  THEN "shed-load" ELSE "none"
           [] c.overloadPolicy = "queue" ->
                  IF queueDepth >= node.queueCapacity THEN "queue-full" ELSE "none"

None == -1

Failed(scheduledMs, arrivalMs, n, reason) ==
    [scheduledArrivalMs |-> scheduledMs, arrivalMs |-> arrivalMs, nodeId |-> n,
     failureReason |-> reason, queueDelayMs |-> None, serviceStartMs |-> None,
     completionMs |-> None]

\* The simulation after a request has arrived: t is the state with its clocks advanced
\* and finished work pruned.
NoHealthyNode(t, scheduledMs) ==
    simulation' = [t EXCEPT !.requests =
                      Append(@, Failed(scheduledMs, t.previousArrivalMs, None, "no-healthy-node"))]

\* The request travels to node n and is refused there or scheduled on a worker.
Served(t, scheduledMs, n, cursor, outbound, inbound) ==
    LET node == t.config.nodes[n]
        serverArrivalMs == t.previousArrivalMs + jitteredLatency(node, outbound)
        scheduled == Pruned(t.nodes[n].scheduled, serverArrivalMs)
        available == t.nodes[n].workerAvailableMs
        worker == earliestWorkerIndex(available)
        serviceStartMs == Max({serverArrivalMs, available[worker]})
        serviceEndMs == serviceStartMs + node.serviceTimeMs
        completionMs == serviceEndMs + jitteredLatency(node, inbound)
        queueDelayMs == serviceStartMs - serverArrivalMs
        queueDepth == Cardinality({w \in scheduled : w.serviceStartMs > serverArrivalMs})
        reason == admissionFailureReason(t.config, node, queueDelayMs, queueDepth)
        id == Len(t.requests)
    IN  IF reason # "none"
        THEN simulation' = [t EXCEPT !.cursor = cursor, !.nodes[n].scheduled = scheduled,
                               !.requests = Append(@, Failed(scheduledMs, t.previousArrivalMs, n, reason))]
        ELSE simulation' =
                 [t EXCEPT !.cursor = cursor,
                     !.nodes[n] = [scheduled |-> scheduled \cup
                                       {[id |-> id, serviceStartMs |-> serviceStartMs,
                                         serviceEndMs |-> serviceEndMs]},
                                   workerAvailableMs |-> [available EXCEPT ![worker] = serviceEndMs]],
                     !.completions = @ \cup {[id |-> id, atMs |-> completionMs]},
                     !.requests = Append(@,
                         [scheduledArrivalMs |-> scheduledMs, arrivalMs |-> t.previousArrivalMs,
                          nodeId |-> n, failureReason |-> "none", queueDelayMs |-> queueDelayMs,
                          serviceStartMs |-> serviceStartMs, completionMs |-> completionMs])]

-----------------------------------------------------------------------------

\* The simulation of c before its first request.
SimulationOf(c) ==
    [config |-> c, scheduledArrivalMs |-> 0, previousArrivalMs |-> 0, completions |-> {},
     cursor |-> 0,
     nodes |-> [n \in DOMAIN c.nodes |->
                   [scheduled |-> {}, workerAvailableMs |-> [w \in 1..c.nodes[n].workers |-> 0]]],
     requests |-> <<>>]

\* s when its next request is sent: its clocks have advanced, and finished work is forgotten.
Advanced(s, scheduledMs) ==
    LET arrivalMs == applyBackpressure(s, scheduledMs)
    IN  [s EXCEPT !.scheduledArrivalMs = scheduledMs,
                  !.previousArrivalMs = arrivalMs,
                  !.completions = Outstanding(@, arrivalMs),
                  !.nodes = [n \in DOMAIN s.nodes |->
                                [s.nodes[n] EXCEPT !.scheduled = Pruned(@, arrivalMs)]]]

\* The next request arrives.
Arrive ==
    LET s == simulation
        scheduledMs == s.scheduledArrivalMs + requestIntervalMs(s.config, Len(s.requests))
        t == Advanced(s, scheduledMs)
        healthy == {n \in DOMAIN s.nodes : isHealthy(s.config.nodes[n], t.previousArrivalMs)}
        load == [n \in DOMAIN s.nodes |-> Cardinality(t.nodes[n].scheduled)]
    IN  /\ Len(s.requests) < s.config.requestCount
        /\ \/ healthy = {} /\ NoHealthyNode(t, scheduledMs)
           \/ \E n \in healthy, cursor \in 0..(Len(s.config.nodes) - 1),
                 outbound, inbound \in s.config.jitters :
                  /\ chooseNode(s, healthy, load, n, cursor)
                  /\ Served(t, scheduledMs, n, cursor, outbound, inbound)

SimulationSpec ==
    simulation \in {SimulationOf(c) : c \in SimulationSettings} /\ [][Arrive]_simulation

-----------------------------------------------------------------------------

Accepted(n) ==
    {i \in DOMAIN simulation.requests :
        simulation.requests[i].nodeId = n /\ simulation.requests[i].failureReason = "none"}

StartOf(i) == simulation.requests[i].serviceStartMs
ReachedAt(i) == StartOf(i) - simulation.requests[i].queueDelayMs
EndOf(i) == StartOf(i) + simulation.config.nodes[simulation.requests[i].nodeId].serviceTimeMs

InService(n, t) == {i \in Accepted(n) : StartOf(i) <= t /\ t < EndOf(i)}
Waiting(n, t) == {i \in Accepted(n) : ReachedAt(i) <= t /\ t < StartOf(i)}

\* A node never serves more requests at once than it has workers.  When requests reach it
\* in the order they were sent, it starts them in that order, and one waits only while
\* every worker is busy.
ServedInTurn ==
    \A n \in DOMAIN simulation.config.nodes :
        LET workers == simulation.config.nodes[n].workers
        IN  /\ \A i \in Accepted(n) : Cardinality(InService(n, StartOf(i))) <= workers
            /\ simulation.config.jitters = {0} => \A i, j \in Accepted(n) :
                   /\ i < j => StartOf(i) <= StartOf(j)
                   /\ \A t \in ReachedAt(i)..(StartOf(i) - 1) :
                          Cardinality(InService(n, t)) = workers

\* When requests reach a node in the order they were sent, no more than queueCapacity wait
\* there at any time, none at all under "reject", and none too long under "shed-load".
QueueIsBounded ==
    LET c == simulation.config
    IN  c.jitters = {0} => \A n \in DOMAIN c.nodes : \A i \in Accepted(n) :
            /\ Cardinality(Waiting(n, ReachedAt(i))) <= c.nodes[n].queueCapacity
            /\ c.overloadPolicy = "reject" => simulation.requests[i].queueDelayMs = 0
            /\ c.overloadPolicy = "shed-load" => simulation.requests[i].queueDelayMs <= c.maxQueueWaitMs

AllAccepted == {i \in DOMAIN simulation.requests : simulation.requests[i].failureReason = "none"}

\* The requests sent before request i and not completed at time t.
OutstandingBefore(i, t) == {j \in AllAccepted : j < i /\ simulation.requests[j].completionMs > t}

\* A request is sent only when fewer than the limit are outstanding, and it is held back
\* from its schedule, or from its predecessor's sending, only while the limit is reached.
ProducerIsHeldBack ==
    LET r == simulation.requests
        limit == simulation.config.backpressureLimit
    IN  \A i \in DOMAIN r :
            LET dueMs == Max({r[i].scheduledArrivalMs, IF i = 1 THEN 0 ELSE r[i - 1].arrivalMs})
            IN  IF limit = 0 THEN r[i].arrivalMs = dueMs
                ELSE /\ Cardinality(OutstandingBefore(i, r[i].arrivalMs)) < limit
                     /\ \A t \in dueMs..(r[i].arrivalMs - 1) :
                            Cardinality(OutstandingBefore(i, t)) >= limit

\* What a node has accepted it serves in turn, it accepts no more than it may, and the producer
\* sends no more than it may.
NodesKeepTheirLimits == ServedInTurn /\ QueueIsBounded /\ ProducerIsHeldBack

=============================================================================
