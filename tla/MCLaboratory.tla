----------------------------- MODULE MCLaboratory -----------------------------
(* The exhibits with every policy they offer and parameters small enough for  *)
(* queues to fill, buckets to empty, entries to expire, and rings to collide. *)
EXTENDS Laboratory, TLC

Window(startMs, endMs) == [startMs |-> startMs, endMs |-> endMs]

Node(serviceTimeMs, networkLatencyMs, workers, queueCapacity, failures) ==
    [serviceTimeMs |-> serviceTimeMs, networkLatencyMs |-> networkLatencyMs,
     workers |-> workers, queueCapacity |-> queueCapacity, failures |-> failures]

\* Nodes that fail for a while, that differ in speed and room, and one alone.
Clusters == { <<Node(5, 1, 1, 1, {}), Node(3, 2, 2, 0, {Window(2, 4)})>>,
              <<Node(4, 1, 2, 1, {}), Node(4, 0, 1, 2, {})>>,
              <<Node(6, 1, 1, 2, {Window(6, 9)})>> }

Traffic(requestCount, policy, overloadPolicy, backpressureLimit, jitters, nodes) ==
    [policy |-> policy, overloadPolicy |-> overloadPolicy, requestCount |-> requestCount,
     maxQueueWaitMs |-> 3, backpressureLimit |-> backpressureLimit, baseIntervalMs |-> 2,
     burst |-> [startRequest |-> 1, requestCount |-> 3, multiplier |-> 2],
     jitters |-> jitters, nodes |-> nodes]

MCSimulationSettings ==
    {Traffic(5, p, o, l, {0}, n) : p \in {"round-robin", "least-connections", "random"},
        o \in {"queue", "reject", "shed-load"}, l \in {0, 2}, n \in Clusters}
    \cup {Traffic(4, "least-connections", "queue", l, {-2, 0, 3}, n) : l \in {0, 2}, n \in Clusters}

\* The partition begins after two operations and ends at once, within, or with the trace.
MCCapSettings ==
    [strategy : {"quorum-consistency", "local-availability"}, operationCount : {10},
     lagOperations : 0..4, partitionStart : {2}, partitionEnd : 2..10]

Pattern == <<"hot", "hot", "warm", "hot", "cold-a", "hot", "warm", "cold-b">>

MCCacheSettings ==
    [invalidationMode : {"invalidate-on-write", "ttl-only"}, requestCount : {16},
     cacheCapacity : 0..3, ttlOperations : {1, 3, 7}, writeEvery : {0, 3, 5}]

\* tokenCapacity counts thousandths: no token, one, and two and a half.
MCAdmissionSettings ==
    [policy : {"none", "token-bucket", "concurrency-limit"}, requestCount : {14},
     baseIntervalMs : {4}, burstMultiplier : {1, 2, 4}, serviceTimeMs : {0, 6, 8},
     backendConcurrency : 1..2, tokenCapacity : {0, 1000, 2500},
     refillPerSecond : {0, 100, 250, 300}]

MCFlowSettings ==
    [parentRequests : {3}, fanout : 1..3, poolSize : 1..3, normalServiceMs : {2},
     slowServiceMs : {7}, slowEvery : {0, 2, 3}, handshakeMs : {0, 2},
     reuseConnections : BOOLEAN, parentArrivalIntervalMs : {0, 4}]

Placement(strategy, h, points, order) ==
    [nodeCount |-> 2, virtualNodesPerNode |-> 2, strategy |-> strategy, keys |-> {"k"},
     keyHash |-> "k" :> h, pointHash |-> points, idOrder |-> order]

Points == (1..3) \X (1..2)

\* A key before, among and after the points, on every ring of six points; the node that is
\* added comes last among the ids or, like the tenth, second.
MCShardingSettings ==
    {Placement("consistent-hash", h, points, order) :
        h \in {0, 1, 3}, points \in [Points -> 0..2], order \in {<<1, 2, 3>>, <<1, 3, 2>>}}
    \cup {Placement("modulo", h, [p \in Points |-> 0], <<1, 2, 3>>) : h \in 0..5}

\* Regions up and down, and burdened by less and by more than their distance.
MCIngressSettings ==
    [requestCount : {7}, routingPolicy : {"round-robin", "geography", "latency"},
     trafficProfile : {"balanced", "europe-heavy", "asia-heavy"}, healthy : SUBSET Regions,
     addedLatencyMs : [Regions -> {0, 60, 200}]]

\* Two or three players, their home ingress and a foreign one, and a directory of either generation.
MCRoomSettings ==
    [creator : Sites, players : SUBSET Sites, fixedRegionId : {2},
     placementPolicy : {"creator-nearest", "fixed-region", "min-average-rtt", "min-worst-rtt"},
     directoryState : {"fresh", "stale", "unavailable"}, expectedDirectoryGeneration : 1..2,
     clients : {<<[site |-> s, ingress |-> s], [site |-> t, ingress |-> r]>> :
                   s \in {1}, t \in {2, 3}, r \in {2, 3}}]

\* Capacities that bind for some rooms, for none, and a region without any.
MCFleetSettings ==
    [policy : {"min-average-rtt", "min-worst-rtt", "load-aware", "rendezvous", "power-of-two"},
     roomCount : {6}, trafficProfile : {"balanced", "asia-heavy"},
     capacityUnits : {<<3, 3, 6>>, <<6, 6, 6>>, <<0, 21, 21>>}, healthy : {Regions, {1, 3}},
     failedRegionId : {1, 3}]

RoomOf(r, units) == [regionId |-> r, demandUnits |-> units]

MCDistributionSettings ==
    [policy : {"round-robin", "least-loaded", "rendezvous", "power-of-two"},
     rooms : {<<RoomOf(1, 1), RoomOf(1, 2), RoomOf(2, 3), RoomOf(1, 3), RoomOf(1, 1)>>},
     capacityUnitsPerProcess : {2, 3, 10}, draining : {{}, {2}}, failedHostId : {1, 3}]

\* Three nodes: any leader, failures that heal before, during and after the election, and
\* followers that fail for a while.  Followers may be impatient (1) or wait for a heartbeat.
MCElectionSettings ==
    {[failures |-> [n \in 1..3 |-> IF n = leader THEN lead ELSE IF n = (leader % 3) + 1 THEN next ELSE last],
      initialLeaderId |-> leader, initialTerm |-> 1, heartbeatIntervalMs |-> 2,
      electionTimeoutMs |-> timeout, electionDurationMs |-> duration] :
        leader \in {1, 2}, timeout \in {1, 2, 3}, duration \in {0, 2},
        lead \in {<<>>} \cup {<<Window(start, end)>> : start \in {0, 2, 3}, end \in {4, 5, 6, 7, 9}},
        next \in {<<>>, <<Window(0, 9)>>, <<Window(6, 8)>>},
        last \in {<<>>, <<Window(3, 6)>>}}

MCServiceStates == {"available", "failed"}

Command(sequence, h, v) == [sequence |-> sequence, horizontal |-> h, vertical |-> v]
Placed(id, x, y, applied) == [player_id |-> id, x |-> x, y |-> y, last_applied_sequence |-> applied]

\* Commands of which some are not legal, worlds of which one has too many players for a
\* frame, and the welcome; sequences and ticks in one byte and in two.
MCWireMessages ==
    {[kind |-> "input", value |-> Command(s, h, v)] : s \in {0, 1, 6, 15}, h \in -2..1, v \in -1..1}
    \cup {[kind |-> "snapshot", value |-> [tick |-> t, players |-> ps]] : t \in {0, 7, 15},
             ps \in {<<>>, <<Placed(1, -2, 1, 3)>>, <<Placed(1, 0, -1, 0), Placed(3, 1, 1, 2)>>,
                     <<Placed(1, 0, 0, 0), Placed(2, 0, 0, 0), Placed(3, 0, 0, 0)>>}}
    \cup {[kind |-> "welcome", value |-> [player_id |-> id, tick_hz |-> 2, max_players |-> 3,
                                        current_tick |-> t]] : id \in {1, 9}, t \in {0, 11}}

=============================================================================
