---------------------------- MODULE GameplayLatency ----------------------------
(***************************************************************************)
(* The gameplay-latency exhibit (web/lib/gameplay-latency.ts and           *)
(* web/components/gameplay-latency-lab.tsx): how long a session takes to   *)
(* set up and how far its players are from each other afterwards.  One     *)
(* step changes one control; the three sites play.                         *)
(***************************************************************************)
EXTENDS GlobalRegions

VARIABLE latency    \* the exhibit's controls

RoomServiceMs == 12
WebsocketServiceMs == 8
DirectIceBaseMs == 35
DirectAttemptTimeoutMs == 120
TurnAllocationMs == 18

directPeerRttMs == << <<0, 86, 158>>, <<86, 0, 196>>, <<158, 196, 0>> >>

LatencyOptions ==
    [signalingRegionId |-> Regions, topology |-> {"full-mesh", "host-spoke"}, hostSiteId |-> Sites,
     connectivityMode |-> {"direct", "turn-fallback"}, turnRegionId |-> Regions]

topologyPairs(l) ==
    IF l.topology = "host-spoke" THEN {<<l.hostSiteId, s>> : s \in Sites \ {l.hostSiteId}}
    ELSE {edge \in Sites \X Sites : edge[1] < edge[2]}

edgeRttMs(l, edge) ==
    IF l.connectivityMode = "direct" THEN directPeerRttMs[edge[1]][edge[2]]
    ELSE baseRttMs[edge[1]][l.turnRegionId] + baseRttMs[edge[2]][l.turnRegionId]

worstAccessRtt(r) == Max({baseRttMs[s][r] : s \in Sites})

iceMs(l) ==
    IF l.connectivityMode = "direct"
    THEN DirectIceBaseMs + Max({edgeRttMs(l, edge) : edge \in topologyPairs(l)})
    ELSE DirectAttemptTimeoutMs + TurnAllocationMs + worstAccessRtt(l.turnRegionId)

setupLatencyMs(l) ==
    LET signaling == worstAccessRtt(l.signalingRegionId)
    IN  (signaling + RoomServiceMs) + (2 * signaling + WebsocketServiceMs) + iceMs(l)

worstGameplayRttMs(l) == Max({edgeRttMs(l, edge) : edge \in topologyPairs(l)})

\* The same session with signaling in each region.
compareSignalingRegions(l) == [r \in Regions |-> [l EXCEPT !.signalingRegionId = r]]

-----------------------------------------------------------------------------

LatencyInit ==
    latency = [signalingRegionId |-> 1, topology |-> "full-mesh", hostSiteId |-> 1,
               connectivityMode |-> "direct", turnRegionId |-> 1]

ChangeLatencyControl ==
    \E control \in DOMAIN LatencyOptions : \E x \in LatencyOptions[control] :
        /\ control = "hostSiteId" => latency.topology = "host-spoke"
        /\ control = "turnRegionId" => latency.connectivityMode = "turn-fallback"
        /\ latency' = [latency EXCEPT ![control] = x]

LatencySpec == LatencyInit /\ [][ChangeLatencyControl]_latency

-----------------------------------------------------------------------------

\* Signaling moves the set-up only, by exactly three of its round trips, and never the game.
SignalingIsNotThePath ==
    \A r \in Regions :
        LET other == compareSignalingRegions(latency)[r]
        IN  /\ worstGameplayRttMs(other) = worstGameplayRttMs(latency)
            /\ setupLatencyMs(other) - setupLatencyMs(latency)
                   = 3 * (worstAccessRtt(r) - worstAccessRtt(latency.signalingRegionId))

\* Players reach each other through the host in a star and directly in a mesh; a relay shortens
\* no path, and falling back to one makes no set-up faster.
PathsCoverThePlayers ==
    LET pairs == topologyPairs(latency)
        relayed == [latency EXCEPT !.connectivityMode = "turn-fallback"]
        straight == [latency EXCEPT !.connectivityMode = "direct"]
    IN  /\ \A s, t \in Sites :
               \/ s = t \/ {<<s, t>>, <<t, s>>} \cap pairs # {}
               \/ latency.topology = "host-spoke" /\ latency.hostSiteId \notin {s, t}
        /\ \A edge \in pairs : edge[1] # edge[2] /\ edgeRttMs(straight, edge) <= edgeRttMs(relayed, edge)
        /\ setupLatencyMs(straight) <= setupLatencyMs(relayed)

LatencyHolds == SignalingIsNotThePath /\ PathsCoverThePlayers

=============================================================================
