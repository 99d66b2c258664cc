----------------------------- MODULE GlobalIngress -----------------------------
(***************************************************************************)
(* The global-ingress exhibit (web/lib/global-ingress.ts,                  *)
(* simulateGlobalIngress): requests from the client sites are routed to a  *)
(* healthy region.  One step routes one request; summaries are left out.   *)
(***************************************************************************)
EXTENDS GlobalRegions

CONSTANT IngressSettings    \* requestCount, routingPolicy, trafficProfile, healthy, addedLatencyMs

ASSUME IngressAssumption ==
    \A c \in IngressSettings :
        /\ c.requestCount \in 1..500
        /\ c.routingPolicy \in {"round-robin", "geography", "latency"}
        /\ c.trafficProfile \in {"balanced", "europe-heavy", "asia-heavy"}
        /\ c.healthy \subseteq Regions /\ c.addedLatencyMs \in [Regions -> 0..1000]

VARIABLE ingress    \* config, and the region every request so far was routed to

NoRegion == 0

TrafficPattern(profile) ==
    CASE profile = "balanced" -> <<1, 2, 3>>
      [] profile = "europe-heavy" -> <<1, 1, 1, 1, 2, 3>>
      [] profile = "asia-heavy" -> <<3, 3, 3, 3, 2, 1>>

clientSite(c, index) ==
    LET pattern == TrafficPattern(c.trafficProfile)
    IN  pattern[(index % Len(pattern)) + 1]

lowestLatencyRegion(site, candidates, addedLatencyMs) ==
    Least(candidates, LAMBDA r : baseRttMs[site][r] + addedLatencyMs[r])

geographicFallbackRegion(site, candidates) ==
    lowestLatencyRegion(site, candidates, [r \in Regions |-> 0])

nthHealthy(healthy, n) == CHOOSE r \in healthy : Cardinality({q \in healthy : q < r}) = n

selectRegion(c, site, index) ==
    CASE c.healthy = {} -> NoRegion
      [] c.healthy # {} /\ c.routingPolicy = "round-robin" ->
             nthHealthy(c.healthy, index % Cardinality(c.healthy))
      [] c.healthy # {} /\ c.routingPolicy = "geography" ->
             IF homeRegion(site) \in c.healthy THEN homeRegion(site)
             ELSE geographicFallbackRegion(site, c.healthy)
      [] c.healthy # {} /\ c.routingPolicy = "latency" ->
             lowestLatencyRegion(site, c.healthy, c.addedLatencyMs)

-----------------------------------------------------------------------------

IngressOf(c) == [config |-> c, requests |-> <<>>]

Route ==
    LET c == ingress.config
        index == Len(ingress.requests)
    IN  /\ index < c.requestCount
        /\ ingress' = [ingress EXCEPT !.requests = Append(@, selectRegion(c, clientSite(c, index), index))]

IngressSpec == ingress \in {IngressOf(c) : c \in IngressSettings} /\ [][Route]_ingress

Site(i) == clientSite(ingress.config, i - 1)

crossRegion == {i \in DOMAIN ingress.requests : ingress.requests[i] \notin {NoRegion, homeRegion(Site(i))}}
healthFailover == {i \in DOMAIN ingress.requests : homeRegion(Site(i)) \notin ingress.config.healthy}

-----------------------------------------------------------------------------

\* A request reaches a healthy region as long as there is one.  Round robin uses the healthy
\* regions evenly; by geography a player leaves home only when home is down, and by latency
\* no healthy region would have answered sooner, so that on an unburdened network the two
\* agree.
RoutedToHealthy ==
    LET c == ingress.config
        totalRttMs(i, r) == baseRttMs[Site(i)][r] + c.addedLatencyMs[r]
        routed(r) == Cardinality({i \in DOMAIN ingress.requests : ingress.requests[i] = r})
    IN  /\ \A i \in DOMAIN ingress.requests :
               /\ ingress.requests[i] \in (IF c.healthy = {} THEN {NoRegion} ELSE c.healthy)
               /\ c.routingPolicy = "latency" =>
                      \A r \in c.healthy : totalRttMs(i, ingress.requests[i]) <= totalRttMs(i, r)
        /\ c.routingPolicy = "round-robin" => Even(c.healthy, routed)
        /\ \/ c.routingPolicy = "geography"
           \/ c.routingPolicy = "latency" /\ Range(c.addedLatencyMs) = {0}
           => crossRegion \subseteq healthFailover

=============================================================================
