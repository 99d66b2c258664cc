----------------------------- MODULE RoomAuthority -----------------------------
(***************************************************************************)
(* The room-authority exhibit (web/lib/room-authority.ts,                  *)
(* simulateRoomAuthority): a room is placed in one region, and its clients *)
(* find the owner through the directory.  One step resolves one client.    *)
(***************************************************************************)
EXTENDS GlobalRegions

CONSTANT RoomSettings   \* creator, players, placementPolicy, fixedRegionId, directoryState,
                        \* expectedDirectoryGeneration, and the clients' ingress regions

ASSUME RoomAssumption ==
    \A c \in RoomSettings :
        /\ c.creator \in Sites /\ c.players \subseteq Sites /\ c.fixedRegionId \in Regions
        /\ c.placementPolicy \in {"creator-nearest", "fixed-region", "min-average-rtt", "min-worst-rtt"}
        /\ c.directoryState \in {"fresh", "stale", "unavailable"}
        /\ c.expectedDirectoryGeneration \in Nat
        /\ \A i \in DOMAIN c.clients : c.clients[i].site \in Sites /\ c.clients[i].ingress \in Regions

VARIABLE authority  \* config, the directory's entry, the owner every client so far resolved

Unresolved == 0
DirectoryLookupMs == 8

\* Round-trip times between regions; a hop within one takes 2 ms.
interRegionRttMs == << <<2, 74, 150>>, <<74, 2, 183>>, <<150, 183, 2>> >>

\* The participants' sites, each once, in the order of the sites: sums and maxima of them.
uniqueSites(c) == SetToSeq({c.creator} \cup c.players)

scoreRegion(sites, r, policy) ==
    IF policy = "min-average-rtt" THEN TotalRtt(sites, r) ELSE WorstRtt(sites, r)

placeRoom(c, policy) ==
    CASE policy = "fixed-region" -> c.fixedRegionId
      [] policy = "creator-nearest" -> Least(Regions, LAMBDA r : baseRttMs[c.creator][r])
      [] policy \in {"min-average-rtt", "min-worst-rtt"} ->
             Least(Regions, LAMBDA r : scoreRegion(uniqueSites(c), r, policy))

\* Mutant of resolveRoomDirectory: an entry of another generation is taken for fresh.
resolveRoomDirectory_AnyGeneration(entry, state, expectedGeneration) ==
    IF state = "fresh" THEN entry.regionId ELSE Unresolved

resolveRoomDirectory(entry, state, expectedGeneration) ==
    IF state = "fresh" /\ entry.generation = expectedGeneration THEN entry.regionId ELSE Unresolved

\* compareJoinPaths: the legs between client, ingress and owner that each path pays for.
redirectMs(site, from, owner) ==
    (IF from = owner THEN 0 ELSE baseRttMs[site][from]) + baseRttMs[site][owner]
proxyMs(site, from, owner) ==
    baseRttMs[site][from] + (IF from = owner THEN 0 ELSE interRegionRttMs[from][owner])
directoryMs(site, owner) == DirectoryLookupMs + baseRttMs[site][owner]

-----------------------------------------------------------------------------

AuthorityOf(c) ==
    [config |-> c, clients |-> <<>>,
     entry |-> [regionId |-> placeRoom(c, c.placementPolicy), generation |-> 1]]

ResolveClient ==
    LET c == authority.config
    IN  /\ Len(authority.clients) < Len(c.clients)
        /\ authority' = [authority EXCEPT !.clients =
               Append(@, resolveRoomDirectory(authority.entry, c.directoryState,
                                              c.expectedDirectoryGeneration))]

AuthoritySpec == authority \in {AuthorityOf(c) : c \in RoomSettings} /\ [][ResolveClient]_authority

converged == authority.clients # <<>> /\ Range(authority.clients) = {authority.entry.regionId}

-----------------------------------------------------------------------------

\* No two clients take different regions for the owner, wherever their requests came in, and
\* nobody guesses one from a directory that is not known to be current.
OneOwner ==
    LET c == authority.config
    IN  /\ Cardinality(Range(authority.clients) \ {Unresolved}) <= 1
        /\ (c.directoryState # "fresh" \/ c.expectedDirectoryGeneration # authority.entry.generation)
               => Range(authority.clients) \subseteq {Unresolved}
        /\ Len(authority.clients) > 0 /\ ~converged => Range(authority.clients) = {Unresolved}

\* Average and worst-case placement are the best by their own measure among what the four
\* policies would choose; a redirect beats the directory only at the owner's own ingress, and a
\* proxy at the player's home beats a redirect from there.
PlacedForItsPurpose ==
    LET c == authority.config
        sites == uniqueSites(c)
        owner == authority.entry.regionId
        policies == {"creator-nearest", "fixed-region", "min-average-rtt", "min-worst-rtt"}
        others == {placeRoom(c, policy) : policy \in policies}
    IN  /\ c.placementPolicy = "min-average-rtt" =>
               \A r \in others : TotalRtt(sites, owner) <= TotalRtt(sites, r)
        /\ c.placementPolicy = "min-worst-rtt" =>
               \A r \in others : WorstRtt(sites, owner) <= WorstRtt(sites, r)
        /\ \A i \in DOMAIN c.clients :
               LET site == c.clients[i].site
                   from == c.clients[i].ingress
               IN  /\ (redirectMs(site, from, owner) < directoryMs(site, owner)) <=> (from = owner)
                   /\ from = homeRegion(site) /\ from # owner =>
                          proxyMs(site, from, owner) < redirectMs(site, from, owner)

AuthorityHolds == OneOwner /\ PlacedForItsPurpose

=============================================================================
