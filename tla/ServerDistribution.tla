-------------------------- MODULE ServerDistribution --------------------------
(***************************************************************************)
(* The server-distribution exhibit (web/lib/server-distribution.ts,        *)
(* compareHostFailure): rooms that already belong to a region are given to *)
(* its server processes, once as configured and once more with a host      *)
(* failed.  Processes are numbered in the order of their ids: three        *)
(* regions of two hosts of two processes.  One step assigns the next room  *)
(* in both runs.  A hash is the rank in which it puts the processes.       *)
(***************************************************************************)
EXTENDS GlobalRegions

CONSTANT DistributionSettings   \* policy, rooms, capacityUnitsPerProcess, draining, failedHostId

Processes == 1..12
Hosts == 1..6
hostOf(p) == ((p + 1) \div 2)
regionOf(p) == ((p + 3) \div 4)

ASSUME DistributionAssumption ==
    \A c \in DistributionSettings :
        /\ c.policy \in {"round-robin", "least-loaded", "rendezvous", "power-of-two"}
        /\ c.rooms \in Seq([regionId : Regions, demandUnits : Nat \ {0}])
        /\ c.capacityUnitsPerProcess \in Nat
        /\ c.draining \subseteq Hosts /\ c.failedHostId \in Hosts

VARIABLE distribution   \* config, and the process of every room so far in the two runs

Unassigned == 0

processUnits(c, assigned, p) ==
    MapThenSumSet(LAMBDA i : c.rooms[i].demandUnits, {i \in DOMAIN assigned : assigned[i] = p})

\* Hosts that draining (markHostDraining) or failure keeps from receiving rooms.
eligibleProcesses(c, closed, assigned, room) ==
    {p \in Processes : /\ regionOf(p) = room.regionId /\ hostOf(p) \notin closed
                       /\ processUnits(c, assigned, p) + room.demandUnits <= c.capacityUnitsPerProcess}

\* The cursor of a region: the rooms it has assigned so far.
roundRobinIndex(assigned, region) ==
    Cardinality({i \in DOMAIN assigned : assigned[i] # Unassigned /\ regionOf(assigned[i]) = region})

nth(S, n) == CHOOSE p \in S : Cardinality({q \in S : q < p}) = n

chooseProcess(c, room, candidates, assigned, rank) ==
    LET leastLoaded(S) == Least(S, LAMBDA p : processUnits(c, assigned, p))
    IN  CASE c.policy = "round-robin" ->
                nth(candidates, roundRobinIndex(assigned, room.regionId) % Cardinality(candidates))
          [] c.policy = "least-loaded" -> leastLoaded(candidates)
          [] c.policy = "rendezvous" -> Least(candidates, LAMBDA p : -rank[p])
          [] c.policy = "power-of-two" -> leastLoaded(TopTwo(candidates, rank))

distributeRoom(c, closed, assigned, rank) ==
    LET room == c.rooms[Len(assigned) + 1]
        candidates == eligibleProcesses(c, closed, assigned, room)
    IN  Append(assigned, IF candidates = {} THEN Unassigned
                         ELSE chooseProcess(c, room, candidates, assigned, rank))

-----------------------------------------------------------------------------

DistributionOf(c) == [config |-> c, baseline |-> <<>>, failure |-> <<>>]

ClosedHosts(c) == c.draining \cup {c.failedHostId}

\* compareHostFailure, room by room; a hash ranks the four processes of the room's region.
AssignRoom ==
    LET c == distribution.config
    IN  /\ Len(distribution.baseline) < Len(c.rooms)
        /\ \E order \in {f \in [1..4 -> 1..4] : IsInjective(f)} :
               LET rank == [p \in Processes |-> order[((p - 1) % 4) + 1]]
               IN  distribution' = [distribution EXCEPT
                       !.baseline = distributeRoom(c, c.draining, @, rank),
                       !.failure = distributeRoom(c, ClosedHosts(c), @, rank)]

DistributionSpec ==
    distribution \in {DistributionOf(c) : c \in DistributionSettings} /\ [][AssignRoom]_distribution

movedRooms(d) == {i \in DOMAIN d.baseline : d.baseline[i] # Unassigned
                                            /\ d.failure[i] # d.baseline[i]}
forcedRooms(d) == {i \in movedRooms(d) : hostOf(d.baseline[i]) = d.config.failedHostId}

-----------------------------------------------------------------------------

\* A room stays in its region, on an open host and within the process's capacity, and is
\* turned away only when, on top of the rooms before it, it fits no open process there.
InItsRegion(assigned, closed) ==
    LET c == distribution.config
        cap == c.capacityUnitsPerProcess
    IN  /\ \A p \in Processes : processUnits(c, assigned, p) <= (IF hostOf(p) \in closed THEN 0 ELSE cap)
        /\ \A i \in DOMAIN assigned :
               IF assigned[i] # Unassigned THEN regionOf(assigned[i]) = c.rooms[i].regionId
               ELSE \A p \in Processes :
                        hostOf(p) \notin closed /\ regionOf(p) = c.rooms[i].regionId =>
                            processUnits(c, SubSeq(assigned, 1, i), p) + c.rooms[i].demandUnits > cap

\* The load is shared: in turn while every process could take every room, and to within one
\* room's demand by the least loaded.
Shared(assigned, closed) ==
    LET c == distribution.config
        demands == {c.rooms[i].demandUnits : i \in DOMAIN assigned}
        total == MapThenSumSet(LAMBDA i : c.rooms[i].demandUnits, DOMAIN assigned)
        rooms(p) == Cardinality({i \in DOMAIN assigned : assigned[i] = p})
    IN  \A r \in Regions :
            LET open == {p \in Processes : regionOf(p) = r /\ hostOf(p) \notin closed}
            IN  /\ c.policy = "round-robin" /\ total <= c.capacityUnitsPerProcess => Even(open, rooms)
                /\ c.policy = "least-loaded" => \A p, q \in open :
                       demands = {} \/ processUnits(c, assigned, p)
                                           <= processUnits(c, assigned, q) + Max(demands)

\* A failed host disturbs no other region, whatever the policy; rendezvous moves nothing else
\* within the region either while the remaining processes have room for everything.
OnlyTheFailedHost ==
    LET c == distribution.config
        total == MapThenSumSet(LAMBDA i : c.rooms[i].demandUnits, DOMAIN distribution.baseline)
        moved == movedRooms(distribution)
    IN  /\ \A i \in moved : (c.failedHostId + 1) \div 2 = c.rooms[i].regionId
        /\ c.policy = "rendezvous" /\ total <= c.capacityUnitsPerProcess =>
               moved = forcedRooms(distribution)

DistributionHolds ==
    /\ InItsRegion(distribution.baseline, distribution.config.draining)
    /\ InItsRegion(distribution.failure, ClosedHosts(distribution.config))
    /\ Shared(distribution.baseline, distribution.config.draining)
    /\ Shared(distribution.failure, ClosedHosts(distribution.config))
    /\ OnlyTheFailedHost

=============================================================================
