---------------------------- MODULE FleetPlacement ----------------------------
(***************************************************************************)
(* The fleet-placement exhibit (web/lib/fleet-placement.ts,                *)
(* compareRegionFailure): a workload of rooms is placed once as configured *)
(* and once more with a region failed.  One step places the next room in   *)
(* both runs.  The hash may be any function: for a room it is the rank in  *)
(* which it puts the regions, ties already in stable order.  Means and     *)
(* utilizations are compared as exact fractions.                           *)
(***************************************************************************)
EXTENDS GlobalRegions

CONSTANT FleetSettings  \* policy, roomCount, trafficProfile, capacityUnits, healthy, failedRegionId

ASSUME FleetAssumption ==
    \A c \in FleetSettings :
        /\ c.policy \in {"min-average-rtt", "min-worst-rtt", "load-aware", "rendezvous", "power-of-two"}
        /\ c.roomCount \in 1..240
        /\ c.trafficProfile \in {"balanced", "europe-heavy", "asia-heavy"}
        /\ c.capacityUnits \in [Regions -> Nat] /\ c.healthy \subseteq Regions
        /\ c.failedRegionId \in Regions

VARIABLE fleet  \* config, and the region of every room so far in the two runs

Rejected == 0
LoadPenaltyMs == 160

ProfilePatterns(profile) ==
    CASE profile = "balanced" -> << <<1, 2>>, <<1, 3>>, <<2, 3>>, <<1, 2, 3>> >>
      [] profile = "europe-heavy" -> << <<1, 1>>, <<1, 2>>, <<1, 3>>, <<1, 1, 2>> >>
      [] profile = "asia-heavy" -> << <<3, 3>>, <<3, 2>>, <<3, 1>>, <<3, 3, 2>> >>

participantSites(c, room) == ProfilePatterns(c.trafficProfile)[((room - 1) % 4) + 1]
demandUnits(room) == 1 + ((room - 1) % 5)

\* The units the rooms placed in a region use, and the regions that have room for one more.
usedUnits(placed, r) ==
    MapThenSumSet(demandUnits, {room \in DOMAIN placed : placed[room] = r})

\* Mutant of eligibleRegions: full is when there is no unit left at all.
eligibleRegions_AnyUnit(c, healthy, placed, room) ==
    {r \in healthy : usedUnits(placed, r) < c.capacityUnits[r]}

eligibleRegions(c, healthy, placed, room) ==
    {r \in healthy : usedUnits(placed, r) + demandUnits(room) <= c.capacityUnits[r]}

\* Utilization, as a fraction of the product of all capacities.
UnitsOf(c, r) == Max({1, c.capacityUnits[r]})
AllUnits(c) == UnitsOf(c, 1) * UnitsOf(c, 2) * UnitsOf(c, 3)
regionUtilization(c, placed, r) == usedUnits(placed, r) * (AllUnits(c) \div UnitsOf(c, r))

chooseLoadAwareRegion(c, sites, candidates, placed) ==
    Least(candidates, LAMBDA r : TotalRtt(sites, r) * AllUnits(c)
                                 + regionUtilization(c, placed, r) * LoadPenaltyMs * Len(sites))

choosePowerOfTwoRegion(c, sites, candidates, placed, rank) ==
    Least(Lowest(TopTwo(candidates, rank), LAMBDA r : regionUtilization(c, placed, r)),
          LAMBDA r : TotalRtt(sites, r))

chooseRegion(c, room, candidates, placed, rank) ==
    LET sites == participantSites(c, room)
    IN  CASE c.policy = "min-average-rtt" -> Least(candidates, LAMBDA r : TotalRtt(sites, r))
          [] c.policy = "min-worst-rtt" -> Least(candidates, LAMBDA r : WorstRtt(sites, r))
          [] c.policy = "load-aware" -> chooseLoadAwareRegion(c, sites, candidates, placed)
          [] c.policy = "rendezvous" -> Least(candidates, LAMBDA r : -rank[r])
          [] c.policy = "power-of-two" -> choosePowerOfTwoRegion(c, sites, candidates, placed, rank)

placeFleet(c, healthy, placed, rank) ==
    LET room == Len(placed) + 1
        candidates == eligibleRegions(c, healthy, placed, room)
    IN  Append(placed, IF candidates = {} THEN Rejected
                       ELSE chooseRegion(c, room, candidates, placed, rank))

-----------------------------------------------------------------------------

FleetOf(c) == [config |-> c, baseline |-> <<>>, failure |-> <<>>]

Survivors(c) == c.healthy \ {c.failedRegionId}

\* compareRegionFailure, room by room, for every order the hash may put the regions in.
PlaceRoom ==
    LET c == fleet.config
    IN  /\ Len(fleet.baseline) < c.roomCount
        /\ \E rank \in {f \in [Regions -> Regions] : IsInjective(f)} :
               fleet' = [fleet EXCEPT !.baseline = placeFleet(c, c.healthy, @, rank),
                                      !.failure = placeFleet(c, Survivors(c), @, rank)]

FleetSpec == fleet \in {FleetOf(c) : c \in FleetSettings} /\ [][PlaceRoom]_fleet

forcedMoves(f) == {room \in DOMAIN f.baseline : f.baseline[room] = f.config.failedRegionId
                                                /\ f.failure[room] # f.baseline[room]}
extraMoves(f) == {room \in DOMAIN f.baseline : f.baseline[room] \notin {Rejected, f.config.failedRegionId}
                                               /\ f.failure[room] # f.baseline[room]}
unchangedRooms(f) == {room \in DOMAIN f.baseline : f.baseline[room] # Rejected
                                                   /\ f.failure[room] = f.baseline[room]}

-----------------------------------------------------------------------------

\* Rooms go to healthy regions within their capacity, and one is rejected only when, on top
\* of the rooms before it, it fits nowhere.
WithinCapacity(placed, healthy) ==
    LET c == fleet.config
    IN  /\ \A r \in Regions : usedUnits(placed, r) <= (IF r \in healthy THEN c.capacityUnits[r] ELSE 0)
        /\ \A room \in DOMAIN placed : placed[room] = Rejected =>
               \A r \in healthy :
                   usedUnits(SubSeq(placed, 1, room), r) + demandUnits(room) > c.capacityUnits[r]

\* Where every surviving region could hold all the rooms, the policies that do not look at the
\* load move no room that its region did not lose; nothing of the failed region stays there.
MovesAreForced ==
    LET c == fleet.config
        total == MapThenSumSet(demandUnits, DOMAIN fleet.baseline)
    IN  /\ \A room \in unchangedRooms(fleet) : fleet.baseline[room] # c.failedRegionId
        /\ (/\ c.policy \in {"min-average-rtt", "min-worst-rtt", "rendezvous"}
            /\ \A r \in Survivors(c) : c.capacityUnits[r] >= total) => extraMoves(fleet) = {}

\* Load-aware placement takes no region that is both further and fuller than another, and two
\* choices never end in the fullest of several regions.
LoadCounts(placed, healthy) ==
    LET c == fleet.config
    IN  \A room \in {i \in DOMAIN placed : placed[i] # Rejected} :
            LET before == SubSeq(placed, 1, room - 1)
                sites == participantSites(c, room)
                r == placed[room]
                others == eligibleRegions(c, healthy, before, room) \ {r}
                load(q) == regionUtilization(c, before, q)
            IN  /\ c.policy = "load-aware" => \A q \in others :
                       TotalRtt(sites, q) >= TotalRtt(sites, r) \/ load(q) > load(r)
                /\ c.policy = "power-of-two" /\ others # {} => \E q \in others : load(q) >= load(r)

FleetPlacementsHold ==
    /\ WithinCapacity(fleet.baseline, fleet.config.healthy)
    /\ WithinCapacity(fleet.failure, Survivors(fleet.config))
    /\ LoadCounts(fleet.baseline, fleet.config.healthy)
    /\ LoadCounts(fleet.failure, Survivors(fleet.config))
    /\ MovesAreForced

=============================================================================
