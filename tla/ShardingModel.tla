----------------------------- MODULE ShardingModel -----------------------------
(***************************************************************************)
(* The sharding exhibit (web/lib/sharding-model.ts, simulateSharding):     *)
(* keys are placed by hash modulo the number of nodes or on a ring of      *)
(* virtual nodes, and one node is added.  The hash itself is a parameter:  *)
(* any function of keys and ring points to 0..HashSpace - 1, collisions    *)
(* included.  One step adds the node.                                      *)
(***************************************************************************)
EXTENDS Integers, Sequences, FiniteSetsExt, SequencesExt

CONSTANTS
    ShardingSettings    \* nodeCount, virtualNodesPerNode, strategy, keys, the hashes of the
                        \* keys (keyHash) and of the ring points (pointHash), and the place
                        \* of each node's id in the collation order (idOrder)

ASSUME ShardingAssumption ==
    \A c \in ShardingSettings :
        /\ c.nodeCount \in Nat \ {0, 1} /\ c.virtualNodesPerNode \in Nat \ {0}
        /\ c.strategy \in {"modulo", "consistent-hash"}
        /\ c.keys # {} /\ IsFiniteSet(c.keys) /\ c.keyHash \in [c.keys -> Nat]
        /\ c.pointHash \in [(1..(c.nodeCount + 1)) \X (1..c.virtualNodesPerNode) -> Nat]
        /\ c.idOrder \in [1..(c.nodeCount + 1) -> Nat]
        /\ \A m, n \in 1..(c.nodeCount + 1) : c.idOrder[m] = c.idOrder[n] => m = n

VARIABLE sharding   \* config, the number of nodes, the owner of every key, the keys moved

\* The order of the sorted ring: by hash, then by id, in which node-10 comes before node-2;
\* the sort is stable.
ringOrder(c, p, q) ==
    \/ c.pointHash[p] < c.pointHash[q]
    \/ /\ c.pointHash[p] = c.pointHash[q]
       /\ c.idOrder[p[1]] < c.idOrder[q[1]] \/ (p[1] = q[1] /\ p[2] < q[2])

\* Ring points <<node, index>>: the first is preceded by none of them, the second by one.
buildRing(c, nodes) ==
    LET points == (1..nodes) \X (1..c.virtualNodesPerNode)
    IN  [i \in 1..Cardinality(points) |->
            CHOOSE p \in points : Cardinality({q \in points : ringOrder(c, q, p)}) = i - 1]

\* Mutant of lookupRing: the search stops short of the end of the ring.
lookupRing_NoWrap(c, ring, keyHash) ==
    LET search[span \in (0..Len(ring)) \X (0..Len(ring))] ==
            LET low == span[1]
                high == span[2]
                middle == (low + high) \div 2
            IN  IF low >= high THEN low
                ELSE search[IF c.pointHash[ring[middle + 1]] <= keyHash THEN <<middle + 1, high>>
                            ELSE <<low, middle>>]
    IN  ring[(search[<<0, Len(ring)>>] % Len(ring)) + 1][1]

\* Binary search for the first point at or after the hash, around the ring.
lookupRing(c, ring, keyHash) ==
    LET search[span \in (0..Len(ring)) \X (0..Len(ring))] ==
            LET low == span[1]
                high == span[2]
                middle == (low + high) \div 2
            IN  IF low >= high THEN low
                ELSE search[IF c.pointHash[ring[middle + 1]] < keyHash THEN <<middle + 1, high>>
                            ELSE <<low, middle>>]
    IN  ring[(search[<<0, Len(ring)>>] % Len(ring)) + 1][1]

assignKeys(c, nodes) ==
    LET ring == buildRing(c, nodes)
    IN  [k \in c.keys |-> IF c.strategy = "modulo" THEN (c.keyHash[k] % nodes) + 1
                          ELSE lookupRing(c, ring, c.keyHash[k])]

ShardingOf(c) ==
    [config |-> c, nodes |-> c.nodeCount, owner |-> assignKeys(c, c.nodeCount), moved |-> {}]

AddNode ==
    LET c == sharding.config
        after == assignKeys(c, c.nodeCount + 1)
    IN  /\ sharding.nodes = c.nodeCount
        /\ sharding' = [sharding EXCEPT !.nodes = c.nodeCount + 1, !.owner = after,
                           !.moved = {k \in c.keys : after[k] # sharding.owner[k]}]

ShardingSpec == sharding \in {ShardingOf(c) : c \in ShardingSettings} /\ [][AddNode]_sharding

-----------------------------------------------------------------------------

PointsOf(n) == {<<n, i>> : i \in 1..sharding.config.virtualNodesPerNode}

\* How far around the ring from a key its owner's nearest point, or another's, lies.
Clockwise(k, p, size) == (sharding.config.pointHash[p] - sharding.config.keyHash[k]) % size

\* A key belongs to the node whose point follows it on the ring, and a new node takes keys
\* over for itself only: no key moves between old nodes.
OnlyToTheNewNode ==
    sharding.config.strategy = "consistent-hash" =>
        LET c == sharding.config
            size == 1 + Max({c.keyHash[k] : k \in c.keys} \cup {c.pointHash[p] : p \in DOMAIN c.pointHash})
            distances(k, n) == {Clockwise(k, p, size) : p \in PointsOf(n)}
        IN  /\ \A k \in c.keys, n \in 1..sharding.nodes :
                   Min(distances(k, sharding.owner[k])) <= Min(distances(k, n))
            /\ \A k \in sharding.moved : sharding.owner[k] = sharding.nodes

=============================================================================
