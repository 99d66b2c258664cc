------------------------------- MODULE CapModel -------------------------------
(***************************************************************************)
(* The CAP/PACELC exhibit (web/lib/cap-model.ts, simulateCap): one value   *)
(* in two regions that a window of operations cuts apart.  Operations      *)
(* alternate between the regions and every third one is a write.  One step *)
(* is one operation.                                                       *)
(***************************************************************************)
EXTENDS Integers, Sequences, FiniteSetsExt

CONSTANT CapSettings    \* the configurations to simulate

ASSUME CapAssumption ==
    \A c \in CapSettings :
        /\ c.strategy \in {"quorum-consistency", "local-availability"}
        /\ {c.operationCount, c.lagOperations, c.partitionStart, c.partitionEnd} \subseteq Nat
        /\ c.partitionStart <= c.partitionEnd /\ c.partitionEnd <= c.operationCount

VARIABLE cap    \* config, the versions of the regions and the newest one, the pending
                \* replications, counters, and the operations so far

CapRegions == {"A", "B"}
Other(region) == IF region = "A" THEN "B" ELSE "A"

\* What the next operation is; operations are numbered from 0.
CapIndex == Len(cap.operations)
RegionOf(i) == IF i % 2 = 0 THEN "A" ELSE "B"
IsWrite(i) == i % 3 = 0

Partitioned(c, i) == c.partitionStart <= i /\ i < c.partitionEnd

-----------------------------------------------------------------------------

(* What happens before an operation. *)

\* Mutant of Reconciled: the regions keep what they have when the partition heals.
Reconciled_Counts(s, i) ==
    IF i = s.config.partitionEnd /\ s.config.strategy = "local-availability"
    THEN [s EXCEPT !.reconciliationWrites = s.partitionWrites]
    ELSE s

\* When the partition heals both regions converge to the newest version.
Reconciled(s, i) ==
    LET reconciledVersion == Max({s.version["A"], s.version["B"], s.newestVersion})
    IN  IF i = s.config.partitionEnd /\ s.config.strategy = "local-availability"
        THEN [s EXCEPT !.version = [r \in CapRegions |-> reconciledVersion],
                       !.newestVersion = reconciledVersion,
                       !.reconciliationWrites = s.partitionWrites]
        ELSE s

\* Replications that are due reach their region, except during the partition.
applyPending(s, i) ==
    LET due == {p \in s.pending : p.applyAtOperation <= i}
    IN  IF Partitioned(s.config, i) THEN s
        ELSE [s EXCEPT !.pending = @ \ due,
                       !.version = [r \in CapRegions |->
                           Max({@[r]} \cup {p.version : p \in {q \in due : q.target = r}})]]

-----------------------------------------------------------------------------

(* Operations: s is the state before, healed and up to date. *)

CapRecord(s, i, success, observedVersion, newestVersion, divergent) ==
    [region |-> RegionOf(i), write |-> IsWrite(i), partitioned |-> Partitioned(s.config, i),
     success |-> success, observedVersion |-> observedVersion, newestVersion |-> newestVersion,
     stale |-> success /\ observedVersion < newestVersion, divergent |-> divergent]

IsRejected(s, i) ==
    s.config.strategy = "quorum-consistency" /\ Partitioned(s.config, i) /\ RegionOf(i) = "B"

CapReject(s, i) ==
    /\ IsRejected(s, i)
    /\ cap' = [s EXCEPT !.operations = Append(@, CapRecord(s, i, FALSE, 0, s.newestVersion, FALSE))]

QuorumWrite(s, i) ==
    LET version == s.newestVersion + 1
    IN  /\ ~IsRejected(s, i) /\ IsWrite(i) /\ s.config.strategy = "quorum-consistency"
        /\ cap' = [s EXCEPT !.newestVersion = version,
                      !.version = IF Partitioned(s.config, i)
                                  THEN [@ EXCEPT !["A"] = version]
                                  ELSE [r \in CapRegions |-> version],
                      !.operations = Append(@, CapRecord(s, i, TRUE, version, version, FALSE))]

\* A local write replicates later, or, during the partition, diverges.
LocalWrite(s, i) ==
    LET version == s.newestVersion + 1
        region == RegionOf(i)
        divergent == Partitioned(s.config, i)
    IN  /\ IsWrite(i) /\ s.config.strategy = "local-availability"
        /\ cap' = [s EXCEPT !.newestVersion = version,
                      !.version[region] = version,
                      !.partitionWrites = IF divergent THEN @ + 1 ELSE @,
                      !.pending = IF divergent THEN @
                                  ELSE @ \cup {[applyAtOperation |-> i + s.config.lagOperations,
                                                target |-> Other(region), version |-> version]},
                      !.operations = Append(@, CapRecord(s, i, TRUE, version, version, divergent))]

CapRead(s, i) ==
    /\ ~IsRejected(s, i) /\ ~IsWrite(i)
    /\ cap' = [s EXCEPT !.operations =
                  Append(@, CapRecord(s, i, TRUE, s.version[RegionOf(i)], s.newestVersion, FALSE))]

-----------------------------------------------------------------------------

CapOf(c) ==
    [config |-> c, version |-> [r \in CapRegions |-> 0], newestVersion |-> 0, pending |-> {},
     partitionWrites |-> 0, reconciliationWrites |-> 0, operations |-> <<>>]

Operate ==
    LET s == applyPending(Reconciled(cap, CapIndex), CapIndex)
    IN  /\ CapIndex < cap.config.operationCount
        /\ \/ CapReject(s, CapIndex)
           \/ QuorumWrite(s, CapIndex)
           \/ LocalWrite(s, CapIndex)
           \/ CapRead(s, CapIndex)

CapSpec == cap \in {CapOf(c) : c \in CapSettings} /\ [][Operate]_cap

-----------------------------------------------------------------------------

\* The newest version written by operation number i or earlier (operations[1] is number 0).
WrittenBy(i) ==
    Max({0} \cup {cap.operations[k].observedVersion :
                      k \in {j \in DOMAIN cap.operations : j <= i + 1 /\ cap.operations[j].write
                                                            /\ cap.operations[j].success}})

\* Quorum strategy: the quorum side is always current and an isolated region answers nothing.
\* Outside the partition an answer is stale, against the contract (ObservesTheNewest), in region
\* B only, from the end of the partition to the next write, which nothing reconciles.
QuorumSideIsCurrent ==
    cap.config.strategy = "quorum-consistency" =>
        /\ cap.version["A"] = cap.newestVersion
        /\ \A k \in DOMAIN cap.operations :
               LET op == cap.operations[k]
               IN  /\ op.partitioned /\ op.region = "B" => ~op.success
                   /\ op.stale => /\ op.region = "B" /\ k > cap.config.partitionEnd
                                  /\ WrittenBy(k - 1) = WrittenBy(cap.config.partitionEnd - 1)

\* Local strategy: outside the partition an answer misses only versions written during
\* the last lagOperations operations; what was written during the partition reaches both
\* regions when it heals.
StalenessIsBounded ==
    cap.config.strategy = "local-availability" =>
        \A k \in DOMAIN cap.operations :
            LET op == cap.operations[k]
            IN  /\ op.success
                /\ ~op.partitioned =>
                       op.observedVersion >= WrittenBy((k - 1) - cap.config.lagOperations)
                /\ ~op.partitioned /\ k > cap.config.partitionEnd =>
                       op.observedVersion >= WrittenBy(cap.config.partitionEnd - 1)

\* Before, during and after a partition a read is stale only where the strategy explains it.
StalenessIsConfined == QuorumSideIsCurrent /\ StalenessIsBounded

\* Contract, Quorum / consistency (docs/contracts/deeper-systems.md:99): outside the partition
\* both regions observe the newest version.
ObservesTheNewest ==
    cap.config.strategy = "quorum-consistency" =>
        \A k \in DOMAIN cap.operations : ~cap.operations[k].partitioned => ~cap.operations[k].stale

=============================================================================
