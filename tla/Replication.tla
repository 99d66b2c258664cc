----------------------------- MODULE Replication -----------------------------
(***************************************************************************)
(* The replication simulator (web/lib/replication.ts): one versioned value *)
(* on a leader and its followers, one client that issues an operation only *)
(* after the previous one has completed.                                   *)
(*                                                                         *)
(* One step is one turn of the operation loop of simulateReplication, with *)
(* the deliveries that fall due before and during it.  Modelled time is a  *)
(* natural number of milliseconds.  Jitter is a choice of each delivery's  *)
(* delay from Delays; when an operation is issued, a choice of the gap     *)
(* after the previous completion.                                          *)
(***************************************************************************)
EXTENDS Integers, FiniteSets

CONSTANTS
    ReplicaCount,       \* the leader and its followers
    Delays,             \* outcomes of max(0, replicationDelayMs + jitter)
    Gaps,               \* how long after a completion the next operation starts
    WriteTimeoutMs, ReadTimeoutMs,
    Partitions,         \* windows that a follower's link may be partitioned in
    MaxOperations       \* bound: operationCount

ASSUME ReplicationAssumption ==
    /\ ReplicaCount \in Nat \ {0, 1}
    /\ Delays \subseteq Nat
    /\ Gaps \subseteq Nat
    /\ WriteTimeoutMs \in Nat
    /\ ReadTimeoutMs \in Nat
    /\ MaxOperations \in Nat

\* Replicas are numbered as in the code's array: the leader is 0.
Replicas == 0..(ReplicaCount - 1)
Followers == 1..(ReplicaCount - 1)

ASSUME PartitionAssumption ==
    Partitions \subseteq [replica : Followers, startMs : Nat, endMs : Nat]

VARIABLES
    guarantees,             \* replicationMode, readConsistency, partition
    leaderVersion,
    lastAcknowledgedWriteVersion,
    clientAvailableAtMs,
    eventualReadCursor, quorumReadCursor,
    replica,                \* the followers: applied, maxLag, pending deliveries
    operations,             \* how many operations have been simulated
    result                  \* the last operation's result

replicating == <<guarantees, leaderVersion, lastAcknowledgedWriteVersion, clientAvailableAtMs,
          eventualReadCursor, quorumReadCursor, replica, operations, result>>

\* Mutant of quorumSize: half of the nodes, instead of more than half.
quorumSize_Half == (ReplicaCount + 1) \div 2

quorumSize == ReplicaCount \div 2 + 1

-----------------------------------------------------------------------------

(* Deliveries. *)

\* The end of the partition window that holds back a delivery to f, if there is one.
partitionedUntil(f, atMs) ==
    {p.endMs : p \in {q \in guarantees.partition :
                          q.replica = f /\ q.startMs <= atMs /\ atMs < q.endMs}}

\* When a follower applies a version written at writeAtMs.
replicationApplyTime(f, writeAtMs, delayMs) ==
    IF partitionedUntil(f, writeAtMs) = {}
    THEN writeAtMs + delayMs
    ELSE (CHOOSE e \in partitionedUntil(f, writeAtMs) : TRUE) + delayMs

Newest(versions) == CHOOSE v \in versions : \A w \in versions : w <= v

\* applyPendingReplications for one follower.
applied(r, atMs) ==
    LET ready == {d \in r.pending : d.applyAtMs <= atMs}
    IN  [r EXCEPT !.applied = Newest({@} \cup {d.version : d \in ready}),
                  !.pending = @ \ ready]

\* recordLag for one follower.
lagRecorded(r, version) ==
    [r EXCEPT !.maxLag = Newest({@, version - r.applied})]

\* Both, for all followers.
Settled(rs, atMs, version) == [f \in Followers |-> lagRecorded(applied(rs[f], atMs), version)]

\* A version goes out to every follower, due at the times given.
Delivered(rs, version, applyAtMs) ==
    [f \in Followers |->
        [rs[f] EXCEPT !.pending = @ \cup {[version |-> version, applyAtMs |-> applyAtMs[f]]}]]

-----------------------------------------------------------------------------

(* Writes. *)

AppliedBy(t, applyAtMs) == {f \in Followers : applyAtMs[f] <= t}

\* The earliest time by which n followers have applied.
TimeOfNth(n, applyAtMs) ==
    LET reached == {t \in {applyAtMs[f] : f \in Followers} :
                        Cardinality(AppliedBy(t, applyAtMs)) >= n}
    IN  CHOOSE t \in reached : \A u \in reached : t <= u

acknowledgedAtMs(startedAtMs, applyAtMs) ==
    CASE guarantees.replicationMode = "asynchronous" -> startedAtMs
      [] guarantees.replicationMode = "quorum" -> TimeOfNth(quorumSize - 1, applyAtMs)
      [] guarantees.replicationMode = "synchronous" -> TimeOfNth(ReplicaCount - 1, applyAtMs)

\* Mutant of WriteSucceeds: what was acknowledged is not yet applied.
WriteSucceeds_Unsettled(startedAtMs, applyAtMs) ==
    LET completedAtMs == acknowledgedAtMs(startedAtMs, applyAtMs)
        version == leaderVersion + 1
        before == Settled(replica, startedAtMs, leaderVersion)
    IN  /\ completedAtMs <= startedAtMs + WriteTimeoutMs
        /\ leaderVersion' = version
        /\ lastAcknowledgedWriteVersion' = version
        /\ clientAvailableAtMs' = completedAtMs
        /\ replica' = Delivered(before, version, applyAtMs)
        /\ result' = [kind |-> "write", success |-> TRUE, version |-> version,
                      required |-> leaderVersion, waitMs |-> completedAtMs - startedAtMs]

\* Acknowledged in time, the write commits and its deliveries go out.
WriteSucceeds(startedAtMs, applyAtMs) ==
    LET completedAtMs == acknowledgedAtMs(startedAtMs, applyAtMs)
        version == leaderVersion + 1
        before == Settled(replica, startedAtMs, leaderVersion)
    IN  /\ completedAtMs <= startedAtMs + WriteTimeoutMs
        /\ leaderVersion' = version
        /\ lastAcknowledgedWriteVersion' = version
        /\ clientAvailableAtMs' = completedAtMs
        /\ replica' = Settled(Delivered(before, version, applyAtMs), completedAtMs, version)
        /\ result' = [kind |-> "write", success |-> TRUE, version |-> version,
                      required |-> leaderVersion, waitMs |-> completedAtMs - startedAtMs]

\* Mutant of WriteTimesOut: the deliveries of a failed write go out nevertheless.
WriteTimesOut_Delivers(startedAtMs, applyAtMs) ==
    /\ acknowledgedAtMs(startedAtMs, applyAtMs) > startedAtMs + WriteTimeoutMs
    /\ clientAvailableAtMs' = startedAtMs + WriteTimeoutMs
    /\ replica' = Delivered(Settled(replica, startedAtMs, leaderVersion),
                            leaderVersion + 1, applyAtMs)
    /\ result' = [kind |-> "write", success |-> FALSE, version |-> 0,
                  required |-> leaderVersion, waitMs |-> WriteTimeoutMs]
    /\ UNCHANGED <<leaderVersion, lastAcknowledgedWriteVersion>>

\* Otherwise the client waits until the deadline and nothing is committed anywhere.
WriteTimesOut(startedAtMs, applyAtMs) ==
    /\ acknowledgedAtMs(startedAtMs, applyAtMs) > startedAtMs + WriteTimeoutMs
    /\ clientAvailableAtMs' = startedAtMs + WriteTimeoutMs
    /\ replica' = Settled(replica, startedAtMs, leaderVersion)
    /\ result' = [kind |-> "write", success |-> FALSE, version |-> 0,
                  required |-> leaderVersion, waitMs |-> WriteTimeoutMs]
    /\ UNCHANGED <<leaderVersion, lastAcknowledgedWriteVersion>>

NextOperation ==
    /\ operations < MaxOperations
    /\ operations' = operations + 1
    /\ UNCHANGED guarantees

Write(gap, delayMs) ==
    LET startedAtMs == clientAvailableAtMs + gap
        applyAtMs == [f \in Followers |-> replicationApplyTime(f, startedAtMs, delayMs[f])]
    IN  /\ NextOperation
        /\ WriteSucceeds(startedAtMs, applyAtMs) \/ WriteTimesOut(startedAtMs, applyAtMs)
        /\ UNCHANGED <<eventualReadCursor, quorumReadCursor>>

-----------------------------------------------------------------------------

(* Reads. *)

\* A read that completes at completedAtMs with this version.
ReadResult(version, startedAtMs, completedAtMs) ==
    [kind |-> "read", success |-> TRUE, version |-> version,
     required |-> lastAcknowledgedWriteVersion, waitMs |-> completedAtMs - startedAtMs]

ReadCompletes(rs, version, startedAtMs, completedAtMs) ==
    /\ clientAvailableAtMs' = completedAtMs
    /\ replica' = Settled(rs, completedAtMs, leaderVersion)
    /\ result' = ReadResult(version, startedAtMs, completedAtMs)
    /\ UNCHANGED <<leaderVersion, lastAcknowledgedWriteVersion>>

LeaderRead(rs, startedAtMs) ==
    /\ guarantees.readConsistency = "leader"
    /\ ReadCompletes(rs, leaderVersion, startedAtMs, startedAtMs)
    /\ UNCHANGED <<eventualReadCursor, quorumReadCursor>>

\* The nodes a quorum read asks: a majority, starting at the cursor.
selectCircular(cursor) ==
    {(cursor + offset) % ReplicaCount : offset \in 0..(quorumSize - 1)}

VersionOn(rs, n) == IF n = 0 THEN leaderVersion ELSE rs[n].applied

QuorumRead(rs, startedAtMs) ==
    /\ guarantees.readConsistency = "quorum"
    /\ ReadCompletes(rs, Newest({VersionOn(rs, n) : n \in selectCircular(quorumReadCursor)}),
                     startedAtMs, startedAtMs)
    /\ quorumReadCursor' = (quorumReadCursor + 1) % ReplicaCount
    /\ UNCHANGED eventualReadCursor

selectedFollower == 1 + eventualReadCursor

\* Mutant of RotateFollower: the leader is counted.
RotateFollower_CountsLeader ==
    /\ eventualReadCursor' = (eventualReadCursor + 1) % ReplicaCount
    /\ UNCHANGED quorumReadCursor

RotateFollower ==
    /\ eventualReadCursor' = (eventualReadCursor + 1) % (ReplicaCount - 1)
    /\ UNCHANGED quorumReadCursor

\* Eventual reads take what the follower has; read-your-writes does if that is enough.
FollowerRead(rs, startedAtMs) ==
    /\ \/ guarantees.readConsistency = "eventual"
       \/ /\ guarantees.readConsistency = "read-your-writes"
          /\ rs[selectedFollower].applied >= lastAcknowledgedWriteVersion
    /\ ReadCompletes(rs, rs[selectedFollower].applied, startedAtMs, startedAtMs)
    /\ RotateFollower

Behind(rs) ==
    /\ guarantees.readConsistency = "read-your-writes"
    /\ rs[selectedFollower].applied < lastAcknowledgedWriteVersion

\* earliestVersionTime: the times at which the follower gets the version or a newer one.
CatchUpTimes(rs) ==
    {d.applyAtMs : d \in {e \in rs[selectedFollower].pending :
                              e.version >= lastAcknowledgedWriteVersion}}

\* Mutant of CaughtUpAt: the follower's next delivery is waited for, whatever it brings.
CaughtUpAt_NextDelivery(rs, atMs, startedAtMs) ==
    LET times == {d.applyAtMs : d \in rs[selectedFollower].pending}
    IN  /\ atMs \in times
        /\ \A t \in times : atMs <= t
        /\ atMs <= startedAtMs + ReadTimeoutMs

CaughtUpAt(rs, atMs, startedAtMs) ==
    /\ atMs \in CatchUpTimes(rs)
    /\ \A t \in CatchUpTimes(rs) : atMs <= t
    /\ atMs <= startedAtMs + ReadTimeoutMs

\* Read-your-writes waits for a follower that catches up in time.
WaitingRead(rs, startedAtMs) ==
    /\ Behind(rs)
    /\ \E atMs \in {d.applyAtMs : d \in rs[selectedFollower].pending} :
           /\ CaughtUpAt(rs, atMs, startedAtMs)
           /\ LET waited == [rs EXCEPT ![selectedFollower] = applied(@, atMs)]
              IN  ReadCompletes(waited, waited[selectedFollower].applied, startedAtMs, atMs)
    /\ RotateFollower

\* And falls back to the leader at once when it does not.
FallbackRead(rs, startedAtMs) ==
    /\ Behind(rs)
    /\ \A atMs \in CatchUpTimes(rs) : ~CaughtUpAt(rs, atMs, startedAtMs)
    /\ ReadCompletes(rs, leaderVersion, startedAtMs, startedAtMs)
    /\ RotateFollower

Read(gap) ==
    LET startedAtMs == clientAvailableAtMs + gap
        rs == Settled(replica, startedAtMs, leaderVersion)
    IN  /\ NextOperation
        /\ \/ LeaderRead(rs, startedAtMs) \/ QuorumRead(rs, startedAtMs)
           \/ FollowerRead(rs, startedAtMs)
           \/ WaitingRead(rs, startedAtMs) \/ FallbackRead(rs, startedAtMs)

-----------------------------------------------------------------------------

Modes == {"asynchronous", "quorum", "synchronous"}
Consistencies == {"eventual", "leader", "read-your-writes", "quorum"}

ReplicationInit ==
    /\ guarantees \in [replicationMode : Modes, readConsistency : Consistencies,
                   partition : {{}} \cup {{p} : p \in Partitions}]
    /\ leaderVersion = 0
    /\ lastAcknowledgedWriteVersion = 0
    /\ clientAvailableAtMs = 0
    /\ eventualReadCursor = 0
    /\ quorumReadCursor = 1
    /\ replica = [f \in Followers |-> [applied |-> 0, maxLag |-> 0, pending |-> {}]]
    /\ operations = 0
    /\ result = [kind |-> "none", success |-> TRUE, version |-> 0, required |-> 0, waitMs |-> 0]

ReplicationNext ==
    \E gap \in Gaps :
        \/ \E delayMs \in [Followers -> Delays] : Write(gap, delayMs)
        \/ Read(gap)

ReplicationSpec == ReplicationInit /\ [][ReplicationNext]_replicating

-----------------------------------------------------------------------------

Delivery == [version : Nat, applyAtMs : Nat]

Replica == [applied : Nat, maxLag : Nat, pending : SUBSET Delivery]

\* Type invariant of the simulator.
ReplicationTypeOK ==
    /\ guarantees.replicationMode \in Modes
    /\ guarantees.readConsistency \in Consistencies
    /\ guarantees.partition \subseteq Partitions
    /\ leaderVersion \in Nat
    /\ lastAcknowledgedWriteVersion \in Nat
    /\ clientAvailableAtMs \in Nat
    /\ eventualReadCursor \in 0..(ReplicaCount - 2)
    /\ quorumReadCursor \in Replicas
    /\ replica \in [Followers -> Replica]
    /\ operations \in 0..MaxOperations
    /\ result \in [kind : {"none", "read", "write"}, success : BOOLEAN,
                   version : Nat, required : Nat, waitMs : Nat]

UpToDate == {f \in Followers : replica[f].applied = leaderVersion}

\* No follower is ever ahead of the leader, and whatever it has not applied is on its
\* way to it: when deliveries stop being delayed, every follower converges.
NoUpdateIsLost ==
    \A f \in Followers :
        /\ replica[f].applied <= leaderVersion
        /\ \A d \in replica[f].pending : d.version <= leaderVersion
        /\ f \in UpToDate \/ \E d \in replica[f].pending : d.version = leaderVersion

\* An acknowledged write is where its mode says it is by the time the client goes on:
\* on a majority in quorum mode, everywhere in synchronous mode, through any
\* reordering of deliveries and any partition.
AcknowledgedIsReplicated ==
    /\ guarantees.replicationMode = "quorum" => Cardinality(UpToDate) + 1 >= quorumSize
    /\ guarantees.replicationMode = "synchronous" => UpToDate = Followers

\* Read and write quorums intersect: a majority read after majority (or full)
\* acknowledgement is never stale, whichever nodes it happens to ask.
QuorumReadsAreFresh ==
    guarantees.readConsistency = "quorum" /\ guarantees.replicationMode # "asynchronous" /\ result.kind = "read"
        => result.version = leaderVersion

\* A read-your-writes read returns at least the client's last acknowledged write, and
\* never keeps the client waiting longer than the read timeout.
ReadYourWrites ==
    guarantees.readConsistency = "read-your-writes" /\ result.kind = "read"
        => result.version >= result.required /\ result.waitMs <= ReadTimeoutMs

\* The configurations that promise fresh reads to the single client.
PromisesFreshReads ==
    \/ guarantees.readConsistency \in {"leader", "read-your-writes"}
    \/ guarantees.replicationMode = "synchronous"
    \/ guarantees.replicationMode = "quorum" /\ guarantees.readConsistency = "quorum"

\* To its client the replicated value is a versioned register: reads are fresh in the
\* configurations that promise it, and nothing uncommitted is ever returned.
Register == INSTANCE VersionedRegister WITH
                fresh <- PromisesFreshReads,
                committed <- leaderVersion,
                returned <- IF result.kind = "read" THEN result.version ELSE -1

ImplementsRegister == Register!Spec

=============================================================================
