-------------------------- MODULE ReplicationProofs --------------------------
(***************************************************************************)
(* The replication simulator's invariants and its refinement of the        *)
(* versioned register, for every number of replicas, every set of delays,  *)
(* gaps and partitions and both timeouts.  IInv, the inductive invariant,  *)
(* adds to the invariants the runs check that the committed version is the *)
(* acknowledged one.                                                       *)
(***************************************************************************)
EXTENDS Replication, FiniteSetTheorems, TLAPS

\* What every state satisfies.
IInv ==
    /\ ReplicationTypeOK
    /\ NoUpdateIsLost
    /\ AcknowledgedIsReplicated
    /\ lastAcknowledgedWriteVersion = leaderVersion

-----------------------------------------------------------------------------

(* Facts about numbers. *)

\* A finite set of numbers that is not empty has a greatest and a least element:
\* a smallest subset without one would be left with one by taking any element away.
LEMMA FiniteSetExtremes ==
    ASSUME NEW S \in SUBSET Int, IsFiniteSet(S), S # {}
    PROVE  /\ \E m \in S : \A x \in S : x <= m
           /\ \E m \in S : \A x \in S : m <= x
<1> DEFINE Greatest(T) == \E m \in T : \A x \in T : x <= m
           Least(T) == \E m \in T : \A x \in T : m <= x
           Bad == {T \in FiniteSubsetsOf(S) : T # {} /\ ~(Greatest(T) /\ Least(T))}
<1>1. SUFFICES ASSUME Bad # {} PROVE FALSE
  BY DEF FiniteSubsetsOf
<1>2. PICK T \in Bad : \A U \in Bad : ~(<<U, T>> \in StrictSubsetOrdering(S))
  <2> HIDE DEF Bad
  <2>1. Bad \subseteq FiniteSubsetsOf(S)
    BY DEF Bad
  <2>2. QED
    BY <1>1, <2>1, FS_StrictSubsetOrderingWellFounded, WFMin
<1>3. T \in SUBSET S /\ IsFiniteSet(T) /\ T # {} /\ ~(Greatest(T) /\ Least(T))
  BY <1>2 DEF FiniteSubsetsOf
<1>4. PICK y \in T : TRUE
  BY <1>3
<1> DEFINE U == T \ {y}
<1>5. y \in Int /\ U \in SUBSET S /\ U \in SUBSET Int /\ IsFiniteSet(U)
  BY <1>3, <1>4, FS_RemoveElement
<1>6. CASE U = {}
  <2>1. \A x \in T : x = y
    BY <1>6
  <2>2. QED
    BY <1>3, <1>4, <1>5, <2>1
<1>7. CASE U # {}
  <2>1. <<U, T>> \in StrictSubsetOrdering(S)
    BY <1>3, <1>4, <1>5 DEF StrictSubsetOrdering
  <2>2. Greatest(U) /\ Least(U)
    BY <1>2, <1>5, <1>7, <2>1 DEF FiniteSubsetsOf
  <2>3. PICK m \in U : \A x \in U : x <= m
    BY <2>2
  <2>4. PICK n \in U : \A x \in U : n <= x
    BY <2>2
  <2>5. m \in Int /\ n \in Int /\ m \in T /\ n \in T /\ \A x \in T : x \in U \/ x = y
    BY <1>5
  <2>6. Greatest(T)
    <3>1. CASE m <= y
      BY <1>3, <1>4, <1>5, <2>3, <2>5, <3>1
    <3>2. CASE y <= m
      BY <1>3, <1>4, <1>5, <2>3, <2>5, <3>2
    <3>3. QED
      BY <1>5, <2>5, <3>1, <3>2
  <2>7. Least(T)
    <3>1. CASE n <= y
      BY <1>3, <1>4, <1>5, <2>4, <2>5, <3>1
    <3>2. CASE y <= n
      BY <1>3, <1>4, <1>5, <2>4, <2>5, <3>2
    <3>3. QED
      BY <1>5, <2>5, <3>1, <3>2
  <2>8. QED
    BY <1>3, <2>6, <2>7
<1>8. QED
  BY <1>6, <1>7

\* The newest of some versions is one of them and no version is newer.
LEMMA NewestOf ==
    ASSUME NEW V \in SUBSET Nat, V # {}, NEW bound \in Nat, \A v \in V : v <= bound
    PROVE  /\ Newest(V) \in V
           /\ Newest(V) <= bound
           /\ \A w \in V : w <= Newest(V)
<1>1. IsFiniteSet(V)
  BY FS_BoundedSetOfNaturals
<1>2. \E v \in V : \A w \in V : w <= v
  BY <1>1, FiniteSetExtremes
<1>3. QED
  BY <1>2 DEF Newest

\* A remainder is smaller than what it divides by.
LEMMA RemainderRange ==
    ASSUME NEW n \in Nat \ {0}, NEW k \in Int
    PROVE  k % n \in 0..(n - 1)
OBVIOUS

\* A majority of the nodes: more than half of them, and no more than there are.
LEMMA QuorumSizes ==
    /\ quorumSize \in Nat
    /\ 1 <= quorumSize
    /\ quorumSize <= ReplicaCount
    /\ quorumSize + quorumSize > ReplicaCount
BY ReplicationAssumption DEF quorumSize

\* There is one follower less than there are replicas.
LEMMA CountFollowers ==
    /\ IsFiniteSet(Followers)
    /\ Cardinality(Followers) = ReplicaCount - 1
BY ReplicationAssumption, FS_Interval DEF Followers

-----------------------------------------------------------------------------

(* Facts about deliveries. *)

\* What NoUpdateIsLost says of the followers rs when the leader is at version.
Converging(rs, version) ==
    \A f \in Followers :
        /\ rs[f].applied <= version
        /\ \A d \in rs[f].pending : d.version <= version
        /\ rs[f].applied = version \/ \E d \in rs[f].pending : d.version = version

\* The followers that are where the leader is.
Holding(rs, version) == {f \in Followers : rs[f].applied = version}

\* A follower takes exactly the deliveries that are due, never goes back, and never
\* passes what it was sent.
LEMMA AppliedEffect ==
    ASSUME NEW r \in Replica, NEW atMs \in Nat, NEW bound \in Nat,
           r.applied <= bound, \A d \in r.pending : d.version <= bound
    PROVE  /\ applied(r, atMs) \in Replica
           /\ r.applied <= applied(r, atMs).applied
           /\ applied(r, atMs).applied <= bound
           /\ \A d \in r.pending : d.applyAtMs <= atMs => d.version <= applied(r, atMs).applied
           /\ applied(r, atMs).pending = {d \in r.pending : ~(d.applyAtMs <= atMs)}
<1> DEFINE ready == {d \in r.pending : d.applyAtMs <= atMs}
           V == {r.applied} \cup {d.version : d \in ready}
<1>1. r.applied \in Nat /\ r.maxLag \in Nat /\ r.pending \subseteq Delivery
  BY DEF Replica
<1>2. V \in SUBSET Nat /\ V # {} /\ r.applied \in V /\ \A v \in V : v <= bound
  BY <1>1 DEF Delivery
<1>3. \A d \in ready : d.version \in V
  OBVIOUS
<1>4. applied(r, atMs) = [r EXCEPT !.applied = Newest(V), !.pending = r.pending \ ready]
  BY DEF applied
<1> HIDE DEF V
<1>5. Newest(V) \in Nat /\ Newest(V) <= bound /\ \A w \in V : w <= Newest(V)
  BY <1>2, NewestOf
<1>6. /\ applied(r, atMs).applied = Newest(V)
      /\ applied(r, atMs).pending = r.pending \ ready
      /\ applied(r, atMs) \in Replica
  BY <1>1, <1>4, <1>5 DEF Replica
<1>7. QED
  BY <1>2, <1>3, <1>5, <1>6

\* Recording the lag changes nothing else.
LEMMA LagRecordedEffect ==
    ASSUME NEW r \in Replica, NEW version \in Nat, r.applied <= version
    PROVE  /\ lagRecorded(r, version) \in Replica
           /\ lagRecorded(r, version).applied = r.applied
           /\ lagRecorded(r, version).pending = r.pending
<1> DEFINE lag == version - r.applied
           V == {r.maxLag, lag}
<1>1. r.applied \in Nat /\ r.maxLag \in Nat /\ lag \in Nat
  BY DEF Replica
<1>2. V \in SUBSET Nat /\ V # {} /\ \A v \in V : v <= r.maxLag + lag
  BY <1>1
<1>3. r.maxLag + lag \in Nat
  BY <1>1
<1>4. lagRecorded(r, version) = [r EXCEPT !.maxLag = Newest(V)]
  BY DEF lagRecorded
<1> HIDE DEF V
<1>5. Newest(V) \in Nat
  BY <1>2, <1>3, NewestOf
<1>6. QED
  BY <1>4, <1>5 DEF Replica

\* Settling the followers keeps them converging, and takes every one of them at least
\* as far as what it was sent for that time.
LEMMA SettledEffect ==
    ASSUME NEW rs \in [Followers -> Replica], NEW atMs \in Nat, NEW version \in Nat,
           Converging(rs, version)
    PROVE  /\ Settled(rs, atMs, version) \in [Followers -> Replica]
           /\ Converging(Settled(rs, atMs, version), version)
           /\ Holding(rs, version) \subseteq Holding(Settled(rs, atMs, version), version)
           /\ \A f \in Followers :
                 /\ rs[f].applied <= Settled(rs, atMs, version)[f].applied
                 /\ \A d \in rs[f].pending :
                       d.applyAtMs <= atMs => d.version <= Settled(rs, atMs, version)[f].applied
                 /\ Settled(rs, atMs, version)[f].pending =
                       {d \in rs[f].pending : ~(d.applyAtMs <= atMs)}
<1> DEFINE after == Settled(rs, atMs, version)
<1>1. ASSUME NEW f \in Followers
      PROVE  /\ after[f] \in Replica
             /\ rs[f].applied <= after[f].applied
             /\ after[f].applied <= version
             /\ \A d \in rs[f].pending : d.applyAtMs <= atMs => d.version <= after[f].applied
             /\ after[f].pending = {d \in rs[f].pending : ~(d.applyAtMs <= atMs)}
  <2> DEFINE r == rs[f]
             s == applied(r, atMs)
  <2>1. r \in Replica /\ r.applied <= version /\ \A d \in r.pending : d.version <= version
    BY DEF Converging
  <2>2. /\ s \in Replica
        /\ r.applied <= s.applied
        /\ s.applied <= version
        /\ \A d \in r.pending : d.applyAtMs <= atMs => d.version <= s.applied
        /\ s.pending = {d \in r.pending : ~(d.applyAtMs <= atMs)}
    <3> HIDE DEF r
    <3>1. QED
      BY <2>1, AppliedEffect
  <2>3. after[f] = lagRecorded(s, version)
    BY DEF Settled
  <2> HIDE DEF s, after
  <2>4. lagRecorded(s, version) \in Replica /\ lagRecorded(s, version).applied = s.applied
        /\ lagRecorded(s, version).pending = s.pending
    BY <2>2, LagRecordedEffect
  <2>5. QED
    BY <2>2, <2>3, <2>4
<1>2. after \in [Followers -> Replica]
  <2>1. after = [f \in Followers |-> lagRecorded(applied(rs[f], atMs), version)]
    BY DEF Settled
  <2> HIDE DEF after
  <2>2. QED
    BY <1>1, <2>1
<1> HIDE DEF after
<1>3. ASSUME NEW f \in Followers
      PROVE  /\ after[f].applied <= version
             /\ \A d \in after[f].pending : d.version <= version
             /\ rs[f].applied = version => after[f].applied = version
             /\ after[f].applied = version \/ \E d \in after[f].pending : d.version = version
  <2>1. /\ rs[f] \in Replica /\ after[f] \in Replica
        /\ \A d \in rs[f].pending : d.version <= version
        /\ rs[f].applied = version \/ \E d \in rs[f].pending : d.version = version
    BY <1>1 DEF Converging
  <2>2. rs[f].applied \in Nat /\ after[f].applied \in Nat
    BY <2>1 DEF Replica
  <2>3. CASE rs[f].applied = version
    BY <1>1, <2>1, <2>2, <2>3
  <2>4. ASSUME NEW d \in rs[f].pending, d.version = version
        PROVE  after[f].applied = version \/ d \in after[f].pending
    BY <1>1, <2>2, <2>4
  <2>5. rs[f].applied = version => after[f].applied = version
    BY <1>1, <2>2
  <2>6. QED
    BY <1>1, <2>1, <2>3, <2>4, <2>5
<1>4. Converging(after, version)
  BY <1>3 DEF Converging
<1>5. Holding(rs, version) \subseteq Holding(after, version)
  BY <1>3 DEF Holding
<1>6. QED
  BY <1>1, <1>2, <1>4, <1>5 DEF after

\* Sending the next version to every follower keeps them converging, now on that one.
LEMMA DeliveredEffect ==
    ASSUME NEW rs \in [Followers -> Replica], NEW version \in Nat, Converging(rs, version),
           NEW applyAtMs \in [Followers -> Nat]
    PROVE  /\ Delivered(rs, version + 1, applyAtMs) \in [Followers -> Replica]
           /\ Converging(Delivered(rs, version + 1, applyAtMs), version + 1)
           /\ \A f \in Followers :
                 [version |-> version + 1, applyAtMs |-> applyAtMs[f]]
                     \in Delivered(rs, version + 1, applyAtMs)[f].pending
<1> DEFINE sent(f) == [version |-> version + 1, applyAtMs |-> applyAtMs[f]]
           after == Delivered(rs, version + 1, applyAtMs)
<1>1. after = [f \in Followers |-> [rs[f] EXCEPT !.pending = rs[f].pending \cup {sent(f)}]]
  BY DEF Delivered
<1> HIDE DEF after
<1>2. ASSUME NEW f \in Followers
      PROVE  /\ after[f] \in Replica
             /\ after[f].applied = rs[f].applied
             /\ after[f].pending = rs[f].pending \cup {sent(f)}
  <2>1. sent(f) \in Delivery
    BY DEF Delivery
  <2>2. rs[f] \in Replica
    OBVIOUS
  <2> HIDE DEF sent
  <2>3. QED
    BY <1>1, <2>1, <2>2 DEF Replica
<1>3. ASSUME NEW f \in Followers
      PROVE  /\ after[f].applied <= version + 1
             /\ \A d \in after[f].pending : d.version <= version + 1
             /\ \E d \in after[f].pending : d.version = version + 1
  <2>1. rs[f].applied \in Nat /\ \A d \in rs[f].pending : d.version \in Nat
    BY DEF Replica, Delivery
  <2>2. rs[f].applied <= version /\ \A d \in rs[f].pending : d.version <= version
    BY DEF Converging
  <2>3. sent(f).version = version + 1
    OBVIOUS
  <2> HIDE DEF sent
  <2>4. QED
    BY <1>2, <2>1, <2>2, <2>3
<1>4. Converging(after, version + 1)
  BY <1>3 DEF Converging
<1>5. after \in [Followers -> Replica]
  BY <1>1, <1>2
<1>6. QED
  BY <1>2, <1>4, <1>5 DEF after

-----------------------------------------------------------------------------

(* Facts about times. *)

\* A partition delays a delivery, it never lets one arrive before it was sent.
LEMMA ApplyTimeBounds ==
    ASSUME guarantees.partition \subseteq Partitions,
           NEW f \in Followers, NEW atMs \in Nat, NEW delayMs \in Delays
    PROVE  /\ replicationApplyTime(f, atMs, delayMs) \in Nat
           /\ atMs <= replicationApplyTime(f, atMs, delayMs)
<1>1. delayMs \in Nat
  BY ReplicationAssumption
<1>2. \A e \in partitionedUntil(f, atMs) : e \in Nat /\ atMs < e
  BY PartitionAssumption DEF partitionedUntil
<1>3. CASE partitionedUntil(f, atMs) = {}
  BY <1>1, <1>3 DEF replicationApplyTime
<1>4. CASE partitionedUntil(f, atMs) # {}
  <2> DEFINE end == CHOOSE e \in partitionedUntil(f, atMs) : TRUE
  <2>1. end \in partitionedUntil(f, atMs)
    BY <1>4
  <2>2. replicationApplyTime(f, atMs, delayMs) = end + delayMs
    BY <1>4 DEF replicationApplyTime
  <2> HIDE DEF end
  <2>3. QED
    BY <1>1, <1>2, <2>1, <2>2
<1>5. QED
  BY <1>3, <1>4

\* The earliest time by which n followers have applied exists, is when one of them
\* does, and by then n of them have.
LEMMA TimeOfNthEffect ==
    ASSUME NEW applyAtMs \in [Followers -> Nat], NEW n \in Nat, n <= ReplicaCount - 1
    PROVE  /\ \E f \in Followers : TimeOfNth(n, applyAtMs) = applyAtMs[f]
           /\ Cardinality(AppliedBy(TimeOfNth(n, applyAtMs), applyAtMs)) >= n
<1> DEFINE times == {applyAtMs[f] : f \in Followers}
           reached == {t \in times : Cardinality(AppliedBy(t, applyAtMs)) >= n}
<1>1. times \in SUBSET Int /\ times # {}
  <2>1. 1 \in Followers
    BY ReplicationAssumption DEF Followers
  <2>2. QED
    BY <2>1
<1>2. IsFiniteSet(times)
  <2>1. applyAtMs \in Surjection(Followers, times)
    BY DEF Surjection
  <2>2. QED
    BY <2>1, CountFollowers, FS_Surjection
<1>3. PICK last \in times : \A t \in times : t <= last
  <2> HIDE DEF times
  <2>1. QED
    BY <1>1, <1>2, FiniteSetExtremes
<1>4. AppliedBy(last, applyAtMs) = Followers
  BY <1>3 DEF AppliedBy
<1>5. last \in reached
  BY <1>3, <1>4, CountFollowers, ReplicationAssumption
<1>6. reached \in SUBSET Int /\ IsFiniteSet(reached) /\ reached # {}
  <2> HIDE DEF times
  <2>1. reached \in SUBSET times
    OBVIOUS
  <2>2. QED
    BY <1>1, <1>2, <1>5, <2>1, FS_Subset
<1>7. \E t \in reached : \A u \in reached : t <= u
  <2> HIDE DEF reached
  <2>1. QED
    BY <1>6, FiniteSetExtremes
<1>8. TimeOfNth(n, applyAtMs) = CHOOSE t \in reached : \A u \in reached : t <= u
  BY DEF TimeOfNth
<1>9. TimeOfNth(n, applyAtMs) \in reached
  <2> HIDE DEF reached
  <2>1. QED
    BY <1>7, <1>8
<1>10. QED
  BY <1>9

\* A write is never acknowledged before it started, and its acknowledgement means what
\* the mode says: a majority has it by then, or every node.
LEMMA AcknowledgementMeans ==
    ASSUME guarantees.replicationMode \in Modes, NEW startedAtMs \in Nat,
           NEW applyAtMs \in [Followers -> Nat], \A f \in Followers : startedAtMs <= applyAtMs[f]
    PROVE  LET atMs == acknowledgedAtMs(startedAtMs, applyAtMs)
           IN  /\ atMs \in Nat
               /\ startedAtMs <= atMs
               /\ guarantees.replicationMode = "quorum"
                     => Cardinality(AppliedBy(atMs, applyAtMs)) >= quorumSize - 1
               /\ guarantees.replicationMode = "synchronous"
                     => AppliedBy(atMs, applyAtMs) = Followers
<1> DEFINE atMs == acknowledgedAtMs(startedAtMs, applyAtMs)
<1>1. CASE guarantees.replicationMode = "asynchronous"
  BY <1>1 DEF acknowledgedAtMs
<1>2. CASE guarantees.replicationMode = "quorum"
  <2>1. atMs = TimeOfNth(quorumSize - 1, applyAtMs)
    BY <1>2 DEF acknowledgedAtMs
  <2>2. quorumSize - 1 \in Nat /\ quorumSize - 1 <= ReplicaCount - 1
    BY QuorumSizes, ReplicationAssumption
  <2> HIDE DEF atMs
  <2>3. /\ \E f \in Followers : atMs = applyAtMs[f]
        /\ Cardinality(AppliedBy(atMs, applyAtMs)) >= quorumSize - 1
    BY <2>1, <2>2, TimeOfNthEffect
  <2>4. QED
    BY <1>2, <2>3 DEF atMs
<1>3. CASE guarantees.replicationMode = "synchronous"
  <2>1. atMs = TimeOfNth(ReplicaCount - 1, applyAtMs)
    BY <1>3 DEF acknowledgedAtMs
  <2>2. ReplicaCount - 1 \in Nat
    BY ReplicationAssumption
  <2> HIDE DEF atMs
  <2>3. /\ \E f \in Followers : atMs = applyAtMs[f]
        /\ Cardinality(AppliedBy(atMs, applyAtMs)) >= ReplicaCount - 1
    BY <2>1, <2>2, TimeOfNthEffect
  <2>4. AppliedBy(atMs, applyAtMs) \in SUBSET Followers
    BY DEF AppliedBy
  <2>5. Cardinality(AppliedBy(atMs, applyAtMs)) = Cardinality(Followers)
    <3>1. /\ Cardinality(AppliedBy(atMs, applyAtMs)) <= Cardinality(Followers)
          /\ IsFiniteSet(AppliedBy(atMs, applyAtMs))
      BY <2>4, CountFollowers, FS_Subset
    <3>2. Cardinality(AppliedBy(atMs, applyAtMs)) \in Nat
      BY <3>1, FS_CardinalityType
    <3>3. QED
      BY <2>3, <3>1, <3>2, CountFollowers, ReplicationAssumption
  <2>6. AppliedBy(atMs, applyAtMs) = Followers
    BY <2>4, <2>5, CountFollowers, FS_Subset
  <2>7. QED
    BY <1>3, <2>3, <2>6 DEF atMs
<1>4. QED
  BY <1>1, <1>2, <1>3 DEF Modes

-----------------------------------------------------------------------------

(* The operations. *)

\* What a write that starts at startedAtMs does to the followers, when it succeeds.
LEMMA WriteSucceedsEffect ==
    ASSUME IInv, NEW startedAtMs \in Nat, NEW applyAtMs \in [Followers -> Nat],
           \A f \in Followers : startedAtMs <= applyAtMs[f],
           WriteSucceeds(startedAtMs, applyAtMs)
    PROVE  /\ replica' \in [Followers -> Replica]
           /\ Converging(replica', leaderVersion + 1)
           /\ guarantees.replicationMode = "quorum"
                 => Cardinality(Holding(replica', leaderVersion + 1)) >= quorumSize - 1
           /\ guarantees.replicationMode = "synchronous"
                 => Holding(replica', leaderVersion + 1) = Followers
<1> DEFINE atMs == acknowledgedAtMs(startedAtMs, applyAtMs)
           version == leaderVersion + 1
           before == Settled(replica, startedAtMs, leaderVersion)
           sent == Delivered(before, version, applyAtMs)
           after == Settled(sent, atMs, version)
<1>1. /\ replica \in [Followers -> Replica] /\ leaderVersion \in Nat /\ version \in Nat
      /\ guarantees.replicationMode \in Modes
      /\ Converging(replica, leaderVersion)
  BY DEF IInv, ReplicationTypeOK, NoUpdateIsLost, UpToDate, Converging
<1>2. replica' = after
  BY DEF WriteSucceeds
<1>3. /\ atMs \in Nat
      /\ guarantees.replicationMode = "quorum"
            => Cardinality(AppliedBy(atMs, applyAtMs)) >= quorumSize - 1
      /\ guarantees.replicationMode = "synchronous" => AppliedBy(atMs, applyAtMs) = Followers
  BY <1>1, AcknowledgementMeans
<1>4. before \in [Followers -> Replica] /\ Converging(before, leaderVersion)
  BY <1>1, SettledEffect
<1> HIDE DEF before, atMs
<1>5. /\ sent \in [Followers -> Replica]
      /\ Converging(sent, version)
      /\ \A f \in Followers :
            [version |-> version, applyAtMs |-> applyAtMs[f]] \in sent[f].pending
  BY <1>1, <1>4, DeliveredEffect
<1> HIDE DEF sent
<1>6. /\ after \in [Followers -> Replica]
      /\ Converging(after, version)
      /\ \A f \in Followers : \A d \in sent[f].pending :
            d.applyAtMs <= atMs => d.version <= after[f].applied
  BY <1>1, <1>3, <1>5, SettledEffect
<1> HIDE DEF after
<1>7. AppliedBy(atMs, applyAtMs) \subseteq Holding(after, version)
  <2> SUFFICES ASSUME NEW f \in Followers, applyAtMs[f] <= atMs
               PROVE  after[f].applied = version
    BY DEF AppliedBy, Holding
  <2>1. version <= after[f].applied
    <3> DEFINE d == [version |-> version, applyAtMs |-> applyAtMs[f]]
    <3>1. d \in sent[f].pending /\ d.applyAtMs <= atMs /\ d.version = version
      BY <1>5
    <3> HIDE DEF d
    <3>2. QED
      BY <1>6, <3>1
  <2>2. after[f].applied <= version /\ after[f].applied \in Nat
    BY <1>6 DEF Converging, Replica
  <2>3. QED
    BY <1>1, <2>1, <2>2
<1>8. Holding(after, version) \in SUBSET Followers
  BY DEF Holding
<1>9. IsFiniteSet(Holding(after, version))
  BY <1>8, CountFollowers, FS_Subset
<1>10. Cardinality(AppliedBy(atMs, applyAtMs)) <= Cardinality(Holding(after, version))
  BY <1>7, <1>9, FS_Subset
<1>11. /\ Cardinality(AppliedBy(atMs, applyAtMs)) \in Nat
       /\ Cardinality(Holding(after, version)) \in Nat
  BY <1>7, <1>9, FS_Subset, FS_CardinalityType
<1>12. guarantees.replicationMode = "quorum"
          => Cardinality(Holding(after, version)) >= quorumSize - 1
  BY <1>3, <1>10, <1>11, QuorumSizes
<1>13. guarantees.replicationMode = "synchronous" => Holding(after, version) = Followers
  BY <1>3, <1>7, <1>8
<1>14. QED
  BY <1>2, <1>6, <1>12, <1>13

\* While the leader stays where it is, followers that are no further from it than they
\* were keep both promises about replication.
LEMMA PromisesKept ==
    ASSUME IInv, UNCHANGED <<guarantees, leaderVersion>>,
           replica' \in [Followers -> Replica], Converging(replica', leaderVersion),
           Holding(replica, leaderVersion) \subseteq Holding(replica', leaderVersion)
    PROVE  NoUpdateIsLost' /\ AcknowledgedIsReplicated'
<1>1. NoUpdateIsLost'
  BY DEF NoUpdateIsLost, UpToDate, Converging
<1>2. UpToDate = Holding(replica, leaderVersion) /\ UpToDate' = Holding(replica', leaderVersion)
  BY DEF UpToDate, Holding
<1>3. UpToDate \subseteq UpToDate' /\ UpToDate' \in SUBSET Followers
  BY <1>2 DEF Holding
<1>4. IsFiniteSet(UpToDate') /\ IsFiniteSet(UpToDate)
      /\ Cardinality(UpToDate) <= Cardinality(UpToDate')
  BY <1>3, CountFollowers, FS_Subset
<1>5. Cardinality(UpToDate) \in Nat /\ Cardinality(UpToDate') \in Nat
  BY <1>4, FS_CardinalityType
<1>6. /\ guarantees.replicationMode = "quorum" => Cardinality(UpToDate) + 1 >= quorumSize
      /\ guarantees.replicationMode = "synchronous" => UpToDate = Followers
  BY DEF IInv, AcknowledgedIsReplicated
<1>7. /\ guarantees'.replicationMode = "quorum" => Cardinality(UpToDate') + 1 >= quorumSize'
      /\ guarantees'.replicationMode = "synchronous" => UpToDate' = Followers'
  <2>1. guarantees' = guarantees /\ quorumSize' = quorumSize /\ Followers' = Followers
    BY DEF quorumSize, Followers
  <2>2. guarantees.replicationMode = "quorum" => Cardinality(UpToDate') + 1 >= quorumSize
    BY <1>4, <1>5, <1>6, QuorumSizes
  <2>3. guarantees.replicationMode = "synchronous" => UpToDate' = Followers
    BY <1>3, <1>6
  <2>4. QED
    BY <2>1, <2>2, <2>3
<1>8. QED
  BY <1>1, <1>7 DEF AcknowledgedIsReplicated

\* A write, whether it succeeds or times out, preserves the invariant and advances the
\* committed version by at most one.
LEMMA WriteStep ==
    ASSUME IInv, NEW gap \in Gaps, NEW delayMs \in [Followers -> Delays], Write(gap, delayMs)
    PROVE  /\ IInv'
           /\ leaderVersion' \in {leaderVersion, leaderVersion + 1}
           /\ result'.kind = "write"
           /\ UNCHANGED guarantees
<1> DEFINE startedAtMs == clientAvailableAtMs + gap
           applyAtMs == [f \in Followers |-> replicationApplyTime(f, startedAtMs, delayMs[f])]
           atMs == acknowledgedAtMs(startedAtMs, applyAtMs)
<1>1. /\ NextOperation
      /\ WriteSucceeds(startedAtMs, applyAtMs) \/ WriteTimesOut(startedAtMs, applyAtMs)
      /\ UNCHANGED <<eventualReadCursor, quorumReadCursor>>
  BY DEF Write
<1>2. /\ guarantees.replicationMode \in Modes /\ guarantees.readConsistency \in Consistencies
      /\ guarantees.partition \subseteq Partitions
      /\ leaderVersion \in Nat /\ lastAcknowledgedWriteVersion = leaderVersion
      /\ clientAvailableAtMs \in Nat
      /\ replica \in [Followers -> Replica]
      /\ Converging(replica, leaderVersion)
      /\ eventualReadCursor \in 0..(ReplicaCount - 2) /\ quorumReadCursor \in Replicas
      /\ operations \in 0..MaxOperations
  BY DEF IInv, ReplicationTypeOK, NoUpdateIsLost, UpToDate, Converging
<1>3. startedAtMs \in Nat
  BY <1>2, ReplicationAssumption
<1>4. /\ UNCHANGED guarantees
      /\ operations' \in 0..MaxOperations
  BY <1>1, <1>2, ReplicationAssumption DEF NextOperation
<1>5. \A f \in Followers : replicationApplyTime(f, startedAtMs, delayMs[f]) \in Nat
                           /\ startedAtMs <= replicationApplyTime(f, startedAtMs, delayMs[f])
  <2> HIDE DEF startedAtMs
  <2>1. QED
    BY <1>2, <1>3, ApplyTimeBounds
<1>6. applyAtMs \in [Followers -> Nat] /\ \A f \in Followers : startedAtMs <= applyAtMs[f]
  BY <1>5
<1> HIDE DEF startedAtMs, applyAtMs
<1>7. atMs \in Nat /\ startedAtMs <= atMs
  BY <1>2, <1>3, <1>6, AcknowledgementMeans
<1>8. CASE WriteSucceeds(startedAtMs, applyAtMs)
  <2>1. /\ leaderVersion' = leaderVersion + 1
        /\ lastAcknowledgedWriteVersion' = leaderVersion + 1
        /\ clientAvailableAtMs' = atMs
        /\ result' = [kind |-> "write", success |-> TRUE, version |-> leaderVersion + 1,
                      required |-> leaderVersion, waitMs |-> atMs - startedAtMs]
    BY <1>8 DEF WriteSucceeds
  <2>2. /\ replica' \in [Followers -> Replica]
        /\ Converging(replica', leaderVersion')
        /\ guarantees.replicationMode = "quorum"
              => Cardinality(Holding(replica', leaderVersion')) >= quorumSize - 1
        /\ guarantees.replicationMode = "synchronous"
              => Holding(replica', leaderVersion') = Followers
    BY <1>3, <1>6, <1>8, <2>1, WriteSucceedsEffect
  <2>3. leaderVersion + 1 \in Nat /\ atMs - startedAtMs \in Nat
    BY <1>2, <1>3, <1>7
  <2> HIDE DEF atMs
  <2>4. ReplicationTypeOK'
    BY <1>1, <1>2, <1>4, <1>7, <2>1, <2>2, <2>3 DEF ReplicationTypeOK
  <2>5. NoUpdateIsLost'
    BY <2>2 DEF NoUpdateIsLost, UpToDate, Converging
  <2>6. UpToDate' = Holding(replica', leaderVersion')
    BY DEF UpToDate, Holding
  <2>7. Cardinality(UpToDate') \in Nat
    BY <2>6, CountFollowers, FS_Subset, FS_CardinalityType DEF Holding
  <2>8. guarantees.replicationMode = "quorum" => Cardinality(UpToDate') + 1 >= quorumSize
    BY <2>2, <2>6, <2>7, QuorumSizes
  <2>9. AcknowledgedIsReplicated'
    BY <1>4, <2>2, <2>6, <2>8 DEF AcknowledgedIsReplicated, quorumSize, Followers
  <2>10. QED
    BY <1>4, <2>1, <2>4, <2>5, <2>9 DEF IInv
<1>9. CASE WriteTimesOut(startedAtMs, applyAtMs)
  <2>1. /\ UNCHANGED <<leaderVersion, lastAcknowledgedWriteVersion>>
        /\ clientAvailableAtMs' = startedAtMs + WriteTimeoutMs
        /\ replica' = Settled(replica, startedAtMs, leaderVersion)
        /\ result' = [kind |-> "write", success |-> FALSE, version |-> 0,
                      required |-> leaderVersion, waitMs |-> WriteTimeoutMs]
    BY <1>9 DEF WriteTimesOut
  <2>2. /\ replica' \in [Followers -> Replica]
        /\ Converging(replica', leaderVersion)
        /\ Holding(replica, leaderVersion) \subseteq Holding(replica', leaderVersion)
    BY <1>2, <1>3, <2>1, SettledEffect
  <2>3. NoUpdateIsLost' /\ AcknowledgedIsReplicated'
    BY <1>4, <2>1, <2>2, PromisesKept
  <2>4. startedAtMs + WriteTimeoutMs \in Nat /\ WriteTimeoutMs \in Nat
    BY <1>3, ReplicationAssumption
  <2>5. ReplicationTypeOK'
    BY <1>1, <1>2, <1>4, <2>1, <2>2, <2>4 DEF ReplicationTypeOK
  <2>6. QED
    BY <1>2, <1>4, <2>1, <2>3, <2>5 DEF IInv
<1>10. QED
  BY <1>1, <1>8, <1>9

\* A read asks as many different nodes as make a majority, wherever it starts.
LEMMA SelectCircularCount ==
    ASSUME NEW cursor \in Replicas
    PROVE  /\ selectCircular(cursor) \in SUBSET Replicas
           /\ Cardinality(selectCircular(cursor)) = quorumSize
<1> DEFINE Offsets == 0..(quorumSize - 1)
           node == [offset \in Offsets |-> (cursor + offset) % ReplicaCount]
<1>1. \A offset \in Offsets : offset \in 0..(ReplicaCount - 1)
  BY QuorumSizes, ReplicationAssumption
<1>2. ASSUME NEW offset \in 0..(ReplicaCount - 1)
      PROVE  (cursor + offset) % ReplicaCount = IF cursor + offset < ReplicaCount
                                                THEN cursor + offset
                                                ELSE cursor + offset - ReplicaCount
  <2>1. CASE cursor + offset < ReplicaCount
    BY <2>1, ReplicationAssumption DEF Replicas
  <2>2. CASE cursor + offset >= ReplicaCount
    BY <2>2, ReplicationAssumption DEF Replicas
  <2>3. QED
    BY <2>1, <2>2, ReplicationAssumption DEF Replicas
<1>3. \A offset \in Offsets : node[offset] = IF cursor + offset < ReplicaCount
                                             THEN cursor + offset
                                             ELSE cursor + offset - ReplicaCount
  BY <1>1, <1>2
<1>4. \A offset \in Offsets : node[offset] \in Replicas
  BY <1>1, <1>3, ReplicationAssumption DEF Replicas
<1>5. selectCircular(cursor) = {node[offset] : offset \in Offsets}
  BY DEF selectCircular
<1>6. \A i, j \in Offsets : node[i] = node[j] => i = j
  BY <1>1, <1>3, ReplicationAssumption DEF Replicas
<1>7. node \in Surjection(Offsets, selectCircular(cursor))
      /\ node \in Injection(Offsets, selectCircular(cursor))
  <2>1. node \in [Offsets -> selectCircular(cursor)]
    BY <1>5
  <2>2. \A n \in selectCircular(cursor) : \E offset \in Offsets : node[offset] = n
    BY <1>5
  <2> HIDE DEF node, Offsets
  <2>3. QED
    BY <1>6, <2>1, <2>2 DEF Surjection, Injection, IsInjective
<1>8. IsFiniteSet(Offsets) /\ Cardinality(Offsets) = quorumSize
  <2>1. quorumSize - 1 \in Int /\ ~(0 > quorumSize - 1) /\ quorumSize - 1 - 0 + 1 = quorumSize
    BY QuorumSizes
  <2>2. QED
    BY <2>1, FS_Interval
<1> HIDE DEF node, Offsets
<1>9. Cardinality(selectCircular(cursor)) = Cardinality(Offsets)
  BY <1>7, <1>8, FS_Surjection
<1>10. QED
  BY <1>4, <1>5, <1>8, <1>9

\* When a majority of the nodes holds the leader's version, a quorum read asks one of them.
LEMMA QuorumsMeet ==
    ASSUME NEW rs \in [Followers -> Replica], NEW cursor \in Replicas,
           Cardinality(Holding(rs, leaderVersion)) + 1 >= quorumSize
    PROVE  \E n \in selectCircular(cursor) : VersionOn(rs, n) = leaderVersion
<1> DEFINE Held == Holding(rs, leaderVersion) \cup {0}
<1>1. Holding(rs, leaderVersion) \in SUBSET Followers /\ 0 \notin Followers
  BY DEF Holding, Followers
<1>2. IsFiniteSet(Holding(rs, leaderVersion))
  BY <1>1, CountFollowers, FS_Subset
<1>3. Cardinality(Held) = Cardinality(Holding(rs, leaderVersion)) + 1
  BY <1>1, <1>2, FS_AddElement
<1>4. IsFiniteSet(Replicas) /\ Cardinality(Replicas) = ReplicaCount
  BY ReplicationAssumption, FS_Interval DEF Replicas
<1>5. Held \subseteq Replicas
  BY <1>1, ReplicationAssumption DEF Replicas, Followers
<1>6. selectCircular(cursor) \subseteq Replicas /\ Cardinality(selectCircular(cursor)) = quorumSize
  BY SelectCircularCount
<1>7. Cardinality(Holding(rs, leaderVersion)) \in Nat
  BY <1>2, FS_CardinalityType
<1>8. Cardinality(Held) + Cardinality(selectCircular(cursor)) > Cardinality(Replicas)
  BY <1>3, <1>4, <1>6, <1>7, QuorumSizes, ReplicationAssumption
<1> HIDE DEF Held
<1>9. Held \cap selectCircular(cursor) # {}
  BY <1>4, <1>5, <1>6, <1>8, FS_MajoritiesIntersect
<1>10. PICK n \in selectCircular(cursor) : n \in Held
  BY <1>9
<1>11. VersionOn(rs, n) = leaderVersion
  BY <1>10, <1>1 DEF VersionOn, Held, Holding
<1>12. QED
  BY <1>11

\* What any completed read leaves behind, given followers rs no further from the leader
\* than they were: the invariant, and a result that says what was read and when.
LEMMA ReadCompletesStep ==
    ASSUME IInv, NextOperation, NEW rs \in [Followers -> Replica],
           Converging(rs, leaderVersion),
           Holding(replica, leaderVersion) \subseteq Holding(rs, leaderVersion),
           NEW version \in Nat, NEW startedAtMs \in Nat, NEW completedAtMs \in Nat,
           startedAtMs <= completedAtMs,
           ReadCompletes(rs, version, startedAtMs, completedAtMs),
           eventualReadCursor' \in 0..(ReplicaCount - 2), quorumReadCursor' \in Replicas
    PROVE  /\ IInv'
           /\ UNCHANGED <<guarantees, leaderVersion>>
           /\ result'.kind = "read"
           /\ result'.version = version
           /\ result'.required = leaderVersion
           /\ result'.waitMs = completedAtMs - startedAtMs
<1>1. /\ guarantees.replicationMode \in Modes /\ guarantees.readConsistency \in Consistencies
      /\ guarantees.partition \subseteq Partitions
      /\ leaderVersion \in Nat /\ lastAcknowledgedWriteVersion = leaderVersion
      /\ operations \in 0..MaxOperations
  BY DEF IInv, ReplicationTypeOK
<1>2. /\ UNCHANGED guarantees
      /\ operations' \in 0..MaxOperations
  BY <1>1, ReplicationAssumption DEF NextOperation
<1>3. /\ clientAvailableAtMs' = completedAtMs
      /\ replica' = Settled(rs, completedAtMs, leaderVersion)
      /\ result' = [kind |-> "read", success |-> TRUE, version |-> version,
                    required |-> leaderVersion, waitMs |-> completedAtMs - startedAtMs]
      /\ UNCHANGED <<leaderVersion, lastAcknowledgedWriteVersion>>
  BY <1>1 DEF ReadCompletes, ReadResult
<1>4. /\ replica' \in [Followers -> Replica]
      /\ Converging(replica', leaderVersion)
      /\ Holding(rs, leaderVersion) \subseteq Holding(replica', leaderVersion)
  BY <1>1, <1>3, SettledEffect
<1>5. NoUpdateIsLost' /\ AcknowledgedIsReplicated'
  BY <1>2, <1>3, <1>4, PromisesKept
<1>6. ReplicationTypeOK'
  BY <1>1, <1>2, <1>3, <1>4 DEF ReplicationTypeOK
<1>7. QED
  BY <1>1, <1>2, <1>3, <1>5, <1>6 DEF IInv

\* The follower to be read next exists, and rotating leads to one that exists.
LEMMA RotateFollowerType ==
    ASSUME eventualReadCursor \in 0..(ReplicaCount - 2)
    PROVE  /\ selectedFollower \in Followers
           /\ (eventualReadCursor + 1) % (ReplicaCount - 1) \in 0..(ReplicaCount - 2)
<1>1. ReplicaCount - 1 \in Nat \ {0} /\ eventualReadCursor + 1 \in Int
  BY ReplicationAssumption
<1>2. selectedFollower \in Followers
  BY ReplicationAssumption DEF selectedFollower, Followers
<1>3. (eventualReadCursor + 1) % (ReplicaCount - 1) \in 0..((ReplicaCount - 1) - 1)
  BY <1>1, RemainderRange
<1>4. (ReplicaCount - 1) - 1 = ReplicaCount - 2
  BY ReplicationAssumption
<1>5. QED
  BY <1>2, <1>3, <1>4

\* What every read keeps to: it returns a committed version, the committed one where the
\* configuration promises that, and a client that reads its writes is not kept too long.
PromisedResult ==
    /\ result.kind = "read"
    /\ result.required = leaderVersion
    /\ result.version \in Nat
    /\ result.version <= leaderVersion
    /\ PromisesFreshReads => result.version = leaderVersion
    /\ guarantees.readConsistency = "read-your-writes" => result.waitMs <= ReadTimeoutMs

\* Followers settled for a read: converging, no further from the leader than before, and
\* with nothing due before the read started; where the leader's version is held by a
\* majority, or by every follower, it still is.
LEMMA SettledForRead ==
    ASSUME IInv, NEW startedAtMs \in Nat
    PROVE  LET rs == Settled(replica, startedAtMs, leaderVersion)
           IN  /\ rs \in [Followers -> Replica]
               /\ Converging(rs, leaderVersion)
               /\ Holding(replica, leaderVersion) \subseteq Holding(rs, leaderVersion)
               /\ \A f \in Followers : \A d \in rs[f].pending : ~(d.applyAtMs <= startedAtMs)
               /\ guarantees.replicationMode = "quorum"
                     => Cardinality(Holding(rs, leaderVersion)) + 1 >= quorumSize
               /\ guarantees.replicationMode = "synchronous"
                     => Holding(rs, leaderVersion) = Followers
<1> DEFINE rs == Settled(replica, startedAtMs, leaderVersion)
<1>1. replica \in [Followers -> Replica] /\ leaderVersion \in Nat
      /\ Converging(replica, leaderVersion)
  BY DEF IInv, ReplicationTypeOK, NoUpdateIsLost, UpToDate, Converging
<1>2. /\ rs \in [Followers -> Replica]
      /\ Converging(rs, leaderVersion)
      /\ Holding(replica, leaderVersion) \subseteq Holding(rs, leaderVersion)
      /\ \A f \in Followers :
            rs[f].pending = {d \in replica[f].pending : ~(d.applyAtMs <= startedAtMs)}
  BY <1>1, SettledEffect
<1> HIDE DEF rs
<1>3. UpToDate = Holding(replica, leaderVersion)
  BY DEF UpToDate, Holding
<1>4. Holding(rs, leaderVersion) \in SUBSET Followers
  BY DEF Holding
<1>5. IsFiniteSet(Holding(rs, leaderVersion))
      /\ Cardinality(UpToDate) <= Cardinality(Holding(rs, leaderVersion))
  BY <1>2, <1>3, <1>4, CountFollowers, FS_Subset
<1>6. Cardinality(UpToDate) \in Nat /\ Cardinality(Holding(rs, leaderVersion)) \in Nat
  BY <1>2, <1>3, <1>5, FS_Subset, FS_CardinalityType
<1>7. guarantees.replicationMode = "quorum"
          => Cardinality(Holding(rs, leaderVersion)) + 1 >= quorumSize
  BY <1>5, <1>6, QuorumSizes DEF IInv, AcknowledgedIsReplicated
<1>8. guarantees.replicationMode = "synchronous" => Holding(rs, leaderVersion) = Followers
  BY <1>2, <1>3, <1>4 DEF IInv, AcknowledgedIsReplicated
<1>9. QED
  BY <1>2, <1>7, <1>8 DEF rs

\* A read from the leader.
LEMMA LeaderReadStep ==
    ASSUME IInv, NextOperation, NEW startedAtMs \in Nat,
           LeaderRead(Settled(replica, startedAtMs, leaderVersion), startedAtMs)
    PROVE  IInv' /\ PromisedResult' /\ UNCHANGED <<guarantees, leaderVersion>>
<1> DEFINE rs == Settled(replica, startedAtMs, leaderVersion)
<1>1. /\ rs \in [Followers -> Replica]
      /\ Converging(rs, leaderVersion)
      /\ Holding(replica, leaderVersion) \subseteq Holding(rs, leaderVersion)
  BY SettledForRead
<1>2. /\ leaderVersion \in Nat /\ startedAtMs - startedAtMs = 0 /\ startedAtMs <= startedAtMs
      /\ eventualReadCursor \in 0..(ReplicaCount - 2) /\ quorumReadCursor \in Replicas
  BY DEF IInv, ReplicationTypeOK
<1>3. /\ guarantees.readConsistency = "leader"
      /\ ReadCompletes(rs, leaderVersion, startedAtMs, startedAtMs)
      /\ UNCHANGED <<eventualReadCursor, quorumReadCursor>>
  BY DEF LeaderRead
<1> HIDE DEF rs
<1>4. /\ IInv'
      /\ UNCHANGED <<guarantees, leaderVersion>>
      /\ result'.kind = "read"
      /\ result'.version = leaderVersion
      /\ result'.required = leaderVersion
  BY <1>1, <1>2, <1>3, ReadCompletesStep
<1>5. QED
  BY <1>2, <1>3, <1>4 DEF PromisedResult

\* A read from a majority.
LEMMA QuorumReadStep ==
    ASSUME IInv, NextOperation, NEW startedAtMs \in Nat,
           QuorumRead(Settled(replica, startedAtMs, leaderVersion), startedAtMs)
    PROVE  /\ IInv' /\ PromisedResult' /\ UNCHANGED <<guarantees, leaderVersion>>
           /\ guarantees.replicationMode # "asynchronous" => result'.version = leaderVersion
<1> DEFINE rs == Settled(replica, startedAtMs, leaderVersion)
           seen == {VersionOn(rs, n) : n \in selectCircular(quorumReadCursor)}
<1>1. /\ rs \in [Followers -> Replica]
      /\ Converging(rs, leaderVersion)
      /\ Holding(replica, leaderVersion) \subseteq Holding(rs, leaderVersion)
      /\ guarantees.replicationMode = "quorum"
            => Cardinality(Holding(rs, leaderVersion)) + 1 >= quorumSize
      /\ guarantees.replicationMode = "synchronous" => Holding(rs, leaderVersion) = Followers
  BY SettledForRead
<1>2. /\ leaderVersion \in Nat /\ startedAtMs - startedAtMs = 0 /\ startedAtMs <= startedAtMs
      /\ eventualReadCursor \in 0..(ReplicaCount - 2) /\ quorumReadCursor \in Replicas
      /\ guarantees.replicationMode \in Modes
  BY DEF IInv, ReplicationTypeOK
<1>3. /\ guarantees.readConsistency = "quorum"
      /\ ReadCompletes(rs, Newest(seen), startedAtMs, startedAtMs)
      /\ quorumReadCursor' = (quorumReadCursor + 1) % ReplicaCount
      /\ eventualReadCursor' = eventualReadCursor
  BY DEF QuorumRead
<1>4. quorumReadCursor' \in Replicas
  <2>1. ReplicaCount \in Nat \ {0} /\ quorumReadCursor + 1 \in Int
    BY <1>2, ReplicationAssumption DEF Replicas
  <2>2. QED
    BY <1>3, <2>1, RemainderRange DEF Replicas
<1> HIDE DEF rs
<1>5. seen \in SUBSET Nat /\ \A v \in seen : v <= leaderVersion
  <2> SUFFICES ASSUME NEW n \in Replicas
               PROVE  VersionOn(rs, n) \in Nat /\ VersionOn(rs, n) <= leaderVersion
    BY <1>2, SelectCircularCount
  <2>1. n = 0 \/ n \in Followers
    BY ReplicationAssumption DEF Replicas, Followers
  <2>2. CASE n = 0
    BY <1>2, <2>2 DEF VersionOn
  <2>3. CASE n # 0 /\ n \in Followers
    BY <1>1, <2>3 DEF VersionOn, Converging, Replica
  <2>4. QED
    BY <2>1, <2>2, <2>3
<1>6. seen # {}
  <2>1. Cardinality(selectCircular(quorumReadCursor)) # 0
    BY <1>2, SelectCircularCount, QuorumSizes
  <2>2. selectCircular(quorumReadCursor) # {}
    BY <2>1, FS_EmptySet
  <2>3. QED
    BY <2>2
<1>7. guarantees.replicationMode # "asynchronous" => leaderVersion \in seen
  <2> SUFFICES ASSUME guarantees.replicationMode # "asynchronous" PROVE leaderVersion \in seen
    OBVIOUS
  <2>1. Cardinality(Holding(rs, leaderVersion)) + 1 >= quorumSize
    <3>1. CASE guarantees.replicationMode = "quorum"
      BY <1>1, <3>1
    <3>2. CASE guarantees.replicationMode = "synchronous"
      BY <1>1, <3>2, CountFollowers, QuorumSizes, ReplicationAssumption
    <3>3. QED
      BY <1>2, <3>1, <3>2 DEF Modes
  <2>2. PICK n \in selectCircular(quorumReadCursor) : VersionOn(rs, n) = leaderVersion
    BY <1>1, <1>2, <2>1, QuorumsMeet
  <2>3. QED
    BY <2>2
<1> HIDE DEF seen
<1>8. Newest(seen) \in seen /\ Newest(seen) <= leaderVersion /\ \A v \in seen : v <= Newest(seen)
  BY <1>2, <1>5, <1>6, NewestOf
<1>9. Newest(seen) \in Nat
      /\ (guarantees.replicationMode # "asynchronous" => Newest(seen) = leaderVersion)
  <2>1. Newest(seen) \in Nat
    BY <1>5, <1>8
  <2>2. leaderVersion \in seen => leaderVersion <= Newest(seen)
    BY <1>8
  <2>3. leaderVersion \in seen => Newest(seen) = leaderVersion
    BY <1>2, <1>8, <2>1, <2>2
  <2>4. QED
    BY <1>7, <2>1, <2>3
<1>10. /\ IInv'
       /\ UNCHANGED <<guarantees, leaderVersion>>
       /\ result'.kind = "read"
       /\ result'.version = Newest(seen)
       /\ result'.required = leaderVersion
  BY <1>1, <1>2, <1>3, <1>4, <1>9, ReadCompletesStep
<1>11. PromisesFreshReads' => guarantees.replicationMode # "asynchronous"
  BY <1>3, <1>10 DEF PromisesFreshReads
<1>12. PromisedResult'
  BY <1>2, <1>3, <1>8, <1>9, <1>10, <1>11 DEF PromisedResult
<1>13. QED
  BY <1>9, <1>10, <1>12

\* A read from a follower that has enough.
LEMMA FollowerReadStep ==
    ASSUME IInv, NextOperation, NEW startedAtMs \in Nat,
           FollowerRead(Settled(replica, startedAtMs, leaderVersion), startedAtMs)
    PROVE  IInv' /\ PromisedResult' /\ UNCHANGED <<guarantees, leaderVersion>>
<1> DEFINE rs == Settled(replica, startedAtMs, leaderVersion)
           version == rs[selectedFollower].applied
<1>1. /\ rs \in [Followers -> Replica]
      /\ Converging(rs, leaderVersion)
      /\ Holding(replica, leaderVersion) \subseteq Holding(rs, leaderVersion)
      /\ guarantees.replicationMode = "synchronous" => Holding(rs, leaderVersion) = Followers
  BY SettledForRead
<1>2. /\ leaderVersion \in Nat /\ lastAcknowledgedWriteVersion = leaderVersion
      /\ startedAtMs - startedAtMs = 0 /\ startedAtMs <= startedAtMs
      /\ eventualReadCursor \in 0..(ReplicaCount - 2) /\ quorumReadCursor \in Replicas
      /\ ReadTimeoutMs \in Nat
  BY ReplicationAssumption DEF IInv, ReplicationTypeOK
<1>3. /\ \/ guarantees.readConsistency = "eventual"
         \/ guarantees.readConsistency = "read-your-writes" /\ version >= leaderVersion
      /\ ReadCompletes(rs, version, startedAtMs, startedAtMs)
      /\ eventualReadCursor' = (eventualReadCursor + 1) % (ReplicaCount - 1)
      /\ quorumReadCursor' = quorumReadCursor
  BY <1>2 DEF FollowerRead, RotateFollower
<1>4. selectedFollower \in Followers /\ eventualReadCursor' \in 0..(ReplicaCount - 2)
  BY <1>2, <1>3, RotateFollowerType
<1> HIDE DEF rs
<1>5. version \in Nat /\ version <= leaderVersion
  BY <1>1, <1>4 DEF Converging, Replica
<1>6. guarantees.replicationMode = "synchronous" => version = leaderVersion
  BY <1>1, <1>4 DEF Holding
<1> HIDE DEF version
<1>7. /\ IInv'
      /\ UNCHANGED <<guarantees, leaderVersion>>
      /\ result'.kind = "read"
      /\ result'.version = version
      /\ result'.required = leaderVersion
      /\ result'.waitMs = 0
  BY <1>1, <1>2, <1>3, <1>4, <1>5, ReadCompletesStep
<1>8. guarantees.readConsistency = "read-your-writes" => version = leaderVersion
  BY <1>2, <1>3, <1>5
<1>9. PromisesFreshReads' => version = leaderVersion
  BY <1>3, <1>6, <1>7, <1>8 DEF PromisesFreshReads
<1>10. 0 <= ReadTimeoutMs
  BY <1>2
<1>11. QED
  BY <1>5, <1>7, <1>9, <1>10 DEF PromisedResult

\* A follower that has waited for what is on its way to it keeps converging, and has
\* every version that was due by then.
LEMMA WaitedEffect ==
    ASSUME NEW rs \in [Followers -> Replica], NEW version \in Nat, Converging(rs, version),
           NEW f \in Followers, NEW atMs \in Nat
    PROVE  LET waited == [rs EXCEPT ![f] = applied(rs[f], atMs)]
           IN  /\ waited \in [Followers -> Replica]
               /\ Converging(waited, version)
               /\ Holding(rs, version) \subseteq Holding(waited, version)
               /\ \A d \in rs[f].pending : d.applyAtMs <= atMs => d.version <= waited[f].applied
<1> DEFINE r == rs[f]
           s == applied(r, atMs)
           waited == [rs EXCEPT ![f] = s]
<1>1. /\ r \in Replica
      /\ r.applied <= version
      /\ \A d \in r.pending : d.version <= version
      /\ r.applied = version \/ \E d \in r.pending : d.version = version
  BY DEF Converging
<1>2. /\ s \in Replica
      /\ r.applied <= s.applied
      /\ s.applied <= version
      /\ \A d \in r.pending : d.applyAtMs <= atMs => d.version <= s.applied
      /\ s.pending = {d \in r.pending : ~(d.applyAtMs <= atMs)}
  <2> HIDE DEF r
  <2>1. QED
    BY <1>1, AppliedEffect
<1>3. r.applied \in Nat /\ s.applied \in Nat
  BY <1>1, <1>2 DEF Replica
<1> HIDE DEF s
<1>4. /\ \A d \in s.pending : d.version <= version
      /\ r.applied = version => s.applied = version
      /\ s.applied = version \/ \E d \in s.pending : d.version = version
  <2>1. r.applied = version => s.applied = version
    BY <1>2, <1>3
  <2>2. ASSUME NEW d \in r.pending, d.version = version
        PROVE  s.applied = version \/ d \in s.pending
    BY <1>2, <1>3, <2>2
  <2>3. QED
    BY <1>1, <1>2, <2>1, <2>2
<1>5. /\ waited[f] = s
      /\ \A g \in Followers : g # f => waited[g] = rs[g]
      /\ waited \in [Followers -> Replica]
  BY <1>2
<1> HIDE DEF waited
<1>6. Converging(waited, version)
  BY <1>2, <1>4, <1>5 DEF Converging
<1>7. Holding(rs, version) \subseteq Holding(waited, version)
  BY <1>4, <1>5 DEF Holding
<1>8. QED
  BY <1>2, <1>5, <1>6, <1>7 DEF waited, s

\* A read that waits for a follower to catch up with the client's last write.
LEMMA WaitingReadStep ==
    ASSUME IInv, NextOperation, NEW startedAtMs \in Nat,
           WaitingRead(Settled(replica, startedAtMs, leaderVersion), startedAtMs)
    PROVE  IInv' /\ PromisedResult' /\ UNCHANGED <<guarantees, leaderVersion>>
<1> DEFINE rs == Settled(replica, startedAtMs, leaderVersion)
           f == selectedFollower
           waited(atMs) == [rs EXCEPT ![f] = applied(rs[f], atMs)]
<1>1. /\ rs \in [Followers -> Replica]
      /\ Converging(rs, leaderVersion)
      /\ Holding(replica, leaderVersion) \subseteq Holding(rs, leaderVersion)
      /\ \A g \in Followers : \A d \in rs[g].pending : ~(d.applyAtMs <= startedAtMs)
  BY SettledForRead
<1>2. /\ leaderVersion \in Nat /\ lastAcknowledgedWriteVersion = leaderVersion
      /\ eventualReadCursor \in 0..(ReplicaCount - 2) /\ quorumReadCursor \in Replicas
      /\ ReadTimeoutMs \in Nat
  BY ReplicationAssumption DEF IInv, ReplicationTypeOK
<1> HIDE DEF rs
<1>3. PICK atMs \in {d.applyAtMs : d \in rs[f].pending} :
          /\ CaughtUpAt(rs, atMs, startedAtMs)
          /\ ReadCompletes(waited(atMs), waited(atMs)[f].applied, startedAtMs, atMs)
  BY DEF WaitingRead, rs
<1>4. /\ guarantees.readConsistency = "read-your-writes"
      /\ eventualReadCursor' = (eventualReadCursor + 1) % (ReplicaCount - 1)
      /\ quorumReadCursor' = quorumReadCursor
  BY DEF WaitingRead, Behind, RotateFollower
<1>5. f \in Followers /\ eventualReadCursor' \in 0..(ReplicaCount - 2)
  BY <1>2, <1>4, RotateFollowerType
<1> HIDE DEF f
<1>6. PICK e \in rs[f].pending :
          e.version >= leaderVersion /\ e.applyAtMs = atMs /\ atMs <= startedAtMs + ReadTimeoutMs
  BY <1>2, <1>3 DEF CaughtUpAt, CatchUpTimes, f
<1>7. e \in Delivery
  BY <1>1, <1>5 DEF Replica
<1>8. /\ atMs \in Nat /\ startedAtMs <= atMs
      /\ atMs - startedAtMs <= ReadTimeoutMs
      /\ e.version \in Nat
  BY <1>1, <1>2, <1>5, <1>6, <1>7 DEF Delivery
<1> DEFINE after == waited(atMs)
           version == after[f].applied
<1>9. /\ after \in [Followers -> Replica]
      /\ Converging(after, leaderVersion)
      /\ Holding(rs, leaderVersion) \subseteq Holding(after, leaderVersion)
      /\ e.version <= version
  <2>1. /\ after \in [Followers -> Replica]
        /\ Converging(after, leaderVersion)
        /\ Holding(rs, leaderVersion) \subseteq Holding(after, leaderVersion)
        /\ \A d \in rs[f].pending : d.applyAtMs <= atMs => d.version <= version
    BY <1>1, <1>2, <1>5, <1>8, WaitedEffect
  <2>2. e.applyAtMs <= atMs
    BY <1>6, <1>8
  <2> HIDE DEF version, after
  <2>3. QED
    BY <2>1, <2>2
<1>10. ReadCompletes(after, version, startedAtMs, atMs)
  BY <1>3
<1> HIDE DEF after
<1>11. version \in Nat /\ version <= leaderVersion
  BY <1>5, <1>9 DEF Converging, Replica
<1> HIDE DEF version
<1>12. version = leaderVersion
  BY <1>2, <1>6, <1>8, <1>9, <1>11
<1>13. Holding(replica, leaderVersion) \subseteq Holding(after, leaderVersion)
  BY <1>1, <1>9
<1>14. /\ IInv'
       /\ UNCHANGED <<guarantees, leaderVersion>>
       /\ result'.kind = "read"
       /\ result'.version = version
       /\ result'.required = leaderVersion
       /\ result'.waitMs = atMs - startedAtMs
  BY <1>2, <1>4, <1>5, <1>8, <1>9, <1>10, <1>11, <1>13, ReadCompletesStep
<1>15. QED
  BY <1>8, <1>11, <1>12, <1>14 DEF PromisedResult

\* A read that turns to the leader because no follower would catch up in time.
LEMMA FallbackReadStep ==
    ASSUME IInv, NextOperation, NEW startedAtMs \in Nat,
           FallbackRead(Settled(replica, startedAtMs, leaderVersion), startedAtMs)
    PROVE  IInv' /\ PromisedResult' /\ UNCHANGED <<guarantees, leaderVersion>>
<1> DEFINE rs == Settled(replica, startedAtMs, leaderVersion)
<1>1. /\ rs \in [Followers -> Replica]
      /\ Converging(rs, leaderVersion)
      /\ Holding(replica, leaderVersion) \subseteq Holding(rs, leaderVersion)
  BY SettledForRead
<1>2. /\ leaderVersion \in Nat /\ startedAtMs - startedAtMs = 0 /\ startedAtMs <= startedAtMs
      /\ eventualReadCursor \in 0..(ReplicaCount - 2) /\ quorumReadCursor \in Replicas
      /\ 0 <= ReadTimeoutMs
  BY ReplicationAssumption DEF IInv, ReplicationTypeOK
<1>3. /\ ReadCompletes(rs, leaderVersion, startedAtMs, startedAtMs)
      /\ eventualReadCursor' = (eventualReadCursor + 1) % (ReplicaCount - 1)
      /\ quorumReadCursor' = quorumReadCursor
  BY DEF FallbackRead, RotateFollower
<1>4. eventualReadCursor' \in 0..(ReplicaCount - 2)
  BY <1>2, <1>3, RotateFollowerType
<1> HIDE DEF rs
<1>5. /\ IInv'
      /\ UNCHANGED <<guarantees, leaderVersion>>
      /\ result'.kind = "read"
      /\ result'.version = leaderVersion
      /\ result'.required = leaderVersion
      /\ result'.waitMs = 0
  BY <1>1, <1>2, <1>3, <1>4, ReadCompletesStep
<1>6. QED
  BY <1>2, <1>5 DEF PromisedResult

\* Every read preserves the invariant and keeps to what is promised of reads.
LEMMA ReadStep ==
    ASSUME IInv, NEW gap \in Gaps, Read(gap)
    PROVE  /\ IInv' /\ PromisedResult' /\ UNCHANGED <<guarantees, leaderVersion>>
           /\ guarantees.readConsistency = "quorum" /\ guarantees.replicationMode # "asynchronous"
                 => result'.version = leaderVersion
<1> DEFINE startedAtMs == clientAvailableAtMs + gap
           rs == Settled(replica, startedAtMs, leaderVersion)
<1>1. startedAtMs \in Nat
  BY ReplicationAssumption DEF IInv, ReplicationTypeOK
<1>2. /\ NextOperation
      /\ \/ LeaderRead(rs, startedAtMs) \/ QuorumRead(rs, startedAtMs)
         \/ FollowerRead(rs, startedAtMs)
         \/ WaitingRead(rs, startedAtMs) \/ FallbackRead(rs, startedAtMs)
  BY DEF Read
<1> HIDE DEF startedAtMs
<1>3. CASE LeaderRead(rs, startedAtMs)
  BY <1>1, <1>2, <1>3, LeaderReadStep DEF LeaderRead
<1>4. CASE QuorumRead(rs, startedAtMs)
  BY <1>1, <1>2, <1>4, QuorumReadStep
<1>5. CASE FollowerRead(rs, startedAtMs)
  BY <1>1, <1>2, <1>5, FollowerReadStep DEF FollowerRead
<1>6. CASE WaitingRead(rs, startedAtMs)
  BY <1>1, <1>2, <1>6, WaitingReadStep DEF WaitingRead, Behind
<1>7. CASE FallbackRead(rs, startedAtMs)
  BY <1>1, <1>2, <1>7, FallbackReadStep DEF FallbackRead, Behind
<1>8. QED
  BY <1>2, <1>3, <1>4, <1>5, <1>6, <1>7

-----------------------------------------------------------------------------

(* The invariants. *)

\* The empty store satisfies the invariant.
LEMMA InitInvariant == ReplicationInit => IInv
<1> SUFFICES ASSUME ReplicationInit PROVE IInv
  OBVIOUS
<1>1. /\ guarantees \in [replicationMode : Modes, readConsistency : Consistencies,
                     partition : {{}} \cup {{p} : p \in Partitions}]
      /\ leaderVersion = 0 /\ lastAcknowledgedWriteVersion = 0 /\ clientAvailableAtMs = 0
      /\ eventualReadCursor = 0 /\ quorumReadCursor = 1
      /\ replica = [f \in Followers |-> [applied |-> 0, maxLag |-> 0, pending |-> {}]]
      /\ operations = 0
      /\ result = [kind |-> "none", success |-> TRUE, version |-> 0, required |-> 0, waitMs |-> 0]
  BY DEF ReplicationInit
<1>2. UpToDate = Followers
  BY <1>1 DEF UpToDate
<1>3. ReplicationTypeOK
  <2>1. 0 \in 0..(ReplicaCount - 2) /\ 1 \in Replicas /\ 0 \in 0..MaxOperations
    BY ReplicationAssumption DEF Replicas
  <2>2. replica \in [Followers -> Replica]
    BY <1>1 DEF Replica
  <2>3. /\ guarantees.replicationMode \in Modes /\ guarantees.readConsistency \in Consistencies
        /\ guarantees.partition \subseteq Partitions
    BY <1>1
  <2>4. QED
    BY <1>1, <2>1, <2>2, <2>3 DEF ReplicationTypeOK
<1>4. NoUpdateIsLost
  BY <1>1, <1>2 DEF NoUpdateIsLost
<1>5. AcknowledgedIsReplicated
  BY <1>2, CountFollowers, QuorumSizes, ReplicationAssumption DEF AcknowledgedIsReplicated
<1>6. QED
  BY <1>1, <1>3, <1>4, <1>5 DEF IInv

\* The invariant speaks of the state alone.
LEMMA StutterInvariant == IInv /\ UNCHANGED replicating => IInv'
BY DEF IInv, replicating, ReplicationTypeOK, NoUpdateIsLost, AcknowledgedIsReplicated, UpToDate, quorumSize

\* Every operation keeps the invariant.
LEMMA NextInvariant == IInv /\ [ReplicationNext]_replicating => IInv'
BY WriteStep, ReadStep, StutterInvariant DEF ReplicationNext

\* Every state is well typed, no version is lost between the leader and a follower, and
\* what was acknowledged is where its mode says, whatever is delayed or partitioned.
THEOREM ReplicationInvariant == ReplicationSpec => []IInv
BY InitInvariant, NextInvariant, PTL DEF ReplicationSpec

\* The simulator's state is well typed.
THEOREM Typing == ReplicationSpec => []ReplicationTypeOK
<1>1. IInv => ReplicationTypeOK
  BY DEF IInv
<1>2. QED
  BY <1>1, ReplicationInvariant, PTL

\* Every follower has the leader's version or is about to get it, and is never ahead.
THEOREM UpdatesSurvive == ReplicationSpec => []NoUpdateIsLost
<1>1. IInv => NoUpdateIsLost
  BY DEF IInv
<1>2. QED
  BY <1>1, ReplicationInvariant, PTL

\* The committed version is on a majority in quorum mode, everywhere in synchronous mode.
THEOREM AcknowledgementIsDurable == ReplicationSpec => []AcknowledgedIsReplicated
<1>1. IInv => AcknowledgedIsReplicated
  BY DEF IInv
<1>2. QED
  BY <1>1, ReplicationInvariant, PTL

\* A read-your-writes read returns the client's last write or a later one, in time.
THEOREM ReadsOwnWrites == ReplicationSpec => []ReadYourWrites
<1>1. ReplicationInit => ReadYourWrites
  BY DEF ReplicationInit, ReadYourWrites
<1>2. IInv /\ ReadYourWrites /\ [ReplicationNext]_replicating => ReadYourWrites'
  <2> SUFFICES ASSUME IInv, ReadYourWrites, [ReplicationNext]_replicating
               PROVE  ReadYourWrites'
    OBVIOUS
  <2>1. ASSUME NEW gap \in Gaps, NEW delayMs \in [Followers -> Delays], Write(gap, delayMs)
        PROVE  ReadYourWrites'
    <3>1. result'.kind = "write"
      BY <2>1, WriteStep
    <3>2. QED
      BY <3>1 DEF ReadYourWrites
  <2>2. ASSUME NEW gap \in Gaps, Read(gap)
        PROVE  ReadYourWrites'
    <3>1. PromisedResult' /\ UNCHANGED <<guarantees, leaderVersion>>
      BY <2>2, ReadStep
    <3>2. leaderVersion \in Nat
      BY DEF IInv, ReplicationTypeOK
    <3>3. guarantees.readConsistency = "read-your-writes"
             => result'.version = leaderVersion /\ result'.required = leaderVersion
                /\ result'.waitMs <= ReadTimeoutMs
      BY <3>1 DEF PromisedResult, PromisesFreshReads
    <3>4. leaderVersion >= leaderVersion
      BY <3>2
    <3>5. QED
      BY <3>1, <3>3, <3>4 DEF ReadYourWrites
  <2>3. CASE UNCHANGED replicating
    BY <2>3 DEF replicating, ReadYourWrites
  <2>4. QED
    BY <2>1, <2>2, <2>3 DEF ReplicationNext
<1>3. QED
  BY <1>1, <1>2, ReplicationInvariant, PTL DEF ReplicationSpec

\* Whichever nodes a quorum read asks, it meets the majority that acknowledged the last
\* write: it is never stale, unless writes do not wait for a majority at all.
THEOREM QuorumsIntersect == ReplicationSpec => []QuorumReadsAreFresh
<1>1. ReplicationInit => QuorumReadsAreFresh
  BY DEF ReplicationInit, QuorumReadsAreFresh
<1>2. IInv /\ QuorumReadsAreFresh /\ [ReplicationNext]_replicating => QuorumReadsAreFresh'
  <2> SUFFICES ASSUME IInv, QuorumReadsAreFresh, [ReplicationNext]_replicating
               PROVE  QuorumReadsAreFresh'
    OBVIOUS
  <2>1. ASSUME NEW gap \in Gaps, NEW delayMs \in [Followers -> Delays], Write(gap, delayMs)
        PROVE  QuorumReadsAreFresh'
    <3>1. result'.kind = "write"
      BY <2>1, WriteStep
    <3>2. QED
      BY <3>1 DEF QuorumReadsAreFresh
  <2>2. ASSUME NEW gap \in Gaps, Read(gap)
        PROVE  QuorumReadsAreFresh'
    BY <2>2, ReadStep DEF QuorumReadsAreFresh
  <2>3. CASE UNCHANGED replicating
    BY <2>3 DEF replicating, QuorumReadsAreFresh
  <2>4. QED
    BY <2>1, <2>2, <2>3 DEF ReplicationNext
<1>3. QED
  BY <1>1, <1>2, ReplicationInvariant, PTL DEF ReplicationSpec

-----------------------------------------------------------------------------

(* The refinement. *)

\* The empty store is a register without versions.
LEMMA InitImplements == ReplicationInit => Register!Init
<1> SUFFICES ASSUME ReplicationInit PROVE Register!Init
  OBVIOUS
<1>1. PromisesFreshReads \in BOOLEAN
  BY DEF PromisesFreshReads
<1>2. QED
  BY <1>1 DEF ReplicationInit, Register!Init

\* Every write is a write of the register, or fails as one; every read is a read of it.
LEMMA NextImplements == IInv /\ [ReplicationNext]_replicating => [Register!Next]_Register!registerVars
<1> SUFFICES ASSUME IInv, [ReplicationNext]_replicating
             PROVE  [Register!Next]_Register!registerVars
  OBVIOUS
<1>1. ASSUME NEW gap \in Gaps, NEW delayMs \in [Followers -> Delays], Write(gap, delayMs)
      PROVE  Register!Write
  <2>1. /\ leaderVersion' \in {leaderVersion, leaderVersion + 1}
        /\ result'.kind = "write"
        /\ guarantees' = guarantees
    BY <1>1, WriteStep
  <2>2. PromisesFreshReads' = PromisesFreshReads
    BY <2>1 DEF PromisesFreshReads
  <2>3. QED
    BY <2>1, <2>2 DEF Register!Write
<1>2. ASSUME NEW gap \in Gaps, Read(gap)
      PROVE  Register!Read
  <2>1. PromisedResult' /\ guarantees' = guarantees /\ leaderVersion' = leaderVersion
    BY <1>2, ReadStep
  <2>2. PromisesFreshReads' = PromisesFreshReads
    BY <2>1 DEF PromisesFreshReads
  <2>3. /\ result'.kind = "read"
        /\ result'.version \in Nat /\ result'.version <= leaderVersion
        /\ PromisesFreshReads => result'.version = leaderVersion
    BY <2>1, <2>2 DEF PromisedResult
  <2>4. result'.version \in 0..leaderVersion
    BY <2>3 DEF IInv, ReplicationTypeOK
  <2>5. QED
    BY <2>1, <2>2, <2>3, <2>4 DEF Register!Read
<1>3. CASE UNCHANGED replicating
  BY <1>3 DEF replicating, PromisesFreshReads, Register!registerVars
<1>4. QED
  BY <1>1, <1>2, <1>3 DEF ReplicationNext, Register!Next

\* To its client, the replicated value is the versioned register: fresh where the
\* configuration promises it, and never a version that was not committed.
THEOREM Refinement == ReplicationSpec => ImplementsRegister
BY InitImplements, NextImplements, ReplicationInvariant, PTL
   DEF ReplicationSpec, ImplementsRegister, Register!Spec

=============================================================================
