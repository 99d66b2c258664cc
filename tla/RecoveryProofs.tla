--------------------------- MODULE RecoveryProofs ---------------------------
(***************************************************************************)
(* The service-recovery simulator, for any number of nodes and requests,   *)
(* any failures, timings and retries: no request is lost or doubled, no    *)
(* attempt reaches a node while a failover is under way, active checks     *)
(* find true failures only, and a breaker answers for its own node.        *)
(*                                                                         *)
(* That traffic stops is not inductive: a failover is recorded when the    *)
(* attempt that revealed it ends, in the future of later turns.  It needs  *)
(* that turns follow time and that a promotion is never made early         *)
(* (TimeInv), which in turn needs retries never to be scheduled in the     *)
(* past, whatever the jitter.                                              *)
(*                                                                         *)
(* Then the exhibits of the /global page, what a failure leaves standing:  *)
(* routing, the owner of a room, the sessions, and where rooms are placed. *)
(* Demand is a sum over rooms, so most of it rests on the lemmas on sums   *)
(* and on choices that come first.  Last, the sharding ring, which places  *)
(* keys as they place rooms.                                               *)
(***************************************************************************)
EXTENDS Recovery, GlobalLaboratory, ShardingModel, FunctionTheorems, SequenceTheorems, FiniteSetTheorems,
        WellFoundedInduction, TLAPS

Breaker == [state : {"closed", "open", "half-open"}, consecutiveFailures : Nat, reopenAtMs : Nat]

Failover == [fromNodeId : Nodes, detectedAtMs : Nat, completeAtMs : Nat, completed : BOOLEAN]

Service == [active : Nodes \cup {None}, marked : SUBSET Nodes, failover : Failover \cup {NoFailover}]

Pending == [atMs : Nat, request : Requests, attempt : 0..MaxRetries]

Progress == [attempts : Nat, completed : BOOLEAN, success : BOOLEAN]

ConfigOk ==
    /\ config.failures \in FailurePlans
    /\ config.healthCheckMode \in {"active", "passive"}
    /\ config.enabled \in BOOLEAN

Typed ==
    /\ ConfigOk
    /\ queue \subseteq Pending
    /\ requests \in [Requests -> Progress]
    /\ breakers \in [Nodes -> Breaker]
    /\ passiveFailures \in [Nodes -> Nat]
    /\ service \in Service
    /\ attempt.startMs \in Nat

\* The queue is the requests that are not completed, each with the attempts it has made.
QueueInv ==
    /\ \A p \in queue : ~requests[p.request].completed /\ p.attempt = requests[p.request].attempts
    /\ \A r \in Requests : ~requests[r].completed => \E p \in queue : p.request = r
    /\ \A p, q \in queue : p.request = q.request => p = q
    /\ \A r \in Requests : requests[r].completed /\ ~requests[r].success
           => requests[r].attempts = MaxRetries + 1

\* A promotion is over by the time that has been reached.
PromotedBy(s, atMs) == s.failover.completed => s.failover.completeAtMs <= atMs

\* The turns follow time: nothing pending is earlier than what was attempted last.
TimeInv ==
    /\ \A p \in queue : attempt.startMs <= p.atMs
    /\ PromotedBy(service, attempt.startMs)

\* Active checks found the node failing.
FoundFailing(s) ==
    config.healthCheckMode = "active" /\ s.failover # NoFailover
        => isPhysicallyFailed(s.failover.fromNodeId, s.failover.detectedAtMs)

\* Without breakers every node's breaker stays closed.
BreakersOff == ~config.enabled => \A n \in Nodes : breakers[n] = Closed

IInv ==
    /\ Typed /\ QueueInv /\ TimeInv
    /\ NoBackendDuringFailover /\ DetectedWhileFailing
    /\ BreakersOff

-----------------------------------------------------------------------------

\* A product of natural numbers is one.
LEMMA Product == \A x, y \in Nat : x * y \in Nat
BY SMT

\* Every power of two is an integer.
LEMMA PowerOfTwo == \A n \in Nat : 2 ^ n \in Int
BY SMT

\* A retry is never scheduled in the past, whatever the jitter.
LEMMA DelayIsNatural ==
    ASSUME NEW n \in Nat, NEW jitter \in Int
    PROVE  retryDelay(n, jitter) \in Nat
<1>1. BaseBackoffMs \in Nat
  BY RecoveryAssumption
<1>2. BaseBackoffMs * 2 ^ n \in Int
  BY <1>1, PowerOfTwo
<1>3. QED
  BY <1>2 DEF retryDelay, Larger

\* The first check of a window is not made before the window begins.
LEMMA FirstCheck ==
    ASSUME NEW w \in Window
    PROVE  firstCheckAt(w) \in Nat /\ w.startMs <= firstCheckAt(w)
<1>1. HealthCheckIntervalMs \in Nat \ {0} /\ w.startMs \in Nat
  BY RecoveryAssumption DEF Window
<1>2. \A s \in Nat, h \in Nat \ {0} :
          ((s + h - 1) \div h) * h \in Nat /\ s <= ((s + h - 1) \div h) * h
  BY SMTT(30)
<1>3. QED
  BY <1>1, <1>2 DEF firstCheckAt

\* A failure that is detected is detected while it lasts.
LEMMA DetectionIsInWindow ==
    ASSUME NEW w \in Window, NEW atMs \in Nat, Detected(w, atMs)
    PROVE  /\ activeDetectionAt(w) \in Nat
           /\ w.startMs <= activeDetectionAt(w) /\ activeDetectionAt(w) < w.endMs
<1>1. HealthFailureThreshold - 1 \in Nat /\ HealthCheckIntervalMs \in Nat
  BY RecoveryAssumption
<1>2. (HealthFailureThreshold - 1) * HealthCheckIntervalMs \in Nat
  BY <1>1, Product
<1>3. w.startMs \in Nat /\ w.endMs \in Nat
  BY DEF Window
<1>4. QED
  BY <1>2, <1>3, FirstCheck DEF activeDetectionAt, Detected

-----------------------------------------------------------------------------

(* Nodes and failover. *)

\* Any set of numbers has a least one.
LEMMA LeastExists ==
    ASSUME NEW S \in SUBSET Nat, S # {}
    PROVE  \E m \in S : \A x \in S : m <= x
<1>1. PICK m \in S : \A x \in S : ~(<<x, m>> \in OpToRel(<, Nat))
  BY NatLessThanWellFounded, WFMin
<1>2. \A x \in S : ~(x < m)
  BY <1>1 DEF OpToRel
<1>3. QED
  BY <1>2

\* The first of some nodes is one of them.
LEMMA FirstIsOne ==
    ASSUME NEW nodes \in SUBSET Nodes
    PROVE  First(nodes) \in Nodes \cup {None}
<1>1. CASE nodes = {}
  BY <1>1 DEF First
<1>2. CASE nodes # {}
  <2>1. nodes \in SUBSET Nat
    BY RecoveryAssumption DEF Nodes
  <2>2. \E n \in nodes : \A m \in nodes : n <= m
    BY <1>2, <2>1, LeastExists
  <2>3. QED
    BY <1>2, <2>2 DEF First
<1>3. QED
  BY <1>1, <1>2

\* What a service is: its parts, and a failover that is none or has come about.
LEMMA ServiceParts ==
    ASSUME NEW s \in Service
    PROVE  /\ s.active \in Nodes \cup {None}
           /\ s.marked \in SUBSET Nodes
           /\ s.failover \in Failover \cup {NoFailover}
           /\ s = [active |-> s.active, marked |-> s.marked, failover |-> s.failover]
BY DEF Service

\* Marking a node keeps the service a service, and starts a failover only where none was.
LEMMA MarkStep ==
    ASSUME NEW s \in Service, NEW n \in Nodes, NEW atMs \in Nat
    PROVE  LET t == markUnhealthy(s, n, atMs)
           IN  /\ t \in Service
               /\ t.active = s.active
               /\ \/ t.failover = s.failover
                  \/ /\ s.failover = NoFailover /\ s.active = n
                     /\ t.failover = [fromNodeId |-> n, detectedAtMs |-> atMs,
                                      completeAtMs |-> atMs + FailoverDelayMs,
                                      completed |-> FALSE]
<1>1. FailoverDelayMs \in Nat
  BY RecoveryAssumption
<1> DEFINE started == [fromNodeId |-> n, detectedAtMs |-> atMs,
                       completeAtMs |-> atMs + FailoverDelayMs, completed |-> FALSE]
<1>2. started \in Failover
  BY <1>1 DEF Failover
<1> HIDE DEF started
<1>3. CASE n \in s.marked
  BY <1>3 DEF markUnhealthy
<1>4. CASE n \notin s.marked /\ s.active = n /\ s.failover = NoFailover
  <2>1. markUnhealthy(s, n, atMs) =
          [s EXCEPT !.marked = s.marked \cup {n}, !.failover = started]
    BY <1>4 DEF markUnhealthy, started
  <2>2. markUnhealthy(s, n, atMs) \in Service
    BY <1>2, <2>1, ServiceParts DEF Service
  <2>3. /\ markUnhealthy(s, n, atMs).active = s.active
        /\ markUnhealthy(s, n, atMs).failover = started
    BY <2>1 DEF Service
  <2>4. QED
    BY <1>4, <2>2, <2>3 DEF started
<1>5. CASE n \notin s.marked /\ ~(s.active = n /\ s.failover = NoFailover)
  <2>1. markUnhealthy(s, n, atMs) =
          [s EXCEPT !.marked = s.marked \cup {n}, !.failover = s.failover]
    BY <1>5 DEF markUnhealthy
  <2>2. markUnhealthy(s, n, atMs) \in Service
    BY <2>1, ServiceParts, ZenonT(60) DEF Service
  <2>3. QED
    BY <2>1, <2>2 DEF Service
<1>6. QED
  BY <1>3, <1>4, <1>5

\* Active detection marks the active node at a time at which it is failing.
LEMMA DetectionStep ==
    ASSUME ConfigOk, NEW s \in Service, NEW atMs \in Nat, FoundFailing(s)
    PROVE  LET t == processActiveDetection(s, atMs)
           IN  /\ t \in Service /\ FoundFailing(t)
               /\ t.failover = s.failover \/ ~t.failover.completed
<1>1. CASE config.healthCheckMode # "active" \/ s.active = None
  BY <1>1 DEF processActiveDetection
<1>2. CASE config.healthCheckMode = "active" /\ s.active # None
  <2> DEFINE windows == config.failures[s.active]
             found == {i \in DOMAIN windows : Detected(windows[i], atMs)}
             i0 == CHOOSE i \in found : \A j \in found : i <= j
             w == windows[i0]
  <2>1. CASE found = {}
    BY <1>2, <2>1 DEF processActiveDetection
  <2>2. CASE found # {}
    <3>1. s.active \in Nodes
      BY <1>2, ServiceParts
    <3>2. windows \in Seq(Window)
      BY <3>1, FailureAssumption DEF ConfigOk
    <3>3. found \in SUBSET Nat
      BY <3>2
    <3>4. \E i \in found : \A j \in found : i <= j
      <4> HIDE DEF found
      <4>1. QED
        BY <2>2, <3>3, LeastExists
    <3>5. i0 \in found
      BY <3>4
    <3>6. w \in Window /\ Detected(w, atMs) /\ i0 \in DOMAIN windows
      <4>1. i0 \in DOMAIN windows /\ Detected(w, atMs)
        BY <3>5
      <4> HIDE DEF i0, windows
      <4>2. w \in Window
        BY <3>2, <4>1
      <4>3. QED
        BY <4>1, <4>2
    <3>7. /\ activeDetectionAt(w) \in Nat
          /\ w.startMs <= activeDetectionAt(w) /\ activeDetectionAt(w) < w.endMs
      <4> HIDE DEF w
      <4>1. QED
        BY <3>6, DetectionIsInWindow
    <3>8. isPhysicallyFailed(s.active, activeDetectionAt(w))
      BY <3>6, <3>7 DEF isPhysicallyFailed
    <3>9. processActiveDetection(s, atMs) = markUnhealthy(s, s.active, activeDetectionAt(w))
      BY <1>2, <2>2 DEF processActiveDetection
    <3> DEFINE at == activeDetectionAt(w)
               t == markUnhealthy(s, s.active, at)
    <3>10. /\ t \in Service
           /\ t.active = s.active
           /\ \/ t.failover = s.failover
              \/ t.failover = [fromNodeId |-> s.active, detectedAtMs |-> at,
                               completeAtMs |-> at + FailoverDelayMs, completed |-> FALSE]
      <4>1. at \in Nat
        BY <3>7
      <4> HIDE DEF at
      <4>2. QED
        BY <3>1, <4>1, MarkStep
    <3>11. \/ t.failover = s.failover
           \/ /\ t.failover.fromNodeId = s.active /\ t.failover.detectedAtMs = at
              /\ ~t.failover.completed
      <4> HIDE DEF t, at
      <4>1. QED
        BY <3>10
    <3>12. FoundFailing(t)
      BY <3>8, <3>11 DEF FoundFailing
    <3>13. QED
      BY <3>9, <3>10, <3>11, <3>12
  <2>3. QED
    BY <2>1, <2>2
<1>3. QED
  BY <1>1, <1>2

\* A promotion keeps what was found and is not made before its time.
LEMMA PromotionStep ==
    ASSUME NEW s \in Service, NEW atMs \in Nat, FoundFailing(s), PromotedBy(s, atMs)
    PROVE  LET t == processFailover(s, atMs)
           IN  t \in Service /\ FoundFailing(t) /\ PromotedBy(t, atMs)
<1>1. CASE s.failover = NoFailover \/ s.failover.completed \/ s.failover.completeAtMs > atMs
  BY <1>1 DEF processFailover
<1>2. CASE ~(s.failover = NoFailover \/ s.failover.completed \/ s.failover.completeAtMs > atMs)
  <2> DEFINE f == s.failover
             g == [f EXCEPT !.completed = TRUE]
             n == First(Standbys(s))
  <2>1. f \in Failover /\ f.completeAtMs <= atMs
    BY <1>2, ServiceParts DEF Failover
  <2>2. /\ g \in Failover
        /\ g.completeAtMs = f.completeAtMs /\ g.fromNodeId = f.fromNodeId
        /\ g.detectedAtMs = f.detectedAtMs
    BY <2>1 DEF Failover
  <2>3. n \in Nodes \cup {None}
    BY FirstIsOne DEF Standbys
  <2>4. processFailover(s, atMs) = [s EXCEPT !.active = n, !.failover = g]
    BY <1>2 DEF processFailover
  <2> HIDE DEF n, g
  <2>5. processFailover(s, atMs) \in Service /\ processFailover(s, atMs).failover = g
    BY <2>2, <2>3, <2>4, ServiceParts DEF Service
  <2>6. QED
    BY <1>2, <2>1, <2>2, <2>5 DEF FoundFailing, PromotedBy
<1>3. QED
  BY <1>1, <1>2

\* Returning capacity changes only who is active.
LEMMA CapacityStep ==
    ASSUME NEW s \in Service, NEW atMs \in Nat
    PROVE  CapacityReturns(s, atMs) \in Service /\ CapacityReturns(s, atMs).failover = s.failover
<1> DEFINE n == First({m \in Nodes : ~isPhysicallyFailed(m, atMs)})
<1>1. n \in Nodes \cup {None}
  BY FirstIsOne
<1>2. CASE s.active # None
  BY <1>2 DEF CapacityReturns
<1>3. CASE s.active = None
  <2>1. CapacityReturns(s, atMs) = [active |-> n, marked |-> s.marked, failover |-> s.failover]
    BY <1>3, ServiceParts DEF CapacityReturns
  <2> HIDE DEF n
  <2>2. QED
    BY <1>1, <2>1, ServiceParts DEF Service
<1>4. QED
  BY <1>2, <1>3

\* Advancing the infrastructure to the time of the next attempt keeps what is known of it.
LEMMA AdvanceStep ==
    ASSUME ConfigOk, service \in Service, NEW atMs \in Nat,
           FoundFailing(service), PromotedBy(service, atMs)
    PROVE  LET s == advanceInfrastructure(atMs)
           IN  s \in Service /\ FoundFailing(s) /\ PromotedBy(s, atMs)
<1> DEFINE a == processActiveDetection(service, atMs)
           b == processFailover(a, atMs)
           c == CapacityReturns(b, atMs)
<1>1. a \in Service /\ FoundFailing(a) /\ (a.failover = service.failover \/ ~a.failover.completed)
  BY DetectionStep
<1>2. PromotedBy(a, atMs)
  BY <1>1 DEF PromotedBy
<1> HIDE DEF a
<1>3. b \in Service /\ FoundFailing(b) /\ PromotedBy(b, atMs)
  BY <1>1, <1>2, PromotionStep
<1> HIDE DEF b
<1>4. c \in Service /\ c.failover = b.failover
  BY <1>3, CapacityStep
<1>5. advanceInfrastructure(atMs) = c
  BY DEF advanceInfrastructure, a, b, c
<1> HIDE DEF c
<1>6. QED
  BY <1>3, <1>4, <1>5 DEF FoundFailing, PromotedBy

-----------------------------------------------------------------------------

(* The queue.                                                              *)

\* What a pending attempt is.
LEMMA PendingParts ==
    ASSUME NEW p \in Pending
    PROVE  p.atMs \in Nat /\ p.request \in Requests /\ p.attempt \in 0..MaxRetries
BY DEF Pending

\* What one attempt does to the queue: it is taken out, and its request is completed or
\* put back with one more attempt made, no earlier than it was.
Requeued(p) ==
    \E q \in Pending :
        /\ q.request = p.request /\ q.attempt = p.attempt + 1 /\ q.atMs >= p.atMs
        /\ queue' = (queue \ {p}) \cup {q}
        /\ requests' = [requests EXCEPT ![p.request].attempts = @ + 1]

Completed(p) ==
    /\ queue' = queue \ {p}
    /\ requests' \in [Requests -> Progress]
    /\ \A r \in Requests \ {p.request} : requests'[r] = requests[r]
    /\ requests'[p.request].completed
    /\ requests'[p.request].success \/ requests'[p.request].attempts = MaxRetries + 1

\* A retry puts the request back, and a request without retries left is completed.
LEMMA ScheduleStep ==
    ASSUME Typed, QueueInv, NEW p \in queue, NEW endMs \in Nat, endMs >= p.atMs,
           scheduleRetry(p, endMs)
    PROVE  Requeued(p) \/ Completed(p)
<1>1. p \in Pending /\ p.atMs \in Nat /\ p.request \in Requests /\ p.attempt \in 0..MaxRetries
  BY PendingParts DEF Typed
<1>2. /\ MaxRetries \in Nat /\ Jitters \subseteq Int
      /\ requests \in [Requests -> Progress]
      /\ p.attempt = requests[p.request].attempts
  BY RecoveryAssumption DEF Typed, QueueInv
<1>3. CASE Retry(p, endMs)
  <2>1. PICK jitter \in Jitters :
            queue' = (queue \ {p}) \cup
                         {[atMs |-> endMs + retryDelay(p.attempt, jitter),
                           request |-> p.request, attempt |-> p.attempt + 1]}
    BY <1>3 DEF Retry
  <2> DEFINE delay == retryDelay(p.attempt, jitter)
             q == [atMs |-> endMs + delay, request |-> p.request, attempt |-> p.attempt + 1]
  <2>2. delay \in Nat
    <3>1. jitter \in Int /\ p.attempt \in Nat
      BY <1>1, <1>2
    <3>2. QED
      BY <3>1, DelayIsNatural
  <2> HIDE DEF delay
  <2>3. p.attempt + 1 \in 0..MaxRetries
    BY <1>1, <1>2, <1>3 DEF Retry
  <2>4. q \in Pending /\ q.atMs >= p.atMs
    BY <1>1, <2>2, <2>3 DEF Pending
  <2>5. queue' = (queue \ {p}) \cup {q}
    BY <2>1 DEF delay
  <2>6. requests' = [requests EXCEPT ![p.request].attempts = @ + 1]
    BY <1>3 DEF Retry
  <2>7. q.request = p.request /\ q.attempt = p.attempt + 1
    OBVIOUS
  <2> HIDE DEF q
  <2>8. Requeued(p)
    BY <2>4, <2>5, <2>6, <2>7 DEF Requeued
  <2>9. QED
    BY <2>8
<1>4. CASE GiveUp(p)
  <2>1. /\ queue' = queue \ {p}
        /\ requests' = [requests EXCEPT ![p.request].attempts = @ + 1,
                                        ![p.request].completed = TRUE]
        /\ p.attempt = MaxRetries
    BY <1>1, <1>2, <1>4 DEF GiveUp
  <2>2. /\ requests' \in [Requests -> Progress]
        /\ \A r \in Requests \ {p.request} : requests'[r] = requests[r]
        /\ requests'[p.request].completed
        /\ requests'[p.request].attempts = requests[p.request].attempts + 1
    BY <1>1, <1>2, <2>1 DEF Progress
  <2>3. Completed(p)
    BY <1>2, <2>1, <2>2 DEF Completed
  <2>4. QED
    BY <2>3
<1>5. QED
  BY <1>3, <1>4 DEF scheduleRetry

\* Either way every request that is not completed has its one attempt pending.
LEMMA QueueStep ==
    ASSUME Typed, QueueInv, NEW p \in queue, Earliest(p), Requeued(p) \/ Completed(p)
    PROVE  /\ queue' \subseteq Pending /\ requests' \in [Requests -> Progress]
           /\ QueueInv'
           /\ \A q \in queue' : p.atMs <= q.atMs
<1>1. /\ p \in Pending /\ p.atMs \in Nat /\ p.request \in Requests
      /\ queue \subseteq Pending /\ requests \in [Requests -> Progress]
  BY PendingParts DEF Typed
<1>2. \A q \in queue : p.atMs <= q.atMs
  BY <1>1, PendingParts DEF Earliest, compareAttempts, Typed
<1>3. \A q \in queue \ {p} : q.request \in Requests /\ q.request # p.request
  BY <1>1, PendingParts DEF QueueInv
<1>4. CASE Requeued(p)
  <2>1. PICK q \in Pending :
            /\ q.request = p.request /\ q.attempt = p.attempt + 1 /\ q.atMs >= p.atMs
            /\ queue' = (queue \ {p}) \cup {q}
            /\ requests' = [requests EXCEPT ![p.request].attempts = @ + 1]
    BY <1>4 DEF Requeued
  <2>2. /\ requests' \in [Requests -> Progress]
        /\ \A r \in Requests \ {p.request} : requests'[r] = requests[r]
        /\ requests'[p.request].attempts = requests[p.request].attempts + 1
        /\ requests'[p.request].completed = requests[p.request].completed
    BY <1>1, <2>1 DEF Progress
  <2>3. ~requests[p.request].completed /\ p.attempt = requests[p.request].attempts
    BY DEF QueueInv
  <2>4. /\ \A o \in queue' : ~requests'[o.request].completed
                             /\ o.attempt = requests'[o.request].attempts
        /\ \A o, x \in queue' : o.request = x.request => o = x
    BY <1>3, <2>1, <2>2, <2>3 DEF QueueInv
  <2>5. \A r \in Requests : ~requests'[r].completed => \E o \in queue' : o.request = r
    <3> SUFFICES ASSUME NEW r \in Requests, ~requests'[r].completed
                 PROVE  \E o \in queue' : o.request = r
      OBVIOUS
    <3>1. CASE r = p.request
      BY <2>1, <3>1
    <3>2. CASE r # p.request
      <4>1. PICK o \in queue : o.request = r
        BY <2>2, <3>2 DEF QueueInv
      <4>2. QED
        BY <2>1, <3>2, <4>1
    <3>3. QED
      BY <3>1, <3>2
  <2>6. \A r \in Requests : requests'[r].completed /\ ~requests'[r].success
            => requests'[r].attempts = MaxRetries + 1
    BY <2>2, <2>3 DEF QueueInv
  <2>7. QueueInv'
    BY <2>4, <2>5, <2>6 DEF QueueInv
  <2>8. QED
    BY <1>1, <1>2, <2>1, <2>2, <2>7
<1>5. CASE Completed(p)
  <2>1. /\ queue' = queue \ {p}
        /\ requests' \in [Requests -> Progress]
        /\ \A r \in Requests \ {p.request} : requests'[r] = requests[r]
        /\ requests'[p.request].completed
        /\ requests'[p.request].success \/ requests'[p.request].attempts = MaxRetries + 1
    BY <1>5 DEF Completed
  <2>2. /\ \A o \in queue' : ~requests'[o.request].completed
                             /\ o.attempt = requests'[o.request].attempts
        /\ \A o, x \in queue' : o.request = x.request => o = x
    BY <1>3, <2>1 DEF QueueInv
  <2>3. \A r \in Requests : ~requests'[r].completed => \E o \in queue' : o.request = r
    <3> SUFFICES ASSUME NEW r \in Requests, ~requests'[r].completed
                 PROVE  \E o \in queue' : o.request = r
      OBVIOUS
    <3>1. r # p.request
      BY <2>1
    <3>2. PICK o \in queue : o.request = r
      BY <2>1, <3>1 DEF QueueInv
    <3>3. QED
      BY <2>1, <3>1, <3>2
  <2>4. \A r \in Requests : requests'[r].completed /\ ~requests'[r].success
            => requests'[r].attempts = MaxRetries + 1
    BY <2>1 DEF QueueInv
  <2>5. QueueInv'
    BY <2>2, <2>3, <2>4 DEF QueueInv
  <2>6. QED
    BY <1>1, <1>2, <2>1, <2>5
<1>6. QED
  BY <1>4, <1>5

-----------------------------------------------------------------------------

(* Breakers and turns.                                                     *)

\* The breaker of a node stays a breaker when it is advanced and when a failure is
\* recorded, and a closed one stays closed where there are no breakers.
LEMMA BreakerStep ==
    ASSUME config.enabled \in BOOLEAN, NEW b \in Breaker, NEW atMs \in Nat, NEW endMs \in Nat
    PROVE  /\ advanceBreaker(b, atMs) \in Breaker
           /\ breakerFailed(b, endMs) \in Breaker
           /\ ~config.enabled => advanceBreaker(b, atMs) = b /\ breakerFailed(b, endMs) = b
<1>1. OpenMs \in Nat /\ FailureThreshold \in Nat /\ None \in Nat
  BY RecoveryAssumption DEF None
<1>2. advanceBreaker(b, atMs) \in Breaker
  BY <1>1 DEF advanceBreaker, Breaker
<1>3. breakerFailed(b, endMs) \in Breaker
  BY <1>1 DEF breakerFailed, Breaker
<1>4. QED
  BY <1>2, <1>3 DEF advanceBreaker, breakerFailed

\* A breaker that has been reset is a breaker.
LEMMA ClosedIsBreaker == Closed \in Breaker
BY DEF Closed, Breaker, None

\* A turn: what it leaves of the service, given the service it found.
TurnInv(p) ==
    /\ service' \in Service /\ FoundFailing(service') /\ PromotedBy(service', p.atMs)
    /\ breakers' \in [Nodes -> Breaker]
    /\ passiveFailures' \in [Nodes -> Nat]
    /\ BreakersOff'
    /\ attempt'.startMs = p.atMs
    /\ attempt'.outcome \in {"backend-failed", "success", "circuit-open"}
           => \/ service'.failover = NoFailover
              \/ service'.failover.completed
              \/ p.atMs < service'.failover.detectedAtMs
    /\ Requeued(p) \/ Completed(p)

\* An attempt that is refused changes nothing but the queue.
LEMMA RefusedStep ==
    ASSUME Typed, QueueInv, BreakersOff, UNCHANGED config,
           NEW p \in queue, NEW s \in Service, FoundFailing(s), PromotedBy(s, p.atMs),
           NEW n, NEW before,
           NEW outcome \in {"failover-in-progress", "no-active-node", "circuit-open"},
           Refused(p, s, n, outcome, before),
           outcome = "circuit-open" => ~FailingOver(p, s)
    PROVE  TurnInv(p)
<1>1. p.atMs \in Nat
  BY PendingParts DEF Typed
<1>2. Requeued(p) \/ Completed(p)
  BY <1>1, ScheduleStep DEF Refused
<1>3. /\ service' = s /\ breakers' = breakers /\ passiveFailures' = passiveFailures
      /\ attempt' = [request |-> p.request, startMs |-> p.atMs, endMs |-> p.atMs, nodeId |-> n,
                     outcome |-> outcome, circuitStateBefore |-> before]
  BY DEF Refused, Recorded
<1>4. /\ attempt'.startMs = p.atMs
      /\ attempt'.outcome = outcome
  BY <1>3
<1>5. outcome = "circuit-open" =>
          \/ s.failover = NoFailover \/ s.failover.completed \/ p.atMs < s.failover.detectedAtMs
  <2>1. s.failover \in Failover \cup {NoFailover}
    BY ServiceParts
  <2>2. QED
    BY <1>1, <2>1 DEF FailingOver, Failover
<1>6. BreakersOff'
  BY <1>3 DEF BreakersOff
<1>7. /\ FoundFailing(service') /\ PromotedBy(service', p.atMs)
      /\ service' \in Service /\ breakers' \in [Nodes -> Breaker]
      /\ passiveFailures' \in [Nodes -> Nat]
  BY <1>3 DEF Typed
<1>8. QED
  BY <1>2, <1>3, <1>4, <1>5, <1>6, <1>7 DEF TurnInv

\* The breaker an attempt finds is a breaker, and a closed one where there are none.
LEMMA FoundBreaker ==
    ASSUME Typed, BreakersOff, NEW p \in queue, NEW s \in Service, s.active # None
    PROVE  /\ s.active \in Nodes
           /\ BreakerAt(p, s) \in Breaker
           /\ ~config.enabled => BreakerAt(p, s) = Closed
<1>1. s.active \in Nodes /\ p.atMs \in Nat
  BY ServiceParts, PendingParts DEF Typed
<1>2. breakers[s.active] \in Breaker /\ config.enabled \in BOOLEAN
  BY <1>1 DEF Typed, ConfigOk
<1>3. QED
  BY <1>1, <1>2, BreakerStep DEF BreakerAt, BreakersOff

\* A failed attempt is recorded at its end: a failover it starts is detected after it.
LEMMA FailsStep ==
    ASSUME Typed, QueueInv, BreakersOff, UNCHANGED config,
           NEW p \in queue, NEW s \in Service, FoundFailing(s), PromotedBy(s, p.atMs),
           BackendFails(p, s)
    PROVE  TurnInv(p)
<1> DEFINE endMs == p.atMs + AttemptTimeoutMs
<1>1. p.atMs \in Nat /\ endMs \in Nat /\ endMs > p.atMs
  BY PendingParts, RecoveryAssumption DEF Typed
<1>2. ~FailingOver(p, s) /\ s.active # None
  BY DEF BackendFails, ReachesNode, Routed
<1>3. /\ s.active \in Nodes
      /\ BreakerAt(p, s) \in Breaker
      /\ ~config.enabled => BreakerAt(p, s) = Closed
  BY <1>2, FoundBreaker
<1>4. Requeued(p) \/ Completed(p)
  <2>1. scheduleRetry(p, endMs) /\ endMs >= p.atMs
    BY <1>1 DEF BackendFails
  <2> HIDE DEF endMs
  <2>2. QED
    BY <1>1, <2>1, ScheduleStep
<1>5. /\ attempt'.startMs = p.atMs
      /\ attempt'.outcome = "backend-failed"
  BY DEF BackendFails, Recorded
<1>6. service' = PassivelyDetected(s, endMs)
  BY DEF BackendFails
<1>7. \/ s.failover = NoFailover \/ s.failover.completed \/ p.atMs < s.failover.detectedAtMs
  <2>1. s.failover \in Failover \cup {NoFailover}
    BY ServiceParts
  <2>2. QED
    BY <1>1, <1>2, <2>1 DEF FailingOver, Failover
<1>8. /\ service' \in Service /\ FoundFailing(service') /\ PromotedBy(service', p.atMs)
      /\ \/ service'.failover = NoFailover
         \/ service'.failover.completed
         \/ p.atMs < service'.failover.detectedAtMs
  <2>1. CASE service' = s
    BY <1>7, <2>1
  <2>2. CASE /\ config.healthCheckMode = "passive"
             /\ service' = markUnhealthy(s, s.active, endMs)
    <3> DEFINE t == markUnhealthy(s, s.active, endMs)
               f == [fromNodeId |-> s.active, detectedAtMs |-> endMs,
                     completeAtMs |-> endMs + FailoverDelayMs, completed |-> FALSE]
    <3>1. t \in Service /\ (t.failover = s.failover \/ t.failover = f)
      <4> HIDE DEF endMs
      <4>1. QED
        BY <1>1, <1>3, MarkStep
    <3>2. f.detectedAtMs = endMs /\ f.completed = FALSE
      OBVIOUS
    <3> HIDE DEF t, f
    <3>3. FoundFailing(t)
      BY <2>2 DEF FoundFailing
    <3>4. CASE t.failover = s.failover
      <4>1. PromotedBy(t, p.atMs)
        BY <3>4 DEF PromotedBy
      <4>2. service' = t
        BY <2>2 DEF t
      <4>3. QED
        BY <1>7, <3>1, <3>3, <3>4, <4>1, <4>2
    <3>5. CASE t.failover = f
      <4>1. PromotedBy(t, p.atMs) /\ p.atMs < t.failover.detectedAtMs
        BY <1>1, <3>2, <3>5 DEF PromotedBy
      <4>2. service' = t
        BY <2>2 DEF t
      <4>3. QED
        BY <3>1, <3>3, <4>1, <4>2
    <3>6. QED
      BY <3>1, <3>4, <3>5
  <2>3. QED
    BY <1>6, <2>1, <2>2 DEF PassivelyDetected, Observed
<1>9. passiveFailures' \in [Nodes -> Nat]
  <2>1. passiveFailures \in [Nodes -> Nat]
    BY DEF Typed
  <2>2. passiveFailures' = [passiveFailures EXCEPT ![s.active] = @ + 1]
        \/ passiveFailures' = passiveFailures
    BY DEF BackendFails
  <2>3. QED
    BY <1>3, <2>1, <2>2
<1>10. breakers' \in [Nodes -> Breaker] /\ BreakersOff'
  <2> DEFINE b == breakerFailed(BreakerAt(p, s), endMs)
  <2>1. b \in Breaker /\ (~config.enabled => b = Closed)
    <3> HIDE DEF endMs
    <3>1. config.enabled \in BOOLEAN
      BY DEF Typed, ConfigOk
    <3>2. QED
      BY <1>1, <1>3, <3>1, BreakerStep
  <2>2. breakers' = [breakers EXCEPT ![s.active] = b]
    BY DEF BackendFails
  <2> HIDE DEF b
  <2>3. breakers \in [Nodes -> Breaker] /\ config' = config
    BY DEF Typed
  <2>4. breakers' \in [Nodes -> Breaker]
    BY <1>3, <2>1, <2>2, <2>3
  <2>5. BreakersOff'
    BY <1>3, <2>1, <2>2, <2>3 DEF BreakersOff
  <2>6. QED
    BY <2>4, <2>5
<1>11. QED
  BY <1>4, <1>5, <1>8, <1>9, <1>10 DEF TurnInv

\* An answered request is completed and its node's breaker closed.
LEMMA AnswersStep ==
    ASSUME Typed, QueueInv, BreakersOff, UNCHANGED config,
           NEW p \in queue, NEW s \in Service, FoundFailing(s), PromotedBy(s, p.atMs),
           BackendAnswers(p, s)
    PROVE  TurnInv(p)
<1>1. p.atMs \in Nat /\ p.request \in Requests
  BY PendingParts DEF Typed
<1>2. ~FailingOver(p, s) /\ s.active \in Nodes
  BY FoundBreaker DEF BackendAnswers, ReachesNode, Routed
<1>3. \/ s.failover = NoFailover \/ s.failover.completed \/ p.atMs < s.failover.detectedAtMs
  <2>1. s.failover \in Failover \cup {NoFailover}
    BY ServiceParts
  <2>2. QED
    BY <1>1, <1>2, <2>1 DEF FailingOver, Failover
<1>4. Completed(p)
  <2>1. requests \in [Requests -> Progress]
    BY DEF Typed
  <2>2. /\ queue' = queue \ {p}
        /\ requests' = [requests EXCEPT ![p.request] =
                           [attempts |-> requests[p.request].attempts + 1,
                            completed |-> TRUE, success |-> TRUE]]
    BY DEF BackendAnswers
  <2>3. [attempts |-> requests[p.request].attempts + 1,
         completed |-> TRUE, success |-> TRUE] \in Progress
    BY <1>1, <2>1 DEF Progress
  <2>4. /\ requests' \in [Requests -> Progress]
        /\ \A r \in Requests \ {p.request} : requests'[r] = requests[r]
    BY <1>1, <2>1, <2>2, <2>3
  <2>5. requests'[p.request].completed /\ requests'[p.request].success
    BY <1>1, <2>1, <2>2
  <2>6. QED
    BY <2>2, <2>4, <2>5 DEF Completed
<1>5. /\ service' = s
      /\ passiveFailures' = [passiveFailures EXCEPT ![s.active] = 0]
      /\ breakers' = [breakers EXCEPT ![s.active] = Closed]
      /\ attempt'.startMs = p.atMs
  BY DEF BackendAnswers, Recorded
<1>6. /\ breakers' \in [Nodes -> Breaker] /\ passiveFailures' \in [Nodes -> Nat]
  BY <1>2, <1>5, ClosedIsBreaker DEF Typed
<1>7. BreakersOff'
  BY <1>2, <1>5 DEF BreakersOff, Typed
<1>8. QED
  BY <1>3, <1>4, <1>5, <1>6, <1>7 DEF TurnInv

\* The service an attempt finds is one that its failover's detection and promotion allow.
LEMMA FoundService ==
    ASSUME IInv, NEW p \in queue
    PROVE  LET s == advanceInfrastructure(p.atMs)
           IN  s \in Service /\ FoundFailing(s) /\ PromotedBy(s, p.atMs)
<1> DEFINE s == advanceInfrastructure(p.atMs)
<1>1. Typed /\ p.atMs \in Nat
  BY PendingParts DEF IInv, Typed
<1>2. s \in Service /\ FoundFailing(s) /\ PromotedBy(s, p.atMs)
  <2>1. FoundFailing(service)
    BY DEF IInv, DetectedWhileFailing, FoundFailing
  <2>2. PromotedBy(service, p.atMs)
    <3>1. /\ service.failover.completed => service.failover.completeAtMs <= attempt.startMs
          /\ attempt.startMs <= p.atMs /\ attempt.startMs \in Nat /\ service \in Service
      BY DEF IInv, TimeInv, PromotedBy, Typed
    <3>2. service.failover.completed => service.failover.completeAtMs \in Nat
      BY <3>1, ServiceParts DEF Failover, NoFailover
    <3>3. QED
      BY <1>1, <3>1, <3>2 DEF PromotedBy
  <2>3. QED
    BY <1>1, <2>1, <2>2, AdvanceStep DEF Typed
<1>3. QED
  BY <1>2

\* Every turn is one of these.
LEMMA TurnStep ==
    ASSUME IInv, UNCHANGED config, NEW p \in queue, Earliest(p), Turn(p)
    PROVE  TurnInv(p)
<1> DEFINE s == advanceInfrastructure(p.atMs)
<1>1. Typed /\ QueueInv /\ BreakersOff /\ p.atMs \in Nat
  BY PendingParts DEF IInv, Typed
<1>2. s \in Service /\ FoundFailing(s) /\ PromotedBy(s, p.atMs)
  BY FoundService
<1>3. \/ FailoverInProgress(p, s) \/ NoActiveNode(p, s) \/ CircuitOpen(p, s)
      \/ BackendFails(p, s) \/ BackendAnswers(p, s)
  BY DEF Turn
<1> HIDE DEF s
<1>4. CASE FailoverInProgress(p, s)
  BY <1>1, <1>2, <1>4, RefusedStep DEF FailoverInProgress
<1>5. CASE NoActiveNode(p, s)
  BY <1>1, <1>2, <1>5, RefusedStep DEF NoActiveNode
<1>6. CASE CircuitOpen(p, s)
  BY <1>1, <1>2, <1>6, RefusedStep DEF CircuitOpen, Routed
<1>7. CASE BackendFails(p, s)
  BY <1>1, <1>2, <1>7, FailsStep
<1>8. CASE BackendAnswers(p, s)
  BY <1>1, <1>2, <1>8, AnswersStep
<1>9. QED
  BY <1>3, <1>4, <1>5, <1>6, <1>7, <1>8

-----------------------------------------------------------------------------

(* The invariant, from the first turn on.                                  *)

\* Before the first attempt every request is pending and nothing has failed.
LEMMA InitInvariant == RecoveryInit => IInv
<1> SUFFICES ASSUME RecoveryInit PROVE IInv
  OBVIOUS
<1>1. /\ NodeCount \in Nat \ {0, 1} /\ IntervalMs \in Nat /\ MaxRetries \in Nat
      /\ HealthCheckModes \subseteq {"active", "passive"} /\ BreakerEnabled \subseteq BOOLEAN
  BY RecoveryAssumption
<1>2. ConfigOk
  BY <1>1 DEF RecoveryInit, Configurations, ConfigOk
<1>3. queue \subseteq Pending
  <2> SUFFICES ASSUME NEW r \in Requests
               PROVE  [atMs |-> (r - 1) * IntervalMs, request |-> r, attempt |-> 0] \in Pending
    BY DEF RecoveryInit, Configurations
  <2>1. r - 1 \in Nat
    BY RecoveryAssumption DEF Requests
  <2>2. (r - 1) * IntervalMs \in Nat
    BY <1>1, <2>1, Product
  <2>3. QED
    BY <1>1, <2>2 DEF Pending
<1>4. requests \in [Requests -> Progress]
  BY DEF RecoveryInit, Configurations, Progress
<1>5. /\ breakers \in [Nodes -> Breaker] /\ passiveFailures \in [Nodes -> Nat]
      /\ BreakersOff
  BY ClosedIsBreaker DEF RecoveryInit, Configurations, BreakersOff
<1>6. service = [active |-> 1, marked |-> {}, failover |-> NoFailover] /\ 1 \in Nodes
  BY <1>1 DEF RecoveryInit, Configurations, Nodes
<1>7. service \in Service /\ service.failover = NoFailover
  BY <1>6 DEF Service
<1>8. attempt.startMs = 0
  BY DEF RecoveryInit, Configurations
<1>9. Typed
  BY <1>2, <1>3, <1>4, <1>5, <1>7, <1>8 DEF Typed
<1>10. QueueInv
  <2> DEFINE arrival(r) == [atMs |-> (r - 1) * IntervalMs, request |-> r, attempt |-> 0]
  <2>1. queue = {arrival(r) : r \in Requests}
    BY DEF RecoveryInit, Configurations
  <2>2. \A r \in Requests : arrival(r).request = r /\ arrival(r).attempt = 0
    OBVIOUS
  <2>3. \A r \in Requests : requests[r].attempts = 0 /\ ~requests[r].completed
    BY DEF RecoveryInit, Configurations
  <2> HIDE DEF arrival
  <2>4. \A p \in queue : p.request \in Requests /\ p = arrival(p.request) /\ p.attempt = 0
    BY <2>1, <2>2
  <2>5. \A r \in Requests : arrival(r) \in queue
    BY <2>1
  <2>6. QED
    BY <2>2, <2>3, <2>4, <2>5 DEF QueueInv
<1>11. TimeInv
  <2>1. PromotedBy(service, attempt.startMs)
    BY <1>7 DEF PromotedBy, NoFailover
  <2>2. QED
    BY <1>3, <1>8, <2>1 DEF TimeInv, Pending
<1>12. NoBackendDuringFailover /\ DetectedWhileFailing
  BY <1>7 DEF NoBackendDuringFailover, DetectedWhileFailing
<1>13. QED
  BY <1>5, <1>9, <1>10, <1>11, <1>12 DEF IInv

\* Every turn of the loop keeps the invariant.
LEMMA NextInvariant == IInv /\ [RecoveryNext]_recovering => IInv'
<1> SUFFICES ASSUME IInv, [RecoveryNext]_recovering PROVE IInv'
  OBVIOUS
<1>1. CASE UNCHANGED recovering
  BY <1>1 DEF recovering, IInv, Typed, ConfigOk, QueueInv, TimeInv, PromotedBy,
     NoBackendDuringFailover, DetectedWhileFailing, isPhysicallyFailed, BreakersOff
<1>2. ASSUME NEW p \in queue, Earliest(p), Turn(p), UNCHANGED config
      PROVE  IInv'
  <2>1. TurnInv(p) /\ Typed /\ QueueInv
    BY <1>2, TurnStep DEF IInv
  <2>2. /\ queue' \subseteq Pending /\ requests' \in [Requests -> Progress]
        /\ QueueInv'
        /\ \A q \in queue' : p.atMs <= q.atMs
    BY <1>2, <2>1, QueueStep DEF TurnInv
  <2>3. p.atMs \in Nat
    BY <2>1, PendingParts DEF Typed
  <2>4. Typed'
    BY <1>2, <2>1, <2>2, <2>3 DEF Typed, ConfigOk, TurnInv
  <2>5. TimeInv'
    BY <2>1, <2>2 DEF TimeInv, TurnInv, PromotedBy
  <2>6. DetectedWhileFailing'
    BY <1>2, <2>1 DEF DetectedWhileFailing, TurnInv, FoundFailing, isPhysicallyFailed
  <2>7. NoBackendDuringFailover'
    <3> SUFFICES ASSUME attempt'.outcome \in {"backend-failed", "success", "circuit-open"},
                        service'.failover # NoFailover,
                        service'.failover.detectedAtMs <= p.atMs,
                        p.atMs < service'.failover.completeAtMs
                 PROVE  FALSE
      BY <2>1 DEF NoBackendDuringFailover, TurnInv
    <3>1. service'.failover \in Failover
      BY <2>1, ServiceParts DEF TurnInv
    <3>2. service'.failover.completed \/ p.atMs < service'.failover.detectedAtMs
      BY <2>1 DEF TurnInv
    <3>3. service'.failover.completed => service'.failover.completeAtMs <= p.atMs
      BY <2>1 DEF TurnInv, PromotedBy
    <3>4. QED
      BY <2>3, <3>1, <3>2, <3>3 DEF Failover
  <2>8. BreakersOff'
    BY <2>1 DEF TurnInv
  <2>9. QED
    BY <2>2, <2>4, <2>5, <2>6, <2>7, <2>8 DEF IInv
<1>3. QED
  BY <1>1, <1>2 DEF RecoveryNext

\* The inductive invariant of the simulation: its queue is its unfinished requests, its
\* turns follow time, and its failover is what the checks found.
THEOREM RecoveryInvariant == RecoverySpec => []IInv
BY InitInvariant, NextInvariant, PTL DEF RecoverySpec

\* As many attempts are pending as requests are not completed.
LEMMA PendingCount ==
    ASSUME Typed, QueueInv
    PROVE  Cardinality(queue) = Cardinality({r \in Requests : ~requests[r].completed})
<1> DEFINE Open == {r \in Requests : ~requests[r].completed}
           f == [p \in queue |-> p.request]
<1>1. Open \subseteq Requests /\ IsFiniteSet(Requests)
  <2>1. RequestCount \in Int /\ 1 \in Int
    BY RecoveryAssumption
  <2>2. IsFiniteSet(Requests)
    BY <2>1, FS_Interval DEF Requests
  <2>3. QED
    BY <2>2
<1>2. IsFiniteSet(Open)
  BY <1>1, FS_Subset
<1>3. \A p \in queue : p.request \in Open
  BY PendingParts DEF Typed, QueueInv
<1>4. f \in [queue -> Open]
  BY <1>3
<1>5. \A p, q \in queue : f[p] = f[q] => p = q
  BY DEF QueueInv
<1>6. \A r \in Open : \E p \in queue : f[p] = r
  BY DEF QueueInv
<1> HIDE DEF f, Open
<1>7. ExistsBijection(queue, Open)
  BY <1>4, <1>5, <1>6 DEF ExistsBijection, Bijection, Injection, Surjection, IsInjective
<1>8. ExistsBijection(Open, queue)
  BY <1>7, Fun_ExistsBijSymmetric
<1>9. Cardinality(queue) = Cardinality(Open)
  BY <1>2, <1>8, FS_Bijection
<1>10. QED
  BY <1>9 DEF Open

\* However attempts fail, are refused or retried, each unfinished request has exactly its
\* next attempt pending, and one is given up only after every retry (scheduleRetry).
THEOREM PendingOnce == RecoverySpec => []EachRequestIsPendingOnce
<1>1. IInv => EachRequestIsPendingOnce
  <2> SUFFICES ASSUME IInv PROVE EachRequestIsPendingOnce
    OBVIOUS
  <2>1. Typed /\ QueueInv
    BY DEF IInv
  <2>2. ASSUME NEW r \in Requests, requests[r].completed PROVE \A p \in queue : p.request # r
    BY <2>1, <2>2 DEF QueueInv
  <2>3. ASSUME NEW r \in Requests, ~requests[r].completed
        PROVE  {p.attempt : p \in {q \in queue : q.request = r}} = {requests[r].attempts}
    <3>1. PICK o \in queue : o.request = r
      BY <2>1, <2>3 DEF QueueInv
    <3>2. {q \in queue : q.request = r} = {o}
      BY <2>1, <3>1 DEF QueueInv
    <3>3. o.attempt = requests[r].attempts
      BY <2>1, <3>1 DEF QueueInv
    <3>4. QED
      BY <3>2, <3>3
  <2>4. \A r \in Requests : requests[r].completed /\ ~requests[r].success
            => requests[r].attempts = MaxRetries + 1
    BY <2>1 DEF QueueInv
  <2>5. Cardinality(queue) = Cardinality({r \in Requests : ~requests[r].completed})
    BY <2>1, PendingCount
  <2>6. QED
    BY <2>2, <2>3, <2>4, <2>5 DEF EachRequestIsPendingOnce
<1>2. QED
  BY <1>1, RecoveryInvariant, PTL

\* Between the detection of a failure and the promotion of a standby no attempt reaches a
\* node, although the failures that start a failover are recorded in the future.
THEOREM FailoverStopsTraffic == RecoverySpec => []NoBackendDuringFailover
<1>1. IInv => NoBackendDuringFailover
  BY DEF IInv
<1>2. QED
  BY <1>1, RecoveryInvariant, PTL

\* Active checks start a failover only at a moment at which its node is failing.
THEOREM DetectionIsTrue == RecoverySpec => []DetectedWhileFailing
<1>1. IInv => DetectedWhileFailing
  BY DEF IInv
<1>2. QED
  BY <1>1, RecoveryInvariant, PTL

-----------------------------------------------------------------------------

(* Breakers isolate nodes.                                                 *)

\* What a turn may do to the breakers.
Isolated ==
    \A n \in Nodes :
        /\ breakers'[n] # breakers[n] =>
               attempt'.nodeId = n /\ attempt'.outcome \in {"backend-failed", "success"}
        /\ breakers'[n] # breakers[n] /\ breakers[n].state = "open" =>
               /\ attempt'.startMs >= breakers[n].reopenAtMs
               /\ breakers'[n].state = IF attempt'.outcome = "success" THEN "closed" ELSE "open"
        /\ attempt'.nodeId = n /\ attempt'.outcome = "success" => breakers'[n] = Closed

\* An open breaker lets a probe through only after its interval, and a probe that fails
\* opens it again.
LEMMA OpenBreaker ==
    ASSUME Typed, BreakersOff, NEW p \in queue, NEW s \in Service, NEW endMs \in Nat,
           ReachesNode(p, s), breakers[s.active].state = "open"
    PROVE  /\ p.atMs >= breakers[s.active].reopenAtMs
           /\ breakerFailed(BreakerAt(p, s), endMs).state = "open"
<1>1. s.active \in Nodes
  BY FoundBreaker DEF ReachesNode, Routed
<1>2. config.enabled
  <2>1. config.enabled \in BOOLEAN
    BY DEF Typed, ConfigOk
  <2>2. QED
    BY <1>1, <2>1 DEF BreakersOff, Closed
<1>3. BreakerAt(p, s).state # "open"
  BY <1>2 DEF ReachesNode
<1>4. p.atMs >= breakers[s.active].reopenAtMs
  BY <1>2, <1>3 DEF BreakerAt, advanceBreaker
<1>5. BreakerAt(p, s) = [breakers[s.active] EXCEPT !.state = "half-open", !.reopenAtMs = None]
  BY <1>2, <1>4 DEF BreakerAt, advanceBreaker
<1>6. BreakerAt(p, s).state = "half-open"
  BY <1>1, <1>5 DEF Typed, Breaker
<1>7. breakerFailed(BreakerAt(p, s), endMs).state = "open"
  BY <1>2, <1>6 DEF breakerFailed
<1>8. QED
  BY <1>4, <1>7

\* Every turn treats the breakers that way.
LEMMA TurnIsolates ==
    ASSUME IInv, UNCHANGED config, NEW p \in queue, Earliest(p), Turn(p)
    PROVE  Isolated
<1> DEFINE s == advanceInfrastructure(p.atMs)
<1>1. Typed /\ QueueInv /\ BreakersOff /\ p.atMs \in Nat
  BY PendingParts DEF IInv, Typed
<1>2. s \in Service
  BY FoundService
<1>3. \/ FailoverInProgress(p, s) \/ NoActiveNode(p, s) \/ CircuitOpen(p, s)
      \/ BackendFails(p, s) \/ BackendAnswers(p, s)
  BY DEF Turn
<1> HIDE DEF s
<1>4. CASE FailoverInProgress(p, s) \/ NoActiveNode(p, s) \/ CircuitOpen(p, s)
  <2>1. /\ breakers' = breakers
        /\ attempt'.outcome \in {"failover-in-progress", "no-active-node", "circuit-open"}
    BY <1>4 DEF FailoverInProgress, NoActiveNode, CircuitOpen, Refused, Recorded
  <2>2. QED
    BY <2>1 DEF Isolated
<1>5. CASE BackendFails(p, s)
  <2> DEFINE endMs == p.atMs + AttemptTimeoutMs
             b == breakerFailed(BreakerAt(p, s), endMs)
  <2>1. endMs \in Nat
    BY <1>1, RecoveryAssumption
  <2>2. ReachesNode(p, s) /\ s.active \in Nodes
    BY <1>1, <1>2, <1>5, FoundBreaker DEF BackendFails, ReachesNode, Routed
  <2>3. /\ breakers' = [breakers EXCEPT ![s.active] = b]
        /\ attempt'.nodeId = s.active /\ attempt'.outcome = "backend-failed"
        /\ attempt'.startMs = p.atMs
    BY <1>5 DEF BackendFails, Recorded
  <2>4. breakers[s.active].state = "open" =>
            p.atMs >= breakers[s.active].reopenAtMs /\ b.state = "open"
    <3> HIDE DEF endMs
    <3>1. QED
      BY <1>1, <1>2, <2>1, <2>2, OpenBreaker
  <2> HIDE DEF b
  <2>5. breakers \in [Nodes -> Breaker]
    BY <1>1 DEF Typed
  <2>6. QED
    BY <2>2, <2>3, <2>4, <2>5 DEF Isolated
<1>6. CASE BackendAnswers(p, s)
  <2>1. ReachesNode(p, s) /\ s.active \in Nodes
    BY <1>1, <1>2, <1>6, FoundBreaker DEF BackendAnswers, ReachesNode, Routed
  <2>2. /\ breakers' = [breakers EXCEPT ![s.active] = Closed]
        /\ attempt'.nodeId = s.active /\ attempt'.outcome = "success"
        /\ attempt'.startMs = p.atMs
    BY <1>6 DEF BackendAnswers, Recorded
  <2>3. breakers[s.active].state = "open" => p.atMs >= breakers[s.active].reopenAtMs
    BY <1>1, <1>2, <2>1, OpenBreaker
  <2>4. breakers \in [Nodes -> Breaker] /\ Closed.state = "closed"
    BY <1>1 DEF Typed, Closed
  <2>5. QED
    BY <2>1, <2>2, <2>3, <2>4 DEF Isolated
<1>7. QED
  BY <1>3, <1>4, <1>5, <1>6

\* No node's breaker moves by what another node did, and an open one is left only by a
\* probe after its interval.
THEOREM BreakersIsolate == RecoverySpec => BreakersIsolateNodes
<1>1. IInv /\ [RecoveryNext]_recovering => [Isolated]_recovering
  BY TurnIsolates DEF RecoveryNext
<1>2. QED
  BY <1>1, RecoveryInvariant, PTL DEF RecoverySpec, BreakersIsolateNodes, Isolated

-----------------------------------------------------------------------------

(* The exhibits of the /global page: what choosing and adding up give. *)

\* The least number of a set is its minimum.
LEMMA LeastIsMin ==
    ASSUME NEW S \in SUBSET Nat, S # {}
    PROVE  Min(S) \in S /\ \A x \in S : Min(S) <= x
<1>1. \E m \in S : \A x \in S : m <= x
  BY LeastExists
<1>2. QED
  BY <1>1, Zenon DEF Min

\* The largest element of a bounded set of numbers.
LEMMA LargestIsMax ==
    ASSUME NEW S \in SUBSET Nat, S # {}, NEW b \in Nat, \A x \in S : x <= b
    PROVE  Max(S) \in S /\ Max(S) \in Nat /\ \A x \in S : x <= Max(S)
<1> DEFINE T == {b - x : x \in S}
<1>1. T \in SUBSET Nat /\ T # {}
  <2>1. \A x \in S : x \in Nat /\ x <= b /\ b - x \in Nat
    OBVIOUS
  <2>2. T # {}
    OBVIOUS
  <2>3. QED
    BY <2>1, <2>2
<1> HIDE DEF T
<1>2. PICK m \in T : \A y \in T : ~(<<y, m>> \in OpToRel(<, Nat))
  BY <1>1, NatLessThanWellFounded, WFMin
<1>3. \A y \in T : m <= y
  <2>1. \A y \in T : ~(y < m)
    BY <1>1, <1>2 DEF OpToRel
  <2>2. QED
    BY <1>1, <2>1
<1>4. PICK x \in S : m = b - x
  BY DEF T
<1>5. \A y \in S : x >= y
  <2>1. \A y \in S : b - y \in T
    BY DEF T
  <2>2. \A y \in S : b - x <= b - y
    BY <1>3, <1>4, <2>1
  <2>3. QED
    BY <2>2
<1>6. Max(S) \in S /\ \A y \in S : Max(S) >= y
  BY <1>5 DEF Max
<1>7. QED
  BY <1>6

\* The later of two moments.
LEMMA LaterOfTwo ==
    ASSUME NEW a \in Nat, NEW b \in Nat
    PROVE  Max({a, b}) = IF a <= b THEN b ELSE a
<1> DEFINE m == IF a <= b THEN b ELSE a
<1>1. {a, b} \in SUBSET Nat /\ {a, b} # {} /\ m \in Nat /\ \A x \in {a, b} : x <= m
  OBVIOUS
<1>2. Max({a, b}) \in {a, b} /\ \A x \in {a, b} : x <= Max({a, b})
  BY <1>1, LargestIsMax
<1>3. QED
  BY <1>2

\* A set and its image under a function that keeps elements apart have the same size.
LEMMA SameSize ==
    ASSUME NEW K, IsFiniteSet(K), NEW f, DOMAIN f = K, f \in [K -> {f[k] : k \in K}],
           \A k, l \in K : f[k] = f[l] => k = l
    PROVE  LET W == {f[k] : k \in K}
           IN  IsFiniteSet(W) /\ Cardinality(W) = Cardinality(K) /\ Cardinality(K) \in Nat
<1> DEFINE W == {f[k] : k \in K}
<1>1. \A w \in W : \E k \in K : f[k] = w
  OBVIOUS
<1> HIDE DEF W
<1>2. f \in Bijection(K, W)
  BY <1>1 DEF Bijection, Injection, Surjection, IsInjective, W
<1>3. IsFiniteSet(W) /\ Cardinality(W) = Cardinality(K)
  BY <1>2, FS_Bijection DEF ExistsBijection
<1>4. Cardinality(K) \in Nat
  BY FS_CardinalityType
<1>5. QED
  BY <1>3, <1>4 DEF W

-----------------------------------------------------------------------------

(* Sums over finite sets: the community modules' folds define a function on the subsets of a *)
(* set, by recursion on one element chosen at a time.                                         *)

AnyOf(s) == CHOOSE x \in s : TRUE

\* The recursion by which h sums g over each subset of S.
Adds(h, S, g) ==
    h = [s \in SUBSET S |-> IF s = {} THEN 0 ELSE g[AnyOf(s)] + h[s \ {AnyOf(s)}]]

Sums(h, S, g) == h \in [SUBSET S -> Int] /\ Adds(h, S, g)

LEMMA Smaller ==
    ASSUME NEW S, IsFiniteSet(S), NEW s \in SUBSET S
    PROVE  /\ IsFiniteSet(s) /\ Cardinality(s) \in Nat /\ Cardinality(s) <= Cardinality(S)
           /\ Cardinality(S) \in Nat
           /\ s # {} => /\ AnyOf(s) \in s /\ AnyOf(s) \in S /\ s \ {AnyOf(s)} \in SUBSET S
                        /\ Cardinality(s \ {AnyOf(s)}) = Cardinality(s) - 1
                        /\ Cardinality(s) # 0
<1>1. IsFiniteSet(s) /\ Cardinality(s) <= Cardinality(S)
  BY FS_Subset
<1>2. Cardinality(s) \in Nat /\ Cardinality(S) \in Nat
  BY <1>1, FS_CardinalityType
<1>3. s # {} => AnyOf(s) \in s
  BY DEF AnyOf
<1> DEFINE a == AnyOf(s)
<1> HIDE DEF a
<1>4. s # {} => Cardinality(s \ {a}) = Cardinality(s) - 1
  BY <1>1, <1>3, FS_RemoveElement DEF a
<1>5. s # {} => Cardinality(s) # 0
  BY <1>1, FS_EmptySet
<1>6. QED
  BY <1>1, <1>2, <1>3, <1>4, <1>5 DEF a

\* The recursion defines a sum.
LEMMA SumsExist ==
    ASSUME NEW S, IsFiniteSet(S), NEW g, \A x \in S : g[x] \in Int
    PROVE  \E h \in [SUBSET S -> Int] : Sums(h, S, g)
<1> DEFINE Sub(n) == {s \in SUBSET S : Cardinality(s) <= n}
           Step(h, s) == IF s = {} THEN 0 ELSE g[AnyOf(s)] + h[s \ {AnyOf(s)}]
           Good(n) == \E h \in [Sub(n) -> Int] : \A s \in Sub(n) : h[s] = Step(h, s)
           bad == {n \in Nat : ~Good(n)}
<1>1. \A s \in SUBSET S :
          /\ Cardinality(s) \in Nat /\ Cardinality(s) <= Cardinality(S) /\ Cardinality(S) \in Nat
          /\ s # {} => /\ AnyOf(s) \in S /\ s \ {AnyOf(s)} \in SUBSET S
                       /\ Cardinality(s \ {AnyOf(s)}) = Cardinality(s) - 1 /\ Cardinality(s) # 0
  BY Smaller
<1>2. Good(0)
  <2> DEFINE h == [s \in Sub(0) |-> 0]
  <2>1. h \in [Sub(0) -> Int]
    OBVIOUS
  <2>2. ASSUME NEW s \in Sub(0) PROVE h[s] = Step(h, s)
    <3>1. s \in SUBSET S /\ Cardinality(s) <= 0
      OBVIOUS
    <3> HIDE DEF Sub, Step, h, bad
    <3>2. s = {}
      <4>1. Cardinality(s) \in Nat /\ (s # {} => Cardinality(s) # 0)
        BY <1>1, <3>1, Zenon
      <4>2. QED
        BY <3>1, <4>1
    <3>3. QED
      BY <3>2 DEF Step, h
  <2> HIDE DEF h
  <2>3. QED
    BY <2>1, <2>2
<1>3. ASSUME NEW n \in Nat, Good(n) PROVE Good(n + 1)
  <2>1. PICK h \in [Sub(n) -> Int] : \A s \in Sub(n) : h[s] = Step(h, s)
    BY <1>3
  <2> DEFINE k == [s \in Sub(n + 1) |-> Step(h, s)]
  <2>2. ASSUME NEW s \in Sub(n + 1), s # {}
        PROVE  AnyOf(s) \in S /\ s \ {AnyOf(s)} \in Sub(n)
    <3>1. s \in SUBSET S /\ Cardinality(s) <= n + 1
      BY <2>2
    <3>2. AnyOf(s) \in S /\ s \ {AnyOf(s)} \in SUBSET S
          /\ Cardinality(s \ {AnyOf(s)}) = Cardinality(s) - 1 /\ Cardinality(s) \in Nat
      BY <1>1, <2>2, <3>1
    <3>3. Cardinality(s \ {AnyOf(s)}) <= n
      BY <3>1, <3>2
    <3>4. QED
      BY <3>2, <3>3
  <2>3. Sub(n) \subseteq Sub(n + 1)
    <3>1. ASSUME NEW s \in SUBSET S, Cardinality(s) <= n PROVE Cardinality(s) <= n + 1
      <4>1. Cardinality(s) \in Nat
        BY <1>1, Zenon
      <4>2. QED
        BY <3>1, <4>1
    <3>2. QED
      BY <3>1
  <2> HIDE DEF Sub
  <2>4. \A s \in Sub(n + 1) : Step(h, s) \in Int
    BY <2>1, <2>2
  <2>5. k \in [Sub(n + 1) -> Int]
    BY <2>4
  <2>6. \A s \in Sub(n) : k[s] = h[s]
    BY <2>1, <2>3
  <2>7. \A s \in Sub(n + 1) : k[s] = Step(h, s)
    OBVIOUS
  <2> HIDE DEF k
  <2>8. \A s \in Sub(n + 1) : k[s] = Step(k, s)
    BY <2>2, <2>6, <2>7
  <2>9. QED
    BY <2>5, <2>8
<1> HIDE DEF Good
<1>4. bad = {}
  <2> SUFFICES ASSUME bad # {} PROVE FALSE
    OBVIOUS
  <2>1. PICK m \in bad : \A n \in bad : m <= n
    BY LeastExists
  <2>2. m # 0 /\ m - 1 \in Nat /\ m - 1 \notin bad
    BY <1>2, <2>1
  <2>3. Good(m - 1) /\ (m - 1) + 1 = m
    BY <2>2
  <2>4. Good(m)
    BY <1>3, <2>2, <2>3
  <2>5. QED
    BY <2>4
<1>5. Cardinality(S) \in Nat
  BY <1>1
<1>6. Good(Cardinality(S))
  BY <1>4, <1>5
<1>7. Sub(Cardinality(S)) = SUBSET S
  BY <1>1
<1>8. PICK h \in [SUBSET S -> Int] : \A s \in SUBSET S : h[s] = Step(h, s)
  BY <1>6, <1>7 DEF Good
<1>9. Sums(h, S, g)
  BY <1>8 DEF Sums, Adds
<1>10. QED
  BY <1>9

\* Two sums of the same numbers agree, on whichever subsets they are defined.
LEMMA SumsAgree ==
    ASSUME NEW S, IsFiniteSet(S), NEW T, IsFiniteSet(T), NEW f, NEW g, NEW h, NEW k,
           Adds(h, S, f), Adds(k, T, g), NEW U, U \subseteq S, U \subseteq T, \A x \in U : f[x] = g[x]
    PROVE  h[U] = k[U]
<1> DEFINE bad == {n \in Nat : \E s \in SUBSET U : Cardinality(s) = n /\ h[s] # k[s]}
<1>1. \A s \in SUBSET U :
          /\ Cardinality(s) \in Nat
          /\ s # {} => /\ AnyOf(s) \in U /\ s \ {AnyOf(s)} \in SUBSET U
                       /\ Cardinality(s \ {AnyOf(s)}) = Cardinality(s) - 1
  <2>1. IsFiniteSet(U)
    BY FS_Subset
  <2>2. QED
    BY <2>1, Smaller
<1>2. \A s \in SUBSET U : h[s] = IF s = {} THEN 0 ELSE f[AnyOf(s)] + h[s \ {AnyOf(s)}]
  <2>1. \A s \in SUBSET S : h[s] = IF s = {} THEN 0 ELSE f[AnyOf(s)] + h[s \ {AnyOf(s)}]
    BY DEF Sums, Adds
  <2>2. QED
    BY <2>1
<1>3. \A s \in SUBSET U : k[s] = IF s = {} THEN 0 ELSE g[AnyOf(s)] + k[s \ {AnyOf(s)}]
  <2>1. \A s \in SUBSET T : k[s] = IF s = {} THEN 0 ELSE g[AnyOf(s)] + k[s \ {AnyOf(s)}]
    BY DEF Sums, Adds
  <2>2. QED
    BY <2>1
<1>4. bad = {}
  <2> SUFFICES ASSUME bad # {} PROVE FALSE
    OBVIOUS
  <2>1. PICK m \in bad : \A n \in bad : m <= n
    BY LeastExists
  <2>2. PICK s \in SUBSET U : Cardinality(s) = m /\ h[s] # k[s]
    BY <2>1
  <2>3. s # {}
    BY <1>2, <1>3, <2>2
  <2> DEFINE t == s \ {AnyOf(s)}
  <2>4. t \in SUBSET U /\ Cardinality(t) = m - 1 /\ Cardinality(t) \in Nat /\ AnyOf(s) \in U
    BY <1>1, <2>2, <2>3
  <2>5. h[s] = f[AnyOf(s)] + h[t] /\ k[s] = g[AnyOf(s)] + k[t]
    BY <1>2, <1>3, <2>2, <2>3
  <2> HIDE DEF t
  <2>6. h[t] # k[t]
    BY <2>2, <2>4, <2>5
  <2>7. m - 1 \in bad
    BY <2>4, <2>6
  <2>8. QED
    BY <2>1, <2>7
<1>5. U \in SUBSET U /\ Cardinality(U) \in Nat
  BY <1>1
<1>6. QED
  BY <1>4, <1>5

\* One element more adds its number, whichever element is chosen first.
LEMMA SumsAdd ==
    ASSUME NEW S, IsFiniteSet(S), NEW g, \A x \in S : g[x] \in Int,
           NEW h, Sums(h, S, g), NEW U, U \subseteq S, NEW x, x \in S, x \notin U
    PROVE  h[U \cup {x}] = h[U] + g[x]
<1> DEFINE bad == {n \in Nat : \E s \in SUBSET S : \E y \in S \ s :
                       Cardinality(s) = n /\ h[s \cup {y}] # h[s] + g[y]}
<1>1. \A s \in SUBSET S :
          /\ Cardinality(s) \in Nat
          /\ s # {} => /\ AnyOf(s) \in s /\ s \ {AnyOf(s)} \in SUBSET S
                       /\ Cardinality(s \ {AnyOf(s)}) = Cardinality(s) - 1
  BY Smaller
<1>2. h \in [SUBSET S -> Int]
      /\ \A s \in SUBSET S : h[s] = IF s = {} THEN 0 ELSE g[AnyOf(s)] + h[s \ {AnyOf(s)}]
  BY DEF Sums, Adds
<1>3. bad = {}
  <2> SUFFICES ASSUME bad # {} PROVE FALSE
    OBVIOUS
  <2>1. PICK m \in bad : \A n \in bad : m <= n
    BY LeastExists
  <2>9. PICK s \in SUBSET S : \E y \in S \ s : Cardinality(s) = m /\ h[s \cup {y}] # h[s] + g[y]
    BY <2>1
  <2>2. PICK y \in S \ s : Cardinality(s) = m /\ h[s \cup {y}] # h[s] + g[y]
    BY <2>9
  <2> DEFINE t == s \cup {y}
             p == AnyOf(t)
  <2>3. t \in SUBSET S /\ t # {} /\ p \in t /\ t \ {p} \in SUBSET S /\ h[t] = g[p] + h[t \ {p}]
    <3>1. t \in SUBSET S /\ t # {}
      BY <2>2
    <3> HIDE DEF t
    <3>2. QED
      BY <1>1, <1>2, <3>1
  <2>4. g[p] \in Int /\ g[y] \in Int /\ h[s] \in Int /\ h[t \ {p}] \in Int
    BY <1>2, <2>2, <2>3
  <2> HIDE DEF p
  <2>5. CASE p = y
    <3>1. t \ {p} = s
      BY <2>2, <2>5
    <3> HIDE DEF t, bad
    <3>4. h[t \ {p}] = h[s] /\ g[p] = g[y]
      BY <2>5, <3>1, Zenon
    <3>2. h[t] = h[s] + g[y]
      BY <2>3, <2>4, <3>4
    <3>3. QED
      BY <2>2, <3>2 DEF t
  <2>6. CASE p # y
    <3> DEFINE u == s \ {p}
    <3>1. p \in s /\ u \in SUBSET S /\ t \ {p} = u \cup {y} /\ u \cup {p} = s /\ y \in S \ u /\ p \in S \ u
      BY <2>2, <2>3, <2>6
    <3>2. Cardinality(u) = m - 1 /\ Cardinality(u) \in Nat
      <4>1. IsFiniteSet(s)
        BY <2>2, FS_Subset
      <4>2. Cardinality(u) = Cardinality(s) - 1
        BY <3>1, <4>1, FS_RemoveElement
      <4> HIDE DEF u
      <4>3. QED
        BY <1>1, <2>2, <3>1, <4>2
    <3> HIDE DEF u, t
    <3>8. m \in Nat
      OBVIOUS
    <3>3. m - 1 \notin bad /\ m - 1 \in Nat
      <4> HIDE DEF bad
      <4>1. QED
        BY <2>1, <3>2, <3>8
    <3>4. h[u \cup {y}] = h[u] + g[y] /\ h[u \cup {p}] = h[u] + g[p]
      BY <3>1, <3>2, <3>3
    <3>5. h[u] \in Int
      BY <1>2, <3>1
    <3>9. h[t \ {p}] = h[u \cup {y}] /\ h[s] = h[u \cup {p}]
      BY <3>1, Zenon
    <3>6. h[t] = h[s] + g[y]
      BY <2>3, <2>4, <3>4, <3>5, <3>9
    <3>7. QED
      BY <2>2, <3>6 DEF t
  <2>7. QED
    BY <2>5, <2>6
<1>4. SUFFICES ASSUME h[U \cup {x}] # h[U] + g[x] PROVE FALSE
  OBVIOUS
<1>5. Cardinality(U) \in bad
  BY <1>1, <1>4
<1>6. QED
  BY <1>3, <1>5

\* The sum of g over S.
Total(g, S) == (CHOOSE h \in [SUBSET S -> Int] : Sums(h, S, g))[S]

LEMMA TotalIs ==
    ASSUME NEW S, IsFiniteSet(S), NEW g, \A x \in S : g[x] \in Int
    PROVE  \E h \in [SUBSET S -> Int] :
               Sums(h, S, g) /\ \A U \in SUBSET S : Total(g, U) = h[U] /\ Total(g, U) \in Int
<1>1. PICK h \in [SUBSET S -> Int] : Sums(h, S, g)
  BY SumsExist
<1>2. ASSUME NEW U \in SUBSET S
      PROVE  Total(g, U) = h[U]
  <2>1. IsFiniteSet(U) /\ \A x \in U : g[x] \in Int
    BY FS_Subset
  <2> DEFINE k == CHOOSE k \in [SUBSET U -> Int] : Sums(k, U, g)
  <2>2. k \in [SUBSET U -> Int] /\ Sums(k, U, g)
    BY <2>1, SumsExist
  <2> HIDE DEF k
  <2>3. h[U] = k[U]
    BY <1>1, <2>1, <2>2, SumsAgree DEF Sums
  <2>4. QED
    BY <2>3 DEF Total, k
<1>3. QED
  BY <1>1, <1>2

LEMMA TotalOfMore ==
    ASSUME NEW S, IsFiniteSet(S), NEW x, x \notin S, NEW g, \A y \in S \cup {x} : g[y] \in Int
    PROVE  Total(g, S \cup {x}) = Total(g, S) + g[x] /\ Total(g, S) \in Int
<1> DEFINE T == S \cup {x}
<1>1. IsFiniteSet(T) /\ S \in SUBSET T /\ x \in T \ S /\ T \in SUBSET T
  BY FS_AddElement
<1>5. \A y \in T : g[y] \in Int
  OBVIOUS
<1> HIDE DEF T
<1>2. PICK h \in [SUBSET T -> Int] :
          Sums(h, T, g) /\ \A U \in SUBSET T : Total(g, U) = h[U] /\ Total(g, U) \in Int
  BY <1>1, <1>5, TotalIs
<1>3. h[S \cup {x}] = h[S] + g[x]
  <2>1. Sums(h, T, g) /\ h \in [SUBSET T -> Int]
    BY <1>2
  <2>2. QED
    BY <1>1, <1>5, <2>1, SumsAdd
<1>4. QED
  BY <1>1, <1>2, <1>3 DEF T

LEMMA TotalOfNone ==
    ASSUME NEW g
    PROVE  Total(g, {}) = 0
<1>1. IsFiniteSet({}) /\ \A x \in {} : g[x] \in Int
  BY FS_EmptySet
<1>2. PICK h \in [SUBSET {} -> Int] :
          Sums(h, {}, g) /\ \A U \in SUBSET {} : Total(g, U) = h[U] /\ Total(g, U) \in Int
  BY <1>1, TotalIs
<1>3. {} \in SUBSET {}
  OBVIOUS
<1>4. h[{}] = 0
  BY <1>2, <1>3 DEF Sums, Adds
<1>5. QED
  BY <1>2, <1>3, <1>4

LEMMA TotalOfSame ==
    ASSUME NEW S, IsFiniteSet(S), NEW f, NEW g, \A x \in S : f[x] = g[x] /\ g[x] \in Int
    PROVE  Total(f, S) = Total(g, S)
<1>1. PICK h \in [SUBSET S -> Int] :
          Sums(h, S, f) /\ \A U \in SUBSET S : Total(f, U) = h[U] /\ Total(f, U) \in Int
  BY TotalIs
<1>2. PICK k \in [SUBSET S -> Int] :
          Sums(k, S, g) /\ \A U \in SUBSET S : Total(g, U) = k[U] /\ Total(g, U) \in Int
  BY TotalIs
<1>3. h[S] = k[S]
  BY <1>1, <1>2, SumsAgree DEF Sums
<1>4. S \in SUBSET S
  OBVIOUS
<1>5. QED
  BY <1>1, <1>2, <1>3, <1>4

\* Naturals add up to a natural, and fewer of them to no more.
LEMMA TotalGrows ==
    ASSUME NEW S, IsFiniteSet(S), NEW g, \A x \in S : g[x] \in Nat, NEW U \in SUBSET S
    PROVE  Total(g, U) \in Nat /\ Total(g, S) \in Nat /\ Total(g, U) <= Total(g, S)
<1>0. \A x \in S : g[x] \in Int
  OBVIOUS
<1>1. PICK h \in [SUBSET S -> Int] :
          Sums(h, S, g) /\ \A V \in SUBSET S : Total(g, V) = h[V] /\ Total(g, V) \in Int
  BY <1>0, TotalIs
<1>2. \A s \in SUBSET S :
          /\ Cardinality(s) \in Nat
          /\ s # {} => /\ AnyOf(s) \in s /\ s \ {AnyOf(s)} \in SUBSET S
                       /\ Cardinality(s \ {AnyOf(s)}) = Cardinality(s) - 1
  BY Smaller
<1>3. \A s \in SUBSET S : h[s] = IF s = {} THEN 0 ELSE g[AnyOf(s)] + h[s \ {AnyOf(s)}]
  BY <1>1 DEF Sums, Adds
<1>4. \A s \in SUBSET S : h[s] >= 0
  <2> DEFINE bad == {n \in Nat : \E s \in SUBSET S : Cardinality(s) = n /\ h[s] < 0}
  <2>1. bad = {}
    <3> SUFFICES ASSUME bad # {} PROVE FALSE
      OBVIOUS
    <3>1. PICK m \in bad : \A n \in bad : m <= n
      BY LeastExists
    <3>2. PICK s \in SUBSET S : Cardinality(s) = m /\ h[s] < 0
      BY <3>1
    <3>9. h[{}] = 0
      BY <1>3
    <3>3. s # {}
      <4>1. SUFFICES ASSUME s = {} PROVE FALSE
        OBVIOUS
      <4>2. h[s] = 0
        BY <3>9, <4>1, Zenon
      <4>3. QED
        BY <3>2, <4>2
    <3> DEFINE t == s \ {AnyOf(s)}
    <3>4. t \in SUBSET S /\ Cardinality(t) = m - 1 /\ Cardinality(t) \in Nat /\ AnyOf(s) \in S
      BY <1>2, <3>2, <3>3
    <3>5. h[s] = g[AnyOf(s)] + h[t]
      BY <1>3, <3>2, <3>3
    <3> HIDE DEF t
    <3>6. h[t] < 0
      BY <3>2, <3>4, <3>5
    <3>7. m - 1 \in bad
      BY <3>4, <3>6
    <3>8. QED
      BY <3>1, <3>7
  <2>2. SUFFICES ASSUME NEW s \in SUBSET S, h[s] < 0 PROVE FALSE
    OBVIOUS
  <2>3. Cardinality(s) \in bad
    BY <1>2, <2>2
  <2>4. QED
    BY <2>1, <2>3
<1>5. h[U] <= h[S]
  <2> DEFINE bad == {n \in Nat : \E s \in SUBSET S : U \subseteq s /\ Cardinality(s) = n /\ ~(h[U] <= h[s])}
  <2>1. bad = {}
    <3> SUFFICES ASSUME bad # {} PROVE FALSE
      OBVIOUS
    <3>1. PICK m \in bad : \A n \in bad : m <= n
      BY LeastExists
    <3>2. PICK s \in SUBSET S : U \subseteq s /\ Cardinality(s) = m /\ ~(h[U] <= h[s])
      BY <3>1
    <3>3. PICK y \in s : y \notin U
      <4>1. U # s
        BY <3>2
      <4>2. QED
        BY <3>2, <4>1
    <3> DEFINE t == s \ {y}
    <3>4. t \in SUBSET S /\ U \subseteq t /\ y \in S \ t /\ t \cup {y} = s
      BY <3>2, <3>3
    <3>5. Cardinality(t) = m - 1
      <4>1. IsFiniteSet(s)
        BY <3>2, FS_Subset
      <4>2. QED
        BY <3>2, <3>3, <4>1, FS_RemoveElement
    <3> HIDE DEF t
    <3>6. Cardinality(t) \in Nat
      BY <1>2, <3>4
    <3>7. h[s] = h[t] + g[y]
      <4>1. h[t \cup {y}] = h[t] + g[y]
        BY <1>0, <1>1, <3>4, SumsAdd
      <4>2. QED
        BY <3>4, <4>1, Zenon
    <3>8. h[t] \in Int /\ h[U] \in Int /\ g[y] \in Nat
      BY <3>4
    <3>9. ~(h[U] <= h[t])
      BY <3>2, <3>7, <3>8
    <3>10. m - 1 \in bad
      BY <3>4, <3>5, <3>6, <3>9
    <3>11. QED
      BY <3>1, <3>10
  <2>2. Cardinality(S) \in Nat
    BY <1>2
  <2>3. QED
    BY <2>1, <2>2
<1>6. QED
  BY <1>1, <1>4, <1>5

\* The folds of the community modules compute such sums.
LEMMA FoldIsTotal ==
    ASSUME NEW D, IsFiniteSet(D), NEW g, \A x \in D : g[x] \in Int, NEW iter, Adds(iter, D, g)
    PROVE  iter[D] = Total(g, D)
<1>1. PICK h \in [SUBSET D -> Int] :
          Sums(h, D, g) /\ \A U \in SUBSET D : Total(g, U) = h[U] /\ Total(g, U) \in Int
  BY TotalIs
<1>2. h[D] = iter[D]
  BY <1>1, SumsAgree DEF Sums
<1>3. D \in SUBSET D
  OBVIOUS
<1>4. QED
  BY <1>1, <1>2, <1>3

-----------------------------------------------------------------------------

(* Lemmas about choosing. *)

\* Among those with the least value there is a first.
LowestBy(f, S) == {r \in S : \A q \in S : f[r] <= f[q]}

LEMMA Cheapest ==
    ASSUME NEW S \in SUBSET Nat, S # {}, NEW f, NEW b \in Int, \A r \in S : f[r] \in Int /\ b <= f[r]
    PROVE  LET first == Min(LowestBy(f, S))
           IN  /\ LowestBy(f, S) # {} /\ first \in S
               /\ \A q \in S : f[first] <= f[q] /\ (f[first] = f[q] => first <= q)
<1> DEFINE V == {f[r] - b : r \in S}
           L == LowestBy(f, S)
<1>1. V \in SUBSET Nat /\ V # {}
  <2>1. \A r \in S : f[r] - b \in Nat
    OBVIOUS
  <2>2. QED
    BY <2>1
<1> HIDE DEF V
<1>2. PICK v \in V : \A w \in V : v <= w
  BY <1>1, LeastExists
<1>3. PICK r \in S : v = f[r] - b
  BY <1>2 DEF V
<1>4. \A q \in S : f[q] - b \in V
  BY DEF V
<1>5. \A q \in S : f[r] <= f[q]
  BY <1>2, <1>3, <1>4
<1>6. r \in L /\ L \in SUBSET Nat
  BY <1>5 DEF LowestBy
<1>7. \A q \in S : q \in L <=> \A p \in S : f[q] <= f[p]
  BY DEF LowestBy
<1>8. L \subseteq S
  BY DEF LowestBy
<1> HIDE DEF L
<1>9. Min(L) \in L /\ \A q \in L : Min(L) <= q
  BY <1>6, LeastIsMin
<1> DEFINE m == Min(L)
<1>10. m \in S /\ (\A q \in S : f[m] <= f[q]) /\ \A q \in L : m <= q
  BY <1>7, <1>8, <1>9
<1> HIDE DEF m
<1>11. ASSUME NEW q \in S, f[m] = f[q] PROVE m <= q
  <2>1. q \in L
    BY <1>7, <1>10, <1>11
  <2>2. QED
    BY <1>10, <2>1
<1>12. QED
  BY <1>6, <1>10, <1>11 DEF L, m

\* The rank of a number in a finite set: how many are below it.
RankIn(S, r) == Cardinality({q \in S : q < r})

LEMMA Ranks ==
    ASSUME NEW S \in SUBSET Nat, IsFiniteSet(S), S # {}
    PROVE  /\ Cardinality(S) \in Nat \ {0}
           /\ \A r \in S : RankIn(S, r) \in 0..(Cardinality(S) - 1)
           /\ \A r, t \in S : RankIn(S, r) = RankIn(S, t) => r = t
           /\ \A n \in 0..(Cardinality(S) - 1) : \E r \in S : RankIn(S, r) = n
<1> DEFINE n == Cardinality(S)
           below(r) == {q \in S : q < r}
<1>1. n \in Nat /\ n # 0
  BY FS_CardinalityType, FS_EmptySet
<1>2. \A r \in S : IsFiniteSet(below(r)) /\ Cardinality(below(r)) \in Nat /\ below(r) \subseteq S
  <2> SUFFICES ASSUME NEW r \in S
               PROVE  IsFiniteSet(below(r)) /\ Cardinality(below(r)) \in Nat /\ below(r) \subseteq S
    OBVIOUS
  <2>1. below(r) \subseteq S
    OBVIOUS
  <2> HIDE DEF below
  <2>2. IsFiniteSet(below(r))
    BY <2>1, FS_Subset
  <2>3. QED
    BY <2>1, <2>2, FS_CardinalityType
<1>3. ASSUME NEW r \in S, NEW t \in S, r < t
      PROVE  Cardinality(below(r)) + 1 <= Cardinality(below(t))
  <2>1. r \notin below(r)
    OBVIOUS
  <2>4. \A q \in S : q < r => q < t
    BY <1>3
  <2>5. below(r) \subseteq below(t) /\ r \in below(t)
    BY <1>3, <2>4, Zenon
  <2> HIDE DEF below
  <2>2. Cardinality(below(r) \cup {r}) = Cardinality(below(r)) + 1
    BY <1>2, <2>1, FS_AddElement
  <2>6. below(r) \cup {r} \subseteq below(t)
    BY <2>5
  <2>3. Cardinality(below(r) \cup {r}) <= Cardinality(below(t))
    BY <1>2, <2>6, FS_Subset
  <2>7. QED
    BY <2>2, <2>3
<1>4. ASSUME NEW r \in S
      PROVE  Cardinality(below(r)) + 1 <= n
  <2>1. r \notin below(r) /\ below(r) \cup {r} \subseteq S
    OBVIOUS
  <2> HIDE DEF below
  <2>2. Cardinality(below(r) \cup {r}) = Cardinality(below(r)) + 1
    BY <1>2, <2>1, FS_AddElement
  <2>3. Cardinality(below(r) \cup {r}) <= n
    BY <2>1, FS_Subset
  <2>4. QED
    BY <2>2, <2>3
<1>5. \A r \in S : RankIn(S, r) = Cardinality(below(r))
  BY DEF RankIn
<1> HIDE DEF below, n
<1>6. \A r \in S : RankIn(S, r) \in 0..(n - 1)
  BY <1>1, <1>2, <1>4, <1>5
<1>7. \A r, t \in S : RankIn(S, r) = RankIn(S, t) => r = t
  <2> SUFFICES ASSUME NEW r \in S, NEW t \in S, RankIn(S, r) = RankIn(S, t), r # t PROVE FALSE
    OBVIOUS
  <2>1. r < t \/ t < r
    OBVIOUS
  <2>2. Cardinality(below(r)) \in Nat /\ Cardinality(below(t)) \in Nat
    BY <1>2
  <2>3. QED
    BY <1>3, <1>5, <2>1, <2>2
<1>8. \A m \in 0..(n - 1) : \E r \in S : RankIn(S, r) = m
  <2> DEFINE f == [r \in S |-> RankIn(S, r)]
             W == {f[r] : r \in S}
  <2>1. IsFiniteSet(W) /\ Cardinality(W) = n
    <3>1. DOMAIN f = S /\ f \in [S -> {f[r] : r \in S}] /\ \A r, t \in S : f[r] = f[t] => r = t
      BY <1>7
    <3> HIDE DEF f
    <3>2. QED
      BY <3>1, SameSize DEF n
  <2>2. W \subseteq 0..(n - 1)
    BY <1>6
  <2>3. IsFiniteSet(0..(n - 1)) /\ Cardinality(0..(n - 1)) = n
    BY <1>1, FS_Interval
  <2> HIDE DEF W
  <2>4. W = 0..(n - 1)
    BY <2>1, <2>2, <2>3, FS_Subset
  <2>5. QED
    BY <2>4 DEF W
<1>9. QED
  BY <1>1, <1>6, <1>7, <1>8 DEF n

\* The positions of an element in a sequence; appending it adds one.
PlacesOf(s, v) == {i \in DOMAIN s : s[i] = v}

LEMMA OneMorePlace ==
    ASSUME NEW T, NEW s \in Seq(T), NEW x \in T, NEW v
    PROVE  LET before == PlacesOf(s, v)
               after == PlacesOf(Append(s, x), v)
           IN  /\ IsFiniteSet(before) /\ Cardinality(before) \in Nat
               /\ after = IF x = v THEN before \cup {Len(s) + 1} ELSE before
               /\ Len(s) + 1 \notin before /\ IsFiniteSet(after)
               /\ Cardinality(after) = Cardinality(before) + (IF x = v THEN 1 ELSE 0)
<1> DEFINE before == PlacesOf(s, v)
           after == PlacesOf(Append(s, x), v)
           n == Len(s)
<1>1. n \in Nat /\ DOMAIN s = 1..n /\ DOMAIN Append(s, x) = 1..(n + 1)
      /\ Append(s, x)[n + 1] = x /\ \A i \in 1..n : Append(s, x)[i] = s[i]
  OBVIOUS
<1>2. before \subseteq 1..n
  BY <1>1 DEF PlacesOf
<1>3. \A i : i \in after <=> (i \in before \/ (i = n + 1 /\ x = v))
  BY <1>1 DEF PlacesOf
<1> HIDE DEF before, after, n
<1>4. IsFiniteSet(before) /\ Cardinality(before) \in Nat
  <2>1. IsFiniteSet(1..n)
    BY <1>1, FS_Interval
  <2>2. IsFiniteSet(before)
    BY <1>2, <2>1, FS_Subset
  <2>3. QED
    BY <2>2, FS_CardinalityType
<1>5. n + 1 \notin before
  BY <1>1, <1>2
<1>6. Cardinality(before \cup {n + 1}) = Cardinality(before) + 1 /\ IsFiniteSet(before \cup {n + 1})
  BY <1>4, <1>5, FS_AddElement
<1>7. after = IF x = v THEN before \cup {n + 1} ELSE before
  BY <1>3
<1>8. IsFiniteSet(after) /\ Cardinality(after) = Cardinality(before) + (IF x = v THEN 1 ELSE 0)
  BY <1>4, <1>6, <1>7
<1>9. QED
  BY <1>4, <1>5, <1>7, <1>8, Zenon DEF before, after, n

\* How often place k comes up in the first m turns of n.
Turns(m, n, k) == (m \div n) + (IF k < m % n THEN 1 ELSE 0)

LEMMA OneMoreTurn ==
    ASSUME NEW m \in Nat, NEW n \in Nat \ {0}, NEW k \in 0..(n - 1)
    PROVE  /\ Turns(0, n, k) = 0 /\ Turns(m, n, k) \in Nat /\ m % n \in 0..(n - 1)
           /\ Turns(m + 1, n, k) = Turns(m, n, k) + (IF k = m % n THEN 1 ELSE 0)
           /\ \A l \in 0..(n - 1) : Turns(m, n, k) <= Turns(m, n, l) + 1
<1> DEFINE q == m \div n
           r == m % n
<1>1. q \in Nat /\ r \in 0..(n - 1) /\ m = n * q + r
  BY SMT
<1>2. 0 \div n = 0 /\ 0 % n = 0
  BY SMT
<1>3. CASE r < n - 1
  <2>1. m + 1 = n * q + (r + 1) /\ r + 1 \in 0..(n - 1)
    BY <1>1, <1>3
  <2>2. (m + 1) \div n = q /\ (m + 1) % n = r + 1
    BY <1>1, <2>1, SMT
  <2>3. QED
    BY <1>1, <1>2, <2>2 DEF Turns
<1>4. CASE r = n - 1
  <2>1. m + 1 = n * (q + 1)
    BY <1>1, <1>4, SMT
  <2>2. (m + 1) \div n = q + 1 /\ (m + 1) % n = 0
    <3> HIDE DEF q
    <3>1. \A c \in Nat : (n * c) \div n = c /\ (n * c) % n = 0
      BY SMT
    <3>2. QED
      BY <1>1, <2>1, <3>1
  <2>3. QED
    BY <1>1, <1>2, <1>4, <2>2 DEF Turns
<1>5. QED
  BY <1>1, <1>3, <1>4

-----------------------------------------------------------------------------

(* More about choosing. *)

\* What is first among many is first among fewer, when it is one of them.
LEMMA FirstAmong ==
    ASSUME NEW V \in SUBSET Nat, NEW f, NEW b \in Int, \A r \in V : f[r] \in Int /\ b <= f[r],
           NEW S \in SUBSET V, S # {}
    PROVE  LET first == Min(LowestBy(f, S))
           IN  /\ first \in S /\ first \in LowestBy(f, S) /\ LowestBy(f, S) \subseteq S
               /\ \A q \in S : f[first] <= f[q] /\ (f[first] = f[q] => first <= q)
               /\ \A T \in SUBSET V : T \subseteq S /\ first \in T => Min(LowestBy(f, T)) = first
<1> DEFINE m(U) == Min(LowestBy(f, U))
<1>1. ASSUME NEW U \in SUBSET V, U # {}
      PROVE  m(U) \in U /\ \A q \in U : f[m(U)] <= f[q] /\ (f[m(U)] = f[q] => m(U) <= q)
  <2>1. U \in SUBSET Nat /\ \A r \in U : f[r] \in Int /\ b <= f[r]
    OBVIOUS
  <2>2. QED
    BY <1>1, <2>1, Cheapest
<1> HIDE DEF m
<1>2. m(S) \in S /\ \A q \in S : f[m(S)] <= f[q] /\ (f[m(S)] = f[q] => m(S) <= q)
  BY <1>1
<1>3. ASSUME NEW T \in SUBSET V, T \subseteq S, m(S) \in T
      PROVE  m(T) = m(S)
  <2>1. m(T) \in T /\ \A q \in T : f[m(T)] <= f[q] /\ (f[m(T)] = f[q] => m(T) <= q)
    BY <1>1, <1>3
  <2>2. f[m(T)] <= f[m(S)] /\ f[m(S)] <= f[m(T)] /\ m(T) \in S
    BY <1>2, <1>3, <2>1
  <2>5. m(T) \in V /\ m(S) \in V
    BY <1>2, <2>2
  <2>7. f[m(T)] \in Int /\ f[m(S)] \in Int
    BY <2>5, Zenon
  <2>3. f[m(T)] = f[m(S)]
    BY <2>2, <2>7
  <2>4. m(T) <= m(S) /\ m(S) <= m(T)
    BY <1>2, <1>3, <2>1, <2>2, <2>3
  <2>8. m(T) \in Nat /\ m(S) \in Nat
    BY <2>5, Zenon
  <2>6. QED
    BY <2>4, <2>8
<1>4. m(S) \in LowestBy(f, S) /\ LowestBy(f, S) \subseteq S
  BY <1>2 DEF LowestBy
<1>5. QED
  BY <1>2, <1>3, <1>4 DEF m

\* The two a hash puts first are two wherever there are two to choose from.
LEMMA TwoAmong ==
    ASSUME NEW V \in SUBSET Nat, NEW k \in Nat, NEW rank, \A r \in V : rank[r] \in 1..k,
           NEW S \in SUBSET V, S # {}
    PROVE  /\ TopTwo(S, rank) \subseteq S /\ TopTwo(S, rank) # {}
           /\ \A r \in S : S \ {r} # {} => \E q \in TopTwo(S, rank) : q # r
<1> DEFINE f == [r \in V |-> -rank[r]]
           b == -k
           above(q) == {p \in S : rank[p] > rank[q]}
<1>2. b \in Int /\ (\A r \in V : f[r] \in Int /\ b <= f[r]) /\ \A r \in V : f[r] = -rank[r]
  OBVIOUS
<1> HIDE DEF f, b
<1>3. ASSUME NEW T \in SUBSET V, T # {}
      PROVE  \E q \in T : \A p \in T : ~(rank[p] > rank[q])
  <2>3. Min(LowestBy(f, T)) \in T /\ \A p \in T : f[Min(LowestBy(f, T))] <= f[p]
    BY <1>2, <1>3, FirstAmong
  <2>1. PICK q \in T : \A p \in T : f[q] <= f[p]
    BY <2>3
  <2>2. \A p \in T : ~(rank[p] > rank[q])
    BY <1>2, <2>1
  <2>4. QED
    BY <2>2
<1>4. \A q \in S : q \in TopTwo(S, rank) <=> Cardinality(above(q)) < 2
  BY DEF TopTwo
<1>5. TopTwo(S, rank) \subseteq S
  BY DEF TopTwo
<1>6. TopTwo(S, rank) # {}
  <2>1. PICK q \in S : \A p \in S : ~(rank[p] > rank[q])
    BY <1>3
  <2>2. above(q) = {}
    BY <2>1
  <2> HIDE DEF above
  <2>3. Cardinality(above(q)) = 0
    BY <2>2, FS_EmptySet
  <2>4. q \in TopTwo(S, rank)
    BY <1>4, <2>3
  <2>5. QED
    BY <2>4
<1>7. ASSUME NEW r \in S, S \ {r} # {}
      PROVE  \E q \in TopTwo(S, rank) : q # r
  <2>1. PICK q \in S \ {r} : \A p \in S \ {r} : ~(rank[p] > rank[q])
    BY <1>3, <1>7
  <2>2. above(q) \subseteq {r}
    BY <2>1
  <2> HIDE DEF above
  <2>3. IsFiniteSet({r}) /\ Cardinality({r}) = 1
    BY FS_Singleton
  <2>4. Cardinality(above(q)) <= 1 /\ Cardinality(above(q)) \in Nat
    BY <2>2, <2>3, FS_Subset, FS_CardinalityType
  <2>5. q \in TopTwo(S, rank)
    BY <1>4, <2>1, <2>4
  <2>6. QED
    BY <2>1, <2>5
<1>8. QED
  BY <1>5, <1>6, <1>7

\* The positions of the elements of a set in a sequence.
PlacesIn(s, V) == {i \in DOMAIN s : s[i] \in V}

LEMMA OneMoreIn ==
    ASSUME NEW T, NEW s \in Seq(T), NEW x \in T, NEW V
    PROVE  LET before == PlacesIn(s, V)
               after == PlacesIn(Append(s, x), V)
           IN  /\ IsFiniteSet(before) /\ Cardinality(before) \in Nat
               /\ Cardinality(after) = Cardinality(before) + (IF x \in V THEN 1 ELSE 0)
<1> DEFINE before == PlacesIn(s, V)
           after == PlacesIn(Append(s, x), V)
           n == Len(s)
<1>1. n \in Nat /\ DOMAIN s = 1..n /\ DOMAIN Append(s, x) = 1..(n + 1)
      /\ Append(s, x)[n + 1] = x /\ \A i \in 1..n : Append(s, x)[i] = s[i]
  OBVIOUS
<1>2. before \subseteq 1..n
  BY <1>1 DEF PlacesIn
<1>3. \A i : i \in after <=> (i \in before \/ (i = n + 1 /\ x \in V))
  BY <1>1 DEF PlacesIn
<1> HIDE DEF before, after, n
<1>4. IsFiniteSet(before) /\ Cardinality(before) \in Nat
  <2>1. IsFiniteSet(1..n)
    BY <1>1, FS_Interval
  <2>2. IsFiniteSet(before)
    BY <1>2, <2>1, FS_Subset
  <2>3. QED
    BY <2>2, FS_CardinalityType
<1>5. n + 1 \notin before
  BY <1>1, <1>2
<1>6. Cardinality(before \cup {n + 1}) = Cardinality(before) + 1 /\ IsFiniteSet(before \cup {n + 1})
  BY <1>4, <1>5, FS_AddElement
<1>7. after = IF x \in V THEN before \cup {n + 1} ELSE before
  BY <1>3
<1>8. Cardinality(after) = Cardinality(before) + (IF x \in V THEN 1 ELSE 0)
  BY <1>4, <1>6, <1>7
<1>9. QED
  BY <1>4, <1>8, Zenon DEF before, after

-----------------------------------------------------------------------------

LEMMA OneMoreTaken ==
    ASSUME NEW S, NEW q \in Seq(S), NEW n \in Nat, n < Len(q)
    PROVE  SubSeq(q, 1, n + 1) = Append(SubSeq(q, 1, n), q[n + 1])
<1> DEFINE a == SubSeq(q, 1, n + 1)
           b == Append(SubSeq(q, 1, n), q[n + 1])
<1>1. SubSeq(q, 1, n) \in Seq(S) /\ Len(SubSeq(q, 1, n)) = n /\ q[n + 1] \in S
  OBVIOUS
<1>2. a \in Seq(S) /\ Len(a) = n + 1 /\ \A i \in 1..(n + 1) : a[i] = q[i]
  OBVIOUS
<1>3. b \in Seq(S) /\ Len(b) = n + 1 /\ \A i \in 1..(n + 1) : b[i] = IF i = n + 1 THEN q[n + 1] ELSE q[i]
  BY <1>1
<1>4. \A i \in 1..(n + 1) : a[i] = b[i]
  BY <1>2, <1>3
<1> HIDE DEF a, b
<1>5. a = b
  BY <1>2, <1>3, <1>4, SeqEqual
<1>6. QED
  BY <1>5 DEF a, b

-----------------------------------------------------------------------------

(* Round-trip times of groups of sites. *)

LEMMA BaseRtt ==
    ASSUME NEW s \in Sites, NEW r \in Regions
    PROVE  baseRttMs[s][r] \in Nat /\ baseRttMs[s][r] <= 205
BY DEF Sites, Regions, baseRttMs

LEMMA TotalRttIsNat ==
    ASSUME NEW sites \in Seq(Sites), NEW r \in Regions
    PROVE  TotalRtt(sites, r) \in Nat
<1> DEFINE D == DOMAIN sites
           g == [i \in D |-> baseRttMs[sites[i]][r]]
           body(f) == [s \in SUBSET D |-> IF s = {} THEN 0
                          ELSE f[s \ {CHOOSE x \in s : TRUE}] + baseRttMs[sites[CHOOSE x \in s : TRUE]][r]]
           iter == CHOOSE f : f = body(f)
<1>1. TotalRtt(sites, r) = iter[D]
  BY DEF TotalRtt, FoldSeq, FoldFunction, FoldFunctionOnSet, MapThenFoldSet
<1>2. IsFiniteSet(D)
  <2>1. D = 1..Len(sites) /\ Len(sites) \in Nat
    OBVIOUS
  <2>2. QED
    BY <2>1, FS_Interval
<1>3. \A i \in D : g[i] \in Nat /\ g[i] \in Int /\ g[i] = baseRttMs[sites[i]][r]
  BY BaseRtt
<1>4. PICK h \in [SUBSET D -> Int] : Sums(h, D, g)
  BY <1>2, <1>3, SumsExist
<1>5. \A s \in SUBSET D : s # {} => AnyOf(s) \in D
  BY DEF AnyOf
<1>6. \A s \in SUBSET D : s # {} => s \ {AnyOf(s)} \in SUBSET D
  OBVIOUS
<1> HIDE DEF g
<1>7. h = body(h)
  <2> DEFINE form(s) == IF s = {} THEN 0 ELSE g[AnyOf(s)] + h[s \ {AnyOf(s)}]
             other(s) == IF s = {} THEN 0 ELSE h[s \ {AnyOf(s)}] + baseRttMs[sites[AnyOf(s)]][r]
  <2>1. \A s \in SUBSET D : form(s) = other(s)
    BY <1>3, <1>4, <1>5, <1>6, SMTT(30)
  <2>2. h = [s \in SUBSET D |-> form(s)]
    BY <1>4 DEF Sums, Adds
  <2> HIDE DEF D, form, other
  <2>3. h = [s \in SUBSET D |-> other(s)]
    BY <2>1, <2>2
  <2>4. QED
    BY <2>3 DEF other, AnyOf
<1> HIDE DEF body
<1>8. iter = body(iter)
  BY <1>7
<1> HIDE DEF iter
<1>9. iter = [s \in SUBSET D |-> IF s = {} THEN 0
                  ELSE iter[s \ {AnyOf(s)}] + baseRttMs[sites[AnyOf(s)]][r]]
  BY <1>8 DEF body, AnyOf
<1>10. \A s \in SUBSET D : iter[s] \in Nat
  <2> DEFINE bad == {n \in Nat : \E s \in SUBSET D : Cardinality(s) = n /\ iter[s] \notin Nat}
  <2>1. bad = {}
    <3> SUFFICES ASSUME bad # {} PROVE FALSE
      OBVIOUS
    <3>1. PICK m \in bad : \A n \in bad : m <= n
      BY LeastExists
    <3>2. PICK s \in SUBSET D : Cardinality(s) = m /\ iter[s] \notin Nat
      BY <3>1
    <3> HIDE DEF D
    <3>3. iter[s] = IF s = {} THEN 0 ELSE iter[s \ {AnyOf(s)}] + baseRttMs[sites[AnyOf(s)]][r]
      BY <1>9
    <3>4. s # {}
      BY <3>2, <3>3
    <3> DEFINE t == s \ {AnyOf(s)}
    <3>5. t \in SUBSET D /\ Cardinality(t) = Cardinality(s) - 1
      BY <1>2, <3>4, Smaller
    <3>6. IsFiniteSet(t)
      BY <1>2, <3>5, Smaller
    <3>7. Cardinality(t) \in Nat
      BY <3>6, FS_CardinalityType
    <3>8. iter[s] = iter[t] + baseRttMs[sites[AnyOf(s)]][r]
      BY <3>3, <3>4
    <3>9. baseRttMs[sites[AnyOf(s)]][r] \in Nat
      BY <1>3, <1>5, <3>4
    <3> HIDE DEF t
    <3>10. iter[t] \notin Nat
      BY <3>2, <3>8, <3>9
    <3>11. m - 1 \in bad
      BY <3>2, <3>5, <3>7, <3>10
    <3>12. QED
      BY <3>1, <3>11
  <2>2. SUFFICES ASSUME NEW s \in SUBSET D, iter[s] \notin Nat PROVE FALSE
    OBVIOUS
  <2>3. Cardinality(s) \in Nat
    BY <1>2, Smaller
  <2>4. Cardinality(s) \in bad
    BY <2>2, <2>3
  <2>5. QED
    BY <2>1, <2>4
<1>11. QED
  BY <1>1, <1>10

LEMMA WorstRttIsNat ==
    ASSUME NEW sites \in Seq(Sites), sites # <<>>, NEW r \in Regions
    PROVE  WorstRtt(sites, r) \in Nat
<1> DEFINE S == {baseRttMs[sites[i]][r] : i \in DOMAIN sites}
           b == 205
<1>1. \A i \in DOMAIN sites : baseRttMs[sites[i]][r] \in Nat /\ baseRttMs[sites[i]][r] <= b
  BY BaseRtt
<1>2. 1 \in DOMAIN sites
  OBVIOUS
<1>3. S \in SUBSET Nat /\ S # {} /\ b \in Nat /\ \A x \in S : x <= b
  BY <1>1, <1>2
<1> HIDE DEF S, b
<1>4. Max(S) \in Nat
  BY <1>3, LargestIsMax
<1>5. QED
  BY <1>4 DEF WorstRtt, S

-----------------------------------------------------------------------------

(* What a failed service means to a session. *)

Sessions ==
    [lifecycle : {"establishing", "established", "recovering"},
     signalingRegionId : Regions, signalingState : ServiceStates, directoryState : ServiceStates,
     gameplayPath : {"direct", "turn"}, turnRegionId : Regions, turnState : ServiceStates,
     recoveryKind : {"ice-restart", "rejoin", "turn-reallocate"},
     replacementTurnRegionId : Regions, replacementTurnState : ServiceStates]

LEMMA ControlKeepsSession ==
    ASSUME session \in Sessions, ChangeControl
    PROVE  session' \in Sessions
<1>1. PICK control \in DOMAIN Options : \E x \in Options[control] :
          session' = [session EXCEPT ![control] = x]
  BY DEF ChangeControl
<1>2. PICK x \in Options[control] : session' = [session EXCEPT ![control] = x]
  BY <1>1
<1>3. CASE control \in {"lifecycle", "gameplayPath", "recoveryKind"}
  BY <1>2, <1>3 DEF Sessions, Options
<1>4. CASE control \in {"signalingRegionId", "turnRegionId", "replacementTurnRegionId"}
  BY <1>2, <1>4 DEF Sessions, Options
<1>5. CASE control \in {"signalingState", "directoryState", "turnState", "replacementTurnState"}
  BY <1>2, <1>5 DEF Sessions, Options
<1>6. QED
  BY <1>3, <1>4, <1>5 DEF Options

\* What an operation needs, service by service.
LEMMA OperationNeeds ==
    ASSUME NEW i, i.lifecycle \in {"establishing", "established", "recovering"}
    PROVE  /\ isAvailable(i, Directory) <=> i.directoryState = "available"
           /\ isAvailable(i, Signaling(i)) <=> i.signalingStateByRegion[i.signalingRegionId] = "available"
           /\ \A r : isAvailable(i, Relay(r)) <=> i.turnStateByRegion[r] = "available"
           /\ operationAvailable(i) <=>
                  /\ i.lifecycle = "establishing" => isAvailable(i, Directory)
                  /\ i.lifecycle # "established" => isAvailable(i, Signaling(i))
                  /\ i.lifecycle = "recovering" /\ i.recoveryKind = "rejoin" => isAvailable(i, Directory)
                  /\ i.lifecycle # "recovering" => dataPathAvailable(i)
                  /\ i.recoveryKind = "turn-reallocate" => isAvailable(i, Relay(i.replacementTurnRegionId))
<1>1. isAvailable(i, Directory) <=> i.directoryState = "available"
  BY DEF isAvailable, Directory
<1>2. isAvailable(i, Signaling(i)) <=> i.signalingStateByRegion[i.signalingRegionId] = "available"
  BY DEF isAvailable, Signaling
<1>3. \A r : isAvailable(i, Relay(r)) <=> i.turnStateByRegion[r] = "available"
  BY DEF isAvailable, Relay
<1>4. \/ i.lifecycle = "establishing" /\ requiredControlPlane(i) = {Directory, Signaling(i)}
      \/ i.lifecycle = "established" /\ requiredControlPlane(i) = {}
      \/ i.lifecycle = "recovering" /\ requiredControlPlane(i) =
             {Signaling(i)} \cup (IF i.recoveryKind = "rejoin" THEN {Directory} ELSE {})
  BY DEF requiredControlPlane
<1>5. (\A dependency \in requiredControlPlane(i) : isAvailable(i, dependency)) <=>
          /\ i.lifecycle = "establishing" => isAvailable(i, Directory)
          /\ i.lifecycle # "established" => isAvailable(i, Signaling(i))
          /\ i.lifecycle = "recovering" /\ i.recoveryKind = "rejoin" => isAvailable(i, Directory)
  <2>1. CASE i.lifecycle = "establishing"
    BY <1>4, <2>1
  <2>2. CASE i.lifecycle = "established"
    BY <1>4, <2>2
  <2>3. CASE i.lifecycle = "recovering"
    BY <1>4, <2>3
  <2>4. QED
    BY <2>1, <2>2, <2>3
<1>6. QED
  BY <1>1, <1>2, <1>3, <1>5, Zenon DEF operationAvailable

\* What the exhibit derives from its controls.
LEMMA InputOfSession ==
    ASSUME NEW s \in Sessions
    PROVE  LET i == InputOf(s)
               kind == IF s.gameplayPath = "direct" /\ s.recoveryKind = "turn-reallocate" THEN "ice-restart"
                       ELSE s.recoveryKind
               relevant == s.lifecycle = "recovering" /\ kind = "turn-reallocate"
           IN  /\ i.lifecycle = s.lifecycle /\ i.directoryState = s.directoryState
               /\ i.gameplayPath = s.gameplayPath /\ i.signalingRegionId = s.signalingRegionId
               /\ i.signalingStateByRegion =
                      [r \in Regions |-> IF r = s.signalingRegionId THEN s.signalingState ELSE "available"]
               /\ i.recoveryKind = IF s.lifecycle = "recovering" THEN kind ELSE "none"
               /\ i.turnRegionId = IF s.gameplayPath = "turn" THEN s.turnRegionId ELSE NoRelay
               /\ i.turnStateByRegion = turnStateByRegion(s)
               /\ i.replacementTurnRegionId = IF s.gameplayPath = "turn" /\ relevant
                                              THEN s.replacementTurnRegionId ELSE NoRelay
               /\ relevant = replacementRelevant(s) /\ (relevant => s.gameplayPath = "turn")
<1> DEFINE kind == IF s.gameplayPath = "direct" /\ s.recoveryKind = "turn-reallocate" THEN "ice-restart"
                   ELSE s.recoveryKind
<1>1. effectiveRecoveryKind(s) = kind
  BY DEF effectiveRecoveryKind
<1>2. kind = "turn-reallocate" => s.gameplayPath = "turn"
  BY DEF Sessions
<1> HIDE DEF kind
<1>3. replacementRelevant(s) = (s.lifecycle = "recovering" /\ kind = "turn-reallocate")
  BY <1>1 DEF replacementRelevant
<1>4. QED
  BY <1>1, <1>2, <1>3 DEF InputOf, kind

LEMMA RelaysAsChosen ==
    ASSUME NEW s \in Sessions, NEW r \in Regions, s.gameplayPath = "turn"
    PROVE  LET state == turnStateByRegion(s)
           IN  /\ state \in [Regions -> ServiceStates]
               /\ state[s.turnRegionId] = s.turnState
               /\ replacementRelevant(s) =>
                      state[s.replacementTurnRegionId] = effectiveReplacementTurnState(s)
<1>1. replacementRelevant(s) \in BOOLEAN
  BY DEF replacementRelevant
<1>2. effectiveReplacementTurnState(s) \in ServiceStates
  BY DEF effectiveReplacementTurnState, Sessions
<1>3. s.replacementTurnRegionId = s.turnRegionId => effectiveReplacementTurnState(s) = s.turnState
  BY DEF effectiveReplacementTurnState
<1>4. "available" \in ServiceStates /\ s.turnState \in ServiceStates /\ s.turnRegionId \in Regions
      /\ s.replacementTurnRegionId \in Regions
  BY ServiceAssumption DEF Sessions
<1>5. \A q \in Regions : turnStateByRegion(s)[q] =
          IF replacementRelevant(s) /\ q = s.replacementTurnRegionId THEN effectiveReplacementTurnState(s)
          ELSE IF q = s.turnRegionId THEN s.turnState ELSE "available"
  BY <1>1 DEF turnStateByRegion
<1>6. turnStateByRegion(s) = [q \in Regions |-> turnStateByRegion(s)[q]]
  BY DEF turnStateByRegion
<1>7. \A q \in Regions : turnStateByRegion(s)[q] \in ServiceStates
  BY <1>2, <1>4, <1>5
<1>8. turnStateByRegion(s) \in [Regions -> ServiceStates]
  BY <1>6, <1>7
<1>9. QED
  BY <1>1, <1>3, <1>4, <1>5, <1>8

LEMMA SessionPromises ==
    ASSUME session \in Sessions
    PROVE  SessionHolds
<1> DEFINE s == session
           i == InputOf(s)
<1>1. /\ s.lifecycle \in {"establishing", "established", "recovering"} /\ s.gameplayPath \in {"direct", "turn"}
      /\ s.recoveryKind \in {"ice-restart", "rejoin", "turn-reallocate"}
      /\ s.signalingRegionId \in Regions /\ s.turnRegionId \in Regions /\ s.replacementTurnRegionId \in Regions
      /\ \A r \in Regions : r # NoRelay
  BY DEF Sessions, Regions, NoRelay
<1>2. /\ i.lifecycle = s.lifecycle /\ i.directoryState = s.directoryState
      /\ i.gameplayPath = s.gameplayPath /\ i.signalingRegionId = s.signalingRegionId
      /\ i.turnStateByRegion = turnStateByRegion(s)
      /\ i.turnRegionId = IF s.gameplayPath = "turn" THEN s.turnRegionId ELSE NoRelay
      /\ i.replacementTurnRegionId = IF replacementRelevant(s) THEN s.replacementTurnRegionId ELSE NoRelay
      /\ replacementRelevant(s) => s.gameplayPath = "turn" /\ s.lifecycle = "recovering"
      /\ i.recoveryKind = "turn-reallocate" <=> replacementRelevant(s)
      /\ i.lifecycle = "recovering" <=> i.recoveryKind # "none"
      /\ i.recoveryKind \in {"none", "ice-restart", "rejoin", "turn-reallocate"}
  BY <1>1, InputOfSession
<1>3. s.gameplayPath = "turn" =>
          /\ turnStateByRegion(s)[s.turnRegionId] = s.turnState
          /\ replacementRelevant(s) =>
                 turnStateByRegion(s)[s.replacementTurnRegionId] = effectiveReplacementTurnState(s)
  BY <1>1, RelaysAsChosen
<1>4. s.replacementTurnRegionId = s.turnRegionId => effectiveReplacementTurnState(s) = s.turnState
  BY DEF effectiveReplacementTurnState
<1> HIDE DEF i
<1>5. /\ isAvailable(i, Directory) <=> i.directoryState = "available"
      /\ isAvailable(i, Signaling(i)) <=> i.signalingStateByRegion[i.signalingRegionId] = "available"
      /\ \A r : isAvailable(i, Relay(r)) <=> i.turnStateByRegion[r] = "available"
      /\ operationAvailable(i) <=>
             /\ i.lifecycle = "establishing" => isAvailable(i, Directory)
             /\ i.lifecycle # "established" => isAvailable(i, Signaling(i))
             /\ i.lifecycle = "recovering" /\ i.recoveryKind = "rejoin" => isAvailable(i, Directory)
             /\ i.lifecycle # "recovering" => dataPathAvailable(i)
             /\ i.recoveryKind = "turn-reallocate" => isAvailable(i, Relay(i.replacementTurnRegionId))
  BY <1>1, <1>2, OperationNeeds
<1>6. ControlsAreConsistent
  <2>1. Valid(i)
    BY <1>1, <1>2 DEF Valid
  <2>2. s.gameplayPath = "turn" => (isAvailable(i, Relay(s.turnRegionId)) <=> s.turnState = "available")
    BY <1>2, <1>3, <1>5
  <2>3. QED
    BY <2>1, <2>2 DEF ControlsAreConsistent, i
<1>7. OnlyDependenciesMatter
  <2> DEFINE relays == {i.turnRegionId, i.replacementTurnRegionId}
             same(other) == /\ operationAvailable(other) = operationAvailable(i)
                            /\ gameplayAvailable(other) = gameplayAvailable(i)
  <2>1. ASSUME NEW o, o.lifecycle = i.lifecycle, o.gameplayPath = i.gameplayPath,
               o.recoveryKind = i.recoveryKind, o.signalingRegionId = i.signalingRegionId,
               o.turnRegionId = i.turnRegionId, o.replacementTurnRegionId = i.replacementTurnRegionId,
               \/ o.directoryState = i.directoryState
               \/ i.lifecycle = "established" \/ i.recoveryKind \in {"ice-restart", "turn-reallocate"},
               \/ o.signalingStateByRegion[i.signalingRegionId] = i.signalingStateByRegion[i.signalingRegionId]
               \/ i.lifecycle = "established",
               \A r \in relays : o.turnStateByRegion[r] = i.turnStateByRegion[r]
        PROVE  same(o)
    <3>1. /\ isAvailable(o, Directory) <=> o.directoryState = "available"
          /\ isAvailable(o, Signaling(o)) <=> o.signalingStateByRegion[o.signalingRegionId] = "available"
          /\ \A r : isAvailable(o, Relay(r)) <=> o.turnStateByRegion[r] = "available"
          /\ operationAvailable(o) <=>
                 /\ o.lifecycle = "establishing" => isAvailable(o, Directory)
                 /\ o.lifecycle # "established" => isAvailable(o, Signaling(o))
                 /\ o.lifecycle = "recovering" /\ o.recoveryKind = "rejoin" => isAvailable(o, Directory)
                 /\ o.lifecycle # "recovering" => dataPathAvailable(o)
                 /\ o.recoveryKind = "turn-reallocate" => isAvailable(o, Relay(o.replacementTurnRegionId))
      BY <1>1, <1>2, <2>1, OperationNeeds
    <3>2. isAvailable(o, Relay(i.turnRegionId)) <=> isAvailable(i, Relay(i.turnRegionId))
      BY <1>5, <2>1, <3>1
    <3>3. isAvailable(o, Relay(i.replacementTurnRegionId)) <=> isAvailable(i, Relay(i.replacementTurnRegionId))
      BY <1>5, <2>1, <3>1
    <3>4. dataPathAvailable(o) = dataPathAvailable(i)
      BY <2>1, <3>2, Zenon DEF dataPathAvailable
    <3>5. gameplayAvailable(o) = gameplayAvailable(i)
      BY <2>1, <3>4, Zenon DEF gameplayAvailable
    <3>6. i.lifecycle = "establishing" => (isAvailable(o, Directory) <=> isAvailable(i, Directory))
      BY <1>2, <1>5, <2>1, <3>1
    <3>7. i.recoveryKind = "rejoin" => (isAvailable(o, Directory) <=> isAvailable(i, Directory))
      BY <1>2, <1>5, <2>1, <3>1
    <3>8. i.lifecycle # "established" => (isAvailable(o, Signaling(o)) <=> isAvailable(i, Signaling(i)))
      BY <1>5, <2>1, <3>1
    <3>9. operationAvailable(o) <=> operationAvailable(i)
      BY <1>5, <2>1, <3>1, <3>3, <3>4, <3>6, <3>7, <3>8
    <3>10. operationAvailable(o) \in BOOLEAN /\ operationAvailable(i) \in BOOLEAN
      BY DEF operationAvailable
    <3>11. QED
      BY <3>5, <3>9, <3>10
  <2>2. \A f \in {"lifecycle", "gameplayPath", "recoveryKind", "signalingRegionId", "turnRegionId",
                  "replacementTurnRegionId", "directoryState", "signalingStateByRegion",
                  "turnStateByRegion"} : f \in DOMAIN i
    BY DEF i, InputOf
  <2>3. i.signalingRegionId \in Regions
    BY <1>1, <1>2
  <2>4. ASSUME NEW r \in Regions, r # i.signalingRegionId \/ i.lifecycle = "established"
        PROVE  same([i EXCEPT !.signalingStateByRegion[r] = "failed"])
    <3> DEFINE o == [i EXCEPT !.signalingStateByRegion[r] = "failed"]
    <3>1. /\ o.lifecycle = i.lifecycle /\ o.gameplayPath = i.gameplayPath
          /\ o.recoveryKind = i.recoveryKind /\ o.signalingRegionId = i.signalingRegionId
          /\ o.turnRegionId = i.turnRegionId /\ o.replacementTurnRegionId = i.replacementTurnRegionId
          /\ o.directoryState = i.directoryState /\ o.turnStateByRegion = i.turnStateByRegion
          /\ o.signalingStateByRegion = [i.signalingStateByRegion EXCEPT ![r] = "failed"]
      BY <2>2
    <3>2. DOMAIN i.signalingStateByRegion = Regions
      BY DEF i, InputOf
    <3>3. \/ o.signalingStateByRegion[i.signalingRegionId] = i.signalingStateByRegion[i.signalingRegionId]
          \/ i.lifecycle = "established"
      BY <2>3, <2>4, <3>1, <3>2
    <3> HIDE DEF o
    <3>4. same(o)
      BY <2>1, <3>1, <3>3
    <3>5. QED
      BY <3>4 DEF o
  <2>5. ASSUME NEW r \in Regions, r \notin relays
        PROVE  same([i EXCEPT !.turnStateByRegion[r] = "failed"])
    <3> DEFINE o == [i EXCEPT !.turnStateByRegion[r] = "failed"]
    <3>1. /\ o.lifecycle = i.lifecycle /\ o.gameplayPath = i.gameplayPath
          /\ o.recoveryKind = i.recoveryKind /\ o.signalingRegionId = i.signalingRegionId
          /\ o.turnRegionId = i.turnRegionId /\ o.replacementTurnRegionId = i.replacementTurnRegionId
          /\ o.directoryState = i.directoryState /\ o.signalingStateByRegion = i.signalingStateByRegion
          /\ o.turnStateByRegion = [i.turnStateByRegion EXCEPT ![r] = "failed"]
      BY <2>2
    <3>2. \A q \in relays : o.turnStateByRegion[q] = i.turnStateByRegion[q]
      BY <2>5, <3>1
    <3> HIDE DEF o
    <3>4. same(o)
      BY <2>1, <3>1, <3>2
    <3>5. QED
      BY <3>4 DEF o
  <2>6. ASSUME i.lifecycle = "established" \/ i.recoveryKind \in {"ice-restart", "turn-reallocate"}
        PROVE  same([i EXCEPT !.directoryState = "partitioned"])
    <3> DEFINE o == [i EXCEPT !.directoryState = "partitioned"]
    <3>1. /\ o.lifecycle = i.lifecycle /\ o.gameplayPath = i.gameplayPath
          /\ o.recoveryKind = i.recoveryKind /\ o.signalingRegionId = i.signalingRegionId
          /\ o.turnRegionId = i.turnRegionId /\ o.replacementTurnRegionId = i.replacementTurnRegionId
          /\ o.turnStateByRegion = i.turnStateByRegion /\ o.signalingStateByRegion = i.signalingStateByRegion
      BY <2>2
    <3> HIDE DEF o
    <3>4. same(o)
      BY <2>1, <2>6, <3>1
    <3>5. QED
      BY <3>4 DEF o
  <2>7. QED
    BY <2>4, <2>5, <2>6 DEF OnlyDependenciesMatter, i
<1>8. BlockersExplain
  <2> DEFINE relays == {i.turnRegionId, i.replacementTurnRegionId} \ {NoRelay}
             listed == {Directory, Signaling(i)} \cup {Relay(r) : r \in relays}
  <2>1. blockers(i) = {dependency \in listed : ~isAvailable(i, dependency)}
    BY DEF blockers
  <2> DEFINE blocked == blockers(i)
  <2>2. ~isAvailable(i, Directory) => Directory \in blocked
    BY <2>1
  <2>3. ~isAvailable(i, Signaling(i)) => Signaling(i) \in blocked
    BY <2>1
  <2>4. \A r \in relays : ~isAvailable(i, Relay(r)) => Relay(r) \in blocked
    BY <2>1
  <2>5. i.gameplayPath = "turn" => i.turnRegionId \in relays
    BY <1>1, <1>2
  <2>6. i.recoveryKind = "turn-reallocate" => i.replacementTurnRegionId \in relays
    BY <1>1, <1>2
  <2>7. dataPathAvailable(i) <=> (i.gameplayPath = "direct" \/ isAvailable(i, Relay(i.turnRegionId)))
    BY DEF dataPathAvailable
  <2>8. ~dataPathAvailable(i) => Relay(i.turnRegionId) \in blocked
    BY <1>1, <1>2, <2>4, <2>5, <2>7
  <2>9. ~operationAvailable(i) => blocked # {}
    BY <1>5, <2>2, <2>3, <2>4, <2>6, <2>8
  <2>10. ASSUME i.lifecycle = "establishing", operationAvailable(i)
         PROVE  blocked = {}
    <3>1. isAvailable(i, Directory) /\ isAvailable(i, Signaling(i)) /\ dataPathAvailable(i)
      BY <1>5, <2>10
    <3>2. i.replacementTurnRegionId = NoRelay
      BY <1>1, <1>2, <2>10
    <3>3. i.gameplayPath = "direct" => i.turnRegionId = NoRelay
      BY <1>1, <1>2
    <3>4. \A r \in relays : isAvailable(i, Relay(r))
      BY <2>7, <3>1, <3>2, <3>3
    <3>5. \A dependency \in listed : isAvailable(i, dependency)
      BY <3>1, <3>4
    <3>6. QED
      BY <2>1, <3>5
  <2>11. ASSUME i.recoveryKind = "turn-reallocate", s.turnState # "available", operationAvailable(i)
         PROVE  i.replacementTurnRegionId # i.turnRegionId
    BY <1>1, <1>2, <1>3, <1>4, <1>5, <2>11
  <2>12. QED
    BY <2>9, <2>10, <2>11 DEF BlockersExplain, i
<1>9. QED
  BY <1>6, <1>7, <1>8 DEF SessionHolds

\* However the visitor sets the controls, the simulation accepts them, only what an operation
\* depends on can stop it, and what stops it is on the list.
THEOREM SessionsLoseOnlyTheirDependencies == SessionSpec => []SessionHolds
<1>1. SessionInit => session \in Sessions
  BY ServiceAssumption DEF SessionInit, DefaultSession, Sessions, Regions
<1>2. session \in Sessions /\ [ChangeControl]_session => (session \in Sessions)'
  BY ControlKeepsSession
<1>3. session \in Sessions => SessionHolds
  BY SessionPromises
<1>4. QED
  BY <1>1, <1>2, <1>3, PTL DEF SessionSpec

-----------------------------------------------------------------------------

(* How far the players are from each other. *)

Controls ==
    [signalingRegionId : Regions, topology : {"full-mesh", "host-spoke"}, hostSiteId : Sites,
     connectivityMode : {"direct", "turn-fallback"}, turnRegionId : Regions]

LEMMA ControlKeepsControls ==
    ASSUME latency \in Controls, ChangeLatencyControl
    PROVE  latency' \in Controls
<1>1. PICK control \in DOMAIN LatencyOptions : \E x \in LatencyOptions[control] :
          latency' = [latency EXCEPT ![control] = x]
  BY DEF ChangeLatencyControl
<1>2. PICK x \in LatencyOptions[control] : latency' = [latency EXCEPT ![control] = x]
  BY <1>1
<1>3. CASE control \in {"topology", "connectivityMode"}
  BY <1>2, <1>3 DEF Controls, LatencyOptions
<1>4. CASE control \in {"signalingRegionId", "hostSiteId", "turnRegionId"}
  BY <1>2, <1>4 DEF Controls, LatencyOptions
<1>5. QED
  BY <1>3, <1>4 DEF LatencyOptions

\* The measured times.
LEMMA Distances ==
    ASSUME NEW s \in Sites, NEW t \in Sites
    PROVE  /\ baseRttMs[s][t] \in 0..205 /\ directPeerRttMs[s][t] \in 0..196
           /\ \A r \in Regions : s # t => directPeerRttMs[s][t] <= baseRttMs[s][r] + baseRttMs[t][r]
<1>1. \A r \in Regions : baseRttMs[s][r] \in 0..205
  BY DEF Sites, Regions, baseRttMs
<1>2. baseRttMs[s][t] \in 0..205
  BY DEF Sites, baseRttMs
<1>3. directPeerRttMs[s][t] \in 0..196
  BY DEF Sites, directPeerRttMs
<1>4. ASSUME NEW r \in Regions, s # t
      PROVE  directPeerRttMs[s][t] <= baseRttMs[s][r] + baseRttMs[t][r]
  <2>1. CASE s = 1
    BY <1>4, <2>1 DEF Sites, Regions, directPeerRttMs, baseRttMs
  <2>2. CASE s = 2
    BY <1>4, <2>2 DEF Sites, Regions, directPeerRttMs, baseRttMs
  <2>3. CASE s = 3
    BY <1>4, <2>3 DEF Sites, Regions, directPeerRttMs, baseRttMs
  <2>4. QED
    BY <2>1, <2>2, <2>3 DEF Sites
<1>5. QED
  BY <1>2, <1>3, <1>4

\* The players a topology connects.
LEMMA PairsOf ==
    ASSUME NEW l \in Controls
    PROVE  /\ topologyPairs(l) \subseteq Sites \X Sites /\ topologyPairs(l) # {}
           /\ \A edge \in topologyPairs(l) : edge[1] \in Sites /\ edge[2] \in Sites /\ edge[1] # edge[2]
<1>1. l.hostSiteId \in Sites /\ l.topology \in {"full-mesh", "host-spoke"}
  BY DEF Controls
<1>2. CASE l.topology = "host-spoke"
  <2>1. topologyPairs(l) = {<<l.hostSiteId, s>> : s \in Sites \ {l.hostSiteId}}
    BY <1>2 DEF topologyPairs
  <2>2. PICK s \in Sites : s # l.hostSiteId
    BY DEF Sites
  <2>3. <<l.hostSiteId, s>> \in topologyPairs(l)
    BY <2>1, <2>2
  <2>4. ASSUME NEW edge \in topologyPairs(l)
        PROVE  edge \in Sites \X Sites /\ edge[1] \in Sites /\ edge[2] \in Sites /\ edge[1] # edge[2]
    <3>1. PICK t \in Sites \ {l.hostSiteId} : edge = <<l.hostSiteId, t>>
      BY <2>1, <2>4
    <3>2. QED
      BY <1>1, <3>1
  <2>5. QED
    BY <2>3, <2>4
<1>3. CASE l.topology = "full-mesh"
  <2>1. topologyPairs(l) = {edge \in Sites \X Sites : edge[1] < edge[2]}
    BY <1>3 DEF topologyPairs
  <2>2. <<1, 2>> \in Sites \X Sites
    BY DEF Sites
  <2>3. <<1, 2>> \in topologyPairs(l)
    BY <2>1, <2>2
  <2>4. \A s, t \in Sites : s < t => s # t
    BY DEF Sites
  <2>5. QED
    BY <2>1, <2>3, <2>4
<1>4. QED
  BY <1>1, <1>2, <1>3

LEMMA EdgesOf ==
    ASSUME NEW l \in Controls
    PROVE  LET E == {edgeRttMs(l, edge) : edge \in topologyPairs(l)}
           IN  /\ Max(E) \in E /\ Max(E) \in Nat /\ \A x \in E : x <= Max(E)
               /\ l.connectivityMode = "direct" => Max(E) <= 196
<1> DEFINE E == {edgeRttMs(l, edge) : edge \in topologyPairs(l)}
<1>1. l.connectivityMode \in {"direct", "turn-fallback"} /\ l.turnRegionId \in Sites
  BY DEF Controls, Sites, Regions
<1>2. ASSUME NEW edge \in topologyPairs(l)
      PROVE  /\ edgeRttMs(l, edge) \in 0..410
             /\ l.connectivityMode = "direct" => edgeRttMs(l, edge) <= 196
  <2>1. edge[1] \in Sites /\ edge[2] \in Sites
    BY <1>2, PairsOf
  <2>2. directPeerRttMs[edge[1]][edge[2]] \in 0..196 /\ baseRttMs[edge[1]][l.turnRegionId] \in 0..205
        /\ baseRttMs[edge[2]][l.turnRegionId] \in 0..205
    <3>1. \A s, t \in Sites : directPeerRttMs[s][t] \in 0..196 /\ baseRttMs[s][t] \in 0..205
      BY Distances
    <3>2. QED
      BY <1>1, <2>1, <3>1
  <2>3. CASE l.connectivityMode = "direct"
    <3>1. edgeRttMs(l, edge) = directPeerRttMs[edge[1]][edge[2]]
      BY <2>3, Zenon DEF edgeRttMs
    <3>2. \A a \in 0..196 : a \in 0..410 /\ a <= 196
      OBVIOUS
    <3>3. QED
      BY <2>2, <3>1, <3>2, Zenon
  <2>4. CASE l.connectivityMode = "turn-fallback"
    <3>1. edgeRttMs(l, edge) = baseRttMs[edge[1]][l.turnRegionId] + baseRttMs[edge[2]][l.turnRegionId]
      BY <2>4 DEF edgeRttMs
    <3>2. \A a, b \in 0..205 : a + b \in 0..410
      OBVIOUS
    <3>3. baseRttMs[edge[1]][l.turnRegionId] + baseRttMs[edge[2]][l.turnRegionId] \in 0..410
      BY <2>2, <3>2, Zenon
    <3>4. edgeRttMs(l, edge) \in 0..410
      BY <3>1, <3>3, Zenon
    <3>5. QED
      BY <2>4, <3>4, Zenon
  <2>5. QED
    BY <1>1, <2>3, <2>4
<1>3. E \in SUBSET Nat /\ E # {} /\ \A x \in E : x <= 410
  BY <1>2, PairsOf
<1>4. l.connectivityMode = "direct" => \A x \in E : x <= 196
  BY <1>2
<1> DEFINE b == 410
<1>0. b \in Nat /\ \A x \in E : x <= b
  BY <1>3
<1> HIDE DEF E, b
<1>5. Max(E) \in E /\ Max(E) \in Nat /\ \A x \in E : x <= Max(E)
  BY <1>0, <1>3, LargestIsMax
<1>6. QED
  BY <1>4, <1>5 DEF E

LEMMA WorstAccess ==
    ASSUME NEW r \in Regions
    PROVE  worstAccessRtt(r) \in 165..205
<1> DEFINE S == {baseRttMs[s][r] : s \in Sites}
<1>1. S \in SUBSET Nat /\ S # {} /\ \A x \in S : x <= 205
  <2>1. ASSUME NEW s \in Sites
        PROVE  baseRttMs[s][r] \in Nat /\ baseRttMs[s][r] <= 205
    <3>1. r \in Sites
      BY DEF Sites, Regions
    <3>2. baseRttMs[s][r] \in 0..205
      BY <3>1, Distances
    <3>3. QED
      BY <3>2
  <2>2. 1 \in Sites
    BY DEF Sites
  <2>3. QED
    BY <2>1, <2>2
<1>2. \E x \in S : x >= 165
  <2>1. \/ r = 1 /\ baseRttMs[3][r] = 165
        \/ r = 2 /\ baseRttMs[3][r] = 205
        \/ r = 3 /\ baseRttMs[1][r] = 170
    BY DEF Regions, baseRttMs
  <2>2. 1 \in Sites /\ 3 \in Sites
    BY DEF Sites
  <2>3. baseRttMs[1][r] \in S /\ baseRttMs[3][r] \in S
    BY <2>2
  <2> HIDE DEF S
  <2>4. CASE r \in {1, 2}
    <3>1. baseRttMs[3][r] \in {165, 205}
      BY <2>1, <2>4
    <3>2. QED
      BY <2>3, <3>1
  <2>5. CASE r = 3
    BY <2>1, <2>3, <2>5
  <2>6. QED
    BY <2>1, <2>4, <2>5
<1> HIDE DEF S
<1>3. Max(S) \in S /\ Max(S) \in Nat /\ \A x \in S : x <= Max(S)
  BY <1>1, LargestIsMax, ZenonT(60)
<1>4. Max(S) <= 205 /\ Max(S) >= 165
  BY <1>1, <1>2, <1>3
<1>5. QED
  BY <1>3, <1>4 DEF worstAccessRtt, S

LEMMA LatencyPromises ==
    ASSUME latency \in Controls
    PROVE  LatencyHolds
<1> DEFINE l == latency
<1>1. SignalingIsNotThePath
  <2>1. SUFFICES ASSUME NEW r \in Regions
                 PROVE  LET other == [l EXCEPT !.signalingRegionId = r]
                        IN  /\ worstGameplayRttMs(other) = worstGameplayRttMs(l)
                            /\ setupLatencyMs(other) - setupLatencyMs(l)
                                   = 3 * (worstAccessRtt(r) - worstAccessRtt(l.signalingRegionId))
    BY Zenon DEF SignalingIsNotThePath, compareSignalingRegions
  <2> DEFINE o == [l EXCEPT !.signalingRegionId = r]
  <2>2. o.signalingRegionId = r /\ o.topology = l.topology /\ o.hostSiteId = l.hostSiteId
        /\ o.connectivityMode = l.connectivityMode /\ o.turnRegionId = l.turnRegionId
    BY DEF Controls
  <2> HIDE DEF o
  <2>3. topologyPairs(o) = topologyPairs(l)
    BY <2>2, Zenon DEF topologyPairs
  <2>4. \A edge : edgeRttMs(o, edge) = edgeRttMs(l, edge)
    BY <2>2, Zenon DEF edgeRttMs
  <2>5. {edgeRttMs(o, edge) : edge \in topologyPairs(o)} = {edgeRttMs(l, edge) : edge \in topologyPairs(l)}
    BY <2>3, <2>4
  <2>6. worstGameplayRttMs(o) = worstGameplayRttMs(l) /\ iceMs(o) = iceMs(l)
    BY <2>2, <2>5, Zenon DEF worstGameplayRttMs, iceMs
  <2>7. worstAccessRtt(r) \in Nat /\ worstAccessRtt(l.signalingRegionId) \in Nat
    BY WorstAccess DEF Controls
  <2>8. iceMs(l) \in Int
    <3>1. l.turnRegionId \in Regions
      BY DEF Controls
    <3>2. worstAccessRtt(l.turnRegionId) \in Nat
      BY <3>1, WorstAccess
    <3>3. Max({edgeRttMs(l, edge) : edge \in topologyPairs(l)}) \in Nat
      BY EdgesOf
    <3>4. QED
      BY <3>2, <3>3 DEF iceMs, DirectIceBaseMs, DirectAttemptTimeoutMs, TurnAllocationMs
  <2>9. setupLatencyMs(o) - setupLatencyMs(l)
            = 3 * (worstAccessRtt(r) - worstAccessRtt(l.signalingRegionId))
    <3>1. setupLatencyMs(o) = (worstAccessRtt(r) + RoomServiceMs)
              + (2 * worstAccessRtt(r) + WebsocketServiceMs) + iceMs(l)
      BY <2>2, <2>6 DEF setupLatencyMs
    <3>2. setupLatencyMs(l) = (worstAccessRtt(l.signalingRegionId) + RoomServiceMs)
              + (2 * worstAccessRtt(l.signalingRegionId) + WebsocketServiceMs) + iceMs(l)
      BY DEF setupLatencyMs
    <3>3. QED
      BY <2>7, <2>8, <3>1, <3>2 DEF RoomServiceMs, WebsocketServiceMs
  <2>10. QED
    BY <2>6, <2>9 DEF o
<1>2. PathsCoverThePlayers
  <2> DEFINE pairs == topologyPairs(l)
             relayed == [l EXCEPT !.connectivityMode = "turn-fallback"]
             straight == [l EXCEPT !.connectivityMode = "direct"]
  <2>1. ASSUME NEW s \in Sites, NEW t \in Sites
        PROVE  \/ s = t \/ {<<s, t>>, <<t, s>>} \cap pairs # {}
               \/ l.topology = "host-spoke" /\ l.hostSiteId \notin {s, t}
    <3>1. CASE l.topology = "host-spoke" /\ l.hostSiteId \in {s, t} /\ s # t
      <4>1. topologyPairs(l) = {<<l.hostSiteId, q>> : q \in Sites \ {l.hostSiteId}}
        BY <3>1 DEF topologyPairs
      <4>2. <<s, t>> \in pairs \/ <<t, s>> \in pairs
        BY <3>1, <4>1
      <4>3. QED
        BY <4>2
    <3>2. CASE l.topology # "host-spoke" /\ s # t
      <4>1. topologyPairs(l) = {edge \in Sites \X Sites : edge[1] < edge[2]}
        BY <3>2 DEF topologyPairs
      <4>2. s < t \/ t < s
        BY <3>2 DEF Sites
      <4>3. <<s, t>> \in pairs \/ <<t, s>> \in pairs
        BY <4>1, <4>2
      <4>4. QED
        BY <4>3
    <3>3. QED
      BY <3>1, <3>2
  <2>2. relayed \in Controls /\ relayed.connectivityMode = "turn-fallback"
        /\ relayed.turnRegionId = l.turnRegionId /\ relayed.signalingRegionId = l.signalingRegionId
    BY DEF Controls
  <2>3. straight \in Controls /\ straight.connectivityMode = "direct"
        /\ straight.signalingRegionId = l.signalingRegionId
    BY DEF Controls
  <2>4. l.turnRegionId \in Regions /\ l.signalingRegionId \in Regions
    BY DEF Controls
  <2> HIDE DEF relayed, straight
  <2>5. ASSUME NEW edge \in pairs
        PROVE  edge[1] # edge[2] /\ edgeRttMs(straight, edge) <= edgeRttMs(relayed, edge)
    <3>1. edge[1] \in Sites /\ edge[2] \in Sites /\ edge[1] # edge[2]
      BY <2>5, PairsOf
    <3>2. edgeRttMs(straight, edge) = directPeerRttMs[edge[1]][edge[2]]
      BY <2>3 DEF edgeRttMs
    <3>3. edgeRttMs(relayed, edge) = baseRttMs[edge[1]][l.turnRegionId] + baseRttMs[edge[2]][l.turnRegionId]
      BY <2>2 DEF edgeRttMs
    <3>4. QED
      BY <2>4, <3>1, <3>2, <3>3, Distances
  <2>6. setupLatencyMs(straight) <= setupLatencyMs(relayed)
    <3> DEFINE E == {edgeRttMs(straight, edge) : edge \in topologyPairs(straight)}
    <3>1. Max(E) \in Nat /\ Max(E) <= 196
      BY <2>3, EdgesOf
    <3>2. iceMs(straight) = DirectIceBaseMs + Max(E)
      BY <2>3 DEF iceMs
    <3>3. iceMs(relayed) = DirectAttemptTimeoutMs + TurnAllocationMs + worstAccessRtt(l.turnRegionId)
      BY <2>2 DEF iceMs
    <3>4. worstAccessRtt(l.turnRegionId) \in 165..205 /\ worstAccessRtt(l.signalingRegionId) \in 165..205
      BY <2>4, WorstAccess
    <3> HIDE DEF E
    <3>5. iceMs(straight) \in Nat /\ iceMs(relayed) \in Nat /\ iceMs(straight) <= iceMs(relayed)
      BY <3>1, <3>2, <3>3, <3>4 DEF DirectIceBaseMs, DirectAttemptTimeoutMs, TurnAllocationMs
    <3>6. setupLatencyMs(straight) = (worstAccessRtt(l.signalingRegionId) + RoomServiceMs)
              + (2 * worstAccessRtt(l.signalingRegionId) + WebsocketServiceMs) + iceMs(straight)
      BY <2>3 DEF setupLatencyMs
    <3>7. setupLatencyMs(relayed) = (worstAccessRtt(l.signalingRegionId) + RoomServiceMs)
              + (2 * worstAccessRtt(l.signalingRegionId) + WebsocketServiceMs) + iceMs(relayed)
      BY <2>2 DEF setupLatencyMs
    <3>8. QED
      BY <3>4, <3>5, <3>6, <3>7 DEF RoomServiceMs, WebsocketServiceMs
  <2>7. QED
    BY <2>1, <2>5, <2>6, Zenon DEF PathsCoverThePlayers, relayed, straight
<1>3. QED
  BY <1>1, <1>2 DEF LatencyHolds

\* Whatever the controls, signaling moves the set-up by exactly three of its round trips and
\* never the game; the paths cover the players, and a relay makes nothing faster.
THEOREM SignalingNeverMovesTheGame == LatencySpec => []LatencyHolds
<1>1. LatencyInit => latency \in Controls
  BY DEF LatencyInit, Controls, Regions, Sites
<1>2. latency \in Controls /\ [ChangeLatencyControl]_latency => (latency \in Controls)'
  BY ControlKeepsControls
<1>3. latency \in Controls => LatencyHolds
  BY LatencyPromises
<1>4. QED
  BY <1>1, <1>2, <1>3, PTL DEF LatencySpec

-----------------------------------------------------------------------------

(* Global ingress. *)

\* The request at index is routed by the policy.
IngressInv ==
    LET c == ingress.config
        routes == ingress.requests
        routed(r) == Cardinality(PlacesOf(routes, r))
    IN  /\ c \in IngressSettings
        /\ ingress = [config |-> c, requests |-> routes]
        /\ routes \in Seq(0..3)
        /\ \A i \in DOMAIN routes : routes[i] = selectRegion(c, clientSite(c, i - 1), i - 1)
        /\ c.routingPolicy = "round-robin" =>
               \A r \in c.healthy :
                   routed(r) = Turns(Len(routes), Cardinality(c.healthy), RankIn(c.healthy, r))

LEMMA HealthyRegions ==
    ASSUME NEW c \in IngressSettings, c.healthy # {}
    PROVE  c.healthy \in SUBSET Nat /\ c.healthy \subseteq Regions /\ IsFiniteSet(c.healthy)
<1>1. c.healthy \subseteq Regions
  BY IngressAssumption
<1>2. IsFiniteSet(Regions)
  <2>1. 1 \in Int /\ 3 \in Int
    OBVIOUS
  <2>2. QED
    BY <2>1, FS_Interval, Zenon DEF Regions
<1>3. Regions \subseteq Nat
  BY DEF Regions
<1>4. QED
  BY <1>1, <1>2, <1>3, FS_Subset

LEMMA IngressTypes ==
    ASSUME NEW c \in IngressSettings
    PROVE  /\ c.routingPolicy \in {"round-robin", "geography", "latency"}
           /\ c.addedLatencyMs \in [Regions -> Nat]
<1>1. c.routingPolicy \in {"round-robin", "geography", "latency"}
  BY IngressAssumption
<1>2. c.addedLatencyMs \in [Regions -> 0..1000]
  BY IngressAssumption
<1>3. \A f \in [Regions -> 0..1000] : f \in [Regions -> Nat]
  OBVIOUS
<1>4. QED
  BY <1>1, <1>2, <1>3

LEMMA ClientSites ==
    ASSUME NEW c \in IngressSettings, NEW index \in Nat
    PROVE  clientSite(c, index) \in Sites
<1>1. c.trafficProfile \in {"balanced", "europe-heavy", "asia-heavy"}
  BY IngressAssumption
<1>2. TrafficPattern(c.trafficProfile) \in Seq(Sites) /\ Len(TrafficPattern(c.trafficProfile)) \in {3, 6}
  <2>1. CASE c.trafficProfile = "balanced"
    <3>1. TrafficPattern(c.trafficProfile) = <<1, 2, 3>>
      BY <2>1 DEF TrafficPattern
    <3>2. QED
      BY <3>1 DEF Sites
  <2>2. CASE c.trafficProfile = "europe-heavy"
    <3>1. TrafficPattern(c.trafficProfile) = <<1, 1, 1, 1, 2, 3>>
      BY <2>2 DEF TrafficPattern
    <3>2. QED
      BY <3>1 DEF Sites
  <2>3. CASE c.trafficProfile = "asia-heavy"
    <3>1. TrafficPattern(c.trafficProfile) = <<3, 3, 3, 3, 2, 1>>
      BY <2>3 DEF TrafficPattern
    <3>2. QED
      BY <3>1 DEF Sites
  <2>4. QED
    BY <1>1, <2>1, <2>2, <2>3
<1> DEFINE pattern == TrafficPattern(c.trafficProfile)
<1>3. (index % Len(pattern)) + 1 \in 1..Len(pattern)
  <2>1. (index % 3) + 1 \in 1..3 /\ (index % 6) + 1 \in 1..6
    OBVIOUS
  <2>2. QED
    BY <1>2, <2>1
<1> HIDE DEF pattern
<1>4. pattern[(index % Len(pattern)) + 1] \in Sites
  BY <1>2, <1>3, ElementOfSeq DEF pattern
<1>5. QED
  BY <1>4 DEF clientSite, pattern

LEMMA NthHealthy ==
    ASSUME NEW S \in SUBSET Nat, IsFiniteSet(S), S # {}, NEW n \in 0..(Cardinality(S) - 1)
    PROVE  nthHealthy(S, n) \in S /\ RankIn(S, nthHealthy(S, n)) = n
<1>1. \E r \in S : Cardinality({q \in S : q < r}) = n
  BY Ranks DEF RankIn
<1>2. QED
  BY <1>1 DEF nthHealthy, RankIn

\* The region of lowest latency is as near as any.
LEMMA NearestRegion ==
    ASSUME NEW S \in SUBSET Regions, S # {}, NEW site \in Sites, NEW added \in [Regions -> Nat]
    PROVE  LET r == lowestLatencyRegion(site, S, added)
           IN  r \in S /\ \A q \in S : baseRttMs[site][r] + added[r] <= baseRttMs[site][q] + added[q]
<1> DEFINE f == [r \in Regions |-> baseRttMs[site][r] + added[r]]
           L == {r \in S : \A q \in S : baseRttMs[site][r] + added[r] <= baseRttMs[site][q] + added[q]}
<1>1. S \in SUBSET Nat
  BY DEF Regions
<1>2. \A r \in Regions : baseRttMs[site][r] \in Nat
  BY DEF Regions, Sites, baseRttMs
<1>3. \A r \in S : f[r] \in Int /\ 0 <= f[r]
  BY <1>2
<1>4. L = LowestBy(f, S)
  BY DEF LowestBy
<1>5. lowestLatencyRegion(site, S, added) = Min(L)
  BY Zenon DEF lowestLatencyRegion, Least, Lowest
<1> DEFINE b == 0
<1>6. b \in Int /\ \A r \in S : f[r] \in Int /\ b <= f[r]
  BY <1>3
<1> HIDE DEF f, L, b
<1>7. Min(L) \in S /\ \A q \in S : f[Min(L)] <= f[q]
  BY <1>1, <1>4, <1>6, Cheapest
<1>8. QED
  BY <1>5, <1>7 DEF f

LEMMA Selected ==
    ASSUME NEW c \in IngressSettings, NEW index \in Nat
    PROVE  LET r == selectRegion(c, clientSite(c, index), index)
           IN  /\ r \in 0..3
               /\ c.healthy = {} => r = NoRegion
               /\ c.healthy # {} => r \in c.healthy
               /\ c.healthy # {} /\ c.routingPolicy = "round-robin" =>
                      RankIn(c.healthy, r) = index % Cardinality(c.healthy)
               /\ c.healthy # {} /\ c.routingPolicy = "geography"
                      /\ homeRegion(clientSite(c, index)) \in c.healthy => r = homeRegion(clientSite(c, index))
               /\ c.healthy # {} /\ c.routingPolicy = "latency" =>
                      \A q \in c.healthy : baseRttMs[clientSite(c, index)][r] + c.addedLatencyMs[r]
                                               <= baseRttMs[clientSite(c, index)][q] + c.addedLatencyMs[q]
<1> DEFINE site == clientSite(c, index)
           r == selectRegion(c, site, index)
           h == c.healthy
<1>1. site \in Sites
  BY ClientSites
<1> HIDE DEF site
<1>2. c.routingPolicy \in {"round-robin", "geography", "latency"} /\ c.addedLatencyMs \in [Regions -> Nat]
  BY IngressTypes
<1>3. CASE h = {}
  <2>1. r = NoRegion
    BY <1>3 DEF selectRegion
  <2>2. QED
    BY <1>3, <2>1 DEF NoRegion, site
<1>4. CASE h # {}
  <2>1. h \in SUBSET Nat /\ h \subseteq Regions /\ IsFiniteSet(h)
    BY <1>4, HealthyRegions
  <2>2. CASE c.routingPolicy = "round-robin"
    <3>1. Cardinality(h) \in Nat \ {0}
      BY <1>4, <2>1, Ranks
    <3>2. index % Cardinality(h) \in 0..(Cardinality(h) - 1)
      BY <3>1
    <3>3. r = nthHealthy(h, index % Cardinality(h))
      BY <1>4, <2>2 DEF selectRegion
    <3>4. r \in h /\ RankIn(h, r) = index % Cardinality(h)
      BY <1>4, <2>1, <3>2, <3>3, NthHealthy
    <3> HIDE DEF r
    <3>5. QED
      BY <1>4, <2>1, <2>2, <3>4 DEF Regions, r, site
  <2>3. CASE c.routingPolicy = "geography"
    <3>1. r = IF homeRegion(site) \in h THEN homeRegion(site) ELSE geographicFallbackRegion(site, h)
      BY <1>4, <2>3 DEF selectRegion
    <3>2. [q \in Regions |-> 0] \in [Regions -> Nat]
      OBVIOUS
    <3>3. geographicFallbackRegion(site, h) \in h
      BY <1>1, <1>4, <2>1, <3>2, NearestRegion DEF geographicFallbackRegion
    <3> HIDE DEF r
    <3>4. r \in h /\ (homeRegion(site) \in h => r = homeRegion(site))
      BY <3>1, <3>3
    <3>5. QED
      BY <1>4, <2>1, <2>3, <3>4 DEF Regions, r, site
  <2>4. CASE c.routingPolicy = "latency"
    <3>1. r = lowestLatencyRegion(site, h, c.addedLatencyMs)
      BY <1>4, <2>4 DEF selectRegion
    <3> HIDE DEF r
    <3>2. r \in h /\ \A q \in h : baseRttMs[site][r] + c.addedLatencyMs[r]
                                      <= baseRttMs[site][q] + c.addedLatencyMs[q]
      BY <1>1, <1>2, <1>4, <2>1, <3>1, NearestRegion
    <3>3. r \in 0..3
      BY <2>1, <3>2 DEF Regions
    <3>4. QED
      BY <1>4, <2>4, <3>2, <3>3, Zenon DEF r, site
  <2>5. QED
    BY <1>2, <2>2, <2>3, <2>4
<1>5. QED
  BY <1>3, <1>4

LEMMA RouteKeeps ==
    ASSUME IngressInv, Route
    PROVE  IngressInv'
<1> DEFINE c == ingress.config
           s == ingress.requests
           n == Len(s)
           x == selectRegion(c, clientSite(c, n), n)
<1>1. /\ c \in IngressSettings /\ ingress = [config |-> c, requests |-> s] /\ s \in Seq(0..3)
      /\ \A i \in DOMAIN s : s[i] = selectRegion(c, clientSite(c, i - 1), i - 1)
      /\ c.routingPolicy = "round-robin" =>
             \A r \in c.healthy : Cardinality(PlacesOf(s, r))
                                      = Turns(n, Cardinality(c.healthy), RankIn(c.healthy, r))
  BY DEF IngressInv
<1>2. n \in Nat /\ DOMAIN s = 1..n
  BY <1>1
<1>3. ingress'.config = c /\ ingress'.requests = Append(s, x)
      /\ ingress' = [config |-> c, requests |-> Append(s, x)]
  BY <1>1 DEF Route
<1>4. x \in 0..3
  BY <1>1, <1>2, Selected
<1> HIDE DEF c, s
<1>5. Append(s, x) \in Seq(0..3)
  BY <1>1, <1>4
<1>6. Len(Append(s, x)) = n + 1 /\ DOMAIN Append(s, x) = 1..(n + 1) /\ Append(s, x)[n + 1] = x
      /\ \A i \in 1..n : Append(s, x)[i] = s[i]
  BY <1>1, <1>2, <1>4
<1> HIDE DEF n
<1>7. \A i \in 1..(n + 1) : Append(s, x)[i] = selectRegion(c, clientSite(c, i - 1), i - 1)
  <2> SUFFICES ASSUME NEW i \in 1..(n + 1)
               PROVE  Append(s, x)[i] = selectRegion(c, clientSite(c, i - 1), i - 1)
    OBVIOUS
  <2>1. CASE i = n + 1
    <3>1. (n + 1) - 1 = n
      BY <1>2
    <3>2. QED
      BY <1>6, <2>1, <3>1
  <2>2. CASE i \in 1..n
    BY <1>1, <1>2, <1>6, <2>2
  <2>3. QED
    BY <1>2, <2>1, <2>2
<1>8. ASSUME c.routingPolicy = "round-robin", NEW r \in c.healthy
      PROVE  Cardinality(PlacesOf(Append(s, x), r))
                 = Turns(n + 1, Cardinality(c.healthy), RankIn(c.healthy, r))
  <2>1. c.healthy \in SUBSET Nat /\ IsFiniteSet(c.healthy) /\ c.healthy # {}
    BY <1>1, <1>8, HealthyRegions
  <2>2. Cardinality(c.healthy) \in Nat \ {0} /\ RankIn(c.healthy, r) \in 0..(Cardinality(c.healthy) - 1)
    BY <1>8, <2>1, Ranks
  <2>3. x \in c.healthy /\ RankIn(c.healthy, x) = n % Cardinality(c.healthy)
    BY <1>1, <1>2, <1>8, <2>1, Selected
  <2> HIDE DEF x
  <2>4. x = r <=> RankIn(c.healthy, r) = n % Cardinality(c.healthy)
    BY <1>8, <2>1, <2>3, Ranks
  <2>5. Cardinality(PlacesOf(Append(s, x), r))
            = Cardinality(PlacesOf(s, r)) + (IF x = r THEN 1 ELSE 0)
    <3> DEFINE T == 0..3
    <3>1. s \in Seq(T) /\ x \in T
      BY <1>1, <1>4 DEF x
    <3> HIDE DEF T
    <3>2. QED
      BY <3>1, OneMorePlace
  <2>6. Turns(n + 1, Cardinality(c.healthy), RankIn(c.healthy, r))
            = Turns(n, Cardinality(c.healthy), RankIn(c.healthy, r))
              + (IF RankIn(c.healthy, r) = n % Cardinality(c.healthy) THEN 1 ELSE 0)
    BY <1>2, <2>2, OneMoreTurn
  <2>7. QED
    BY <1>1, <1>8, <2>4, <2>5, <2>6
<1>9. QED
  BY <1>1, <1>3, <1>5, <1>6, <1>7, <1>8 DEF IngressInv

LEMMA IngressPromises ==
    ASSUME IngressInv
    PROVE  RoutedToHealthy
<1> DEFINE c == ingress.config
           s == ingress.requests
           routed(r) == Cardinality(PlacesOf(s, r))
<1>1. /\ c \in IngressSettings /\ s \in Seq(0..3)
      /\ \A i \in DOMAIN s : s[i] = selectRegion(c, clientSite(c, i - 1), i - 1)
      /\ c.routingPolicy = "round-robin" =>
             \A r \in c.healthy :
                 routed(r) = Turns(Len(s), Cardinality(c.healthy), RankIn(c.healthy, r))
  BY DEF IngressInv
<1>2. \A i \in DOMAIN s : i - 1 \in Nat
  BY <1>1
<1>3. \A i : Site(i) = clientSite(c, i - 1)
  BY DEF Site
<1> HIDE DEF c, s
<1>4. ASSUME NEW i \in DOMAIN s
      PROVE  /\ s[i] \in (IF c.healthy = {} THEN {NoRegion} ELSE c.healthy)
             /\ c.healthy # {} /\ c.routingPolicy = "latency" => \A r \in c.healthy :
                    baseRttMs[Site(i)][s[i]] + c.addedLatencyMs[s[i]]
                        <= baseRttMs[Site(i)][r] + c.addedLatencyMs[r]
             /\ c.healthy # {} /\ c.routingPolicy = "geography" /\ homeRegion(Site(i)) \in c.healthy =>
                    s[i] = homeRegion(Site(i))
             /\ Site(i) \in Sites
  <2>1. i - 1 \in Nat /\ s[i] = selectRegion(c, clientSite(c, i - 1), i - 1)
    BY <1>1, <1>2
  <2> DEFINE j == i - 1
  <2> HIDE DEF j
  <2>2. LET r == selectRegion(c, clientSite(c, j), j)
        IN  /\ c.healthy = {} => r = NoRegion
            /\ c.healthy # {} => r \in c.healthy
            /\ c.healthy # {} /\ c.routingPolicy = "geography"
                   /\ homeRegion(clientSite(c, j)) \in c.healthy => r = homeRegion(clientSite(c, j))
            /\ c.healthy # {} /\ c.routingPolicy = "latency" =>
                   \A q \in c.healthy : baseRttMs[clientSite(c, j)][r] + c.addedLatencyMs[r]
                                            <= baseRttMs[clientSite(c, j)][q] + c.addedLatencyMs[q]
    BY <1>1, <2>1, Selected DEF j
  <2>3. s[i] = selectRegion(c, clientSite(c, j), j) /\ Site(i) = clientSite(c, j)
    BY <1>3, <2>1 DEF j
  <2>4. Site(i) \in Sites
    BY <1>1, <2>1, <2>3, ClientSites DEF j
  <2>5. QED
    BY <2>2, <2>3, <2>4
<1>5. ASSUME c.routingPolicy = "round-robin"
      PROVE  Even(c.healthy, routed)
  <2>1. SUFFICES ASSUME NEW p \in c.healthy, NEW q \in c.healthy
                 PROVE  routed(p) <= routed(q) + 1
    BY DEF Even
  <2>2. c.healthy \in SUBSET Nat /\ IsFiniteSet(c.healthy) /\ c.healthy # {}
    BY <1>1, <2>1, HealthyRegions
  <2>3. Cardinality(c.healthy) \in Nat \ {0} /\ RankIn(c.healthy, p) \in 0..(Cardinality(c.healthy) - 1)
        /\ RankIn(c.healthy, q) \in 0..(Cardinality(c.healthy) - 1)
    BY <2>1, <2>2, Ranks
  <2>4. Len(s) \in Nat
    BY <1>1
  <2>5. routed(p) = Turns(Len(s), Cardinality(c.healthy), RankIn(c.healthy, p))
        /\ routed(q) = Turns(Len(s), Cardinality(c.healthy), RankIn(c.healthy, q))
    BY <1>1, <1>5, <2>1
  <2>6. QED
    BY <2>3, <2>4, <2>5, OneMoreTurn, ZenonT(60)
<1>6. ASSUME \/ c.routingPolicy = "geography"
             \/ c.routingPolicy = "latency" /\ Range(c.addedLatencyMs) = {0}
      PROVE  crossRegion \subseteq healthFailover
  <2>1. SUFFICES ASSUME NEW i \in DOMAIN s, s[i] \notin {NoRegion, homeRegion(Site(i))},
                        homeRegion(Site(i)) \in c.healthy
                 PROVE  FALSE
    BY DEF crossRegion, healthFailover, c, s
  <2>2. c.healthy # {} /\ s[i] \in c.healthy /\ Site(i) \in Sites /\ c.routingPolicy # "geography"
    BY <1>4, <2>1
  <2>3. c.routingPolicy = "latency" /\ Range(c.addedLatencyMs) = {0}
    BY <1>6, <2>2
  <2>4. s[i] \in Regions /\ c.addedLatencyMs \in [Regions -> Nat]
    BY <1>1, <2>2, HealthyRegions, IngressTypes
  <2>5. Site(i) \in Regions /\ homeRegion(Site(i)) = Site(i)
    BY <2>2 DEF Sites, Regions, homeRegion
  <2>6. \A r \in Regions : c.addedLatencyMs[r] = 0
    BY <2>3, <2>4 DEF Range
  <2>7. baseRttMs[Site(i)][s[i]] + c.addedLatencyMs[s[i]]
            <= baseRttMs[Site(i)][Site(i)] + c.addedLatencyMs[Site(i)]
    BY <1>4, <2>1, <2>2, <2>3, <2>5
  <2>8. \A r, t \in Regions : baseRttMs[t][r] \in Nat /\ (r # t => baseRttMs[t][r] > baseRttMs[t][t])
    BY DEF Regions, baseRttMs
  <2>9. QED
    BY <2>1, <2>4, <2>5, <2>6, <2>7, <2>8
<1>7. \A i \in DOMAIN s :
          /\ s[i] \in (IF c.healthy = {} THEN {NoRegion} ELSE c.healthy)
          /\ c.routingPolicy = "latency" => \A r \in c.healthy :
                 baseRttMs[Site(i)][s[i]] + c.addedLatencyMs[s[i]]
                     <= baseRttMs[Site(i)][r] + c.addedLatencyMs[r]
  BY <1>4
<1>8. QED
  BY <1>5, <1>6, <1>7 DEF RoutedToHealthy, PlacesOf, c, s

LEMMA InitIngress ==
    ASSUME ingress \in {IngressOf(c) : c \in IngressSettings}
    PROVE  IngressInv
<1>1. PICK c \in IngressSettings : ingress = [config |-> c, requests |-> <<>>]
  BY DEF IngressOf
<1>2. <<>> \in Seq(0..3) /\ DOMAIN <<>> = {} /\ Len(<<>>) = 0
  OBVIOUS
<1>3. ASSUME NEW r \in c.healthy
      PROVE  Cardinality(PlacesOf(<<>>, r))
                 = Turns(0, Cardinality(c.healthy), RankIn(c.healthy, r))
  <2>1. c.healthy \in SUBSET Nat /\ IsFiniteSet(c.healthy) /\ c.healthy # {}
    BY <1>3, HealthyRegions
  <2>2. Cardinality(c.healthy) \in Nat \ {0} /\ RankIn(c.healthy, r) \in 0..(Cardinality(c.healthy) - 1)
    BY <1>3, <2>1, Ranks
  <2>3. Turns(0, Cardinality(c.healthy), RankIn(c.healthy, r)) = 0
    BY <2>2, OneMoreTurn
  <2>4. PlacesOf(<<>>, r) = {}
    BY DEF PlacesOf
  <2>5. QED
    BY <2>3, <2>4, FS_EmptySet
<1>4. QED
  BY <1>1, <1>2, <1>3 DEF IngressInv

\* Wherever they come from and whatever burdens the network, requests reach a healthy region
\* while there is one: evenly in turn, at home by geography, and by latency where it is lowest.
THEOREM RequestsReachHealthyRegions == IngressSpec => []RoutedToHealthy
<1>1. ingress \in {IngressOf(c) : c \in IngressSettings} => IngressInv
  BY InitIngress
<1>2. IngressInv /\ [Route]_ingress => IngressInv'
  <2>1. ASSUME IngressInv, UNCHANGED ingress PROVE IngressInv'
    BY <2>1, Zenon DEF IngressInv
  <2>2. QED
    BY <2>1, RouteKeeps
<1>3. IngressInv => RoutedToHealthy
  BY IngressPromises
<1>4. QED
  BY <1>1, <1>2, <1>3, PTL DEF IngressSpec

-----------------------------------------------------------------------------

(* The owner of a room. *)

LEMMA ParticipantsOf ==
    ASSUME NEW c \in RoomSettings
    PROVE  uniqueSites(c) \in Seq(Sites) /\ uniqueSites(c) # <<>>
<1> DEFINE S == {c.creator} \cup c.players
           n == Cardinality(S)
<1>1. S \subseteq Sites /\ S # {}
  BY RoomAssumption
<1>2. IsFiniteSet(Sites)
  <2>1. 1 \in Int /\ 3 \in Int
    OBVIOUS
  <2>2. QED
    BY <2>1, FS_Interval, Zenon DEF Sites
<1> HIDE DEF S
<1>3. IsFiniteSet(S)
  BY <1>1, <1>2, FS_Subset
<1>4. n \in Nat /\ n # 0 /\ ExistsBijection(1..n, S)
  BY <1>1, <1>3, FS_CardinalityType, FS_EmptySet
<1> HIDE DEF n
<1>5. \E f \in [1..n -> S] : IsInjective(f)
  BY <1>4 DEF ExistsBijection, Bijection, Injection, IsInjective
<1> DEFINE s == SetToSeq(S)
<1>6. s \in [1..n -> S]
  BY <1>5 DEF SetToSeq, n
<1> HIDE DEF s
<1>7. s \in [1..n -> Sites]
  BY <1>1, <1>6
<1>8. s \in Seq(Sites)
  BY <1>4, <1>7
<1>9. s # <<>>
  BY <1>4, <1>7
<1>10. QED
  BY <1>8, <1>9 DEF uniqueSites, s, S

\* A region that scores lowest is chosen.
LEMMA PlacedLowest ==
    ASSUME NEW c \in RoomSettings, NEW policy \in {"min-average-rtt", "min-worst-rtt"}
    PROVE  /\ placeRoom(c, policy) \in Regions
           /\ \A r \in Regions : scoreRegion(uniqueSites(c), placeRoom(c, policy), policy)
                                     <= scoreRegion(uniqueSites(c), r, policy)
<1> DEFINE sites == uniqueSites(c)
           f == [r \in Regions |-> scoreRegion(sites, r, policy)]
           b == 0
<1>1. sites \in Seq(Sites) /\ sites # <<>>
  BY ParticipantsOf
<1> HIDE DEF sites
<1>2. \A r \in Regions : scoreRegion(sites, r, policy) \in Nat
  BY <1>1, TotalRttIsNat, WorstRttIsNat DEF scoreRegion
<1>3. b \in Int /\ \A r \in Regions : f[r] \in Int /\ b <= f[r]
  BY <1>2
<1>4. Regions \in SUBSET Nat /\ Regions # {}
  BY DEF Regions
<1>5. {r \in Regions : \A q \in Regions : scoreRegion(sites, r, policy) <= scoreRegion(sites, q, policy)}
          = LowestBy(f, Regions)
  BY DEF LowestBy
<1>6. placeRoom(c, policy) = Min(LowestBy(f, Regions))
  <2>1. placeRoom(c, policy) = Least(Regions, LAMBDA r : scoreRegion(uniqueSites(c), r, policy))
    BY DEF placeRoom
  <2>2. QED
    BY <1>5, <2>1, Zenon DEF Least, Lowest, sites
<1> HIDE DEF f, b
<1>7. /\ placeRoom(c, policy) \in Regions
      /\ \A r \in Regions : f[placeRoom(c, policy)] <= f[r]
  BY <1>3, <1>4, <1>6, Cheapest
<1>8. QED
  BY <1>7 DEF f, sites

LEMMA PlacedSomewhere ==
    ASSUME NEW c \in RoomSettings,
           NEW policy \in {"creator-nearest", "fixed-region", "min-average-rtt", "min-worst-rtt"}
    PROVE  placeRoom(c, policy) \in Regions
<1>1. c.creator \in Sites /\ c.fixedRegionId \in Regions
  BY RoomAssumption
<1>2. CASE policy = "fixed-region"
  BY <1>1, <1>2 DEF placeRoom
<1>3. CASE policy = "creator-nearest"
  <2> DEFINE f == [r \in Regions |-> baseRttMs[c.creator][r]]
             b == 0
  <2>1. b \in Int /\ \A r \in Regions : f[r] \in Int /\ b <= f[r]
    BY <1>1, BaseRtt
  <2>2. Regions \in SUBSET Nat /\ Regions # {}
    BY DEF Regions
  <2>3. {r \in Regions : \A q \in Regions : baseRttMs[c.creator][r] <= baseRttMs[c.creator][q]}
            = LowestBy(f, Regions)
    BY DEF LowestBy
  <2>4. placeRoom(c, policy) = Min(LowestBy(f, Regions))
    <3>1. placeRoom(c, policy) = Least(Regions, LAMBDA r : baseRttMs[c.creator][r])
      BY <1>3 DEF placeRoom
    <3>2. QED
      BY <2>3, <3>1, Zenon DEF Least, Lowest
  <2> HIDE DEF f, b
  <2>5. QED
    BY <2>1, <2>2, <2>4, Cheapest
<1>4. CASE policy \in {"min-average-rtt", "min-worst-rtt"}
  BY <1>4, PlacedLowest
<1>5. QED
  BY <1>2, <1>3, <1>4

\* Every client has resolved the entry as the directory's state has it.
AuthorityInv ==
    LET c == authority.config
    IN  /\ c \in RoomSettings
        /\ authority = [config |-> c, clients |-> authority.clients,
                        entry |-> [regionId |-> placeRoom(c, c.placementPolicy), generation |-> 1]]
        /\ authority.clients \in Seq(Regions \cup {Unresolved})
        /\ \A i \in DOMAIN authority.clients :
               authority.clients[i] = resolveRoomDirectory(authority.entry, c.directoryState,
                                                           c.expectedDirectoryGeneration)

LEMMA InitAuthority ==
    ASSUME authority \in {AuthorityOf(c) : c \in RoomSettings}
    PROVE  AuthorityInv
<1>1. PICK c \in RoomSettings : authority = AuthorityOf(c)
  OBVIOUS
<1>2. QED
  BY <1>1 DEF AuthorityInv, AuthorityOf

LEMMA ClientResolves ==
    ASSUME AuthorityInv, ResolveClient
    PROVE  AuthorityInv'
<1> DEFINE c == authority.config
           s == authority.clients
           e == authority.entry
           x == resolveRoomDirectory(e, c.directoryState, c.expectedDirectoryGeneration)
<1>1. /\ c \in RoomSettings /\ authority = [config |-> c, clients |-> s, entry |-> e]
      /\ e = [regionId |-> placeRoom(c, c.placementPolicy), generation |-> 1]
      /\ s \in Seq(Regions \cup {Unresolved}) /\ \A i \in DOMAIN s : s[i] = x
  BY DEF AuthorityInv
<1>2. authority' = [config |-> c, clients |-> Append(s, x), entry |-> e]
  BY <1>1 DEF ResolveClient
<1>3. x \in Regions \cup {Unresolved}
  <2>1. e.regionId \in Regions
    BY <1>1, PlacedSomewhere, RoomAssumption
  <2>2. QED
    BY <2>1 DEF resolveRoomDirectory
<1>4. authority'.config = c /\ authority'.clients = Append(s, x) /\ authority'.entry = e
  BY <1>2
<1> HIDE DEF c, s, e, x
<1>5. Append(s, x) \in Seq(Regions \cup {Unresolved}) /\ \A i \in DOMAIN Append(s, x) : Append(s, x)[i] = x
  BY <1>1, <1>3
<1>6. QED
  BY <1>1, <1>2, <1>4, <1>5 DEF AuthorityInv, x

LEMMA AuthorityPromises ==
    ASSUME AuthorityInv
    PROVE  AuthorityHolds
<1> DEFINE c == authority.config
           s == authority.clients
           e == authority.entry
           x == resolveRoomDirectory(e, c.directoryState, c.expectedDirectoryGeneration)
<1>1. /\ c \in RoomSettings /\ e = [regionId |-> placeRoom(c, c.placementPolicy), generation |-> 1]
      /\ s \in Seq(Regions \cup {Unresolved}) /\ \A i \in DOMAIN s : s[i] = x
  BY DEF AuthorityInv
<1>2. OneOwner
  <2>1. Range(s) \subseteq {x} /\ (Len(s) > 0 => Range(s) = {x} /\ s # <<>>)
    <3>1. Len(s) > 0 => 1 \in DOMAIN s
      BY <1>1
    <3>2. Len(s) > 0 => s # <<>>
      BY <1>1
    <3> HIDE DEF s, x
    <3>3. QED
      BY <1>1, <3>1, <3>2 DEF Range
  <2>2. x \in {Unresolved, e.regionId}
        /\ (c.directoryState # "fresh" \/ c.expectedDirectoryGeneration # e.generation => x = Unresolved)
    BY DEF resolveRoomDirectory
  <2> HIDE DEF x
  <2>3. Cardinality(Range(s) \ {Unresolved}) <= 1
    <3>1. Range(s) \ {Unresolved} = {} \/ Range(s) \ {Unresolved} = {x}
      BY <2>1
    <3>2. Cardinality({}) = 0 /\ Cardinality({x}) = 1
      BY FS_EmptySet, FS_Singleton
    <3>3. CASE Range(s) \ {Unresolved} = {}
      <4>1. Cardinality(Range(s) \ {Unresolved}) = 0
        BY <3>2, <3>3, Zenon
      <4>2. QED
        BY <4>1
    <3>4. CASE Range(s) \ {Unresolved} = {x}
      <4>1. Cardinality(Range(s) \ {Unresolved}) = 1
        BY <3>2, <3>4, Zenon
      <4>2. QED
        BY <4>1
    <3>5. QED
      BY <3>1, <3>3, <3>4
  <2>4. Len(s) > 0 /\ ~(s # <<>> /\ Range(s) = {e.regionId}) => Range(s) = {Unresolved}
    BY <2>1, <2>2
  <2>5. c.directoryState # "fresh" \/ c.expectedDirectoryGeneration # e.generation
            => Range(s) \subseteq {Unresolved}
    BY <2>1, <2>2
  <2>6. QED
    BY <2>3, <2>4, <2>5 DEF OneOwner, converged
<1>3. PlacedForItsPurpose
  <2> DEFINE sites == uniqueSites(c)
             owner == e.regionId
             policies == {"creator-nearest", "fixed-region", "min-average-rtt", "min-worst-rtt"}
             others == {placeRoom(c, policy) : policy \in policies}
  <2>1. others \subseteq Regions
    BY <1>1, PlacedSomewhere
  <2>2. c.placementPolicy \in policies /\ owner = placeRoom(c, c.placementPolicy) /\ owner \in Regions
    BY <1>1, PlacedSomewhere, RoomAssumption
  <2>3. c.placementPolicy = "min-average-rtt" => \A r \in others : TotalRtt(sites, owner) <= TotalRtt(sites, r)
    <3>1. SUFFICES ASSUME c.placementPolicy = "min-average-rtt", NEW r \in Regions
                   PROVE  TotalRtt(sites, owner) <= TotalRtt(sites, r)
      BY <2>1
    <3>2. \A q : scoreRegion(sites, q, "min-average-rtt") = TotalRtt(sites, q)
      BY DEF scoreRegion
    <3>3. scoreRegion(sites, owner, "min-average-rtt") <= scoreRegion(sites, r, "min-average-rtt")
      BY <1>1, <2>2, <3>1, PlacedLowest
    <3>4. QED
      BY <3>2, <3>3
  <2>4. c.placementPolicy = "min-worst-rtt" => \A r \in others : WorstRtt(sites, owner) <= WorstRtt(sites, r)
    <3>1. SUFFICES ASSUME c.placementPolicy = "min-worst-rtt", NEW r \in Regions
                   PROVE  WorstRtt(sites, owner) <= WorstRtt(sites, r)
      BY <2>1
    <3>2. \A q : scoreRegion(sites, q, "min-worst-rtt") = WorstRtt(sites, q)
      BY DEF scoreRegion
    <3>3. scoreRegion(sites, owner, "min-worst-rtt") <= scoreRegion(sites, r, "min-worst-rtt")
      BY <1>1, <2>2, <3>1, PlacedLowest
    <3>4. QED
      BY <3>2, <3>3
  <2> HIDE DEF owner
  <2>5. ASSUME NEW i \in DOMAIN c.clients
        PROVE  LET site == c.clients[i].site
                   from == c.clients[i].ingress
               IN  /\ (redirectMs(site, from, owner) < directoryMs(site, owner)) <=> (from = owner)
                   /\ from = homeRegion(site) /\ from # owner =>
                          proxyMs(site, from, owner) < redirectMs(site, from, owner)
    <3> DEFINE site == c.clients[i].site
               from == c.clients[i].ingress
    <3>1. site \in Sites /\ from \in Regions
      BY <1>1, <2>5, RoomAssumption
    <3> HIDE DEF site, from
    <3>2. baseRttMs[site][from] \in Nat /\ baseRttMs[site][from] >= 18 /\ baseRttMs[site][owner] \in Nat
      BY <2>2, <3>1 DEF Sites, Regions, baseRttMs
    <3>3. site = from /\ from # owner => interRegionRttMs[from][owner] < baseRttMs[site][owner]
                                         /\ interRegionRttMs[from][owner] \in Nat
      BY <2>2, <3>1 DEF Regions, baseRttMs, interRegionRttMs
    <3>4. (redirectMs(site, from, owner) < directoryMs(site, owner)) <=> (from = owner)
      <4>1. CASE from = owner
        BY <3>2, <4>1 DEF redirectMs, directoryMs, DirectoryLookupMs
      <4>2. CASE from # owner
        BY <3>2, <4>2 DEF redirectMs, directoryMs, DirectoryLookupMs
      <4>3. QED
        BY <4>1, <4>2
    <3>5. from = homeRegion(site) /\ from # owner => proxyMs(site, from, owner) < redirectMs(site, from, owner)
      BY <3>2, <3>3 DEF homeRegion, proxyMs, redirectMs
    <3>6. QED
      BY <3>4, <3>5 DEF site, from
  <2>6. QED
    BY <2>3, <2>4, <2>5 DEF PlacedForItsPurpose, owner
<1>4. QED
  BY <1>2, <1>3 DEF AuthorityHolds

\* No two clients take different regions for the owner of their room, nobody guesses one from a
\* directory that is not current, and the room is where its placement policy wants it.
THEOREM RoomsHaveOneOwner == AuthoritySpec => []AuthorityHolds
<1>1. authority \in {AuthorityOf(c) : c \in RoomSettings} => AuthorityInv
  BY InitAuthority
<1>2. AuthorityInv /\ [ResolveClient]_authority => AuthorityInv'
  <2>1. ASSUME AuthorityInv, UNCHANGED authority PROVE AuthorityInv'
    BY <2>1, Zenon DEF AuthorityInv
  <2>2. QED
    BY <2>1, ClientResolves
<1>3. AuthorityInv => AuthorityHolds
  BY AuthorityPromises
<1>4. QED
  BY <1>1, <1>2, <1>3, PTL DEF AuthoritySpec

-----------------------------------------------------------------------------

(* Fleet placement. *)

Placements == Seq(0..3)

Rankings == {f \in [Regions -> Regions] : IsInjective(f)}

\* The units every room asks for.
Demands == [x \in Nat |-> demandUnits(x)]

LEMMA RoomDemand ==
    \A x \in Nat : Demands[x] = demandUnits(x) /\ demandUnits(x) \in 1..5 /\ Demands[x] \in Nat /\ Demands[x] \in Int
BY DEF Demands, demandUnits

LEMMA UnitsAddUp ==
    ASSUME NEW D, IsFiniteSet(D), D \subseteq Nat
    PROVE  MapThenSumSet(demandUnits, D) = Total(Demands, D)
<1> DEFINE g == Demands
           body(f) == [s \in SUBSET D |-> IF s = {} THEN 0
                          ELSE demandUnits(CHOOSE x \in s : TRUE) + f[s \ {CHOOSE x \in s : TRUE}]]
           iter == CHOOSE f : f = body(f)
<1>1. MapThenSumSet(demandUnits, D) = iter[D]
  BY DEF MapThenSumSet, MapThenFoldSet
<1>2. \A x \in D : g[x] \in Int /\ g[x] = demandUnits(x)
  BY RoomDemand
<1> HIDE DEF g
<1>3. PICK h \in [SUBSET D -> Int] : Sums(h, D, g)
  BY <1>2, SumsExist
<1>4. \A s \in SUBSET D : s # {} => (CHOOSE x \in s : TRUE) \in D
  OBVIOUS
<1>5. ASSUME NEW f
      PROVE  body(f) = [s \in SUBSET D |-> IF s = {} THEN 0 ELSE g[AnyOf(s)] + f[s \ {AnyOf(s)}]]
  <2>1. \A s \in SUBSET D : s # {} => demandUnits(CHOOSE x \in s : TRUE) = g[AnyOf(s)]
    BY <1>2, <1>4 DEF AnyOf
  <2>2. QED
    BY <2>1 DEF AnyOf
<1> HIDE DEF body
<1>6. h = body(h)
  BY <1>3, <1>5 DEF Sums, Adds
<1>7. iter = body(iter)
  BY <1>6
<1> HIDE DEF iter
<1>8. Adds(iter, D, g)
  BY <1>5, <1>7 DEF Adds
<1>9. iter[D] = Total(g, D)
  BY <1>2, <1>8, FoldIsTotal
<1>10. QED
  BY <1>1, <1>9 DEF g

\* What a region uses grows by the rooms placed there.
LEMMA OneMoreRoom ==
    ASSUME NEW s \in Placements, NEW x \in 0..3, NEW r \in Regions
    PROVE  /\ usedUnits(s, r) \in Nat
           /\ usedUnits(Append(s, x), r) = usedUnits(s, r) + (IF x = r THEN demandUnits(Len(s) + 1) ELSE 0)
<1> DEFINE n == Len(s)
           before == PlacesOf(s, r)
           after == PlacesOf(Append(s, x), r)
<1>1. s \in Seq(0..3) /\ Append(s, x) \in Seq(0..3) /\ n \in Nat /\ before \subseteq 1..n
  BY DEF Placements, PlacesOf
<1>2. /\ IsFiniteSet(before) /\ IsFiniteSet(after) /\ n + 1 \notin before
      /\ after = IF x = r THEN before \cup {n + 1} ELSE before
  BY <1>1, OneMorePlace
<1>3. usedUnits(s, r) = MapThenSumSet(demandUnits, before)
      /\ usedUnits(Append(s, x), r) = MapThenSumSet(demandUnits, after)
  BY Zenon DEF usedUnits, PlacesOf
<1>4. before \subseteq Nat /\ after \subseteq Nat /\ n + 1 \in Nat
  BY <1>1, <1>2
<1> HIDE DEF before, after, n
<1>5. usedUnits(s, r) = Total(Demands, before) /\ usedUnits(Append(s, x), r) = Total(Demands, after)
  BY <1>2, <1>3, <1>4, UnitsAddUp
<1>6. \A y \in before \cup {n + 1} : Demands[y] \in Int
  BY <1>4, RoomDemand
<1>7. Total(Demands, before \cup {n + 1}) = Total(Demands, before) + Demands[n + 1]
  BY <1>2, <1>6, TotalOfMore
<1>8. Demands[n + 1] = demandUnits(n + 1)
  BY <1>4, RoomDemand
<1>9. Total(Demands, before) \in Nat
  <2>1. \A y \in before : Demands[y] \in Nat
    BY <1>4, RoomDemand
  <2>2. QED
    BY <1>2, <2>1, TotalGrows
<1>10. CASE x = r
  <2>1. Total(Demands, after) = Total(Demands, before) + demandUnits(n + 1)
    BY <1>2, <1>7, <1>8, <1>10, Zenon
  <2>2. QED
    BY <1>5, <1>9, <1>10, <2>1 DEF n
<1>11. CASE x # r
  <2>1. Total(Demands, after) = Total(Demands, before)
    BY <1>2, <1>11, Zenon
  <2>2. QED
    BY <1>5, <1>9, <1>11, <2>1
<1>12. QED
  BY <1>10, <1>11

LEMMA NothingUsed ==
    ASSUME NEW r \in Regions
    PROVE  <<>> \in Placements /\ usedUnits(<<>>, r) = 0
<1>1. IsFiniteSet({}) /\ {} \subseteq Nat
  BY FS_EmptySet
<1>2. MapThenSumSet(demandUnits, {}) = Total(Demands, {})
  BY <1>1, UnitsAddUp
<1>3. {room \in DOMAIN <<>> : <<>>[room] = r} = {}
  OBVIOUS
<1>4. usedUnits(<<>>, r) = 0
  BY <1>2, <1>3, TotalOfNone DEF usedUnits
<1>5. QED
  BY <1>4 DEF Placements

\* The rooms of a region, and one of any region, ask for no more than all rooms together.
LEMMA UsedWithinTotal ==
    ASSUME NEW s \in Placements, NEW room \in DOMAIN s, NEW r \in Regions
    PROVE  usedUnits(SubSeq(s, 1, room - 1), r) + demandUnits(room) <= MapThenSumSet(demandUnits, DOMAIN s)
<1> DEFINE n == Len(s)
           t == SubSeq(s, 1, room - 1)
           W == PlacesOf(t, r)
           D == 1..n
<1>1. s \in Seq(0..3) /\ n \in Nat /\ DOMAIN s = 1..n /\ room \in 1..n /\ room \in Nat
  BY DEF Placements
<1>2. t \in Seq(0..3) /\ Len(t) = room - 1 /\ DOMAIN t = 1..(room - 1)
  BY <1>1
<1>3. W \subseteq 1..(room - 1)
  BY <1>2 DEF PlacesOf
<1>4. IsFiniteSet(D) /\ D \subseteq Nat
  BY <1>1, FS_Interval
<1>5. W \cup {room} \subseteq D /\ room \notin W
  BY <1>1, <1>3
<1>6. usedUnits(t, r) = MapThenSumSet(demandUnits, W)
  BY Zenon DEF usedUnits, PlacesOf
<1>7. DOMAIN s = D
  BY <1>1
<1> HIDE DEF W, D, t, n
<1>8. IsFiniteSet(W) /\ W \subseteq Nat
  BY <1>4, <1>5, FS_Subset
<1>9. MapThenSumSet(demandUnits, W) = Total(Demands, W) /\ MapThenSumSet(demandUnits, D) = Total(Demands, D)
  BY <1>4, <1>8, UnitsAddUp
<1>10. Total(Demands, W \cup {room}) = Total(Demands, W) + Demands[room] /\ Total(Demands, W) \in Int
  <2>1. \A y \in W \cup {room} : Demands[y] \in Int
    BY <1>1, <1>8, RoomDemand
  <2>2. QED
    BY <1>5, <1>8, <2>1, TotalOfMore
<1>11. Total(Demands, W \cup {room}) <= Total(Demands, D) /\ Total(Demands, D) \in Nat
  <2>1. \A y \in D : Demands[y] \in Nat
    BY <1>4, RoomDemand
  <2>2. QED
    BY <1>4, <1>5, <2>1, TotalGrows
<1>12. Demands[room] = demandUnits(room) /\ demandUnits(room) \in 1..5
  BY <1>1, RoomDemand
<1>13. QED
  BY <1>6, <1>7, <1>9, <1>10, <1>11, <1>12 DEF t
LEMMA FleetTypes ==
    ASSUME NEW c \in FleetSettings
    PROVE  /\ c.policy \in {"min-average-rtt", "min-worst-rtt", "load-aware", "rendezvous", "power-of-two"}
           /\ c.trafficProfile \in {"balanced", "europe-heavy", "asia-heavy"}
           /\ c.capacityUnits \in [Regions -> Nat] /\ c.healthy \subseteq Regions
           /\ Survivors(c) \subseteq Regions /\ c.failedRegionId \in Regions /\ c.failedRegionId \notin Survivors(c)
           /\ Survivors(c) \subseteq c.healthy
BY FleetAssumption, Zenon DEF Survivors

LEMMA GroupOfSites ==
    ASSUME NEW c \in FleetSettings, NEW room \in Nat
    PROVE  /\ participantSites(c, room) \in Seq(Sites) /\ participantSites(c, room) # <<>>
           /\ Len(participantSites(c, room)) \in Nat \ {0}
<1> DEFINE k == ((room - 1) % 4) + 1
           pattern == ProfilePatterns(c.trafficProfile)
<1>1. k \in 1..4
  OBVIOUS
<1> HIDE DEF k
<1>2. k = 1 \/ k = 2 \/ k = 3 \/ k = 4
  BY <1>1
<1>3. participantSites(c, room) = pattern[k]
  BY DEF participantSites, k
<1> DEFINE good(q) == q \in Seq(Sites) /\ q # <<>> /\ Len(q) \in Nat \ {0}
<1>6. (\A a, b \in Sites : good(<<a, b>>)) /\ (\A a, b, d \in Sites : good(<<a, b, d>>))
  OBVIOUS
<1>7. 1 \in Sites /\ 2 \in Sites /\ 3 \in Sites
  BY DEF Sites
<1> HIDE DEF good, pattern
<1>8. ASSUME NEW p, NEW q, NEW r, NEW t, good(p), good(q), good(r), good(t), pattern = <<p, q, r, t>>
      PROVE  good(pattern[k])
  <2>1. pattern[1] = p /\ pattern[2] = q /\ pattern[3] = r /\ pattern[4] = t
    BY <1>8
  <2>2. QED
    BY <1>2, <1>8, <2>1
<1>4. good(pattern[k])
  <2>1. CASE c.trafficProfile = "balanced"
    <3>1. pattern = << <<1, 2>>, <<1, 3>>, <<2, 3>>, <<1, 2, 3>> >>
      BY <2>1 DEF ProfilePatterns, pattern
    <3>2. good(<<1, 2>>) /\ good(<<1, 3>>) /\ good(<<2, 3>>) /\ good(<<1, 2, 3>>)
      BY <1>6, <1>7, Zenon
    <3>3. QED
      BY <1>8, <3>1, <3>2, Zenon
  <2>2. CASE c.trafficProfile = "europe-heavy"
    <3>1. pattern = << <<1, 1>>, <<1, 2>>, <<1, 3>>, <<1, 1, 2>> >>
      BY <2>2 DEF ProfilePatterns, pattern
    <3>2. good(<<1, 1>>) /\ good(<<1, 2>>) /\ good(<<1, 3>>) /\ good(<<1, 1, 2>>)
      BY <1>6, <1>7, Zenon
    <3>3. QED
      BY <1>8, <3>1, <3>2, Zenon
  <2>3. CASE c.trafficProfile = "asia-heavy"
    <3>1. pattern = << <<3, 3>>, <<3, 2>>, <<3, 1>>, <<3, 3, 2>> >>
      BY <2>3 DEF ProfilePatterns, pattern
    <3>2. good(<<3, 3>>) /\ good(<<3, 2>>) /\ good(<<3, 1>>) /\ good(<<3, 3, 2>>)
      BY <1>6, <1>7, Zenon
    <3>3. QED
      BY <1>8, <3>1, <3>2, Zenon
  <2>4. QED
    BY <2>1, <2>2, <2>3, FleetTypes
<1>5. QED
  BY <1>3, <1>4 DEF good

LEMMA Utilization ==
    ASSUME NEW c \in FleetSettings, NEW s \in Placements
    PROVE  AllUnits(c) \in Nat \ {0} /\ \A r \in Regions : regionUtilization(c, s, r) \in Nat
<1>1. \A r \in Regions : UnitsOf(c, r) \in Nat \ {0}
  <2> SUFFICES ASSUME NEW r \in Regions PROVE UnitsOf(c, r) \in Nat \ {0}
    OBVIOUS
  <2>1. c.capacityUnits[r] \in Nat
    BY FleetTypes
  <2> DEFINE k == c.capacityUnits[r]
  <2> HIDE DEF k
  <2>2. Max({1, k}) = IF 1 <= k THEN k ELSE 1
    BY <2>1, LaterOfTwo DEF k
  <2>3. QED
    BY <2>1, <2>2 DEF UnitsOf, k
<1>2. \A a, b \in Nat \ {0} : a * b \in Nat \ {0}
  BY SMT
<1>3. AllUnits(c) \in Nat \ {0}
  <2> DEFINE u(r) == UnitsOf(c, r)
  <2>1. u(1) \in Nat \ {0} /\ u(2) \in Nat \ {0} /\ u(3) \in Nat \ {0}
    BY <1>1 DEF Regions
  <2> HIDE DEF u
  <2>2. u(1) * u(2) \in Nat \ {0}
    BY <1>2, <2>1
  <2>3. u(1) * u(2) * u(3) \in Nat \ {0}
    BY <1>2, <2>1, <2>2
  <2>4. QED
    BY <2>3 DEF AllUnits, u
<1>4. ASSUME NEW r \in Regions
      PROVE  regionUtilization(c, s, r) \in Nat
  <2> DEFINE a == AllUnits(c)
             u == UnitsOf(c, r)
             w == usedUnits(s, r)
  <2>1. a \in Nat /\ u \in Nat \ {0} /\ w \in Nat
    <3>1. 0 \in 0..3
      OBVIOUS
    <3>2. QED
      BY <1>1, <1>3, <3>1, OneMoreRoom
  <2> HIDE DEF a, u, w
  <2>2. a \div u \in Nat
    BY <2>1, SMT
  <2>3. \A m, n \in Nat : m * n \in Nat
    BY SMT
  <2>4. w * (a \div u) \in Nat
    BY <2>1, <2>2, <2>3
  <2>5. QED
    BY <2>4 DEF regionUtilization, a, u, w
<1>5. QED
  BY <1>3, <1>4

\* The first of the regions with the least value of a key.
LEMMA FirstOf ==
    ASSUME NEW S \in SUBSET Regions, S # {}, NEW f, NEW b \in Int, \A r \in Regions : f[r] \in Int /\ b <= f[r]
    PROVE  LET first == Min(LowestBy(f, S))
           IN  /\ first \in S /\ first \in LowestBy(f, S) /\ LowestBy(f, S) \subseteq S
               /\ \A q \in S : f[first] <= f[q] /\ (f[first] = f[q] => first <= q)
               /\ \A T \in SUBSET Regions : T \subseteq S /\ first \in T => Min(LowestBy(f, T)) = first
<1>1. Regions \in SUBSET Nat
  BY DEF Regions
<1>2. QED
  BY <1>1, FirstAmong, SMTT(30)

\* A policy that does not look at the load chooses by a key of the room and the hash alone.
FixedKey(c, room, rank) ==
    LET sites == participantSites(c, room)
    IN  CASE c.policy = "min-average-rtt" -> [r \in Regions |-> TotalRtt(sites, r)]
          [] c.policy = "min-worst-rtt" -> [r \in Regions |-> WorstRtt(sites, r)]
          [] c.policy = "rendezvous" -> [r \in Regions |-> -rank[r]]

LEMMA FixedChoice ==
    ASSUME NEW c \in FleetSettings, NEW room \in Nat, NEW S \in SUBSET Regions, NEW placed \in Placements,
           NEW rank \in Rankings, c.policy \in {"min-average-rtt", "min-worst-rtt", "rendezvous"}
    PROVE  LET f == FixedKey(c, room, rank)
           IN  /\ \A r \in Regions : f[r] \in Int /\ -3 <= f[r]
               /\ chooseRegion(c, room, S, placed, rank) = Min(LowestBy(f, S))
<1> DEFINE sites == participantSites(c, room)
           f == FixedKey(c, room, rank)
<1>1. sites \in Seq(Sites) /\ sites # <<>>
  BY GroupOfSites
<1> HIDE DEF sites
<1>2. \A r \in Regions : TotalRtt(sites, r) \in Nat /\ WorstRtt(sites, r) \in Nat
  BY <1>1, TotalRttIsNat, WorstRttIsNat
<1>3. \A r \in Regions : rank[r] \in 1..3
  BY DEF Rankings, Regions
<1>4. CASE c.policy = "min-average-rtt"
  <2>1. f = [r \in Regions |-> TotalRtt(sites, r)]
    BY <1>4 DEF FixedKey, sites
  <2>2. \A r \in Regions : f[r] = TotalRtt(sites, r)
    BY <2>1
  <2>3. chooseRegion(c, room, S, placed, rank) = Least(S, LAMBDA r : TotalRtt(sites, r))
    BY <1>4 DEF chooseRegion, sites
  <2> HIDE DEF f
  <2>4. {r \in S : \A q \in S : TotalRtt(sites, r) <= TotalRtt(sites, q)} = LowestBy(f, S)
    BY <2>2 DEF LowestBy
  <2>5. Least(S, LAMBDA r : TotalRtt(sites, r)) = Min(LowestBy(f, S))
    BY <2>4, Zenon DEF Least, Lowest
  <2>6. QED
    BY <1>2, <2>2, <2>3, <2>5 DEF f
<1>5. CASE c.policy = "min-worst-rtt"
  <2>1. f = [r \in Regions |-> WorstRtt(sites, r)]
    BY <1>5 DEF FixedKey, sites
  <2>2. \A r \in Regions : f[r] = WorstRtt(sites, r)
    BY <2>1
  <2>3. chooseRegion(c, room, S, placed, rank) = Least(S, LAMBDA r : WorstRtt(sites, r))
    BY <1>5 DEF chooseRegion, sites
  <2> HIDE DEF f
  <2>4. {r \in S : \A q \in S : WorstRtt(sites, r) <= WorstRtt(sites, q)} = LowestBy(f, S)
    BY <2>2 DEF LowestBy
  <2>5. Least(S, LAMBDA r : WorstRtt(sites, r)) = Min(LowestBy(f, S))
    BY <2>4, Zenon DEF Least, Lowest
  <2>6. QED
    BY <1>2, <2>2, <2>3, <2>5 DEF f
<1>6. CASE c.policy = "rendezvous"
  <2>1. f = [r \in Regions |-> -rank[r]]
    BY <1>6 DEF FixedKey, sites
  <2>2. \A r \in Regions : f[r] = -rank[r]
    BY <2>1
  <2>3. chooseRegion(c, room, S, placed, rank) = Least(S, LAMBDA r : -rank[r])
    BY <1>6 DEF chooseRegion, sites
  <2> HIDE DEF f
  <2>4. {r \in S : \A q \in S : -rank[r] <= -rank[q]} = LowestBy(f, S)
    BY <2>2 DEF LowestBy
  <2>5. Least(S, LAMBDA r : -rank[r]) = Min(LowestBy(f, S))
    BY <2>4, Zenon DEF Least, Lowest
  <2>6. \A r \in Regions : f[r] \in Int /\ -3 <= f[r]
    BY <1>3, <2>2
  <2>7. QED
    BY <2>3, <2>5, <2>6 DEF f
<1>7. QED
  BY <1>4, <1>5, <1>6
\* A choice that weighs distance against load is never both further and fuller than another.
LEMMA NotBothWorse ==
    ASSUME NEW a \in Nat \ {0}, NEW k \in Nat \ {0}, NEW t \in Nat, NEW u \in Nat,
           NEW x \in Nat, NEW y \in Nat, t * a + x * k <= u * a + y * k
    PROVE  u >= t \/ y > x
<1> SUFFICES ASSUME u < t, y <= x PROVE FALSE
  OBVIOUS
<1>1. t - u \in Nat \ {0} /\ x - y \in Nat
  OBVIOUS
<1>2. (\A m, n \in Nat \ {0} : m * n \in Nat \ {0}) /\ (\A m, n \in Nat : m * n \in Nat)
  BY SMT
<1>3. (t - u) * a \in Nat \ {0} /\ (x - y) * k \in Nat
  BY <1>1, <1>2
<1>4. (t - u) * a = t * a - u * a /\ (x - y) * k = x * k - y * k
  BY SMT
<1>5. t * a \in Nat /\ u * a \in Nat /\ x * k \in Nat /\ y * k \in Nat
  BY <1>2
<1>6. QED
  BY <1>3, <1>4, <1>5

LEMMA LoadAwareChoice ==
    ASSUME NEW c \in FleetSettings, NEW room \in Nat, NEW S \in SUBSET Regions, S # {},
           NEW placed \in Placements, NEW rank \in Rankings, c.policy = "load-aware"
    PROVE  LET r == chooseRegion(c, room, S, placed, rank)
               sites == participantSites(c, room)
           IN  /\ r \in S
               /\ \A q \in S : \/ TotalRtt(sites, q) >= TotalRtt(sites, r)
                               \/ regionUtilization(c, placed, q) > regionUtilization(c, placed, r)
<1> DEFINE sites == participantSites(c, room)
           a == AllUnits(c)
           n == Len(sites)
           load(r) == regionUtilization(c, placed, r)
           key(r) == TotalRtt(sites, r) * a + load(r) * LoadPenaltyMs * n
           f == [r \in Regions |-> key(r)]
           first == chooseRegion(c, room, S, placed, rank)
           k == LoadPenaltyMs * n
<1>1. sites \in Seq(Sites) /\ n \in Nat \ {0}
  BY GroupOfSites
<1>2. a \in Nat \ {0} /\ \A r \in Regions : load(r) \in Nat
  BY Utilization
<1>3. chooseRegion(c, room, S, placed, rank) = Min({r \in S : \A q \in S : key(r) <= key(q)})
  <2>1. chooseRegion(c, room, S, placed, rank) = chooseLoadAwareRegion(c, sites, S, placed)
    BY DEF chooseRegion
  <2>2. QED
    BY <2>1, Zenon DEF chooseLoadAwareRegion, Least, Lowest
<1>4. \A r \in Regions : f[r] = key(r)
  OBVIOUS
<1> HIDE DEF f, sites, a, n, first
<1>5. first = Min(LowestBy(f, S))
  <2> HIDE DEF key
  <2>1. {r \in S : \A q \in S : key(r) <= key(q)} = LowestBy(f, S)
    BY <1>4 DEF LowestBy
  <2>2. QED
    BY <1>3, <2>1, Zenon DEF first
<1>6. \A r \in Regions : TotalRtt(sites, r) \in Nat
  BY <1>1, TotalRttIsNat
<1>7. k \in Nat \ {0} /\ \A r \in Regions : load(r) * LoadPenaltyMs * n = load(r) * k
  <2>1. k \in Nat \ {0}
    BY <1>1, SMT DEF LoadPenaltyMs
  <2>2. \A x \in Nat : x * LoadPenaltyMs * n = x * k
    BY <1>1, SMT DEF LoadPenaltyMs
  <2> HIDE DEF load, k
  <2>3. QED
    BY <1>2, <2>1, <2>2
<1> HIDE DEF k, load
<1>8. \A r \in Regions : key(r) = TotalRtt(sites, r) * a + load(r) * k /\ key(r) \in Nat
  <2>1. \A p, q \in Nat : p * q \in Nat
    BY SMT
  <2>2. QED
    BY <1>2, <1>6, <1>7, <2>1
<1> HIDE DEF key
<1>9. \A r \in Regions : f[r] \in Int /\ 0 <= f[r]
  BY <1>4, <1>8
<1>10. first \in S /\ \A q \in S : f[first] <= f[q]
  <2> DEFINE b == 0
  <2>1. b \in Int /\ \A r \in Regions : f[r] \in Int /\ b <= f[r]
    BY <1>9
  <2> HIDE DEF b
  <2>2. Min(LowestBy(f, S)) \in S /\ \A q \in S : f[Min(LowestBy(f, S))] <= f[q]
    BY <2>1, FirstOf
  <2>3. QED
    BY <1>5, <2>2, Zenon
<1>11. ASSUME NEW q \in S
       PROVE  TotalRtt(sites, q) >= TotalRtt(sites, first) \/ load(q) > load(first)
  <2>1. q \in Regions /\ first \in Regions /\ f[first] <= f[q]
    BY <1>10
  <2>2. TotalRtt(sites, first) * a + load(first) * k <= TotalRtt(sites, q) * a + load(q) * k
    BY <1>4, <1>8, <2>1
  <2>3. QED
    BY <1>2, <1>6, <1>7, <2>1, <2>2, NotBothWorse
<1>12. QED
  BY <1>10, <1>11 DEF first, load, sites

\* The two regions the hash puts first are two wherever there are two to choose from.
LEMMA TwoOnTop ==
    ASSUME NEW S \in SUBSET Regions, S # {}, NEW rank \in Rankings
    PROVE  /\ TopTwo(S, rank) \subseteq S /\ TopTwo(S, rank) # {}
           /\ \A r \in S : S \ {r} # {} => \E q \in TopTwo(S, rank) : q # r
<1> DEFINE k == 3
<1>1. k \in Nat /\ Regions \in SUBSET Nat /\ \A r \in Regions : rank[r] \in 1..k
  BY DEF Rankings, Regions
<1> HIDE DEF k
<1>2. QED
  BY <1>1, TwoAmong

LEMMA PowerOfTwoChoice ==
    ASSUME NEW c \in FleetSettings, NEW room \in Nat, NEW S \in SUBSET Regions, S # {},
           NEW placed \in Placements, NEW rank \in Rankings, c.policy = "power-of-two"
    PROVE  LET r == chooseRegion(c, room, S, placed, rank)
           IN  /\ r \in S
               /\ S \ {r} # {} => \E q \in S \ {r} :
                      regionUtilization(c, placed, q) >= regionUtilization(c, placed, r)
<1> DEFINE sites == participantSites(c, room)
           load(r) == regionUtilization(c, placed, r)
           two == TopTwo(S, rank)
           f == [r \in Regions |-> load(r)]
           g == [r \in Regions |-> TotalRtt(sites, r)]
           L == LowestBy(f, two)
           first == chooseRegion(c, room, S, placed, rank)
           b == 0
<1>1. sites \in Seq(Sites)
  BY GroupOfSites
<1>2. \A r \in Regions : load(r) \in Nat
  BY Utilization
<1>3. \A r \in Regions : TotalRtt(sites, r) \in Nat
  BY <1>1, TotalRttIsNat
<1>4. b \in Int /\ (\A r \in Regions : f[r] \in Int /\ b <= f[r]) /\ \A r \in Regions : f[r] = load(r)
  BY <1>2
<1>5. (\A r \in Regions : g[r] \in Int /\ b <= g[r]) /\ \A r \in Regions : g[r] = TotalRtt(sites, r)
  BY <1>3
<1>6. two \subseteq S /\ two # {} /\ two \in SUBSET Regions
  BY TwoOnTop
<1>7. first = Least(Lowest(two, LAMBDA r : load(r)), LAMBDA r : TotalRtt(sites, r))
  BY DEF chooseRegion, choosePowerOfTwoRegion
<1> HIDE DEF f, g, b, sites, load, two, first
<1>8. Lowest(two, LAMBDA r : load(r)) = L
  <2>1. {r \in two : \A q \in two : load(r) <= load(q)} = LowestBy(f, two)
    BY <1>4, <1>6 DEF LowestBy
  <2>2. QED
    BY <2>1, Zenon DEF Lowest
<1>9. L \in SUBSET Regions /\ L # {} /\ L \subseteq two
  BY <1>4, <1>6, FirstOf
<1>10. \A r \in L : \A q \in two : f[r] <= f[q]
  BY DEF LowestBy
<1> HIDE DEF L
<1>11. first = Min(LowestBy(g, L))
  <2>1. {r \in L : \A q \in L : TotalRtt(sites, r) <= TotalRtt(sites, q)} = LowestBy(g, L)
    BY <1>5, <1>9 DEF LowestBy
  <2>2. QED
    BY <1>7, <1>8, <2>1, Zenon DEF Least, Lowest
<1>12. first \in L
  <2>1. Min(LowestBy(g, L)) \in L
    BY <1>4, <1>5, <1>9, FirstOf
  <2>2. QED
    BY <1>11, <2>1, Zenon
<1>13. first \in S
  BY <1>6, <1>9, <1>12
<1>14. ASSUME S \ {first} # {}
       PROVE  \E q \in S \ {first} : load(q) >= load(first)
  <2>1. PICK q \in two : q # first
    BY <1>13, <1>14, TwoOnTop DEF two
  <2>2. f[first] <= f[q] /\ q \in Regions /\ first \in Regions /\ q \in S
    BY <1>6, <1>10, <1>12, <1>13, <2>1
  <2>3. load(first) <= load(q)
    BY <1>4, <2>2
  <2>4. QED
    BY <1>2, <2>1, <2>2, <2>3
<1>15. QED
  BY <1>13, <1>14 DEF first, load

\* Whatever the policy, one of the candidates is chosen.
LEMMA ChosenRegion ==
    ASSUME NEW c \in FleetSettings, NEW room \in Nat, NEW S \in SUBSET Regions, S # {},
           NEW placed \in Placements, NEW rank \in Rankings
    PROVE  chooseRegion(c, room, S, placed, rank) \in S
<1>1. CASE c.policy \in {"min-average-rtt", "min-worst-rtt", "rendezvous"}
  <2> DEFINE f == FixedKey(c, room, rank)
             b == -3
  <2>1. b \in Int /\ (\A r \in Regions : f[r] \in Int /\ b <= f[r])
        /\ chooseRegion(c, room, S, placed, rank) = Min(LowestBy(f, S))
    BY <1>1, FixedChoice
  <2> HIDE DEF f, b
  <2>2. Min(LowestBy(f, S)) \in S
    BY <2>1, FirstOf
  <2>3. QED
    BY <2>1, <2>2, Zenon
<1>2. CASE c.policy = "load-aware"
  BY <1>2, LoadAwareChoice
<1>3. CASE c.policy = "power-of-two"
  BY <1>3, PowerOfTwoChoice
<1>4. QED
  BY <1>1, <1>2, <1>3, FleetTypes
\* A room is placed by what was placed before it.
PlacedAt(c, healthy, s, room, rank) ==
    LET before == SubSeq(s, 1, room - 1)
        candidates == eligibleRegions(c, healthy, before, room)
    IN  s[room] = IF candidates = {} THEN Rejected ELSE chooseRegion(c, room, candidates, before, rank)

FleetWithin(c, healthy, s) ==
    \A r \in Regions : usedUnits(s, r) <= (IF r \in healthy THEN c.capacityUnits[r] ELSE 0)

\* The two runs keep step, and place a room by the same hash.
FleetInv ==
    LET c == fleet.config
        s == fleet.baseline
        t == fleet.failure
    IN  /\ c \in FleetSettings
        /\ fleet = [config |-> c, baseline |-> s, failure |-> t]
        /\ s \in Placements /\ t \in Placements /\ Len(s) = Len(t)
        /\ FleetWithin(c, c.healthy, s) /\ FleetWithin(c, Survivors(c), t)
        /\ \A room \in DOMAIN s : \E rank \in Rankings :
               PlacedAt(c, c.healthy, s, room, rank) /\ PlacedAt(c, Survivors(c), t, room, rank)

LEMMA InitFleet == fleet \in {FleetOf(c) : c \in FleetSettings} => FleetInv
<1> SUFFICES ASSUME NEW c \in FleetSettings, fleet = FleetOf(c) PROVE FleetInv
  OBVIOUS
<1>1. fleet.config = c /\ fleet.baseline = <<>> /\ fleet.failure = <<>>
      /\ fleet = [config |-> c, baseline |-> <<>>, failure |-> <<>>]
  BY DEF FleetOf
<1>2. \A r \in Regions : <<>> \in Placements /\ usedUnits(<<>>, r) = 0 /\ c.capacityUnits[r] \in Nat
  BY NothingUsed, FleetTypes
<1>3. 1 \in Regions
  BY DEF Regions
<1>4. \A healthy : FleetWithin(c, healthy, <<>>)
  BY <1>2 DEF FleetWithin
<1>5. DOMAIN <<>> = {}
  OBVIOUS
<1>6. QED
  BY <1>1, <1>2, <1>3, <1>4, <1>5 DEF FleetInv

LEMMA OnePlaced ==
    ASSUME NEW c \in FleetSettings, NEW healthy \in SUBSET Regions, NEW s \in Placements, NEW rank \in Rankings,
           FleetWithin(c, healthy, s)
    PROVE  LET t == placeFleet(c, healthy, s, rank)
           IN  /\ t \in Placements /\ Len(t) = Len(s) + 1 /\ FleetWithin(c, healthy, t)
               /\ PlacedAt(c, healthy, t, Len(s) + 1, rank)
               /\ \A room \in DOMAIN s : \A k \in Rankings :
                      PlacedAt(c, healthy, s, room, k) => PlacedAt(c, healthy, t, room, k)
<1> DEFINE room == Len(s) + 1
           candidates == eligibleRegions(c, healthy, s, room)
           x == IF candidates = {} THEN Rejected ELSE chooseRegion(c, room, candidates, s, rank)
           t == placeFleet(c, healthy, s, rank)
<1>1. s \in Seq(0..3) /\ Len(s) \in Nat /\ DOMAIN s = 1..Len(s) /\ room \in Nat
  BY DEF Placements
<1>2. t = Append(s, x)
  BY DEF placeFleet
<1>3. candidates \in SUBSET Regions /\ candidates \subseteq healthy
      /\ \A r \in candidates : usedUnits(s, r) + demandUnits(room) <= c.capacityUnits[r]
  BY DEF eligibleRegions
<1> HIDE DEF candidates
<1>4. x \in 0..3 /\ (x = 0 \/ x \in candidates)
  <2>1. candidates # {} => chooseRegion(c, room, candidates, s, rank) \in candidates
    BY <1>1, <1>3, ChosenRegion
  <2>2. candidates \subseteq 0..3
    BY <1>3 DEF Regions
  <2>3. CASE candidates = {}
    BY <2>3 DEF Rejected
  <2>4. CASE candidates # {}
    <3>1. x = chooseRegion(c, room, candidates, s, rank)
      BY <2>4
    <3> HIDE DEF x
    <3>2. QED
      BY <2>1, <2>2, <2>4, <3>1
  <2>5. QED
    BY <2>3, <2>4
<1>5. \A m \in 0..Len(s) : SubSeq(t, 1, m) = SubSeq(s, 1, m)
  <2> SUFFICES ASSUME NEW m \in 0..Len(s) PROVE SubSeq(t, 1, m) = SubSeq(s, 1, m)
    OBVIOUS
  <2> HIDE DEF x, t
  <2>1. /\ SubSeq(s, 1, m) \in Seq(0..3) /\ Len(SubSeq(s, 1, m)) = m /\ SubSeq(t, 1, m) \in Seq(0..3)
        /\ Len(SubSeq(t, 1, m)) = m /\ \A i \in 1..m : SubSeq(t, 1, m)[i] = SubSeq(s, 1, m)[i]
    BY <1>1, <1>2, <1>4
  <2>2. QED
    BY <2>1, SeqEqual
<1>6. SubSeq(s, 1, Len(s)) = s
  BY <1>1
<1>7. t \in Seq(0..3) /\ Len(t) = room /\ t[room] = x /\ \A i \in 1..Len(s) : t[i] = s[i]
  <2> HIDE DEF x, t
  <2>1. QED
    BY <1>1, <1>2, <1>4
<1>8. FleetWithin(c, healthy, t)
  <2> SUFFICES ASSUME NEW r \in Regions
               PROVE  usedUnits(t, r) <= (IF r \in healthy THEN c.capacityUnits[r] ELSE 0)
    BY DEF FleetWithin
  <2> HIDE DEF x, t
  <2>1. usedUnits(s, r) \in Nat
        /\ usedUnits(t, r) = usedUnits(s, r) + (IF x = r THEN demandUnits(room) ELSE 0)
    BY <1>2, <1>4, OneMoreRoom
  <2>2. usedUnits(s, r) <= (IF r \in healthy THEN c.capacityUnits[r] ELSE 0)
    BY DEF FleetWithin
  <2>3. CASE x = r
    <3>1. r # 0
      BY DEF Regions
    <3>2. r \in candidates
      BY <1>4, <2>3, <3>1
    <3>3. QED
      BY <1>3, <2>1, <2>3, <3>2
  <2>4. CASE x # r
    BY <2>1, <2>2, <2>4
  <2>5. QED
    BY <2>3, <2>4
<1>9. PlacedAt(c, healthy, t, room, rank)
  <2> HIDE DEF t
  <2>1. room - 1 = Len(s) /\ Len(s) \in 0..Len(s)
    BY <1>1
  <2>2. SubSeq(t, 1, room - 1) = s
    BY <1>5, <1>6, <2>1
  <2> HIDE DEF room
  <2>3. QED
    BY <1>7, <2>2 DEF PlacedAt, candidates, x
<1>10. ASSUME NEW i \in DOMAIN s, NEW k \in Rankings, PlacedAt(c, healthy, s, i, k)
       PROVE  PlacedAt(c, healthy, t, i, k)
  <2> HIDE DEF t, x
  <2>1. i - 1 \in 0..Len(s) /\ i \in 1..Len(s)
    BY <1>1
  <2>2. SubSeq(t, 1, i - 1) = SubSeq(s, 1, i - 1) /\ t[i] = s[i]
    BY <1>5, <1>7, <2>1
  <2>3. QED
    BY <1>10, <2>2, Zenon DEF PlacedAt
<1>11. t \in Placements
  BY <1>7 DEF Placements
<1> HIDE DEF t
<1>12. QED
  BY <1>7, <1>8, <1>9, <1>10, <1>11 DEF t

LEMMA NextFleet == FleetInv /\ [PlaceRoom]_fleet => FleetInv'
<1> SUFFICES ASSUME FleetInv, [PlaceRoom]_fleet PROVE FleetInv'
  OBVIOUS
<1>1. CASE PlaceRoom
  <2> DEFINE c == fleet.config
             s == fleet.baseline
             t == fleet.failure
  <2>1. /\ c \in FleetSettings
        /\ fleet = [config |-> c, baseline |-> s, failure |-> t]
        /\ s \in Placements /\ t \in Placements /\ Len(s) = Len(t)
        /\ FleetWithin(c, c.healthy, s) /\ FleetWithin(c, Survivors(c), t)
        /\ \A room \in DOMAIN s : \E rank \in Rankings :
               PlacedAt(c, c.healthy, s, room, rank) /\ PlacedAt(c, Survivors(c), t, room, rank)
    BY DEF FleetInv
  <2>2. PICK rank \in Rankings :
            fleet' = [fleet EXCEPT !.baseline = placeFleet(c, c.healthy, s, rank),
                                   !.failure = placeFleet(c, Survivors(c), t, rank)]
    BY <1>1 DEF PlaceRoom, Rankings
  <2> DEFINE a == placeFleet(c, c.healthy, s, rank)
             b == placeFleet(c, Survivors(c), t, rank)
  <2>3. c.healthy \in SUBSET Regions /\ Survivors(c) \in SUBSET Regions
    BY <2>1, FleetTypes
  <2> HIDE DEF c, s, t
  <2>4. /\ a \in Placements /\ Len(a) = Len(s) + 1 /\ FleetWithin(c, c.healthy, a)
        /\ PlacedAt(c, c.healthy, a, Len(s) + 1, rank)
        /\ \A room \in DOMAIN s : \A k \in Rankings :
               PlacedAt(c, c.healthy, s, room, k) => PlacedAt(c, c.healthy, a, room, k)
    BY <2>1, <2>3, OnePlaced
  <2>5. /\ b \in Placements /\ Len(b) = Len(t) + 1 /\ FleetWithin(c, Survivors(c), b)
        /\ PlacedAt(c, Survivors(c), b, Len(t) + 1, rank)
        /\ \A room \in DOMAIN t : \A k \in Rankings :
               PlacedAt(c, Survivors(c), t, room, k) => PlacedAt(c, Survivors(c), b, room, k)
    BY <2>1, <2>3, OnePlaced
  <2> HIDE DEF a, b
  <2>6. fleet'.config = c /\ fleet'.baseline = a /\ fleet'.failure = b
        /\ fleet' = [config |-> c, baseline |-> a, failure |-> b]
    BY <2>1, <2>2 DEF a, b
  <2>7. Len(s) \in Nat /\ DOMAIN s = 1..Len(s) /\ DOMAIN t = 1..Len(s) /\ DOMAIN a = 1..(Len(s) + 1)
    BY <2>1, <2>4 DEF Placements
  <2>8. ASSUME NEW room \in DOMAIN a
        PROVE  \E k \in Rankings : PlacedAt(c, c.healthy, a, room, k) /\ PlacedAt(c, Survivors(c), b, room, k)
    <3>1. CASE room = Len(s) + 1
      <4>1. PlacedAt(c, c.healthy, a, room, rank) /\ PlacedAt(c, Survivors(c), b, room, rank)
        BY <2>1, <2>4, <2>5, <3>1
      <4>2. QED
        BY <4>1
    <3>2. CASE room # Len(s) + 1
      <4>1. room \in DOMAIN s /\ room \in DOMAIN t
        BY <2>7, <3>2
      <4>2. QED
        BY <2>1, <2>4, <2>5, <4>1
    <3>3. QED
      BY <3>1, <3>2
  <2>9. QED
    BY <2>1, <2>4, <2>5, <2>6, <2>8 DEF FleetInv
<1>2. CASE UNCHANGED fleet
  BY <1>2, Zenon DEF FleetInv
<1>3. QED
  BY <1>1, <1>2
\* What a run of placements promises.
LEMMA PlacedSoundly ==
    ASSUME fleet.config \in FleetSettings, NEW healthy \in SUBSET Regions, NEW s \in Placements,
           FleetWithin(fleet.config, healthy, s),
           \A room \in DOMAIN s : \E rank \in Rankings : PlacedAt(fleet.config, healthy, s, room, rank)
    PROVE  WithinCapacity(s, healthy) /\ LoadCounts(s, healthy)
<1> DEFINE c == fleet.config
<1> HIDE DEF c
<1>1. c \in FleetSettings /\ FleetWithin(c, healthy, s)
      /\ \A room \in DOMAIN s : \E rank \in Rankings : PlacedAt(c, healthy, s, room, rank)
  BY DEF c
<1>2. ASSUME NEW room \in DOMAIN s
      PROVE  LET before == SubSeq(s, 1, room - 1)
                 candidates == eligibleRegions(c, healthy, before, room)
             IN  /\ room \in Nat /\ before \in Placements /\ Len(before) + 1 = room
                 /\ SubSeq(s, 1, room) = Append(before, s[room])
                 /\ s[room] \in 0..3
                 /\ candidates \in SUBSET Regions
                 /\ candidates = {} => s[room] = Rejected
                 /\ candidates # {} => \E rank \in Rankings :
                        s[room] = chooseRegion(c, room, candidates, before, rank)
  <2> DEFINE before == SubSeq(s, 1, room - 1)
             candidates == eligibleRegions(c, healthy, before, room)
  <2>1. s \in Seq(0..3) /\ Len(s) \in Nat /\ room \in 1..Len(s) /\ room \in Nat /\ s[room] \in 0..3
    BY DEF Placements
  <2>2. before \in Seq(0..3) /\ Len(before) + 1 = room
    BY <2>1
  <2>3. SubSeq(s, 1, room) = Append(before, s[room])
    <3>1. room - 1 \in Nat /\ room - 1 < Len(s) /\ (room - 1) + 1 = room
      BY <2>1
    <3>2. SubSeq(s, 1, (room - 1) + 1) = Append(SubSeq(s, 1, room - 1), s[(room - 1) + 1])
      BY <2>1, <3>1, OneMoreTaken
    <3>3. QED
      BY <3>1, <3>2
  <2>4. candidates \in SUBSET Regions
    BY DEF eligibleRegions
  <2>5. PICK rank \in Rankings : PlacedAt(c, healthy, s, room, rank)
    BY <1>1
  <2>6. s[room] = IF candidates = {} THEN Rejected ELSE chooseRegion(c, room, candidates, before, rank)
    BY <2>5 DEF PlacedAt
  <2> HIDE DEF before, candidates
  <2>7. candidates # {} => \E k \in Rankings : s[room] = chooseRegion(c, room, candidates, before, k)
    BY <2>6
  <2>8. QED
    BY <2>1, <2>2, <2>3, <2>4, <2>6, <2>7 DEF before, candidates, Placements
<1>3. ASSUME NEW room \in DOMAIN s, s[room] = Rejected, NEW r \in healthy
      PROVE  usedUnits(SubSeq(s, 1, room), r) + demandUnits(room) > c.capacityUnits[r]
  <2> DEFINE before == SubSeq(s, 1, room - 1)
             candidates == eligibleRegions(c, healthy, before, room)
  <2>1. /\ room \in Nat /\ before \in Placements /\ Len(before) + 1 = room
        /\ SubSeq(s, 1, room) = Append(before, s[room])
        /\ candidates \in SUBSET Regions
        /\ candidates # {} => \E rank \in Rankings : s[room] = chooseRegion(c, room, candidates, before, rank)
    BY <1>2
  <2>2. ~(usedUnits(before, r) + demandUnits(room) <= c.capacityUnits[r])
    <3>1. SUFFICES ASSUME usedUnits(before, r) + demandUnits(room) <= c.capacityUnits[r] PROVE FALSE
      OBVIOUS
    <3>2. r \in candidates
      BY <3>1 DEF eligibleRegions
    <3> HIDE DEF before, candidates
    <3>3. PICK rank \in Rankings : s[room] = chooseRegion(c, room, candidates, before, rank)
      BY <2>1, <3>2
    <3>4. s[room] \in candidates
      BY <1>1, <2>1, <3>2, <3>3, ChosenRegion
    <3>5. QED
      BY <1>3, <2>1, <3>4 DEF Rejected, Regions
  <2> HIDE DEF before, candidates
  <2>3. r \in Regions /\ 0 \in 0..3 /\ r # 0
    BY DEF Regions
  <2>4. usedUnits(Append(before, 0), r) = usedUnits(before, r) + 0 /\ usedUnits(before, r) \in Nat
    BY <2>1, <2>3, OneMoreRoom
  <2>5. SubSeq(s, 1, room) = Append(before, 0)
    BY <1>3, <2>1 DEF Rejected
  <2>6. usedUnits(SubSeq(s, 1, room), r) = usedUnits(before, r)
    <3>1. usedUnits(SubSeq(s, 1, room), r) = usedUnits(Append(before, 0), r)
      BY <2>5, Zenon
    <3>2. QED
      BY <2>4, <3>1
  <2>7. c.capacityUnits[r] \in Nat /\ demandUnits(room) \in 1..5
    BY <1>1, <2>1, <2>3, FleetTypes, RoomDemand
  <2>8. QED
    BY <2>2, <2>4, <2>6, <2>7
<1>4. WithinCapacity(s, healthy)
  <2>1. \A r \in Regions : usedUnits(s, r) <= (IF r \in healthy THEN c.capacityUnits[r] ELSE 0)
    BY <1>1 DEF FleetWithin
  <2>2. QED
    BY <1>3, <2>1 DEF WithinCapacity, c
<1>5. ASSUME NEW room \in DOMAIN s, s[room] # Rejected
      PROVE  LET before == SubSeq(s, 1, room - 1)
                 sites == participantSites(c, room)
                 r == s[room]
                 others == eligibleRegions(c, healthy, before, room) \ {r}
                 load(q) == regionUtilization(c, before, q)
             IN  /\ c.policy = "load-aware" => \A q \in others :
                        TotalRtt(sites, q) >= TotalRtt(sites, r) \/ load(q) > load(r)
                 /\ c.policy = "power-of-two" /\ others # {} => \E q \in others : load(q) >= load(r)
  <2> DEFINE before == SubSeq(s, 1, room - 1)
             candidates == eligibleRegions(c, healthy, before, room)
             sites == participantSites(c, room)
  <2>1. /\ room \in Nat /\ before \in Placements
        /\ candidates \in SUBSET Regions
        /\ candidates = {} => s[room] = Rejected
        /\ candidates # {} => \E rank \in Rankings : s[room] = chooseRegion(c, room, candidates, before, rank)
    BY <1>2
  <2> HIDE DEF before, candidates, sites
  <2>2. candidates # {}
    BY <1>5, <2>1
  <2>3. PICK rank \in Rankings : s[room] = chooseRegion(c, room, candidates, before, rank)
    BY <2>1, <2>2
  <2>4. ASSUME c.policy = "load-aware", NEW q \in candidates
        PROVE  \/ TotalRtt(sites, q) >= TotalRtt(sites, s[room])
               \/ regionUtilization(c, before, q) > regionUtilization(c, before, s[room])
    BY <1>1, <2>1, <2>2, <2>3, <2>4, LoadAwareChoice DEF sites
  <2>5. ASSUME c.policy = "power-of-two", candidates \ {s[room]} # {}
        PROVE  \E q \in candidates \ {s[room]} :
                   regionUtilization(c, before, q) >= regionUtilization(c, before, s[room])
    BY <1>1, <2>1, <2>2, <2>3, <2>5, PowerOfTwoChoice
  <2>6. QED
    BY <2>4, <2>5, Zenon DEF before, candidates, sites
<1>6. LoadCounts(s, healthy)
  BY <1>5, Zenon DEF LoadCounts, c
<1>7. QED
  BY <1>4, <1>6

\* A room that its region did not lose stays where it was, if it would fit anywhere.
LEMMA StaysPut ==
    ASSUME FleetInv, NEW room \in DOMAIN fleet.baseline,
           fleet.config.policy \in {"min-average-rtt", "min-worst-rtt", "rendezvous"},
           \A r \in Survivors(fleet.config) :
               fleet.config.capacityUnits[r] >= MapThenSumSet(demandUnits, DOMAIN fleet.baseline),
           fleet.baseline[room] \notin {Rejected, fleet.config.failedRegionId}
    PROVE  fleet.failure[room] = fleet.baseline[room]
<1> DEFINE c == fleet.config
           s == fleet.baseline
           t == fleet.failure
           total == MapThenSumSet(demandUnits, DOMAIN s)
           early == SubSeq(s, 1, room - 1)
           late == SubSeq(t, 1, room - 1)
           wide == eligibleRegions(c, c.healthy, early, room)
           narrow == eligibleRegions(c, Survivors(c), late, room)
<1>1. /\ c \in FleetSettings /\ s \in Placements /\ t \in Placements /\ Len(s) = Len(t)
      /\ \E rank \in Rankings :
             PlacedAt(c, c.healthy, s, room, rank) /\ PlacedAt(c, Survivors(c), t, room, rank)
  BY DEF FleetInv
<1>2. PICK rank \in Rankings :
          PlacedAt(c, c.healthy, s, room, rank) /\ PlacedAt(c, Survivors(c), t, room, rank)
  BY <1>1
<1>3. /\ c.policy \in {"min-average-rtt", "min-worst-rtt", "rendezvous"}
      /\ \A r \in Survivors(c) : c.capacityUnits[r] >= total
      /\ s[room] # Rejected /\ s[room] # c.failedRegionId
  OBVIOUS
<1>4. /\ s[room] = IF wide = {} THEN Rejected ELSE chooseRegion(c, room, wide, early, rank)
      /\ t[room] = IF narrow = {} THEN Rejected ELSE chooseRegion(c, room, narrow, late, rank)
  BY <1>2 DEF PlacedAt
<1> HIDE DEF c, s, t
<1>5. /\ s \in Seq(0..3) /\ t \in Seq(0..3) /\ room \in 1..Len(s) /\ room \in DOMAIN s /\ room \in DOMAIN t
      /\ DOMAIN s = DOMAIN t /\ room \in Nat /\ early \in Placements /\ late \in Placements
  BY <1>1 DEF Placements, s
<1>6. \A r \in Regions : /\ usedUnits(early, r) + demandUnits(room) <= total
                         /\ usedUnits(late, r) + demandUnits(room) <= total
  <2>1. \A r \in Regions : usedUnits(early, r) + demandUnits(room) <= MapThenSumSet(demandUnits, DOMAIN s)
    BY <1>1, <1>5, UsedWithinTotal
  <2>2. \A r \in Regions : usedUnits(late, r) + demandUnits(room) <= MapThenSumSet(demandUnits, DOMAIN t)
    BY <1>1, <1>5, UsedWithinTotal
  <2>3. QED
    BY <1>5, <2>1, <2>2
<1>7. \A r \in Regions : /\ usedUnits(early, r) \in Nat /\ usedUnits(late, r) \in Nat
                         /\ c.capacityUnits[r] \in Nat
  <2>1. 0 \in 0..3
    OBVIOUS
  <2>2. QED
    BY <1>1, <1>5, <2>1, FleetTypes, OneMoreRoom
<1>8. total \in Int /\ demandUnits(room) \in 1..5
  <2>6. Len(s) \in Nat /\ DOMAIN s = 1..Len(s)
    BY <1>5
  <2>7. IsFiniteSet(1..Len(s))
    BY <2>6, FS_Interval
  <2>1. IsFiniteSet(DOMAIN s) /\ DOMAIN s \subseteq Nat
    BY <2>6, <2>7
  <2>2. total = Total(Demands, DOMAIN s)
    BY <2>1, UnitsAddUp
  <2>3. \A x \in DOMAIN s : Demands[x] \in Nat
    BY <2>1, RoomDemand
  <2>4. Total(Demands, DOMAIN s) \in Nat
    BY <2>1, <2>3, TotalGrows
  <2>5. total \in Nat
    BY <2>2, <2>4
  <2>8. demandUnits(room) \in 1..5
    BY <1>5, RoomDemand
  <2> HIDE DEF total
  <2>9. QED
    BY <2>5, <2>8
<1>9. Survivors(c) \subseteq Regions /\ c.healthy \subseteq Regions /\ Survivors(c) \subseteq c.healthy
  BY <1>1, FleetTypes
<1> HIDE DEF total, early, late
<1>10. \A r \in Survivors(c) : /\ usedUnits(early, r) + demandUnits(room) <= c.capacityUnits[r]
                               /\ usedUnits(late, r) + demandUnits(room) <= c.capacityUnits[r]
  BY <1>3, <1>6, <1>7, <1>8, <1>9
<1>11. narrow = Survivors(c) /\ Survivors(c) \subseteq wide /\ wide \subseteq c.healthy
  BY <1>9, <1>10 DEF eligibleRegions
<1> HIDE DEF wide, narrow
<1> DEFINE f == FixedKey(c, room, rank)
           b == -3
<1>12. b \in Int /\ (\A r \in Regions : f[r] \in Int /\ b <= f[r])
       /\ \A S \in SUBSET Regions : \A p \in Placements :
              chooseRegion(c, room, S, p, rank) = Min(LowestBy(f, S))
  <2>1. ASSUME NEW S \in SUBSET Regions, NEW p \in Placements
        PROVE  /\ \A r \in Regions : f[r] \in Int /\ -3 <= f[r]
               /\ chooseRegion(c, room, S, p, rank) = Min(LowestBy(f, S))
    BY <1>1, <1>3, <1>5, FixedChoice, ZenonT(60)
  <2>2. Regions \in SUBSET Regions /\ early \in Placements /\ b \in Int
    BY <1>5
  <2> HIDE DEF f
  <2>3. \A r \in Regions : f[r] \in Int /\ b <= f[r]
    BY <2>1, <2>2
  <2>4. QED
    BY <2>1, <2>2, <2>3
<1> HIDE DEF f, b
<1>13. wide # {} /\ s[room] = Min(LowestBy(f, wide)) /\ wide \in SUBSET Regions
  BY <1>3, <1>4, <1>5, <1>9, <1>11, <1>12
<1>14. Min(LowestBy(f, wide)) \in wide
       /\ \A S \in SUBSET Regions :
              S \subseteq wide /\ Min(LowestBy(f, wide)) \in S => Min(LowestBy(f, S)) = Min(LowestBy(f, wide))
  BY <1>12, <1>13, FirstOf
<1>15. s[room] \in narrow /\ narrow \in SUBSET Regions
  BY <1>3, <1>9, <1>11, <1>13, <1>14 DEF Survivors
<1>16. Min(LowestBy(f, narrow)) = s[room]
  BY <1>11, <1>13, <1>14, <1>15
<1>17. t[room] = chooseRegion(c, room, narrow, late, rank)
  BY <1>4, <1>15
<1>18. t[room] = Min(LowestBy(f, narrow))
  BY <1>5, <1>12, <1>15, <1>17
<1>19. QED
  BY <1>16, <1>18 DEF s, t

LEMMA FleetPromises == FleetInv => FleetPlacementsHold
<1> SUFFICES ASSUME FleetInv PROVE FleetPlacementsHold
  OBVIOUS
<1> DEFINE c == fleet.config
           s == fleet.baseline
           t == fleet.failure
<1>1. /\ c \in FleetSettings /\ s \in Placements /\ t \in Placements /\ Len(s) = Len(t)
      /\ FleetWithin(c, c.healthy, s) /\ FleetWithin(c, Survivors(c), t)
      /\ \A room \in DOMAIN s : \E rank \in Rankings :
             PlacedAt(c, c.healthy, s, room, rank) /\ PlacedAt(c, Survivors(c), t, room, rank)
  BY DEF FleetInv
<1>2. DOMAIN s = DOMAIN t /\ DOMAIN s = 1..Len(s)
  BY <1>1 DEF Placements
<1>3. c.healthy \in SUBSET Regions /\ Survivors(c) \in SUBSET Regions
      /\ c.failedRegionId \in Regions /\ c.failedRegionId \notin Survivors(c)
  BY <1>1, FleetTypes
<1>4. \A room \in DOMAIN s : \E rank \in Rankings : PlacedAt(c, c.healthy, s, room, rank)
  BY <1>1
<1>5. \A room \in DOMAIN t : \E rank \in Rankings : PlacedAt(c, Survivors(c), t, room, rank)
  BY <1>1, <1>2
<1>6. WithinCapacity(s, c.healthy) /\ LoadCounts(s, c.healthy)
  BY <1>1, <1>3, <1>4, PlacedSoundly
<1>7. WithinCapacity(t, Survivors(c)) /\ LoadCounts(t, Survivors(c))
  BY <1>1, <1>3, <1>5, PlacedSoundly
<1>8. \A room \in unchangedRooms(fleet) : s[room] # c.failedRegionId
  <2> SUFFICES ASSUME NEW room \in DOMAIN s, s[room] # Rejected, t[room] = s[room],
                      s[room] = c.failedRegionId
               PROVE  FALSE
    BY DEF unchangedRooms
  <2>1. PICK rank \in Rankings : PlacedAt(c, Survivors(c), t, room, rank)
    BY <1>2, <1>5
  <2> DEFINE before == SubSeq(t, 1, room - 1)
             S == eligibleRegions(c, Survivors(c), before, room)
  <2>2. t[room] = IF S = {} THEN Rejected ELSE chooseRegion(c, room, S, before, rank)
    BY <2>1 DEF PlacedAt
  <2>3. S \subseteq Survivors(c)
    BY DEF eligibleRegions
  <2>4. before \in Placements /\ room \in Nat
    BY <1>1, <1>2 DEF Placements
  <2> HIDE DEF before, S
  <2>5. S # {} /\ t[room] = chooseRegion(c, room, S, before, rank)
    BY <2>2
  <2>6. t[room] \in S
    BY <1>1, <1>3, <2>3, <2>4, <2>5, ChosenRegion
  <2>7. QED
    BY <1>3, <2>3, <2>6
<1>9. /\ c.policy \in {"min-average-rtt", "min-worst-rtt", "rendezvous"}
      /\ \A r \in Survivors(c) : c.capacityUnits[r] >= MapThenSumSet(demandUnits, DOMAIN s)
      => extraMoves(fleet) = {}
  <2> SUFFICES ASSUME c.policy \in {"min-average-rtt", "min-worst-rtt", "rendezvous"},
                      \A r \in Survivors(c) : c.capacityUnits[r] >= MapThenSumSet(demandUnits, DOMAIN s),
                      NEW room \in DOMAIN s, s[room] \notin {Rejected, c.failedRegionId}, t[room] # s[room]
               PROVE  FALSE
    BY Zenon DEF extraMoves
  <2>1. t[room] = s[room]
    BY StaysPut
  <2>2. QED
    BY <2>1
<1>10. MovesAreForced
  BY <1>8, <1>9, Zenon DEF MovesAreForced
<1>11. QED
  BY <1>6, <1>7, <1>10 DEF FleetPlacementsHold

\* Rooms go to healthy regions within their capacity, are rejected only when they fit nowhere, and a
\* failed region moves only its own rooms: for all settings, and every order the hash puts regions in.
THEOREM RoomsFitTheirRegions == FleetSpec => []FleetPlacementsHold
<1>1. fleet \in {FleetOf(c) : c \in FleetSettings} => FleetInv
  BY InitFleet
<1>2. FleetInv /\ [PlaceRoom]_fleet => FleetInv'
  BY NextFleet
<1>3. FleetInv => FleetPlacementsHold
  BY FleetPromises
<1>4. QED
  BY <1>1, <1>2, <1>3, PTL DEF FleetSpec

-----------------------------------------------------------------------------

(* Server distribution. *)

Assignments == Seq(0..12)

ProcessRanks == [Processes -> 1..4]

\* The units each room asks for, and all together.
RoomUnits(c) == [i \in DOMAIN c.rooms |-> c.rooms[i].demandUnits]
UnitsIn(c, D) == MapThenSumSet(LAMBDA i : c.rooms[i].demandUnits, D)

\* The open processes of a region, and all of them.
OpenIn(r, closed) == {p \in Processes : regionOf(p) = r /\ hostOf(p) \notin closed}
ProcessesOf(r) == {p \in Processes : regionOf(p) = r}

LEMMA DistributionTypes ==
    ASSUME NEW c \in DistributionSettings
    PROVE  /\ c.policy \in {"round-robin", "least-loaded", "rendezvous", "power-of-two"}
           /\ c.rooms \in Seq([regionId : Regions, demandUnits : Nat \ {0}])
           /\ c.capacityUnitsPerProcess \in Nat /\ c.failedHostId \in Hosts
           /\ Len(c.rooms) \in Nat /\ DOMAIN c.rooms = 1..Len(c.rooms)
           /\ \A i \in DOMAIN c.rooms : /\ c.rooms[i].regionId \in Regions /\ c.rooms[i].demandUnits \in Nat \ {0}
                                        /\ RoomUnits(c)[i] = c.rooms[i].demandUnits /\ RoomUnits(c)[i] \in Nat
                                        /\ RoomUnits(c)[i] \in Int
<1>1. /\ c.policy \in {"round-robin", "least-loaded", "rendezvous", "power-of-two"}
      /\ c.rooms \in Seq([regionId : Regions, demandUnits : Nat \ {0}])
      /\ c.capacityUnitsPerProcess \in Nat /\ c.failedHostId \in Hosts
  BY DistributionAssumption, Zenon
<1>2. Len(c.rooms) \in Nat /\ DOMAIN c.rooms = 1..Len(c.rooms)
  BY <1>1
<1>3. ASSUME NEW i \in DOMAIN c.rooms
      PROVE  c.rooms[i].regionId \in Regions /\ c.rooms[i].demandUnits \in Nat \ {0}
  <2> DEFINE R == [regionId : Regions, demandUnits : Nat \ {0}]
             q == c.rooms
  <2>1. q \in Seq(R) /\ i \in 1..Len(q)
    BY <1>1, <1>2
  <2> HIDE DEF R, q
  <2>2. q[i] \in R
    BY <2>1, ElementOfSeq
  <2>3. QED
    BY <2>2 DEF R, q
<1>4. \A i \in DOMAIN c.rooms : RoomUnits(c)[i] = c.rooms[i].demandUnits
  BY DEF RoomUnits
<1>5. QED
  BY <1>1, <1>2, <1>3, <1>4

LEMMA RoomUnitsAddUp ==
    ASSUME NEW c \in DistributionSettings, NEW D, IsFiniteSet(D), D \subseteq DOMAIN c.rooms
    PROVE  UnitsIn(c, D) = Total(RoomUnits(c), D)
<1> DEFINE g == RoomUnits(c)
           body(f) == [s \in SUBSET D |-> IF s = {} THEN 0
                          ELSE c.rooms[CHOOSE x \in s : TRUE].demandUnits + f[s \ {CHOOSE x \in s : TRUE}]]
           iter == CHOOSE f : f = body(f)
<1>1. UnitsIn(c, D) = iter[D]
  BY DEF UnitsIn, MapThenSumSet, MapThenFoldSet
<1>2. \A x \in D : g[x] \in Int /\ g[x] = c.rooms[x].demandUnits
  BY DistributionTypes
<1> HIDE DEF g
<1>3. PICK h \in [SUBSET D -> Int] : Sums(h, D, g)
  BY <1>2, SumsExist
<1>4. \A s \in SUBSET D : s # {} => (CHOOSE x \in s : TRUE) \in D
  OBVIOUS
<1>5. ASSUME NEW f
      PROVE  body(f) = [s \in SUBSET D |-> IF s = {} THEN 0 ELSE g[AnyOf(s)] + f[s \ {AnyOf(s)}]]
  <2>1. \A s \in SUBSET D : s # {} => c.rooms[CHOOSE x \in s : TRUE].demandUnits = g[AnyOf(s)]
    BY <1>2, <1>4 DEF AnyOf
  <2>2. QED
    BY <2>1 DEF AnyOf
<1> HIDE DEF body
<1>6. h = body(h)
  BY <1>3, <1>5 DEF Sums, Adds
<1>7. iter = body(iter)
  BY <1>6
<1> HIDE DEF iter
<1>8. Adds(iter, D, g)
  BY <1>5, <1>7 DEF Adds
<1>9. iter[D] = Total(g, D)
  BY <1>2, <1>8, FoldIsTotal
<1>10. QED
  BY <1>1, <1>9 DEF g

\* A room adds its units to its process, and is counted in all together.
LEMMA OneMoreAssigned ==
    ASSUME NEW c \in DistributionSettings, NEW s \in Assignments, Len(s) < Len(c.rooms), NEW x \in 0..12
    PROVE  LET d == c.rooms[Len(s) + 1].demandUnits
               t == Append(s, x)
           IN  /\ d \in Nat \ {0} /\ DOMAIN s \subseteq DOMAIN c.rooms
               /\ \A p \in Processes : /\ processUnits(c, s, p) \in Nat
                                       /\ processUnits(c, t, p) = processUnits(c, s, p) + (IF x = p THEN d ELSE 0)
               /\ UnitsIn(c, DOMAIN s) \in Nat
               /\ UnitsIn(c, DOMAIN t) = UnitsIn(c, DOMAIN s) + d
               /\ \A p \in Processes : processUnits(c, s, p) <= UnitsIn(c, DOMAIN s)
<1> DEFINE n == Len(s)
           d == c.rooms[n + 1].demandUnits
           t == Append(s, x)
           g == RoomUnits(c)
           D == 1..n
<1>1. s \in Seq(0..12) /\ n \in Nat /\ n + 1 \in 1..Len(c.rooms) /\ n + 1 \in DOMAIN c.rooms
      /\ 1..(n + 1) \subseteq DOMAIN c.rooms /\ DOMAIN s = 1..n /\ DOMAIN t = 1..(n + 1)
  BY DistributionTypes DEF Assignments
<1>2. d \in Nat \ {0} /\ g[n + 1] = d /\ \A i \in DOMAIN c.rooms : g[i] \in Nat /\ g[i] \in Int
  BY <1>1, DistributionTypes
<1>3. IsFiniteSet(D) /\ D \subseteq DOMAIN c.rooms /\ n + 1 \notin D /\ D \cup {n + 1} = 1..(n + 1)
      /\ IsFiniteSet(1..(n + 1))
  <2>1. IsFiniteSet(1..n) /\ IsFiniteSet(1..(n + 1))
    BY <1>1, FS_Interval
  <2>2. QED
    BY <1>1, <2>1
<1> HIDE DEF d, g, D
<1>4. UnitsIn(c, D) = Total(g, D) /\ UnitsIn(c, 1..(n + 1)) = Total(g, 1..(n + 1))
  BY <1>1, <1>3, RoomUnitsAddUp DEF g
<1>5. Total(g, D \cup {n + 1}) = Total(g, D) + d
  <2>1. \A y \in D \cup {n + 1} : g[y] \in Int
    BY <1>1, <1>2, <1>3
  <2>2. QED
    BY <1>2, <1>3, <2>1, TotalOfMore
<1>6. Total(g, D) \in Nat
  <2>1. \A y \in D : g[y] \in Nat
    BY <1>2, <1>3
  <2>2. QED
    BY <1>3, <2>1, TotalGrows
<1>7. UnitsIn(c, DOMAIN s) \in Nat /\ UnitsIn(c, DOMAIN t) = UnitsIn(c, DOMAIN s) + d
  <2>1. UnitsIn(c, DOMAIN s) = Total(g, D)
    BY <1>1, <1>4, Zenon DEF D
  <2>2. UnitsIn(c, DOMAIN t) = Total(g, D \cup {n + 1})
    BY <1>1, <1>3, <1>4, Zenon
  <2>3. QED
    BY <1>5, <1>6, <2>1, <2>2
<1>8. ASSUME NEW p \in Processes
      PROVE  /\ processUnits(c, s, p) \in Nat
             /\ processUnits(c, t, p) = processUnits(c, s, p) + (IF x = p THEN d ELSE 0)
             /\ processUnits(c, s, p) <= UnitsIn(c, DOMAIN s)
  <2> DEFINE before == PlacesOf(s, p)
             after == PlacesOf(t, p)
  <2>1. /\ IsFiniteSet(before) /\ IsFiniteSet(after) /\ n + 1 \notin before
        /\ after = IF x = p THEN before \cup {n + 1} ELSE before
    BY <1>1, OneMorePlace, SMTT(30)
  <2>2. processUnits(c, s, p) = UnitsIn(c, before) /\ processUnits(c, t, p) = UnitsIn(c, after)
    BY Zenon DEF processUnits, PlacesOf, UnitsIn
  <2>3. before \subseteq D
    BY <1>1 DEF PlacesOf, D
  <2> HIDE DEF before, after, t
  <2>4. before \subseteq DOMAIN c.rooms /\ before \cup {n + 1} \subseteq DOMAIN c.rooms /\ after \subseteq DOMAIN c.rooms
    BY <1>1, <1>3, <2>1, <2>3
  <2>5. UnitsIn(c, before) = Total(g, before) /\ UnitsIn(c, after) = Total(g, after)
    BY <2>1, <2>4, RoomUnitsAddUp DEF g
  <2>6. Total(g, before) \in Nat /\ Total(g, before) <= Total(g, D)
    <3>1. \A y \in D : g[y] \in Nat
      BY <1>2, <1>3
    <3>2. QED
      BY <1>3, <2>3, <3>1, TotalGrows
  <2>7. Total(g, before \cup {n + 1}) = Total(g, before) + d
    <3>1. \A y \in before \cup {n + 1} : g[y] \in Int
      BY <1>2, <2>4
    <3>2. QED
      BY <1>2, <2>1, <3>1, TotalOfMore
  <2>8. processUnits(c, t, p) = Total(g, before) + (IF x = p THEN d ELSE 0)
    <3>1. CASE x = p
      <4>1. Total(g, after) = Total(g, before \cup {n + 1})
        BY <2>1, <3>1, Zenon
      <4>2. QED
        BY <2>2, <2>5, <2>7, <3>1, <4>1
    <3>2. CASE x # p
      <4>1. Total(g, after) = Total(g, before)
        BY <2>1, <3>2, Zenon
      <4>2. QED
        BY <2>2, <2>5, <2>6, <3>2, <4>1
    <3>3. QED
      BY <3>1, <3>2
  <2>9. UnitsIn(c, DOMAIN s) = Total(g, D)
    BY <1>1, <1>4, Zenon DEF D
  <2>10. QED
    BY <2>2, <2>5, <2>6, <2>8, <2>9
<1>9. DOMAIN s \subseteq DOMAIN c.rooms
  BY <1>1, <1>3
<1>10. QED
  BY <1>2, <1>7, <1>8, <1>9 DEF d, t

LEMMA NothingAssigned ==
    ASSUME NEW c \in DistributionSettings
    PROVE  /\ <<>> \in Assignments /\ UnitsIn(c, DOMAIN <<>>) = 0
           /\ \A p \in Processes : processUnits(c, <<>>, p) = 0 /\ PlacesOf(<<>>, p) = {}
           /\ \A r \in Regions : roundRobinIndex(<<>>, r) = 0
<1>1. IsFiniteSet({}) /\ {} \subseteq DOMAIN c.rooms
  BY FS_EmptySet
<1>2. UnitsIn(c, {}) = Total(RoomUnits(c), {})
  BY <1>1, RoomUnitsAddUp
<1>3. UnitsIn(c, {}) = 0
  BY <1>2, TotalOfNone
<1>4. \A p \in Processes : PlacesOf(<<>>, p) = {}
  BY DEF PlacesOf
<1>5. \A p \in Processes : processUnits(c, <<>>, p) = UnitsIn(c, PlacesOf(<<>>, p))
  BY Zenon DEF processUnits, PlacesOf, UnitsIn
<1>6. \A r \in Regions : roundRobinIndex(<<>>, r) = 0
  <2>1. \A r \in Regions : {i \in DOMAIN <<>> : <<>>[i] # Unassigned /\ regionOf(<<>>[i]) = r} = {}
    OBVIOUS
  <2>2. QED
    BY <2>1, FS_EmptySet DEF roundRobinIndex
<1>7. UnitsIn(c, DOMAIN <<>>) = 0 /\ <<>> \in Assignments
  <2>1. DOMAIN <<>> = {} /\ <<>> \in Assignments
    BY DEF Assignments
  <2>2. QED
    BY <1>3, <2>1, Zenon
<1>8. \A p \in Processes : processUnits(c, <<>>, p) = 0
  BY <1>3, <1>4, <1>5, Zenon
<1>9. QED
  BY <1>4, <1>6, <1>7, <1>8, Zenon

LEMMA FewProcesses ==
    /\ IsFiniteSet(Processes) /\ Processes \in SUBSET Nat
    /\ \A S \in SUBSET Processes : IsFiniteSet(S)
<1>1. IsFiniteSet(Processes)
  <2>1. 1 \in Int /\ 12 \in Int
    OBVIOUS
  <2>2. QED
    BY <2>1, FS_Interval, Zenon DEF Processes
<1>2. Processes \in SUBSET Nat
  BY DEF Processes
<1>3. QED
  BY <1>1, <1>2, FS_Subset

\* The cursor of a region counts the rooms its processes have.
LEMMA CursorCounts ==
    ASSUME NEW s \in Assignments, NEW r \in Regions
    PROVE  /\ roundRobinIndex(s, r) = Cardinality(PlacesIn(s, ProcessesOf(r)))
           /\ roundRobinIndex(s, r) \in Nat
           /\ \A x \in 0..12 : roundRobinIndex(Append(s, x), r)
                  = roundRobinIndex(s, r) + (IF x \in ProcessesOf(r) THEN 1 ELSE 0)
<1>1. ASSUME NEW q \in Assignments
      PROVE  roundRobinIndex(q, r) = Cardinality(PlacesIn(q, ProcessesOf(r)))
  <2>1. \A i \in DOMAIN q : q[i] \in 0..12
    BY DEF Assignments
  <2>2. \A v \in 0..12 : (v # Unassigned /\ regionOf(v) = r) <=> v \in ProcessesOf(r)
    BY DEF ProcessesOf, Processes, Unassigned
  <2>3. {i \in DOMAIN q : q[i] # Unassigned /\ regionOf(q[i]) = r} = PlacesIn(q, ProcessesOf(r))
    BY <2>1, <2>2 DEF PlacesIn
  <2>4. QED
    BY <2>3, Zenon DEF roundRobinIndex
<1>2. \A x \in 0..12 : Append(s, x) \in Assignments
  BY DEF Assignments
<1>3. 0 \in 0..12
  OBVIOUS
<1>4. \A x \in 0..12 : /\ Cardinality(PlacesIn(s, ProcessesOf(r))) \in Nat
                       /\ Cardinality(PlacesIn(Append(s, x), ProcessesOf(r)))
                              = Cardinality(PlacesIn(s, ProcessesOf(r))) + (IF x \in ProcessesOf(r) THEN 1 ELSE 0)
  <2> DEFINE T == 0..12
             V == ProcessesOf(r)
  <2>1. s \in Seq(T)
    BY DEF Assignments
  <2> HIDE DEF T, V
  <2>2. \A x \in T : /\ Cardinality(PlacesIn(s, V)) \in Nat
                     /\ Cardinality(PlacesIn(Append(s, x), V))
                            = Cardinality(PlacesIn(s, V)) + (IF x \in V THEN 1 ELSE 0)
    BY <2>1, OneMoreIn
  <2>3. QED
    BY <2>2 DEF T, V
<1>5. QED
  BY <1>1, <1>2, <1>3, <1>4

LEMMA NthProcess ==
    ASSUME NEW S \in SUBSET Processes, S # {}, NEW n \in 0..(Cardinality(S) - 1)
    PROVE  nth(S, n) \in S /\ RankIn(S, nth(S, n)) = n
<1>1. S \in SUBSET Nat /\ IsFiniteSet(S)
  BY FewProcesses
<1>2. \E r \in S : Cardinality({q \in S : q < r}) = n
  BY <1>1, Ranks DEF RankIn
<1>3. QED
  BY <1>2 DEF nth, RankIn

\* The least loaded of some processes.
LoadOf(c, s) == [p \in Processes |-> processUnits(c, s, p)]

LEMMA LeastLoaded ==
    ASSUME NEW c \in DistributionSettings, NEW s \in Assignments, Len(s) < Len(c.rooms),
           NEW S \in SUBSET Processes, S # {}
    PROVE  LET x == Least(S, LAMBDA p : processUnits(c, s, p))
           IN  x = Min(LowestBy(LoadOf(c, s), S)) /\ x \in S
               /\ \A q \in S : processUnits(c, s, x) <= processUnits(c, s, q)
<1> DEFINE f == LoadOf(c, s)
           b == 0
           x == Least(S, LAMBDA p : processUnits(c, s, p))
<1>1. \A p \in Processes : f[p] = processUnits(c, s, p)
  BY DEF LoadOf
<1>2. 0 \in 0..12
  OBVIOUS
<1>3. \A p \in Processes : processUnits(c, s, p) \in Nat
  BY <1>2, OneMoreAssigned
<1>4. b \in Int /\ \A p \in Processes : f[p] \in Int /\ b <= f[p]
  BY <1>1, <1>3
<1> HIDE DEF f, b
<1>5. {p \in S : \A q \in S : processUnits(c, s, p) <= processUnits(c, s, q)} = LowestBy(f, S)
  BY <1>1 DEF LowestBy
<1>6. x = Min(LowestBy(f, S))
  BY <1>5, Zenon DEF Least, Lowest
<1> HIDE DEF x
<1>7. Min(LowestBy(f, S)) \in S /\ \A q \in S : f[Min(LowestBy(f, S))] <= f[q]
  BY <1>4, FewProcesses, FirstAmong
<1>8. x \in S /\ \A q \in S : f[x] <= f[q]
  BY <1>6, <1>7, Zenon
<1>9. \A q \in S : processUnits(c, s, x) <= processUnits(c, s, q)
  BY <1>1, <1>8
<1>10. QED
  BY <1>6, <1>8, <1>9 DEF x, f

\* A hash prefers what it ranks highest.
Preference(rank) == [p \in Processes |-> -rank[p]]

LEMMA Preferred ==
    ASSUME NEW rank \in ProcessRanks
    PROVE  \A p \in Processes : /\ rank[p] \in 1..4 /\ Preference(rank)[p] = -rank[p]
                                /\ Preference(rank)[p] \in Int /\ -4 <= Preference(rank)[p]
BY DEF ProcessRanks, Preference

\* Whatever the policy, one of the candidates is chosen, and by which rule.
LEMMA ChosenProcess ==
    ASSUME NEW c \in DistributionSettings, NEW s \in Assignments, Len(s) < Len(c.rooms),
           NEW S \in SUBSET Processes, S # {}, NEW rank \in ProcessRanks, NEW room, room.regionId \in Regions
    PROVE  LET x == chooseProcess(c, room, S, s, rank)
           IN  /\ x \in S
               /\ c.policy = "round-robin" =>
                      RankIn(S, x) = roundRobinIndex(s, room.regionId) % Cardinality(S)
               /\ c.policy = "least-loaded" => \A q \in S : processUnits(c, s, x) <= processUnits(c, s, q)
               /\ c.policy = "rendezvous" => x = Min(LowestBy(Preference(rank), S))
<1> DEFINE x == chooseProcess(c, room, S, s, rank)
<1>1. CASE c.policy = "round-robin"
  <2> DEFINE n == Cardinality(S)
             i == roundRobinIndex(s, room.regionId)
  <2>1. n \in Nat \ {0} /\ i \in Nat
    <3>1. S \in SUBSET Nat /\ IsFiniteSet(S)
      BY FewProcesses
    <3>2. QED
      BY <3>1, Ranks, CursorCounts
  <2>2. i % n \in 0..(n - 1)
    BY <2>1
  <2>3. x = nth(S, i % n)
    BY <1>1 DEF chooseProcess
  <2> HIDE DEF x
  <2>4. x \in S /\ RankIn(S, x) = i % n
    BY <2>2, <2>3, NthProcess
  <2>5. QED
    BY <1>1, <2>4 DEF x
<1>2. CASE c.policy = "least-loaded"
  <2>1. x = Least(S, LAMBDA p : processUnits(c, s, p))
    BY <1>2 DEF chooseProcess
  <2>2. x \in S /\ \A q \in S : processUnits(c, s, x) <= processUnits(c, s, q)
    BY <2>1, LeastLoaded
  <2> HIDE DEF x
  <2>3. QED
    BY <1>2, <2>2 DEF x
<1>3. CASE c.policy = "rendezvous"
  <2> DEFINE f == Preference(rank)
             b == -4
  <2>1. x = Least(S, LAMBDA p : -rank[p])
    BY <1>3 DEF chooseProcess
  <2>2. b \in Int /\ (\A p \in Processes : f[p] \in Int /\ b <= f[p]) /\ \A p \in Processes : f[p] = -rank[p]
    BY Preferred
  <2> HIDE DEF f, b, x
  <2>3. {p \in S : \A q \in S : -rank[p] <= -rank[q]} = LowestBy(f, S)
    BY <2>2 DEF LowestBy
  <2>4. x = Min(LowestBy(f, S))
    BY <2>1, <2>3, Zenon DEF Least, Lowest
  <2>5. Min(LowestBy(f, S)) \in S
    BY <2>2, FewProcesses, FirstAmong
  <2>6. x \in S
    BY <2>4, <2>5, Zenon
  <2>7. QED
    BY <1>3, <2>4, <2>6 DEF x, f
<1>4. CASE c.policy = "power-of-two"
  <2> DEFINE two == TopTwo(S, rank)
             k == 4
  <2>1. k \in Nat /\ \A p \in Processes : rank[p] \in 1..k
    BY Preferred
  <2> HIDE DEF k
  <2>2. two \subseteq S /\ two # {} /\ two \in SUBSET Processes
    BY <2>1, FewProcesses, TwoAmong
  <2>3. x = Least(two, LAMBDA p : processUnits(c, s, p))
    BY <1>4 DEF chooseProcess
  <2> HIDE DEF two
  <2>4. x \in two
    BY <2>2, <2>3, LeastLoaded
  <2> HIDE DEF x
  <2>5. QED
    BY <1>4, <2>2, <2>4 DEF x
<1>5. QED
  BY <1>1, <1>2, <1>3, <1>4, DistributionTypes

\* The choice depends on the loads of the candidates and on the region's cursor, and on nothing else.
LEMMA SameChoice ==
    ASSUME NEW c \in DistributionSettings, NEW s \in Assignments, NEW t \in Assignments,
           Len(s) < Len(c.rooms), Len(t) < Len(c.rooms),
           NEW S \in SUBSET Processes, S # {}, NEW rank \in ProcessRanks, NEW room,
           \A p \in S : processUnits(c, s, p) = processUnits(c, t, p),
           roundRobinIndex(s, room.regionId) = roundRobinIndex(t, room.regionId)
    PROVE  chooseProcess(c, room, S, s, rank) = chooseProcess(c, room, S, t, rank)
<1> DEFINE x == chooseProcess(c, room, S, s, rank)
           y == chooseProcess(c, room, S, t, rank)
<1>1. ASSUME NEW U \in SUBSET Processes, U \subseteq S, U # {}
      PROVE  Least(U, LAMBDA p : processUnits(c, s, p)) = Least(U, LAMBDA p : processUnits(c, t, p))
  <2>1. \A p \in U : LoadOf(c, s)[p] = LoadOf(c, t)[p]
    BY <1>1 DEF LoadOf
  <2>2. LowestBy(LoadOf(c, s), U) = LowestBy(LoadOf(c, t), U)
    BY <2>1 DEF LowestBy
  <2>3. Least(U, LAMBDA p : processUnits(c, s, p)) = Min(LowestBy(LoadOf(c, s), U))
    BY <1>1, LeastLoaded
  <2>4. Least(U, LAMBDA p : processUnits(c, t, p)) = Min(LowestBy(LoadOf(c, t), U))
    BY <1>1, LeastLoaded
  <2>5. QED
    BY <2>2, <2>3, <2>4, Zenon
<1>2. CASE c.policy = "round-robin"
  <2>1. x = nth(S, roundRobinIndex(s, room.regionId) % Cardinality(S))
    BY <1>2 DEF chooseProcess
  <2>2. y = nth(S, roundRobinIndex(t, room.regionId) % Cardinality(S))
    BY <1>2 DEF chooseProcess
  <2>3. QED
    BY <2>1, <2>2, Zenon
<1>3. CASE c.policy = "least-loaded"
  <2>1. x = Least(S, LAMBDA p : processUnits(c, s, p))
    BY <1>3 DEF chooseProcess
  <2>2. y = Least(S, LAMBDA p : processUnits(c, t, p))
    BY <1>3 DEF chooseProcess
  <2>3. QED
    BY <1>1, <2>1, <2>2
<1>4. CASE c.policy = "rendezvous"
  <2>1. x = Least(S, LAMBDA p : -rank[p])
    BY <1>4 DEF chooseProcess
  <2>2. y = Least(S, LAMBDA p : -rank[p])
    BY <1>4 DEF chooseProcess
  <2>3. QED
    BY <2>1, <2>2
<1>5. CASE c.policy = "power-of-two"
  <2> DEFINE two == TopTwo(S, rank)
             k == 4
  <2>1. k \in Nat /\ \A p \in Processes : rank[p] \in 1..k
    BY Preferred
  <2> HIDE DEF k
  <2>2. two \subseteq S /\ two # {} /\ two \in SUBSET Processes
    BY <2>1, FewProcesses, TwoAmong
  <2>3. x = Least(two, LAMBDA p : processUnits(c, s, p))
    BY <1>5 DEF chooseProcess
  <2>4. y = Least(two, LAMBDA p : processUnits(c, t, p))
    BY <1>5 DEF chooseProcess
  <2> HIDE DEF two
  <2>5. QED
    BY <1>1, <2>2, <2>3, <2>4
<1>6. QED
  BY <1>2, <1>3, <1>4, <1>5, DistributionTypes

\* A room is assigned by what was assigned before it.
AssignedAt(c, closed, s, i, rank) ==
    LET before == SubSeq(s, 1, i - 1)
        candidates == eligibleProcesses(c, closed, before, c.rooms[i])
    IN  s[i] = IF candidates = {} THEN Unassigned ELSE chooseProcess(c, c.rooms[i], candidates, before, rank)

AssignedWithin(c, closed, s) ==
    \A p \in Processes :
        processUnits(c, s, p) <= (IF hostOf(p) \in closed THEN 0 ELSE c.capacityUnitsPerProcess)

AssignedHome(c, s) ==
    \A i \in DOMAIN s : s[i] # Unassigned => s[i] \in ProcessesOf(c.rooms[i].regionId)

\* While everything fits, the processes of a region take turns.
InTurns(c, closed, s) ==
    c.policy = "round-robin" /\ UnitsIn(c, DOMAIN s) <= c.capacityUnitsPerProcess =>
        \A r \in Regions : \A p \in OpenIn(r, closed) :
            Cardinality(PlacesOf(s, p)) = Turns(roundRobinIndex(s, r), Cardinality(OpenIn(r, closed)),
                                                RankIn(OpenIn(r, closed), p))

\* No process is ahead of another by more than one room.
Levelled(c, closed, s) ==
    c.policy = "least-loaded" =>
        \A r \in Regions : \A p, q \in OpenIn(r, closed) :
            \/ processUnits(c, s, p) <= processUnits(c, s, q)
            \/ \E i \in DOMAIN s : processUnits(c, s, p) <= processUnits(c, s, q) + c.rooms[i].demandUnits

\* What a room that is assigned finds, and what the assignment changes.
Assigning(c, closed, s, room, x) ==
    LET candidates == eligibleProcesses(c, closed, s, room)
        open == OpenIn(room.regionId, closed)
    IN  /\ room.regionId \in Regions /\ room.demandUnits \in Nat \ {0}
        /\ candidates \subseteq open /\ x \in 0..12
        /\ x = Unassigned \/ x \in candidates
        /\ candidates = {} => x = Unassigned
        /\ \A p \in open : p \in candidates <=>
               processUnits(c, s, p) + room.demandUnits <= c.capacityUnitsPerProcess
        /\ candidates # {} /\ c.policy = "round-robin" =>
               RankIn(candidates, x) = roundRobinIndex(s, room.regionId) % Cardinality(candidates)
        /\ candidates # {} /\ c.policy = "least-loaded" =>
               \A q \in candidates : processUnits(c, s, x) <= processUnits(c, s, q)

LEMMA AssignsOne ==
    ASSUME NEW c \in DistributionSettings, NEW closed, NEW s \in Assignments, Len(s) < Len(c.rooms),
           NEW rank \in ProcessRanks
    PROVE  LET room == c.rooms[Len(s) + 1]
               candidates == eligibleProcesses(c, closed, s, room)
               x == IF candidates = {} THEN Unassigned ELSE chooseProcess(c, room, candidates, s, rank)
           IN  Assigning(c, closed, s, room, x) /\ distributeRoom(c, closed, s, rank) = Append(s, x)
<1> DEFINE room == c.rooms[Len(s) + 1]
           candidates == eligibleProcesses(c, closed, s, room)
           open == OpenIn(room.regionId, closed)
           x == IF candidates = {} THEN Unassigned ELSE chooseProcess(c, room, candidates, s, rank)
<1>1. distributeRoom(c, closed, s, rank) = Append(s, x)
  BY Zenon DEF distributeRoom
<1>2. Len(s) + 1 \in DOMAIN c.rooms
  BY DistributionTypes DEF Assignments
<1>3. room.regionId \in Regions /\ room.demandUnits \in Nat \ {0}
  BY <1>2, DistributionTypes
<1> HIDE DEF room
<1>4. candidates \subseteq open /\ candidates \in SUBSET Processes
      /\ \A p \in open : p \in candidates <=>
             processUnits(c, s, p) + room.demandUnits <= c.capacityUnitsPerProcess
  BY DEF eligibleProcesses, OpenIn
<1> HIDE DEF candidates, open
<1>5. candidates # {} =>
          /\ x \in candidates
          /\ c.policy = "round-robin" =>
                 RankIn(candidates, x) = roundRobinIndex(s, room.regionId) % Cardinality(candidates)
          /\ c.policy = "least-loaded" => \A q \in candidates : processUnits(c, s, x) <= processUnits(c, s, q)
  <2> SUFFICES ASSUME candidates # {}
               PROVE  /\ x \in candidates
                      /\ c.policy = "round-robin" =>
                             RankIn(candidates, x) = roundRobinIndex(s, room.regionId) % Cardinality(candidates)
                      /\ c.policy = "least-loaded" =>
                             \A q \in candidates : processUnits(c, s, x) <= processUnits(c, s, q)
    OBVIOUS
  <2>1. x = chooseProcess(c, room, candidates, s, rank)
    OBVIOUS
  <2> HIDE DEF x
  <2>2. QED
    BY <1>3, <1>4, <2>1, ChosenProcess
<1>6. candidates = {} => x = Unassigned
  OBVIOUS
<1> HIDE DEF x
<1>7. x = Unassigned \/ x \in candidates
  BY <1>5, <1>6
<1>8. x \in 0..12
  <2>1. Unassigned \in 0..12 /\ \A p \in Processes : p \in 0..12
    BY DEF Unassigned, Processes
  <2>2. QED
    BY <1>4, <1>7, <2>1, Zenon
<1>9. Assigning(c, closed, s, room, x)
  BY <1>3, <1>4, <1>5, <1>6, <1>7, <1>8, Zenon DEF Assigning, candidates, open
<1>10. QED
  BY <1>1, <1>9 DEF x, candidates, room

\* The rooms stay in turn.
LEMMA TurnsKept ==
    ASSUME NEW c \in DistributionSettings, NEW closed, NEW s \in Assignments, Len(s) < Len(c.rooms), NEW x,
           Assigning(c, closed, s, c.rooms[Len(s) + 1], x), InTurns(c, closed, s)
    PROVE  InTurns(c, closed, Append(s, x))
<1> DEFINE room == c.rooms[Len(s) + 1]
           d == room.demandUnits
           home == room.regionId
           candidates == eligibleProcesses(c, closed, s, room)
           t == Append(s, x)
           cap == c.capacityUnitsPerProcess
           open(r) == OpenIn(r, closed)
<1>1. /\ home \in Regions /\ d \in Nat \ {0} /\ candidates \subseteq open(home) /\ x \in 0..12
      /\ x = Unassigned \/ x \in candidates
      /\ candidates = {} => x = Unassigned
      /\ \A p \in open(home) : p \in candidates <=> processUnits(c, s, p) + d <= cap
      /\ candidates # {} /\ c.policy = "round-robin" =>
             RankIn(candidates, x) = roundRobinIndex(s, home) % Cardinality(candidates)
  BY Zenon DEF Assigning
<1> SUFFICES ASSUME c.policy = "round-robin", UnitsIn(c, DOMAIN t) <= cap,
                    NEW r \in Regions, NEW p \in open(r)
             PROVE  Cardinality(PlacesOf(t, p)) = Turns(roundRobinIndex(t, r), Cardinality(open(r)), RankIn(open(r), p))
  BY Zenon DEF InTurns
<1> HIDE DEF room, candidates, t
<1>2. /\ UnitsIn(c, DOMAIN s) \in Nat /\ UnitsIn(c, DOMAIN t) = UnitsIn(c, DOMAIN s) + d
      /\ \A q \in Processes : processUnits(c, s, q) \in Nat /\ processUnits(c, s, q) <= UnitsIn(c, DOMAIN s)
  BY <1>1, OneMoreAssigned DEF t, room
<1>3. cap \in Nat
  BY DistributionTypes
<1>4. \A v \in Regions : open(v) \in SUBSET Processes /\ open(v) \subseteq ProcessesOf(v)
  BY DEF OpenIn, ProcessesOf
<1> HIDE DEF open, d, home, cap
<1>5. UnitsIn(c, DOMAIN s) <= cap
  BY <1>1, <1>2, <1>3
<1>6. candidates = open(home)
  <2>1. ASSUME NEW q \in open(home) PROVE q \in candidates
    <3>1. q \in Processes
      BY <1>1, <1>4
    <3>2. processUnits(c, s, q) + d <= cap
      BY <1>1, <1>2, <1>3, <3>1
    <3>3. QED
      BY <1>1, <3>2
  <2>2. QED
    BY <1>1, <2>1
<1>7. Cardinality(PlacesOf(s, p)) = Turns(roundRobinIndex(s, r), Cardinality(open(r)), RankIn(open(r), p))
  BY <1>5, Zenon DEF InTurns, open, cap
<1>8. p \in Processes /\ p \in ProcessesOf(r) /\ p # 0
  BY <1>4 DEF Processes
<1>9. /\ Cardinality(PlacesOf(s, p)) \in Nat
      /\ Cardinality(PlacesOf(t, p)) = Cardinality(PlacesOf(s, p)) + (IF x = p THEN 1 ELSE 0)
  <2> DEFINE T == 0..12
  <2>1. s \in Seq(T) /\ x \in T
    BY <1>1 DEF Assignments
  <2> HIDE DEF T
  <2>2. /\ Cardinality(PlacesOf(s, p)) \in Nat
        /\ Cardinality(PlacesOf(Append(s, x), p)) = Cardinality(PlacesOf(s, p)) + (IF x = p THEN 1 ELSE 0)
    BY <2>1, OneMorePlace
  <2>3. QED
    BY <2>2 DEF t
<1>10. /\ roundRobinIndex(s, r) \in Nat
       /\ roundRobinIndex(t, r) = roundRobinIndex(s, r) + (IF x \in ProcessesOf(r) THEN 1 ELSE 0)
  BY <1>1, CursorCounts DEF t
<1>11. CASE x \in open(r)
  <2>1. x \in candidates /\ x \in ProcessesOf(home) /\ x \in ProcessesOf(r)
    <3>1. x # Unassigned
      BY <1>4, <1>11 DEF Processes, Unassigned
    <3>2. x \in candidates
      BY <1>1, <3>1
    <3>3. QED
      BY <1>1, <1>4, <1>11, <3>2
  <2>2. r = home
    BY <2>1 DEF ProcessesOf
  <2> DEFINE n == Cardinality(open(r))
             m == roundRobinIndex(s, r)
             k == RankIn(open(r), p)
  <2>3. open(r) \in SUBSET Nat /\ IsFiniteSet(open(r)) /\ open(r) # {}
    BY <1>4, <1>11, FewProcesses
  <2>4. /\ n \in Nat \ {0} /\ k \in 0..(n - 1)
        /\ \A u, v \in open(r) : RankIn(open(r), u) = RankIn(open(r), v) => u = v
    BY <2>3, Ranks
  <2>5. RankIn(open(r), x) = m % n
    BY <1>1, <1>6, <2>1, <2>2
  <2>6. k = m % n <=> x = p
    BY <1>11, <2>4, <2>5
  <2>7. m \in Nat
    BY <1>10
  <2> HIDE DEF n, m, k
  <2>8. Turns(m + 1, n, k) = Turns(m, n, k) + (IF k = m % n THEN 1 ELSE 0) /\ Turns(m, n, k) \in Nat
    BY <2>4, <2>7, OneMoreTurn
  <2>9. roundRobinIndex(t, r) = m + 1
    BY <1>10, <2>1 DEF m
  <2>10. Cardinality(PlacesOf(t, p)) = Turns(m, n, k) + (IF x = p THEN 1 ELSE 0)
    BY <1>7, <1>9 DEF m, n, k
  <2>11. Cardinality(PlacesOf(t, p)) = Turns(m + 1, n, k)
    BY <2>6, <2>8, <2>10
  <2>12. QED
    BY <2>9, <2>11 DEF n, k
<1>12. CASE x \notin open(r)
  <2>1. x # p
    BY <1>12
  <2>2. x \notin ProcessesOf(r)
    <3>1. SUFFICES ASSUME x \in ProcessesOf(r) PROVE FALSE
      OBVIOUS
    <3>2. x # Unassigned
      BY <3>1 DEF ProcessesOf, Processes, Unassigned
    <3>3. x \in open(home) /\ x \in ProcessesOf(home)
      BY <1>1, <1>4, <1>6, <3>2
    <3>4. r = home
      BY <3>1, <3>3 DEF ProcessesOf
    <3>5. QED
      BY <1>12, <3>3, <3>4
  <2>3. Cardinality(PlacesOf(t, p)) = Cardinality(PlacesOf(s, p)) /\ roundRobinIndex(t, r) = roundRobinIndex(s, r)
    BY <1>9, <1>10, <2>1, <2>2
  <2>4. QED
    BY <1>7, <2>3
<1>13. QED
  BY <1>11, <1>12 DEF open, t

\* The least loaded catches up, never leaving another behind by more than the room it gets.
LEMMA LevelKept ==
    ASSUME NEW c \in DistributionSettings, NEW closed, NEW s \in Assignments, Len(s) < Len(c.rooms), NEW x,
           Assigning(c, closed, s, c.rooms[Len(s) + 1], x), Levelled(c, closed, s)
    PROVE  Levelled(c, closed, Append(s, x))
<1> DEFINE new == Len(s) + 1
           room == c.rooms[new]
           d == room.demandUnits
           home == room.regionId
           candidates == eligibleProcesses(c, closed, s, room)
           t == Append(s, x)
           cap == c.capacityUnitsPerProcess
           open(r) == OpenIn(r, closed)
           old(v) == processUnits(c, s, v)
           now(v) == processUnits(c, t, v)
<1>1. /\ home \in Regions /\ d \in Nat \ {0} /\ candidates \subseteq open(home) /\ x \in 0..12
      /\ x = Unassigned \/ x \in candidates
      /\ candidates = {} => x = Unassigned
      /\ \A v \in open(home) : v \in candidates <=> old(v) + d <= cap
      /\ candidates # {} /\ c.policy = "least-loaded" => \A v \in candidates : old(x) <= old(v)
  BY Zenon DEF Assigning
<1> SUFFICES ASSUME c.policy = "least-loaded", NEW r \in Regions, NEW p \in open(r), NEW q \in open(r)
             PROVE  \/ now(p) <= now(q)
                    \/ \E i \in DOMAIN t : now(p) <= now(q) + c.rooms[i].demandUnits
  BY Zenon DEF Levelled
<1>2. \A v \in Processes : old(v) \in Nat /\ now(v) = old(v) + (IF x = v THEN d ELSE 0)
  BY <1>1, OneMoreAssigned
<1>3. old(p) <= old(q) \/ \E i \in DOMAIN s : old(p) <= old(q) + c.rooms[i].demandUnits
  BY Zenon DEF Levelled
<1>4. DOMAIN s = 1..Len(s) /\ DOMAIN t = 1..new /\ new \in DOMAIN t /\ DOMAIN s \subseteq DOMAIN t
      /\ \A i \in DOMAIN s : c.rooms[i].demandUnits \in Nat
  <2>1. s \in Seq(0..12) /\ Len(s) \in Nat /\ DOMAIN s = 1..Len(s) /\ DOMAIN t = 1..new
    BY <1>1 DEF Assignments
  <2>2. DOMAIN s \subseteq DOMAIN c.rooms
    BY <1>1, OneMoreAssigned
  <2>3. \A i \in DOMAIN s : c.rooms[i].demandUnits \in Nat
    BY <2>2, DistributionTypes
  <2>4. QED
    BY <2>1, <2>3
<1>5. cap \in Nat
  BY DistributionTypes
<1>6. \A v \in Regions : open(v) \in SUBSET Processes /\ \A u \in open(v) : regionOf(u) = v
  BY DEF OpenIn
<1>7. p \in Processes /\ q \in Processes /\ p # 0 /\ q # 0
  BY <1>6 DEF Processes
<1>8. \A i \in DOMAIN s : i \in DOMAIN t
  BY <1>4
<1>9. c.rooms[new].demandUnits = d /\ new \in DOMAIN t
  BY <1>4
<1> HIDE DEF candidates, open, d, home, cap, old, now, t, room
<1>10. CASE x # p
  <2>1. now(p) = old(p) /\ now(q) >= old(q) /\ old(p) \in Nat /\ old(q) \in Nat /\ now(q) \in Nat
    BY <1>1, <1>2, <1>7, <1>10
  <2>2. CASE old(p) <= old(q)
    BY <2>1, <2>2
  <2>3. CASE \E i \in DOMAIN s : old(p) <= old(q) + c.rooms[i].demandUnits
    <3>1. PICK i \in DOMAIN s : old(p) <= old(q) + c.rooms[i].demandUnits
      BY <2>3
    <3> DEFINE e == c.rooms[i].demandUnits
    <3>2. e \in Nat /\ old(p) <= old(q) + e
      BY <1>4, <3>1
    <3> HIDE DEF e
    <3>3. now(p) <= now(q) + e
      BY <2>1, <3>2
    <3>4. QED
      BY <1>8, <3>3 DEF e
  <2>4. QED
    BY <1>3, <2>2, <2>3
<1>11. CASE x = p /\ p # q
  <2>1. x \in candidates /\ candidates # {}
    BY <1>1, <1>7, <1>11 DEF Unassigned
  <2>2. r = home
    BY <1>1, <1>6, <1>11, <2>1
  <2>3. old(p) + d <= cap
    BY <1>1, <1>11, <2>1
  <2>4. now(p) = old(p) + d /\ now(q) = old(q) /\ old(p) \in Nat /\ old(q) \in Nat /\ d \in Nat
    BY <1>1, <1>2, <1>7, <1>11
  <2>5. now(p) <= now(q) + d
    <3>1. CASE q \in candidates
      <4>1. old(p) <= old(q)
        BY <1>1, <1>11, <2>1, <3>1
      <4>2. QED
        BY <2>4, <4>1
    <3>2. CASE q \notin candidates
      <4>1. ~(old(q) + d <= cap)
        BY <1>1, <2>2, <3>2
      <4>2. QED
        BY <1>5, <2>3, <2>4, <4>1
    <3>3. QED
      BY <3>1, <3>2
  <2>6. QED
    BY <1>9, <2>5
<1>12. CASE p = q
  <2>1. now(p) \in Nat
    BY <1>1, <1>2, <1>7
  <2>2. QED
    BY <1>12, <2>1
<1>13. QED
  BY <1>10, <1>11, <1>12

\* An assignment keeps what holds of a run.
LEMMA OneAssigned ==
    ASSUME NEW c \in DistributionSettings, NEW closed, NEW s \in Assignments, Len(s) < Len(c.rooms),
           NEW rank \in ProcessRanks,
           AssignedWithin(c, closed, s), AssignedHome(c, s), InTurns(c, closed, s), Levelled(c, closed, s)
    PROVE  LET t == distributeRoom(c, closed, s, rank)
           IN  /\ t \in Assignments /\ Len(t) = Len(s) + 1
               /\ AssignedWithin(c, closed, t) /\ AssignedHome(c, t) /\ InTurns(c, closed, t)
               /\ Levelled(c, closed, t)
               /\ AssignedAt(c, closed, t, Len(s) + 1, rank)
               /\ \A i \in DOMAIN s : t[i] = s[i]
               /\ \A i \in DOMAIN s : \A k \in ProcessRanks :
                      AssignedAt(c, closed, s, i, k) => AssignedAt(c, closed, t, i, k)
<1> DEFINE new == Len(s) + 1
           room == c.rooms[new]
           candidates == eligibleProcesses(c, closed, s, room)
           x == IF candidates = {} THEN Unassigned ELSE chooseProcess(c, room, candidates, s, rank)
           t == distributeRoom(c, closed, s, rank)
<1>1. Assigning(c, closed, s, room, x) /\ t = Append(s, x)
  BY AssignsOne
<1>2. s \in Seq(0..12) /\ Len(s) \in Nat /\ DOMAIN s = 1..Len(s) /\ new \in Nat
  BY DEF Assignments
<1>3. InTurns(c, closed, t) /\ Levelled(c, closed, t)
  <2> HIDE DEF x, t
  <2>1. InTurns(c, closed, Append(s, x)) /\ Levelled(c, closed, Append(s, x))
    BY <1>1, TurnsKept, LevelKept
  <2>2. QED
    BY <1>1, <2>1
<1> HIDE DEF t
<1>4. /\ room.demandUnits \in Nat \ {0} /\ candidates \subseteq OpenIn(room.regionId, closed) /\ x \in 0..12
      /\ x = Unassigned \/ x \in candidates
      /\ \A p \in OpenIn(room.regionId, closed) : p \in candidates <=>
             processUnits(c, s, p) + room.demandUnits <= c.capacityUnitsPerProcess
  BY <1>1, Zenon DEF Assigning
<1>5. AssignedAt(c, closed, t, new, rank) /\ \A i \in DOMAIN s : t[i] = s[i]
  <2>1. t[new] = x /\ \A i \in DOMAIN s : t[i] = s[i]
    <3> HIDE DEF x
    <3>1. QED
      BY <1>1, <1>2, <1>4
  <2>2. SubSeq(t, 1, new - 1) = s
    <3> HIDE DEF x
    <3>1. /\ SubSeq(t, 1, Len(s)) \in Seq(0..12) /\ Len(SubSeq(t, 1, Len(s))) = Len(s)
          /\ \A i \in 1..Len(s) : SubSeq(t, 1, Len(s))[i] = s[i]
      BY <1>1, <1>2, <1>4
    <3>2. SubSeq(t, 1, Len(s)) = s
      BY <1>2, <3>1, SeqEqual
    <3>3. new - 1 = Len(s)
      BY <1>2
    <3>4. QED
      BY <3>2, <3>3
  <2> HIDE DEF new
  <2>3. QED
    BY <2>1, <2>2 DEF AssignedAt
<1> HIDE DEF x, candidates, room
<1>6. \A m \in 0..Len(s) : SubSeq(t, 1, m) = SubSeq(s, 1, m)
  <2> SUFFICES ASSUME NEW m \in 0..Len(s) PROVE SubSeq(t, 1, m) = SubSeq(s, 1, m)
    OBVIOUS
  <2>1. /\ SubSeq(s, 1, m) \in Seq(0..12) /\ Len(SubSeq(s, 1, m)) = m /\ SubSeq(t, 1, m) \in Seq(0..12)
        /\ Len(SubSeq(t, 1, m)) = m /\ \A i \in 1..m : SubSeq(t, 1, m)[i] = SubSeq(s, 1, m)[i]
    BY <1>1, <1>2, <1>4
  <2>2. QED
    BY <2>1, SeqEqual
<1>7. ASSUME NEW i \in DOMAIN s, NEW k \in ProcessRanks, AssignedAt(c, closed, s, i, k)
      PROVE  AssignedAt(c, closed, t, i, k)
  <2>1. i - 1 \in 0..Len(s)
    BY <1>2
  <2>2. SubSeq(t, 1, i - 1) = SubSeq(s, 1, i - 1) /\ t[i] = s[i]
    BY <1>5, <1>6, <2>1
  <2>3. QED
    BY <1>7, <2>2, Zenon DEF AssignedAt
<1>8. t \in Seq(0..12) /\ Len(t) = new /\ DOMAIN t = 1..new /\ t[new] = x /\ \A i \in 1..Len(s) : t[i] = s[i]
  BY <1>1, <1>2, <1>4
<1>9. AssignedWithin(c, closed, t)
  <2> SUFFICES ASSUME NEW p \in Processes
               PROVE  processUnits(c, t, p) <= (IF hostOf(p) \in closed THEN 0 ELSE c.capacityUnitsPerProcess)
    BY DEF AssignedWithin
  <2>1. processUnits(c, s, p) \in Nat
        /\ processUnits(c, t, p) = processUnits(c, s, p) + (IF x = p THEN room.demandUnits ELSE 0)
    BY <1>1, <1>4, OneMoreAssigned DEF room
  <2>2. processUnits(c, s, p) <= (IF hostOf(p) \in closed THEN 0 ELSE c.capacityUnitsPerProcess)
    BY DEF AssignedWithin
  <2>3. CASE x = p
    <3>1. p # Unassigned
      BY DEF Processes, Unassigned
    <3>2. p \in candidates /\ p \in OpenIn(room.regionId, closed)
      BY <1>4, <2>3, <3>1
    <3>3. processUnits(c, s, p) + room.demandUnits <= c.capacityUnitsPerProcess /\ hostOf(p) \notin closed
      BY <1>4, <3>2 DEF OpenIn
    <3>4. QED
      BY <2>1, <2>3, <3>3
  <2>4. CASE x # p
    <3>1. processUnits(c, t, p) = processUnits(c, s, p)
      BY <2>1, <2>4
    <3>2. QED
      BY <2>2, <3>1
  <2>5. QED
    BY <2>3, <2>4
<1>10. AssignedHome(c, t)
  <2> SUFFICES ASSUME NEW i \in DOMAIN t, t[i] # Unassigned PROVE t[i] \in ProcessesOf(c.rooms[i].regionId)
    BY DEF AssignedHome
  <2>1. CASE i = new
    <3>1. x \in OpenIn(room.regionId, closed) /\ t[i] = x
      BY <1>4, <1>8, <2>1
    <3>2. QED
      BY <2>1, <3>1 DEF OpenIn, ProcessesOf, room
  <2>2. CASE i # new
    <3>1. i \in DOMAIN s /\ t[i] = s[i]
      BY <1>2, <1>8, <2>2
    <3>2. QED
      BY <3>1 DEF AssignedHome
  <2>3. QED
    BY <2>1, <2>2
<1>11. t \in Assignments
  BY <1>8 DEF Assignments
<1>12. QED
  BY <1>3, <1>5, <1>7, <1>8, <1>9, <1>10, <1>11 DEF t

\* What holds of a run.
RunHolds(c, closed, s) ==
    /\ AssignedWithin(c, closed, s) /\ AssignedHome(c, s)
    /\ InTurns(c, closed, s) /\ Levelled(c, closed, s)

FailedRegion(c) == (c.failedHostId + 1) \div 2

\* Where the two runs differ, the failed host's region is concerned.
ApartAtHome(c, s, t) == \A i \in DOMAIN s : s[i] # t[i] => c.rooms[i].regionId = FailedRegion(c)

LEMMA ElsewhereTheSame ==
    ASSUME NEW c \in DistributionSettings, NEW s \in Assignments, NEW t \in Assignments, Len(s) = Len(t),
           AssignedHome(c, s), AssignedHome(c, t), ApartAtHome(c, s, t),
           NEW r \in Regions, r # FailedRegion(c)
    PROVE  /\ \A p \in ProcessesOf(r) : processUnits(c, s, p) = processUnits(c, t, p)
           /\ roundRobinIndex(s, r) = roundRobinIndex(t, r)
<1>1. DOMAIN s = DOMAIN t
  BY DEF Assignments
<1>2. \A i \in DOMAIN s : (s[i] \in ProcessesOf(r) \/ t[i] \in ProcessesOf(r)) => s[i] = t[i]
  <2> SUFFICES ASSUME NEW i \in DOMAIN s, s[i] \in ProcessesOf(r) \/ t[i] \in ProcessesOf(r), s[i] # t[i]
               PROVE  FALSE
    OBVIOUS
  <2>1. c.rooms[i].regionId = FailedRegion(c)
    BY DEF ApartAtHome
  <2>2. \A v \in ProcessesOf(r) : v # Unassigned /\ \A q \in Regions : v \in ProcessesOf(q) => q = r
    BY DEF ProcessesOf, Processes, Unassigned
  <2>3. ASSUME NEW v \in ProcessesOf(r), v = s[i] \/ v = t[i] PROVE regionOf(v) = c.rooms[i].regionId
    BY <1>1, <2>2, <2>3 DEF AssignedHome, ProcessesOf
  <2>4. \A v \in ProcessesOf(r) : regionOf(v) = r
    BY DEF ProcessesOf
  <2>5. QED
    BY <2>1, <2>3, <2>4
<1>3. PlacesIn(s, ProcessesOf(r)) = PlacesIn(t, ProcessesOf(r))
  <2> DEFINE V == ProcessesOf(r)
  <2>1. \A i \in DOMAIN s : (s[i] \in V \/ t[i] \in V) => s[i] = t[i]
    BY <1>2
  <2> HIDE DEF V
  <2>2. PlacesIn(s, V) = PlacesIn(t, V)
    BY <1>1, <2>1 DEF PlacesIn
  <2>3. QED
    BY <2>2 DEF V
<1>4. ASSUME NEW p \in ProcessesOf(r) PROVE processUnits(c, s, p) = processUnits(c, t, p)
  <2>1. \A i \in DOMAIN s : s[i] = p <=> t[i] = p
    BY <1>2
  <2>2. PlacesOf(s, p) = PlacesOf(t, p)
    BY <1>1, <2>1 DEF PlacesOf
  <2>3. processUnits(c, s, p) = UnitsIn(c, PlacesOf(s, p)) /\ processUnits(c, t, p) = UnitsIn(c, PlacesOf(t, p))
    BY Zenon DEF processUnits, PlacesOf, UnitsIn
  <2>4. QED
    BY <2>2, <2>3, Zenon
<1>5. roundRobinIndex(s, r) = roundRobinIndex(t, r)
  <2>1. roundRobinIndex(s, r) = Cardinality(PlacesIn(s, ProcessesOf(r)))
        /\ roundRobinIndex(t, r) = Cardinality(PlacesIn(t, ProcessesOf(r)))
    BY CursorCounts
  <2>2. QED
    BY <1>3, <2>1, Zenon
<1>6. QED
  BY <1>4, <1>5

\* A room of another region goes to the same process in both runs.
LEMMA Undisturbed ==
    ASSUME NEW c \in DistributionSettings, NEW s \in Assignments, NEW t \in Assignments, Len(s) = Len(t),
           Len(s) < Len(c.rooms), NEW rank \in ProcessRanks,
           AssignedHome(c, s), AssignedHome(c, t), ApartAtHome(c, s, t)
    PROVE  LET a == distributeRoom(c, c.draining, s, rank)
               b == distributeRoom(c, ClosedHosts(c), t, rank)
           IN  ApartAtHome(c, a, b)
<1> DEFINE new == Len(s) + 1
           room == c.rooms[new]
           home == room.regionId
           S == eligibleProcesses(c, c.draining, s, room)
           T == eligibleProcesses(c, ClosedHosts(c), t, room)
           x == IF S = {} THEN Unassigned ELSE chooseProcess(c, room, S, s, rank)
           y == IF T = {} THEN Unassigned ELSE chooseProcess(c, room, T, t, rank)
           a == distributeRoom(c, c.draining, s, rank)
           b == distributeRoom(c, ClosedHosts(c), t, rank)
<1>1. s \in Seq(0..12) /\ t \in Seq(0..12) /\ Len(s) \in Nat /\ DOMAIN s = 1..Len(s) /\ DOMAIN t = 1..Len(s)
      /\ Len(t) < Len(c.rooms) /\ new \in DOMAIN c.rooms
  BY DistributionTypes DEF Assignments
<1>2. a = Append(s, x) /\ b = Append(t, y)
  BY Zenon DEF distributeRoom
<1>3. home \in Regions
  BY <1>1, DistributionTypes
<1>4. ASSUME home # FailedRegion(c) PROVE x = y
  <2>1. /\ \A p \in ProcessesOf(home) : processUnits(c, s, p) = processUnits(c, t, p)
        /\ roundRobinIndex(s, home) = roundRobinIndex(t, home)
    <3> HIDE DEF home
    <3>1. QED
      BY <1>3, <1>4, ElsewhereTheSame
  <2>2. \A p \in ProcessesOf(home) : hostOf(p) # c.failedHostId
    <3>1. \A p \in Processes : (hostOf(p) + 1) \div 2 = regionOf(p)
      BY SMT DEF Processes, hostOf, regionOf
    <3>2. QED
      BY <1>4, <3>1 DEF ProcessesOf, FailedRegion
  <2>3. \A p \in ProcessesOf(home) : hostOf(p) \in c.draining <=> hostOf(p) \in ClosedHosts(c)
    BY <2>2 DEF ClosedHosts
  <2>4. \A p \in Processes : p \in ProcessesOf(home) <=> regionOf(p) = home
    BY DEF ProcessesOf
  <2>5. S = T /\ S \in SUBSET Processes /\ S \subseteq ProcessesOf(home)
    <3> HIDE DEF home
    <3>1. S = {p \in Processes : regionOf(p) = home /\ hostOf(p) \notin c.draining
                                 /\ processUnits(c, s, p) + room.demandUnits <= c.capacityUnitsPerProcess}
          /\ T = {p \in Processes : regionOf(p) = home /\ hostOf(p) \notin ClosedHosts(c)
                                 /\ processUnits(c, t, p) + room.demandUnits <= c.capacityUnitsPerProcess}
      BY Zenon DEF eligibleProcesses, home
    <3> HIDE DEF S, T, room
    <3>2. QED
      BY <2>1, <2>3, <2>4, <3>1
  <2> HIDE DEF S, T
  <2>6. CASE S # {}
    <3>1. chooseProcess(c, room, S, s, rank) = chooseProcess(c, room, S, t, rank)
      <4>1. \A p \in S : processUnits(c, s, p) = processUnits(c, t, p)
        BY <2>1, <2>5
      <4>2. roundRobinIndex(s, room.regionId) = roundRobinIndex(t, room.regionId)
        BY <2>1
      <4> HIDE DEF room
      <4>3. QED
        BY <1>1, <2>5, <2>6, <4>1, <4>2, SameChoice
    <3>2. QED
      BY <2>5, <3>1, Zenon
  <2>7. CASE S = {}
    BY <2>5, <2>7
  <2>8. QED
    BY <2>6, <2>7
<1>5. x \in 0..12 /\ y \in 0..12
  <2>1. Assigning(c, c.draining, s, room, x)
    BY AssignsOne
  <2>2. Assigning(c, ClosedHosts(c), t, room, y)
    BY <1>1, AssignsOne
  <2> HIDE DEF x, y
  <2>3. QED
    BY <2>1, <2>2, Zenon DEF Assigning
<1> HIDE DEF x, y, a, b
<1>6. /\ DOMAIN a = 1..new /\ a[new] = x /\ b[new] = y
      /\ \A i \in 1..Len(s) : a[i] = s[i] /\ b[i] = t[i]
  BY <1>1, <1>2, <1>5
<1>7. ASSUME NEW i \in DOMAIN a, a[i] # b[i] PROVE c.rooms[i].regionId = FailedRegion(c)
  <2>1. CASE i = new
    BY <1>4, <1>6, <1>7, <2>1
  <2>2. CASE i # new
    <3>1. i \in 1..Len(s)
      BY <1>1, <1>6, <2>2
    <3>2. QED
      BY <1>1, <1>6, <1>7, <3>1 DEF ApartAtHome
  <2>3. QED
    BY <2>1, <2>2
<1>8. QED
  BY <1>7 DEF ApartAtHome, a, b

\* The two runs keep step, and assign a room by the same hash.
ServersInv ==
    LET c == distribution.config
        s == distribution.baseline
        t == distribution.failure
    IN  /\ c \in DistributionSettings
        /\ distribution = [config |-> c, baseline |-> s, failure |-> t]
        /\ s \in Assignments /\ t \in Assignments /\ Len(s) = Len(t) /\ Len(s) <= Len(c.rooms)
        /\ RunHolds(c, c.draining, s) /\ RunHolds(c, ClosedHosts(c), t)
        /\ ApartAtHome(c, s, t)
        /\ \A i \in DOMAIN s : \E rank \in ProcessRanks :
               AssignedAt(c, c.draining, s, i, rank) /\ AssignedAt(c, ClosedHosts(c), t, i, rank)

LEMMA NothingHolds ==
    ASSUME NEW c \in DistributionSettings, NEW closed
    PROVE  RunHolds(c, closed, <<>>)
<1>1. /\ <<>> \in Assignments
      /\ \A p \in Processes : processUnits(c, <<>>, p) = 0 /\ PlacesOf(<<>>, p) = {}
      /\ \A r \in Regions : roundRobinIndex(<<>>, r) = 0
  BY NothingAssigned
<1>2. c.capacityUnitsPerProcess \in Nat /\ DOMAIN <<>> = {}
  BY DistributionTypes
<1>3. AssignedWithin(c, closed, <<>>)
  BY <1>1, <1>2 DEF AssignedWithin
<1>4. AssignedHome(c, <<>>)
  BY <1>2 DEF AssignedHome
<1>5. \A r \in Regions : OpenIn(r, closed) \in SUBSET Processes
  BY DEF OpenIn
<1>6. InTurns(c, closed, <<>>)
  <2> SUFFICES ASSUME NEW r \in Regions, NEW p \in OpenIn(r, closed)
               PROVE  Cardinality(PlacesOf(<<>>, p))
                          = Turns(roundRobinIndex(<<>>, r), Cardinality(OpenIn(r, closed)), RankIn(OpenIn(r, closed), p))
    BY DEF InTurns
  <2> DEFINE open == OpenIn(r, closed)
             n == Cardinality(open)
             k == RankIn(open, p)
  <2>1. open \in SUBSET Nat /\ IsFiniteSet(open) /\ p \in open /\ open # {} /\ p \in Processes
    BY <1>5, FewProcesses
  <2>2. n \in Nat \ {0} /\ k \in 0..(n - 1)
    <3> HIDE DEF open
    <3>1. QED
      BY <2>1, Ranks
  <2> DEFINE m == 0
  <2>3. m \in Nat /\ roundRobinIndex(<<>>, r) = m
    BY <1>1
  <2>4. Cardinality(PlacesOf(<<>>, p)) = 0
    BY <1>1, <2>1, FS_EmptySet
  <2>5. Turns(0, n, k) = 0
    <3> HIDE DEF n, k
    <3>1. QED
      BY <2>2, <2>3, OneMoreTurn
  <2> HIDE DEF n, k, open
  <2>6. QED
    BY <2>3, <2>4, <2>5 DEF n, k, open
<1>7. Levelled(c, closed, <<>>)
  BY <1>1, <1>5 DEF Levelled
<1>8. QED
  BY <1>3, <1>4, <1>6, <1>7 DEF RunHolds

LEMMA InitServers == distribution \in {DistributionOf(c) : c \in DistributionSettings} => ServersInv
<1> SUFFICES ASSUME NEW c \in DistributionSettings, distribution = DistributionOf(c) PROVE ServersInv
  OBVIOUS
<1>1. distribution.config = c /\ distribution.baseline = <<>> /\ distribution.failure = <<>>
      /\ distribution = [config |-> c, baseline |-> <<>>, failure |-> <<>>]
  BY DEF DistributionOf
<1>2. RunHolds(c, c.draining, <<>>) /\ RunHolds(c, ClosedHosts(c), <<>>)
  BY NothingHolds
<1>3. <<>> \in Assignments /\ DOMAIN <<>> = {} /\ Len(<<>>) = 0 /\ Len(<<>>) <= Len(c.rooms)
  BY DistributionTypes DEF Assignments
<1>4. ApartAtHome(c, <<>>, <<>>)
  BY DEF ApartAtHome
<1>5. QED
  BY <1>1, <1>2, <1>3, <1>4 DEF ServersInv

LEMMA NextServers == ServersInv /\ [AssignRoom]_distribution => ServersInv'
<1> SUFFICES ASSUME ServersInv, [AssignRoom]_distribution PROVE ServersInv'
  OBVIOUS
<1>1. CASE AssignRoom
  <2> DEFINE c == distribution.config
             s == distribution.baseline
             t == distribution.failure
  <2>1. /\ c \in DistributionSettings
        /\ distribution = [config |-> c, baseline |-> s, failure |-> t]
        /\ s \in Assignments /\ t \in Assignments /\ Len(s) = Len(t) /\ Len(s) <= Len(c.rooms)
        /\ RunHolds(c, c.draining, s) /\ RunHolds(c, ClosedHosts(c), t)
        /\ ApartAtHome(c, s, t)
        /\ \A i \in DOMAIN s : \E rank \in ProcessRanks :
               AssignedAt(c, c.draining, s, i, rank) /\ AssignedAt(c, ClosedHosts(c), t, i, rank)
    BY DEF ServersInv
  <2>2. PICK order \in [1..4 -> 1..4] :
            LET rank == [p \in Processes |-> order[((p - 1) % 4) + 1]]
            IN  distribution' = [distribution EXCEPT
                    !.baseline = distributeRoom(c, c.draining, s, rank),
                    !.failure = distributeRoom(c, ClosedHosts(c), t, rank)]
    BY <1>1 DEF AssignRoom
  <2> DEFINE rank == [p \in Processes |-> order[((p - 1) % 4) + 1]]
             a == distributeRoom(c, c.draining, s, rank)
             b == distributeRoom(c, ClosedHosts(c), t, rank)
  <2>3. rank \in ProcessRanks
    <3>1. \A p \in Processes : ((p - 1) % 4) + 1 \in 1..4
      BY DEF Processes
    <3>2. \A p \in Processes : order[((p - 1) % 4) + 1] \in 1..4
      BY <3>1
    <3>3. QED
      BY <3>2 DEF ProcessRanks
  <2>4. Len(s) < Len(c.rooms) /\ Len(t) < Len(c.rooms)
    BY <1>1, <2>1 DEF AssignRoom
  <2>5. distribution' = [distribution EXCEPT !.baseline = a, !.failure = b]
    BY <2>2
  <2> HIDE DEF c, s, t, rank
  <2>6. /\ a \in Assignments /\ Len(a) = Len(s) + 1 /\ RunHolds(c, c.draining, a)
        /\ AssignedAt(c, c.draining, a, Len(s) + 1, rank)
        /\ \A i \in DOMAIN s : \A k \in ProcessRanks :
               AssignedAt(c, c.draining, s, i, k) => AssignedAt(c, c.draining, a, i, k)
    BY <2>1, <2>3, <2>4, OneAssigned DEF RunHolds
  <2>7. /\ b \in Assignments /\ Len(b) = Len(t) + 1 /\ RunHolds(c, ClosedHosts(c), b)
        /\ AssignedAt(c, ClosedHosts(c), b, Len(t) + 1, rank)
        /\ \A i \in DOMAIN t : \A k \in ProcessRanks :
               AssignedAt(c, ClosedHosts(c), t, i, k) => AssignedAt(c, ClosedHosts(c), b, i, k)
    BY <2>1, <2>3, <2>4, OneAssigned DEF RunHolds
  <2>8. ApartAtHome(c, a, b)
    BY <2>1, <2>3, <2>4, Undisturbed DEF RunHolds
  <2> HIDE DEF a, b
  <2>9. distribution'.config = c /\ distribution'.baseline = a /\ distribution'.failure = b
        /\ distribution' = [config |-> c, baseline |-> a, failure |-> b]
    BY <2>1, <2>5
  <2>10. /\ Len(s) \in Nat /\ DOMAIN s = 1..Len(s) /\ DOMAIN t = 1..Len(s) /\ DOMAIN a = 1..(Len(s) + 1)
         /\ Len(s) + 1 <= Len(c.rooms)
    BY <2>1, <2>4, <2>6, DistributionTypes DEF Assignments
  <2>11. ASSUME NEW i \in DOMAIN a
         PROVE  \E k \in ProcessRanks :
                    AssignedAt(c, c.draining, a, i, k) /\ AssignedAt(c, ClosedHosts(c), b, i, k)
    <3>1. CASE i = Len(s) + 1
      <4>1. AssignedAt(c, c.draining, a, i, rank) /\ AssignedAt(c, ClosedHosts(c), b, i, rank)
        BY <2>1, <2>6, <2>7, <3>1
      <4>2. QED
        BY <2>3, <4>1
    <3>2. CASE i # Len(s) + 1
      <4>1. i \in DOMAIN s /\ i \in DOMAIN t
        BY <2>10, <3>2
      <4>2. QED
        BY <2>1, <2>6, <2>7, <4>1
    <3>3. QED
      BY <3>1, <3>2
  <2>12. QED
    BY <2>1, <2>6, <2>7, <2>8, <2>9, <2>10, <2>11 DEF ServersInv
<1>2. CASE UNCHANGED distribution
  BY <1>2, Zenon DEF ServersInv
<1>3. QED
  BY <1>1, <1>2

LEMMA NoneForOthers ==
    ASSUME NEW c \in DistributionSettings, NEW s \in Assignments, Len(s) < Len(c.rooms),
           NEW x \in 0..12, NEW p \in Processes, x # p
    PROVE  processUnits(c, Append(s, x), p) = processUnits(c, s, p)
<1>1. /\ processUnits(c, s, p) \in Nat
      /\ processUnits(c, Append(s, x), p)
             = processUnits(c, s, p) + (IF x = p THEN c.rooms[Len(s) + 1].demandUnits ELSE 0)
  BY OneMoreAssigned
<1>2. QED
  BY <1>1

LEMMA UnitsNatural ==
    ASSUME NEW c \in DistributionSettings, NEW s \in Assignments, Len(s) <= Len(c.rooms), NEW p \in Processes
    PROVE  processUnits(c, s, p) \in Nat
<1> DEFINE W == PlacesOf(s, p)
           g == RoomUnits(c)
<1>1. s \in Seq(0..12) /\ Len(s) \in Nat /\ DOMAIN s = 1..Len(s) /\ DOMAIN s \subseteq DOMAIN c.rooms
  BY DistributionTypes DEF Assignments
<1>2. W \subseteq DOMAIN s /\ IsFiniteSet(1..Len(s))
  BY <1>1, FS_Interval DEF PlacesOf
<1>3. processUnits(c, s, p) = UnitsIn(c, W)
  BY Zenon DEF processUnits, PlacesOf, UnitsIn
<1> HIDE DEF W, g
<1>4. IsFiniteSet(W) /\ W \subseteq DOMAIN c.rooms
  BY <1>1, <1>2, FS_Subset
<1>5. UnitsIn(c, W) = Total(g, W)
  BY <1>4, RoomUnitsAddUp DEF g
<1>6. \A y \in W : g[y] \in Nat
  BY <1>4, DistributionTypes DEF g
<1>7. Total(g, W) \in Nat
  BY <1>4, <1>6, TotalGrows
<1>8. QED
  BY <1>3, <1>5, <1>7, Zenon

\* What a process has when a room comes, with the room, is within what there is in all.
LEMMA AssignedWithinTotal ==
    ASSUME NEW c \in DistributionSettings, NEW s \in Assignments, Len(s) <= Len(c.rooms),
           NEW i \in DOMAIN s, NEW p \in Processes
    PROVE  LET before == SubSeq(s, 1, i - 1)
               d == c.rooms[i].demandUnits
           IN  /\ i \in Nat /\ before \in Assignments /\ Len(before) + 1 = i /\ Len(before) < Len(c.rooms)
               /\ SubSeq(s, 1, i) = Append(before, s[i]) /\ s[i] \in 0..12
               /\ d \in Nat \ {0} /\ c.rooms[i].regionId \in Regions
               /\ processUnits(c, before, p) \in Nat /\ UnitsIn(c, DOMAIN s) \in Nat
               /\ processUnits(c, before, p) + d <= UnitsIn(c, DOMAIN s)
<1> DEFINE n == Len(s)
           before == SubSeq(s, 1, i - 1)
           d == c.rooms[i].demandUnits
           W == PlacesOf(before, p)
           D == 1..n
           g == RoomUnits(c)
<1>1. s \in Seq(0..12) /\ n \in Nat /\ DOMAIN s = 1..n /\ i \in 1..n /\ i \in Nat /\ s[i] \in 0..12
  BY DEF Assignments
<1>2. before \in Seq(0..12) /\ Len(before) = i - 1 /\ DOMAIN before = 1..(i - 1)
  BY <1>1, SMTT(30)
<1>3. i \in DOMAIN c.rooms /\ D \subseteq DOMAIN c.rooms /\ Len(before) < Len(c.rooms)
  BY <1>1, <1>2, DistributionTypes
<1>4. SubSeq(s, 1, i) = Append(before, s[i])
  <2>1. i - 1 \in Nat /\ i - 1 < n /\ (i - 1) + 1 = i
    BY <1>1
  <2>2. SubSeq(s, 1, (i - 1) + 1) = Append(SubSeq(s, 1, i - 1), s[(i - 1) + 1])
    BY <1>1, <2>1, OneMoreTaken
  <2>3. QED
    BY <2>1, <2>2
<1>5. d \in Nat \ {0} /\ c.rooms[i].regionId \in Regions /\ g[i] = d
      /\ \A j \in DOMAIN c.rooms : g[j] \in Nat /\ g[j] \in Int
  BY <1>3, DistributionTypes
<1>6. W \subseteq 1..(i - 1)
  BY <1>2 DEF PlacesOf
<1>7. IsFiniteSet(D)
  BY <1>1, FS_Interval
<1>8. W \cup {i} \subseteq D /\ i \notin W /\ W \subseteq D
  BY <1>1, <1>6
<1>9. processUnits(c, before, p) = UnitsIn(c, W)
  BY Zenon DEF processUnits, PlacesOf, UnitsIn
<1>10. UnitsIn(c, DOMAIN s) = UnitsIn(c, D)
  BY <1>1, Zenon
<1> HIDE DEF W, D, before, n, g, d
<1>11. IsFiniteSet(W) /\ W \subseteq DOMAIN c.rooms
  BY <1>3, <1>7, <1>8, FS_Subset
<1>12. UnitsIn(c, W) = Total(g, W) /\ UnitsIn(c, D) = Total(g, D)
  BY <1>3, <1>7, <1>11, RoomUnitsAddUp DEF g
<1>13. Total(g, W \cup {i}) = Total(g, W) + g[i]
  <2>1. \A y \in W \cup {i} : g[y] \in Int
    BY <1>3, <1>5, <1>11
  <2>2. QED
    BY <1>8, <1>11, <2>1, TotalOfMore
<1>14. Total(g, W \cup {i}) <= Total(g, D) /\ Total(g, D) \in Nat
  <2>1. \A y \in D : g[y] \in Nat
    BY <1>3, <1>5
  <2>2. QED
    BY <1>7, <1>8, <2>1, TotalGrows
<1>15. Total(g, W) \in Nat
  <2>1. \A y \in D : g[y] \in Nat
    BY <1>3, <1>5
  <2>2. QED
    BY <1>7, <1>8, <2>1, TotalGrows
<1>16. /\ processUnits(c, before, p) \in Nat /\ UnitsIn(c, DOMAIN s) \in Nat
       /\ processUnits(c, before, p) + d <= UnitsIn(c, DOMAIN s)
  BY <1>5, <1>9, <1>10, <1>12, <1>13, <1>14, <1>15
<1>17. before \in Assignments /\ Len(before) + 1 = i
  BY <1>1, <1>2 DEF Assignments
<1>18. QED
  BY <1>1, <1>3, <1>4, <1>5, <1>16, <1>17 DEF before, d

\* Where a run puts its rooms.
LEMMA RunStaysHome ==
    ASSUME distribution.config \in DistributionSettings, NEW closed, NEW s \in Assignments,
           Len(s) <= Len(distribution.config.rooms), RunHolds(distribution.config, closed, s),
           \A i \in DOMAIN s : \E rank \in ProcessRanks : AssignedAt(distribution.config, closed, s, i, rank)
    PROVE  InItsRegion(s, closed)
<1> DEFINE c == distribution.config
           cap == c.capacityUnitsPerProcess
<1> HIDE DEF c
<1>1. c \in DistributionSettings /\ Len(s) <= Len(c.rooms) /\ AssignedWithin(c, closed, s) /\ AssignedHome(c, s)
      /\ \A i \in DOMAIN s : \E rank \in ProcessRanks : AssignedAt(c, closed, s, i, rank)
  BY DEF c, RunHolds
<1>2. \A p \in Processes : processUnits(c, s, p) <= (IF hostOf(p) \in closed THEN 0 ELSE cap)
  BY <1>1 DEF AssignedWithin
<1>3. \A i \in DOMAIN s : s[i] # Unassigned => regionOf(s[i]) = c.rooms[i].regionId
  BY <1>1 DEF AssignedHome, ProcessesOf
<1>4. ASSUME NEW i \in DOMAIN s, s[i] = Unassigned, NEW p \in Processes,
             hostOf(p) \notin closed, regionOf(p) = c.rooms[i].regionId
      PROVE  processUnits(c, SubSeq(s, 1, i), p) + c.rooms[i].demandUnits > cap
  <2> DEFINE before == SubSeq(s, 1, i - 1)
             room == c.rooms[i]
             d == room.demandUnits
             S == eligibleProcesses(c, closed, before, room)
  <2>1. /\ i \in Nat /\ before \in Assignments /\ Len(before) + 1 = i /\ Len(before) < Len(c.rooms)
        /\ SubSeq(s, 1, i) = Append(before, s[i]) /\ s[i] \in 0..12
        /\ d \in Nat \ {0} /\ room.regionId \in Regions /\ processUnits(c, before, p) \in Nat
    BY <1>1, AssignedWithinTotal, ZenonT(60)
  <2>2. PICK rank \in ProcessRanks : AssignedAt(c, closed, s, i, rank)
    BY <1>1
  <2>3. s[i] = IF S = {} THEN Unassigned ELSE chooseProcess(c, room, S, before, rank)
    BY <2>2, Zenon DEF AssignedAt
  <2>4. S \in SUBSET Processes
    BY DEF eligibleProcesses
  <2>5. ~(processUnits(c, before, p) + d <= cap)
    <3>1. SUFFICES ASSUME processUnits(c, before, p) + d <= cap PROVE FALSE
      OBVIOUS
    <3>2. p \in S
      BY <1>4, <3>1 DEF eligibleProcesses
    <3> HIDE DEF before, S, room
    <3>3. s[i] = chooseProcess(c, room, S, before, rank) /\ S # {}
      BY <2>3, <3>2
    <3>4. chooseProcess(c, room, S, before, rank) \in S
      BY <1>1, <2>1, <2>4, <3>3, ChosenProcess
    <3>5. Unassigned \in Processes
      BY <1>4, <2>4, <3>3, <3>4
    <3>6. QED
      BY <3>5 DEF Unassigned, Processes
  <2>6. s[i] # p
    BY <1>4 DEF Unassigned, Processes
  <2>7. processUnits(c, Append(before, s[i]), p) = processUnits(c, before, p)
    <3> DEFINE v == s[i]
    <3>1. before \in Assignments /\ Len(before) < Len(c.rooms) /\ v \in 0..12 /\ c \in DistributionSettings /\ v # p
      BY <1>1, <2>1, <2>6
    <3> HIDE DEF before, room, S, d, v
    <3>2. processUnits(c, Append(before, v), p) = processUnits(c, before, p)
      BY <3>1, NoneForOthers
    <3>3. QED
      BY <3>2 DEF v
  <2>8. processUnits(c, SubSeq(s, 1, i), p) = processUnits(c, Append(before, s[i]), p)
    BY <2>1, Zenon
  <2>9. cap \in Nat
    BY <1>1, DistributionTypes
  <2> HIDE DEF before, d, room, cap, S
  <2>10. processUnits(c, SubSeq(s, 1, i), p) = processUnits(c, before, p)
    BY <2>7, <2>8
  <2>11. processUnits(c, SubSeq(s, 1, i), p) + d > cap
    BY <2>1, <2>5, <2>9, <2>10
  <2>12. QED
    BY <2>11 DEF d, room
<1>5. QED
  BY <1>2, <1>3, <1>4, Zenon DEF InItsRegion, c, cap

\* What the rooms assigned ask for.
DemandsOf(c, s) == {c.rooms[i].demandUnits : i \in DOMAIN s}

\* How a run shares the load.
LEMMA RunShares ==
    ASSUME distribution.config \in DistributionSettings, NEW closed, NEW s \in Assignments,
           Len(s) <= Len(distribution.config.rooms), RunHolds(distribution.config, closed, s)
    PROVE  Shared(s, closed)
<1> DEFINE c == distribution.config
           total == UnitsIn(c, DOMAIN s)
           demands == DemandsOf(c, s)
           rooms(p) == Cardinality(PlacesOf(s, p))
           open(r) == OpenIn(r, closed)
<1> HIDE DEF c
<1>1. c \in DistributionSettings /\ Len(s) <= Len(c.rooms) /\ InTurns(c, closed, s) /\ Levelled(c, closed, s)
  BY DEF c, RunHolds
<1>2. \A r \in Regions : open(r) \in SUBSET Processes
  BY DEF OpenIn
<1>3. ASSUME c.policy = "round-robin", total <= c.capacityUnitsPerProcess,
             NEW r \in Regions, NEW p \in open(r), NEW q \in open(r)
      PROVE  rooms(p) <= rooms(q) + 1
  <2> DEFINE n == Cardinality(open(r))
             m == roundRobinIndex(s, r)
             k == RankIn(open(r), p)
             l == RankIn(open(r), q)
  <2>1. rooms(p) = Turns(m, n, k) /\ rooms(q) = Turns(m, n, l)
    BY <1>1, <1>3, Zenon DEF InTurns
  <2>2. open(r) \in SUBSET Nat /\ IsFiniteSet(open(r)) /\ open(r) # {} /\ m \in Nat
    BY <1>2, <1>3, FewProcesses, CursorCounts
  <2> HIDE DEF open
  <2>3. n \in Nat \ {0} /\ k \in 0..(n - 1) /\ l \in 0..(n - 1)
    BY <1>3, <2>2, Ranks
  <2> HIDE DEF n, m, k, l
  <2>4. Turns(m, n, k) <= Turns(m, n, l) + 1
    BY <2>2, <2>3, OneMoreTurn
  <2> HIDE DEF rooms
  <2>5. QED
    BY <2>1, <2>4
<1>4. ASSUME c.policy = "least-loaded", NEW r \in Regions, NEW p \in open(r), NEW q \in open(r), demands # {}
      PROVE  processUnits(c, s, p) <= processUnits(c, s, q) + Max(demands)
  <2>1. \A i \in DOMAIN s : \A v \in Processes :
            /\ c.rooms[i].demandUnits \in Nat /\ UnitsIn(c, DOMAIN s) \in Nat
            /\ c.rooms[i].demandUnits <= UnitsIn(c, DOMAIN s)
    <3> SUFFICES ASSUME NEW i \in DOMAIN s, NEW v \in Processes
                 PROVE  /\ c.rooms[i].demandUnits \in Nat /\ UnitsIn(c, DOMAIN s) \in Nat
                        /\ c.rooms[i].demandUnits <= UnitsIn(c, DOMAIN s)
      OBVIOUS
    <3> DEFINE u == processUnits(c, SubSeq(s, 1, i - 1), v)
               d == c.rooms[i].demandUnits
    <3>1. d \in Nat /\ u \in Nat /\ total \in Nat /\ u + d <= total
      BY <1>1, AssignedWithinTotal
    <3> HIDE DEF u, d, total
    <3>2. d \in Nat /\ total \in Nat /\ d <= total
      BY <3>1
    <3>3. QED
      BY <3>2 DEF d, total
  <2>2. p \in Processes /\ q \in Processes
    BY <1>2, <1>4
  <2>3. demands \in SUBSET Nat /\ total \in Nat /\ \A x \in demands : x <= total
    BY <1>4, <2>1, <2>2 DEF DemandsOf
  <2>4. \A i \in DOMAIN s : c.rooms[i].demandUnits \in demands
    BY DEF DemandsOf
  <2> HIDE DEF demands, total
  <2>5. Max(demands) \in Nat /\ \A x \in demands : x <= Max(demands)
    BY <1>4, <2>3, LargestIsMax
  <2>6. processUnits(c, s, p) \in Nat /\ processUnits(c, s, q) \in Nat
    <3>1. \A v \in Processes : processUnits(c, s, v) \in Nat
      BY <1>1, UnitsNatural
    <3>2. QED
      BY <2>2, <3>1
  <2>7. \/ processUnits(c, s, p) <= processUnits(c, s, q)
        \/ \E i \in DOMAIN s : processUnits(c, s, p) <= processUnits(c, s, q) + c.rooms[i].demandUnits
    BY <1>1, <1>4, Zenon DEF Levelled
  <2>8. CASE processUnits(c, s, p) <= processUnits(c, s, q)
    BY <2>5, <2>6, <2>8
  <2>9. CASE \E i \in DOMAIN s : processUnits(c, s, p) <= processUnits(c, s, q) + c.rooms[i].demandUnits
    <3>1. PICK i \in DOMAIN s : processUnits(c, s, p) <= processUnits(c, s, q) + c.rooms[i].demandUnits
      BY <2>9
    <3> DEFINE d == c.rooms[i].demandUnits
    <3>2. d \in demands /\ processUnits(c, s, p) <= processUnits(c, s, q) + d
      BY <2>4, <3>1
    <3> HIDE DEF d
    <3>3. d \in Nat /\ d <= Max(demands)
      BY <2>3, <2>5, <3>2
    <3>4. QED
      BY <2>5, <2>6, <3>2, <3>3
  <2>10. QED
    BY <2>7, <2>8, <2>9
<1>5. \A r \in Regions :
          /\ c.policy = "round-robin" /\ total <= c.capacityUnitsPerProcess => \A p, q \in open(r) : rooms(p) <= rooms(q) + 1
          /\ c.policy = "least-loaded" => \A p, q \in open(r) :
                 demands = {} \/ processUnits(c, s, p) <= processUnits(c, s, q) + Max(demands)
  BY <1>3, <1>4, Zenon
<1>6. QED
  BY <1>5, Zenon DEF Shared, Even, OpenIn, UnitsIn, DemandsOf, PlacesOf, c

\* A hashed room whose host did not fail stays where it was, if it would fit anywhere.
LEMMA HashStays ==
    ASSUME ServersInv, NEW i \in DOMAIN distribution.baseline,
           distribution.config.policy = "rendezvous",
           UnitsIn(distribution.config, DOMAIN distribution.baseline)
               <= distribution.config.capacityUnitsPerProcess,
           distribution.baseline[i] # Unassigned,
           hostOf(distribution.baseline[i]) # distribution.config.failedHostId
    PROVE  distribution.failure[i] = distribution.baseline[i]
<1> DEFINE c == distribution.config
           s == distribution.baseline
           t == distribution.failure
           cap == c.capacityUnitsPerProcess
           room == c.rooms[i]
           home == room.regionId
           early == SubSeq(s, 1, i - 1)
           late == SubSeq(t, 1, i - 1)
           wide == eligibleProcesses(c, c.draining, early, room)
           narrow == eligibleProcesses(c, ClosedHosts(c), late, room)
<1>1. /\ c \in DistributionSettings /\ s \in Assignments /\ t \in Assignments
      /\ Len(s) = Len(t) /\ Len(s) <= Len(c.rooms)
      /\ \E rank \in ProcessRanks :
             AssignedAt(c, c.draining, s, i, rank) /\ AssignedAt(c, ClosedHosts(c), t, i, rank)
  BY DEF ServersInv
<1>2. PICK rank \in ProcessRanks :
          AssignedAt(c, c.draining, s, i, rank) /\ AssignedAt(c, ClosedHosts(c), t, i, rank)
  BY <1>1
<1>3. /\ c.policy = "rendezvous" /\ UnitsIn(c, DOMAIN s) <= cap
      /\ s[i] # Unassigned /\ hostOf(s[i]) # c.failedHostId
  OBVIOUS
<1>4. /\ s[i] = IF wide = {} THEN Unassigned ELSE chooseProcess(c, room, wide, early, rank)
      /\ t[i] = IF narrow = {} THEN Unassigned ELSE chooseProcess(c, room, narrow, late, rank)
  BY <1>2, Zenon DEF AssignedAt
<1> HIDE DEF c, s, t
<1>5. i \in DOMAIN s /\ i \in DOMAIN t /\ DOMAIN s = DOMAIN t /\ Len(t) <= Len(c.rooms)
  BY <1>1 DEF Assignments, s
<1>6. ASSUME NEW p \in Processes
      PROVE  /\ processUnits(c, early, p) + room.demandUnits <= cap
             /\ processUnits(c, late, p) + room.demandUnits <= cap
             /\ early \in Assignments /\ Len(early) < Len(c.rooms) /\ home \in Regions
             /\ late \in Assignments /\ Len(late) < Len(c.rooms)
  <2> DEFINE d == room.demandUnits
             u == processUnits(c, early, p)
             v == processUnits(c, late, p)
             total == UnitsIn(c, DOMAIN s)
  <2>1. /\ early \in Assignments /\ Len(early) < Len(c.rooms) /\ home \in Regions
        /\ u \in Nat /\ d \in Nat \ {0} /\ total \in Nat /\ u + d <= total
    BY <1>1, <1>5, AssignedWithinTotal
  <2>2. late \in Assignments /\ Len(late) < Len(c.rooms) /\ v \in Nat /\ v + d <= UnitsIn(c, DOMAIN t)
    BY <1>1, <1>5, AssignedWithinTotal
  <2>3. UnitsIn(c, DOMAIN t) = total
    BY <1>5, Zenon
  <2>4. cap \in Nat /\ total <= cap
    BY <1>1, <1>3, DistributionTypes
  <2> HIDE DEF d, u, v, total, cap
  <2>5. u + d <= cap /\ v + d <= cap
    BY <2>1, <2>2, <2>3, <2>4
  <2>6. QED
    BY <2>1, <2>2, <2>5 DEF u, v, d
<1>7. early \in Assignments /\ Len(early) < Len(c.rooms) /\ late \in Assignments /\ Len(late) < Len(c.rooms)
      /\ home \in Regions
  <2>1. 1 \in Processes
    BY DEF Processes
  <2>2. QED
    BY <1>6, <2>1
<1>8. /\ wide = {p \in Processes : regionOf(p) = home /\ hostOf(p) \notin c.draining
                                   /\ processUnits(c, early, p) + room.demandUnits <= cap}
      /\ narrow = {p \in Processes : regionOf(p) = home /\ hostOf(p) \notin ClosedHosts(c)
                                   /\ processUnits(c, late, p) + room.demandUnits <= cap}
  BY Zenon DEF eligibleProcesses
<1>9. \A p : p \in ClosedHosts(c) <=> (p \in c.draining \/ p = c.failedHostId)
  BY DEF ClosedHosts
<1> HIDE DEF wide, narrow, room, home, early, late, cap
<1>10. wide \in SUBSET Processes /\ narrow \in SUBSET Processes /\ narrow \subseteq wide
       /\ \A p \in wide : hostOf(p) # c.failedHostId => p \in narrow
  BY <1>6, <1>8, <1>9
<1> DEFINE f == Preference(rank)
           b == -4
<1>11. b \in Int /\ \A p \in Processes : f[p] \in Int /\ b <= f[p]
  BY Preferred
<1> HIDE DEF f, b
<1>12. wide # {} /\ s[i] = chooseProcess(c, room, wide, early, rank)
  BY <1>3, <1>4
<1>13. ASSUME NEW S \in SUBSET Processes, S # {}, NEW q \in Assignments, Len(q) < Len(c.rooms)
       PROVE  chooseProcess(c, room, S, q, rank) = Min(LowestBy(f, S))
  <2>1. room.regionId \in Regions /\ c.policy = "rendezvous" /\ c \in DistributionSettings
    BY <1>1, <1>3, <1>7 DEF home
  <2>2. c.policy = "rendezvous" => chooseProcess(c, room, S, q, rank) = Min(LowestBy(Preference(rank), S))
    BY <1>13, <2>1, ChosenProcess
  <2>3. QED
    BY <2>1, <2>2, Zenon DEF f
<1>14. s[i] = Min(LowestBy(f, wide))
  BY <1>7, <1>10, <1>12, <1>13
<1>15. Min(LowestBy(f, wide)) \in wide
       /\ \A T \in SUBSET Processes :
              T \subseteq wide /\ Min(LowestBy(f, wide)) \in T => Min(LowestBy(f, T)) = Min(LowestBy(f, wide))
  <2> DEFINE V == Processes
  <2>1. V \in SUBSET Nat /\ wide \in SUBSET V /\ wide # {} /\ b \in Int /\ \A p \in V : f[p] \in Int /\ b <= f[p]
    BY <1>10, <1>11, <1>12, FewProcesses
  <2> HIDE DEF V
  <2>2. Min(LowestBy(f, wide)) \in wide
        /\ \A T \in SUBSET V :
               T \subseteq wide /\ Min(LowestBy(f, wide)) \in T => Min(LowestBy(f, T)) = Min(LowestBy(f, wide))
    BY <2>1, FirstAmong
  <2>3. QED
    BY <2>2 DEF V
<1>16. s[i] \in narrow
  BY <1>3, <1>10, <1>14, <1>15
<1>17. Min(LowestBy(f, narrow)) = s[i]
  BY <1>10, <1>14, <1>15, <1>16
<1>18. t[i] = chooseProcess(c, room, narrow, late, rank)
  BY <1>4, <1>16
<1>19. t[i] = Min(LowestBy(f, narrow))
  BY <1>7, <1>10, <1>13, <1>16, <1>18
<1>20. QED
  BY <1>17, <1>19 DEF s, t

LEMMA DistributionPromises == ServersInv => DistributionHolds
<1> SUFFICES ASSUME ServersInv PROVE DistributionHolds
  OBVIOUS
<1> DEFINE c == distribution.config
           s == distribution.baseline
           t == distribution.failure
<1>1. /\ c \in DistributionSettings /\ s \in Assignments /\ t \in Assignments
      /\ Len(s) = Len(t) /\ Len(s) <= Len(c.rooms) /\ Len(t) <= Len(c.rooms)
      /\ RunHolds(c, c.draining, s) /\ RunHolds(c, ClosedHosts(c), t)
      /\ ApartAtHome(c, s, t)
      /\ \A i \in DOMAIN s : \E rank \in ProcessRanks :
             AssignedAt(c, c.draining, s, i, rank) /\ AssignedAt(c, ClosedHosts(c), t, i, rank)
  BY DEF ServersInv
<1>2. DOMAIN s = DOMAIN t
  BY <1>1 DEF Assignments
<1>3. \A i \in DOMAIN s : \E rank \in ProcessRanks : AssignedAt(c, c.draining, s, i, rank)
  BY <1>1
<1>4. \A i \in DOMAIN t : \E rank \in ProcessRanks : AssignedAt(c, ClosedHosts(c), t, i, rank)
  BY <1>1, <1>2
<1>5. InItsRegion(s, c.draining) /\ Shared(s, c.draining)
  BY <1>1, <1>3, RunStaysHome, RunShares
<1>6. InItsRegion(t, ClosedHosts(c)) /\ Shared(t, ClosedHosts(c))
  BY <1>1, <1>4, RunStaysHome, RunShares
<1>7. \A i \in movedRooms(distribution) : (c.failedHostId + 1) \div 2 = c.rooms[i].regionId
  BY <1>1 DEF movedRooms, ApartAtHome, FailedRegion
<1>8. ASSUME c.policy = "rendezvous", UnitsIn(c, DOMAIN s) <= c.capacityUnitsPerProcess
      PROVE  movedRooms(distribution) = forcedRooms(distribution)
  <2>1. ASSUME NEW i \in movedRooms(distribution) PROVE hostOf(s[i]) = c.failedHostId
    <3>1. i \in DOMAIN s /\ s[i] # Unassigned /\ t[i] # s[i]
      BY <2>1 DEF movedRooms
    <3>2. QED
      BY <1>8, <3>1, HashStays
  <2>2. QED
    BY <2>1 DEF forcedRooms
<1>9. OnlyTheFailedHost
  BY <1>7, <1>8, Zenon DEF OnlyTheFailedHost, UnitsIn
<1>10. QED
  BY <1>5, <1>6, <1>9 DEF DistributionHolds

\* Rooms stay in their region on open hosts and share them as the policy says, and a failed host
\* moves no room of another region: for all settings, and every order the hash puts processes in.
THEOREM RoomsShareTheirServers == DistributionSpec => []DistributionHolds
<1>1. distribution \in {DistributionOf(c) : c \in DistributionSettings} => ServersInv
  BY InitServers
<1>2. ServersInv /\ [AssignRoom]_distribution => ServersInv'
  BY NextServers
<1>3. ServersInv => DistributionHolds
  BY DistributionPromises
<1>4. QED
  BY <1>1, <1>2, <1>3, PTL DEF DistributionSpec

-----------------------------------------------------------------------------

(* The exhibits together. *)

\* Players reach healthy regions, rooms have one owner, the signaling region moves no game and a
\* session loses only what depends on a failed service: for all settings of the four exhibits.
THEOREM GlobalPromisesKept ==
    IngressSpec /\ AuthoritySpec /\ LatencySpec /\ SessionSpec => []GlobalPromises
BY RequestsReachHealthyRegions, RoomsHaveOneOwner, SignalingNeverMovesTheGame,
   SessionsLoseOnlyTheirDependencies, PTL DEF GlobalPromises

\* No region and no process takes more than it has, a room turned away fitted nowhere, and a failure
\* moves only what it must: for every fleet and every distribution.
THEOREM PlacementsKept == FleetSpec /\ DistributionSpec => []PlacementsHold
BY RoomsFitTheirRegions, RoomsShareTheirServers, PTL DEF PlacementsHold

-----------------------------------------------------------------------------

(* The sharding exhibit. *)

PointsTo(c, n) == (1..n) \X (1..c.virtualNodesPerNode)

Preceding(c, U, p) == {q \in U : ringOrder(c, q, p)}

\* Finitely many numbers have a bound.
LEMMA SomeBound ==
    ASSUME NEW S, IsFiniteSet(S), NEW f, \A x \in S : f[x] \in Nat
    PROVE  \E b \in Nat : \A x \in S : f[x] <= b
<1> DEFINE Good(U) == \E b \in Nat : \A x \in U : f[x] <= b
           bad == {n \in Nat : \E U \in SUBSET S : Cardinality(U) = n /\ ~Good(U)}
<1>1. ASSUME NEW U \in SUBSET S
      PROVE  IsFiniteSet(U) /\ Cardinality(U) \in Nat
  BY <1>1, FS_Subset, FS_CardinalityType
<1>2. bad = {}
  <2> SUFFICES ASSUME bad # {} PROVE FALSE
    OBVIOUS
  <2>1. bad \in SUBSET Nat
    OBVIOUS
  <2> HIDE DEF bad
  <2>2. PICK n \in bad : \A m \in bad : n <= m
    BY <2>1, LeastExists
  <2>3. PICK U \in SUBSET S : Cardinality(U) = n /\ ~Good(U)
    BY <2>2 DEF bad
  <2>4. U # {}
    <3>1. Good({})
      OBVIOUS
    <3>2. QED
      BY <2>3, <3>1
  <2>5. PICK x \in U : TRUE
    BY <2>4
  <2> DEFINE V == U \ {x}
  <2>6. V \in SUBSET S /\ IsFiniteSet(U) /\ IsFiniteSet(V) /\ Cardinality(V) = Cardinality(U) - 1
        /\ Cardinality(V) \in Nat /\ Cardinality(U) \in Nat
    <3>1. V \in SUBSET S
      OBVIOUS
    <3>2. IsFiniteSet(U) /\ Cardinality(U) \in Nat
      BY <1>1
    <3>3. Cardinality(V) = Cardinality(U) - 1
      BY <2>5, <3>2, FS_RemoveElement
    <3> HIDE DEF V
    <3>4. QED
      BY <1>1, <3>1, <3>2, <3>3
  <2>7. Good(V)
    <3>1. Cardinality(V) \notin bad
      BY <2>1, <2>2, <2>3, <2>6
    <3> HIDE DEF V, Good
    <3>2. QED
      BY <2>6, <3>1 DEF bad
  <2>8. PICK b \in Nat : \A y \in V : f[y] <= b
    BY <2>7
  <2>9. f[x] \in Nat /\ \A y \in U : f[y] \in Nat
    OBVIOUS
  <2>10. \A y \in U : f[y] <= b + f[x]
    BY <2>8, <2>9
  <2>11. b + f[x] \in Nat
    BY <2>9
  <2>12. QED
    BY <2>3, <2>10, <2>11
<1>3. S \in SUBSET S /\ Cardinality(S) \in Nat
  BY <1>1
<1>4. Good(S)
  BY <1>2, <1>3
<1>5. QED
  BY <1>4

LEMMA ShardingTypes ==
    ASSUME NEW c \in ShardingSettings, NEW n \in 1..(c.nodeCount + 1)
    PROVE  LET U == PointsTo(c, n)
           IN  /\ c.nodeCount \in Nat \ {0, 1} /\ c.virtualNodesPerNode \in Nat \ {0}
               /\ IsFiniteSet(U) /\ U # {} /\ U \subseteq PointsTo(c, c.nodeCount + 1)
               /\ \A p \in U : c.pointHash[p] \in Nat
<1> DEFINE m == c.nodeCount
           v == c.virtualNodesPerNode
           U == PointsTo(c, n)
           W == (1..(m + 1)) \X (1..v)
<1>1. m \in Nat \ {0, 1} /\ v \in Nat \ {0} /\ c.pointHash \in [W -> Nat]
  BY ShardingAssumption, Zenon
<1>2. n \in Int /\ n >= 1 /\ 1..n \subseteq 1..(m + 1) /\ 1 \in 1..n /\ 1 \in 1..v
  BY <1>1
<1>3. U = (1..n) \X (1..v)
  BY DEF PointsTo
<1> HIDE DEF m, v
<1>4. IsFiniteSet(U)
  <2>1. IsFiniteSet(1..n) /\ IsFiniteSet(1..v)
    <3>1. 1 \in Int /\ n \in Int /\ v \in Int
      BY <1>1, <1>2
    <3>2. QED
      BY <3>1, FS_Interval, ZenonT(30)
  <2>2. QED
    BY <1>3, <2>1, FS_Product, ZenonT(60)
<1>5. <<1, 1>> \in U /\ U \subseteq W
  BY <1>2, <1>3
<1>6. PointsTo(c, c.nodeCount + 1) = W
  BY DEF PointsTo, m, v
<1> HIDE DEF U, W
<1>7. \A p \in U : c.pointHash[p] \in Nat
  BY <1>1, <1>5
<1>8. QED
  BY <1>1, <1>4, <1>5, <1>6, <1>7 DEF m, v, U

\* The ring has an order.
LEMMA RingOrdered ==
    ASSUME NEW c \in ShardingSettings, NEW n \in 1..(c.nodeCount + 1)
    PROVE  LET U == PointsTo(c, n)
           IN  /\ \A p \in U : ~ringOrder(c, p, p)
               /\ \A p, q \in U : p # q => ringOrder(c, p, q) \/ ringOrder(c, q, p)
               /\ \A p, q \in U : ringOrder(c, p, q) => c.pointHash[p] <= c.pointHash[q]
               /\ \A p, q, r \in U : ringOrder(c, p, q) /\ ringOrder(c, q, r) => ringOrder(c, p, r)
<1> DEFINE v == c.virtualNodesPerNode
           U == PointsTo(c, n)
           h == c.pointHash
           o == c.idOrder
<1>1. \A p \in U : h[p] \in Nat
  BY ShardingTypes
<1>2. \A p \in U : /\ p[1] \in Int /\ p[2] \in Int /\ p = <<p[1], p[2]>>
  BY ShardingTypes DEF PointsTo
<1>3. \A p, q : ringOrder(c, p, q) <=>
          \/ h[p] < h[q]
          \/ h[p] = h[q] /\ (o[p[1]] < o[q[1]] \/ (p[1] = q[1] /\ p[2] < q[2]))
  BY DEF ringOrder
<1>4. /\ \A p \in U : o[p[1]] \in Nat
      /\ \A p, q \in U : o[p[1]] = o[q[1]] => p[1] = q[1]
  <2>1. /\ o \in [1..(c.nodeCount + 1) -> Nat]
        /\ \A i, j \in 1..(c.nodeCount + 1) : o[i] = o[j] => i = j
    BY ShardingAssumption, Zenon
  <2>2. \A p \in U : p[1] \in 1..(c.nodeCount + 1)
    BY ShardingTypes DEF PointsTo
  <2> HIDE DEF U, o
  <2>3. QED
    BY <2>1, <2>2
<1> HIDE DEF U, h, o
<1>5. \A p \in U : ~ringOrder(c, p, p)
  BY <1>1, <1>2, <1>3, <1>4
<1>6. ASSUME NEW p \in U, NEW q \in U, p # q PROVE ringOrder(c, p, q) \/ ringOrder(c, q, p)
  <2>1. p[1] # q[1] \/ p[2] # q[2]
    BY <1>2, <1>6
  <2>2. h[p] \in Nat /\ h[q] \in Nat /\ p[1] \in Int /\ p[2] \in Int /\ q[1] \in Int /\ q[2] \in Int
    BY <1>1, <1>2
  <2>3. QED
    BY <1>3, <1>4, <2>1, <2>2
<1>7. ASSUME NEW p \in U, NEW q \in U, ringOrder(c, p, q) PROVE h[p] <= h[q]
  BY <1>1, <1>3, <1>7
<1>8. ASSUME NEW p \in U, NEW q \in U, NEW r \in U, ringOrder(c, p, q), ringOrder(c, q, r)
      PROVE  ringOrder(c, p, r)
  <2>1. /\ h[p] \in Nat /\ h[q] \in Nat /\ h[r] \in Nat /\ p[1] \in Int /\ p[2] \in Int
        /\ q[1] \in Int /\ q[2] \in Int /\ r[1] \in Int /\ r[2] \in Int
    BY <1>1, <1>2
  <2>2. QED
    BY <1>3, <1>4, <1>8, <2>1
<1>9. QED
  BY <1>5, <1>6, <1>7, <1>8 DEF U, h

\* Every point of the ring has a place of its own: the number of points that precede it.
LEMMA RingPlaces ==
    ASSUME NEW c \in ShardingSettings, NEW n \in 1..(c.nodeCount + 1)
    PROVE  LET U == PointsTo(c, n)
               N == Cardinality(U)
               place(p) == Cardinality(Preceding(c, U, p))
           IN  /\ N \in Nat \ {0}
               /\ \A p \in U : place(p) \in 0..(N - 1)
               /\ \A p, q \in U : ringOrder(c, p, q) => place(p) < place(q)
               /\ \A p, q \in U : place(p) = place(q) => p = q
               /\ \A m \in 0..(N - 1) : \E p \in U : place(p) = m
<1> DEFINE U == PointsTo(c, n)
           N == Cardinality(U)
           before(p) == Preceding(c, U, p)
<1>1. /\ IsFiniteSet(U) /\ U # {}
  BY ShardingTypes
<1>2. /\ \A p \in U : ~ringOrder(c, p, p)
      /\ \A p, q \in U : p # q => ringOrder(c, p, q) \/ ringOrder(c, q, p)
      /\ \A p, q, r \in U : ringOrder(c, p, q) /\ ringOrder(c, q, r) => ringOrder(c, p, r)
  BY RingOrdered
<1> HIDE DEF U
<1>3. \A p, q : q \in before(p) <=> q \in U /\ ringOrder(c, q, p)
  BY DEF Preceding
<1> HIDE DEF before, N
<1>4. N \in Nat /\ N # 0
  BY <1>1, FS_CardinalityType, FS_EmptySet DEF N
<1>5. \A p \in U : IsFiniteSet(before(p)) /\ Cardinality(before(p)) \in Nat /\ before(p) \subseteq U
  <2> SUFFICES ASSUME NEW p \in U
               PROVE  IsFiniteSet(before(p)) /\ Cardinality(before(p)) \in Nat /\ before(p) \subseteq U
    OBVIOUS
  <2>1. before(p) \subseteq U
    BY <1>3
  <2>2. IsFiniteSet(before(p))
    BY <1>1, <2>1, FS_Subset
  <2>3. QED
    BY <2>1, <2>2, FS_CardinalityType
<1>6. ASSUME NEW p \in U, NEW q \in U, ringOrder(c, p, q)
      PROVE  Cardinality(before(p)) < Cardinality(before(q))
  <2>1. p \notin before(p) /\ before(p) \cup {p} \subseteq before(q)
    BY <1>2, <1>3, <1>6
  <2>2. Cardinality(before(p) \cup {p}) = Cardinality(before(p)) + 1
    BY <1>5, <2>1, FS_AddElement
  <2>3. Cardinality(before(p) \cup {p}) <= Cardinality(before(q))
    BY <1>5, <2>1, FS_Subset
  <2>4. Cardinality(before(p)) \in Nat /\ Cardinality(before(q)) \in Nat
    BY <1>5
  <2>5. QED
    BY <2>2, <2>3, <2>4
<1>7. ASSUME NEW p \in U
      PROVE  Cardinality(before(p)) \in 0..(N - 1)
  <2>1. p \notin before(p) /\ before(p) \cup {p} \subseteq U
    BY <1>2, <1>3
  <2>2. Cardinality(before(p) \cup {p}) = Cardinality(before(p)) + 1
    BY <1>5, <2>1, FS_AddElement
  <2>3. Cardinality(before(p) \cup {p}) <= N
    BY <1>1, <2>1, FS_Subset DEF N
  <2>4. Cardinality(before(p)) \in Nat
    BY <1>5
  <2>5. QED
    BY <1>4, <2>2, <2>3, <2>4
<1>8. ASSUME NEW p \in U, NEW q \in U, Cardinality(before(p)) = Cardinality(before(q))
      PROVE  p = q
  <2> SUFFICES ASSUME p # q PROVE FALSE
    OBVIOUS
  <2>1. Cardinality(before(p)) \in Nat /\ Cardinality(before(q)) \in Nat
    BY <1>5
  <2>2. QED
    BY <1>2, <1>6, <1>8, <2>1
<1>9. ASSUME NEW m \in 0..(N - 1)
      PROVE  \E p \in U : Cardinality(before(p)) = m
  <2> DEFINE f == [p \in U |-> Cardinality(before(p))]
             W == {f[p] : p \in U}
  <2>1. IsFiniteSet(W) /\ Cardinality(W) = N
    <3>1. DOMAIN f = U /\ f \in [U -> {f[p] : p \in U}] /\ \A p, q \in U : f[p] = f[q] => p = q
      BY <1>8
    <3> HIDE DEF f
    <3>2. QED
      BY <1>1, <3>1, SameSize DEF N
  <2>2. W \subseteq 0..(N - 1)
    BY <1>7
  <2>3. IsFiniteSet(0..(N - 1)) /\ Cardinality(0..(N - 1)) = N
    BY <1>4, FS_Interval
  <2> HIDE DEF W
  <2>4. W = 0..(N - 1)
    BY <2>1, <2>2, <2>3, FS_Subset
  <2>5. QED
    BY <2>4 DEF W
<1>10. QED
  BY <1>4, <1>6, <1>7, <1>8, <1>9 DEF U, N, before

\* The ring is every point once, in order.
LEMMA RingSorted ==
    ASSUME NEW c \in ShardingSettings, NEW n \in 1..(c.nodeCount + 1)
    PROVE  LET U == PointsTo(c, n)
               ring == buildRing(c, n)
           IN  /\ ring \in Seq(U) /\ Len(ring) \in Nat \ {0}
               /\ \A i \in 1..Len(ring) : ring[i] \in U
               /\ \A i, j \in 1..Len(ring) : i < j => ringOrder(c, ring[i], ring[j])
               /\ \A p \in U : \E i \in 1..Len(ring) : ring[i] = p
<1> DEFINE U == PointsTo(c, n)
           N == Cardinality(U)
           place(p) == Cardinality(Preceding(c, U, p))
           ring == buildRing(c, n)
<1>1. /\ N \in Nat \ {0}
      /\ \A p \in U : place(p) \in 0..(N - 1)
      /\ \A p, q \in U : ringOrder(c, p, q) => place(p) < place(q)
      /\ \A p, q \in U : place(p) = place(q) => p = q
      /\ \A m \in 0..(N - 1) : \E p \in U : place(p) = m
  BY RingPlaces
<1>2. \A p, q \in U : p # q => ringOrder(c, p, q) \/ ringOrder(c, q, p)
  BY RingOrdered
<1>3. ring = [i \in 1..N |-> CHOOSE p \in U : place(p) = i - 1]
  BY Zenon DEF buildRing, PointsTo, Preceding
<1> HIDE DEF U, N, place, ring
<1>4. \A i \in 1..N : ring[i] \in U /\ place(ring[i]) = i - 1
  <2> SUFFICES ASSUME NEW i \in 1..N PROVE ring[i] \in U /\ place(ring[i]) = i - 1
    OBVIOUS
  <2>1. i - 1 \in 0..(N - 1)
    BY <1>1
  <2>2. \E p \in U : place(p) = i - 1
    BY <1>1, <2>1
  <2>3. ring[i] = CHOOSE p \in U : place(p) = i - 1
    BY <1>3
  <2>4. QED
    BY <2>2, <2>3
<1>5. ring \in Seq(U) /\ Len(ring) = N
  <2>1. DOMAIN ring = 1..N
    BY <1>3
  <2>2. ring \in [1..N -> U]
    BY <1>3, <1>4
  <2>3. QED
    BY <1>1, <2>1, <2>2
<1>6. ASSUME NEW i \in 1..N, NEW j \in 1..N, i < j
      PROVE  ringOrder(c, ring[i], ring[j])
  <2>1. /\ ring[i] \in U /\ ring[j] \in U /\ place(ring[i]) = i - 1 /\ place(ring[j]) = j - 1
        /\ i \in Int /\ j \in Int
    BY <1>1, <1>4
  <2>2. ring[i] # ring[j]
    BY <1>6, <2>1
  <2>3. ~ringOrder(c, ring[j], ring[i])
    BY <1>1, <1>6, <2>1
  <2>4. QED
    BY <1>2, <2>1, <2>2, <2>3
<1>7. ASSUME NEW p \in U PROVE \E i \in 1..N : ring[i] = p
  <2> DEFINE i == place(p) + 1
  <2>1. i \in 1..N /\ i - 1 = place(p)
    BY <1>1
  <2> HIDE DEF i
  <2>2. ring[i] = p
    BY <1>1, <1>4, <2>1
  <2>3. QED
    BY <2>1, <2>2
<1>8. QED
  BY <1>1, <1>4, <1>5, <1>6, <1>7 DEF U, ring

\* The binary search for a key's hash among N hashes, and its recursion.
Spans(N) == (0..N) \X (0..N)

Narrowed(h, k, s) ==
    IF h[((s[1] + s[2]) \div 2) + 1] < k THEN <<((s[1] + s[2]) \div 2) + 1, s[2]>>
    ELSE <<s[1], (s[1] + s[2]) \div 2>>

Searches(f, N, h, k) == \A s \in Spans(N) : f[s] = IF s[1] >= s[2] THEN s[1] ELSE f[Narrowed(h, k, s)]

LEMMA SpanNarrows ==
    ASSUME NEW N \in Nat, NEW h, NEW k, NEW s \in Spans(N), s[1] < s[2]
    PROVE  LET t == Narrowed(h, k, s)
               middle == (s[1] + s[2]) \div 2
           IN  /\ t \in Spans(N) /\ s[1] \in 0..N /\ s[2] \in 0..N /\ t[1] <= t[2] /\ t[2] - t[1] < s[2] - s[1]
               /\ middle + 1 \in 1..N /\ s[1] <= middle /\ middle < s[2]
               /\ IF h[middle + 1] < k THEN t[1] = middle + 1 /\ t[2] = s[2] ELSE t[1] = s[1] /\ t[2] = middle
<1> DEFINE m == (s[1] + s[2]) \div 2
           t == Narrowed(h, k, s)
<1>1. s[1] \in 0..N /\ s[2] \in 0..N
  BY DEF Spans
<1>2. m \in Nat /\ s[1] <= m /\ m < s[2]
  BY <1>1
<1>3. t = IF h[m + 1] < k THEN <<m + 1, s[2]>> ELSE <<s[1], m>>
  BY DEF Narrowed
<1> HIDE DEF m, t
<1>4. m \in 0..N /\ m + 1 \in 0..N /\ m + 1 \in 1..N
  BY <1>1, <1>2
<1>5. CASE h[m + 1] < k
  <2>1. t = <<m + 1, s[2]>>
    BY <1>3, <1>5
  <2>2. t \in Spans(N) /\ t[1] = m + 1 /\ t[2] = s[2]
    BY <1>1, <1>4, <2>1 DEF Spans
  <2>3. t[1] <= t[2] /\ t[2] - t[1] < s[2] - s[1]
    BY <1>1, <1>2, <2>2
  <2>4. QED
    BY <1>1, <1>2, <1>4, <1>5, <2>2, <2>3 DEF m, t
<1>6. CASE ~(h[m + 1] < k)
  <2>1. t = <<s[1], m>>
    BY <1>3, <1>6
  <2>2. t \in Spans(N) /\ t[1] = s[1] /\ t[2] = m
    BY <1>1, <1>4, <2>1 DEF Spans
  <2>3. t[1] <= t[2] /\ t[2] - t[1] < s[2] - s[1]
    BY <1>1, <1>2, <2>2
  <2>4. QED
    BY <1>1, <1>2, <1>4, <1>6, <2>2, <2>3 DEF m, t
<1>7. QED
  BY <1>5, <1>6

\* The recursion defines a function: each span needs only narrower ones.
LEMMA SearchExists ==
    ASSUME NEW N \in Nat, NEW h, NEW k
    PROVE  \E f \in [Spans(N) -> 0..N] : Searches(f, N, h, k)
<1> DEFINE Level(m) == {s \in Spans(N) : s[2] - s[1] <= m}
           Searched(f, s) == IF s[1] >= s[2] THEN s[1] ELSE f[Narrowed(h, k, s)]
           Good(m) == \E f \in [Level(m) -> 0..N] : \A s \in Level(m) : f[s] = Searched(f, s)
           bad == {m \in Nat : ~Good(m)}
<1>1. \A s \in Spans(N) : s[1] \in 0..N /\ s[2] \in 0..N
  BY DEF Spans
<1>2. \A s \in Spans(N) : s[1] < s[2] =>
          Narrowed(h, k, s) \in Spans(N) /\ Narrowed(h, k, s)[2] - Narrowed(h, k, s)[1] < s[2] - s[1]
  BY SpanNarrows
<1>3. ASSUME NEW m \in Nat, NEW s \in Level(m + 1), s[1] < s[2]
      PROVE  Narrowed(h, k, s) \in Level(m)
  <2> DEFINE t == Narrowed(h, k, s)
  <2>1. t \in Spans(N) /\ t[2] - t[1] < s[2] - s[1] /\ s \in Spans(N) /\ s[2] - s[1] <= m + 1
    BY <1>2, <1>3
  <2>2. t[1] \in 0..N /\ t[2] \in 0..N /\ s[1] \in 0..N /\ s[2] \in 0..N
    BY <1>1, <2>1
  <2> HIDE DEF t
  <2>3. t[2] - t[1] <= m
    BY <2>1, <2>2
  <2>4. QED
    BY <2>1, <2>3 DEF t
<1>4. Good(0)
  <2> DEFINE f == [s \in Level(0) |-> s[1]]
  <2>1. \A s \in Level(0) : s \in Spans(N) /\ s[1] \in 0..N /\ s[1] >= s[2]
    BY <1>1
  <2>2. f \in [Level(0) -> 0..N]
    BY <2>1
  <2>3. \A s \in Level(0) : f[s] = Searched(f, s)
    BY <2>1
  <2> HIDE DEF f, Searched, Level
  <2>4. QED
    BY <2>2, <2>3
<1>5. ASSUME NEW m \in Nat, Good(m) PROVE Good(m + 1)
  <2>1. PICK f \in [Level(m) -> 0..N] : \A s \in Level(m) : f[s] = Searched(f, s)
    BY <1>5
  <2> DEFINE g == [s \in Level(m + 1) |-> Searched(f, s)]
  <2>2. \A s \in Level(m + 1) : s \in Spans(N) /\ s[1] \in 0..N /\ s[2] \in 0..N
    BY <1>1
  <2>3. \A s \in Level(m) : s \in Level(m + 1)
    BY <1>1
  <2>4. ASSUME NEW s \in Level(m + 1) PROVE Searched(f, s) \in 0..N
    <3>1. CASE s[1] >= s[2]
      BY <2>2, <2>4, <3>1
    <3>2. CASE ~(s[1] >= s[2])
      <4>1. Narrowed(h, k, s) \in Level(m)
        BY <1>3, <2>2, <2>4, <3>2
      <4> HIDE DEF Level
      <4>2. f[Narrowed(h, k, s)] \in 0..N
        BY <2>1, <4>1
      <4>3. QED
        BY <3>2, <4>2
    <3>3. QED
      BY <3>1, <3>2
  <2>5. g \in [Level(m + 1) -> 0..N]
    <3> HIDE DEF Level, Searched
    <3>1. QED
      BY <2>4
  <2>6. \A s \in Level(m + 1) : g[s] = Searched(f, s)
    <3> HIDE DEF Level, Searched
    <3>1. QED
      OBVIOUS
  <2> HIDE DEF g
  <2>7. \A s \in Level(m) : g[s] = f[s]
    <3> HIDE DEF Level, Searched
    <3>1. QED
      BY <2>1, <2>3, <2>6
  <2>8. ASSUME NEW s \in Level(m + 1) PROVE g[s] = Searched(g, s)
    <3>1. CASE s[1] >= s[2]
      <4>1. Searched(f, s) = s[1] /\ Searched(g, s) = s[1]
        BY <3>1
      <4>2. QED
        BY <2>6, <2>8, <4>1
    <3>2. CASE ~(s[1] >= s[2])
      <4>1. Narrowed(h, k, s) \in Level(m)
        BY <1>3, <2>2, <2>8, <3>2
      <4>2. g[Narrowed(h, k, s)] = f[Narrowed(h, k, s)]
        BY <2>7, <4>1
      <4>3. Searched(f, s) = Searched(g, s)
        BY <3>2, <4>2
      <4>4. QED
        BY <2>6, <2>8, <4>3
    <3>3. QED
      BY <3>1, <3>2
  <2> HIDE DEF Level, Searched
  <2>9. QED
    BY <2>5, <2>8
<1> HIDE DEF Good
<1>6. bad = {}
  <2> SUFFICES ASSUME bad # {} PROVE FALSE
    OBVIOUS
  <2>1. bad \in SUBSET Nat
    OBVIOUS
  <2> HIDE DEF bad
  <2>2. PICK m \in bad : \A n \in bad : m <= n
    BY <2>1, LeastExists
  <2>3. m \in Nat /\ ~Good(m)
    BY <2>2 DEF bad
  <2>4. m # 0
    BY <1>4, <2>3
  <2>5. m - 1 \in Nat /\ m - 1 \notin bad /\ (m - 1) + 1 = m
    BY <2>1, <2>2, <2>3, <2>4
  <2>6. Good(m - 1)
    BY <2>5 DEF bad
  <2>7. Good((m - 1) + 1)
    BY <1>5, <2>5, <2>6
  <2>8. QED
    BY <2>3, <2>5, <2>7
<1>7. Good(N)
  BY <1>6
<1>8. Level(N) = Spans(N)
  BY <1>1
<1>9. PICK f \in [Spans(N) -> 0..N] : \A s \in Spans(N) : f[s] = Searched(f, s)
  <2> HIDE DEF Level
  <2>1. QED
    BY <1>7, <1>8 DEF Good
<1>10. Searches(f, N, h, k)
  BY <1>9 DEF Searches
<1>11. QED
  BY <1>10

\* The search ends where the hashes from there on are not less than the key's, and those before are.
LEMMA SearchFinds ==
    ASSUME NEW N \in Nat, NEW h, \A i \in 1..N : h[i] \in Nat,
           \A i, j \in 1..N : i < j => h[i] <= h[j],
           NEW k \in Nat, NEW f, Searches(f, N, h, k)
    PROVE  LET r == f[<<0, N>>]
           IN  r \in 0..N /\ (\A i \in 1..r : h[i] < k) /\ \A i \in (r + 1)..N : h[i] >= k
<1> DEFINE Split(low, high) == (\A i \in 1..low : h[i] < k) /\ \A i \in (high + 1)..N : h[i] >= k
           Found(s) == f[s] \in 0..N /\ Split(f[s], f[s])
           wrong(s) == s[1] <= s[2] /\ Split(s[1], s[2]) /\ ~Found(s)
           bad == {m \in Nat : \E s \in Spans(N) : s[2] - s[1] = m /\ wrong(s)}
<1>1. \A s \in Spans(N) : s[1] \in 0..N /\ s[2] \in 0..N
  BY DEF Spans
<1>2. bad = {}
  <2> SUFFICES ASSUME bad # {} PROVE FALSE
    OBVIOUS
  <2>1. bad \in SUBSET Nat
    OBVIOUS
  <2> HIDE DEF bad
  <2>2. PICK m \in bad : \A n \in bad : m <= n
    BY <2>1, LeastExists
  <2>3. PICK s \in Spans(N) : s[2] - s[1] = m /\ wrong(s)
    BY <2>2 DEF bad
  <2>4. s[1] \in 0..N /\ s[2] \in 0..N /\ s[1] <= s[2] /\ Split(s[1], s[2]) /\ ~Found(s)
    BY <1>1, <2>3
  <2>5. f[s] = IF s[1] >= s[2] THEN s[1] ELSE f[Narrowed(h, k, s)]
    BY DEF Searches
  <2>6. s[1] # s[2]
    <3> SUFFICES ASSUME s[1] = s[2] PROVE FALSE
      OBVIOUS
    <3>1. f[s] = s[1] /\ f[s] = s[2]
      BY <2>4, <2>5
    <3> HIDE DEF Split
    <3>2. Split(f[s], f[s])
      BY <2>4, <3>1
    <3>3. QED
      BY <2>4, <3>1, <3>2
  <2> DEFINE t == Narrowed(h, k, s)
             mid == (s[1] + s[2]) \div 2
  <2>7. s[1] < s[2]
    BY <2>4, <2>6
  <2>8. /\ t \in Spans(N) /\ t[1] <= t[2] /\ t[2] - t[1] < s[2] - s[1]
        /\ mid + 1 \in 1..N /\ s[1] <= mid /\ mid < s[2]
        /\ IF h[mid + 1] < k THEN t[1] = mid + 1 /\ t[2] = s[2] ELSE t[1] = s[1] /\ t[2] = mid
    BY <2>7, SpanNarrows
  <2>9. f[s] = f[t]
    BY <2>4, <2>5, <2>7
  <2>10. mid \in Nat /\ h[mid + 1] \in Nat
    BY <2>4, <2>8
  <2> HIDE DEF t, mid
  <2>11. Split(t[1], t[2])
    <3>1. CASE h[mid + 1] < k
      <4>1. t[1] = mid + 1 /\ t[2] = s[2]
        BY <2>8, <3>1
      <4>2. ASSUME NEW i \in 1..(mid + 1) PROVE h[i] < k
        <5>1. i \in 1..N /\ mid + 1 \in 1..N /\ (i < mid + 1 \/ i = mid + 1)
          BY <2>8, <2>10
        <5>2. h[i] <= h[mid + 1] /\ h[i] \in Nat
          BY <2>10, <5>1
        <5>3. QED
          BY <2>10, <3>1, <5>2
      <4>3. QED
        BY <2>4, <4>1, <4>2
    <3>2. CASE ~(h[mid + 1] < k)
      <4>1. t[1] = s[1] /\ t[2] = mid
        BY <2>8, <3>2
      <4>2. ASSUME NEW i \in (mid + 1)..N PROVE h[i] >= k
        <5>1. i \in 1..N /\ mid + 1 \in 1..N /\ (mid + 1 < i \/ i = mid + 1)
          BY <2>8, <2>10
        <5>2. h[mid + 1] <= h[i] /\ h[i] \in Nat
          BY <2>10, <5>1
        <5>3. QED
          BY <2>10, <3>2, <5>2
      <4>3. QED
        BY <2>4, <4>1, <4>2
    <3>3. QED
      BY <3>1, <3>2
  <2> HIDE DEF Split
  <2>12. ~Found(t)
    BY <2>4, <2>9
  <2>13. t[2] - t[1] \in Nat /\ t[2] - t[1] < m
    <3>1. t[1] \in 0..N /\ t[2] \in 0..N
      BY <1>1, <2>8
    <3>2. QED
      BY <2>3, <2>4, <2>8, <3>1
  <2>14. t[2] - t[1] \in bad
    BY <2>8, <2>11, <2>12, <2>13 DEF bad
  <2>15. m \in Nat
    BY <2>1, <2>2
  <2>16. QED
    BY <2>2, <2>13, <2>14, <2>15
<1> DEFINE whole == <<0, N>>
<1>3. whole \in Spans(N) /\ whole[1] = 0 /\ whole[2] = N
  BY DEF Spans
<1>4. Split(0, N)
  OBVIOUS
<1> HIDE DEF whole, Split
<1>5. whole[2] - whole[1] \in Nat /\ whole[1] <= whole[2]
  BY <1>3
<1>6. Found(whole)
  BY <1>2, <1>3, <1>4, <1>5
<1>7. QED
  BY <1>6 DEF Split, whole

\* The point at which a key's hash arrives, going around the ring.
Arrives(c, U, k, p) ==
    /\ p \in U
    /\ IF \E q \in U : c.pointHash[q] >= k
       THEN c.pointHash[p] >= k /\ \A q \in U : c.pointHash[q] >= k => q = p \/ ringOrder(c, p, q)
       ELSE \A q \in U : q = p \/ ringOrder(c, p, q)

HashesOf(c, ring) == [i \in 1..Len(ring) |-> c.pointHash[ring[i]]]

LEMMA SearchOfRing ==
    ASSUME NEW c \in ShardingSettings, NEW U, NEW ring \in Seq(U), NEW k
    PROVE  \E f : /\ Searches(f, Len(ring), HashesOf(c, ring), k)
                  /\ lookupRing(c, ring, k) = ring[(f[<<0, Len(ring)>>] % Len(ring)) + 1][1]
<1> DEFINE N == Len(ring)
           h == HashesOf(c, ring)
           body(f) == [s \in (0..N) \X (0..N) |->
                          IF s[1] >= s[2] THEN s[1]
                          ELSE f[IF c.pointHash[ring[((s[1] + s[2]) \div 2) + 1]] < k
                                 THEN <<((s[1] + s[2]) \div 2) + 1, s[2]>>
                                 ELSE <<s[1], (s[1] + s[2]) \div 2>>]]
           iter == CHOOSE f : f = body(f)
<1>1. N \in Nat
  OBVIOUS
<1>2. lookupRing(c, ring, k) = ring[(iter[<<0, N>>] % N) + 1][1]
  BY DEF lookupRing
<1>3. ASSUME NEW f
      PROVE  body(f) = [s \in Spans(N) |-> IF s[1] >= s[2] THEN s[1] ELSE f[Narrowed(h, k, s)]]
  <2>1. ASSUME NEW s \in Spans(N), ~(s[1] >= s[2])
        PROVE  h[((s[1] + s[2]) \div 2) + 1] = c.pointHash[ring[((s[1] + s[2]) \div 2) + 1]]
    <3> DEFINE m == ((s[1] + s[2]) \div 2) + 1
    <3>1. s[1] \in 0..N /\ s[2] \in 0..N
      BY DEF Spans
    <3>2. m \in 1..N
      BY <1>1, <2>1, <3>1
    <3> HIDE DEF m
    <3>3. h[m] = c.pointHash[ring[m]]
      BY <3>2 DEF HashesOf
    <3>4. QED
      BY <3>3 DEF m
  <2> HIDE DEF h, N
  <2>2. QED
    BY <2>1 DEF Narrowed, Spans
<1> HIDE DEF body, h
<1>4. PICK f \in [Spans(N) -> 0..N] : Searches(f, N, h, k)
  BY <1>1, SearchExists
<1>5. f = body(f)
  BY <1>3, <1>4 DEF Searches
<1>6. iter = body(iter)
  BY <1>5
<1> HIDE DEF iter
<1>7. Searches(iter, N, h, k)
  BY <1>3, <1>6 DEF Searches
<1>8. QED
  BY <1>2, <1>7 DEF h, N

\* The search finds the node of that point.
LEMMA LookupFinds ==
    ASSUME NEW c \in ShardingSettings, NEW n \in 1..(c.nodeCount + 1), NEW k \in Nat
    PROVE  \E p \in PointsTo(c, n) :
               Arrives(c, PointsTo(c, n), k, p) /\ lookupRing(c, buildRing(c, n), k) = p[1]
<1> DEFINE U == PointsTo(c, n)
           ring == buildRing(c, n)
           N == Len(ring)
           h == HashesOf(c, ring)
<1>1. /\ ring \in Seq(U) /\ N \in Nat \ {0}
      /\ \A i \in 1..N : ring[i] \in U
      /\ \A i, j \in 1..N : i < j => ringOrder(c, ring[i], ring[j])
      /\ \A p \in U : \E i \in 1..N : ring[i] = p
  BY RingSorted
<1>2. /\ \A p \in U : c.pointHash[p] \in Nat
      /\ \A p, q \in U : ringOrder(c, p, q) => c.pointHash[p] <= c.pointHash[q]
  BY ShardingTypes, RingOrdered
<1>3. \A i \in 1..N : h[i] = c.pointHash[ring[i]]
  BY DEF HashesOf
<1> HIDE DEF U, ring
<1>4. PICK f : Searches(f, N, h, k) /\ lookupRing(c, ring, k) = ring[(f[<<0, N>>] % N) + 1][1]
  <2>1. ring \in Seq(U)
    BY <1>1
  <2>2. \E f : /\ Searches(f, Len(ring), HashesOf(c, ring), k)
               /\ lookupRing(c, ring, k) = ring[(f[<<0, Len(ring)>>] % Len(ring)) + 1][1]
    BY <2>1, SearchOfRing
  <2>3. QED
    BY <2>2
<1> HIDE DEF h, N
<1>5. (\A i \in 1..N : h[i] \in Nat) /\ \A i, j \in 1..N : i < j => h[i] <= h[j]
  BY <1>1, <1>2, <1>3, SMTT(30)
<1> DEFINE r == f[<<0, N>>]
<1>6. r \in 0..N /\ (\A i \in 1..r : h[i] < k) /\ \A i \in (r + 1)..N : h[i] >= k
  BY <1>1, <1>4, <1>5, SearchFinds
<1>7. lookupRing(c, ring, k) = ring[(r % N) + 1][1]
  BY <1>4
<1> HIDE DEF r
<1>8. CASE r < N
  <2>1. r % N = r /\ r + 1 \in 1..N
    BY <1>1, <1>6, <1>8
  <2> DEFINE p == ring[r + 1]
  <2>2. p \in U /\ c.pointHash[p] >= k
    <3>1. r + 1 \in (r + 1)..N
      BY <1>1, <1>6, <2>1
    <3>2. h[r + 1] >= k /\ h[r + 1] = c.pointHash[ring[r + 1]] /\ ring[r + 1] \in U
      BY <1>1, <1>3, <1>6, <2>1, <3>1
    <3>3. QED
      BY <3>2
  <2>3. ASSUME NEW q \in U, c.pointHash[q] >= k PROVE q = p \/ ringOrder(c, p, q)
    <3>1. PICK j \in 1..N : ring[j] = q
      BY <1>1
    <3>2. h[j] >= k /\ h[j] \in Nat
      BY <1>3, <1>5, <2>3, <3>1
    <3>3. j \notin 1..r
      BY <1>6, <3>2
    <3>4. j = r + 1 \/ r + 1 < j
      BY <1>1, <1>6, <3>3
    <3>5. QED
      BY <1>1, <2>1, <3>1, <3>4
  <2>4. lookupRing(c, ring, k) = p[1]
    BY <1>7, <2>1
  <2> HIDE DEF p
  <2>5. Arrives(c, U, k, p)
    BY <2>2, <2>3 DEF Arrives
  <2>6. QED
    BY <2>2, <2>4, <2>5 DEF U, ring
<1>9. CASE r = N
  <2>1. r % N = 0 /\ 1 \in 1..N
    BY <1>1, <1>9, SMT
  <2> DEFINE p == ring[1]
  <2>2. p \in U
    BY <1>1, <2>1
  <2>3. ASSUME NEW q \in U PROVE ~(c.pointHash[q] >= k) /\ (q = p \/ ringOrder(c, p, q))
    <3>1. PICK j \in 1..N : ring[j] = q
      BY <1>1
    <3>2. h[j] < k /\ h[j] = c.pointHash[q] /\ h[j] \in Nat
      BY <1>3, <1>5, <1>6, <1>9, <3>1
    <3>3. j = 1 \/ 1 < j
      BY <1>1
    <3>4. QED
      BY <1>1, <2>1, <3>1, <3>2, <3>3
  <2>4. lookupRing(c, ring, k) = p[1]
    BY <1>7, <2>1
  <2> HIDE DEF p
  <2>5. Arrives(c, U, k, p)
    BY <2>2, <2>3 DEF Arrives
  <2>6. QED
    BY <2>2, <2>4, <2>5 DEF U, ring
<1>10. QED
  BY <1>1, <1>6, <1>8, <1>9

\* One point only arrives first, and it still does among more points when it is one of the fewer.
LEMMA ArrivesOnce ==
    ASSUME NEW c \in ShardingSettings, NEW n \in 1..(c.nodeCount + 1), NEW m \in 1..n, NEW k \in Nat,
           NEW p \in PointsTo(c, m), Arrives(c, PointsTo(c, n), k, p),
           NEW q \in PointsTo(c, m), Arrives(c, PointsTo(c, m), k, q)
    PROVE  p = q
<1> DEFINE U == PointsTo(c, n)
           V == PointsTo(c, m)
<1>1. V \subseteq U
  BY ShardingTypes DEF PointsTo
<1>2. /\ \A u \in U : ~ringOrder(c, u, u)
      /\ \A u, v, w \in U : ringOrder(c, u, v) /\ ringOrder(c, v, w) => ringOrder(c, u, w)
  BY RingOrdered
<1>3. p \in V /\ q \in V /\ Arrives(c, U, k, p) /\ Arrives(c, V, k, q)
  OBVIOUS
<1> HIDE DEF U, V
<1>4. ASSUME p # q PROVE ringOrder(c, p, q) /\ ringOrder(c, q, p)
  <2>1. CASE \E v \in V : c.pointHash[v] >= k
    <3>1. \E v \in U : c.pointHash[v] >= k
      BY <1>1, <2>1
    <3>2. c.pointHash[p] >= k /\ c.pointHash[q] >= k
      BY <1>3, <2>1, <3>1 DEF Arrives
    <3>3. QED
      BY <1>1, <1>3, <1>4, <2>1, <3>1, <3>2 DEF Arrives
  <2>2. CASE ~ \E v \in V : c.pointHash[v] >= k
    <3>1. ~ \E v \in U : c.pointHash[v] >= k
      <4>1. ~(c.pointHash[p] >= k)
        BY <1>3, <2>2
      <4>2. QED
        BY <1>3, <4>1 DEF Arrives
    <3>2. QED
      BY <1>1, <1>3, <1>4, <2>2, <3>1 DEF Arrives
  <2>3. QED
    BY <2>1, <2>2
<1>5. QED
  BY <1>1, <1>2, <1>3, <1>4

\* How far around the ring a point lies from a key: the ring is longer than every hash.
RingSize(c) ==
    1 + Max({c.keyHash[k] : k \in c.keys} \cup {c.pointHash[p] : p \in DOMAIN c.pointHash})

Distance(c, k, p) == (c.pointHash[p] - c.keyHash[k]) % RingSize(c)

LEMMA AroundTheRing ==
    ASSUME NEW size \in Nat, size # 0, NEW a \in 0..(size - 1), NEW b \in 0..(size - 1)
    PROVE  (a - b) % size = IF a >= b THEN a - b ELSE (a - b) + size
<1>1. CASE a >= b
  BY <1>1
<1>2. CASE ~(a >= b)
  <2>1. (a - b) + size \in 0..(size - 1)
    BY <1>2
  <2> DEFINE q == (a - b) \div size
             r == (a - b) % size
  <2>2. a - b = size * q + r /\ r \in 0..(size - 1) /\ q \in Int
    OBVIOUS
  <2> HIDE DEF q, r
  <2>3. q = 0 - 1
    <3>1. ~(q >= 0)
      <4>1. q >= 0 => size * q >= 0
        BY <2>2
      <4>2. QED
        BY <1>2, <2>2, <4>1
    <3>2. ~(q <= 0 - 2)
      <4>1. q <= 0 - 2 => size * q <= 0 - (2 * size)
        BY <2>2
      <4>2. QED
        BY <1>2, <2>2, <4>1
    <3>3. QED
      BY <2>2, <3>1, <3>2
  <2>4. size * q = 0 - size
    BY <2>2, <2>3
  <2>5. QED
    BY <1>2, <2>2, <2>4 DEF r
<1>3. QED
  BY <1>1, <1>2

LEMMA RingBounds ==
    ASSUME NEW c \in ShardingSettings
    PROVE  /\ RingSize(c) \in Nat \ {0}
           /\ \A k \in c.keys : c.keyHash[k] \in 0..(RingSize(c) - 1)
           /\ \A p \in PointsTo(c, c.nodeCount + 1) : c.pointHash[p] \in 0..(RingSize(c) - 1)
<1> DEFINE W == PointsTo(c, c.nodeCount + 1)
           A == {c.keyHash[k] : k \in c.keys}
           B == {c.pointHash[p] : p \in W}
           H == A \cup B
<1>1. c.nodeCount + 1 \in 1..(c.nodeCount + 1)
  <2>1. c.nodeCount \in Nat
    BY ShardingAssumption, Zenon
  <2>2. QED
    BY <2>1
<1>2. IsFiniteSet(W) /\ \A p \in W : c.pointHash[p] \in Nat
  BY <1>1, ShardingTypes
<1>3. c.keys # {} /\ IsFiniteSet(c.keys) /\ c.keyHash \in [c.keys -> Nat]
  BY ShardingAssumption, Zenon
<1>4. DOMAIN c.pointHash = W
  <2>1. c.pointHash \in [W -> Nat]
    BY ShardingAssumption, Zenon DEF PointsTo
  <2>2. QED
    BY <2>1
<1>5. RingSize(c) = 1 + Max(H)
  BY <1>4, Zenon DEF RingSize
<1> DEFINE h == c.pointHash
           g == c.keyHash
<1>6. PICK a \in Nat : \A k \in c.keys : g[k] <= a
  <2>1. \A k \in c.keys : g[k] \in Nat
    BY <1>3
  <2> HIDE DEF g
  <2>2. QED
    BY <1>3, <2>1, SomeBound
<1>7. PICK b \in Nat : \A p \in W : h[p] <= b
  <2> HIDE DEF W, h
  <2>1. \A p \in W : h[p] \in Nat
    BY <1>2 DEF h
  <2>2. QED
    BY <1>2, <2>1, SomeBound
<1>8. H \in SUBSET Nat /\ H # {} /\ a + b \in Nat /\ \A x \in H : x <= a + b
  <2>1. \A x \in A : x \in Nat /\ x <= a + b
    BY <1>3, <1>6
  <2>2. \A x \in B : x \in Nat /\ x <= a + b
    <3> HIDE DEF W
    <3>1. QED
      BY <1>2, <1>6, <1>7
  <2>3. A # {}
    BY <1>3
  <2> HIDE DEF A, B
  <2>4. QED
    BY <1>6, <1>7, <2>1, <2>2, <2>3
<1> DEFINE m == Max(H)
<1>9. m \in Nat /\ \A x \in H : x <= m
  <2> HIDE DEF H
  <2>1. QED
    BY <1>8, LargestIsMax
<1>10. RingSize(c) = 1 + m
  BY <1>5
<1> HIDE DEF m, W
<1>11. (\A k \in c.keys : c.keyHash[k] \in H) /\ \A p \in W : c.pointHash[p] \in H
  OBVIOUS
<1>12. \A x \in H : x \in 0..(1 + m - 1)
  <2> HIDE DEF H
  <2>1. QED
    BY <1>8, <1>9
<1> HIDE DEF H
<1>13. RingSize(c) \in Nat \ {0}
  BY <1>9, <1>10
<1>14. /\ \A k \in c.keys : c.keyHash[k] \in 0..(RingSize(c) - 1)
       /\ \A p \in W : c.pointHash[p] \in 0..(RingSize(c) - 1)
  <2> DEFINE I == 0..(RingSize(c) - 1)
  <2>1. \A x \in H : x \in I
    <3> DEFINE size == RingSize(c)
    <3>1. size = 1 + m
      BY <1>10
    <3> HIDE DEF size
    <3>2. \A x \in H : x \in 0..(size - 1)
      BY <1>9, <1>12, <3>1
    <3>3. QED
      BY <3>2 DEF size
  <2> HIDE DEF I
  <2>2. (\A k \in c.keys : c.keyHash[k] \in I) /\ \A p \in W : c.pointHash[p] \in I
    BY <1>11, <2>1, Zenon
  <2>3. QED
    BY <2>2, Zenon DEF I
<1>15. QED
  BY <1>13, <1>14, Zenon DEF W

\* No point of the ring is nearer to a key than the one at which it arrives.
LEMMA NearestArrives ==
    ASSUME NEW c \in ShardingSettings, NEW n \in 1..(c.nodeCount + 1), NEW k \in c.keys,
           NEW p \in PointsTo(c, n), Arrives(c, PointsTo(c, n), c.keyHash[k], p),
           NEW q \in PointsTo(c, n)
    PROVE  /\ Distance(c, k, p) \in Nat /\ Distance(c, k, q) \in Nat
           /\ Distance(c, k, p) <= Distance(c, k, q)
<1> DEFINE U == PointsTo(c, n)
           h == c.pointHash
           key == c.keyHash[k]
           size == RingSize(c)
<1>1. /\ size \in Nat \ {0} /\ key \in 0..(size - 1) /\ h[p] \in 0..(size - 1) /\ h[q] \in 0..(size - 1)
  <2>1. p \in PointsTo(c, c.nodeCount + 1) /\ q \in PointsTo(c, c.nodeCount + 1)
    BY ShardingTypes
  <2>2. QED
    BY <2>1, RingBounds
<1>2. \A u, v \in U : ringOrder(c, u, v) => h[u] <= h[v]
  BY RingOrdered
<1>3. p \in U /\ q \in U /\ Arrives(c, U, key, p)
  OBVIOUS
<1>4. Distance(c, k, p) = (h[p] - key) % size /\ Distance(c, k, q) = (h[q] - key) % size
  BY DEF Distance
<1>5. /\ (IF h[q] >= key THEN h[p] >= key /\ h[p] <= h[q] ELSE h[p] >= key \/ h[p] <= h[q])
  <2> HIDE DEF U
  <2>1. CASE h[q] >= key
    <3>1. \E v \in U : h[v] >= key
      BY <1>3, <2>1
    <3>2. h[p] >= key /\ (q = p \/ ringOrder(c, p, q))
      BY <1>3, <2>1, <3>1 DEF Arrives
    <3>3. QED
      BY <1>1, <1>2, <1>3, <2>1, <3>2
  <2>2. CASE ~(h[q] >= key)
    <3>1. h[p] >= key \/ q = p \/ ringOrder(c, p, q)
      BY <1>3 DEF Arrives
    <3>2. QED
      BY <1>1, <1>2, <1>3, <2>2, <3>1
  <2>3. QED
    BY <2>1, <2>2
<1> HIDE DEF key, size, h, U
<1>6. /\ (h[p] - key) % size = IF h[p] >= key THEN h[p] - key ELSE (h[p] - key) + size
      /\ (h[q] - key) % size = IF h[q] >= key THEN h[q] - key ELSE (h[q] - key) + size
  BY <1>1, AroundTheRing
<1>7. QED
  BY <1>1, <1>4, <1>5, <1>6

\* Every key's owner is the one the ring gives it, and a moved key is with another owner than before.
ShardingInv ==
    LET c == sharding.config
    IN  /\ c \in ShardingSettings
        /\ sharding.nodes \in {c.nodeCount, c.nodeCount + 1}
        /\ c.strategy = "consistent-hash" =>
               /\ \A k \in c.keys :
                      sharding.owner[k] = lookupRing(c, buildRing(c, sharding.nodes), c.keyHash[k])
               /\ \A k \in sharding.moved :
                      /\ k \in c.keys /\ sharding.nodes = c.nodeCount + 1
                      /\ sharding.owner[k] # lookupRing(c, buildRing(c, c.nodeCount), c.keyHash[k])

LEMMA RingAssigns ==
    ASSUME NEW c, NEW n, c.strategy = "consistent-hash", NEW k \in c.keys
    PROVE  assignKeys(c, n)[k] = lookupRing(c, buildRing(c, n), c.keyHash[k])
<1>1. c.strategy # "modulo"
  OBVIOUS
<1>2. QED
  BY <1>1, Zenon DEF assignKeys

LEMMA ShardingStarts ==
    ASSUME sharding \in {ShardingOf(c) : c \in ShardingSettings}
    PROVE  ShardingInv
<1>1. PICK c \in ShardingSettings : sharding = ShardingOf(c)
  OBVIOUS
<1>2. /\ sharding.config = c /\ sharding.nodes = c.nodeCount
      /\ sharding.owner = assignKeys(c, c.nodeCount) /\ sharding.moved = {}
  BY <1>1 DEF ShardingOf
<1>3. QED
  BY <1>2, RingAssigns DEF ShardingInv

LEMMA ShardingSteps ==
    ASSUME ShardingInv, [AddNode]_sharding
    PROVE  ShardingInv'
<1>1. CASE UNCHANGED sharding
  BY <1>1 DEF ShardingInv
<1>2. CASE AddNode
  <2> DEFINE c == sharding.config
             n == c.nodeCount
             after == assignKeys(c, n + 1)
             gone == {k \in c.keys : after[k] # sharding.owner[k]}
  <2>1. c \in ShardingSettings /\ sharding.nodes = n
    BY <1>2 DEF ShardingInv, AddNode
  <2>2. sharding' = [sharding EXCEPT !.nodes = n + 1, !.owner = after, !.moved = gone]
    BY <1>2, Zenon DEF AddNode
  <2>3. /\ sharding'.config = c /\ sharding'.nodes = n + 1
        /\ sharding'.owner = after /\ sharding'.moved = gone
    BY <2>2
  <2>4. ASSUME c.strategy = "consistent-hash", NEW k \in c.keys
        PROVE  /\ after[k] = lookupRing(c, buildRing(c, n + 1), c.keyHash[k])
               /\ sharding.owner[k] = lookupRing(c, buildRing(c, n), c.keyHash[k])
    BY <2>1, <2>4, RingAssigns DEF ShardingInv
  <2>5. c.strategy = "consistent-hash" =>
            /\ \A k \in c.keys : after[k] = lookupRing(c, buildRing(c, n + 1), c.keyHash[k])
            /\ \A k \in gone : k \in c.keys /\ after[k] # lookupRing(c, buildRing(c, n), c.keyHash[k])
    <3> HIDE DEF after
    <3>1. QED
      BY <2>4
  <2> HIDE DEF c, n, after, gone
  <2>6. n = c.nodeCount
    BY DEF n
  <2>7. QED
    BY <2>1, <2>3, <2>5, <2>6, Zenon DEF ShardingInv
<1>3. QED
  BY <1>1, <1>2

\* A key that the new node moves arrives at a point of the new node.
LEMMA MovedArrive ==
    ASSUME NEW c \in ShardingSettings, NEW key \in Nat,
           lookupRing(c, buildRing(c, c.nodeCount + 1), key) # lookupRing(c, buildRing(c, c.nodeCount), key)
    PROVE  lookupRing(c, buildRing(c, c.nodeCount + 1), key) = c.nodeCount + 1
<1> DEFINE n == c.nodeCount
<1>1. n \in Nat \ {0, 1} /\ n + 1 \in 1..(n + 1) /\ n \in 1..(n + 1)
  <2>1. n \in Nat \ {0, 1}
    BY ShardingAssumption, Zenon
  <2> HIDE DEF n
  <2>2. QED
    BY <2>1
<1>2. PICK p \in PointsTo(c, n + 1) :
          Arrives(c, PointsTo(c, n + 1), key, p) /\ lookupRing(c, buildRing(c, n + 1), key) = p[1]
  BY <1>1, LookupFinds
<1>3. PICK q \in PointsTo(c, n) :
          Arrives(c, PointsTo(c, n), key, q) /\ lookupRing(c, buildRing(c, n), key) = q[1]
  BY <1>1, LookupFinds
<1>4. p[1] \in 1..(n + 1) /\ p[2] \in 1..c.virtualNodesPerNode /\ p = <<p[1], p[2]>>
  BY DEF PointsTo
<1>5. p \notin PointsTo(c, n)
  <2> SUFFICES ASSUME p \in PointsTo(c, n) PROVE FALSE
    OBVIOUS
  <2>1. n \in 1..(n + 1) /\ n + 1 \in 1..(c.nodeCount + 1) /\ n \in 1..(n + 1)
    BY <1>1
  <2>2. p = q
    BY <1>2, <1>3, <2>1, ArrivesOnce
  <2>3. QED
    BY <1>2, <1>3, <2>2
<1>6. p[1] \notin 1..n
  BY <1>4, <1>5 DEF PointsTo
<1> HIDE DEF n
<1>7. p[1] = n + 1
  BY <1>1, <1>4, <1>6
<1>8. QED
  BY <1>2, <1>7 DEF n

\* The owner's nearest point is no farther than any other node's.
LEMMA OwnerIsNearest ==
    ASSUME ShardingInv, sharding.config.strategy = "consistent-hash",
           NEW k \in sharding.config.keys, NEW n \in 1..sharding.nodes
    PROVE  LET size == RingSize(sharding.config)
               distances(m) == {Clockwise(k, p, size) : p \in PointsOf(m)}
           IN  Min(distances(sharding.owner[k])) <= Min(distances(n))
<1> DEFINE c == sharding.config
           N == sharding.nodes
           U == PointsTo(c, N)
           D(m) == {Clockwise(k, p, RingSize(c)) : p \in PointsOf(m)}
<1>1. c \in ShardingSettings /\ N \in {c.nodeCount, c.nodeCount + 1}
  BY DEF ShardingInv
<1>2. c.nodeCount \in Nat \ {0, 1} /\ c.virtualNodesPerNode \in Nat \ {0} /\ c.keyHash[k] \in Nat
  BY <1>1, ShardingAssumption
<1>3. N \in 1..(c.nodeCount + 1)
  BY <1>1, <1>2
<1>4. PICK p \in U :
          Arrives(c, U, c.keyHash[k], p) /\ lookupRing(c, buildRing(c, N), c.keyHash[k]) = p[1]
  BY <1>1, <1>2, <1>3, LookupFinds
<1>5. sharding.owner[k] = p[1]
  BY <1>4 DEF ShardingInv
<1>6. \A q \in U : /\ Distance(c, k, p) \in Nat /\ Distance(c, k, q) \in Nat
                   /\ Distance(c, k, p) <= Distance(c, k, q)
  BY <1>1, <1>3, <1>4, NearestArrives
<1>7. \A q : Clockwise(k, q, RingSize(c)) = Distance(c, k, q)
  BY DEF Clockwise, Distance
<1>8. \A m \in 1..N : PointsOf(m) \subseteq U /\ PointsOf(m) # {}
  <2> DEFINE v == c.virtualNodesPerNode
  <2>1. 1 \in 1..v
    BY <1>2
  <2>2. \A m : PointsOf(m) = {<<m, i>> : i \in 1..v}
    BY DEF PointsOf
  <2>3. U = (1..N) \X (1..v)
    BY DEF PointsTo
  <2> HIDE DEF v, U
  <2> SUFFICES ASSUME NEW m \in 1..N
               PROVE  PointsOf(m) \subseteq U /\ PointsOf(m) # {}
    OBVIOUS
  <2>4. <<m, 1>> \in PointsOf(m)
    BY <2>1, <2>2, Zenon
  <2>5. ASSUME NEW q \in PointsOf(m) PROVE q \in U
    <3>1. PICK i \in 1..v : q = <<m, i>>
      BY <2>2, <2>5, Zenon
    <3>2. QED
      BY <2>3, <3>1
  <2>6. QED
    BY <2>4, <2>5
<1>9. p[1] \in 1..N /\ p \in PointsOf(p[1])
  <2>1. p[1] \in 1..N /\ p[2] \in 1..c.virtualNodesPerNode /\ p = <<p[1], p[2]>>
    BY DEF PointsTo
  <2>2. QED
    BY <2>1 DEF PointsOf
<1> HIDE DEF U, N, c
<1>10. ASSUME NEW m \in 1..N
       PROVE  /\ D(m) \in SUBSET Nat /\ D(m) # {}
              /\ \A x \in D(m) : Distance(c, k, p) <= x
  <2>1. \A q \in PointsOf(m) : /\ Clockwise(k, q, RingSize(c)) \in Nat
                               /\ Distance(c, k, p) <= Clockwise(k, q, RingSize(c))
    BY <1>6, <1>7, <1>8
  <2>2. QED
    BY <1>8, <2>1
<1>11. Distance(c, k, p) \in D(p[1])
  BY <1>7, <1>9
<1> HIDE DEF D
<1>12. n \in 1..N
  BY DEF N
<1>13. \A m \in 1..N : Min(D(m)) \in D(m) /\ \A x \in D(m) : Min(D(m)) <= x
  BY <1>10, LeastIsMin
<1>14. Min(D(p[1])) <= Distance(c, k, p) /\ Distance(c, k, p) <= Min(D(n))
  BY <1>9, <1>10, <1>11, <1>12, <1>13
<1>15. Min(D(p[1])) \in Nat /\ Min(D(n)) \in Nat /\ Distance(c, k, p) \in Nat
  BY <1>4, <1>6, <1>9, <1>10, <1>12, <1>13
<1>16. Min(D(p[1])) <= Min(D(n))
  BY <1>14, <1>15
<1>17. QED
  BY <1>5, <1>16 DEF D, c

\* The sharding exhibit (web/lib/sharding-model.ts), for every hash, every number of nodes and of
\* points: a key belongs to the node whose point follows it, and the node added takes keys from the
\* others for itself only.
THEOREM KeysMoveToTheNewNode == ShardingSpec => []OnlyToTheNewNode
<1>1. sharding \in {ShardingOf(c) : c \in ShardingSettings} => ShardingInv
  BY ShardingStarts
<1>2. ShardingInv /\ [AddNode]_sharding => ShardingInv'
  BY ShardingSteps
<1>3. ShardingInv => OnlyToTheNewNode
  <2> SUFFICES ASSUME ShardingInv, sharding.config.strategy = "consistent-hash"
               PROVE  OnlyToTheNewNode
    BY DEF OnlyToTheNewNode
  <2> DEFINE c == sharding.config
             size == 1 + Max({c.keyHash[k] : k \in c.keys} \cup {c.pointHash[p] : p \in DOMAIN c.pointHash})
             distances(k, n) == {Clockwise(k, p, size) : p \in PointsOf(n)}
  <2>1. size = RingSize(c)
    BY DEF RingSize
  <2>2. ASSUME NEW k \in c.keys, NEW n \in 1..sharding.nodes
        PROVE  Min(distances(k, sharding.owner[k])) <= Min(distances(k, n))
    <3> HIDE DEF size
    <3>1. QED
      BY <2>1, OwnerIsNearest
  <2>3. ASSUME NEW k \in sharding.moved
        PROVE  sharding.owner[k] = sharding.nodes
    <3>1. c \in ShardingSettings /\ k \in c.keys /\ sharding.nodes = c.nodeCount + 1
          /\ sharding.owner[k] = lookupRing(c, buildRing(c, c.nodeCount + 1), c.keyHash[k])
          /\ sharding.owner[k] # lookupRing(c, buildRing(c, c.nodeCount), c.keyHash[k])
      BY DEF ShardingInv
    <3>2. c.keyHash[k] \in Nat
      BY <3>1, ShardingAssumption
    <3>3. QED
      BY <3>1, <3>2, MovedArrive
  <2>4. QED
    BY <2>2, <2>3, Zenon DEF OnlyToTheNewNode
<1>4. QED
  BY <1>1, <1>2, <1>3, PTL DEF ShardingSpec

=============================================================================
