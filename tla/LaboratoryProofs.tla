-------------------------- MODULE LaboratoryProofs --------------------------
(***************************************************************************)
(* The exhibits that Laboratory shows side by side, each on its own: what  *)
(* the run of all of them checks for a few settings holds for every        *)
(* setting the assumptions allow: prediction, the leader election, the CAP *)
(* exhibit, the cache, admission control, the connection pool and the      *)
(* request simulator; and the three native experiments, the fault proxy,   *)
(* the UDP probe and the service processes.                                *)
(***************************************************************************)
EXTENDS Prediction, Election, CapModel, CacheModel, LaboratoryPromises, RequestSimulation,
        SequenceTheorems, FiniteSetTheorems, WellFoundedInduction, TLAPS

-----------------------------------------------------------------------------

(* What the page draws. *)

\* Scaling by a positive number keeps the order.
LEMMA ScaleOrder ==
    ASSUME NEW x \in Int, NEW y \in Int, NEW t \in Nat
    PROVE  x <= y => x * t <= y * t
<1>1. SUFFICES ASSUME x <= y PROVE x * t <= y * t
  OBVIOUS
<1>2. (y - x) \in Nat
  BY <1>1
<1>3. \A a, b \in Nat : a * b >= 0
  BY SMT
<1>4. (y - x) * t >= 0
  BY <1>2, <1>3
<1>5. (y - x) * t = y * t - x * t
  BY SMT
<1>6. QED
  BY <1>4, <1>5

\* Where a held intent takes a coordinate in k ticks.
After(v, axis, k) == Kernel!clamp(v + axis * (StepUnits * k))

\* Stopping at a border once is stopping at it tick by tick.
LEMMA OneTickMore ==
    ASSUME NEW v \in Kernel!Coordinate, NEW axis \in Kernel!Axis, NEW k \in Nat
    PROVE  Kernel!clamp(After(v, axis, k) + axis * StepUnits) = After(v, axis, k + 1)
<1> DEFINE d == StepUnits * k
<1>1. StepUnits \in Nat /\ WorldLimit \in Nat /\ d \in Nat
  <2>1. \A a, b \in Nat : a * b \in Nat
    BY SMT
  <2>2. QED
    BY <2>1, PredictionAssumption
<1>2. StepUnits * (k + 1) = d + StepUnits
  BY <1>1
<1>3. v \in -WorldLimit..WorldLimit /\ (axis = -1 \/ axis = 0 \/ axis = 1)
  BY DEF Kernel!Coordinate, Kernel!Axis
<1>4. After(v, axis, k) = Kernel!clamp(v + axis * d)
      /\ After(v, axis, k + 1) = Kernel!clamp(v + axis * (d + StepUnits))
  BY <1>2 DEF After
<1> HIDE DEF d
<1>5. QED
  BY <1>1, <1>3, <1>4 DEF Kernel!clamp

\* The tick of a moment.
TickOf(ms) == ms \div TickMs

\* The tick counter advances at the boundaries and only there.
LEMMA TickBoundaries ==
    ASSUME NEW ms \in Nat
    PROVE  /\ TickOf(ms) \in Nat
           /\ TickOf(0) = 0
           /\ (ms + 1) % TickMs = 0 => TickOf(ms + 1) = TickOf(ms) + 1
           /\ (ms + 1) % TickMs # 0 => TickOf(ms + 1) = TickOf(ms)
           /\ ms % TickMs = 0 => ms = TickOf(ms) * TickMs
<1>1. TickMs \in Nat \ {0}
  BY PredictionAssumption
<1>2. \A t \in Nat \ {0}, e \in Nat :
        /\ e \div t \in Nat /\ 0 \div t = 0
        /\ e % t = 0 => e = (e \div t) * t
  BY SMT
<1>3. \A t \in Nat \ {0}, e \in Nat :
        /\ (e + 1) % t = 0 => (e + 1) \div t = (e \div t) + 1
        /\ (e + 1) % t # 0 => (e + 1) \div t = e \div t
  BY SMTT(60)
<1>4. QED
  BY <1>1, <1>2, <1>3 DEF TickOf

\* The player on the server is where the snapshot shown, and the intent in it, have taken it
\* by now.
PresentationInv ==
    LET p == presentation
    IN  /\ p = [actual |-> p.actual, current |-> p.current, previous |-> p.previous,
                elapsedMs |-> p.elapsedMs]
        /\ {p.actual, p.current, p.previous} \subseteq Kernel!PlayerRecord
        /\ p.elapsedMs \in Nat
        /\ p.actual.horizontal = p.current.horizontal
        /\ p.actual.vertical = p.current.vertical
        /\ p.actual.x = After(p.current.x, p.current.horizontal, TickOf(p.elapsedMs))
        /\ p.actual.y = After(p.current.y, p.current.vertical, TickOf(p.elapsedMs))

\* Nothing has moved after no tick.
LEMMA AfterNone ==
    ASSUME NEW v \in Kernel!Coordinate, NEW axis \in Kernel!Axis
    PROVE  After(v, axis, 0) = v
<1>1. StepUnits \in Nat /\ WorldLimit \in Nat /\ axis \in Int
  BY PredictionAssumption DEF Kernel!Axis
<1>2. v + axis * (StepUnits * 0) = v
  BY <1>1 DEF Kernel!Coordinate
<1>3. QED
  BY <1>1, <1>2 DEF After, Kernel!clamp, Kernel!Coordinate

\* A tick of a record: its coordinates step, its intent stays.
LEMMA SteppedParts ==
    ASSUME NEW r \in Kernel!PlayerRecord
    PROVE  /\ Kernel!Stepped(r) \in Kernel!PlayerRecord
           /\ Kernel!Stepped(r).x = Kernel!clamp(r.x + r.horizontal * StepUnits)
           /\ Kernel!Stepped(r).y = Kernel!clamp(r.y + r.vertical * StepUnits)
           /\ Kernel!Stepped(r).horizontal = r.horizontal
           /\ Kernel!Stepped(r).vertical = r.vertical
<1> DEFINE dx == r.horizontal * StepUnits
           dy == r.vertical * StepUnits
<1>1. /\ r.x \in Int /\ r.y \in Int /\ StepUnits \in Nat /\ WorldLimit \in Nat
      /\ r.horizontal \in {-1, 0, 1} /\ r.vertical \in {-1, 0, 1}
  BY PredictionAssumption DEF Kernel!PlayerRecord, Kernel!Coordinate, Kernel!Axis
<1>2. dx \in Int /\ dy \in Int
  BY <1>1
<1>3. \A v \in Int : Kernel!clamp(v) \in Kernel!Coordinate
  BY <1>1 DEF Kernel!clamp, Kernel!Coordinate
<1> HIDE DEF dx, dy
<1>4. Kernel!clamp(r.x + dx) \in Kernel!Coordinate /\ Kernel!clamp(r.y + dy) \in Kernel!Coordinate
  BY <1>1, <1>2, <1>3
<1>5. Kernel!Stepped(r) =
        [r EXCEPT !.x = Kernel!clamp(r.x + dx), !.y = Kernel!clamp(r.y + dy),
                  !.last_applied_sequence = r.last_received_sequence]
  BY DEF Kernel!Stepped, dx, dy
<1>6. /\ Kernel!Stepped(r) \in Kernel!PlayerRecord
      /\ Kernel!Stepped(r).x = Kernel!clamp(r.x + dx)
      /\ Kernel!Stepped(r).y = Kernel!clamp(r.y + dy)
      /\ Kernel!Stepped(r).horizontal = r.horizontal
      /\ Kernel!Stepped(r).vertical = r.vertical
  BY <1>4, <1>5 DEF Kernel!PlayerRecord
<1>7. QED
  BY <1>6 DEF dx, dy

\* A player shown for the first time is where the server has it.
LEMMA InitPresentation == presentation \in Presentations => PresentationInv
<1> SUFFICES ASSUME NEW x \in Kernel!Coordinate, NEW y \in Kernel!Coordinate,
                    NEW h \in Kernel!Axis, NEW v \in Kernel!Axis,
                    presentation = PresentationOf(x, y, h, v)
             PROVE  PresentationInv
  BY DEF Presentations
<1> DEFINE r == [x |-> x, y |-> y, horizontal |-> h, vertical |-> v,
                 last_received_sequence |-> 0, last_applied_sequence |-> 0]
<1>1. r \in Kernel!PlayerRecord /\ r.x = x /\ r.y = y /\ r.horizontal = h /\ r.vertical = v
  BY DEF Kernel!PlayerRecord
<1>2. presentation = [actual |-> r, current |-> r, previous |-> r, elapsedMs |-> 0]
  BY DEF PresentationOf
<1> HIDE DEF r
<1>3. TickOf(0) = 0
  BY TickBoundaries
<1>4. After(x, h, 0) = x /\ After(y, v, 0) = y
  BY AfterNone
<1>5. QED
  BY <1>1, <1>2, <1>3, <1>4 DEF PresentationInv

\* Time and snapshots keep the server where the page can compute it.
LEMMA NextPresentation ==
    PresentationInv /\ [PresentationStep]_presentation => PresentationInv'
<1> SUFFICES ASSUME PresentationInv, [PresentationStep]_presentation PROVE PresentationInv'
  OBVIOUS
<1> DEFINE p == presentation
           q == presentation'
           h == p.current.horizontal
           v == p.current.vertical
           k == TickOf(p.elapsedMs)
<1>1. /\ p = [actual |-> p.actual, current |-> p.current, previous |-> p.previous,
              elapsedMs |-> p.elapsedMs]
      /\ p.actual \in Kernel!PlayerRecord /\ p.current \in Kernel!PlayerRecord
      /\ p.previous \in Kernel!PlayerRecord
      /\ p.elapsedMs \in Nat
      /\ p.actual.horizontal = h /\ p.actual.vertical = v
      /\ p.actual.x = After(p.current.x, h, k) /\ p.actual.y = After(p.current.y, v, k)
  BY DEF PresentationInv
<1>2. /\ p.current.x \in Kernel!Coordinate /\ p.current.y \in Kernel!Coordinate
      /\ h \in Kernel!Axis /\ v \in Kernel!Axis
      /\ p.actual.x \in Kernel!Coordinate /\ p.actual.y \in Kernel!Coordinate
  BY <1>1 DEF Kernel!PlayerRecord
<1>3. CASE UNCHANGED presentation
  BY <1>3 DEF PresentationInv
<1>4. CASE TimePasses /\ (p.elapsedMs + 1) % TickMs = 0
  <2> DEFINE a == Kernel!Stepped(p.actual)
  <2>1. q = [p EXCEPT !.elapsedMs = p.elapsedMs + 1, !.actual = a]
    BY <1>4 DEF TimePasses
  <2>2. /\ a \in Kernel!PlayerRecord
        /\ a.x = Kernel!clamp(p.actual.x + h * StepUnits)
        /\ a.y = Kernel!clamp(p.actual.y + v * StepUnits)
        /\ a.horizontal = h /\ a.vertical = v
    BY <1>1, SteppedParts
  <2>3. TickOf(p.elapsedMs + 1) = k + 1 /\ k \in Nat
    BY <1>1, <1>4, TickBoundaries
  <2>4. /\ a.x = After(p.current.x, h, k + 1)
        /\ a.y = After(p.current.y, v, k + 1)
    BY <1>1, <1>2, <2>2, <2>3, OneTickMore
  <2> HIDE DEF a
  <2>5. q = [actual |-> a, current |-> p.current, previous |-> p.previous,
             elapsedMs |-> p.elapsedMs + 1]
    BY <1>1, <2>1
  <2>6. p.elapsedMs + 1 \in Nat
    BY <1>1
  <2> HIDE DEF p, k
  <2>7. QED
    BY <1>1, <2>2, <2>3, <2>4, <2>5, <2>6 DEF PresentationInv
<1>5. CASE TimePasses /\ (p.elapsedMs + 1) % TickMs # 0
  <2>1. q = [p EXCEPT !.elapsedMs = p.elapsedMs + 1, !.actual = p.actual]
    BY <1>5 DEF TimePasses
  <2>2. TickOf(p.elapsedMs + 1) = k
    BY <1>1, <1>5, TickBoundaries
  <2>3. q = [actual |-> p.actual, current |-> p.current, previous |-> p.previous,
             elapsedMs |-> p.elapsedMs + 1]
    BY <1>1, <2>1
  <2>4. p.elapsedMs + 1 \in Nat
    BY <1>1
  <2> HIDE DEF p, k
  <2>5. QED
    BY <1>1, <2>2, <2>3, <2>4 DEF PresentationInv
<1>6. CASE SnapshotArrives
  <2>1. q = [p EXCEPT !.previous = p.current, !.current = p.actual, !.elapsedMs = 0]
    BY <1>6 DEF SnapshotArrives
  <2>2. q = [actual |-> p.actual, current |-> p.actual, previous |-> p.current, elapsedMs |-> 0]
    BY <1>1, <2>1
  <2>3. /\ TickOf(0) = 0
        /\ After(p.actual.x, h, 0) = p.actual.x /\ After(p.actual.y, v, 0) = p.actual.y
    BY <1>2, TickBoundaries, AfterNone
  <2> HIDE DEF p
  <2>4. QED
    BY <1>1, <2>2, <2>3 DEF PresentationInv
<1>7. QED
  BY <1>3, <1>4, <1>5, <1>6 DEF PresentationStep

\* The time that prediction looks ahead is cut off at the horizon.
LEMMA TimeIsCut ==
    ASSUME NEW ms \in Nat
    PROVE  /\ predictedTime(ms) \in 0..(MaxPredictionTicks * TickMs)
           /\ ms <= MaxPredictionTicks * TickMs => predictedTime(ms) = ms
<1>1. MaxPredictionTicks * TickMs \in Nat
  <2>1. \A a, b \in Nat : a * b \in Nat
    BY SMT
  <2>2. QED
    BY <2>1, PredictionAssumption
<1>2. QED
  BY <1>1 DEF predictedTime, clampTo

\* At a tick boundary within the horizon a predicted coordinate is the server's.
LEMMA PredictedAtTick ==
    ASSUME NEW v \in Kernel!Coordinate, NEW axis \in Kernel!Axis, NEW k \in Nat,
           k * TickMs <= MaxPredictionTicks * TickMs
    PROVE  predictCoordinate(v, axis, k * TickMs) = After(v, axis, k) * TickMs
<1>1. TickMs \in Nat \ {0} /\ StepUnits \in Nat /\ WorldLimit \in Nat /\ v \in Int /\ axis \in Int
  BY PredictionAssumption DEF Kernel!Coordinate, Kernel!Axis
<1>2. k * TickMs \in Nat /\ StepUnits * k \in Nat
  <2>1. \A a, b \in Nat : a * b \in Nat
    BY SMT
  <2>2. QED
    BY <1>1, <2>1
<1>3. predictedTime(k * TickMs) = k * TickMs
  BY <1>2, TimeIsCut
<1> DEFINE m == v + axis * (StepUnits * k)
<1>4. m \in Int
  BY <1>1, <1>2
<1>5. v * TickMs + axis * StepUnits * (k * TickMs) = m * TickMs
  BY <1>1, SMT
<1> HIDE DEF m
<1>6. /\ m < -WorldLimit => m * TickMs < (-WorldLimit) * TickMs
      /\ m > WorldLimit => m * TickMs > WorldLimit * TickMs
      /\ m >= -WorldLimit => m * TickMs >= (-WorldLimit) * TickMs
      /\ m <= WorldLimit => m * TickMs <= WorldLimit * TickMs
  <2>1. \A a, b \in Int, t \in Nat \ {0} : a < b => a * t < b * t
    <3> SUFFICES ASSUME NEW a \in Int, NEW b \in Int, NEW t \in Nat \ {0}, a < b
                 PROVE  a * t < b * t
      OBVIOUS
    <3>1. (a + 1) * t <= b * t
      BY ScaleOrder
    <3>2. (a + 1) * t = a * t + t
      BY SMT
    <3>3. a * t \in Int /\ b * t \in Int
      BY SMT
    <3>4. QED
      BY <3>1, <3>2, <3>3
  <2>2. \A a, b \in Int : a <= b => a * TickMs <= b * TickMs
    BY <1>1, ScaleOrder
  <2>3. -WorldLimit \in Int
    BY <1>1
  <2>4. QED
    BY <1>1, <1>4, <2>1, <2>2, <2>3
<1>7. predictCoordinate(v, axis, k * TickMs) =
          clampTo(m * TickMs, (-WorldLimit) * TickMs, WorldLimit * TickMs)
  <2> DEFINE t == k * TickMs
  <2>1. predictCoordinate(v, axis, t) =
            clampTo(v * TickMs + axis * StepUnits * predictedTime(t),
                    -WorldLimit * TickMs, WorldLimit * TickMs)
    BY DEF predictCoordinate
  <2>2. -WorldLimit * TickMs = (-WorldLimit) * TickMs
    BY <1>1, SMT
  <2>3. QED
    BY <1>3, <1>5, <2>1, <2>2, Zenon
<1>8. After(v, axis, k) = Kernel!clamp(m)
  BY DEF After, m
<1>9. m * TickMs \in Int /\ (-WorldLimit) * TickMs \in Int /\ WorldLimit * TickMs \in Int
  BY <1>1, <1>4
<1>10. QED
  BY <1>1, <1>4, <1>6, <1>7, <1>8, <1>9 DEF Kernel!clamp, clampTo

\* A predicted coordinate stays inside the world, and within reach of the last known one.
LEMMA PredictedIsBounded ==
    ASSUME NEW v \in Kernel!Coordinate, NEW axis \in Kernel!Axis, NEW ms \in Nat
    PROVE  /\ predictCoordinate(v, axis, ms) \in -(WorldLimit * TickMs)..(WorldLimit * TickMs)
           /\ predictCoordinate(v, axis, ms) - v * TickMs
                 \in -(MaxPredictionTicks * StepUnits * TickMs)
                        ..(MaxPredictionTicks * StepUnits * TickMs)
<1> DEFINE t == predictedTime(ms)
           d == StepUnits * t
           reach == MaxPredictionTicks * StepUnits * TickMs
           limit == WorldLimit * TickMs
           base == v * TickMs
<1>1. /\ TickMs \in Nat \ {0} /\ StepUnits \in Nat /\ WorldLimit \in Nat
      /\ MaxPredictionTicks \in Nat
      /\ v \in -WorldLimit..WorldLimit /\ axis \in {-1, 0, 1}
  BY PredictionAssumption DEF Kernel!Coordinate, Kernel!Axis
<1>2. \A a, b \in Nat : a * b \in Nat
  BY SMT
<1>3. limit \in Nat /\ MaxPredictionTicks * TickMs \in Nat /\ reach \in Nat
  <2>1. MaxPredictionTicks * StepUnits \in Nat
    BY <1>1, <1>2
  <2>2. QED
    BY <1>1, <1>2, <2>1
<1>4. t \in Nat /\ t <= MaxPredictionTicks * TickMs
  BY <1>3, TimeIsCut
<1>5. d \in Nat /\ d <= reach
  <2>1. d \in Nat
    BY <1>1, <1>2, <1>4
  <2>2. t * StepUnits <= (MaxPredictionTicks * TickMs) * StepUnits
    BY <1>1, <1>3, <1>4, ScaleOrder
  <2>3. t * StepUnits = d /\ (MaxPredictionTicks * TickMs) * StepUnits = reach
    <3>1. t \in Int
      BY <1>4
    <3> HIDE DEF t
    <3>2. QED
      BY <1>1, <3>1
  <2>4. QED
    BY <2>1, <2>2, <2>3
<1>6. base \in Int /\ -limit <= base /\ base <= limit
  <2>1. /\ -WorldLimit \in Int /\ -WorldLimit <= v /\ v <= WorldLimit
        /\ v \in Int /\ WorldLimit \in Int /\ TickMs \in Nat
    BY <1>1
  <2>2. v * TickMs <= WorldLimit * TickMs
    BY <2>1, ScaleOrder
  <2>3. (-WorldLimit) * TickMs <= v * TickMs
    BY <2>1, ScaleOrder
  <2>4. (-WorldLimit) * TickMs = -(WorldLimit * TickMs)
    BY <1>1
  <2>5. v * TickMs \in Int
    BY <2>1
  <2>6. QED
    BY <2>2, <2>3, <2>4, <2>5
<1>7. axis * StepUnits * t = axis * d
  <2>1. t \in Int
    BY <1>4
  <2> HIDE DEF t
  <2>2. QED
    BY <1>1, <2>1
<1>8. (-WorldLimit) * TickMs = -limit
  BY <1>1
<1>9. predictCoordinate(v, axis, ms) = clampTo(base + axis * d, -limit, limit)
  BY <1>7, <1>8 DEF predictCoordinate
<1> HIDE DEF t, d, reach, limit, base
<1>10. /\ clampTo(base + axis * d, -limit, limit) \in -limit..limit
       /\ clampTo(base + axis * d, -limit, limit) - base \in -reach..reach
  BY <1>1, <1>3, <1>5, <1>6 DEF clampTo
<1>11. /\ predictCoordinate(v, axis, ms) \in -limit..limit
       /\ predictCoordinate(v, axis, ms) - base \in -reach..reach
  BY <1>9, <1>10
<1>12. QED
  BY <1>11 DEF limit, reach, base

\* An interpolated coordinate lies between the two it is drawn from, and on the newer one
\* from the next tick on.
LEMMA InterpolatedBetween ==
    ASSUME NEW a \in Int, NEW b \in Int, NEW ms \in Nat
    PROVE  LET drawn == interpolateCoordinate(a, b, ms)
           IN  /\ \/ a * TickMs <= drawn /\ drawn <= b * TickMs
                  \/ b * TickMs <= drawn /\ drawn <= a * TickMs
               /\ ms >= TickMs => drawn = b * TickMs
<1> DEFINE t == clampTo(ms, 0, TickMs)
<1>1. TickMs \in Nat \ {0}
  BY PredictionAssumption
<1>2. t \in 0..TickMs /\ (ms >= TickMs => t = TickMs)
  BY <1>1 DEF clampTo
<1>3. interpolateCoordinate(a, b, ms) = a * TickMs + (b - a) * t
  BY DEF interpolateCoordinate
<1> HIDE DEF t
<1>4. b * TickMs = a * TickMs + (b - a) * TickMs
  BY <1>1
<1>5. a * TickMs \in Int /\ (b - a) * TickMs \in Int /\ (b - a) * t \in Int
  BY <1>1, <1>2
<1>6. CASE b >= a
  <2>1. (b - a) \in Nat
    BY <1>6
  <2>2. 0 * (b - a) <= t * (b - a) /\ t * (b - a) <= TickMs * (b - a)
    BY <1>1, <1>2, <2>1, ScaleOrder
  <2>3. 0 * (b - a) = 0 /\ t * (b - a) = (b - a) * t /\ TickMs * (b - a) = (b - a) * TickMs
    BY <1>1, <1>2, <2>1
  <2>4. QED
    BY <1>2, <1>3, <1>4, <1>5, <2>2, <2>3
<1>7. CASE b < a
  <2>1. (a - b) \in Nat
    BY <1>7
  <2>2. 0 * (a - b) <= t * (a - b) /\ t * (a - b) <= TickMs * (a - b)
    BY <1>1, <1>2, <2>1, ScaleOrder
  <2>3. 0 * (a - b) = 0 /\ t * (a - b) = -((b - a) * t) /\ TickMs * (a - b) = -((b - a) * TickMs)
    BY <1>1, <1>2, <2>1
  <2>4. QED
    BY <1>2, <1>3, <1>4, <1>5, <2>2, <2>3
<1>8. QED
  BY <1>6, <1>7

\* What the page draws is what the server has said and will say: its prediction is the
\* server's arithmetic, silence does not carry a player away, and the others are drawn
\* between their last two positions (presentation.js against the kernel's tick).
THEOREM Drawing == PresentationSpec => []DrawnAsServed
<1>1. PresentationInv => DrawnAsServed
  <2> SUFFICES ASSUME PresentationInv PROVE DrawnAsServed
    OBVIOUS
  <2> DEFINE p == presentation
             k == TickOf(p.elapsedMs)
             c == p.current
             o == p.previous
  <2>1. /\ c \in Kernel!PlayerRecord /\ o \in Kernel!PlayerRecord
        /\ p.elapsedMs \in Nat
        /\ p.actual.x = After(c.x, c.horizontal, k)
        /\ p.actual.y = After(c.y, c.vertical, k)
    BY DEF PresentationInv
  <2>2. /\ c.x \in Kernel!Coordinate /\ c.y \in Kernel!Coordinate
        /\ c.horizontal \in Kernel!Axis /\ c.vertical \in Kernel!Axis
        /\ o.x \in Kernel!Coordinate /\ o.y \in Kernel!Coordinate
    BY <2>1 DEF Kernel!PlayerRecord
  <2>3. /\ Drawn.x = predictCoordinate(c.x, c.horizontal, p.elapsedMs)
        /\ Drawn.y = predictCoordinate(c.y, c.vertical, p.elapsedMs)
    BY DEF Drawn, predictLocalPlayer
  <2>4. PredictionMatchesServer
    <3> SUFFICES ASSUME p.elapsedMs % TickMs = 0,
                        p.elapsedMs <= MaxPredictionTicks * TickMs
                 PROVE  Drawn.x = p.actual.x * TickMs /\ Drawn.y = p.actual.y * TickMs
      BY DEF PredictionMatchesServer
    <3>1. k \in Nat /\ p.elapsedMs = k * TickMs
      BY <2>1, TickBoundaries
    <3> HIDE DEF k, p, c
    <3>2. k * TickMs <= MaxPredictionTicks * TickMs
      BY <3>1
    <3>3. /\ predictCoordinate(c.x, c.horizontal, k * TickMs) = After(c.x, c.horizontal, k) * TickMs
          /\ predictCoordinate(c.y, c.vertical, k * TickMs) = After(c.y, c.vertical, k) * TickMs
      BY <2>2, <3>1, <3>2, PredictedAtTick
    <3>4. QED
      BY <2>1, <2>3, <3>1, <3>3
  <2>5. PredictionIsBounded
    BY <2>1, <2>2, <2>3, PredictedIsBounded DEF PredictionIsBounded
  <2>6. InterpolationStaysBetween
    <3>1. o.x \in Int /\ o.y \in Int /\ c.x \in Int /\ c.y \in Int
      BY <2>2, PredictionAssumption DEF Kernel!Coordinate
    <3>2. /\ Watched.x = interpolateCoordinate(o.x, c.x, p.elapsedMs)
          /\ Watched.y = interpolateCoordinate(o.y, c.y, p.elapsedMs)
      BY DEF Watched, interpolateRemotePlayer
    <3>3. QED
      BY <2>1, <3>1, <3>2, InterpolatedBetween DEF InterpolationStaysBetween
  <2>7. QED
    BY <2>4, <2>5, <2>6 DEF DrawnAsServed
<1>2. QED
  BY <1>1, InitPresentation, NextPresentation, PTL DEF PresentationSpec

-----------------------------------------------------------------------------

(* The election. *)

\* A setting of the exhibit: its parts, for the steps below.
LEMMA SettingParts ==
    ASSUME NEW c \in ElectionSettings
    PROVE  /\ Len(c.failures) \in Nat /\ DOMAIN c.failures = 1..Len(c.failures)
           /\ c.initialLeaderId \in DOMAIN c.failures
           /\ c.failures[c.initialLeaderId] \in Seq([startMs : Nat, endMs : Nat])
           /\ c.initialTerm \in Nat /\ c.electionDurationMs \in Nat
           /\ c.heartbeatIntervalMs \in Nat \ {0} /\ c.electionTimeoutMs \in Nat \ {0}
  BY ElectionAssumption

\* The last heartbeat the followers saw precedes the failure by at most one interval.
LEMMA LastHeartbeat ==
    ASSUME NEW c \in ElectionSettings, c.failures[c.initialLeaderId] # <<>>
    PROVE  /\ lastHeartbeatMs(c) \in Nat
           /\ leaderFailure(c).startMs \in Nat /\ leaderFailure(c).endMs \in Nat
           /\ leaderFailure(c).startMs <= lastHeartbeatMs(c) + c.heartbeatIntervalMs
<1>1. leaderFailure(c) \in [startMs : Nat, endMs : Nat]
  <2> DEFINE list == c.failures[c.initialLeaderId]
  <2>1. list \in Seq([startMs : Nat, endMs : Nat]) /\ list # <<>>
    BY SettingParts
  <2> HIDE DEF list
  <2>2. list[1] \in [startMs : Nat, endMs : Nat]
    <3>1. \A S : \A l \in Seq(S) : l # <<>> => l[1] \in S
      OBVIOUS
    <3>2. QED
      BY <2>1, <3>1, Zenon
  <2>3. QED
    BY <2>2 DEF leaderFailure, list
<1> DEFINE s == leaderFailure(c).startMs
           h == c.heartbeatIntervalMs
           beats == (s + h - 1) \div h
<1>2. s \in Nat /\ leaderFailure(c).endMs \in Nat /\ h \in Nat \ {0}
  BY <1>1, SettingParts
<1>3. lastHeartbeatMs(c) = IF beats = 0 THEN 0 ELSE (beats - 1) * h
  BY DEF lastHeartbeatMs
<1> HIDE DEF s, h
<1>4. beats \in Nat /\ beats * h > (s + h - 1) - h
  <2>1. \A t \in Nat \ {0}, e \in Nat : e \div t \in Nat /\ (e \div t) * t > e - t
    BY SMT
  <2>2. s + h - 1 \in Nat
    BY <1>2
  <2>3. QED
    BY <1>2, <2>1, <2>2
<1> HIDE DEF beats
<1>5. CASE beats = 0
  <2>1. beats * h = 0
    BY <1>2, <1>5
  <2>2. QED
    BY <1>2, <1>3, <1>4, <1>5, <2>1 DEF s, h
<1>6. CASE beats # 0
  <2>1. beats - 1 \in Nat
    BY <1>4, <1>6
  <2>2. (beats - 1) * h \in Nat
    <3>1. \A a, b \in Nat : a * b \in Nat
      BY SMT
    <3>2. QED
      BY <1>2, <2>1, <3>1
  <2>3. (beats - 1) * h + h = beats * h
    BY <1>2, <1>4, SMT
  <2>4. QED
    BY <1>2, <1>3, <1>4, <1>6, <2>2, <2>3 DEF s, h
<1>7. QED
  BY <1>5, <1>6

\* The node that stands for election is one of the healthy followers.
LEMMA CandidateIsHealthy ==
    ASSUME NEW c \in ElectionSettings, healthyAtElection(c) # {}
    PROVE  (CHOOSE n \in healthyAtElection(c) : \A m \in healthyAtElection(c) : n <= m)
               \in healthyAtElection(c)
<1> DEFINE S == healthyAtElection(c)
<1>1. S \in SUBSET Nat
  BY SettingParts DEF healthyAtElection
<1> HIDE DEF S
<1>2. S # {}
  BY DEF S
<1>3. PICK m \in S : \A x \in S : ~(<<x, m>> \in OpToRel(<, Nat))
  BY <1>1, <1>2, NatLessThanWellFounded, WFMin
<1>4. \A x \in S : m <= x
  <2>1. \A x \in S : ~(x < m)
    BY <1>1, <1>3 DEF OpToRel
  <2>2. QED
    BY <1>1, <2>1
<1>5. QED
  BY <1>4 DEF S

ElectionRecord ==
    [config : ElectionSettings,
     phase : {"leading", "silent", "kept", "voting", "elected", "leaderless"},
     term : Nat, leader : Nat, candidate : Nat, voters : SUBSET Nat,
     recovered : BOOLEAN, fenced : BOOLEAN]

\* What the events of the trace have established at each of its phases.
ElectionInv ==
    LET e == election
        c == election.config
        contested == e.phase \in {"voting", "elected", "leaderless"}
    IN  /\ e \in ElectionRecord
        /\ e.phase \in {"leading", "silent", "kept"} => e.term = c.initialTerm
        /\ e.phase \in {"leading", "silent", "kept", "voting"} => e.leader = c.initialLeaderId
        /\ e.phase \in {"leading", "silent"} => ~e.recovered
        /\ e.fenced => e.phase = "elected"
        /\ e.phase = "silent" => c.failures[c.initialLeaderId] # <<>>
        /\ contested => /\ e.term = c.initialTerm + 1
                        /\ c.failures[c.initialLeaderId] # <<>>
                        /\ detectionAtMs(c) < leaderFailure(c).endMs
                        /\ e.candidate \in healthyAtElection(c) \cup {NoLeader}
                        /\ e.voters = healthyAtElection(c)
                        /\ e.candidate = NoLeader => e.voters = {}
        /\ e.phase = "leaderless" => ~electionSucceeded(c, e.candidate)
        /\ e.phase \in {"voting", "elected"} /\ e.recovered /\ ~e.fenced =>
               leaderFailure(c).endMs < leaderElectedAtMs(c)
        /\ e.phase = "elected" => electionSucceeded(c, e.candidate) /\ e.leader = e.candidate

\* The trace begins in the invariant.
LEMMA InitElection == election \in {ElectionOf(c) : c \in ElectionSettings} => ElectionInv
<1> SUFFICES ASSUME NEW c \in ElectionSettings, election = ElectionOf(c)
             PROVE  ElectionInv
  OBVIOUS
<1>1. c.initialTerm \in Nat /\ c.initialLeaderId \in Nat
  BY SettingParts
<1>2. QED
  BY <1>1 DEF ElectionOf, ElectionRecord, ElectionInv, NoLeader

\* Every event keeps it.
LEMMA NextElection == ElectionInv /\ [ElectionStep]_election => ElectionInv'
<1> SUFFICES ASSUME ElectionInv, [ElectionStep]_election
             PROVE  ElectionInv'
  OBVIOUS
<1> DEFINE e == election
           c == election.config
<1>1. CASE UNCHANGED election
  BY <1>1 DEF ElectionRecord, ElectionInv
<1>2. CASE LeaderFails
  BY <1>2 DEF ElectionRecord, ElectionInv, LeaderFails
<1>3. CASE RecoversUnnoticed
  BY <1>3 DEF ElectionRecord, ElectionInv, RecoversUnnoticed
<1>4. CASE TermStarts
  <2>1. detectionAtMs(c) \in Int /\ leaderFailure(c).endMs \in Int
    BY <1>4, LastHeartbeat, SettingParts DEF ElectionRecord, ElectionInv, TermStarts, detectionAtMs
  <2> DEFINE first == IF healthyAtElection(c) = {} THEN NoLeader
                      ELSE CHOOSE n \in healthyAtElection(c) :
                               \A m \in healthyAtElection(c) : n <= m
  <2>2. election' = [election EXCEPT !.phase = "voting", !.term = @ + 1,
                                     !.voters = healthyAtElection(c), !.candidate = first]
    BY <1>4 DEF TermStarts
  <2>3. /\ first \in healthyAtElection(c) \cup {NoLeader}
        /\ first = NoLeader => healthyAtElection(c) = {}
    <3>1. c \in ElectionSettings
      BY DEF ElectionRecord, ElectionInv
    <3>2. NoLeader \notin healthyAtElection(c)
      BY <3>1, SettingParts DEF healthyAtElection, NoLeader
    <3>3. CASE healthyAtElection(c) = {}
      BY <3>3
    <3>4. CASE healthyAtElection(c) # {}
      BY <3>1, <3>2, <3>4, CandidateIsHealthy
    <3>5. QED
      BY <3>3, <3>4
  <2>4. healthyAtElection(c) \in SUBSET Nat /\ first \in Nat
    <3>1. healthyAtElection(c) \in SUBSET Nat
      BY SettingParts DEF ElectionRecord, ElectionInv, healthyAtElection
    <3> HIDE DEF first
    <3>2. QED
      BY <2>3, <3>1 DEF NoLeader
  <2> HIDE DEF first
  <2>5. /\ election.phase = "silent" /\ election.fenced = FALSE /\ election.recovered = FALSE
        /\ detectionAtMs(c) < leaderFailure(c).endMs
    <3>1. election.phase = "silent" /\ leaderFailure(c).endMs > detectionAtMs(c)
      BY <1>4 DEF TermStarts
    <3>2. election.fenced = FALSE /\ election.recovered = FALSE
      BY <3>1 DEF ElectionRecord, ElectionInv
    <3>3. detectionAtMs(c) < leaderFailure(c).endMs
      BY <2>1, <3>1
    <3>4. QED
      BY <3>1, <3>2, <3>3
  <2>6. /\ e \in ElectionRecord /\ e.term = c.initialTerm /\ e.leader = c.initialLeaderId
        /\ c.failures[c.initialLeaderId] # <<>>
    BY <2>5 DEF ElectionInv
  <2>7. /\ election' \in ElectionRecord
        /\ election'.config = c /\ election'.phase = "voting" /\ election'.candidate = first
        /\ election'.term = c.initialTerm + 1 /\ election'.leader = c.initialLeaderId
        /\ election'.voters = healthyAtElection(c)
        /\ election'.recovered = FALSE /\ election'.fenced = FALSE
    <3>1. election \in ElectionRecord /\ election.term \in Nat /\ election.term + 1 \in Nat
      BY <2>6 DEF ElectionRecord
    <3>2. election' \in ElectionRecord
      BY <2>2, <2>4, <3>1 DEF ElectionRecord
    <3>3. /\ election'.config = election.config /\ election'.phase = "voting"
          /\ election'.candidate = first /\ election'.term = election.term + 1
          /\ election'.voters = healthyAtElection(c) /\ election'.leader = election.leader
          /\ election'.recovered = election.recovered /\ election'.fenced = election.fenced
      BY <2>2, <3>1 DEF ElectionRecord
    <3>4. QED
      BY <2>5, <2>6, <3>2, <3>3
  <2>8. QED
    BY <2>3, <2>5, <2>6, <2>7 DEF ElectionInv
<1>5. CASE ElectionCompletes
  <2> DEFINE elected == electionSucceeded(c, e.candidate)
  <2>1. /\ e.phase = "voting" /\ e.fenced = FALSE /\ e.candidate \in Nat
        /\ e.recovered => leaderFailure(c).endMs < leaderElectedAtMs(c)
    <3>1. e.phase = "voting"
      BY <1>5 DEF ElectionCompletes
    <3>2. e.fenced = FALSE /\ e.candidate \in Nat
      BY <3>1 DEF ElectionRecord, ElectionInv
    <3>3. e.recovered => leaderFailure(c).endMs < leaderElectedAtMs(c)
      BY <3>1, <3>2 DEF ElectionRecord, ElectionInv
    <3>4. QED
      BY <3>1, <3>2, <3>3
  <2>2. CASE elected
    <3>1. election' = [election EXCEPT !.phase = "elected", !.leader = e.candidate]
      BY <1>5, <2>2 DEF ElectionCompletes
    <3>2. QED
      BY <2>1, <2>2, <3>1 DEF ElectionRecord, ElectionInv
  <2>3. CASE ~elected
    <3>1. election' = [election EXCEPT !.phase = "leaderless", !.leader = NoLeader]
      BY <1>5, <2>3 DEF ElectionCompletes
    <3>2. QED
      BY <2>1, <2>3, <3>1 DEF ElectionRecord, ElectionInv, NoLeader
  <2>4. QED
    BY <2>2, <2>3
<1>6. CASE OldLeaderRecovers
  <2>1. election' = [election EXCEPT !.recovered = TRUE, !.fenced = (e.phase = "elected")]
    BY <1>6 DEF OldLeaderRecovers
  <2>2. CASE e.phase = "voting" /\ leaderFailure(c).endMs < leaderElectedAtMs(c)
    <3>1. election' = [election EXCEPT !.recovered = TRUE, !.fenced = FALSE]
      BY <2>1, <2>2
    <3>2. QED
      BY <2>2, <3>1 DEF ElectionRecord, ElectionInv
  <2>3. CASE e.phase = "elected"
    <3>1. election' = [election EXCEPT !.recovered = TRUE, !.fenced = TRUE]
      BY <2>1, <2>3
    <3>2. QED
      BY <2>3, <3>1 DEF ElectionRecord, ElectionInv
  <2>4. CASE e.phase = "leaderless"
    <3>1. election' = [election EXCEPT !.recovered = TRUE, !.fenced = FALSE]
      BY <2>1, <2>4
    <3>2. QED
      BY <2>4, <3>1 DEF ElectionRecord, ElectionInv
  <2>5. QED
    BY <1>6, <2>2, <2>3, <2>4 DEF OldLeaderRecovers
<1>7. QED
  BY <1>1, <1>2, <1>3, <1>4, <1>5, <1>6 DEF ElectionStep

\* The property of the trace follows: a term that began did so after a missed heartbeat, and
\* the votes decide who leads in it.
LEMMA ElectionPromises == ElectionInv => ElectionsReplaceTheFailed
<1> SUFFICES ASSUME ElectionInv
             PROVE  ElectionsReplaceTheFailed
  OBVIOUS
<1> DEFINE e == election
           c == election.config
<1>1. c \in ElectionSettings /\ c.initialTerm \in Nat /\ c.electionDurationMs \in Nat
      /\ c.electionTimeoutMs \in Nat /\ c.heartbeatIntervalMs \in Nat
      /\ c.initialLeaderId \in DOMAIN c.failures
  BY SettingParts DEF ElectionRecord, ElectionInv
<1>2. OnlyAfterFailure
  <2> SUFFICES ASSUME e.term > c.initialTerm, c.electionTimeoutMs >= c.heartbeatIntervalMs
               PROVE  isElectionNodeFailed(c, c.initialLeaderId, detectionAtMs(c))
    BY DEF OnlyAfterFailure
  <2>1. /\ c.failures[c.initialLeaderId] # <<>>
        /\ detectionAtMs(c) < leaderFailure(c).endMs
    BY <1>1 DEF ElectionRecord, ElectionInv
  <2>2. leaderFailure(c).startMs <= detectionAtMs(c)
    BY <1>1, <2>1, LastHeartbeat DEF detectionAtMs
  <2>3. 1 \in DOMAIN c.failures[c.initialLeaderId]
    BY <1>1, <2>1, SettingParts
  <2>4. QED
    BY <2>1, <2>2, <2>3 DEF isElectionNodeFailed, leaderFailure
<1>3. DecidedByTheVoters
  <2> DEFINE back == healthyAtCompletion(c)
             size == Len(c.failures)
             majority == 2 * Cardinality(e.voters) > size
  <2>1. size \in Nat /\ DOMAIN c.failures = 1..size
    BY <1>1, SettingParts
  <2>2. IsFiniteSet(1..size)
    <3>1. 1 \in Int /\ size \in Int
      BY <2>1
    <3>2. QED
      BY <3>1, FS_Interval
  <2>3. ASSUME NEW S, S \subseteq 1..size
        PROVE  IsFiniteSet(S) /\ Cardinality(S) \in Nat
    BY <2>2, <2>3, FS_Subset, FS_CardinalityType
  <2>4. back \subseteq 1..size /\ healthyAtElection(c) \subseteq 1..size
    BY <2>1 DEF healthyAtCompletion, healthyAtElection
  <2>5. \A l, k \in Nat : k >= l \div 2 + 1 <=> 2 * k > l
    BY SMT
  <2>6. ASSUME e.phase = "elected"
        PROVE  /\ e.leader \in e.voters \ {c.initialLeaderId}
               /\ ~isElectionNodeFailed(c, e.leader, detectionAtMs(c))
               /\ ~isElectionNodeFailed(c, e.leader, leaderElectedAtMs(c))
               /\ majority \/ ~(back \subseteq e.voters)
    <3>1. /\ electionSucceeded(c, e.candidate) /\ e.leader = e.candidate
          /\ e.candidate \in healthyAtElection(c) /\ e.voters = healthyAtElection(c)
      BY <2>6 DEF ElectionRecord, ElectionInv, electionSucceeded
    <3>2. /\ e.leader \in e.voters \ {c.initialLeaderId}
          /\ ~isElectionNodeFailed(c, e.leader, detectionAtMs(c))
          /\ ~isElectionNodeFailed(c, e.leader, leaderElectedAtMs(c))
      BY <3>1 DEF healthyAtElection, electionSucceeded
    <3>3. ASSUME back \subseteq e.voters PROVE majority
      <4>1. IsFiniteSet(e.voters) /\ Cardinality(e.voters) \in Nat /\ Cardinality(back) \in Nat
        BY <2>3, <2>4, <3>1
      <4>2. Cardinality(back) <= Cardinality(e.voters)
        BY <3>3, <4>1, FS_Subset
      <4>3. Cardinality(back) >= size \div 2 + 1
        BY <3>1 DEF electionSucceeded, quorumSize
      <4>4. 2 * Cardinality(back) > size
        BY <2>1, <2>5, <4>1, <4>3
      <4>5. QED
        BY <2>1, <4>1, <4>2, <4>4
    <3>4. QED
      BY <3>2, <3>3
  <2>7. ASSUME e.phase = "leaderless", majority
        PROVE  \E n \in e.voters : isElectionNodeFailed(c, n, leaderElectedAtMs(c))
    <3>1. SUFFICES ASSUME \A n \in e.voters : ~isElectionNodeFailed(c, n, leaderElectedAtMs(c))
                   PROVE  FALSE
      OBVIOUS
    <3>2. /\ ~electionSucceeded(c, e.candidate) /\ e.voters = healthyAtElection(c)
          /\ e.candidate \in healthyAtElection(c) \cup {NoLeader}
          /\ e.candidate = NoLeader => e.voters = {}
      BY <2>7 DEF ElectionRecord, ElectionInv
    <3>3. ASSUME e.voters = {} PROVE FALSE
      <4>1. Cardinality(e.voters) = 0
        BY <3>3, FS_EmptySet
      <4>2. QED
        BY <2>1, <2>7, <4>1
    <3>4. e.candidate \in e.voters /\ e.candidate # NoLeader
      BY <3>2, <3>3
    <3>5. e.voters \subseteq back
      BY <2>1, <2>4, <3>1, <3>2 DEF healthyAtCompletion
    <3>6. IsFiniteSet(back) /\ Cardinality(e.voters) \in Nat /\ Cardinality(back) \in Nat
      BY <2>3, <2>4, <3>2
    <3>7. Cardinality(e.voters) <= Cardinality(back)
      BY <3>5, <3>6, FS_Subset
    <3>8. 2 * Cardinality(back) > size
      BY <2>1, <2>7, <3>6, <3>7
    <3>9. Cardinality(back) >= size \div 2 + 1
      BY <2>1, <2>5, <3>6, <3>8
    <3>10. QED
      BY <3>1, <3>2, <3>4, <3>9 DEF electionSucceeded, quorumSize
  <2>8. QED
    BY <2>6, <2>7 DEF DecidedByTheVoters
<1>4. OldLeaderIsFenced
  BY <1>1 DEF ElectionRecord, ElectionInv, OldLeaderIsFenced, electionSucceeded
<1>5. QED
  BY <1>2, <1>3, <1>4 DEF ElectionsReplaceTheFailed

\* simulateElection, for any number of nodes, any failures and any timing: a new term begins
\* only while the old leader is down; its leader is a voter, up at both ends, and elected by a
\* majority of votes unless somebody who is no voter is up at the end; a majority of voters that
\* stays up does elect; and the old leader is refused unless it came back during the election.
THEOREM ElectionsAreDecided == ElectionSpec => []ElectionsReplaceTheFailed
<1>1. ElectionSpec => []ElectionInv
  BY InitElection, NextElection, PTL DEF ElectionSpec
<1>2. QED
  BY <1>1, ElectionPromises, PTL

-----------------------------------------------------------------------------

(* The CAP exhibit. *)

\* The largest element of a bounded set of numbers.
LEMMA LargestIsMax ==
    ASSUME NEW S \in SUBSET Nat, S # {}, NEW b \in Nat, \A x \in S : x <= b
    PROVE  Max(S) \in S /\ Max(S) \in Nat /\ \A x \in S : x <= Max(S)
<1> DEFINE T == {b - x : x \in S}
<1>1. T \in SUBSET Nat /\ T # {}
  OBVIOUS
<1> HIDE DEF T
<1>2. PICK m \in T : \A y \in T : ~(<<y, m>> \in OpToRel(<, Nat))
  BY <1>1, NatLessThanWellFounded, WFMin
<1>3. \A y \in T : m <= y
  <2>1. \A y \in T : ~(y < m)
    BY <1>1, <1>2 DEF OpToRel
  <2>2. QED
    BY <1>1, <2>1
<1>4. PICK x \in S : m = b - x
  BY DEF T
<1>5. \A y \in S : x >= y
  <2>1. \A y \in S : b - y \in T
    BY DEF T
  <2>2. \A y \in S : b - x <= b - y
    BY <1>3, <1>4, <2>1
  <2>3. QED
    BY <2>2
<1>6. Max(S) \in S /\ \A y \in S : Max(S) >= y
  BY <1>5 DEF Max
<1>7. QED
  BY <1>6

-----------------------------------------------------------------------------

(* What the states of a simulation have in common. *)

CapOperations ==
    [region : CapRegions, write : BOOLEAN, partitioned : BOOLEAN, success : BOOLEAN,
     observedVersion : Nat, newestVersion : Nat, stale : BOOLEAN, divergent : BOOLEAN]

CapStates ==
    [config : CapSettings, version : [CapRegions -> Nat], newestVersion : Nat,
     pending : SUBSET [applyAtOperation : Nat, target : CapRegions, version : Nat],
     partitionWrites : Nat, reconciliationWrites : Nat, operations : Seq(CapOperations)]

\* A write that succeeded; k counts operations from 1.
Written(s, k) == s.operations[k].write /\ s.operations[k].success

\* A state, and what is in it is no newer than the newest version.
CapSound(s) ==
    /\ s \in CapStates
    /\ \A r \in CapRegions : s.version[r] <= s.newestVersion
    /\ \A p \in s.pending : p.version <= s.newestVersion
    /\ \A k \in 1..Len(s.operations) :
           /\ s.operations[k].observedVersion <= s.newestVersion
           /\ s.operations[k].partitioned = Partitioned(s.config, k - 1)

\* Region B falls behind only during the partition, until the first write after it.
QuorumSound(s) ==
    LET healed == s.config.partitionEnd + 1
        n == Len(s.operations)
    IN  /\ s.pending = {}
        /\ s.version["A"] = s.newestVersion
        /\ s.version["B"] # s.newestVersion =>
               n > s.config.partitionStart /\ \A j \in healed..n : ~Written(s, j)
        /\ \A k \in 1..n :
               LET op == s.operations[k]
               IN  /\ op.partitioned /\ op.region = "B" => ~op.success
                   /\ op.stale => op.region = "B" /\ k >= healed
                                  /\ \A j \in healed..k : ~Written(s, j)

\* A replication of write k is under way to region r.
InFlight(s, k, r) ==
    \E p \in s.pending : /\ p.target = r /\ p.version = s.operations[k].observedVersion
                         /\ p.applyAtOperation = (k - 1) + s.config.lagOperations

Has(s, k, r) == s.version[r] >= s.operations[k].observedVersion

\* Every write is in both regions, on its way, or was made during a partition that lasts; and
\* what an operation answered was no older than promised.
LocalSound(s, healed) ==
    LET n == Len(s.operations)
        end == s.config.partitionEnd
    IN  /\ \A k \in 1..n : s.operations[k].success
        /\ \A k \in 1..n : Written(s, k) =>
               \A r \in CapRegions :
                   Has(s, k, r) \/ (s.operations[k].partitioned /\ ~healed) \/ InFlight(s, k, r)
        /\ healed => \A k \in 1..n : Written(s, k) /\ k <= end =>
                         \A r \in CapRegions : Has(s, k, r)
        /\ \A k, j \in 1..n :
               ~s.operations[k].partitioned /\ Written(s, j)
               /\ (j <= k - s.config.lagOperations \/ (k > end /\ j <= end))
               => s.operations[k].observedVersion >= s.operations[j].observedVersion

CapInv ==
    /\ CapSound(cap)
    /\ cap.config.strategy = "quorum-consistency" => QuorumSound(cap)
    /\ cap.config.strategy = "local-availability" =>
           LocalSound(cap, Len(cap.operations) > cap.config.partitionEnd)

-----------------------------------------------------------------------------

(* The steps before an operation. *)

\* A configuration's parts.
LEMMA CapConfig ==
    ASSUME NEW c \in CapSettings
    PROVE  /\ c.strategy \in {"quorum-consistency", "local-availability"}
           /\ c.operationCount \in Nat /\ c.lagOperations \in Nat
           /\ c.partitionStart \in Nat /\ c.partitionEnd \in Nat
           /\ c.partitionStart <= c.partitionEnd
  BY CapAssumption

\* What a simulation records of an operation.
LEMMA CapRecorded ==
    ASSUME NEW s \in CapStates, NEW k \in 1..Len(s.operations)
    PROVE  /\ s.operations[k] \in CapOperations
           /\ s.operations[k].observedVersion \in Nat
<1>1. s.operations \in Seq(CapOperations)
  BY DEF CapStates
<1>2. \A S : \A q \in Seq(S) : \A i \in 1..Len(q) : q[i] \in S
  OBVIOUS
<1>3. s.operations[k] \in CapOperations
  BY <1>1, <1>2, Zenon
<1>4. QED
  BY <1>3 DEF CapOperations

\* When the partition heals every region has everything.
LEMMA ReconciledSound ==
    ASSUME NEW s, CapSound(s), NEW n, n = Len(s.operations)
    PROVE  LET t == Reconciled(s, n)
               end == s.config.partitionEnd
           IN  /\ CapSound(t) /\ t.config = s.config /\ t.operations = s.operations
               /\ s.config.strategy = "quorum-consistency" => t = s
               /\ s.config.strategy = "local-availability" /\ LocalSound(s, n > end) =>
                      LocalSound(t, n >= end)
<1> DEFINE t == Reconciled(s, n)
           end == s.config.partitionEnd
           newest == s.newestVersion
<1>1. s \in CapStates /\ s.config \in CapSettings /\ n \in Nat /\ end \in Nat /\ newest \in Nat
      /\ s.version \in [CapRegions -> Nat] /\ "A" \in CapRegions /\ "B" \in CapRegions
  BY CapConfig DEF CapSound, CapStates, CapRegions
<1>2. CASE ~(n = end /\ s.config.strategy = "local-availability")
  <2>1. t = s
    BY <1>2 DEF Reconciled
  <2>2. s.config.strategy = "local-availability" => (n > end <=> n >= end)
    BY <1>1, <1>2
  <2>3. LocalSound(s, n > end) /\ s.config.strategy = "local-availability" => LocalSound(s, n >= end)
    BY <2>2 DEF LocalSound
  <2>4. QED
    BY <2>1, <2>3
<1>3. CASE n = end /\ s.config.strategy = "local-availability"
  <2> DEFINE all == {s.version["A"], s.version["B"], newest}
  <2>1. Max(all) = newest
    <3>1. all \in SUBSET Nat /\ newest \in all /\ \A x \in all : x <= newest
      BY <1>1 DEF CapSound
    <3> HIDE DEF all
    <3>2. Max(all) \in all /\ \A x \in all : x <= Max(all)
      BY <1>1, <3>1, LargestIsMax
    <3>3. Max(all) \in Nat /\ Max(all) <= newest /\ newest <= Max(all)
      BY <1>1, <3>1, <3>2
    <3>4. QED
      BY <1>1, <3>3
  <2>2. t = [s EXCEPT !.version = [r \in CapRegions |-> newest], !.newestVersion = newest,
                      !.reconciliationWrites = s.partitionWrites]
    BY <1>3, <2>1 DEF Reconciled
  <2> HIDE DEF t, newest
  <2>3. t \in CapStates
    BY <1>1, <2>2 DEF CapStates
  <2>4. /\ t.version = [r \in CapRegions |-> newest] /\ t.newestVersion = newest
        /\ t.config = s.config /\ t.operations = s.operations /\ t.pending = s.pending
    BY <1>1, <2>2 DEF CapStates
  <2>5. CapSound(t)
    BY <1>1, <2>3, <2>4 DEF CapSound, newest
  <2>6. \A k \in 1..n, r \in CapRegions : Has(t, k, r)
    <3>1. \A k \in 1..n : s.operations[k].observedVersion <= newest
      BY DEF CapSound, newest
    <3>2. \A k \in 1..n : s.operations[k].observedVersion \in Nat
      BY <1>1, CapRecorded
    <3>3. QED
      BY <1>1, <2>4, <3>1, <3>2 DEF Has
  <2>7. LocalSound(s, n > end) => LocalSound(t, n >= end)
    BY <1>1, <2>4, <2>6 DEF LocalSound, Written
  <2>8. QED
    BY <1>3, <2>4, <2>5, <2>7 DEF t
<1>4. QED
  BY <1>2, <1>3

\* Replications that are due have reached their region, unless it is cut off.
LEMMA AppliedSound ==
    ASSUME NEW s, CapSound(s), NEW n, n = Len(s.operations)
    PROVE  LET t == applyPending(s, n)
               healed == n >= s.config.partitionEnd
           IN  /\ CapSound(t) /\ t.config = s.config /\ t.operations = s.operations
               /\ QuorumSound(s) => QuorumSound(t)
               /\ LocalSound(s, healed) =>
                      /\ LocalSound(t, healed)
                      /\ ~Partitioned(s.config, n) =>
                             \A k \in 1..n : Written(s, k) /\ k <= (n + 1) - s.config.lagOperations =>
                                 \A r \in CapRegions : Has(t, k, r)
<1> DEFINE t == applyPending(s, n)
           healed == n >= s.config.partitionEnd
           newest == s.newestVersion
           due == {p \in s.pending : p.applyAtOperation <= n}
           reaching(r) == {s.version[r]} \cup {p.version : p \in {q \in due : q.target = r}}
<1>1. s \in CapStates /\ s.config \in CapSettings /\ n \in Nat /\ newest \in Nat
      /\ s.config.partitionEnd \in Nat /\ s.config.partitionStart \in Nat
      /\ s.config.lagOperations \in Nat
      /\ s.version \in [CapRegions -> Nat] /\ "A" \in CapRegions /\ "B" \in CapRegions
      /\ s.pending \in SUBSET [applyAtOperation : Nat, target : CapRegions, version : Nat]
  BY CapConfig DEF CapSound, CapStates, CapRegions
<1>2. CASE Partitioned(s.config, n)
  BY <1>2 DEF applyPending
<1>3. CASE ~Partitioned(s.config, n)
  <2>1. t = [s EXCEPT !.pending = s.pending \ due,
                      !.version = [r \in CapRegions |-> Max(reaching(r))]]
    BY <1>1, <1>3 DEF applyPending
  <2>2. \A r \in CapRegions :
            /\ Max(reaching(r)) \in Nat /\ Max(reaching(r)) <= newest
            /\ s.version[r] <= Max(reaching(r))
            /\ \A p \in due : p.target = r => p.version <= Max(reaching(r))
            /\ due = {} => Max(reaching(r)) = s.version[r]
    <3> TAKE r \in CapRegions
    <3> DEFINE S == reaching(r)
    <3>1. S \in SUBSET Nat /\ S # {} /\ \A x \in S : x <= newest
      BY <1>1 DEF CapSound
    <3>2. s.version[r] \in S /\ (\A p \in due : p.target = r => p.version \in S)
          /\ (due = {} => S = {s.version[r]})
      OBVIOUS
    <3> HIDE DEF S
    <3>3. Max(S) \in S /\ Max(S) \in Nat /\ \A x \in S : x <= Max(S)
      BY <1>1, <3>1, LargestIsMax
    <3>4. /\ Max(S) \in Nat /\ Max(S) <= newest /\ s.version[r] <= Max(S)
          /\ \A p \in due : p.target = r => p.version <= Max(S)
          /\ due = {} => Max(S) = s.version[r]
      <4> HIDE DEF due
      <4>1. Max(S) \in Nat /\ Max(S) <= newest /\ s.version[r] <= Max(S)
        BY <3>1, <3>2, <3>3, Zenon
      <4>2. \A p \in due : p.target = r => p.version <= Max(S)
        BY <3>2, <3>3, Zenon
      <4>3. due = {} => Max(S) = s.version[r]
        BY <3>2, <3>3, Zenon
      <4>4. QED
        BY <4>1, <4>2, <4>3
    <3>5. QED
      BY <3>4 DEF S
  <2> DEFINE arrived == [r \in CapRegions |-> Max(reaching(r))]
  <2>3. arrived \in [CapRegions -> Nat]
    BY <2>2
  <2>4. /\ \A r \in CapRegions : s.version[r] <= arrived[r] /\ arrived[r] <= newest
        /\ \A p \in due : p.version <= arrived[p.target]
        /\ due = {} => \A r \in CapRegions : arrived[r] = s.version[r]
    BY <1>1, <2>2
  <2>5. t = [s EXCEPT !.pending = s.pending \ due, !.version = arrived]
    BY <2>1
  <2> HIDE DEF t, arrived, reaching
  <2>6. /\ t \in CapStates
        /\ t.version = arrived /\ t.newestVersion = newest /\ t.config = s.config
        /\ t.operations = s.operations /\ t.pending = s.pending \ due
    BY <1>1, <2>3, <2>5 DEF CapStates
  <2>7. CapSound(t)
    BY <2>4, <2>6 DEF CapSound
  <2>8. QuorumSound(s) => QuorumSound(t)
    <3> SUFFICES ASSUME QuorumSound(s)
                 PROVE  QuorumSound(t)
      OBVIOUS
    <3>1. s.pending = {} /\ due = {} /\ t.pending = {}
      BY <2>6 DEF QuorumSound
    <3>2. t.version["A"] = s.version["A"] /\ t.version["B"] = s.version["B"]
      BY <1>1, <2>4, <2>6, <3>1
    <3>3. QED
      BY <2>6, <3>1, <3>2 DEF QuorumSound, Written
  <2>9. \A k \in 1..n : s.operations[k].observedVersion \in Nat
    BY <1>1, CapRecorded
  <2>10. \A k \in 1..n, r \in CapRegions : Has(s, k, r) => Has(t, k, r)
    <3>1. \A r \in CapRegions : s.version[r] \in Nat /\ arrived[r] \in Nat
      BY <1>1, <2>3
    <3>2. QED
      BY <2>4, <2>6, <2>9, <3>1 DEF Has
  <2>11. \A k \in 1..n, r \in CapRegions : InFlight(s, k, r) =>
            \/ Has(t, k, r)
            \/ InFlight(t, k, r) /\ (k - 1) + s.config.lagOperations > n
    <3> TAKE k \in 1..n, r \in CapRegions
    <3> SUFFICES ASSUME NEW p \in s.pending, p.target = r,
                        p.version = s.operations[k].observedVersion,
                        p.applyAtOperation = (k - 1) + s.config.lagOperations
                 PROVE  \/ Has(t, k, r)
                        \/ InFlight(t, k, r) /\ (k - 1) + s.config.lagOperations > n
      BY DEF InFlight
    <3>1. CASE p \in due
      BY <2>4, <2>6, <3>1 DEF Has
    <3>2. CASE p \notin due
      BY <1>1, <2>6, <3>2, SMTT(30) DEF InFlight
    <3>3. QED
      BY <3>1, <3>2
  <2>12. LocalSound(s, healed) => LocalSound(t, healed)
    BY <2>6, <2>10, <2>11 DEF LocalSound, Written
  <2>13. ASSUME LocalSound(s, healed), NEW k \in 1..n, Written(s, k),
                k <= (n + 1) - s.config.lagOperations, NEW r \in CapRegions
         PROVE  Has(t, k, r)
    <3>1. CASE s.operations[k].partitioned /\ ~healed
      <4>1. Partitioned(s.config, k - 1)
        BY <3>1 DEF CapSound
      <4>2. QED
        BY <1>1, <1>3, <3>1, <4>1 DEF Partitioned
    <3>2. CASE Has(s, k, r)
      BY <2>10, <3>2
    <3>3. CASE InFlight(s, k, r)
      BY <1>1, <2>11, <2>13, <3>3
    <3>4. QED
      BY <2>13, <3>1, <3>2, <3>3 DEF LocalSound
  <2>14. QED
    BY <2>6, <2>7, <2>8, <2>12, <2>13 DEF t
<1>4. QED
  BY <1>2, <1>3

-----------------------------------------------------------------------------

(* The operations: s is the state before one, t the state after it. *)

\* One more operation on record.
LEMMA OneMoreOperation ==
    \A s \in CapStates, op \in CapOperations : \A t :
        t.operations = Append(s.operations, op) =>
            /\ Len(s.operations) \in Nat /\ Len(t.operations) = Len(s.operations) + 1
            /\ t.operations \in Seq(CapOperations)
            /\ \A k \in 1..Len(s.operations) : t.operations[k] = s.operations[k]
            /\ t.operations[Len(s.operations) + 1] = op
            /\ \A k \in 1..Len(s.operations) : Written(t, k) <=> Written(s, k)
<1> SUFFICES ASSUME NEW s \in CapStates, NEW op \in CapOperations, NEW t,
                    t.operations = Append(s.operations, op)
             PROVE  /\ Len(s.operations) \in Nat /\ Len(t.operations) = Len(s.operations) + 1
                    /\ t.operations \in Seq(CapOperations)
                    /\ \A k \in 1..Len(s.operations) : t.operations[k] = s.operations[k]
                    /\ t.operations[Len(s.operations) + 1] = op
                    /\ \A k \in 1..Len(s.operations) : Written(t, k) <=> Written(s, k)
  OBVIOUS
<1>1. s.operations \in Seq(CapOperations)
  BY DEF CapStates
<1>2. QED
  BY <1>1 DEF Written

\* What an operation adds to a sound state.
LEMMA SoundExtends ==
    ASSUME NEW s, CapSound(s), NEW t \in CapStates, NEW op \in CapOperations,
           t.config = s.config, t.operations = Append(s.operations, op),
           op.partitioned = Partitioned(s.config, Len(s.operations)),
           s.newestVersion <= t.newestVersion, op.observedVersion <= t.newestVersion,
           \A r \in CapRegions : t.version[r] <= t.newestVersion,
           \A p \in t.pending : p.version <= t.newestVersion
    PROVE  CapSound(t)
<1> DEFINE n == Len(s.operations)
<1>1. s \in CapStates
  BY DEF CapSound
<1>2. /\ n \in Nat /\ Len(t.operations) = n + 1
      /\ \A k \in 1..n : t.operations[k] = s.operations[k]
      /\ t.operations[n + 1] = op
  BY <1>1, OneMoreOperation
<1>3. ASSUME NEW k \in 1..Len(t.operations)
      PROVE  /\ t.operations[k].observedVersion <= t.newestVersion
             /\ t.operations[k].partitioned = Partitioned(t.config, k - 1)
  <2>1. CASE k = n + 1
    <3>1. k - 1 = Len(s.operations) /\ t.operations[k] = op
      BY <1>2, <2>1
    <3>2. QED
      BY <3>1
  <2>2. CASE k \in 1..n
    <3>1. s.operations[k].observedVersion \in Nat
      BY <1>1, <2>2, CapRecorded
    <3>2. s.newestVersion \in Nat /\ t.newestVersion \in Nat
      BY <1>1 DEF CapStates
    <3>3. QED
      BY <1>2, <2>2, <3>1, <3>2 DEF CapSound
  <2>3. QED
    BY <1>2, <1>3, <2>1, <2>2
<1>4. QED
  BY <1>3 DEF CapSound

\* With the quorum strategy.
LEMMA QuorumExtends ==
    ASSUME NEW s, CapSound(s), QuorumSound(s), NEW t \in CapStates, NEW op \in CapOperations,
           t.config = s.config, t.operations = Append(s.operations, op),
           t.pending = {}, t.version["A"] = t.newestVersion,
           op.partitioned /\ op.region = "B" => ~op.success,
           op.stale => /\ op.region = "B" /\ Len(s.operations) >= s.config.partitionEnd
                       /\ ~op.write /\ s.version["B"] # s.newestVersion,
           t.version["B"] # t.newestVersion =>
               \/ s.version["B"] # s.newestVersion /\ ~(op.write /\ op.success)
               \/ /\ s.config.partitionStart <= Len(s.operations)
                  /\ Len(s.operations) < s.config.partitionEnd
    PROVE  QuorumSound(t)
<1> DEFINE n == Len(s.operations)
           healed == s.config.partitionEnd + 1
<1>1. s \in CapStates /\ s.config.partitionEnd \in Nat /\ s.config.partitionStart \in Nat
  BY CapConfig DEF CapSound, CapStates
<1>2. /\ n \in Nat /\ Len(t.operations) = n + 1
      /\ \A k \in 1..n : t.operations[k] = s.operations[k]
      /\ t.operations[n + 1] = op
      /\ \A k \in 1..n : Written(t, k) <=> Written(s, k)
  BY <1>1, OneMoreOperation
<1>3. Written(t, n + 1) <=> op.write /\ op.success
  BY <1>2 DEF Written
<1>4. ASSUME t.version["B"] # t.newestVersion
      PROVE  n + 1 > s.config.partitionStart /\ \A j \in healed..(n + 1) : ~Written(t, j)
  <2>1. CASE s.version["B"] # s.newestVersion /\ ~(op.write /\ op.success)
    <3>1. n > s.config.partitionStart /\ \A j \in healed..n : ~Written(s, j)
      BY <2>1 DEF QuorumSound
    <3>2. n + 1 > s.config.partitionStart
      BY <1>1, <1>2, <3>1
    <3>3. ASSUME NEW j \in healed..(n + 1)
          PROVE  ~Written(t, j)
      <4>1. CASE j = n + 1
        BY <1>3, <2>1, <4>1
      <4>2. CASE j # n + 1
        <5>1. j \in healed..n /\ j \in 1..n
          BY <1>1, <1>2, <4>2
        <5>2. QED
          BY <1>2, <3>1, <5>1
      <4>3. QED
        BY <4>1, <4>2
    <3>4. QED
      BY <3>2, <3>3
  <2>2. CASE s.config.partitionStart <= n /\ n < s.config.partitionEnd
    BY <1>1, <1>2, <2>2
  <2>3. QED
    BY <1>4, <2>1, <2>2
<1>5. ASSUME NEW k \in 1..(n + 1)
      PROVE  /\ t.operations[k].partitioned /\ t.operations[k].region = "B" =>
                    ~t.operations[k].success
             /\ t.operations[k].stale =>
                    t.operations[k].region = "B" /\ k >= healed
                    /\ \A j \in healed..k : ~Written(t, j)
  <2>1. CASE k = n + 1
    <3> SUFFICES ASSUME op.stale
                 PROVE  op.region = "B" /\ n + 1 >= healed /\ \A j \in healed..(n + 1) : ~Written(t, j)
      BY <1>2, <2>1
    <3>1. \A j \in healed..n : ~Written(s, j)
      BY DEF QuorumSound
    <3>2. QED
      BY <1>1, <1>2, <1>3, <3>1, SMTT(30)
  <2>2. CASE k \in 1..n
    <3>1. /\ s.operations[k].partitioned /\ s.operations[k].region = "B" =>
                 ~s.operations[k].success
          /\ s.operations[k].stale =>
                 s.operations[k].region = "B" /\ k >= healed
                 /\ \A j \in healed..k : ~Written(s, j)
      BY <2>2 DEF QuorumSound
    <3>2. QED
      BY <1>1, <1>2, <2>2, <3>1
  <2>3. QED
    BY <1>2, <1>5, <2>1, <2>2
<1>6. QED
  BY <1>2, <1>4, <1>5 DEF QuorumSound

\* With the local strategy.
LEMMA LocalExtends ==
    ASSUME NEW s, CapSound(s), NEW t \in CapStates, NEW op \in CapOperations,
           LocalSound(s, Len(s.operations) >= s.config.partitionEnd),
           ~op.partitioned =>
               \A k \in 1..Len(s.operations) :
                   Written(s, k) /\ k <= (Len(s.operations) + 1) - s.config.lagOperations =>
                       \A r \in CapRegions : Has(s, k, r),
           t.config = s.config, t.operations = Append(s.operations, op), op.success,
           op.partitioned = Partitioned(s.config, Len(s.operations)),
           \E r \in CapRegions : op.observedVersion >= s.version[r],
           \A r \in CapRegions : t.version[r] >= s.version[r],
           s.pending \subseteq t.pending,
           op.write =>
               \A r \in CapRegions :
                   Has(t, Len(s.operations) + 1, r) \/ op.partitioned
                   \/ InFlight(t, Len(s.operations) + 1, r)
    PROVE  LocalSound(t, Len(t.operations) > t.config.partitionEnd)
<1> DEFINE n == Len(s.operations)
           end == s.config.partitionEnd
           lag == s.config.lagOperations
           healed == n >= end
<1>1. s \in CapStates /\ end \in Nat /\ s.config.partitionStart \in Nat /\ lag \in Nat
      /\ s.version \in [CapRegions -> Nat] /\ t.version \in [CapRegions -> Nat]
  BY CapConfig DEF CapSound, CapStates
<1>2. /\ n \in Nat /\ Len(t.operations) = n + 1
      /\ \A k \in 1..n : t.operations[k] = s.operations[k]
      /\ t.operations[n + 1] = op
      /\ \A k \in 1..n : Written(t, k) <=> Written(s, k)
  <2>1. s \in CapStates /\ op \in CapOperations /\ t.operations = Append(s.operations, op)
    BY <1>1
  <2>2. QED
    <3>1. /\ Len(s.operations) \in Nat /\ Len(t.operations) = Len(s.operations) + 1
          /\ \A k \in 1..Len(s.operations) : t.operations[k] = s.operations[k]
          /\ t.operations[Len(s.operations) + 1] = op
          /\ \A k \in 1..Len(s.operations) : Written(t, k) <=> Written(s, k)
      BY ONLY <2>1, OneMoreOperation
    <3>2. QED
      BY <3>1
<1>3. Len(t.operations) > t.config.partitionEnd <=> healed
  BY <1>1, <1>2
<1>4. /\ \A k \in 1..n, r \in CapRegions : Has(s, k, r) => Has(t, k, r)
      /\ \A k \in 1..n, r \in CapRegions : InFlight(s, k, r) => InFlight(t, k, r)
  <2>1. \A k \in 1..n : s.operations[k].observedVersion \in Nat
    BY <1>1, CapRecorded
  <2>2. \A r \in CapRegions : s.version[r] \in Nat /\ t.version[r] \in Nat
    BY <1>1
  <2>3. QED
    BY <1>2, <2>1, <2>2 DEF Has, InFlight
<1>5. op.partitioned => ~healed
  <2>1. op.partitioned <=> Partitioned(s.config, n)
    BY DEF CapOperations
  <2>2. Partitioned(s.config, n) => ~healed
    BY <1>1, <1>2 DEF Partitioned
  <2>3. QED
    BY <2>1, <2>2
<1>6. \A k \in 1..(n + 1) : t.operations[k].success
  BY <1>2 DEF LocalSound
<1>7. ASSUME NEW k \in 1..(n + 1), Written(t, k), NEW r \in CapRegions
      PROVE  Has(t, k, r) \/ (t.operations[k].partitioned /\ ~healed) \/ InFlight(t, k, r)
  <2>1. CASE k = n + 1
    BY <1>2, <1>5, <1>7, <2>1 DEF Written
  <2>2. CASE k \in 1..n
    BY <1>2, <1>4, <1>7, <2>2 DEF LocalSound
  <2>3. QED
    BY <1>2, <1>7, <2>1, <2>2
<1>8. ASSUME healed, NEW k \in 1..(n + 1), Written(t, k), k <= end, NEW r \in CapRegions
      PROVE  Has(t, k, r)
  <2>1. k \in 1..n
    BY <1>1, <1>2, <1>8
  <2>2. QED
    BY <1>2, <1>4, <1>8, <2>1 DEF LocalSound
<1>9. ASSUME NEW k \in 1..(n + 1), NEW j \in 1..(n + 1),
             ~t.operations[k].partitioned, Written(t, j),
             j <= k - lag \/ (k > end /\ j <= end)
      PROVE  t.operations[k].observedVersion >= t.operations[j].observedVersion
  <2>1. CASE k \in 1..n /\ j \in 1..n
    BY <1>2, <1>9, <2>1 DEF LocalSound
  <2>2. CASE k = n + 1 /\ j \in 1..n
    <3>1. PICK r \in CapRegions : op.observedVersion >= s.version[r]
      OBVIOUS
    <3>2. Has(s, j, r)
      <4>1. CASE j <= k - lag
        BY <1>2, <1>9, <2>2, <4>1
      <4>2. CASE k > end /\ j <= end
        <5>1. healed
          BY <1>1, <1>2, <2>2, <4>2
        <5>2. QED
          BY <1>2, <1>9, <2>2, <4>2, <5>1 DEF LocalSound
      <4>3. QED
        BY <1>9, <4>1, <4>2
    <3>3. s.operations[j].observedVersion \in Nat /\ s.version[r] \in Nat
          /\ op.observedVersion \in Nat
      BY <1>1, <2>2, CapRecorded DEF CapOperations
    <3>4. QED
      BY <1>2, <2>2, <3>1, <3>2, <3>3 DEF Has
  <2>3. CASE j = n + 1
    <3>1. k = n + 1
      BY <1>1, <1>2, <1>9, <2>3
    <3>2. op.observedVersion \in Nat
      BY DEF CapOperations
    <3>3. QED
      BY <1>2, <2>3, <3>1, <3>2
  <2>4. QED
    BY <1>2, <1>9, <2>1, <2>2, <2>3
<1>10. QED
  BY <1>2, <1>3, <1>6, <1>7, <1>8, <1>9 DEF LocalSound

\* The record of operation i: what it is, and what it answered.
RecordedAs(op, s, i, success, observed) ==
    /\ op \in CapOperations
    /\ op.region = RegionOf(i) /\ (op.write <=> IsWrite(i))
    /\ op.partitioned = Partitioned(s.config, i)
    /\ op.success = success /\ op.observedVersion = observed

\* What an operation records has its parts.
LEMMA CapRecordParts ==
    \A s \in CapStates : \A i, observed, newest \in Nat : \A success, divergent \in BOOLEAN :
        LET op == CapRecord(s, i, success, observed, newest, divergent)
        IN  RecordedAs(op, s, i, success, observed) /\ (op.stale => success /\ observed < newest)
<1> SUFFICES ASSUME NEW s \in CapStates, NEW i \in Nat, NEW observed \in Nat, NEW newest \in Nat,
                    NEW success \in BOOLEAN, NEW divergent \in BOOLEAN
             PROVE  LET op == CapRecord(s, i, success, observed, newest, divergent)
                    IN  /\ RecordedAs(op, s, i, success, observed)
                        /\ op.stale => success /\ observed < newest
  OBVIOUS
<1>1. RegionOf(i) \in CapRegions
  BY DEF RegionOf, CapRegions
<1>2. IsWrite(i) \in BOOLEAN /\ Partitioned(s.config, i) \in BOOLEAN
      /\ (success /\ observed < newest) \in BOOLEAN
  BY DEF IsWrite, Partitioned
<1>3. QED
  BY <1>1, <1>2 DEF CapRecord, CapOperations, RecordedAs

\* The trace begins in the invariant.
LEMMA InitCap == cap \in {CapOf(c) : c \in CapSettings} => CapInv
<1> SUFFICES ASSUME NEW c \in CapSettings, cap = CapOf(c)
             PROVE  CapInv
  OBVIOUS
<1>1. cap \in CapStates /\ Len(cap.operations) = 0
  BY DEF CapOf, CapStates
<1>2. CapSound(cap) /\ QuorumSound(cap)
  BY <1>1 DEF CapOf, CapSound, QuorumSound, CapRegions
<1>3. \A healed \in BOOLEAN : LocalSound(cap, healed)
  BY <1>1 DEF LocalSound
<1>4. (Len(cap.operations) > cap.config.partitionEnd) \in BOOLEAN
  OBVIOUS
<1>5. QED
  BY <1>2, <1>3, <1>4 DEF CapInv

\* A state that an operation finds: healed and up to date.
CapReady(s) ==
    LET n == Len(s.operations)
    IN  /\ CapSound(s)
        /\ s.config.strategy = "quorum-consistency" => QuorumSound(s)
        /\ s.config.strategy = "local-availability" =>
               /\ LocalSound(s, n >= s.config.partitionEnd)
               /\ ~Partitioned(s.config, n) =>
                      \A k \in 1..n : Written(s, k) /\ k <= (n + 1) - s.config.lagOperations =>
                          \A r \in CapRegions : Has(s, k, r)

\* Every operation leads from such a state to the invariant.
LEMMA OperationsKeepSound ==
    ASSUME NEW s, CapReady(s), NEW n, n = Len(s.operations),
           CapReject(s, n) \/ QuorumWrite(s, n) \/ LocalWrite(s, n) \/ CapRead(s, n)
    PROVE  CapInv'
<1> DEFINE t == cap'
           c == s.config
           newest == s.newestVersion
           v == s.version
<1>1. /\ CapSound(s) /\ s \in CapStates /\ c \in CapSettings /\ n \in Nat /\ newest \in Nat
      /\ v \in [CapRegions -> Nat] /\ "A" \in CapRegions /\ "B" \in CapRegions
      /\ v["A"] \in Nat /\ v["B"] \in Nat /\ v["A"] <= newest /\ v["B"] <= newest
      /\ c.partitionStart \in Nat /\ c.partitionEnd \in Nat /\ c.lagOperations \in Nat
      /\ RegionOf(n) \in CapRegions
      /\ \A o \in CapOperations : Append(s.operations, o) \in Seq(CapOperations)
  <2>1. CapSound(s) /\ s \in CapStates /\ n \in Nat
    BY DEF CapReady, CapSound, CapStates
  <2>2. s.operations \in Seq(CapOperations)
    BY <2>1 DEF CapStates
  <2>3. \A o \in CapOperations : Append(s.operations, o) \in Seq(CapOperations)
    BY <2>2
  <2>4. QED
    BY <2>1, <2>3, CapConfig DEF CapSound, CapStates, CapRegions, RegionOf
<1>2. CASE CapReject(s, n)
  <2> DEFINE op == CapRecord(s, n, FALSE, 0, newest, FALSE)
  <2>1. t = [s EXCEPT !.operations = Append(s.operations, op)]
    BY <1>2 DEF CapReject
  <2>2. /\ op \in CapOperations /\ op.region = RegionOf(n)
        /\ op.partitioned = Partitioned(c, n)
        /\ op.success = FALSE /\ op.observedVersion = 0 /\ ~op.stale
    <3>1. RecordedAs(op, s, n, FALSE, 0) /\ ~op.stale
      BY <1>1, CapRecordParts
    <3> HIDE DEF op
    <3>2. QED
      BY <3>1 DEF RecordedAs
  <2> HIDE DEF op, t
  <2>3. /\ t \in CapStates /\ t.operations = Append(s.operations, op) /\ t.config = c
        /\ t.newestVersion = newest /\ t.version = v /\ t.pending = s.pending
    BY <1>1, <2>1, <2>2 DEF CapStates
  <2>4. c.strategy = "quorum-consistency"
    BY <1>2 DEF CapReject, IsRejected
  <2>5. CapSound(t)
    <3>1. \A p \in s.pending : p.version <= newest
      BY <1>1 DEF CapSound
    <3>2. \A r \in CapRegions : v[r] <= newest
      BY <1>1 DEF CapSound
    <3>3. QED
      BY <1>1, <2>2, <2>3, <3>1, <3>2, SoundExtends, SMTT(30)
  <2>6. QuorumSound(t)
    <3>1. QuorumSound(s) /\ s.pending = {} /\ v["A"] = newest
      BY <2>4 DEF CapReady, QuorumSound
    <3>2. QED
      BY <1>1, <2>2, <2>3, <3>1, QuorumExtends
  <2>7. QED
    BY <2>3, <2>4, <2>5, <2>6 DEF CapInv, t
<1>3. CASE QuorumWrite(s, n)
  <2> DEFINE op == CapRecord(s, n, TRUE, newest + 1, newest + 1, FALSE)
             w == IF Partitioned(c, n) THEN [v EXCEPT !["A"] = newest + 1]
                  ELSE [r \in CapRegions |-> newest + 1]
  <2>1. /\ t = [s EXCEPT !.newestVersion = newest + 1, !.version = w,
                         !.operations = Append(s.operations, op)]
        /\ ~IsRejected(s, n) /\ IsWrite(n) /\ c.strategy = "quorum-consistency"
    BY <1>3 DEF QuorumWrite
  <2>2. /\ op \in CapOperations /\ op.region = RegionOf(n)
        /\ op.partitioned = Partitioned(c, n) /\ op.write
        /\ op.success = TRUE /\ op.observedVersion = newest + 1 /\ ~op.stale
    <3>1. newest + 1 \in Nat /\ ~(newest + 1 < newest + 1)
      BY <1>1
    <3>2. RecordedAs(op, s, n, TRUE, newest + 1) /\ ~op.stale
      BY <1>1, <3>1, CapRecordParts
    <3> HIDE DEF op
    <3>3. QED
      BY <2>1, <3>2 DEF RecordedAs
  <2>3. /\ w \in [CapRegions -> Nat] /\ w["A"] = newest + 1
        /\ \A r \in CapRegions : w[r] <= newest + 1
        /\ ~Partitioned(c, n) => w["B"] = newest + 1
    BY <1>1 DEF CapRegions
  <2> HIDE DEF op, t, w
  <2>4. /\ t \in CapStates /\ t.operations = Append(s.operations, op) /\ t.config = c
        /\ t.newestVersion = newest + 1 /\ t.version = w /\ t.pending = s.pending
    BY <1>1, <2>1, <2>2, <2>3 DEF CapStates
  <2>5. QuorumSound(s) /\ s.pending = {}
    BY <2>1 DEF CapReady, QuorumSound
  <2>6. CapSound(t)
    <3>1. /\ t.config = s.config /\ op.partitioned = Partitioned(s.config, Len(s.operations))
          /\ s.newestVersion <= t.newestVersion /\ op.observedVersion <= t.newestVersion
      BY <1>1, <2>2, <2>4
    <3>2. \A r \in CapRegions : t.version[r] <= t.newestVersion
      BY <2>3, <2>4
    <3>3. \A p \in t.pending : p.version <= t.newestVersion
      BY <2>4, <2>5
    <3>4. QED
      BY <1>1, <2>2, <2>4, <3>1, <3>2, <3>3, SoundExtends
  <2>7. op.partitioned /\ op.region = "B" => FALSE
    BY <2>1, <2>2 DEF IsRejected
  <2>8. w["B"] # newest + 1 => c.partitionStart <= n /\ n < c.partitionEnd
    BY <2>3 DEF Partitioned
  <2>9. QuorumSound(t)
    BY <1>1, <2>2, <2>3, <2>4, <2>5, <2>7, <2>8, QuorumExtends
  <2>10. QED
    BY <2>1, <2>4, <2>6, <2>9 DEF CapInv, t
<1>4. CASE LocalWrite(s, n)
  <2> DEFINE region == RegionOf(n)
             divergent == Partitioned(c, n)
             op == CapRecord(s, n, TRUE, newest + 1, newest + 1, divergent)
             w == [v EXCEPT ![region] = newest + 1]
             copy == [applyAtOperation |-> n + c.lagOperations, target |-> Other(region),
                      version |-> newest + 1]
             pending == IF divergent THEN s.pending ELSE s.pending \cup {copy}
             writes == IF divergent THEN s.partitionWrites + 1 ELSE s.partitionWrites
  <2>1. /\ t = [s EXCEPT !.newestVersion = newest + 1, !.version = w,
                         !.partitionWrites = writes, !.pending = pending,
                         !.operations = Append(s.operations, op)]
        /\ IsWrite(n) /\ c.strategy = "local-availability"
    BY <1>4 DEF LocalWrite
  <2>2. divergent \in BOOLEAN
    BY DEF Partitioned
  <2>3. /\ op \in CapOperations /\ op.region = region
        /\ op.partitioned = divergent /\ op.write
        /\ op.success = TRUE /\ op.observedVersion = newest + 1
    <3>1. newest + 1 \in Nat
      BY <1>1
    <3>2. RecordedAs(op, s, n, TRUE, newest + 1)
      BY <1>1, <2>2, <3>1, CapRecordParts
    <3> HIDE DEF op
    <3>3. QED
      BY <2>1, <3>2 DEF RecordedAs
  <2>4. /\ w \in [CapRegions -> Nat] /\ w[region] = newest + 1
        /\ \A r \in CapRegions : w[r] <= newest + 1 /\ v[r] <= w[r]
    BY <1>1 DEF CapSound
  <2>5. Other(region) \in CapRegions /\ \A r \in CapRegions : r = region \/ r = Other(region)
    BY <1>1 DEF Other, CapRegions
  <2>6. /\ copy \in [applyAtOperation : Nat, target : CapRegions, version : Nat]
        /\ copy.version = newest + 1 /\ copy.target = Other(region)
        /\ copy.applyAtOperation = n + c.lagOperations
    BY <1>1, <2>5, SMTT(30)
  <2> HIDE DEF region, divergent, copy
  <2>7. /\ pending \in SUBSET [applyAtOperation : Nat, target : CapRegions, version : Nat]
        /\ s.pending \subseteq pending /\ (~divergent => copy \in pending)
        /\ \A p \in pending : p.version <= newest + 1
    <3>1. \A p \in s.pending : p.version \in Nat /\ p.version <= newest
      BY <1>1 DEF CapSound, CapStates
    <3>2. s.pending \in SUBSET [applyAtOperation : Nat, target : CapRegions, version : Nat]
      BY <1>1 DEF CapStates
    <3>3. pending \subseteq s.pending \cup {copy}
      BY Zenon
    <3>4. pending \in SUBSET [applyAtOperation : Nat, target : CapRegions, version : Nat]
      BY <2>6, <3>2, <3>3, Zenon
    <3>5. s.pending \subseteq pending /\ (~divergent => copy \in pending)
      BY Zenon
    <3>6. \A p \in pending : p.version <= newest + 1
      <4>1. \A p \in s.pending : p.version <= newest + 1
        BY <1>1, <3>1
      <4>2. newest + 1 <= newest + 1
        BY <1>1
      <4> HIDE DEF pending
      <4>3. QED
        BY <2>6, <3>3, <4>1, <4>2, Zenon
    <3>7. QED
      BY <3>4, <3>5, <3>6
  <2>8. writes \in Nat
    BY <1>1 DEF CapStates
  <2> HIDE DEF op, t, w, pending, writes
  <2>9. /\ t \in CapStates /\ t.operations = Append(s.operations, op) /\ t.config = c
        /\ t.newestVersion = newest + 1 /\ t.version = w /\ t.pending = pending
    <3>1. newest + 1 \in Nat /\ Append(s.operations, op) \in Seq(CapOperations)
      BY <1>1, <2>3
    <3>2. s \in CapStates
      BY <1>1
    <3>3. t \in CapStates
      BY <2>1, <2>4, <2>7, <2>8, <3>1, <3>2 DEF CapStates
    <3>4. /\ t.operations = Append(s.operations, op) /\ t.config = s.config
          /\ t.newestVersion = newest + 1 /\ t.version = w /\ t.pending = pending
      BY <2>1, <3>2 DEF CapStates
    <3>5. QED
      BY <3>3, <3>4
  <2>10. CapSound(t)
    <3>1. /\ t.config = s.config /\ op.partitioned = Partitioned(s.config, Len(s.operations))
          /\ s.newestVersion <= t.newestVersion /\ op.observedVersion <= t.newestVersion
      BY <1>1, <2>3, <2>9 DEF divergent
    <3>2. \A r \in CapRegions : t.version[r] <= t.newestVersion
      BY <2>4, <2>9
    <3>3. \A p \in t.pending : p.version <= t.newestVersion
      BY <2>7, <2>9
    <3>4. QED
      BY <1>1, <2>3, <2>9, <3>1, <3>2, <3>3, SoundExtends
  <2>11. /\ Len(t.operations) = n + 1 /\ t.operations[n + 1] = op
    BY ONLY <1>1, <2>3, <2>9, n = Len(s.operations), OneMoreOperation
  <2>12. \A r \in CapRegions : Has(t, n + 1, r) \/ op.partitioned \/ InFlight(t, n + 1, r)
    <3>1. Has(t, n + 1, region)
      BY <1>1, <2>3, <2>4, <2>9, <2>11 DEF Has
    <3>2. ~divergent => InFlight(t, n + 1, Other(region))
      <4>1. (n + 1) - 1 + t.config.lagOperations = n + c.lagOperations
        BY <1>1, <2>9
      <4>2. QED
        BY <2>3, <2>6, <2>7, <2>9, <2>11, <4>1 DEF InFlight
    <3>3. QED
      BY <2>3, <2>5, <3>1, <3>2
  <2>13. /\ LocalSound(s, n >= c.partitionEnd)
         /\ ~op.partitioned =>
                \A k \in 1..n : Written(s, k) /\ k <= (n + 1) - c.lagOperations =>
                    \A r \in CapRegions : Has(s, k, r)
    BY <2>1, <2>3 DEF CapReady, divergent
  <2>14. \E r \in CapRegions : op.observedVersion >= v[r]
    BY <1>1, <2>3
  <2>15. op.partitioned = Partitioned(c, n)
    BY <2>3 DEF divergent
  <2>16. \A r \in CapRegions : t.version[r] >= v[r]
    BY <1>1, <2>4, <2>9
  <2>17. LocalSound(t, Len(t.operations) > t.config.partitionEnd)
    BY <1>1, <2>3, <2>7, <2>9, <2>12, <2>13, <2>14, <2>15, <2>16, LocalExtends
  <2>18. QED
    BY <2>1, <2>9, <2>10, <2>17 DEF CapInv, t
<1>5. CASE CapRead(s, n)
  <2> DEFINE region == RegionOf(n)
             op == CapRecord(s, n, TRUE, v[region], newest, FALSE)
  <2>1. t = [s EXCEPT !.operations = Append(s.operations, op)] /\ ~IsWrite(n)
        /\ ~IsRejected(s, n)
    BY <1>5 DEF CapRead
  <2>2. v[region] \in Nat /\ v[region] <= newest
    BY <1>1 DEF CapSound
  <2>3. /\ op \in CapOperations /\ op.region = region
        /\ op.partitioned = Partitioned(c, n) /\ ~op.write
        /\ op.success = TRUE /\ op.observedVersion = v[region]
        /\ op.stale => v[region] < newest
    <3>1. RecordedAs(op, s, n, TRUE, v[region]) /\ (op.stale => v[region] < newest)
      BY <1>1, <2>2, CapRecordParts
    <3> HIDE DEF op
    <3>2. QED
      BY <2>1, <3>1 DEF RecordedAs
  <2> HIDE DEF op, t
  <2>4. /\ t \in CapStates /\ t.operations = Append(s.operations, op) /\ t.config = c
        /\ t.newestVersion = newest /\ t.version = v /\ t.pending = s.pending
    BY <1>1, <2>1, <2>3 DEF CapStates
  <2>5. CapSound(t)
    <3>1. \A p \in s.pending : p.version <= newest
      BY <1>1 DEF CapSound
    <3>2. \A r \in CapRegions : v[r] <= newest
      BY <1>1 DEF CapSound
    <3>3. QED
      BY <1>1, <2>2, <2>3, <2>4, <3>1, <3>2, SoundExtends
  <2>6. CASE c.strategy = "quorum-consistency"
    <3>1. QuorumSound(s) /\ s.pending = {} /\ v["A"] = newest
          /\ (v["B"] # newest => n > c.partitionStart)
      BY <2>6 DEF CapReady, QuorumSound
    <3>2. ~(op.partitioned /\ op.region = "B")
      BY <2>1, <2>3, <2>6 DEF IsRejected
    <3>3. op.stale => /\ op.region = "B" /\ n >= c.partitionEnd
                      /\ ~op.write /\ v["B"] # newest
      <4> SUFFICES ASSUME op.stale
                   PROVE  op.region = "B" /\ n >= c.partitionEnd /\ ~op.write /\ v["B"] # newest
        OBVIOUS
      <4>1. op.region = "B" /\ v["B"] # newest
        BY <1>1, <2>2, <2>3, <3>1 DEF CapRegions
      <4>2. ~Partitioned(c, n)
        BY <2>3, <3>2, <4>1
      <4>3. QED
        BY <1>1, <2>3, <3>1, <4>1, <4>2 DEF Partitioned
    <3>4. QuorumSound(t)
      BY <1>1, <2>3, <2>4, <3>1, <3>2, <3>3, QuorumExtends
    <3>5. QED
      BY <2>4, <2>5, <2>6, <3>4 DEF CapInv, t
  <2>7. CASE c.strategy = "local-availability"
    <3>1. /\ LocalSound(s, n >= c.partitionEnd)
          /\ ~op.partitioned =>
                 \A k \in 1..n : Written(s, k) /\ k <= (n + 1) - c.lagOperations =>
                     \A r \in CapRegions : Has(s, k, r)
      BY <2>3, <2>7 DEF CapReady
    <3>2. \E r \in CapRegions : op.observedVersion >= v[r]
      BY <1>1, <2>2, <2>3
    <3>3. \A r \in CapRegions : t.version[r] >= v[r]
      BY <1>1, <2>4
    <3>4. LocalSound(t, Len(t.operations) > t.config.partitionEnd)
      BY <1>1, <2>3, <2>4, <3>1, <3>2, <3>3, LocalExtends
    <3>5. QED
      BY <2>4, <2>5, <2>7, <3>4 DEF CapInv, t
  <2>8. QED
    BY <1>1, <2>6, <2>7, CapConfig
<1>6. QED
  BY <1>2, <1>3, <1>4, <1>5

\* Every operation keeps the invariant.
LEMMA NextCap == CapInv /\ [Operate]_cap => CapInv'
<1> SUFFICES ASSUME CapInv, [Operate]_cap
             PROVE  CapInv'
  OBVIOUS
<1>1. CASE UNCHANGED cap
  BY <1>1 DEF CapInv
<1>2. CASE Operate
  <2> DEFINE n == CapIndex
             u == Reconciled(cap, n)
             s == applyPending(u, n)
  <2>1. CapSound(cap) /\ n = Len(cap.operations)
    BY DEF CapInv, CapIndex
  <2>2. /\ CapSound(u) /\ u.config = cap.config /\ u.operations = cap.operations
        /\ cap.config.strategy = "quorum-consistency" => u = cap
        /\ cap.config.strategy = "local-availability" /\ LocalSound(cap, n > cap.config.partitionEnd) =>
               LocalSound(u, n >= cap.config.partitionEnd)
    BY <2>1, ReconciledSound
  <2> HIDE DEF u
  <2>3. n = Len(u.operations)
    BY <2>1, <2>2
  <2>4. /\ CapSound(s) /\ s.config = u.config /\ s.operations = u.operations
        /\ QuorumSound(u) => QuorumSound(s)
        /\ LocalSound(u, n >= u.config.partitionEnd) =>
               /\ LocalSound(s, n >= u.config.partitionEnd)
               /\ ~Partitioned(u.config, n) =>
                      \A k \in 1..n : Written(u, k) /\ k <= (n + 1) - u.config.lagOperations =>
                          \A r \in CapRegions : Has(s, k, r)
    BY <2>2, <2>3, AppliedSound
  <2>5. CapReject(s, n) \/ QuorumWrite(s, n) \/ LocalWrite(s, n) \/ CapRead(s, n)
    BY <1>2 DEF Operate, u
  <2> HIDE DEF s
  <2>6. \A k : Written(u, k) <=> Written(s, k)
    BY <2>4 DEF Written
  <2>7. CapReady(s)
    <3>1. s.config.strategy = "quorum-consistency" => QuorumSound(s)
      BY <2>2, <2>4 DEF CapInv
    <3>2. s.config.strategy = "local-availability" =>
              /\ LocalSound(s, n >= s.config.partitionEnd)
              /\ ~Partitioned(s.config, n) =>
                     \A k \in 1..n : Written(s, k) /\ k <= (n + 1) - s.config.lagOperations =>
                         \A r \in CapRegions : Has(s, k, r)
      BY <2>1, <2>2, <2>4, <2>6 DEF CapInv
    <3>3. QED
      BY <2>3, <2>4, <3>1, <3>2 DEF CapReady
  <2>8. n = Len(s.operations)
    BY <2>3, <2>4
  <2>9. QED
    BY <2>5, <2>7, <2>8, OperationsKeepSound
<1>3. QED
  BY <1>1, <1>2

\* The newest version written so far is no newer than what bounds every write.
LEMMA WrittenByIsBounded ==
    ASSUME CapSound(cap), NEW i \in Int, NEW b \in Nat,
           \A j \in 1..Len(cap.operations) :
               j <= i + 1 /\ Written(cap, j) => cap.operations[j].observedVersion <= b
    PROVE  WrittenBy(i) <= b
<1> DEFINE D == {j \in DOMAIN cap.operations : j <= i + 1 /\ cap.operations[j].write
                                               /\ cap.operations[j].success}
           S == {0} \cup {cap.operations[k].observedVersion : k \in D}
<1>1. cap \in CapStates /\ DOMAIN cap.operations = 1..Len(cap.operations)
  BY DEF CapSound, CapStates
<1>2. \A k \in D : cap.operations[k].observedVersion \in Nat /\ cap.operations[k].observedVersion <= b
  BY <1>1, CapRecorded DEF Written
<1>3. S \in SUBSET Nat /\ S # {} /\ \A x \in S : x <= b
  BY <1>2
<1>4. WrittenBy(i) = Max(S)
  BY DEF WrittenBy
<1> HIDE DEF S
<1>5. QED
  BY <1>3, <1>4, LargestIsMax

\* The answers are as fresh as the strategy promises.
LEMMA CapPromises == CapInv => StalenessIsConfined
<1> SUFFICES ASSUME CapInv
             PROVE  StalenessIsConfined
  OBVIOUS
<1> DEFINE c == cap.config
           n == Len(cap.operations)
<1>1. /\ CapSound(cap) /\ cap \in CapStates /\ c \in CapSettings
      /\ DOMAIN cap.operations = 1..n /\ n \in Nat
      /\ c.partitionEnd \in Nat /\ c.lagOperations \in Nat
  BY CapConfig DEF CapInv, CapSound, CapStates
<1>2. ASSUME c.strategy = "quorum-consistency", NEW k \in 1..n, cap.operations[k].stale
      PROVE  /\ cap.operations[k].region = "B" /\ k > c.partitionEnd
             /\ WrittenBy(k - 1) = WrittenBy(c.partitionEnd - 1)
  <2>1. /\ cap.operations[k].region = "B" /\ k >= c.partitionEnd + 1
        /\ \A j \in (c.partitionEnd + 1)..k : ~Written(cap, j)
    BY <1>2 DEF CapInv, QuorumSound
  <2> DEFINE D(i) == {j \in DOMAIN cap.operations : j <= i + 1 /\ cap.operations[j].write
                                                     /\ cap.operations[j].success}
             E(i) == {cap.operations[m].observedVersion : m \in D(i)}
  <2>2. D(k - 1) = D(c.partitionEnd - 1)
    BY <1>1, <2>1, SMTT(30) DEF Written
  <2>3. E(k - 1) = E(c.partitionEnd - 1)
    <3> HIDE DEF D
    <3>1. QED
      BY <2>2
  <2>4. \A i : WrittenBy(i) = Max({0} \cup E(i))
    BY DEF WrittenBy
  <2> HIDE DEF E
  <2>5. WrittenBy(k - 1) = WrittenBy(c.partitionEnd - 1)
    BY <2>3, <2>4
  <2>6. QED
    BY <1>1, <2>1, <2>5
<1>3. QuorumSideIsCurrent
  BY <1>1, <1>2 DEF QuorumSideIsCurrent, CapInv, QuorumSound
<1>4. ASSUME c.strategy = "local-availability", NEW k \in 1..n
      PROVE  LET op == cap.operations[k]
             IN  /\ op.success
                 /\ ~op.partitioned => op.observedVersion >= WrittenBy((k - 1) - c.lagOperations)
                 /\ ~op.partitioned /\ k > c.partitionEnd =>
                        op.observedVersion >= WrittenBy(c.partitionEnd - 1)
  <2> DEFINE op == cap.operations[k]
  <2>1. /\ op.success
        /\ \A j \in 1..n :
               ~op.partitioned /\ Written(cap, j)
               /\ (j <= k - c.lagOperations \/ (k > c.partitionEnd /\ j <= c.partitionEnd))
               => op.observedVersion >= cap.operations[j].observedVersion
    BY <1>4 DEF CapInv, LocalSound
  <2>2. op.observedVersion \in Nat
    BY <1>1, CapRecorded
  <2>3. \A j \in 1..n : cap.operations[j].observedVersion \in Nat
    BY <1>1, CapRecorded
  <2> HIDE DEF op
  <2>4. ASSUME NEW i \in Int,
               \A j \in 1..n : j <= i + 1 /\ Written(cap, j) =>
                   cap.operations[j].observedVersion <= op.observedVersion
        PROVE  op.observedVersion >= WrittenBy(i)
    <3>1. WrittenBy(i) <= op.observedVersion
      BY <1>1, <2>2, <2>4, WrittenByIsBounded
    <3>2. QED
      BY <3>1
  <2>5. ~op.partitioned => op.observedVersion >= WrittenBy((k - 1) - c.lagOperations)
    <3> SUFFICES ASSUME ~op.partitioned
                 PROVE  op.observedVersion >= WrittenBy((k - 1) - c.lagOperations)
      OBVIOUS
    <3>1. (k - 1) - c.lagOperations \in Int
      BY <1>1
    <3>2. \A j \in 1..n : j <= ((k - 1) - c.lagOperations) + 1 /\ Written(cap, j) =>
              cap.operations[j].observedVersion <= op.observedVersion
      BY <1>1, <2>1, <2>2, <2>3
    <3>3. QED
      BY <2>4, <3>1, <3>2
  <2>6. ~op.partitioned /\ k > c.partitionEnd => op.observedVersion >= WrittenBy(c.partitionEnd - 1)
    <3> SUFFICES ASSUME ~op.partitioned, k > c.partitionEnd
                 PROVE  op.observedVersion >= WrittenBy(c.partitionEnd - 1)
      OBVIOUS
    <3>1. c.partitionEnd - 1 \in Int
      BY <1>1
    <3>2. \A j \in 1..n : j <= (c.partitionEnd - 1) + 1 /\ Written(cap, j) =>
              cap.operations[j].observedVersion <= op.observedVersion
      BY <1>1, <2>1, <2>2, <2>3
    <3>3. QED
      BY <2>4, <3>1, <3>2
  <2>7. QED
    BY <2>1, <2>5, <2>6 DEF op
<1>5. StalenessIsBounded
  BY <1>1, <1>4 DEF StalenessIsBounded
<1>6. QED
  BY <1>3, <1>5 DEF StalenessIsConfined

\* simulateCap, for any length of the trace, of the partition and of the replication lag:
\* the quorum side is always current, an isolated region answers nothing, and with local
\* availability an answer misses only what the lag or the partition explains.
THEOREM Freshness == CapSpec => []StalenessIsConfined
<1>1. CapSpec => []CapInv
  BY InitCap, NextCap, PTL DEF CapSpec
<1>2. QED
  BY <1>1, CapPromises, PTL

-----------------------------------------------------------------------------

(* The cache. *)

CacheEntries == [version : Nat, insertedAt : Nat, lastUsedAt : Nat]

CachedOperations ==
    [key : CacheKeys, write : BOOLEAN, hit : BOOLEAN, cacheVersion : Int, originVersion : Nat]

CacheStates ==
    [config : CacheSettings, entries : UNION {[D -> CacheEntries] : D \in SUBSET CacheKeys},
     origin : [CacheKeys -> Nat], operations : Seq(CachedOperations)]

\* The operation at position j read this key.
Reads(s, j, key) == s.operations[j].key = key /\ ~s.operations[j].write
Writes(s, j, key) == s.operations[j].key = key /\ s.operations[j].write

\* The origin only gets newer, and a hit was recent.
OperationsSound(s) ==
    \A j \in 1..Len(s.operations) :
        LET op == s.operations[j]
        IN  /\ op.originVersion <= s.origin[op.key]
            /\ op.hit =>
                   /\ op.cacheVersion \in Nat
                   /\ \A i \in 1..(j - s.config.ttlOperations) :
                          s.operations[i].key = op.key =>
                              op.cacheVersion >= s.operations[i].originVersion
                   /\ s.config.invalidationMode = "invalidate-on-write" =>
                          op.cacheVersion = op.originVersion

\* Entry e of a key is what the origin had when it was inserted, and was last used when the
\* key was last read.
EntrySound(s, key, e) ==
    LET n == Len(s.operations)
    IN  /\ e.insertedAt < n /\ e.lastUsedAt < n
        /\ \A j \in 1..n : j <= e.insertedAt + 1 /\ s.operations[j].key = key =>
               e.version >= s.operations[j].originVersion
        /\ s.config.invalidationMode = "invalidate-on-write" => e.version = s.origin[key]
        /\ Reads(s, e.lastUsedAt + 1, key)
        /\ \A j \in 1..n : Reads(s, j, key) => j <= e.lastUsedAt + 1

\* A key that is not cached was not read after one that is, or was written since.
OrderSound(s) ==
    \A k \in DOMAIN s.entries, l \in CacheKeys \ DOMAIN s.entries, r \in 1..Len(s.operations) :
        Reads(s, r, l) /\ r > s.entries[k].lastUsedAt + 1 =>
            \E j \in 1..Len(s.operations) : j > r /\ Writes(s, j, l)

CacheInv ==
    /\ cache \in CacheStates
    /\ OperationsSound(cache)
    /\ \A k \in DOMAIN cache.entries : EntrySound(cache, k, cache.entries[k])
    /\ cache.config.cacheCapacity > 0 => OrderSound(cache)
    /\ IsFiniteSet(DOMAIN cache.entries)
    /\ Cardinality(DOMAIN cache.entries) <= cache.config.cacheCapacity

-----------------------------------------------------------------------------

\* The sets of cached entries.
CachedBy == UNION {[D -> CacheEntries] : D \in SUBSET CacheKeys}

\* What is cached under the keys of a set of entries.
LEMMA CachedParts ==
    ASSUME NEW e
    PROVE  e \in CachedBy <=> /\ DOMAIN e \in SUBSET CacheKeys
                              /\ e = [k \in DOMAIN e |-> e[k]]
                              /\ \A k \in DOMAIN e : e[k] \in CacheEntries
  BY DEF CachedBy

\* Entries without some keys.
LEMMA WithoutParts ==
    ASSUME NEW e \in CachedBy, NEW K
    PROVE  /\ Without(e, K) \in CachedBy
           /\ DOMAIN Without(e, K) = DOMAIN e \ K
           /\ \A k \in DOMAIN e \ K : Without(e, K)[k] = e[k]
<1>1. Without(e, K) = [k \in DOMAIN e \ K |-> e[k]]
  BY DEF Without, Restrict
<1>2. DOMAIN e \in SUBSET CacheKeys /\ \A k \in DOMAIN e : e[k] \in CacheEntries
  BY CachedParts
<1>3. QED
  BY <1>1, <1>2, CachedParts

\* A configuration's parts, and the key that an operation is about.
LEMMA CacheConfig ==
    ASSUME NEW c \in CacheSettings, NEW i \in Nat
    PROVE  /\ c.requestCount \in Nat /\ c.cacheCapacity \in Nat /\ c.ttlOperations \in Nat \ {0}
           /\ KeyOf(c, i) \in CacheKeys /\ Hot \in CacheKeys
<1>1. c.requestCount \in Nat /\ c.cacheCapacity \in Nat /\ c.ttlOperations \in Nat \ {0}
  BY CacheAssumption
<1>2. Hot \in CacheKeys
  BY DEF CacheKeys
<1>3. KeyPattern[(i % Len(KeyPattern)) + 1] \in CacheKeys
  <2>1. Len(KeyPattern) \in Nat \ {0} /\ DOMAIN KeyPattern = 1..Len(KeyPattern)
    BY CacheAssumption
  <2>2. \A t \in Nat \ {0}, m \in Nat : m % t \in 0..(t - 1)
    BY SMT
  <2>3. i % Len(KeyPattern) \in 0..(Len(KeyPattern) - 1)
    BY <2>1, <2>2
  <2>4. (i % Len(KeyPattern)) + 1 \in DOMAIN KeyPattern
    <3> DEFINE m == i % Len(KeyPattern)
    <3>1. m \in 0..(Len(KeyPattern) - 1)
      BY <2>3
    <3> HIDE DEF m
    <3>2. m + 1 \in DOMAIN KeyPattern
      BY <2>1, <3>1
    <3>3. QED
      BY <3>2 DEF m
  <2>5. QED
    BY <2>4 DEF CacheKeys, Range
<1>4. QED
  BY <1>1, <1>2, <1>3 DEF KeyOf

\* State t has one more operation on record than s.
ExtendsBy(s, t, op) ==
    LET n == Len(s.operations)
    IN  /\ n \in Nat /\ Len(t.operations) = n + 1
        /\ t.operations \in Seq(CachedOperations)
        /\ \A k \in 1..n : t.operations[k] = s.operations[k]
        /\ t.operations[n + 1] = op
        /\ \A k \in 1..n : \A l : /\ Reads(t, k, l) <=> Reads(s, k, l)
                                  /\ Writes(t, k, l) <=> Writes(s, k, l)
        /\ \A l : /\ Reads(t, n + 1, l) <=> (op.key = l /\ ~op.write)
                  /\ Writes(t, n + 1, l) <=> (op.key = l /\ op.write)

\* Appending an operation does that.
LEMMA OneMoreCached ==
    \A s \in CacheStates, op \in CachedOperations : \A t :
        t.operations = Append(s.operations, op) => ExtendsBy(s, t, op)
<1> SUFFICES ASSUME NEW s \in CacheStates, NEW op \in CachedOperations, NEW t,
                    t.operations = Append(s.operations, op)
             PROVE  ExtendsBy(s, t, op)
  OBVIOUS
<1>1. s.operations \in Seq(CachedOperations)
  BY DEF CacheStates
<1>2. /\ Len(s.operations) \in Nat /\ Len(t.operations) = Len(s.operations) + 1
      /\ t.operations \in Seq(CachedOperations)
      /\ \A k \in 1..Len(s.operations) : t.operations[k] = s.operations[k]
      /\ t.operations[Len(s.operations) + 1] = op
  BY <1>1
<1>3. QED
  BY <1>2 DEF Reads, Writes, ExtendsBy

\* The record of an operation.
LEMMA CachedRecorded ==
    ASSUME NEW s \in CacheStates, NEW k \in 1..Len(s.operations)
    PROVE  /\ s.operations[k].key \in CacheKeys /\ s.operations[k].write \in BOOLEAN
           /\ s.operations[k].originVersion \in Nat /\ s.operations[k].cacheVersion \in Int
<1>1. s.operations \in Seq(CachedOperations)
  BY DEF CacheStates
<1>2. \A S : \A q \in Seq(S) : \A i \in 1..Len(q) : q[i] \in S
  OBVIOUS
<1>3. s.operations[k] \in CachedOperations
  BY <1>1, <1>2, Zenon
<1>4. QED
  BY <1>3 DEF CachedOperations

\* An entry stays sound when its key is not read, and not written unless it may be stale.
LEMMA EntryKept ==
    ASSUME NEW s \in CacheStates, NEW t, NEW op \in CachedOperations,
           t.operations = Append(s.operations, op), t.config = s.config,
           NEW key, NEW e \in CacheEntries, EntrySound(s, key, e),
           op.key # key \/ op.write,
           s.config.invalidationMode = "invalidate-on-write" => t.origin[key] = s.origin[key]
    PROVE  EntrySound(t, key, e)
<1> DEFINE n == Len(s.operations)
<1>1. /\ s \in CacheStates /\ op \in CachedOperations /\ t.operations = Append(s.operations, op)
      /\ op.key # key \/ op.write
  OBVIOUS
<1>2. /\ n \in Nat /\ Len(t.operations) = n + 1
      /\ \A k \in 1..n : t.operations[k] = s.operations[k]
      /\ \A k \in 1..n : Reads(t, k, key) <=> Reads(s, k, key)
      /\ ~Reads(t, n + 1, key)
  <2>1. ExtendsBy(s, t, op)
    BY <1>1, OneMoreCached
  <2>2. QED
    BY <1>1, <2>1 DEF ExtendsBy
<1>3. e.insertedAt \in Nat /\ e.lastUsedAt \in Nat
  BY DEF CacheEntries
<1> HIDE DEF n
<1>4. /\ e.insertedAt < n /\ e.lastUsedAt < n
      /\ \A j \in 1..n : j <= e.insertedAt + 1 /\ s.operations[j].key = key =>
             e.version >= s.operations[j].originVersion
      /\ s.config.invalidationMode = "invalidate-on-write" => e.version = s.origin[key]
      /\ Reads(s, e.lastUsedAt + 1, key)
      /\ \A j \in 1..n : Reads(s, j, key) => j <= e.lastUsedAt + 1
  BY DEF EntrySound, n
<1>5. Reads(t, e.lastUsedAt + 1, key)
  BY <1>2, <1>3, <1>4
<1>6. \A j \in 1..(n + 1) : Reads(t, j, key) => j <= e.lastUsedAt + 1
  BY <1>2, <1>3, <1>4
<1>7. \A j \in 1..(n + 1) : j <= e.insertedAt + 1 /\ t.operations[j].key = key =>
             e.version >= t.operations[j].originVersion
  BY <1>2, <1>3, <1>4
<1>8. QED
  BY <1>2, <1>3, <1>4, <1>5, <1>6, <1>7 DEF EntrySound

\* What is on record stays sound when one more sound operation is added.
LEMMA OperationsKept ==
    ASSUME NEW s \in CacheStates, NEW t \in CacheStates, NEW op \in CachedOperations,
           t.operations = Append(s.operations, op), t.config = s.config,
           OperationsSound(s),
           \A l \in CacheKeys : s.origin[l] <= t.origin[l],
           op.originVersion <= t.origin[op.key],
           op.hit =>
               /\ op.cacheVersion \in Nat
               /\ \A i \in 1..Len(s.operations) :
                      i <= (Len(s.operations) + 1) - s.config.ttlOperations
                      /\ s.operations[i].key = op.key =>
                          op.cacheVersion >= s.operations[i].originVersion
               /\ s.config.invalidationMode = "invalidate-on-write" =>
                      op.cacheVersion = op.originVersion
    PROVE  OperationsSound(t)
<1> DEFINE n == Len(s.operations)
           ttl == s.config.ttlOperations
<1>1. s \in CacheStates /\ op \in CachedOperations /\ t.operations = Append(s.operations, op)
  OBVIOUS
<1>2. /\ n \in Nat /\ Len(t.operations) = n + 1
      /\ \A k \in 1..n : t.operations[k] = s.operations[k]
      /\ t.operations[n + 1] = op
  <2>1. ExtendsBy(s, t, op)
    BY <1>1, OneMoreCached
  <2>2. QED
    BY <1>1, <2>1 DEF ExtendsBy
<1>3. ttl \in Nat \ {0} /\ s.origin \in [CacheKeys -> Nat] /\ t.origin \in [CacheKeys -> Nat]
  BY <1>2, CacheConfig DEF CacheStates
<1> DEFINE Sound(j, o) ==
               /\ o.originVersion <= t.origin[o.key]
               /\ o.hit =>
                      /\ o.cacheVersion \in Nat
                      /\ \A i \in 1..(j - ttl) :
                             t.operations[i].key = o.key =>
                                 o.cacheVersion >= t.operations[i].originVersion
                      /\ t.config.invalidationMode = "invalidate-on-write" =>
                             o.cacheVersion = o.originVersion
<1>4. ASSUME NEW j \in 1..n
      PROVE  Sound(j, t.operations[j])
  <2>1. /\ s.operations[j].key \in CacheKeys /\ s.operations[j].originVersion \in Nat
    BY CachedRecorded
  <2>2. s.operations[j].originVersion <= s.origin[s.operations[j].key]
    BY DEF OperationsSound
  <2>3. s.operations[j].originVersion <= t.origin[s.operations[j].key]
    <3>1. s.origin[s.operations[j].key] \in Nat /\ t.origin[s.operations[j].key] \in Nat
          /\ s.origin[s.operations[j].key] <= t.origin[s.operations[j].key]
      BY <1>3, <2>1
    <3>2. QED
      BY <2>1, <2>2, <3>1
  <2>4. \A i \in 1..(j - ttl) : i \in 1..n
    BY <1>2, <1>3
  <2>5. s.operations[j].hit =>
            /\ s.operations[j].cacheVersion \in Nat
            /\ \A i \in 1..(j - ttl) :
                   s.operations[i].key = s.operations[j].key =>
                       s.operations[j].cacheVersion >= s.operations[i].originVersion
            /\ s.config.invalidationMode = "invalidate-on-write" =>
                   s.operations[j].cacheVersion = s.operations[j].originVersion
    BY DEF OperationsSound
  <2>6. QED
    BY <1>2, <2>3, <2>4, <2>5
<1>5. Sound(n + 1, op)
  <2>1. \A i \in 1..((n + 1) - ttl) : i \in 1..n /\ i <= (n + 1) - ttl
    BY <1>2, <1>3
  <2>2. QED
    BY <1>2, <2>1
<1>6. \A j \in 1..(n + 1) : Sound(j, t.operations[j])
  <2> HIDE DEF Sound
  <2>1. QED
    BY <1>2, <1>4, <1>5
<1>7. QED
  BY <1>2, <1>6 DEF OperationsSound

\* The order of use stays sound: every entry was there before and used no later, or is used
\* now, and every key that is not cached was not cached before, or is written now, or was the
\* one used the longest time ago.
LEMMA OrderKept ==
    ASSUME NEW s \in CacheStates, NEW t \in CacheStates, NEW op \in CachedOperations,
           t.operations = Append(s.operations, op), OrderSound(s),
           \A k \in DOMAIN s.entries : EntrySound(s, k, s.entries[k]),
           op.write \/ op.key \in DOMAIN t.entries,
           \A k \in DOMAIN t.entries :
               \/ t.entries[k].lastUsedAt = Len(s.operations)
               \/ k \in DOMAIN s.entries /\ t.entries[k] = s.entries[k],
           \A l \in CacheKeys \ DOMAIN t.entries :
               \/ l \notin DOMAIN s.entries
               \/ op.write /\ op.key = l
               \/ \A k \in DOMAIN s.entries \cap DOMAIN t.entries :
                      t.entries[k] = s.entries[k] =>
                          s.entries[l].lastUsedAt <= s.entries[k].lastUsedAt
    PROVE  OrderSound(t)
<1> DEFINE n == Len(s.operations)
<1>1. s \in CacheStates /\ op \in CachedOperations /\ t.operations = Append(s.operations, op)
  OBVIOUS
<1>2. /\ n \in Nat /\ Len(t.operations) = n + 1
      /\ \A r \in 1..n : \A l : Reads(t, r, l) <=> Reads(s, r, l)
      /\ \A r \in 1..n : \A l : Writes(t, r, l) <=> Writes(s, r, l)
      /\ \A l : Reads(t, n + 1, l) <=> (op.key = l /\ ~op.write)
      /\ \A l : Writes(t, n + 1, l) <=> (op.key = l /\ op.write)
  <2>1. ExtendsBy(s, t, op)
    BY <1>1, OneMoreCached
  <2>2. QED
    BY <1>1, <2>1 DEF ExtendsBy
<1>3. \A k \in DOMAIN s.entries : s.entries[k].lastUsedAt \in Nat
  <2>1. s.entries \in CachedBy
    BY DEF CacheStates, CachedBy
  <2>2. QED
    BY <2>1, CachedParts DEF CacheEntries
<1> SUFFICES ASSUME NEW k \in DOMAIN t.entries, NEW l \in CacheKeys \ DOMAIN t.entries,
                    NEW r \in 1..(n + 1), Reads(t, r, l), r > t.entries[k].lastUsedAt + 1
             PROVE  \E j \in 1..(n + 1) : j > r /\ Writes(t, j, l)
  BY <1>2 DEF OrderSound
<1>4. r \in 1..n /\ Reads(s, r, l)
  BY <1>2
<1>5. k \in DOMAIN s.entries /\ t.entries[k] = s.entries[k]
  BY <1>2, <1>4
<1>6. CASE l \notin DOMAIN s.entries
  <2>1. PICK j \in 1..n : j > r /\ Writes(s, j, l)
    BY <1>4, <1>5, <1>6 DEF OrderSound
  <2>2. QED
    BY <1>2, <2>1
<1>7. CASE op.write /\ op.key = l
  BY <1>2, <1>4, <1>7
<1>8. CASE l \in DOMAIN s.entries /\ s.entries[l].lastUsedAt <= s.entries[k].lastUsedAt
  <2>1. r <= s.entries[l].lastUsedAt + 1
    BY <1>4, <1>8 DEF EntrySound
  <2>2. QED
    BY <1>3, <1>4, <1>5, <1>8, <2>1
<1>9. QED
  BY <1>5, <1>6, <1>7, <1>8

\* An entry stays sound when its key is read from it.
LEMMA EntryUsed ==
    ASSUME NEW s \in CacheStates, NEW t, NEW op \in CachedOperations,
           t.operations = Append(s.operations, op), t.config = s.config, t.origin = s.origin,
           ~op.write, NEW e \in CacheEntries, EntrySound(s, op.key, e)
    PROVE  EntrySound(t, op.key, [e EXCEPT !.lastUsedAt = Len(s.operations)])
<1> DEFINE n == Len(s.operations)
           u == [e EXCEPT !.lastUsedAt = n]
<1>1. /\ s \in CacheStates /\ op \in CachedOperations /\ t.operations = Append(s.operations, op)
      /\ ~op.write
  OBVIOUS
<1>2. /\ n \in Nat /\ Len(t.operations) = n + 1
      /\ \A k \in 1..n : t.operations[k] = s.operations[k]
      /\ Reads(t, n + 1, op.key)
  <2>1. ExtendsBy(s, t, op)
    BY <1>1, OneMoreCached
  <2>2. QED
    BY <1>1, <2>1 DEF ExtendsBy
<1>3. /\ u.lastUsedAt = n /\ u.insertedAt = e.insertedAt /\ u.version = e.version
      /\ e.insertedAt \in Nat
  BY DEF CacheEntries
<1> HIDE DEF n, u
<1>4. /\ e.insertedAt < n
      /\ \A j \in 1..n : j <= e.insertedAt + 1 /\ s.operations[j].key = op.key =>
             e.version >= s.operations[j].originVersion
      /\ s.config.invalidationMode = "invalidate-on-write" => e.version = s.origin[op.key]
  BY DEF EntrySound, n
<1>5. \A j \in 1..(n + 1) : j <= e.insertedAt + 1 /\ t.operations[j].key = op.key =>
          e.version >= t.operations[j].originVersion
  BY <1>2, <1>3, <1>4
<1>6. EntrySound(t, op.key, u)
  BY <1>2, <1>3, <1>4, <1>5 DEF EntrySound
<1>7. QED
  BY <1>6 DEF n, u

\* An entry that has just been fetched is sound.
LEMMA EntryFetched ==
    ASSUME NEW s \in CacheStates, NEW t, NEW op \in CachedOperations,
           t.operations = Append(s.operations, op), t.config = s.config, t.origin = s.origin,
           OperationsSound(s), ~op.write, op.originVersion = s.origin[op.key]
    PROVE  EntrySound(t, op.key, [version |-> s.origin[op.key], insertedAt |-> Len(s.operations),
                                  lastUsedAt |-> Len(s.operations)])
<1> DEFINE n == Len(s.operations)
           e == [version |-> s.origin[op.key], insertedAt |-> n, lastUsedAt |-> n]
<1>1. /\ s \in CacheStates /\ op \in CachedOperations /\ t.operations = Append(s.operations, op)
      /\ ~op.write
  OBVIOUS
<1>2. /\ n \in Nat /\ Len(t.operations) = n + 1
      /\ \A k \in 1..n : t.operations[k] = s.operations[k]
      /\ t.operations[n + 1] = op
      /\ Reads(t, n + 1, op.key)
  <2>1. ExtendsBy(s, t, op)
    BY <1>1, OneMoreCached
  <2>2. QED
    BY <1>1, <2>1 DEF ExtendsBy
<1>3. s.origin[op.key] \in Nat
  BY DEF CacheStates, CachedOperations
<1>4. \A j \in 1..n : /\ s.operations[j].originVersion \in Nat
                      /\ s.operations[j].originVersion <= s.origin[s.operations[j].key]
  BY CachedRecorded DEF OperationsSound
<1>5. \A j \in 1..(n + 1) : t.operations[j].key = op.key =>
          e.version >= t.operations[j].originVersion
  BY <1>2, <1>3, <1>4
<1>6. e.lastUsedAt = n /\ e.insertedAt = n /\ e.version = s.origin[op.key]
  OBVIOUS
<1> HIDE DEF e, n
<1>7. EntrySound(t, op.key, e)
  BY <1>2, <1>5, <1>6 DEF EntrySound
<1>8. QED
  BY <1>7 DEF e, n

\* Room for one more: at most the entry that was used the longest time ago is gone.
LEMMA RoomForOne ==
    ASSUME NEW e \in CachedBy, IsFiniteSet(DOMAIN e), NEW capacity \in Nat \ {0},
           Cardinality(DOMAIN e) <= capacity
    PROVE  LET room == RoomMade(e, capacity)
           IN  /\ room \in CachedBy /\ DOMAIN room \subseteq DOMAIN e
               /\ \A k \in DOMAIN room : room[k] = e[k]
               /\ IsFiniteSet(DOMAIN room) /\ Cardinality(DOMAIN room) <= capacity - 1
               /\ \A l \in DOMAIN e \ DOMAIN room, k \in DOMAIN e :
                      e[l].lastUsedAt <= e[k].lastUsedAt
<1> DEFINE size == Cardinality(DOMAIN e)
           room == RoomMade(e, capacity)
<1>1. size \in Nat
  BY FS_CardinalityType
<1>2. CASE size < capacity
  <2>1. room = e
    BY <1>2 DEF RoomMade
  <2>2. size <= capacity - 1
    BY <1>1, <1>2
  <2> HIDE DEF room
  <2>3. QED
    <3>1. room \in CachedBy /\ DOMAIN room \subseteq DOMAIN e
      BY <2>1
    <3>2. \A k \in DOMAIN room : room[k] = e[k]
      BY <2>1
    <3>3. IsFiniteSet(DOMAIN room) /\ Cardinality(DOMAIN room) <= capacity - 1
      BY <2>1, <2>2
    <3>4. \A l \in DOMAIN e \ DOMAIN room, k \in DOMAIN e : e[l].lastUsedAt <= e[k].lastUsedAt
      BY <2>1
    <3>5. QED
      BY <3>1, <3>2, <3>3, <3>4, Zenon DEF room
<1>3. CASE ~(size < capacity)
  <2> DEFINE v == leastRecentlyUsedKey(e)
             times == {e[k].lastUsedAt : k \in DOMAIN e}
  <2>1. room = Without(e, {v})
    BY <1>3 DEF RoomMade
  <2>2. DOMAIN e # {}
    BY <1>1, <1>3, FS_EmptySet
  <2>3. times \in SUBSET Nat /\ times # {}
    BY <2>2, CachedParts DEF CacheEntries
  <2>4. \E k \in DOMAIN e : \A l \in DOMAIN e : e[k].lastUsedAt <= e[l].lastUsedAt
    <3> HIDE DEF times
    <3>1. PICK m \in times : \A x \in times : ~(<<x, m>> \in OpToRel(<, Nat))
      BY <2>3, NatLessThanWellFounded, WFMin
    <3>2. \A x \in times : m <= x
      <4>1. \A x \in times : ~(x < m)
        BY <2>3, <3>1 DEF OpToRel
      <4>2. QED
        BY <2>3, <4>1
    <3>3. QED
      BY <3>2 DEF times
  <2>5. v \in DOMAIN e /\ \A l \in DOMAIN e : e[v].lastUsedAt <= e[l].lastUsedAt
    BY <2>4 DEF leastRecentlyUsedKey
  <2> HIDE DEF v
  <2>6. /\ Without(e, {v}) \in CachedBy /\ DOMAIN Without(e, {v}) = DOMAIN e \ {v}
        /\ \A k \in DOMAIN e \ {v} : Without(e, {v})[k] = e[k]
    BY WithoutParts
  <2>7. IsFiniteSet(DOMAIN e \ {v}) /\ Cardinality(DOMAIN e \ {v}) = size - 1
    BY <2>5, FS_RemoveElement
  <2>8. size - 1 <= capacity - 1
    BY <1>1
  <2> HIDE DEF room, size
  <2>9. QED
    <3>1. room \in CachedBy /\ DOMAIN room \subseteq DOMAIN e
      BY <2>1, <2>6
    <3>2. \A k \in DOMAIN room : room[k] = e[k]
      BY <2>1, <2>6
    <3>3. IsFiniteSet(DOMAIN room) /\ Cardinality(DOMAIN room) <= capacity - 1
      BY <2>1, <2>6, <2>7, <2>8
    <3>4. \A l \in DOMAIN e \ DOMAIN room, k \in DOMAIN e : e[l].lastUsedAt <= e[k].lastUsedAt
      BY <2>1, <2>5, <2>6
    <3>5. QED
      BY <3>1, <3>2, <3>3, <3>4, Zenon DEF room
<1>4. QED
  BY <1>2, <1>3

-----------------------------------------------------------------------------

\* The trace begins in the invariant.
LEMMA InitCache == cache \in {CacheOf(c) : c \in CacheSettings} => CacheInv
<1> SUFFICES ASSUME NEW c \in CacheSettings, cache = CacheOf(c)
             PROVE  CacheInv
  OBVIOUS
<1>1. DOMAIN <<>> = {} /\ <<>> \in [{} -> CacheEntries]
  OBVIOUS
<1>2. <<>> \in CachedBy
  BY <1>1 DEF CachedBy
<1>3. cache \in CacheStates /\ Len(cache.operations) = 0 /\ DOMAIN cache.entries = {}
  BY <1>1, <1>2 DEF CacheOf, CacheStates, CachedBy
<1>4. cache.config.cacheCapacity \in Nat
  BY <1>3, CacheAssumption DEF CacheStates
<1>5. IsFiniteSet({}) /\ Cardinality({}) = 0
  BY FS_EmptySet
<1>6. QED
  BY <1>3, <1>4, <1>5 DEF CacheInv, OperationsSound, OrderSound

\* What the invariant says of the state that an operation finds.
LEMMA CacheFound ==
    ASSUME CacheInv
    PROVE  /\ cache \in CacheStates /\ CacheIndex = Len(cache.operations) /\ CacheIndex \in Nat
           /\ cache.entries \in CachedBy /\ cache.origin \in [CacheKeys -> Nat]
           /\ DOMAIN cache.entries \subseteq CacheKeys
           /\ \A k \in DOMAIN cache.entries :
                  /\ cache.entries[k] \in CacheEntries
                  /\ cache.entries[k].version \in Nat /\ cache.entries[k].insertedAt \in Nat
                  /\ cache.entries[k].lastUsedAt \in Nat
           /\ \A op \in CachedOperations : Append(cache.operations, op) \in Seq(CachedOperations)
           /\ cache.config \in CacheSettings
           /\ cache.config.cacheCapacity \in Nat /\ cache.config.ttlOperations \in Nat \ {0}
           /\ KeyOf(cache.config, CacheIndex) \in CacheKeys /\ Hot \in CacheKeys
<1>1. cache \in CacheStates /\ cache.entries \in CachedBy
  BY DEF CacheInv, CacheStates, CachedBy
<1>2. cache.operations \in Seq(CachedOperations)
  BY <1>1 DEF CacheStates
<1>3. CacheIndex = Len(cache.operations) /\ CacheIndex \in Nat
      /\ \A op \in CachedOperations : Append(cache.operations, op) \in Seq(CachedOperations)
  BY <1>2 DEF CacheIndex
<1>4. cache.config \in CacheSettings /\ cache.origin \in [CacheKeys -> Nat]
  BY <1>1 DEF CacheStates
<1>5. DOMAIN cache.entries \subseteq CacheKeys
      /\ \A k \in DOMAIN cache.entries : cache.entries[k] \in CacheEntries
  BY <1>1, CachedParts
<1>6. \A x \in CacheEntries : x.version \in Nat /\ x.insertedAt \in Nat /\ x.lastUsedAt \in Nat
  BY DEF CacheEntries
<1>7. QED
  BY <1>1, <1>3, <1>4, <1>5, <1>6, CacheConfig

\* A write keeps the invariant.
LEMMA WriteKeeps == CacheInv /\ CacheWrite(cache, CacheIndex) => CacheInv'
<1> SUFFICES ASSUME CacheInv, CacheWrite(cache, CacheIndex)
             PROVE  CacheInv'
  OBVIOUS
<1> DEFINE s == cache
           t == cache'
           n == CacheIndex
           version == s.origin[Hot] + 1
           kept == IF s.config.invalidationMode = "invalidate-on-write"
                   THEN Without(s.entries, {Hot}) ELSE s.entries
           cached == IF Hot \in DOMAIN kept THEN kept[Hot].version ELSE -1
           op == CacheRecord(Hot, TRUE, FALSE, cached, version)
           origin == [s.origin EXCEPT ![Hot] = version]
<1>1. t = [s EXCEPT !.origin = origin, !.entries = kept, !.operations = Append(s.operations, op)]
  BY DEF CacheWrite
<1>2. /\ kept \in CachedBy /\ DOMAIN kept \subseteq DOMAIN s.entries
      /\ \A k \in DOMAIN kept : kept[k] = s.entries[k]
      /\ s.config.invalidationMode = "invalidate-on-write" => Hot \notin DOMAIN kept
      /\ \A k \in DOMAIN s.entries \ DOMAIN kept : k = Hot
  <2>1. s.entries \in CachedBy
    BY CacheFound
  <2> DEFINE rest == Without(s.entries, {Hot})
  <2>2. /\ rest \in CachedBy /\ DOMAIN rest = DOMAIN s.entries \ {Hot}
        /\ \A k \in DOMAIN s.entries \ {Hot} : rest[k] = s.entries[k]
    BY <2>1, WithoutParts
  <2> HIDE DEF rest
  <2>3. kept = IF s.config.invalidationMode = "invalidate-on-write" THEN rest ELSE s.entries
    BY DEF rest
  <2> HIDE DEF kept
  <2>4. QED
    BY <2>1, <2>2, <2>3
<1>3. version \in Nat /\ s.origin[Hot] \in Nat /\ origin \in [CacheKeys -> Nat]
      /\ origin[Hot] = version
      /\ \A l \in CacheKeys : s.origin[l] <= origin[l] /\ (l # Hot => origin[l] = s.origin[l])
  BY CacheFound
<1> HIDE DEF kept
<1>4. cached \in Int
  BY <1>2, CacheFound
<1> HIDE DEF version, cached, origin
<1>5. /\ op \in CachedOperations /\ op.key = Hot /\ op.write /\ ~op.hit
      /\ op.originVersion = version
  BY <1>3, <1>4, CacheFound DEF CacheRecord, CachedOperations
<1> HIDE DEF op
<1>6. Append(s.operations, op) \in Seq(CachedOperations) /\ s \in CacheStates
  BY <1>5, CacheFound
<1>7. /\ t \in CacheStates /\ t.config = s.config /\ t.entries = kept /\ t.origin = origin
      /\ t.operations = Append(s.operations, op)
  BY <1>1, <1>2, <1>3, <1>6 DEF CacheStates, CachedBy
<1> HIDE DEF t
<1>8. OperationsSound(t)
  BY <1>3, <1>5, <1>6, <1>7, OperationsKept DEF CacheInv
<1>9. ASSUME NEW k \in DOMAIN t.entries
      PROVE  EntrySound(t, k, t.entries[k])
  <2>1. k \in DOMAIN s.entries /\ t.entries[k] = s.entries[k] /\ k \in CacheKeys
        /\ s.entries[k] \in CacheEntries /\ EntrySound(s, k, s.entries[k])
    BY <1>2, <1>7, <1>9, CacheFound DEF CacheInv
  <2>2. s.config.invalidationMode = "invalidate-on-write" => t.origin[k] = s.origin[k]
    BY <1>2, <1>3, <1>7, <1>9, <2>1
  <2>3. QED
    BY <1>5, <1>6, <1>7, <2>1, <2>2, EntryKept
<1>10. s.config.cacheCapacity > 0 => OrderSound(t)
  <2>1. \A k \in DOMAIN t.entries : k \in DOMAIN s.entries /\ t.entries[k] = s.entries[k]
    BY <1>2, <1>7
  <2>2. \A l \in CacheKeys \ DOMAIN t.entries : l \notin DOMAIN s.entries \/ op.key = l
    BY <1>2, <1>5, <1>7
  <2>3. \A k \in DOMAIN s.entries : EntrySound(s, k, s.entries[k])
    BY DEF CacheInv
  <2>4. QED
    BY <1>5, <1>6, <1>7, <2>1, <2>2, <2>3, OrderKept DEF CacheInv
<1>11. /\ IsFiniteSet(DOMAIN t.entries)
       /\ Cardinality(DOMAIN t.entries) <= s.config.cacheCapacity
  <2>1. IsFiniteSet(DOMAIN s.entries) /\ Cardinality(DOMAIN s.entries) <= s.config.cacheCapacity
    BY DEF CacheInv
  <2>2. IsFiniteSet(DOMAIN t.entries)
        /\ Cardinality(DOMAIN t.entries) <= Cardinality(DOMAIN s.entries)
    BY <1>2, <1>7, <2>1, FS_Subset
  <2>3. Cardinality(DOMAIN t.entries) \in Nat /\ Cardinality(DOMAIN s.entries) \in Nat
    BY <2>1, <2>2, FS_CardinalityType
  <2>4. QED
    BY <2>1, <2>2, <2>3, CacheFound
<1>12. QED
  BY <1>7, <1>8, <1>9, <1>10, <1>11 DEF CacheInv, t

\* A hit keeps the invariant.
LEMMA HitKeeps == CacheInv /\ CacheHit(cache, CacheIndex) => CacheInv'
<1> SUFFICES ASSUME CacheInv, CacheHit(cache, CacheIndex)
             PROVE  CacheInv'
  OBVIOUS
<1> DEFINE s == cache
           t == cache'
           n == CacheIndex
           key == KeyOf(s.config, n)
           e == s.entries[key]
           used == [e EXCEPT !.lastUsedAt = n]
           entries == [s.entries EXCEPT ![key] = used]
           op == CacheRecord(key, FALSE, TRUE, e.version, s.origin[key])
<1>1. t = [s EXCEPT !.entries = entries, !.operations = Append(s.operations, op)]
  BY DEF CacheHit
<1>2. key \in DOMAIN s.entries /\ ~(n - e.insertedAt >= s.config.ttlOperations)
  BY DEF CacheHit, Live, Expired
<1>3. key \in CacheKeys /\ e \in CacheEntries /\ e.version \in Nat /\ e.insertedAt \in Nat
      /\ s.origin[key] \in Nat /\ n \in Nat /\ n = Len(s.operations)
  BY <1>2, CacheFound
<1> HIDE DEF key, n, e
<1>4. used \in CacheEntries /\ used.lastUsedAt = n
  BY <1>3 DEF CacheEntries
<1> HIDE DEF used
<1>5. /\ entries \in CachedBy /\ DOMAIN entries = DOMAIN s.entries /\ entries[key] = used
      /\ \A k \in DOMAIN s.entries \ {key} : entries[k] = s.entries[k]
  BY <1>2, <1>4, CachedParts, CacheFound
<1>6. /\ op \in CachedOperations /\ op.key = key /\ ~op.write
      /\ op.originVersion = s.origin[key] /\ op.cacheVersion = e.version
  BY <1>3 DEF CacheRecord, CachedOperations
<1> HIDE DEF op, entries
<1>7. Append(s.operations, op) \in Seq(CachedOperations) /\ s \in CacheStates
  BY <1>6, CacheFound
<1>8. /\ t \in CacheStates /\ t.config = s.config /\ t.entries = entries /\ t.origin = s.origin
      /\ t.operations = Append(s.operations, op)
  BY <1>1, <1>5, <1>7 DEF CacheStates, CachedBy
<1> HIDE DEF t
<1>9. EntrySound(s, key, e)
  BY <1>2 DEF CacheInv, e
<1>10. OperationsSound(t)
  <2>1. \A l \in CacheKeys : s.origin[l] \in Nat /\ s.origin[l] <= t.origin[l]
    BY <1>8, CacheFound
  <2>2. op.originVersion <= t.origin[op.key]
    BY <1>3, <1>6, <1>8
  <2>3. \A i \in 1..n : i <= (n + 1) - s.config.ttlOperations /\ s.operations[i].key = op.key =>
            op.cacheVersion >= s.operations[i].originVersion
    <3>1. s.config.ttlOperations \in Nat
      BY CacheFound
    <3>2. \A i \in 1..n : i <= (n + 1) - s.config.ttlOperations => i <= e.insertedAt + 1
      BY <1>2, <1>3, <3>1
    <3>3. \A i \in 1..n : i <= e.insertedAt + 1 /\ s.operations[i].key = key =>
              e.version >= s.operations[i].originVersion
      BY <1>3, <1>9 DEF EntrySound
    <3>4. QED
      BY <1>6, <3>2, <3>3
  <2>4. s.config.invalidationMode = "invalidate-on-write" => op.cacheVersion = op.originVersion
    BY <1>6, <1>9 DEF EntrySound
  <2>5. OperationsSound(s)
    BY DEF CacheInv
  <2>6. QED
    BY <1>3, <1>6, <1>7, <1>8, <2>1, <2>2, <2>3, <2>4, <2>5, OperationsKept
<1>11. ASSUME NEW k \in DOMAIN t.entries
       PROVE  EntrySound(t, k, t.entries[k])
  <2>1. CASE k = key
    <3>1. EntrySound(t, op.key, [e EXCEPT !.lastUsedAt = Len(s.operations)])
      BY <1>3, <1>6, <1>7, <1>8, <1>9, EntryUsed
    <3>2. QED
      BY <1>3, <1>5, <1>6, <1>8, <2>1, <3>1 DEF used
  <2>2. CASE k # key
    <3>1. /\ k \in DOMAIN s.entries /\ t.entries[k] = s.entries[k]
          /\ s.entries[k] \in CacheEntries /\ EntrySound(s, k, s.entries[k])
      BY <1>5, <1>8, <1>11, <2>2, CacheFound DEF CacheInv
    <3>2. QED
      BY <1>6, <1>7, <1>8, <2>2, <3>1, EntryKept
  <2>3. QED
    BY <2>1, <2>2
<1>12. s.config.cacheCapacity > 0 => OrderSound(t)
  <2>1. \A k \in DOMAIN t.entries :
            \/ t.entries[k].lastUsedAt = Len(s.operations)
            \/ k \in DOMAIN s.entries /\ t.entries[k] = s.entries[k]
    BY <1>3, <1>4, <1>5, <1>8
  <2>2. \A l \in CacheKeys \ DOMAIN t.entries : l \notin DOMAIN s.entries
    BY <1>5, <1>8
  <2>3. \A k \in DOMAIN s.entries : EntrySound(s, k, s.entries[k])
    BY DEF CacheInv
  <2>4. op.key \in DOMAIN t.entries
    BY <1>2, <1>5, <1>6, <1>8
  <2>5. QED
    BY <1>6, <1>7, <1>8, <2>1, <2>2, <2>3, <2>4, OrderKept DEF CacheInv
<1>13. /\ IsFiniteSet(DOMAIN t.entries)
       /\ Cardinality(DOMAIN t.entries) <= s.config.cacheCapacity
  BY <1>5, <1>8 DEF CacheInv
<1>14. QED
  BY <1>8, <1>10, <1>11, <1>12, <1>13 DEF CacheInv, t

\* A miss keeps the invariant.
LEMMA MissKeeps == CacheInv /\ CacheMiss(cache, CacheIndex) => CacheInv'
<1> SUFFICES ASSUME CacheInv, CacheMiss(cache, CacheIndex)
             PROVE  CacheInv'
  OBVIOUS
<1> DEFINE s == cache
           t == cache'
           n == CacheIndex
           key == KeyOf(s.config, n)
           capacity == s.config.cacheCapacity
           entry == [version |-> s.origin[key], insertedAt |-> n, lastUsedAt |-> n]
           kept == Without(s.entries, {key})
           room == RoomMade(kept, capacity)
           entries == IF capacity = 0 THEN kept
                      ELSE [k \in DOMAIN room \cup {key} |-> IF k = key THEN entry ELSE room[k]]
           op == CacheRecord(key, FALSE, FALSE, s.origin[key], s.origin[key])
<1>1. t = [s EXCEPT !.entries = entries, !.operations = Append(s.operations, op)]
  BY DEF CacheMiss
<1>2. key \in CacheKeys /\ s.origin[key] \in Nat /\ n \in Nat /\ n = Len(s.operations)
      /\ capacity \in Nat
  BY CacheFound
<1> HIDE DEF key, n, capacity
<1>3. /\ entry \in CacheEntries /\ entry.lastUsedAt = n
      /\ entry = [version |-> s.origin[key], insertedAt |-> n, lastUsedAt |-> n]
  BY <1>2 DEF CacheEntries
<1>4. /\ kept \in CachedBy /\ DOMAIN kept = DOMAIN s.entries \ {key}
      /\ \A k \in DOMAIN kept : kept[k] = s.entries[k]
  <2>1. s.entries \in CachedBy
    BY CacheFound
  <2>2. /\ kept \in CachedBy /\ DOMAIN kept = DOMAIN s.entries \ {key}
        /\ \A k \in DOMAIN s.entries \ {key} : kept[k] = s.entries[k]
    BY <2>1, WithoutParts
  <2>3. QED
    BY <2>2
<1> HIDE DEF entry, kept
<1>5. IsFiniteSet(DOMAIN kept) /\ Cardinality(DOMAIN kept) <= capacity
  <2>1. IsFiniteSet(DOMAIN s.entries) /\ Cardinality(DOMAIN s.entries) <= capacity
    BY DEF CacheInv, capacity
  <2>2. IsFiniteSet(DOMAIN kept) /\ Cardinality(DOMAIN kept) <= Cardinality(DOMAIN s.entries)
    BY <1>4, <2>1, FS_Subset
  <2>3. Cardinality(DOMAIN kept) \in Nat /\ Cardinality(DOMAIN s.entries) \in Nat
    BY <2>1, <2>2, FS_CardinalityType
  <2>4. QED
    BY <1>2, <2>1, <2>2, <2>3
<1>6. capacity # 0 =>
          /\ room \in CachedBy /\ DOMAIN room \subseteq DOMAIN kept
          /\ \A k \in DOMAIN room : room[k] = kept[k]
          /\ IsFiniteSet(DOMAIN room) /\ Cardinality(DOMAIN room) <= capacity - 1
          /\ \A l \in DOMAIN kept \ DOMAIN room, k \in DOMAIN kept :
                 kept[l].lastUsedAt <= kept[k].lastUsedAt
  BY <1>2, <1>4, <1>5, RoomForOne
<1> HIDE DEF room
<1>7. /\ entries \in CachedBy
      /\ \A k \in DOMAIN entries \ {key} : k \in DOMAIN s.entries /\ entries[k] = s.entries[k]
      /\ capacity = 0 => key \notin DOMAIN entries
      /\ capacity # 0 => key \in DOMAIN entries /\ entries[key] = entry
  <2>1. CASE capacity = 0
    BY <1>4, <2>1
  <2>2. CASE capacity # 0
    <3>1. entries = [k \in DOMAIN room \cup {key} |-> IF k = key THEN entry ELSE room[k]]
      BY <2>2
    <3>2. DOMAIN room \subseteq CacheKeys /\ \A k \in DOMAIN room : room[k] \in CacheEntries
      BY <1>6, <2>2, CachedParts
    <3>3. entries \in [DOMAIN room \cup {key} -> CacheEntries]
      BY <1>3, <3>1, <3>2
    <3>4. entries \in CachedBy
      BY <1>2, <3>2, <3>3 DEF CachedBy
    <3>5. DOMAIN entries = DOMAIN room \cup {key} /\ entries[key] = entry
          /\ \A k \in DOMAIN room \ {key} : entries[k] = room[k]
      BY <3>1
    <3> HIDE DEF entries
    <3>6. QED
      BY <1>4, <1>6, <2>2, <3>4, <3>5
  <2>3. QED
    BY <2>1, <2>2
<1>8. IsFiniteSet(DOMAIN entries) /\ Cardinality(DOMAIN entries) <= capacity
  <2>1. CASE capacity = 0
    BY <1>5, <2>1
  <2>2. CASE capacity # 0
    <3>1. DOMAIN entries = DOMAIN room \cup {key} /\ key \notin DOMAIN room
      BY <1>4, <1>6, <2>2
    <3>2. IsFiniteSet(DOMAIN room) /\ Cardinality(DOMAIN room) <= capacity - 1
      BY <1>6, <2>2
    <3>3. /\ IsFiniteSet(DOMAIN room \cup {key})
          /\ Cardinality(DOMAIN room \cup {key}) = Cardinality(DOMAIN room) + 1
      BY <3>1, <3>2, FS_AddElement
    <3>4. Cardinality(DOMAIN room) \in Nat
      BY <3>2, FS_CardinalityType
    <3>5. QED
      BY <1>2, <3>1, <3>2, <3>3, <3>4
  <2>3. QED
    BY <2>1, <2>2
<1>9. capacity # 0 => \A l \in DOMAIN s.entries \ DOMAIN entries : \A k \in DOMAIN s.entries \ {key} :
          s.entries[l].lastUsedAt <= s.entries[k].lastUsedAt
  <2> SUFFICES ASSUME capacity # 0, NEW l \in DOMAIN s.entries \ DOMAIN entries,
                      NEW k \in DOMAIN s.entries \ {key}
               PROVE  s.entries[l].lastUsedAt <= s.entries[k].lastUsedAt
    OBVIOUS
  <2>1. DOMAIN entries = DOMAIN room \cup {key}
    OBVIOUS
  <2>2. l \in DOMAIN kept \ DOMAIN room /\ k \in DOMAIN kept
    BY <1>4, <2>1
  <2>3. QED
    BY <1>4, <1>6, <2>2
<1> HIDE DEF entries
<1>10. /\ op \in CachedOperations /\ op.key = key /\ ~op.write /\ ~op.hit
       /\ op.originVersion = s.origin[key]
  BY <1>2 DEF CacheRecord, CachedOperations
<1> HIDE DEF op
<1>11. Append(s.operations, op) \in Seq(CachedOperations) /\ s \in CacheStates
  BY <1>10, CacheFound
<1>12. /\ t \in CacheStates /\ t.config = s.config /\ t.entries = entries /\ t.origin = s.origin
       /\ t.operations = Append(s.operations, op)
  BY <1>1, <1>7, <1>11 DEF CacheStates, CachedBy
<1> HIDE DEF t
<1>13. OperationsSound(t)
  <2>1. \A l \in CacheKeys : s.origin[l] \in Nat /\ s.origin[l] <= t.origin[l]
    BY <1>12, CacheFound
  <2>2. op.originVersion <= t.origin[op.key]
    BY <1>2, <1>10, <1>12
  <2>3. OperationsSound(s)
    BY DEF CacheInv
  <2>4. QED
    BY <1>10, <1>11, <1>12, <2>1, <2>2, <2>3, OperationsKept
<1>14. ASSUME NEW k \in DOMAIN t.entries
       PROVE  EntrySound(t, k, t.entries[k])
  <2>1. CASE k = key
    <3>1. t.entries[k] = entry
      BY <1>7, <1>12, <1>14, <2>1
    <3>2. EntrySound(t, op.key, [version |-> s.origin[op.key], insertedAt |-> Len(s.operations),
                                 lastUsedAt |-> Len(s.operations)])
      BY <1>10, <1>11, <1>12, EntryFetched DEF CacheInv
    <3>3. QED
      BY <1>2, <1>3, <1>10, <2>1, <3>1, <3>2
  <2>2. CASE k # key
    <3>1. /\ k \in DOMAIN s.entries /\ t.entries[k] = s.entries[k]
          /\ s.entries[k] \in CacheEntries /\ EntrySound(s, k, s.entries[k])
      BY <1>7, <1>12, <1>14, <2>2, CacheFound DEF CacheInv
    <3>2. QED
      BY <1>10, <1>11, <1>12, <2>2, <3>1, EntryKept
  <2>3. QED
    BY <2>1, <2>2
<1>15. s.config.cacheCapacity > 0 => OrderSound(t)
  <2> SUFFICES ASSUME s.config.cacheCapacity > 0
               PROVE  OrderSound(t)
    OBVIOUS
  <2>1. capacity # 0 /\ OrderSound(s)
    BY DEF CacheInv, capacity
  <2>2. \A k \in DOMAIN t.entries :
            \/ t.entries[k].lastUsedAt = Len(s.operations)
            \/ k \in DOMAIN s.entries /\ t.entries[k] = s.entries[k]
    BY <1>2, <1>3, <1>7, <1>12, <2>1
  <2>3. \A k \in DOMAIN s.entries : EntrySound(s, k, s.entries[k])
    BY DEF CacheInv
  <2>4. op.key \in DOMAIN t.entries
    BY <1>7, <1>10, <1>12, <2>1
  <2>5. \A k \in DOMAIN s.entries : t.entries[k] = s.entries[k] => k # key
    <3>1. key \in DOMAIN s.entries => s.entries[key].lastUsedAt < n /\ s.entries[key].lastUsedAt \in Nat
      BY <1>2, <2>3, CacheFound DEF EntrySound
    <3>2. t.entries[key].lastUsedAt = n
      BY <1>3, <1>7, <1>12, <2>1
    <3>3. QED
      BY <1>2, <3>1, <3>2
  <2>6. \A l \in CacheKeys \ DOMAIN t.entries :
            \/ l \notin DOMAIN s.entries
            \/ \A k \in DOMAIN s.entries \cap DOMAIN t.entries :
                   t.entries[k] = s.entries[k] =>
                       s.entries[l].lastUsedAt <= s.entries[k].lastUsedAt
    BY <1>9, <1>12, <2>1, <2>5
  <2>7. QED
    BY <1>10, <1>11, <1>12, <2>1, <2>2, <2>3, <2>4, <2>6, OrderKept
<1>16. QED
  BY <1>8, <1>12, <1>13, <1>14, <1>15 DEF CacheInv, t, capacity

\* Every operation keeps the invariant.
LEMMA NextCache == CacheInv /\ [CacheOperation]_cache => CacheInv'
<1> SUFFICES ASSUME CacheInv, [CacheOperation]_cache
             PROVE  CacheInv'
  OBVIOUS
<1>1. CASE UNCHANGED cache
  BY <1>1 DEF CacheInv
<1>2. CASE CacheOperation
  BY <1>2, WriteKeeps, HitKeeps, MissKeeps DEF CacheOperation
<1>3. QED
  BY <1>1, <1>2

\* A hit is recent.
LEMMA RecentHits == CacheInv => HitsAreRecent
<1> SUFFICES ASSUME CacheInv, NEW k \in 1..Len(cache.operations), cache.operations[k].hit
             PROVE  LET op == cache.operations[k]
                    IN  /\ op.cacheVersion >= OriginAt(op.key, k - cache.config.ttlOperations)
                        /\ cache.config.invalidationMode = "invalidate-on-write" =>
                               op.cacheVersion = op.originVersion
  <2>1. DOMAIN cache.operations = 1..Len(cache.operations)
    BY DEF CacheInv, CacheStates
  <2>2. QED
    BY <2>1 DEF HitsAreRecent
<1> DEFINE op == cache.operations[k]
           n == Len(cache.operations)
           ttl == cache.config.ttlOperations
           D == {i \in DOMAIN cache.operations : i <= k - ttl /\ cache.operations[i].key = op.key}
           S == {0} \cup {cache.operations[j].originVersion : j \in D}
<1>1. cache \in CacheStates /\ DOMAIN cache.operations = 1..n /\ n \in Nat /\ ttl \in Nat \ {0}
  BY CacheFound DEF CacheInv, CacheStates
<1>2. op.key \in CacheKeys /\ op.cacheVersion \in Int
  BY <1>1, CachedRecorded
<1>3. \A j \in D : /\ cache.operations[j].originVersion \in Nat
                   /\ cache.operations[j].originVersion <= op.cacheVersion
  <2>1. \A j \in D : j \in 1..n /\ j \in 1..(k - ttl) /\ cache.operations[j].key = op.key
    BY <1>1
  <2>2. \A j \in 1..(k - ttl) : cache.operations[j].key = op.key =>
            op.cacheVersion >= cache.operations[j].originVersion
    BY DEF CacheInv, OperationsSound
  <2>3. \A j \in 1..n : cache.operations[j].originVersion \in Nat
    BY <1>1, CachedRecorded
  <2> HIDE DEF D, op
  <2>4. QED
    BY <1>2, <2>1, <2>2, <2>3
<1>4. OriginAt(op.key, k - ttl) = Max(S)
  BY DEF OriginAt
<1>5. op.cacheVersion \in Nat
  BY DEF CacheInv, OperationsSound
<1>6. Max(S) <= op.cacheVersion
  <2>1. S \in SUBSET Nat /\ S # {} /\ \A x \in S : x <= op.cacheVersion
    BY <1>3, <1>5
  <2> HIDE DEF S
  <2>2. QED
    BY <1>5, <2>1, LargestIsMax
<1>7. QED
  BY <1>4, <1>6 DEF CacheInv, OperationsSound

\* A key read more recently than a cached one is cached, unless it was written since.
LEMMA RecentlyUsed == CacheInv => RecentlyUsedIsKept
<1> DEFINE n == CacheIndex
           D(l) == {j \in DOMAIN cache.operations :
                        j <= n /\ cache.operations[j].key = l /\ ~cache.operations[j].write}
<1> SUFFICES ASSUME CacheInv, cache.config.cacheCapacity > 0,
                    NEW k \in DOMAIN cache.entries, NEW l \in CacheKeys,
                    LastRead(l, n) > LastRead(k, n), l \notin DOMAIN cache.entries
             PROVE  \E j \in DOMAIN cache.operations :
                        /\ j > LastRead(l, n) /\ cache.operations[j].write
                        /\ cache.operations[j].key = l
  BY DEF RecentlyUsedIsKept
<1>1. n = Len(cache.operations) /\ n \in Nat /\ DOMAIN cache.operations = 1..n
      /\ cache.entries[k].lastUsedAt \in Nat
  BY CacheFound DEF CacheStates
<1>2. ASSUME NEW m
      PROVE  /\ LastRead(m, n) \in {0} \cup D(m) /\ LastRead(m, n) \in Nat
             /\ \A x \in D(m) : x <= LastRead(m, n)
  <2> DEFINE S == {0} \cup D(m)
  <2>1. S \in SUBSET Nat /\ S # {} /\ \A x \in S : x <= n
    BY <1>1
  <2>2. LastRead(m, n) = Max(S)
    BY DEF LastRead
  <2> HIDE DEF S
  <2>3. Max(S) \in S /\ Max(S) \in Nat /\ \A x \in S : x <= Max(S)
    BY <1>1, <2>1, LargestIsMax
  <2>4. QED
    BY <2>2, <2>3 DEF S
<1>3. LastRead(k, n) >= cache.entries[k].lastUsedAt + 1
  <2>1. /\ cache.entries[k].lastUsedAt < n
        /\ Reads(cache, cache.entries[k].lastUsedAt + 1, k)
    BY <1>1 DEF CacheInv, EntrySound
  <2>2. cache.entries[k].lastUsedAt + 1 \in D(k)
    BY <1>1, <2>1 DEF Reads
  <2> HIDE DEF D
  <2>3. QED
    BY <1>1, <1>2, <2>2
<1> DEFINE r == LastRead(l, n)
<1>4. r \in Nat /\ r > cache.entries[k].lastUsedAt + 1 /\ r \in D(l)
  <2>1. r \in Nat /\ r \in {0} \cup D(l) /\ LastRead(k, n) \in Nat
    BY <1>2
  <2> HIDE DEF D
  <2>2. QED
    BY <1>1, <1>3, <2>1
<1>5. r \in 1..n /\ Reads(cache, r, l)
  BY <1>1, <1>4 DEF Reads
<1> HIDE DEF r
<1>6. PICK j \in 1..n : j > r /\ Writes(cache, j, l)
  BY <1>1, <1>4, <1>5 DEF CacheInv, OrderSound
<1>7. QED
  BY <1>1, <1>6 DEF Writes, r

\* simulateCache, for any pattern of keys, capacity, time to live and rhythm of writes: a hit
\* is never older than the time to live and, with invalidation, never stale; what was read
\* recently is kept; and the cache never outgrows its capacity.
THEOREM CacheKeeps == CacheSpec => []CachePromises
<1>1. CacheInv => CachePromises
  BY RecentHits, RecentlyUsed DEF CachePromises, CacheInv
<1>2. CacheSpec => []CacheInv
  BY InitCache, NextCache, PTL DEF CacheSpec
<1>3. QED
  BY <1>1, <1>2, PTL

-----------------------------------------------------------------------------

(* The admission exhibit. *)

Offered ==
    [arrivalMs : Nat, reason : {"admitted", "rate-limited", "concurrency-limited"},
     inFlightBefore : Nat]

AdmissionStates ==
    [config : AdmissionSettings, previousMs : Nat, tokens : Nat,
     active : SUBSET [id : Nat, completionMs : Nat], overCapacity : Nat, requests : Seq(Offered)]

Admits(s, k) == s.requests[k].reason = "admitted"

\* The admissions among requests i to j, and what the bucket can have given out between them.
Admissions(s, i, j) == {k \in i..j : Admits(s, k)}
Allows(s, i, j) ==
    s.config.tokenCapacity
    + (s.requests[j].arrivalMs - s.requests[i].arrivalMs) * s.config.refillPerSecond

EndsAfter(s, k, atMs) == s.requests[k].arrivalMs + s.config.serviceTimeMs > atMs

\* The admitted requests that are in service when request j arrives.
Busy(s, j) == {k \in 1..(j - 1) : Admits(s, k) /\ EndsAfter(s, k, s.requests[j].arrivalMs)}
Full(s, j) == Cardinality(Busy(s, j)) >= s.config.backendConcurrency
Beyond(s) == {j \in 1..Len(s.requests) : Admits(s, j) /\ Full(s, j)}

\* Arrivals are in order, and the clock is that of the last one.
ArrivalsSound(s) ==
    /\ \A k \in 1..Len(s.requests) : s.requests[k].arrivalMs <= s.previousMs
    /\ Len(s.requests) > 0 => s.requests[Len(s.requests)].arrivalMs = s.previousMs
    /\ Len(s.requests) = 0 => s.previousMs = 0

\* The bucket holds what is left of the most demanding stretch up to now.
BucketSound(s) ==
    LET n == Len(s.requests)
        used(i) == Cardinality(Admissions(s, i, n)) * Token
    IN  /\ n = 0 => s.tokens = s.config.tokenCapacity
        /\ \A i \in 1..n : s.tokens + used(i) <= Allows(s, i, n)
        /\ n > 0 => \E i \in 1..n : s.tokens + used(i) >= Allows(s, i, n)
        /\ \A j \in 1..n :
               /\ \A i \in 1..j : Cardinality(Admissions(s, i, j)) * Token <= Allows(s, i, j)
               /\ s.requests[j].reason = "rate-limited" =>
                      \E i \in 1..j : (Cardinality(Admissions(s, i, j)) + 1) * Token > Allows(s, i, j)

Work(s, k) ==
    [id |-> k - 1, completionMs |-> s.requests[k].arrivalMs + s.config.serviceTimeMs]

\* The work in flight is that of the requests not completed, and the last one admitted.
Working(s) ==
    {k \in 1..Len(s.requests) :
        Admits(s, k) /\ (k = Len(s.requests) \/ EndsAfter(s, k, s.previousMs))}

BackendSound(s) ==
    /\ s.active = {Work(s, k) : k \in Working(s)}
    /\ s.config.policy = "concurrency-limit" =>
           \A j \in 1..Len(s.requests) :
               s.requests[j].reason = "concurrency-limited" <=> Full(s, j)
    /\ s.overCapacity = Cardinality(Beyond(s))

AdmissionInv ==
    /\ admission \in AdmissionStates
    /\ ArrivalsSound(admission)
    /\ admission.config.policy = "token-bucket" => BucketSound(admission)
    /\ BackendSound(admission)

-----------------------------------------------------------------------------

\* A configuration's parts.
LEMMA AdmissionConfig ==
    ASSUME NEW c \in AdmissionSettings
    PROVE  /\ c.policy \in {"none", "token-bucket", "concurrency-limit"}
           /\ c.requestCount \in Nat /\ c.serviceTimeMs \in Nat /\ c.tokenCapacity \in Nat
           /\ c.refillPerSecond \in Nat /\ c.baseIntervalMs \in Nat \ {0}
           /\ c.burstMultiplier \in Nat \ {0} /\ c.backendConcurrency \in Nat \ {0}
  BY AdmissionAssumption

\* Time passes from one arrival to the next, or none does.
LEMMA ArrivalIsLater ==
    ASSUME NEW c \in AdmissionSettings, NEW i \in Nat, NEW previousMs \in Nat, i = 0 => previousMs = 0
    PROVE  ArrivalAfter(c, previousMs, i) \in Nat /\ previousMs <= ArrivalAfter(c, previousMs, i)
<1>1. \A a \in Nat, b \in Nat \ {0} : a \div b \in Nat
  BY SMT
<1>2. c.baseIntervalMs \in Nat /\ c.baseIntervalMs \div c.burstMultiplier \in Nat
  BY <1>1, AdmissionConfig
<1>3. QED
  BY <1>2 DEF ArrivalAfter

\* The requests recorded so far.
LEMMA OfferedParts ==
    ASSUME NEW s \in AdmissionStates, NEW k \in 1..Len(s.requests)
    PROVE  /\ s.requests[k] \in Offered /\ s.requests[k].arrivalMs \in Nat
           /\ s.requests[k].reason \in {"admitted", "rate-limited", "concurrency-limited"}
<1>1. s.requests \in Seq(Offered)
  BY DEF AdmissionStates
<1>2. \A S : \A q \in Seq(S) : \A i \in 1..Len(q) : q[i] \in S
  OBVIOUS
<1>3. s.requests[k] \in Offered
  BY <1>1, <1>2, Zenon
<1>4. QED
  BY <1>3 DEF Offered

\* t is s after one more request.
OffersOneMore(s, t, r) ==
    /\ t.config = s.config
    /\ Len(t.requests) = Len(s.requests) + 1
    /\ \A k \in 1..Len(s.requests) : t.requests[k] = s.requests[k]
    /\ t.requests[Len(s.requests) + 1] = r
    /\ t.previousMs = r.arrivalMs

\* What was decided about earlier requests stays as it was.
LEMMA EarlierAsBefore ==
    ASSUME NEW s \in AdmissionStates, NEW t, NEW r, OffersOneMore(s, t, r),
           NEW j \in 1..Len(s.requests)
    PROVE  /\ \A i \in 1..j : Admissions(t, i, j) = Admissions(s, i, j)
           /\ \A i \in 1..j : Allows(t, i, j) = Allows(s, i, j)
           /\ Busy(t, j) = Busy(s, j) /\ (Full(t, j) <=> Full(s, j))
           /\ Admits(t, j) <=> Admits(s, j)
<1>1. Len(s.requests) \in Nat
  BY DEF AdmissionStates
<1>2. \A k \in 1..j : t.requests[k] = s.requests[k]
  BY <1>1 DEF OffersOneMore
<1>3. t.config = s.config
  BY DEF OffersOneMore
<1>4. \A i \in 1..j : Admissions(t, i, j) = Admissions(s, i, j)
  BY <1>2 DEF Admissions, Admits
<1>5. \A i \in 1..j : Allows(t, i, j) = Allows(s, i, j)
  BY <1>2, <1>3 DEF Allows
<1>6. Busy(t, j) = Busy(s, j)
  BY <1>2, <1>3 DEF Busy, Admits, EndsAfter
<1>7. QED
  BY <1>2, <1>3, <1>4, <1>5, <1>6 DEF Full, Admits

\* A stretch that ends with the new request has its admissions and the new one.
LEMMA AdmissionsGrow ==
    ASSUME NEW s \in AdmissionStates, NEW t, NEW r, OffersOneMore(s, t, r),
           NEW i \in 1..(Len(s.requests) + 1)
    PROVE  LET n == Len(s.requests)
               more == IF r.reason = "admitted" THEN 1 ELSE 0
           IN  /\ Cardinality(Admissions(s, i, n)) \in Nat
               /\ Cardinality(Admissions(t, i, n + 1)) = Cardinality(Admissions(s, i, n)) + more
<1> DEFINE n == Len(s.requests)
           A == Admissions(s, i, n)
<1>1. n \in Nat
  BY DEF AdmissionStates
<1>2. IsFiniteSet(A) /\ Cardinality(A) \in Nat /\ n + 1 \notin A
  <2>1. IsFiniteSet(i..n)
    BY <1>1, FS_Interval
  <2>2. A \subseteq i..n
    BY DEF Admissions
  <2>3. n + 1 \notin A
    BY <1>1 DEF Admissions
  <2>4. QED
    BY <2>1, <2>2, <2>3, FS_Subset, FS_CardinalityType
<1>3. Admissions(t, i, n + 1) = IF r.reason = "admitted" THEN A \cup {n + 1} ELSE A
  BY <1>1, SMTT(30) DEF OffersOneMore, Admissions, Admits
<1>4. Cardinality(A \cup {n + 1}) = Cardinality(A) + 1
  BY <1>2, FS_AddElement
<1> HIDE DEF A
<1>5. QED
  BY <1>2, <1>3, <1>4 DEF A

-----------------------------------------------------------------------------

(* The bucket. *)

\* Time that passes adds its refill to every stretch.
LEMMA AllowsMore ==
    ASSUME NEW s \in AdmissionStates, ArrivalsSound(s), NEW t, NEW r \in Offered, OffersOneMore(s, t, r),
           r.arrivalMs >= s.previousMs
    PROVE  LET n == Len(s.requests)
               refill == (r.arrivalMs - s.previousMs) * s.config.refillPerSecond
           IN  /\ refill \in Nat
               /\ \A i \in 1..n : Allows(s, i, n) \in Int
               /\ \A i \in 1..n : Allows(t, i, n + 1) = Allows(s, i, n) + refill
               /\ Allows(t, n + 1, n + 1) = s.config.tokenCapacity
<1> DEFINE n == Len(s.requests)
           R == s.config.refillPerSecond
           P == s.previousMs
           e == r.arrivalMs - P
<1>1. n \in Nat /\ P \in Nat /\ R \in Nat /\ s.config.tokenCapacity \in Nat /\ r.arrivalMs \in Nat
  BY AdmissionConfig DEF AdmissionStates, Offered
<1>2. e \in Nat
  BY <1>1
<1>3. \A x, y \in Nat : x * y \in Nat
  BY SMT
<1>4. e * R \in Nat
  BY <1>1, <1>2, <1>3
<1>5. \A a, b, c \in Int : (a - b) * c + (b - b) * c = (a - b) * c /\ (a - b) * c \in Int
  BY SMT
<1>6. \A a, b, c, d \in Int : (d - a) * c = (b - a) * c + (d - b) * c
  BY SMT
<1>7. \A i \in 1..n : s.requests[i].arrivalMs \in Nat
  BY OfferedParts
<1>8. t.config = s.config /\ t.requests[n + 1] = r /\ \A k \in 1..n : t.requests[k] = s.requests[k]
  BY DEF OffersOneMore
<1>9. ASSUME NEW i \in 1..n
      PROVE  Allows(s, i, n) \in Int /\ Allows(t, i, n + 1) = Allows(s, i, n) + e * R
  <2> DEFINE a == s.requests[i].arrivalMs
  <2>1. a \in Nat /\ n > 0 /\ s.requests[n].arrivalMs = P
    BY <1>1, <1>7 DEF ArrivalsSound
  <2>2. Allows(s, i, n) = s.config.tokenCapacity + (P - a) * R
    BY <2>1 DEF Allows
  <2>3. Allows(t, i, n + 1) = s.config.tokenCapacity + (r.arrivalMs - a) * R
    BY <1>8 DEF Allows
  <2>4. (r.arrivalMs - a) * R = (P - a) * R + e * R /\ (P - a) * R \in Int
    <3> DEFINE x == r.arrivalMs
    <3>1. x \in Int /\ P \in Int /\ a \in Int /\ R \in Int /\ e = x - P
      BY <1>1, <2>1
    <3> HIDE DEF x, P, a, R, e
    <3>2. (x - a) * R = (P - a) * R + e * R /\ (P - a) * R \in Int
      BY ONLY <3>1, SMT
    <3>3. QED
      BY <3>2 DEF x
  <2> HIDE DEF a, e, R
  <2>5. QED
    BY <1>1, <1>4, <2>2, <2>3, <2>4 DEF R
<1>10. Allows(t, n + 1, n + 1) = s.config.tokenCapacity
  <2>1. \A a, c \in Int : (a - a) * c = 0
    BY SMT
  <2>2. (r.arrivalMs - r.arrivalMs) * R = 0
    BY <1>1, <2>1
  <2>3. Allows(t, n + 1, n + 1) = s.config.tokenCapacity + (r.arrivalMs - r.arrivalMs) * R
    BY <1>8 DEF Allows
  <2>4. QED
    BY <1>1, <2>2, <2>3
<1>11. QED
  BY <1>4, <1>9, <1>10

\* The bucket after its refill.
LEMMA RefilledIs ==
    ASSUME NEW s \in AdmissionStates, NEW elapsedMs \in Nat, s.config.policy = "token-bucket"
    PROVE  LET filled == Refilled(s, elapsedMs)
               refill == elapsedMs * s.config.refillPerSecond
           IN  /\ filled \in Nat /\ filled <= s.config.tokenCapacity /\ filled <= s.tokens + refill
               /\ filled = s.config.tokenCapacity \/ filled = s.tokens + refill
<1> DEFINE x == s.config.tokenCapacity
           y == s.tokens + elapsedMs * s.config.refillPerSecond
<1>1. \A a, b \in Nat : a * b \in Nat
  BY SMT
<1>2. x \in Nat /\ y \in Nat
  <2>1. s.config.refillPerSecond \in Nat /\ s.tokens \in Nat /\ x \in Nat
    BY AdmissionConfig DEF AdmissionStates
  <2>2. elapsedMs * s.config.refillPerSecond \in Nat
    BY <1>1, <2>1
  <2>3. QED
    BY <2>1, <2>2
<1>3. Refilled(s, elapsedMs) = Min({x, y})
  BY DEF Refilled
<1> HIDE DEF x, y
<1>4. Min({x, y}) \in Nat /\ Min({x, y}) <= x /\ Min({x, y}) <= y /\ Min({x, y}) \in {x, y}
  BY <1>2 DEF Min
<1>5. QED
  BY <1>3, <1>4 DEF x, y

\* One more request is admitted for a token, or refused for want of one.
LEMMA BucketStep ==
    ASSUME NEW s \in AdmissionStates, ArrivalsSound(s), BucketSound(s),
           s.config.policy = "token-bucket",
           NEW t \in AdmissionStates, NEW r \in Offered, OffersOneMore(s, t, r),
           r.arrivalMs >= s.previousMs,
           NEW filled, filled = Refilled(s, r.arrivalMs - s.previousMs),
           \/ r.reason = "admitted" /\ filled >= Token /\ t.tokens = filled - Token
           \/ r.reason = "rate-limited" /\ filled < Token /\ t.tokens = filled
    PROVE  BucketSound(t)
<1> DEFINE n == Len(s.requests)
           capacity == s.config.tokenCapacity
           refill == (r.arrivalMs - s.previousMs) * s.config.refillPerSecond
           more == IF r.reason = "admitted" THEN 1 ELSE 0
           cost == IF r.reason = "admitted" THEN Token ELSE 0
           used(i) == Cardinality(Admissions(s, i, n)) * Token
           usedNow(i) == Cardinality(Admissions(t, i, n + 1)) * Token
<1>1. n \in Nat /\ capacity \in Nat /\ s.tokens \in Nat /\ t.tokens \in Nat /\ t.config = s.config
      /\ Len(t.requests) = n + 1 /\ t.requests[n + 1] = r /\ r.arrivalMs - s.previousMs \in Nat
  BY AdmissionConfig, SMTT(30) DEF AdmissionStates, OffersOneMore, Offered
<1>2. /\ filled \in Nat /\ filled <= capacity /\ filled <= s.tokens + refill
      /\ filled = capacity \/ filled = s.tokens + refill
  BY <1>1, RefilledIs
<1>3. /\ refill \in Nat
      /\ \A i \in 1..n : Allows(s, i, n) \in Int
      /\ \A i \in 1..n : Allows(t, i, n + 1) = Allows(s, i, n) + refill
      /\ Allows(t, n + 1, n + 1) = capacity
  BY AllowsMore
<1>4. \A i \in 1..(n + 1) : /\ used(i) \in Nat /\ usedNow(i) = used(i) + cost
                            /\ (Cardinality(Admissions(t, i, n + 1)) + 1) * Token = usedNow(i) + Token
  <2> SUFFICES ASSUME NEW i \in 1..(n + 1)
               PROVE  /\ used(i) \in Nat /\ usedNow(i) = used(i) + cost
                      /\ (Cardinality(Admissions(t, i, n + 1)) + 1) * Token = usedNow(i) + Token
    OBVIOUS
  <2>1. \A x, m \in Nat : /\ x * Token \in Nat
                          /\ (x + m) * Token = x * Token + m * Token
                          /\ (x + 1) * Token = x * Token + Token
    BY SMT DEF Token
  <2>2. /\ Cardinality(Admissions(s, i, n)) \in Nat
        /\ Cardinality(Admissions(t, i, n + 1)) = Cardinality(Admissions(s, i, n)) + more
    BY AdmissionsGrow
  <2>3. more \in Nat /\ more * Token = cost /\ Cardinality(Admissions(s, i, n)) + more \in Nat
    BY <2>2 DEF Token
  <2>4. QED
    BY <2>1, <2>2, <2>3
<1>5. used(n + 1) = 0
  <2>1. Admissions(s, n + 1, n) = {}
    BY <1>1 DEF Admissions
  <2>2. Cardinality(Admissions(s, n + 1, n)) = 0
    BY <2>1, FS_EmptySet, Zenon
  <2>3. QED
    BY <2>2 DEF Token
<1>6. /\ n = 0 => s.tokens = capacity
      /\ \A i \in 1..n : s.tokens + used(i) <= Allows(s, i, n)
      /\ n > 0 => \E i \in 1..n : s.tokens + used(i) >= Allows(s, i, n)
  BY DEF BucketSound
<1>7. cost \in Nat /\ filled = t.tokens + cost
      /\ (r.reason = "rate-limited" => cost = 0 /\ filled < Token)
  <2>1. r.reason = "admitted" => filled = t.tokens + Token
    BY <1>1, <1>2 DEF Token
  <2>2. QED
    BY <1>1, <1>2, <2>1 DEF Token
<1> HIDE DEF refill, more, cost, used, usedNow, n, capacity
<1>0. s.tokens \in Nat /\ t.tokens \in Nat /\ refill \in Nat /\ capacity \in Nat
  BY <1>1, <1>3
<1>8. \A i \in 1..(n + 1) : filled + used(i) <= Allows(t, i, n + 1)
  <2>1. ASSUME NEW i \in 1..n PROVE filled + used(i) <= Allows(t, i, n + 1)
    <3>1. i \in 1..(n + 1)
      BY <1>1
    <3>2. used(i) \in Nat
      BY <1>4, <3>1
    <3>3. Allows(s, i, n) \in Int /\ Allows(t, i, n + 1) = Allows(s, i, n) + refill
      BY <1>3
    <3>4. s.tokens + used(i) <= Allows(s, i, n)
      BY <1>6
    <3>5. QED
      BY ONLY <1>0, <1>2, <3>2, <3>3, <3>4
  <2>2. filled + used(n + 1) <= Allows(t, n + 1, n + 1)
    BY <1>1, <1>2, <1>3, <1>5
  <2>3. QED
    BY <1>1, <2>1, <2>2
<1>9. \E i \in 1..(n + 1) : filled + used(i) >= Allows(t, i, n + 1)
  <2>1. CASE filled = capacity
    BY <1>1, <1>2, <1>3, <1>5, <2>1
  <2>2. CASE filled = s.tokens + refill /\ n > 0
    <3>1. PICK i \in 1..n : s.tokens + used(i) >= Allows(s, i, n)
      BY <1>6, <2>2
    <3>2. filled + used(i) >= Allows(t, i, n + 1)
      <4>1. i \in 1..(n + 1)
        BY <1>1
      <4>2. used(i) \in Nat
        BY <1>4, <4>1
      <4>3. Allows(s, i, n) \in Int /\ Allows(t, i, n + 1) = Allows(s, i, n) + refill
        BY <1>3
      <4>4. QED
        BY ONLY <1>0, <2>2, <3>1, <4>2, <4>3
    <3>3. QED
      BY <1>1, <3>2
  <2>3. CASE filled = s.tokens + refill /\ n = 0
    <3>1. filled = capacity
      BY <1>1, <1>2, <1>3, <1>6, <2>3
    <3>2. QED
      BY <2>1, <3>1
  <2>4. QED
    BY <1>1, <1>2, <2>1, <2>2, <2>3
<1>10. \A i \in 1..(n + 1) : /\ usedNow(i) \in Nat
                             /\ t.tokens + usedNow(i) = filled + used(i)
  <2> SUFFICES ASSUME NEW i \in 1..(n + 1)
               PROVE  usedNow(i) \in Nat /\ t.tokens + usedNow(i) = filled + used(i)
    OBVIOUS
  <2>1. used(i) \in Nat /\ usedNow(i) = used(i) + cost
    BY <1>4
  <2>2. QED
    BY ONLY <1>0, <1>2, <1>7, <2>1
<1>11. /\ \A i \in 1..(n + 1) : t.tokens + usedNow(i) <= Allows(t, i, n + 1)
       /\ \E i \in 1..(n + 1) : t.tokens + usedNow(i) >= Allows(t, i, n + 1)
  BY <1>8, <1>9, <1>10
<1>12. \A i \in 1..(n + 1) : Allows(t, i, n + 1) \in Int
  BY <1>1, <1>3, SMTT(30)
<1>13. ASSUME NEW j \in 1..(n + 1)
       PROVE  /\ \A i \in 1..j : Cardinality(Admissions(t, i, j)) * Token <= Allows(t, i, j)
              /\ t.requests[j].reason = "rate-limited" =>
                     \E i \in 1..j : (Cardinality(Admissions(t, i, j)) + 1) * Token > Allows(t, i, j)
  <2>1. CASE j <= n
    <3>1. j \in 1..Len(s.requests) /\ t.requests[j] = s.requests[j]
      BY <1>1, <2>1 DEF n, OffersOneMore
    <3>2. \A i \in 1..j : Admissions(t, i, j) = Admissions(s, i, j) /\ Allows(t, i, j) = Allows(s, i, j)
      BY <3>1, EarlierAsBefore
    <3>3. /\ \A i \in 1..j : Cardinality(Admissions(s, i, j)) * Token <= Allows(s, i, j)
          /\ s.requests[j].reason = "rate-limited" =>
                 \E i \in 1..j : (Cardinality(Admissions(s, i, j)) + 1) * Token > Allows(s, i, j)
      BY <3>1 DEF BucketSound
    <3>4. QED
      BY <3>1, <3>2, <3>3
  <2>2. CASE j = n + 1
    <3>1. \A i \in 1..(n + 1) : usedNow(i) <= Allows(t, i, n + 1)
      <4> SUFFICES ASSUME NEW i \in 1..(n + 1) PROVE usedNow(i) <= Allows(t, i, n + 1)
        OBVIOUS
      <4>1. usedNow(i) \in Nat /\ Allows(t, i, n + 1) \in Int
            /\ t.tokens + usedNow(i) <= Allows(t, i, n + 1)
        BY <1>10, <1>11, <1>12
      <4>2. QED
        BY ONLY <1>0, <4>1
    <3>2. ASSUME r.reason = "rate-limited"
          PROVE  \E i \in 1..(n + 1) : (Cardinality(Admissions(t, i, n + 1)) + 1) * Token > Allows(t, i, n + 1)
      <4>1. PICK i \in 1..(n + 1) : t.tokens + usedNow(i) >= Allows(t, i, n + 1)
        BY <1>11
      <4>2. t.tokens < Token
        BY <1>1, <1>2, <1>7, <3>2 DEF Token
      <4>3. usedNow(i) \in Nat /\ (Cardinality(Admissions(t, i, n + 1)) + 1) * Token = usedNow(i) + Token
            /\ Allows(t, i, n + 1) \in Int
        BY <1>4, <1>10, <1>12
      <4>5. (Cardinality(Admissions(t, i, n + 1)) + 1) * Token > Allows(t, i, n + 1)
        BY ONLY <1>0, <4>1, <4>2, <4>3 DEF Token
      <4>6. QED
        BY <4>5
    <3>3. QED
      BY <1>1, <2>2, <3>1, <3>2 DEF usedNow
  <2>3. QED
    BY <1>1, <2>1, <2>2
<1>14. QED
  BY <1>1, <1>11, <1>13 DEF BucketSound, usedNow

-----------------------------------------------------------------------------

(* The backend. *)

\* Work is told apart by its request.
LEMMA WorkCounted ==
    ASSUME NEW s, NEW K \in SUBSET (1..Len(s.requests)), Len(s.requests) \in Nat
    PROVE  LET W == {Work(s, k) : k \in K}
           IN  IsFiniteSet(W) /\ Cardinality(W) = Cardinality(K) /\ Cardinality(K) \in Nat
<1> DEFINE W == {Work(s, k) : k \in K}
           f == [k \in K |-> Work(s, k)]
<1>1. IsFiniteSet(K) /\ Cardinality(K) \in Nat
  <2>1. IsFiniteSet(1..Len(s.requests))
    BY FS_Interval
  <2>2. QED
    BY <2>1, FS_Subset, FS_CardinalityType
<1>2. \A k \in K, l \in K : f[k] = f[l] => k = l
  BY DEF Work
<1>3. f \in Bijection(K, W)
  <2>1. f \in [K -> W] /\ \A w \in W : \E k \in K : f[k] = w
    OBVIOUS
  <2> HIDE DEF f
  <2>2. QED
    BY <1>2, <2>1 DEF Bijection, Injection, Surjection, IsInjective
<1>4. ExistsBijection(K, W)
  BY <1>3 DEF ExistsBijection
<1> HIDE DEF W, f
<1>5. IsFiniteSet(W) /\ Cardinality(W) = Cardinality(K)
  BY <1>1, <1>4, FS_Bijection
<1>6. QED
  BY <1>1, <1>5 DEF W

\* When a request arrives, the work in flight is that of the requests in service.
LEMMA InFlightIsBusy ==
    ASSUME NEW s \in AdmissionStates, ArrivalsSound(s), BackendSound(s), NEW t, NEW r \in Offered,
           OffersOneMore(s, t, r), r.arrivalMs >= s.previousMs
    PROVE  LET n == Len(s.requests)
               left == removeCompleted(s.active, r.arrivalMs)
           IN  /\ left = {Work(t, k) : k \in Busy(t, n + 1)}
               /\ IsFiniteSet(left) /\ Cardinality(left) = Cardinality(Busy(t, n + 1))
               /\ Cardinality(left) \in Nat
<1> DEFINE n == Len(s.requests)
           left == removeCompleted(s.active, r.arrivalMs)
           B == Busy(t, n + 1)
<1>1. n \in Nat /\ s.previousMs \in Nat /\ r.arrivalMs \in Nat /\ s.config.serviceTimeMs \in Nat
  BY AdmissionConfig DEF AdmissionStates, Offered
<1>2. /\ t.config = s.config /\ t.requests[n + 1] = r /\ Len(t.requests) = n + 1
      /\ \A k \in 1..n : t.requests[k] = s.requests[k]
  BY DEF OffersOneMore
<1>3. \A k \in 1..n : s.requests[k].arrivalMs \in Nat
  BY OfferedParts
<1>4. \A k \in 1..n : Work(t, k) = Work(s, k) /\ (Admits(t, k) <=> Admits(s, k))
  BY <1>2 DEF Work, Admits
<1>5. B = {k \in 1..n : Admits(s, k) /\ EndsAfter(s, k, r.arrivalMs)}
  BY <1>1, <1>2 DEF Busy, Admits, EndsAfter
<1>6. B = {k \in Working(s) : EndsAfter(s, k, r.arrivalMs)}
  <2>1. \A k \in 1..n : EndsAfter(s, k, r.arrivalMs) => EndsAfter(s, k, s.previousMs)
    BY <1>1, <1>3 DEF EndsAfter
  <2>2. QED
    BY <1>5, <2>1 DEF Working
<1>7. \A k \in 1..n : EndsAfter(s, k, r.arrivalMs) <=> Work(s, k).completionMs > r.arrivalMs
  BY DEF EndsAfter, Work
<1>8. s.active = {Work(s, k) : k \in Working(s)} /\ Working(s) \subseteq 1..n
  BY DEF BackendSound, Working
<1>9. left = {Work(s, k) : k \in B}
  <2> HIDE DEF B
  <2>1. left = {a \in s.active : a.completionMs > r.arrivalMs}
    BY DEF removeCompleted
  <2>2. QED
    BY <1>6, <1>7, <1>8, <2>1
<1>10. B \subseteq 1..n
  BY <1>5
<1> HIDE DEF B
<1>11. left = {Work(t, k) : k \in B}
  BY <1>4, <1>9, <1>10
<1>12. B \in SUBSET (1..Len(t.requests)) /\ Len(t.requests) \in Nat
  BY <1>1, <1>2, <1>10
<1> HIDE DEF left
<1>13. IsFiniteSet(left) /\ Cardinality(left) = Cardinality(B) /\ Cardinality(B) \in Nat
  BY <1>11, <1>12, WorkCounted
<1>14. QED
  BY <1>11, <1>13 DEF left, B, n

\* One more request is taken on by the backend, or not.
LEMMA BackendStep ==
    ASSUME NEW s \in AdmissionStates, ArrivalsSound(s), BackendSound(s), NEW t, NEW r \in Offered,
           OffersOneMore(s, t, r), r.arrivalMs >= s.previousMs,
           NEW left, left = removeCompleted(s.active, r.arrivalMs),
           NEW full \in BOOLEAN, full <=> Cardinality(left) >= s.config.backendConcurrency,
           s.config.policy = "concurrency-limit" => (r.reason = "concurrency-limited" <=> full),
           \/ /\ r.reason # "admitted"
              /\ t.active = left /\ t.overCapacity = s.overCapacity
           \/ /\ r.reason = "admitted"
              /\ t.active = left \cup {Work(t, Len(s.requests) + 1)}
              /\ t.overCapacity = IF full THEN s.overCapacity + 1 ELSE s.overCapacity
    PROVE  BackendSound(t)
<1> DEFINE n == Len(s.requests)
           B == Busy(t, n + 1)
<1>1. n \in Nat /\ t.config = s.config /\ Len(t.requests) = n + 1 /\ t.requests[n + 1] = r
      /\ t.previousMs = r.arrivalMs
  BY DEF OffersOneMore, AdmissionStates
<1>2. /\ left = {Work(t, k) : k \in B} /\ Cardinality(left) = Cardinality(B)
  BY InFlightIsBusy
<1>3. full <=> Full(t, n + 1)
  BY <1>1, <1>2 DEF Full
<1>4. \A j \in 1..n : /\ Full(t, j) <=> Full(s, j)
                      /\ Admits(t, j) <=> Admits(s, j)
                      /\ t.requests[j] = s.requests[j]
  BY EarlierAsBefore DEF OffersOneMore
<1>5. Working(t) = B \cup (IF r.reason = "admitted" THEN {n + 1} ELSE {})
  <2>1. B = {k \in 1..n : Admits(t, k) /\ EndsAfter(t, k, r.arrivalMs)}
    BY <1>1 DEF Busy
  <2>2. Admits(t, n + 1) <=> r.reason = "admitted"
    BY <1>1 DEF Admits
  <2>3. Working(t) = {k \in 1..(n + 1) : Admits(t, k) /\ (k = n + 1 \/ EndsAfter(t, k, r.arrivalMs))}
    BY <1>1 DEF Working
  <2> HIDE DEF B
  <2>4. QED
    BY <1>1, <2>1, <2>2, <2>3
<1>6. t.active = {Work(t, k) : k \in Working(t)}
  <2> HIDE DEF B
  <2>1. CASE r.reason = "admitted"
    BY <1>2, <1>5, <2>1
  <2>2. CASE r.reason # "admitted"
    BY <1>2, <1>5, <2>2
  <2>3. QED
    BY <2>1, <2>2
<1>7. t.config.policy = "concurrency-limit" =>
          \A j \in 1..Len(t.requests) : t.requests[j].reason = "concurrency-limited" <=> Full(t, j)
  <2> SUFFICES ASSUME s.config.policy = "concurrency-limit", NEW j \in 1..(n + 1)
               PROVE  t.requests[j].reason = "concurrency-limited" <=> Full(t, j)
    BY <1>1
  <2>1. CASE j \in 1..n
    BY <1>4, <2>1 DEF BackendSound
  <2>2. CASE j = n + 1
    BY <1>1, <1>3, <2>2
  <2>3. QED
    BY <1>1, <2>1, <2>2
<1>8. t.overCapacity = Cardinality(Beyond(t))
  <2>1. Beyond(s) = {j \in 1..n : Admits(s, j) /\ Full(s, j)}
    BY DEF Beyond
  <2>2. Beyond(t) = Beyond(s) \cup (IF r.reason = "admitted" /\ full THEN {n + 1} ELSE {})
    <3>1. Beyond(t) = {j \in 1..(n + 1) : Admits(t, j) /\ Full(t, j)}
      BY <1>1 DEF Beyond
    <3>2. Admits(t, n + 1) <=> r.reason = "admitted"
      BY <1>1 DEF Admits
    <3>3. QED
      BY <1>1, <1>3, <1>4, <2>1, <3>1, <3>2
  <2>3. IsFiniteSet(Beyond(s)) /\ n + 1 \notin Beyond(s)
    <3>1. IsFiniteSet(1..n)
      BY <1>1, FS_Interval
    <3>2. Beyond(s) \subseteq 1..n /\ n + 1 \notin Beyond(s)
      BY <1>1, <2>1
    <3>3. QED
      BY <3>1, <3>2, FS_Subset
  <2>4. Cardinality(Beyond(s) \cup {n + 1}) = Cardinality(Beyond(s)) + 1
    BY <2>3, FS_AddElement
  <2>5. s.overCapacity = Cardinality(Beyond(s))
    BY DEF BackendSound
  <2>6. CASE r.reason = "admitted" /\ full
    BY <2>2, <2>4, <2>5, <2>6
  <2>7. CASE ~(r.reason = "admitted" /\ full)
    BY <2>2, <2>5, <2>7
  <2>8. QED
    BY <2>6, <2>7
<1>9. QED
  BY <1>6, <1>7, <1>8 DEF BackendSound

-----------------------------------------------------------------------------

\* The trace begins in the invariant.
LEMMA InitAdmission == admission \in {AdmissionOf(c) : c \in AdmissionSettings} => AdmissionInv
<1> SUFFICES ASSUME NEW c \in AdmissionSettings, admission = AdmissionOf(c)
             PROVE  AdmissionInv
  OBVIOUS
<1>0. admission.previousMs = 0
  BY DEF AdmissionOf
<1>1. admission \in AdmissionStates /\ Len(admission.requests) = 0 /\ admission.active = {}
      /\ admission.overCapacity = 0 /\ admission.tokens = admission.config.tokenCapacity
  BY AdmissionConfig DEF AdmissionOf, AdmissionStates
<1>2. ArrivalsSound(admission) /\ BucketSound(admission)
  BY <1>0, <1>1 DEF ArrivalsSound, BucketSound
<1>3. Working(admission) = {} /\ Beyond(admission) = {}
  BY <1>1 DEF Working, Beyond
<1>4. BackendSound(admission)
  BY <1>1, <1>3, FS_EmptySet DEF BackendSound
<1>5. QED
  BY <1>1, <1>2, <1>4 DEF AdmissionInv

\* Each arrival keeps the invariant.
LEMMA NextAdmission == AdmissionInv /\ [Offer]_admission => AdmissionInv'
<1> SUFFICES ASSUME AdmissionInv, [Offer]_admission
             PROVE  AdmissionInv'
  OBVIOUS
<1>1. CASE UNCHANGED admission
  BY <1>1 DEF AdmissionInv
<1>2. CASE Offer
  <2> DEFINE s == admission
             t == admission'
             n == Len(s.requests)
             arrivalMs == ArrivalAfter(s.config, s.previousMs, n)
             filled == Refilled(s, arrivalMs - s.previousMs)
             left == removeCompleted(s.active, arrivalMs)
             inFlight == Cardinality(left)
             reason == AdmissionReason(s, filled, inFlight)
             r == [arrivalMs |-> arrivalMs, reason |-> reason, inFlightBefore |-> inFlight]
             bucket == s.config.policy = "token-bucket"
             full == inFlight >= s.config.backendConcurrency
             work == [id |-> n, completionMs |-> arrivalMs + s.config.serviceTimeMs]
             spent == IF bucket THEN filled - Token ELSE filled
             over == IF full THEN s.overCapacity + 1 ELSE s.overCapacity
  <2>1. /\ s \in AdmissionStates /\ ArrivalsSound(s) /\ BackendSound(s)
        /\ bucket => BucketSound(s)
    BY DEF AdmissionInv
  <2>2. /\ s.config \in AdmissionSettings /\ n \in Nat /\ s.previousMs \in Nat /\ s.tokens \in Nat
        /\ s.overCapacity \in Nat /\ s.requests \in Seq(Offered)
        /\ s.active \in SUBSET [id : Nat, completionMs : Nat]
    BY <2>1 DEF AdmissionStates
  <2>3. s.config.serviceTimeMs \in Nat /\ s.config.backendConcurrency \in Nat
        /\ s.config.policy \in {"none", "token-bucket", "concurrency-limit"}
    BY <2>2, AdmissionConfig
  <2>4. arrivalMs \in Nat /\ s.previousMs <= arrivalMs
    BY <2>1, <2>2, ArrivalIsLater DEF ArrivalsSound
  <2>5. filled \in Nat
    <3>1. arrivalMs - s.previousMs \in Nat
      BY <2>2, <2>4
    <3> HIDE DEF arrivalMs
    <3>2. CASE bucket
      BY <2>1, <3>1, <3>2, RefilledIs
    <3>3. CASE ~bucket
      BY <2>2, <3>3 DEF Refilled
    <3>4. QED
      BY <3>2, <3>3
  <2>6. inFlight \in Nat /\ left \in SUBSET [id : Nat, completionMs : Nat]
    <3>1. Working(s) \in SUBSET (1..n)
      BY DEF Working
    <3>2. s.active = {Work(s, k) : k \in Working(s)}
      BY <2>1 DEF BackendSound
    <3>3. IsFiniteSet(s.active)
      BY <2>2, <3>1, <3>2, WorkCounted
    <3>4. left \subseteq s.active
      BY DEF removeCompleted
    <3> HIDE DEF left
    <3>5. QED
      BY <2>2, <3>3, <3>4, FS_Subset, FS_CardinalityType
  <2> HIDE DEF arrivalMs, filled, left, inFlight
  <2>7. /\ reason \in {"admitted", "rate-limited", "concurrency-limited"}
        /\ reason = "rate-limited" <=> bucket /\ filled < Token
        /\ reason = "concurrency-limited" <=> s.config.policy = "concurrency-limit" /\ full
    BY <2>3 DEF AdmissionReason
  <2> HIDE DEF reason
  <2>8. r \in Offered
    BY <2>4, <2>6, <2>7 DEF Offered
  <2>9. \/ /\ reason # "admitted"
           /\ t = [s EXCEPT !.previousMs = arrivalMs, !.requests = Append(s.requests, r),
                            !.tokens = filled, !.active = left]
        \/ /\ reason = "admitted"
           /\ t = [s EXCEPT !.previousMs = arrivalMs, !.requests = Append(s.requests, r),
                            !.tokens = spent, !.active = left \cup {work}, !.overCapacity = over]
    BY <1>2 DEF Offer, arrivalMs, filled, left, inFlight, reason
  <2>10. spent \in Int /\ over \in Nat /\ work \in [id : Nat, completionMs : Nat]
    BY <2>2, <2>3, <2>4, <2>5, SMTT(30) DEF Token
  <2>11. reason = "admitted" => spent \in Nat /\ (bucket => filled >= Token)
    BY <2>5, <2>7 DEF Token
  <2> HIDE DEF spent, over, work, r
  <2>12. Append(s.requests, r) \in Seq(Offered)
    BY <2>2, <2>8
  <2>13. t \in AdmissionStates /\ t.config = s.config /\ t.requests = Append(s.requests, r)
         /\ t.previousMs = arrivalMs
    <3>1. CASE reason # "admitted"
      BY <2>1, <2>4, <2>5, <2>6, <2>9, <2>12, <3>1 DEF AdmissionStates
    <3>2. CASE reason = "admitted"
      <4>1. left \cup {work} \in SUBSET [id : Nat, completionMs : Nat]
        BY <2>6, <2>10
      <4>2. t = [s EXCEPT !.previousMs = arrivalMs, !.requests = Append(s.requests, r),
                          !.tokens = spent, !.active = left \cup {work}, !.overCapacity = over]
        BY <2>9, <3>2
      <4> HIDE DEF t
      <4>3. QED
        BY <2>1, <2>4, <2>10, <2>11, <2>12, <3>2, <4>1, <4>2 DEF AdmissionStates
    <3>3. QED
      BY <3>1, <3>2
  <2>14. r.arrivalMs = arrivalMs /\ r.reason = reason
    BY DEF r
  <2>15. OffersOneMore(s, t, r) /\ r.arrivalMs >= s.previousMs
    BY <2>2, <2>4, <2>13, <2>14 DEF OffersOneMore
  <2>16. work = Work(t, n + 1)
    <3>1. t.requests[n + 1] = r
      BY <2>15 DEF OffersOneMore
    <3>2. QED
      BY <2>2, <2>13, <2>14, <3>1 DEF Work, work
  <2>17. \/ /\ reason # "admitted"
            /\ t.tokens = filled /\ t.active = left /\ t.overCapacity = s.overCapacity
         \/ /\ reason = "admitted"
            /\ t.tokens = spent /\ t.active = left \cup {work} /\ t.overCapacity = over
    BY <2>1, <2>9 DEF AdmissionStates
  <2>18. ArrivalsSound(t)
    <3>1. \A k \in 1..n : s.requests[k].arrivalMs \in Nat
      BY <2>1, OfferedParts
    <3>2. QED
      BY <2>1, <2>2, <2>4, <2>13, <2>14, <2>15, <3>1 DEF ArrivalsSound, OffersOneMore
  <2>19. bucket => BucketSound(t)
    <3> SUFFICES ASSUME bucket PROVE BucketSound(t)
      OBVIOUS
    <3>1. filled = Refilled(s, r.arrivalMs - s.previousMs)
      BY <2>14 DEF filled
    <3>2. \/ r.reason = "admitted" /\ filled >= Token /\ t.tokens = filled - Token
          \/ r.reason = "rate-limited" /\ filled < Token /\ t.tokens = filled
      <4>1. CASE reason = "admitted"
        BY <2>11, <2>14, <2>17, <4>1 DEF spent
      <4>2. CASE reason # "admitted"
        BY <2>7, <2>14, <2>17, <4>2
      <4>3. QED
        BY <4>1, <4>2
    <3>3. QED
      BY <2>1, <2>8, <2>13, <2>15, <3>1, <3>2, BucketStep
  <2>20. BackendSound(t)
    <3>1. left = removeCompleted(s.active, r.arrivalMs)
      BY <2>14 DEF left
    <3>2. full \in BOOLEAN /\ (full <=> Cardinality(left) >= s.config.backendConcurrency)
      BY DEF inFlight
    <3>3. s.config.policy = "concurrency-limit" => (r.reason = "concurrency-limited" <=> full)
      BY <2>7, <2>14
    <3>4. \/ /\ r.reason # "admitted"
             /\ t.active = left /\ t.overCapacity = s.overCapacity
          \/ /\ r.reason = "admitted"
             /\ t.active = left \cup {Work(t, n + 1)}
             /\ t.overCapacity = IF full THEN s.overCapacity + 1 ELSE s.overCapacity
      BY <2>14, <2>16, <2>17 DEF over
    <3> HIDE DEF full
    <3>5. QED
      BY <2>1, <2>8, <2>15, <3>1, <3>2, <3>3, <3>4, BackendStep
  <2>21. QED
    BY <2>13, <2>18, <2>19, <2>20 DEF AdmissionInv
<1>3. QED
  BY <1>1, <1>2

\* The invariant is the promise, seen request by request.
LEMMA AdmissionPromises == AdmissionInv => LimitsAsConfigured
<1> SUFFICES ASSUME AdmissionInv PROVE LimitsAsConfigured
  OBVIOUS
<1> DEFINE n == Len(admission.requests)
<1>1. DOMAIN admission.requests = 1..n
  BY DEF AdmissionInv, AdmissionStates
<1>2. \A i, j \in 1..n : AdmittedIn(i, j) = Admissions(admission, i, j)
                         /\ Allowance(i, j) = Allows(admission, i, j)
  BY DEF AdmittedIn, Admissions, Admits, Allowance, Allows
<1>3. RateIsLimited
  <2> SUFFICES ASSUME admission.config.policy = "token-bucket", NEW j \in 1..n
               PROVE  /\ \A i \in 1..j : Cardinality(AdmittedIn(i, j)) * Token <= Allowance(i, j)
                      /\ admission.requests[j].reason = "rate-limited" =>
                             \E i \in 1..j :
                                 (Cardinality(AdmittedIn(i, j)) + 1) * Token > Allowance(i, j)
    BY <1>1 DEF RateIsLimited
  <2>1. \A i \in 1..j : i \in 1..n
    BY DEF AdmissionInv, AdmissionStates
  <2>2. BucketSound(admission)
    BY DEF AdmissionInv
  <2>3. QED
    BY <1>2, <2>1, <2>2 DEF BucketSound
<1>4. BackendIsProtected
  <2>1. \A j \in 1..n : InServiceAt(j) = Busy(admission, j)
    BY DEF InServiceAt, Busy, Admits, EndsAfter
  <2>2. BackendSound(admission)
    BY DEF AdmissionInv
  <2>3. {j \in 1..n : admission.requests[j].reason = "admitted"
             /\ Cardinality(InServiceAt(j)) >= admission.config.backendConcurrency}
        = Beyond(admission)
    BY <2>1 DEF Beyond, Full, Admits
  <2>4. QED
    BY <1>1, <2>1, <2>2, <2>3 DEF BackendIsProtected, BackendSound, Full
<1>5. QED
  BY <1>3, <1>4 DEF LimitsAsConfigured

\* Whatever the arrivals, a token bucket admits no more than its capacity and refill in any
\* stretch and refuses only what exceeds them, and a concurrency limit keeps the backend within
\* what it can serve at once and refuses only when it is full.
THEOREM Limiting == AdmissionSpec => []LimitsAsConfigured
<1>1. AdmissionSpec => []AdmissionInv
  BY InitAdmission, NextAdmission, PTL DEF AdmissionSpec
<1>2. QED
  BY <1>1, AdmissionPromises, PTL

-----------------------------------------------------------------------------

(* The connection-flow exhibit. *)

PoolOf(c) == 1..c.poolSize
Connections == [availableAtMs : Nat, used : BOOLEAN]
Tasks(c) ==
    [parentId : ParentIds(c), connectionId : PoolOf(c), arrivalMs : Nat, startMs : Nat,
     handshakeMs : Nat, completionMs : Nat]

FlowStates(c) ==
    [config : {c}, connections : [PoolOf(c) -> Connections], handshakes : Nat,
     children : Seq(Tasks(c)), parentCompletion : [ParentIds(c) -> Nat]]

\* When child i arrives: with its parent.
ArrivalOf(c, i) == ((i - 1) \div c.fanout) * c.parentArrivalIntervalMs

On(s, i, k) == s.children[i].connectionId = k
Holds(s, i, t) == s.children[i].startMs <= t /\ t < s.children[i].completionMs

\* A connection is available when the last of its children completes, an unused one at once.
ConnectionsSound(s) ==
    \A k \in PoolOf(s.config) :
        /\ \A i \in 1..Len(s.children) :
               On(s, i, k) => /\ s.connections[k].used
                              /\ s.children[i].completionMs <= s.connections[k].availableAtMs
        /\ s.connections[k].used =>
               \E i \in 1..Len(s.children) :
                   /\ On(s, i, k)
                   /\ s.children[i].completionMs = s.connections[k].availableAtMs
        /\ ~s.connections[k].used => s.connections[k].availableAtMs = 0

\* A child starts when it arrives, or no connection is available earlier any more.
StartsSound(s) ==
    \A i \in 1..Len(s.children) :
        /\ s.children[i].arrivalMs = ArrivalOf(s.config, i)
        /\ \/ s.children[i].startMs = s.children[i].arrivalMs
           \/ \A k \in PoolOf(s.config) : s.children[i].startMs <= s.connections[k].availableAtMs

\* Children start in turn and one by one on a connection, and wait only while each
\* connection carries an earlier one.
TurnsSound(s) ==
    \A j \in 1..Len(s.children) :
        /\ \A i \in 1..(j - 1) :
               /\ s.children[i].startMs <= s.children[j].startMs
               /\ s.children[i].connectionId = s.children[j].connectionId =>
                      s.children[i].completionMs <= s.children[j].startMs
        /\ \A t \in s.children[j].arrivalMs..(s.children[j].startMs - 1) :
               \A k \in PoolOf(s.config) : \E i \in 1..(j - 1) : On(s, i, k) /\ Holds(s, i, t)

Used(s) == {k \in PoolOf(s.config) : s.connections[k].used}

\* With reuse, a connection is set up by the child that uses it first.
HandshakesSound(s) == s.config.reuseConnections => s.handshakes <= Cardinality(Used(s))

\* When parent p has arrived and its children so far have completed.
Completions(s, p) ==
    {p * s.config.parentArrivalIntervalMs} \cup
    {s.children[i].completionMs : i \in {j \in 1..Len(s.children) : s.children[j].parentId = p}}

ParentsSound(s) ==
    \A p \in ParentIds(s.config) :
        /\ s.parentCompletion[p] \in Completions(s, p)
        /\ \A x \in Completions(s, p) : x <= s.parentCompletion[p]

FlowInv ==
    /\ flow.config \in FlowSettings /\ flow \in FlowStates(flow.config)
    /\ ConnectionsSound(flow) /\ StartsSound(flow) /\ TurnsSound(flow)
    /\ HandshakesSound(flow) /\ ParentsSound(flow)

-----------------------------------------------------------------------------

\* A configuration's parts.
LEMMA FlowConfig ==
    ASSUME NEW c \in FlowSettings
    PROVE  /\ c.fanout \in Nat \ {0} /\ c.poolSize \in Nat \ {0} /\ c.parentRequests \in Nat
           /\ c.slowEvery \in Nat /\ c.normalServiceMs \in Nat /\ c.slowServiceMs \in Nat
           /\ c.handshakeMs \in Nat /\ c.parentArrivalIntervalMs \in Nat
           /\ c.reuseConnections \in BOOLEAN
  BY FlowAssumption

\* Division keeps the order and undoes multiplication.
LEMMA DivisionOrder ==
    ASSUME NEW a \in Nat, NEW f \in Nat \ {0}
    PROVE  /\ a \div f \in Nat
           /\ \A b \in Nat : a <= b => a \div f <= b \div f
           /\ \A r \in Nat : a < r * f => a \div f < r
<1>1. \A x \in Nat, y \in Nat \ {0} :
          x \div y \in Nat /\ (x \div y) * y <= x /\ x < (x \div y) * y + y
  BY SMT
<1> DEFINE q == a \div f
<1>2. q \in Nat /\ q * f <= a /\ a < q * f + f
  BY <1>1
<1>3. \A x, y \in Nat : x <= y => x * f <= y * f
  BY ScaleOrder
<1> HIDE DEF q
<1>4. ASSUME NEW b \in Nat, a <= b
      PROVE  q <= b \div f
  <2> DEFINE p == b \div f
  <2>1. p \in Nat /\ b < p * f + f
    BY <1>1
  <2> HIDE DEF p
  <2>2. SUFFICES ASSUME p + 1 <= q PROVE FALSE
    BY <1>2, <2>1 DEF p
  <2>3. (p + 1) * f <= q * f
    BY <1>2, <1>3, <2>1, <2>2
  <2>4. (p + 1) * f = p * f + f
    BY <2>1, SMT
  <2>5. \A x, y \in Nat : x * y \in Nat
    BY SMT
  <2>6. p * f \in Nat /\ q * f \in Nat
    BY <1>2, <2>1, <2>5
  <2>7. QED
    BY ONLY <1>2, <1>4, <2>1, <2>3, <2>4, <2>6, a \in Nat, f \in Nat
<1>5. ASSUME NEW r \in Nat, a < r * f
      PROVE  q < r
  <2>1. SUFFICES ASSUME r <= q PROVE FALSE
    BY <1>2
  <2>2. r * f <= q * f
    BY <1>2, <1>3, <2>1
  <2>3. \A x, y \in Nat : x * y \in Nat
    BY SMT
  <2>4. r * f \in Nat /\ q * f \in Nat
    BY <1>2, <2>3
  <2>5. QED
    BY <1>2, <1>5, <2>2, <2>4
<1>6. QED
  BY <1>2, <1>4, <1>5 DEF q

\* The later of two moments.
LEMMA LaterOfTwo ==
    ASSUME NEW a \in Nat, NEW b \in Nat
    PROVE  Max({a, b}) = IF a <= b THEN b ELSE a
<1> DEFINE m == IF a <= b THEN b ELSE a
<1>1. {a, b} \in SUBSET Nat /\ {a, b} # {} /\ m \in Nat /\ \A x \in {a, b} : x <= m
  OBVIOUS
<1>2. Max({a, b}) \in {a, b} /\ \A x \in {a, b} : x <= Max({a, b})
  BY <1>1, LargestIsMax
<1>3. QED
  BY <1>2

\* Some number of a set is the least.
LEMMA SomeLeast ==
    ASSUME NEW S \in SUBSET Nat, S # {}
    PROVE  \E m \in S : \A x \in S : m <= x
<1>1. PICK m \in S : \A y \in S : ~(<<y, m>> \in OpToRel(<, Nat))
  BY NatLessThanWellFounded, WFMin
<1>2. \A y \in S : ~(y < m)
  BY <1>1 DEF OpToRel
<1>3. \A y \in S : m <= y
  BY <1>2
<1>4. QED
  BY <1>1, <1>3

\* The connection chosen is one that no other precedes.
LEMMA EarliestFound ==
    ASSUME NEW c \in FlowSettings, NEW pool \in [PoolOf(c) -> Connections]
    PROVE  /\ earliestConnection(pool) \in PoolOf(c)
           /\ \A d \in PoolOf(c) :
                  pool[earliestConnection(pool)].availableAtMs <= pool[d].availableAtMs
<1> DEFINE free(d) == pool[d].availableAtMs
           Precedes(k) == \A d \in PoolOf(c) :
                              free(k) < free(d) \/ (free(k) = free(d) /\ k <= d)
<1>1. DOMAIN pool = PoolOf(c) /\ PoolOf(c) \in SUBSET Nat /\ PoolOf(c) # {}
  BY FlowConfig DEF PoolOf
<1>2. \A d \in PoolOf(c) : free(d) \in Nat
  BY DEF Connections
<1> HIDE DEF free
<1>3. PICK m \in {free(d) : d \in PoolOf(c)} : \A x \in {free(d) : d \in PoolOf(c)} : m <= x
  <2>1. {free(d) : d \in PoolOf(c)} \in SUBSET Nat /\ {free(d) : d \in PoolOf(c)} # {}
    BY <1>1, <1>2
  <2>2. QED
    BY <2>1, SomeLeast
<1>4. PICK k \in {d \in PoolOf(c) : free(d) = m} : \A x \in {d \in PoolOf(c) : free(d) = m} : k <= x
  <2>1. {d \in PoolOf(c) : free(d) = m} \in SUBSET Nat /\ {d \in PoolOf(c) : free(d) = m} # {}
    BY <1>1, <1>3
  <2>2. QED
    BY <2>1, SomeLeast
<1>5. k \in PoolOf(c) /\ Precedes(k)
  BY <1>1, <1>2, <1>3, <1>4
<1>6. earliestConnection(pool) = CHOOSE x \in PoolOf(c) : Precedes(x)
  BY <1>1 DEF earliestConnection, free
<1> HIDE DEF Precedes
<1>7. earliestConnection(pool) \in PoolOf(c) /\ Precedes(earliestConnection(pool))
  BY <1>5, <1>6, Zenon
<1>8. \A d \in PoolOf(c) : free(earliestConnection(pool)) <= free(d)
  BY <1>2, <1>7 DEF Precedes
<1>9. QED
  BY <1>7, <1>8 DEF free

\* The children scheduled so far.
LEMMA TaskParts ==
    ASSUME NEW c \in FlowSettings, NEW s \in FlowStates(c), NEW i \in 1..Len(s.children)
    PROVE  /\ s.children[i].parentId \in ParentIds(c) /\ s.children[i].connectionId \in PoolOf(c)
           /\ s.children[i].arrivalMs \in Nat /\ s.children[i].startMs \in Nat
           /\ s.children[i].completionMs \in Nat
<1>1. s.children \in Seq(Tasks(c))
  BY DEF FlowStates
<1>2. \A S : \A q \in Seq(S) : \A k \in 1..Len(q) : q[k] \in S
  OBVIOUS
<1>3. s.children[i] \in Tasks(c)
  BY <1>1, <1>2, Zenon
<1>4. QED
  BY <1>3 DEF Tasks

-----------------------------------------------------------------------------

\* t is s with one more child, on the connection that is available first.
Scheduled(s, t, child) ==
    LET n == Len(s.children)
        k == child.connectionId
        free(d) == s.connections[d].availableAtMs
    IN  /\ \A d \in PoolOf(s.config) : free(k) <= free(d)
        /\ child.arrivalMs = ArrivalOf(s.config, n + 1)
        /\ child.startMs = IF child.arrivalMs <= free(k) THEN free(k) ELSE child.arrivalMs
        /\ child.startMs <= child.completionMs
        /\ child.handshakeMs = HandshakeMs(s.config, s.connections[k])
        /\ t.config = s.config
        /\ Len(t.children) = n + 1 /\ t.children[n + 1] = child
        /\ \A i \in 1..n : t.children[i] = s.children[i]
        /\ t.connections =
               [s.connections EXCEPT ![k] = [availableAtMs |-> child.completionMs, used |-> TRUE]]
        /\ t.handshakes = IF child.handshakeMs > 0 THEN s.handshakes + 1 ELSE s.handshakes
        /\ t.parentCompletion =
               [s.parentCompletion EXCEPT ![child.parentId] = Max({@, child.completionMs})]

\* The parts of such a step.
LEMMA ScheduledParts ==
    ASSUME NEW c \in FlowSettings, NEW s \in FlowStates(c), NEW t, NEW child \in Tasks(c),
           Scheduled(s, t, child)
    PROVE  LET n == Len(s.children) IN
           /\ n \in Nat /\ s.config = c /\ t.config = c
           /\ child.connectionId \in PoolOf(c) /\ child.parentId \in ParentIds(c)
           /\ child.arrivalMs \in Nat /\ child.startMs \in Nat /\ child.completionMs \in Nat
           /\ Len(t.children) = n + 1 /\ t.children[n + 1] = child
           /\ \A i \in 1..n : t.children[i] = s.children[i]
<1>1. Len(s.children) \in Nat /\ s.config = c
  BY DEF FlowStates
<1>2. /\ child.connectionId \in PoolOf(c) /\ child.parentId \in ParentIds(c)
      /\ child.arrivalMs \in Nat /\ child.startMs \in Nat /\ child.completionMs \in Nat
  BY DEF Tasks
<1>3. /\ t.config = s.config
      /\ Len(t.children) = Len(s.children) + 1 /\ t.children[Len(s.children) + 1] = child
      /\ \A i \in 1..Len(s.children) : t.children[i] = s.children[i]
  BY Zenon DEF Scheduled
<1>4. QED
  BY <1>1, <1>2, <1>3, Zenon

\* What is available only moves on, and past the start of the new child.
LEMMA AvailabilityGrows ==
    ASSUME NEW c \in FlowSettings, NEW s \in FlowStates(c), NEW t, NEW child \in Tasks(c),
           Scheduled(s, t, child)
    PROVE  \A k \in PoolOf(c) :
               /\ s.connections[k].availableAtMs \in Nat /\ t.connections[k].availableAtMs \in Nat
               /\ s.connections[k].availableAtMs <= t.connections[k].availableAtMs
               /\ k = child.connectionId => /\ t.connections[k].used
                                            /\ t.connections[k].availableAtMs = child.completionMs
               /\ k # child.connectionId => t.connections[k] = s.connections[k]
<1> DEFINE k0 == child.connectionId
           renewed == [availableAtMs |-> child.completionMs, used |-> TRUE]
<1>1. k0 \in PoolOf(c) /\ s.config = c /\ child.startMs \in Nat /\ child.completionMs \in Nat
      /\ child.arrivalMs \in Nat
  BY ScheduledParts
<1>2. s.connections \in [PoolOf(c) -> Connections]
  BY DEF FlowStates
<1>3. \A k \in PoolOf(c) : s.connections[k].availableAtMs \in Nat
  BY <1>2 DEF Connections
<1>4. t.connections = [s.connections EXCEPT ![k0] = renewed]
  BY Zenon DEF Scheduled
<1>5. \A k \in PoolOf(c) : t.connections[k] = IF k = k0 THEN renewed ELSE s.connections[k]
  BY <1>1, <1>2, <1>4
<1>6. renewed.used /\ renewed.availableAtMs = child.completionMs
  OBVIOUS
<1> HIDE DEF renewed
<1>7. s.connections[k0].availableAtMs <= child.completionMs
  <2>1. child.startMs <= child.completionMs
        /\ child.startMs = IF child.arrivalMs <= s.connections[k0].availableAtMs
                           THEN s.connections[k0].availableAtMs ELSE child.arrivalMs
    BY Zenon DEF Scheduled
  <2>2. s.connections[k0].availableAtMs \in Nat
    BY <1>1, <1>3
  <2>3. QED
    BY <1>1, <2>1, <2>2
<1>8. ASSUME NEW k \in PoolOf(c)
      PROVE  /\ t.connections[k].availableAtMs \in Nat
             /\ s.connections[k].availableAtMs <= t.connections[k].availableAtMs
             /\ k = k0 => t.connections[k].used /\ t.connections[k].availableAtMs = child.completionMs
             /\ k # k0 => t.connections[k] = s.connections[k]
  <2>1. CASE k = k0
    <3>1. t.connections[k] = renewed
      BY <1>5, <2>1
    <3>2. QED
      BY <1>1, <1>6, <1>7, <2>1, <3>1
  <2>2. CASE k # k0
    <3>1. t.connections[k] = s.connections[k]
      BY <1>5, <2>2
    <3>2. QED
      BY <1>3, <2>2, <3>1
  <2>3. QED
    BY <2>1, <2>2
<1>9. QED
  BY <1>3, <1>8

\* A connection's last child still tells when it is available.
LEMMA ConnectionsStep ==
    ASSUME NEW c \in FlowSettings, NEW s \in FlowStates(c), NEW t \in FlowStates(c),
           NEW child \in Tasks(c), Scheduled(s, t, child), ConnectionsSound(s)
    PROVE  ConnectionsSound(t)
<1> DEFINE n == Len(s.children)
           k0 == child.connectionId
<1>1. n \in Nat /\ s.config = c /\ t.config = c /\ k0 \in PoolOf(c) /\ child.completionMs \in Nat
      /\ Len(t.children) = n + 1 /\ t.children[n + 1] = child
      /\ \A i \in 1..n : t.children[i] = s.children[i]
  BY ScheduledParts
<1>2. \A k \in PoolOf(c) :
          /\ s.connections[k].availableAtMs \in Nat /\ t.connections[k].availableAtMs \in Nat
          /\ s.connections[k].availableAtMs <= t.connections[k].availableAtMs
          /\ k = k0 => t.connections[k].used /\ t.connections[k].availableAtMs = child.completionMs
          /\ k # k0 => t.connections[k] = s.connections[k]
  BY AvailabilityGrows
<1>3. \A i \in 1..n : s.children[i].completionMs \in Nat
  BY TaskParts
<1>4. ASSUME NEW k \in PoolOf(c), NEW i \in 1..(n + 1), On(t, i, k)
      PROVE  t.connections[k].used /\ t.children[i].completionMs <= t.connections[k].availableAtMs
  <2>1. CASE i = n + 1
    <3>1. t.children[i] = child /\ k = k0
      BY <1>1, <1>4, <2>1 DEF On
    <3>2. QED
      BY <1>1, <1>2, <3>1
  <2>2. CASE i \in 1..n
    <3>1. On(s, i, k) /\ t.children[i].completionMs = s.children[i].completionMs
      BY <1>1, <1>4, <2>2 DEF On
    <3>2. s.connections[k].used /\ s.children[i].completionMs <= s.connections[k].availableAtMs
      BY <1>1, <2>2, <3>1 DEF ConnectionsSound
    <3>3. t.connections[k].used
      BY <1>2, <3>2
    <3>4. /\ s.children[i].completionMs \in Nat /\ s.connections[k].availableAtMs \in Nat
          /\ t.connections[k].availableAtMs \in Nat
          /\ s.connections[k].availableAtMs <= t.connections[k].availableAtMs
      BY <1>2, <1>3, <2>2
    <3>5. QED
      BY ONLY <3>1, <3>2, <3>3, <3>4
  <2>3. QED
    BY <1>1, <2>1, <2>2
<1>5. ASSUME NEW k \in PoolOf(c), t.connections[k].used
      PROVE  \E i \in 1..(n + 1) :
                 On(t, i, k) /\ t.children[i].completionMs = t.connections[k].availableAtMs
  <2>1. CASE k = k0
    <3>1. n + 1 \in 1..(n + 1) /\ On(t, n + 1, k)
          /\ t.children[n + 1].completionMs = t.connections[k].availableAtMs
      BY <1>1, <1>2, <2>1 DEF On
    <3>2. QED
      BY <3>1
  <2>2. CASE k # k0
    <3>1. s.connections[k].used
      BY <1>2, <1>5, <2>2
    <3>2. PICK i \in 1..n : On(s, i, k) /\ s.children[i].completionMs = s.connections[k].availableAtMs
      BY <1>1, <3>1 DEF ConnectionsSound
    <3>3. i \in 1..(n + 1)
      BY <1>1
    <3>4. t.children[i] = s.children[i] /\ t.connections[k] = s.connections[k]
      BY <1>1, <1>2, <2>2
    <3>5. On(t, i, k) /\ t.children[i].completionMs = t.connections[k].availableAtMs
      BY <3>2, <3>4, Zenon DEF On
    <3>6. QED
      BY <3>3, <3>5, Zenon
  <2>3. QED
    BY <2>1, <2>2
<1>6. ASSUME NEW k \in PoolOf(c), ~t.connections[k].used
      PROVE  t.connections[k].availableAtMs = 0
  BY <1>1, <1>2, <1>6 DEF ConnectionsSound
<1>7. QED
  BY <1>1, <1>4, <1>5, <1>6 DEF ConnectionsSound

\* Arrivals are in the order of the children.
LEMMA ArrivalsInOrder ==
    ASSUME NEW c \in FlowSettings, NEW i \in Nat \ {0}, NEW j \in Nat, i <= j
    PROVE  ArrivalOf(c, i) \in Nat /\ ArrivalOf(c, i) <= ArrivalOf(c, j)
<1> DEFINE x == (i - 1) \div c.fanout
           y == (j - 1) \div c.fanout
<1>1. c.fanout \in Nat \ {0} /\ c.parentArrivalIntervalMs \in Nat
  BY FlowConfig
<1>2. i - 1 \in Nat /\ j - 1 \in Nat /\ i - 1 <= j - 1
  OBVIOUS
<1>3. x \in Nat /\ y \in Nat /\ x <= y
  BY <1>1, <1>2, DivisionOrder
<1> HIDE DEF x, y
<1>4. x * c.parentArrivalIntervalMs <= y * c.parentArrivalIntervalMs
  BY <1>1, <1>3, ScaleOrder
<1>5. \A a, b \in Nat : a * b \in Nat
  BY SMT
<1>6. QED
  BY <1>1, <1>3, <1>4, <1>5 DEF ArrivalOf, x, y

\* No earlier start is later than both the new arrival and what is available now.
LEMMA StartsStep ==
    ASSUME NEW c \in FlowSettings, NEW s \in FlowStates(c), NEW t \in FlowStates(c),
           NEW child \in Tasks(c), Scheduled(s, t, child), StartsSound(s)
    PROVE  /\ StartsSound(t)
           /\ \A i \in 1..Len(s.children) :
                  s.children[i].startMs <= child.startMs /\ s.children[i].arrivalMs <= child.arrivalMs
<1> DEFINE n == Len(s.children)
           k0 == child.connectionId
<1>1. n \in Nat /\ s.config = c /\ t.config = c /\ k0 \in PoolOf(c)
      /\ child.completionMs \in Nat /\ child.arrivalMs \in Nat /\ child.startMs \in Nat
      /\ Len(t.children) = n + 1 /\ t.children[n + 1] = child
      /\ \A i \in 1..n : t.children[i] = s.children[i]
  BY ScheduledParts
<1>2. \A k \in PoolOf(c) :
          /\ s.connections[k].availableAtMs \in Nat /\ t.connections[k].availableAtMs \in Nat
          /\ s.connections[k].availableAtMs <= t.connections[k].availableAtMs
          /\ k = k0 => t.connections[k].availableAtMs = child.completionMs
  BY AvailabilityGrows
<1>3. \A i \in 1..n : s.children[i].startMs \in Nat /\ s.children[i].arrivalMs \in Nat
  BY TaskParts
<1>4. /\ child.arrivalMs = ArrivalOf(c, n + 1) /\ child.startMs <= child.completionMs
      /\ child.startMs = IF child.arrivalMs <= s.connections[k0].availableAtMs
                         THEN s.connections[k0].availableAtMs ELSE child.arrivalMs
      /\ \A d \in PoolOf(c) : s.connections[k0].availableAtMs <= s.connections[d].availableAtMs
  BY <1>1 DEF Scheduled
<1>5. ASSUME NEW i \in 1..n
      PROVE  s.children[i].startMs <= child.startMs /\ s.children[i].arrivalMs <= child.arrivalMs
  <2>1. s.children[i].arrivalMs <= child.arrivalMs
    <3>1. s.children[i].arrivalMs = ArrivalOf(c, i)
      BY <1>1 DEF StartsSound
    <3>2. i \in Nat \ {0} /\ n + 1 \in Nat /\ i <= n + 1
      BY <1>1
    <3>3. QED
      BY <1>4, <3>1, <3>2, ArrivalsInOrder
  <2>2. \/ s.children[i].startMs = s.children[i].arrivalMs
        \/ s.children[i].startMs <= s.connections[k0].availableAtMs
    BY <1>1 DEF StartsSound
  <2>3. s.connections[k0].availableAtMs \in Nat
    BY <1>1, <1>2
  <2>4. QED
    BY <1>1, <1>3, <1>4, <2>1, <2>2, <2>3
<1>6. ASSUME NEW i \in 1..n
      PROVE  /\ t.children[i].arrivalMs = ArrivalOf(c, i)
             /\ \/ t.children[i].startMs = t.children[i].arrivalMs
                \/ \A k \in PoolOf(c) : t.children[i].startMs <= t.connections[k].availableAtMs
  <2>1. /\ s.children[i].arrivalMs = ArrivalOf(c, i)
        /\ \/ s.children[i].startMs = s.children[i].arrivalMs
           \/ \A k \in PoolOf(c) : s.children[i].startMs <= s.connections[k].availableAtMs
    BY <1>1 DEF StartsSound
  <2>2. t.children[i] = s.children[i]
    BY <1>1
  <2>3. ASSUME NEW k \in PoolOf(c), s.children[i].startMs <= s.connections[k].availableAtMs
        PROVE  s.children[i].startMs <= t.connections[k].availableAtMs
    BY <1>2, <1>3, <2>3
  <2>4. QED
    BY <2>1, <2>2, <2>3, Zenon
<1>7. \/ child.startMs = child.arrivalMs
      \/ \A k \in PoolOf(c) : child.startMs <= t.connections[k].availableAtMs
  <2>1. CASE child.arrivalMs <= s.connections[k0].availableAtMs
    BY <1>1, <1>2, <1>4, <2>1
  <2>2. CASE ~(child.arrivalMs <= s.connections[k0].availableAtMs)
    BY <1>4, <2>2
  <2>3. QED
    BY <2>1, <2>2
<1>8. StartsSound(t)
  <2>1. \A i \in 1..(n + 1) : i \in 1..n \/ i = n + 1
    BY <1>1
  <2>2. QED
    BY <1>1, <1>4, <1>6, <1>7, <2>1 DEF StartsSound
<1>9. QED
  BY <1>5, <1>8

\* The new child follows the earlier ones, and if it waits every connection is carrying one.
LEMMA TurnsStep ==
    ASSUME NEW c \in FlowSettings, NEW s \in FlowStates(c), NEW t \in FlowStates(c),
           NEW child \in Tasks(c), Scheduled(s, t, child),
           ConnectionsSound(s), StartsSound(s), TurnsSound(s)
    PROVE  TurnsSound(t)
<1> DEFINE n == Len(s.children)
           k0 == child.connectionId
<1>1. n \in Nat /\ s.config = c /\ t.config = c /\ k0 \in PoolOf(c)
      /\ child.completionMs \in Nat /\ child.arrivalMs \in Nat /\ child.startMs \in Nat
      /\ Len(t.children) = n + 1 /\ t.children[n + 1] = child
      /\ \A i \in 1..n : t.children[i] = s.children[i]
  BY ScheduledParts
<1>2. \A i \in 1..n : /\ s.children[i].startMs \in Nat /\ s.children[i].arrivalMs \in Nat
                      /\ s.children[i].completionMs \in Nat
  BY TaskParts
<1>3. \A k \in PoolOf(c) : s.connections[k].availableAtMs \in Nat
  BY AvailabilityGrows
<1>4. /\ child.startMs = IF child.arrivalMs <= s.connections[k0].availableAtMs
                         THEN s.connections[k0].availableAtMs ELSE child.arrivalMs
      /\ \A d \in PoolOf(c) : s.connections[k0].availableAtMs <= s.connections[d].availableAtMs
  BY <1>1 DEF Scheduled
<1>5. \A i \in 1..n :
          s.children[i].startMs <= child.startMs /\ s.children[i].arrivalMs <= child.arrivalMs
  BY StartsStep
<1>6. ASSUME NEW i \in 1..n, s.children[i].connectionId = k0
      PROVE  s.children[i].completionMs <= child.startMs
  <2>1. s.children[i].completionMs <= s.connections[k0].availableAtMs
    BY <1>1, <1>6 DEF ConnectionsSound, On
  <2>2. s.connections[k0].availableAtMs \in Nat
    BY <1>1, <1>3
  <2>3. QED
    BY <1>1, <1>2, <1>4, <2>1, <2>2
<1>7. ASSUME NEW m \in child.arrivalMs..(child.startMs - 1), NEW k \in PoolOf(c)
      PROVE  \E i \in 1..n : On(s, i, k) /\ Holds(s, i, m)
  <2>1. m \in Nat /\ child.arrivalMs <= m /\ m < child.startMs
    BY <1>1
  <2>2. m < s.connections[k].availableAtMs
    <3>1. s.connections[k0].availableAtMs \in Nat /\ s.connections[k].availableAtMs \in Nat
      BY <1>1, <1>3
    <3>2. QED
      BY <1>1, <1>4, <2>1, <3>1
  <2>3. s.connections[k].used
    BY <1>1, <2>1, <2>2 DEF ConnectionsSound
  <2>4. PICK i \in 1..n : On(s, i, k) /\ s.children[i].completionMs = s.connections[k].availableAtMs
    BY <1>1, <2>3 DEF ConnectionsSound
  <2>5. CASE s.children[i].startMs <= m
    BY <2>2, <2>4, <2>5 DEF Holds
  <2>6. CASE m < s.children[i].startMs
    <3>1. m \in s.children[i].arrivalMs..(s.children[i].startMs - 1)
      BY <1>1, <1>2, <1>5, <2>1, <2>6, SMTT(30)
    <3>2. PICK h \in 1..(i - 1) : On(s, h, k) /\ Holds(s, h, m)
      BY <1>1, <3>1 DEF TurnsSound
    <3>3. h \in 1..n
      BY <1>1
    <3>4. QED
      BY <3>2, <3>3
  <2>7. QED
    BY <1>2, <2>1, <2>5, <2>6
<1>8. \A i \in 1..n : /\ \A k : On(t, i, k) <=> On(s, i, k)
                      /\ \A m : Holds(t, i, m) <=> Holds(s, i, m)
  BY <1>1 DEF On, Holds
<1>9. ASSUME NEW j \in 1..n
      PROVE  /\ \A i \in 1..(j - 1) :
                    /\ t.children[i].startMs <= t.children[j].startMs
                    /\ t.children[i].connectionId = t.children[j].connectionId =>
                           t.children[i].completionMs <= t.children[j].startMs
             /\ \A m \in t.children[j].arrivalMs..(t.children[j].startMs - 1) :
                    \A k \in PoolOf(c) : \E i \in 1..(j - 1) : On(t, i, k) /\ Holds(t, i, m)
  <2>1. \A i \in 1..(j - 1) : i \in 1..n
    BY <1>1
  <2>2. QED
    BY <1>1, <1>8, <2>1 DEF TurnsSound
<1>10. /\ \A i \in 1..((n + 1) - 1) :
              /\ t.children[i].startMs <= t.children[n + 1].startMs
              /\ t.children[i].connectionId = t.children[n + 1].connectionId =>
                     t.children[i].completionMs <= t.children[n + 1].startMs
       /\ \A m \in t.children[n + 1].arrivalMs..(t.children[n + 1].startMs - 1) :
              \A k \in PoolOf(c) : \E i \in 1..((n + 1) - 1) : On(t, i, k) /\ Holds(t, i, m)
  <2>1. (n + 1) - 1 = n
    BY <1>1
  <2>2. QED
    BY <1>1, <1>5, <1>6, <1>7, <1>8, <2>1
<1>11. QED
  <2>1. \A j \in 1..(n + 1) : j \in 1..n \/ j = n + 1
    BY <1>1
  <2>2. QED
    BY <1>1, <1>9, <1>10, <2>1 DEF TurnsSound

\* A set-up of a connection in reuse is its first use.
LEMMA HandshakesStep ==
    ASSUME NEW c \in FlowSettings, NEW s \in FlowStates(c), NEW t \in FlowStates(c),
           NEW child \in Tasks(c), Scheduled(s, t, child), HandshakesSound(s)
    PROVE  HandshakesSound(t)
<1> DEFINE k0 == child.connectionId
<1> SUFFICES ASSUME c.reuseConnections PROVE t.handshakes <= Cardinality(Used(t))
  BY ScheduledParts DEF HandshakesSound
<1>1. s.config = c /\ t.config = c /\ k0 \in PoolOf(c)
  BY ScheduledParts
<1>2. IsFiniteSet(Used(s)) /\ Cardinality(Used(s)) \in Nat
  <2>1. c.poolSize \in Nat
    BY FlowConfig
  <2>2. IsFiniteSet(PoolOf(c))
    BY <2>1, FS_Interval DEF PoolOf
  <2>3. Used(s) \subseteq PoolOf(c)
    BY <1>1 DEF Used
  <2>4. QED
    BY <2>2, <2>3, FS_Subset, FS_CardinalityType
<1>3. s.handshakes \in Nat /\ s.handshakes <= Cardinality(Used(s))
  BY <1>1 DEF FlowStates, HandshakesSound
<1>4. Used(t) = Used(s) \cup {k0}
  <2>1. \A k \in PoolOf(c) : t.connections[k].used <=> (s.connections[k].used \/ k = k0)
    BY AvailabilityGrows
  <2>2. QED
    BY <1>1, <2>1 DEF Used
<1>5. k0 \in Used(s) <=> s.connections[k0].used
  BY <1>1 DEF Used
<1>6. Cardinality(Used(t)) = IF s.connections[k0].used THEN Cardinality(Used(s))
                                                       ELSE Cardinality(Used(s)) + 1
  <2>1. Cardinality(Used(s) \cup {k0}) = IF k0 \in Used(s) THEN Cardinality(Used(s))
                                                          ELSE Cardinality(Used(s)) + 1
    BY <1>2, FS_AddElement
  <2>2. QED
    BY <1>4, <1>5, <2>1
<1>7. /\ child.handshakeMs = HandshakeMs(s.config, s.connections[k0])
      /\ t.handshakes = IF child.handshakeMs > 0 THEN s.handshakes + 1 ELSE s.handshakes
  BY Zenon DEF Scheduled
<1>8. s.connections[k0].used => child.handshakeMs = 0
  BY <1>1, <1>7 DEF HandshakeMs
<1>9. QED
  <2>1. CASE s.connections[k0].used
    BY ONLY <1>2, <1>3, <1>6, <1>7, <1>8, <2>1
  <2>2. CASE ~s.connections[k0].used
    BY ONLY <1>2, <1>3, <1>6, <1>7, <2>2
  <2>3. QED
    BY <2>1, <2>2

\* The parent of the new child is known to wait for it, and the others for what they did.
LEMMA ParentsStep ==
    ASSUME NEW c \in FlowSettings, NEW s \in FlowStates(c), NEW t \in FlowStates(c),
           NEW child \in Tasks(c), Scheduled(s, t, child), ParentsSound(s)
    PROVE  ParentsSound(t)
<1> DEFINE n == Len(s.children)
           p0 == child.parentId
<1>1. n \in Nat /\ s.config = c /\ t.config = c /\ p0 \in ParentIds(c) /\ child.completionMs \in Nat
      /\ Len(t.children) = n + 1 /\ t.children[n + 1] = child
      /\ \A i \in 1..n : t.children[i] = s.children[i]
  BY ScheduledParts
<1>2. s.parentCompletion \in [ParentIds(c) -> Nat]
  BY DEF FlowStates
<1>3. t.parentCompletion = [s.parentCompletion EXCEPT ![p0] = Max({@, child.completionMs})]
  BY Zenon DEF Scheduled
<1>4. \A p \in ParentIds(c) : Completions(t, p) =
          Completions(s, p) \cup (IF p = p0 THEN {child.completionMs} ELSE {})
  <2> SUFFICES ASSUME NEW p \in ParentIds(c)
               PROVE  Completions(t, p) =
                          Completions(s, p) \cup (IF p = p0 THEN {child.completionMs} ELSE {})
    OBVIOUS
  <2> DEFINE I == {j \in 1..n : s.children[j].parentId = p}
             J == {j \in 1..(n + 1) : t.children[j].parentId = p}
  <2>1. J = I \cup (IF p = p0 THEN {n + 1} ELSE {})
    BY <1>1
  <2>2. I \subseteq 1..n /\ \A i \in I : t.children[i] = s.children[i]
    BY <1>1
  <2> HIDE DEF I, J
  <2>3. {t.children[i].completionMs : i \in J} =
            {s.children[i].completionMs : i \in I}
            \cup (IF p = p0 THEN {child.completionMs} ELSE {})
    BY <1>1, <2>1, <2>2
  <2>4. /\ Completions(s, p) = {p * c.parentArrivalIntervalMs}
                                 \cup {s.children[i].completionMs : i \in I}
        /\ Completions(t, p) = {p * c.parentArrivalIntervalMs}
                                 \cup {t.children[i].completionMs : i \in J}
    BY <1>1 DEF Completions, I, J
  <2>5. QED
    BY <2>3, <2>4
<1>5. SUFFICES ASSUME NEW p \in ParentIds(c)
               PROVE  /\ t.parentCompletion[p] \in Completions(t, p)
                      /\ \A x \in Completions(t, p) : x <= t.parentCompletion[p]
  BY <1>1 DEF ParentsSound
<1>6. /\ s.parentCompletion[p] \in Completions(s, p)
      /\ \A x \in Completions(s, p) : x <= s.parentCompletion[p]
  BY <1>1 DEF ParentsSound
<1>7. s.parentCompletion[p] \in Nat
  BY <1>2
<1>8. CASE p # p0
  BY <1>2, <1>3, <1>4, <1>6, <1>8
<1>9. CASE p = p0
  <2> DEFINE a == s.parentCompletion[p]
             b == child.completionMs
  <2>1. t.parentCompletion[p] = IF a <= b THEN b ELSE a
    BY <1>1, <1>2, <1>3, <1>7, <1>9, LaterOfTwo
  <2>2. Completions(t, p) = Completions(s, p) \cup {b}
    BY <1>4, <1>9
  <2>3. \A x \in Completions(s, p) : x \in Int
    <3>1. \A i \in 1..n : s.children[i].completionMs \in Nat
      BY TaskParts
    <3>2. p \in Nat /\ c.parentArrivalIntervalMs \in Nat
      BY FlowConfig DEF ParentIds
    <3>3. \A x, y \in Nat : x * y \in Nat
      BY SMT
    <3>4. p * c.parentArrivalIntervalMs \in Nat
      BY <3>2, <3>3
    <3>5. QED
      BY <1>1, <3>1, <3>4 DEF Completions
  <2>4. a \in Nat /\ b \in Nat /\ a \in Completions(s, p) /\ \A x \in Completions(s, p) : x <= a
    BY <1>1, <1>6, <1>7
  <2> DEFINE m == t.parentCompletion[p]
             S == Completions(s, p)
             T == Completions(t, p)
  <2> HIDE DEF a, b, m, S, T
  <2>5. m \in T /\ \A x \in T : x <= m
    BY ONLY <2>1, <2>2, <2>3, <2>4 DEF m, S, T
  <2>6. QED
    BY <2>5 DEF m, T
<1>10. QED
  BY <1>8, <1>9

-----------------------------------------------------------------------------

\* No connection has been used and no child scheduled.
LEMMA InitFlow == flow \in {FlowOf(c) : c \in FlowSettings} => FlowInv
<1> SUFFICES ASSUME NEW c \in FlowSettings, flow = FlowOf(c) PROVE FlowInv
  OBVIOUS
<1> DEFINE idle == [k \in PoolOf(c) |-> [availableAtMs |-> 0, used |-> FALSE]]
           due == [p \in ParentIds(c) |-> p * c.parentArrivalIntervalMs]
<1>1. flow = [config |-> c, connections |-> idle, handshakes |-> 0, children |-> <<>>,
              parentCompletion |-> due]
  BY DEF FlowOf, PoolOf
<1>2. idle \in [PoolOf(c) -> Connections]
  BY DEF Connections
<1>3. due \in [ParentIds(c) -> Nat]
  <2>1. \A p \in ParentIds(c) : p \in Nat
    BY FlowConfig DEF ParentIds
  <2>2. \A x, y \in Nat : x * y \in Nat
    BY SMT
  <2>3. QED
    BY <2>1, <2>2, FlowConfig
<1>4. \A k \in PoolOf(c) : idle[k].availableAtMs = 0 /\ ~idle[k].used
  OBVIOUS
<1>5. \A p \in ParentIds(c) : due[p] = p * c.parentArrivalIntervalMs
  OBVIOUS
<1> HIDE DEF idle, due
<1>6. flow.config = c /\ flow \in FlowStates(c)
  BY <1>1, <1>2, <1>3 DEF FlowStates
<1>7. 1..Len(flow.children) = {} /\ flow.connections = idle /\ flow.handshakes = 0
      /\ flow.parentCompletion = due
  BY <1>1
<1>8. ConnectionsSound(flow) /\ StartsSound(flow) /\ TurnsSound(flow)
  BY <1>4, <1>6, <1>7 DEF ConnectionsSound, StartsSound, TurnsSound
<1>9. HandshakesSound(flow)
  <2>1. Used(flow) = {}
    BY <1>4, <1>6, <1>7 DEF Used
  <2>2. Cardinality({}) = 0
    BY FS_EmptySet
  <2>3. QED
    BY <1>7, <2>1, <2>2 DEF HandshakesSound
<1>10. ParentsSound(flow)
  <2>1. \A p \in ParentIds(c) : Completions(flow, p) = {due[p]} /\ due[p] \in Nat
    BY <1>3, <1>5, <1>6, <1>7 DEF Completions
  <2>2. QED
    BY <1>6, <1>7, <2>1 DEF ParentsSound
<1>11. QED
  BY <1>6, <1>8, <1>9, <1>10 DEF FlowInv

\* Scheduling adds one child to the connection that is available first.
LEMMA ScheduleAddsOne ==
    ASSUME FlowInv, Schedule
    PROVE  \E child \in Tasks(flow.config) :
               flow' \in FlowStates(flow.config) /\ Scheduled(flow, flow', child)
<1> DEFINE s == flow
           c == s.config
           n == Len(s.children)
           parent == n \div c.fanout
           arrivalMs == parent * c.parentArrivalIntervalMs
           k == earliestConnection(s.connections)
           free == s.connections[k].availableAtMs
           startMs == Max({arrivalMs, free})
           handshakeMs == HandshakeMs(c, s.connections[k])
           serviceMs == IF Slow(c, n + 1) THEN c.slowServiceMs ELSE c.normalServiceMs
           completionMs == startMs + handshakeMs + serviceMs
           child == [parentId |-> parent, connectionId |-> k, arrivalMs |-> arrivalMs,
                     startMs |-> startMs, handshakeMs |-> handshakeMs, completionMs |-> completionMs]
           renewed == [availableAtMs |-> completionMs, used |-> TRUE]
           counted == IF handshakeMs > 0 THEN s.handshakes + 1 ELSE s.handshakes
           later == Max({s.parentCompletion[parent], completionMs})
<1>1. c \in FlowSettings /\ s \in FlowStates(c)
  BY DEF FlowInv
<1>2. /\ n < c.parentRequests * c.fanout
      /\ flow' = [s EXCEPT !.connections[k] = renewed, !.handshakes = counted,
                           !.children = Append(s.children, child),
                           !.parentCompletion[parent] = later]
  BY DEF Schedule
<1>3. /\ s.connections \in [PoolOf(c) -> Connections] /\ s.handshakes \in Nat
      /\ s.children \in Seq(Tasks(c)) /\ s.parentCompletion \in [ParentIds(c) -> Nat] /\ n \in Nat
  BY <1>1 DEF FlowStates
<1>4. parent \in ParentIds(c) /\ arrivalMs \in Nat
  <2>1. c.fanout \in Nat \ {0} /\ c.parentRequests \in Nat /\ c.parentArrivalIntervalMs \in Nat
    BY <1>1, FlowConfig
  <2>2. parent \in Nat /\ parent < c.parentRequests
    BY <1>2, <1>3, <2>1, DivisionOrder
  <2>3. \A x, y \in Nat : x * y \in Nat
    BY SMT
  <2>4. arrivalMs \in Nat
    BY <2>1, <2>2, <2>3
  <2> HIDE DEF parent
  <2>5. parent \in ParentIds(c)
    BY <2>1, <2>2 DEF ParentIds
  <2>6. QED
    BY <2>4, <2>5 DEF parent
<1>5. arrivalMs = ArrivalOf(c, n + 1)
  BY <1>3 DEF ArrivalOf
<1>6. k \in PoolOf(c) /\ \A d \in PoolOf(c) : free <= s.connections[d].availableAtMs
  BY <1>1, <1>3, EarliestFound
<1>7. free \in Nat
  BY <1>3, <1>6 DEF Connections
<1> HIDE DEF parent, arrivalMs, k
<1>8. startMs = (IF arrivalMs <= free THEN free ELSE arrivalMs) /\ startMs \in Nat
  BY <1>4, <1>7, LaterOfTwo
<1>9. handshakeMs \in Nat /\ serviceMs \in Nat
  BY <1>1, FlowConfig DEF HandshakeMs
<1> HIDE DEF startMs, handshakeMs, serviceMs
<1>10. completionMs \in Nat /\ startMs <= completionMs
  BY <1>8, <1>9
<1> HIDE DEF completionMs
<1>11. child \in Tasks(c)
  BY <1>4, <1>6, <1>8, <1>9, <1>10 DEF Tasks
<1>12. later \in Nat
  <2>1. s.parentCompletion[parent] \in Nat
    BY <1>3, <1>4
  <2>2. QED
    BY <1>10, <2>1, LaterOfTwo
<1>13. child.connectionId = k /\ child.arrivalMs = arrivalMs /\ child.startMs = startMs
       /\ child.handshakeMs = handshakeMs /\ child.completionMs = completionMs
       /\ child.parentId = parent
  BY DEF child
<1>14. renewed \in Connections /\ counted \in Nat
  BY <1>3, <1>10 DEF Connections
<1> DEFINE pool == [s.connections EXCEPT ![k] = renewed]
           all == Append(s.children, child)
           known == [s.parentCompletion EXCEPT ![parent] = later]
<1> HIDE DEF child
<1>15. pool \in [PoolOf(c) -> Connections] /\ known \in [ParentIds(c) -> Nat]
  BY <1>3, <1>4, <1>6, <1>12, <1>14
<1>16. all \in Seq(Tasks(c)) /\ Len(all) = n + 1 /\ all[n + 1] = child
       /\ \A i \in 1..n : all[i] = s.children[i]
  BY <1>3, <1>11
<1>17. flow' = [s EXCEPT !.connections = pool, !.handshakes = counted, !.children = all,
                         !.parentCompletion = known]
  BY <1>1, <1>2 DEF FlowStates
<1>18. pool = [s.connections EXCEPT ![k] = [availableAtMs |-> completionMs, used |-> TRUE]]
       /\ known = [s.parentCompletion EXCEPT ![parent] = Max({@, completionMs})]
       /\ counted = IF handshakeMs > 0 THEN s.handshakes + 1 ELSE s.handshakes
  OBVIOUS
<1> HIDE DEF pool, all, known, counted, renewed, later
<1>19. flow' \in FlowStates(c) /\ flow'.config = c /\ flow'.connections = pool
       /\ flow'.handshakes = counted /\ flow'.children = all /\ flow'.parentCompletion = known
  BY <1>1, <1>14, <1>15, <1>16, <1>17 DEF FlowStates
<1>20. Scheduled(s, flow', child)
  <2>1. \A d \in PoolOf(s.config) : s.connections[child.connectionId].availableAtMs
                                          <= s.connections[d].availableAtMs
    BY <1>6, <1>13
  <2>2. child.arrivalMs = ArrivalOf(s.config, n + 1)
    BY <1>5, <1>13
  <2>3. /\ child.startMs = IF child.arrivalMs <= s.connections[child.connectionId].availableAtMs
                           THEN s.connections[child.connectionId].availableAtMs
                           ELSE child.arrivalMs
        /\ child.startMs <= child.completionMs
        /\ child.handshakeMs = HandshakeMs(s.config, s.connections[child.connectionId])
    BY <1>8, <1>10, <1>13 DEF handshakeMs
  <2>4. Len(flow'.children) = n + 1 /\ flow'.children[n + 1] = child
        /\ \A i \in 1..n : flow'.children[i] = s.children[i]
    BY <1>16, <1>19
  <2>5. /\ flow'.connections = [s.connections EXCEPT ![child.connectionId] =
                                  [availableAtMs |-> child.completionMs, used |-> TRUE]]
        /\ flow'.handshakes = IF child.handshakeMs > 0 THEN s.handshakes + 1 ELSE s.handshakes
        /\ flow'.parentCompletion =
               [s.parentCompletion EXCEPT ![child.parentId] = Max({@, child.completionMs})]
    BY <1>13, <1>18, <1>19
  <2>6. QED
    BY ONLY <1>19, <2>1, <2>2, <2>3, <2>4, <2>5, Zenon DEF Scheduled
<1>21. QED
  BY <1>11, <1>19, <1>20

\* Every step of the exhibit schedules one child, and the invariant is kept.
LEMMA NextFlow == FlowInv /\ [Schedule]_flow => FlowInv'
<1>1. ASSUME FlowInv, Schedule PROVE FlowInv'
  <2>1. PICK child \in Tasks(flow.config) :
            flow' \in FlowStates(flow.config) /\ Scheduled(flow, flow', child)
    BY <1>1, ScheduleAddsOne
  <2>2. flow.config \in FlowSettings /\ flow \in FlowStates(flow.config)
    BY <1>1 DEF FlowInv
  <2>3. flow'.config = flow.config
    BY <2>1, <2>2, ScheduledParts
  <2>4. ConnectionsSound(flow')
    BY <1>1, <2>1, <2>2, ConnectionsStep DEF FlowInv
  <2>5. StartsSound(flow')
    BY <1>1, <2>1, <2>2, StartsStep DEF FlowInv
  <2>6. TurnsSound(flow')
    BY <1>1, <2>1, <2>2, TurnsStep DEF FlowInv
  <2>7. HandshakesSound(flow')
    BY <1>1, <2>1, <2>2, HandshakesStep DEF FlowInv
  <2>8. ParentsSound(flow')
    BY <1>1, <2>1, <2>2, ParentsStep DEF FlowInv
  <2>9. QED
    BY <2>1, <2>2, <2>3, <2>4, <2>5, <2>6, <2>7, <2>8 DEF FlowInv
<1>2. ASSUME FlowInv, UNCHANGED flow PROVE FlowInv'
  BY <1>2 DEF FlowInv
<1>3. QED
  BY <1>1, <1>2

\* The connections of a pool are as many as configured.
LEMMA PoolSize ==
    ASSUME NEW c \in FlowSettings
    PROVE  IsFiniteSet(PoolOf(c)) /\ Cardinality(PoolOf(c)) = c.poolSize /\ c.poolSize \in Nat
<1>1. c.poolSize \in Nat \ {0}
  BY FlowConfig
<1>2. IsFiniteSet(1..c.poolSize)
      /\ Cardinality(1..c.poolSize) = IF 1 > c.poolSize THEN 0 ELSE c.poolSize - 1 + 1
  BY <1>1, FS_Interval, SMTT(30)
<1>3. QED
  BY <1>1, <1>2 DEF PoolOf

\* Each connection carries one child whenever some child waits, so the children held then are
\* as many as the pool has connections.
LEMMA PoolIsHeld ==
    ASSUME FlowInv, NEW j \in 1..Len(flow.children),
           NEW t \in flow.children[j].arrivalMs..(flow.children[j].startMs - 1)
    PROVE  Cardinality({i \in 1..(j - 1) : Held(i, t)}) = flow.config.poolSize
<1> DEFINE c == flow.config
           n == Len(flow.children)
           H == {i \in 1..(j - 1) : Held(i, t)}
           on == [i \in H |-> flow.children[i].connectionId]
<1>1. c \in FlowSettings /\ flow \in FlowStates(c) /\ n \in Nat /\ c.poolSize \in Nat
  BY FlowConfig DEF FlowInv, FlowStates
<1>2. \A i \in 1..n : /\ flow.children[i].connectionId \in PoolOf(c)
                      /\ flow.children[i].startMs \in Nat /\ flow.children[i].completionMs \in Nat
                      /\ flow.children[i].arrivalMs \in Nat
  BY <1>1, TaskParts
<1>3. t \in Nat /\ \A i \in H : i \in 1..n
  BY <1>1, <1>2
<1>4. ASSUME NEW a \in H, NEW b \in H, a < b,
             flow.children[a].connectionId = flow.children[b].connectionId
      PROVE  FALSE
  <2>1. a \in 1..n /\ b \in 1..n /\ a \in 1..(b - 1)
    BY <1>3, <1>4
  <2>2. flow.children[a].completionMs <= flow.children[b].startMs
    BY <1>4, <2>1 DEF FlowInv, TurnsSound
  <2>3. flow.children[b].startMs <= t /\ t < flow.children[a].completionMs
    BY DEF Held
  <2>4. flow.children[b].startMs \in Nat /\ flow.children[a].completionMs \in Nat
    BY <1>2, <2>1
  <2>5. QED
    BY <1>3, <2>2, <2>3, <2>4
<1>5. ASSUME NEW k \in PoolOf(c)
      PROVE  \E i \in H : on[i] = k
  <2>1. PICK i \in 1..(j - 1) : On(flow, i, k) /\ Holds(flow, i, t)
    BY DEF FlowInv, TurnsSound
  <2>2. i \in H /\ flow.children[i].connectionId = k
    BY <2>1 DEF On, Holds, Held
  <2>3. QED
    BY <2>2
<1>6. on \in Bijection(H, PoolOf(c))
  <2>1. \A i \in H : on[i] \in PoolOf(c)
    BY <1>2, <1>3
  <2>2. \A a, b \in H : on[a] = on[b] => a = b
    <3> SUFFICES ASSUME NEW a \in H, NEW b \in H, on[a] = on[b] PROVE a = b
      OBVIOUS
    <3>1. ~(a < b) /\ ~(b < a)
      BY <1>4
    <3>2. a \in Int /\ b \in Int
      OBVIOUS
    <3> HIDE DEF H
    <3>3. QED
      BY <3>1, <3>2
  <2> HIDE DEF H
  <2>3. on \in [H -> PoolOf(c)]
    BY <2>1
  <2> HIDE DEF on
  <2>4. QED
    BY <1>5, <2>2, <2>3 DEF Bijection, Injection, Surjection, IsInjective
<1>7. IsFiniteSet(PoolOf(c)) /\ Cardinality(PoolOf(c)) = c.poolSize
  BY <1>1, PoolSize
<1>8. IsFiniteSet(H)
  <2>1. IsFiniteSet(1..(j - 1))
    BY FS_Interval
  <2>2. QED
    BY <2>1, FS_Subset
<1> HIDE DEF H, on
<1>9. Cardinality(H) = Cardinality(PoolOf(c))
  BY <1>6, <1>7, <1>8, FS_Bijection DEF ExistsBijection
<1>10. QED
  BY <1>7, <1>9 DEF H

\* The invariant is the promise, seen child by child.
LEMMA FlowPromises == FlowInv => PoolIsShared
<1> SUFFICES ASSUME FlowInv PROVE PoolIsShared
  OBVIOUS
<1> DEFINE c == flow.config
           n == Len(flow.children)
<1>1. c \in FlowSettings /\ flow \in FlowStates(c) /\ n \in Nat /\ DOMAIN flow.children = 1..n
  BY DEF FlowInv, FlowStates
<1>2. \A i, j \in 1..n : i < j => i \in 1..(j - 1)
  OBVIOUS
<1>3. OneChildPerConnection
  BY <1>1, <1>2 DEF OneChildPerConnection, FlowInv, TurnsSound
<1>4. ChildrenInTurn
  <2>1. \A i, j \in 1..n : i < j => flow.children[i].startMs <= flow.children[j].startMs
    BY <1>2 DEF FlowInv, TurnsSound
  <2>2. \A j \in 1..n : \A t \in flow.children[j].arrivalMs..(flow.children[j].startMs - 1) :
            Cardinality({k \in 1..(j - 1) : Held(k, t)}) = c.poolSize
    BY PoolIsHeld
  <2>3. QED
    BY <1>1, <2>1, <2>2, Zenon DEF ChildrenInTurn
<1>5. HandshakesAreReused
  <2> SUFFICES ASSUME c.reuseConnections PROVE flow.handshakes <= c.poolSize
    BY DEF HandshakesAreReused
  <2>1. flow.handshakes <= Cardinality(Used(flow)) /\ flow.handshakes \in Nat
    BY <1>1 DEF FlowInv, HandshakesSound, FlowStates
  <2>2. IsFiniteSet(PoolOf(c)) /\ Cardinality(PoolOf(c)) = c.poolSize /\ c.poolSize \in Nat
    BY <1>1, PoolSize
  <2>3. Used(flow) \subseteq PoolOf(c)
    BY DEF Used
  <2>4. Cardinality(Used(flow)) <= c.poolSize /\ Cardinality(Used(flow)) \in Nat
    BY <2>2, <2>3, FS_Subset, FS_CardinalityType
  <2>5. QED
    BY ONLY <2>1, <2>2, <2>4
<1>6. ParentsWaitForAll
  <2> SUFFICES ASSUME NEW p \in ParentIds(c)
               PROVE  flow.parentCompletion[p] = Max(Completions(flow, p))
    BY <1>1 DEF ParentsWaitForAll, Completions
  <2> DEFINE m == flow.parentCompletion[p]
             S == Completions(flow, p)
  <2>1. m \in S /\ m \in Nat /\ \A x \in S : x <= m
    BY <1>1 DEF FlowInv, ParentsSound, FlowStates
  <2>2. S \in SUBSET Nat
    <3>1. \A i \in 1..n : flow.children[i].completionMs \in Nat
      BY <1>1, TaskParts
    <3>2. p \in Nat /\ c.parentArrivalIntervalMs \in Nat
      BY <1>1, FlowConfig DEF ParentIds
    <3>3. \A x, y \in Nat : x * y \in Nat
      BY SMT
    <3>4. p * c.parentArrivalIntervalMs \in Nat
      BY <3>2, <3>3
    <3>5. QED
      BY <3>1, <3>4 DEF Completions
  <2> HIDE DEF m, S
  <2>3. Max(S) \in S /\ Max(S) \in Nat /\ \A x \in S : x <= Max(S)
    BY <2>1, <2>2, LargestIsMax
  <2>4. m = Max(S)
    BY <2>1, <2>3
  <2>5. QED
    BY <2>4 DEF m, S
<1>7. QED
  BY <1>3, <1>4, <1>5, <1>6 DEF PoolIsShared

\* Whatever the traffic and the services, a connection carries one child at a time, children
\* start in turn and wait only while every connection is busy, a reused connection is set up
\* once, and a parent completes with the last of its children.
THEOREM Sharing == FlowSpec => []PoolIsShared
<1>1. FlowSpec => []FlowInv
  BY InitFlow, NextFlow, PTL DEF FlowSpec
<1>2. QED
  BY <1>1, FlowPromises, PTL

\* The two exhibits of limited capacity together, as the laboratory shows them.
THEOREM CapacityIsLimited == AdmissionSpec /\ FlowSpec => []LimitsHold
BY Limiting, Sharing, PTL DEF LimitsHold

-----------------------------------------------------------------------------

(* The request simulator. *)

Reasons == {"no-healthy-node", "over-capacity", "shed-load", "queue-full"}

\* A request that failed, or was answered.
Failures(c) ==
    [scheduledArrivalMs : Nat, arrivalMs : Nat, nodeId : DOMAIN c.nodes \cup {None},
     failureReason : Reasons, queueDelayMs : {None}, serviceStartMs : {None}, completionMs : {None}]
Answers(c) ==
    [scheduledArrivalMs : Nat, arrivalMs : Nat, nodeId : DOMAIN c.nodes, failureReason : {"none"},
     queueDelayMs : Nat, serviceStartMs : Nat, completionMs : Nat]
Results(c) == Failures(c) \cup Answers(c)

Slots == [id : Nat, serviceStartMs : Nat, serviceEndMs : Nat]
WorkerPools == UNION {[1..w -> Nat] : w \in Nat}

SimulationStates(c) ==
    [config : {c}, scheduledArrivalMs : Nat, previousArrivalMs : Nat,
     completions : SUBSET [id : Nat, atMs : Nat], cursor : Int,
     nodes : [DOMAIN c.nodes -> [scheduled : SUBSET Slots, workerAvailableMs : WorkerPools]],
     requests : Seq(Results(c))]

Count(s) == Len(s.requests)
Answered(s, k) == s.requests[k].failureReason = "none"
AcceptedBy(s, n) == {k \in 1..Count(s) : s.requests[k].nodeId = n /\ Answered(s, k)}

Begin(s, k) == s.requests[k].serviceStartMs
Reach(s, k) == Begin(s, k) - s.requests[k].queueDelayMs
EndsAt(s, k) == Begin(s, k) + s.config.nodes[s.requests[k].nodeId].serviceTimeMs

Slot(s, k) == [id |-> k - 1, serviceStartMs |-> Begin(s, k), serviceEndMs |-> EndsAt(s, k)]
Answer(s, k) == [id |-> k - 1, atMs |-> s.requests[k].completionMs]
SlotsOf(s, K) == {Slot(s, k) : k \in K}
AnswersOf(s, K) == {Answer(s, k) : k \in K}

Queued(s, n, t) == {k \in AcceptedBy(s, n) : Reach(s, k) <= t /\ t < Begin(s, k)}
Serving(s, k, t) == Begin(s, k) <= t /\ t < EndsAt(s, k)

Workers(s, n) == 1..s.config.nodes[n].workers
FreeAt(s, n, w) == s.nodes[n].workerAvailableMs[w]

\* Without jitter, requests reach a node in the order they were sent.
InOrder(s) == s.config.jitters = {0}

\* The requests so far were sent one after another.
SendingSound(s) ==
    /\ \A k \in 1..Count(s) : s.requests[k].arrivalMs <= s.previousArrivalMs
    /\ Count(s) > 0 => s.requests[Count(s)].arrivalMs = s.previousArrivalMs
    /\ Count(s) = 0 => s.previousArrivalMs = 0

\* Each request is on a worker of its own while it is served, and one that waits finds all
\* workers serving earlier ones.
WorkedBy(s, n, worker) ==
    /\ \A k \in AcceptedBy(s, n) : EndsAt(s, k) <= FreeAt(s, n, worker[k])
    /\ \A i, j \in AcceptedBy(s, n) :
           i < j /\ worker[i] = worker[j] => EndsAt(s, i) <= Begin(s, j)
    /\ InOrder(s) =>
           /\ \A w \in Workers(s, n) :
                  \/ FreeAt(s, n, w) = 0
                  \/ \E k \in AcceptedBy(s, n) : worker[k] = w /\ EndsAt(s, k) = FreeAt(s, n, w)
           /\ \A j \in AcceptedBy(s, n) : \A t \in Reach(s, j)..(Begin(s, j) - 1) :
                  \A w \in Workers(s, n) : \E i \in AcceptedBy(s, n) :
                      i < j /\ worker[i] = w /\ Serving(s, i, t)

WorkersSound(s) ==
    \A n \in DOMAIN s.config.nodes :
        /\ s.nodes[n].workerAvailableMs \in [Workers(s, n) -> Nat]
        /\ \E worker \in [AcceptedBy(s, n) -> Workers(s, n)] : WorkedBy(s, n, worker)

\* The schedule of a node holds what is still to be served there.
ScheduleSound(s) ==
    \A n \in DOMAIN s.config.nodes :
        /\ s.nodes[n].scheduled \subseteq {Slot(s, k) : k \in AcceptedBy(s, n)}
        /\ InOrder(s) =>
               \A k \in AcceptedBy(s, n) :
                   \/ Slot(s, k) \in s.nodes[n].scheduled
                   \/ EndsAt(s, k) <= s.previousArrivalMs + s.config.nodes[n].networkLatencyMs

\* Requests start in the order they were sent: when they reach the node, or when no worker is
\* free earlier any more.
TurnSound(s) ==
    InOrder(s) =>
        \A n \in DOMAIN s.config.nodes : \A k \in AcceptedBy(s, n) :
            /\ Reach(s, k) = s.requests[k].arrivalMs + s.config.nodes[n].networkLatencyMs
            /\ \/ Begin(s, k) = Reach(s, k)
               \/ \A w \in Workers(s, n) : Begin(s, k) <= FreeAt(s, n, w)
            /\ \A j \in AcceptedBy(s, n) : k < j => Begin(s, k) <= Begin(s, j)

\* Only those wait that may.
QueueSound(s) ==
    InOrder(s) =>
        \A n \in DOMAIN s.config.nodes : \A k \in AcceptedBy(s, n) :
            /\ Cardinality(Queued(s, n, Reach(s, k))) <= s.config.nodes[n].queueCapacity
            /\ s.config.overloadPolicy = "reject" => s.requests[k].queueDelayMs = 0
            /\ s.config.overloadPolicy = "shed-load" =>
                   s.requests[k].queueDelayMs <= s.config.maxQueueWaitMs

\* The requests before i that are not answered at time t.
Pending(s, i, t) == {k \in 1..(i - 1) : Answered(s, k) /\ s.requests[k].completionMs > t}

\* When request i could have been sent, had the producer no limit.
DueAt(s, i) ==
    LET previousMs == IF i = 1 THEN 0 ELSE s.requests[i - 1].arrivalMs
    IN  IF s.requests[i].scheduledArrivalMs <= previousMs THEN previousMs
        ELSE s.requests[i].scheduledArrivalMs

HeldBack(s, i) ==
    LET limit == s.config.backpressureLimit
        arrivalMs == s.requests[i].arrivalMs
    IN  /\ limit = 0 => arrivalMs = DueAt(s, i)
        /\ limit # 0 =>
               /\ Cardinality(Pending(s, i, arrivalMs)) < limit
               /\ \A t \in DueAt(s, i)..(arrivalMs - 1) : Cardinality(Pending(s, i, t)) >= limit

\* The producer counts the requests that are not answered.
ProducerSound(s) ==
    /\ s.completions = AnswersOf(s, Pending(s, Count(s) + 1, s.previousArrivalMs))
    /\ \A i \in 1..Count(s) : HeldBack(s, i)

SimulationInv ==
    /\ simulation.config \in SimulationSettings
    /\ simulation \in SimulationStates(simulation.config)
    /\ SendingSound(simulation) /\ WorkersSound(simulation) /\ ScheduleSound(simulation)
    /\ TurnSound(simulation) /\ QueueSound(simulation) /\ ProducerSound(simulation)

-----------------------------------------------------------------------------

\* A configuration's parts.
LEMMA SimulationConfig ==
    ASSUME NEW c \in SimulationSettings
    PROVE  /\ c.requestCount \in Nat /\ c.maxQueueWaitMs \in Nat /\ c.backpressureLimit \in Nat
           /\ c.overloadPolicy \in {"queue", "reject", "shed-load"}
           /\ c.baseIntervalMs \in Nat /\ c.burst.multiplier \in Nat \ {0}
           /\ c.jitters \subseteq Int
           /\ \A n \in DOMAIN c.nodes :
                  /\ c.nodes[n].serviceTimeMs \in Nat \ {0} /\ c.nodes[n].workers \in Nat \ {0}
                  /\ c.nodes[n].networkLatencyMs \in Nat /\ c.nodes[n].queueCapacity \in Nat
<1>1. /\ c.requestCount \in Nat /\ c.maxQueueWaitMs \in Nat /\ c.backpressureLimit \in Nat
      /\ c.overloadPolicy \in {"queue", "reject", "shed-load"}
      /\ c.baseIntervalMs \in Nat /\ c.jitters \subseteq Int
  BY SimulationAssumption
<1>2. c.burst.multiplier \in Nat \ {0}
  BY SimulationAssumption
<1>3. \A n \in DOMAIN c.nodes :
          /\ c.nodes[n].serviceTimeMs \in Nat \ {0} /\ c.nodes[n].workers \in Nat \ {0}
          /\ c.nodes[n].networkLatencyMs \in Nat /\ c.nodes[n].queueCapacity \in Nat
  BY SimulationAssumption
<1>4. QED
  BY <1>1, <1>2, <1>3

\* The requests recorded so far.
LEMMA RequestParts ==
    ASSUME NEW c \in SimulationSettings, NEW s \in SimulationStates(c), NEW k \in 1..Count(s)
    PROVE  /\ s.requests[k].arrivalMs \in Nat /\ s.requests[k].scheduledArrivalMs \in Nat
           /\ Answered(s, k) =>
                  LET n == s.requests[k].nodeId
                  IN  /\ n \in DOMAIN c.nodes /\ k \in AcceptedBy(s, n)
                      /\ s.requests[k].completionMs \in Nat /\ s.requests[k].queueDelayMs \in Nat
                      /\ Begin(s, k) \in Nat /\ Reach(s, k) \in Int
                      /\ EndsAt(s, k) \in Nat /\ Begin(s, k) < EndsAt(s, k)
<1>1. s.requests \in Seq(Results(c)) /\ s.config = c
  BY DEF SimulationStates
<1>2. \A S : \A q \in Seq(S) : \A i \in 1..Len(q) : q[i] \in S
  OBVIOUS
<1>3. s.requests[k] \in Results(c)
  BY <1>1, <1>2, Zenon DEF Count
<1>4. s.requests[k].arrivalMs \in Nat /\ s.requests[k].scheduledArrivalMs \in Nat
  BY <1>3 DEF Results, Failures, Answers
<1>5. ASSUME Answered(s, k)
      PROVE  /\ s.requests[k].nodeId \in DOMAIN c.nodes
             /\ s.requests[k].completionMs \in Nat /\ s.requests[k].queueDelayMs \in Nat
             /\ s.requests[k].serviceStartMs \in Nat
  BY <1>3, <1>5 DEF Results, Failures, Answers, Answered, Reasons
<1>6. ASSUME Answered(s, k)
      PROVE  LET n == s.requests[k].nodeId
             IN  /\ n \in DOMAIN c.nodes /\ k \in AcceptedBy(s, n)
                 /\ s.requests[k].completionMs \in Nat /\ s.requests[k].queueDelayMs \in Nat
                 /\ Begin(s, k) \in Nat /\ Reach(s, k) \in Int
                 /\ EndsAt(s, k) \in Nat /\ Begin(s, k) < EndsAt(s, k)
  <2> DEFINE n == s.requests[k].nodeId
             b == s.requests[k].serviceStartMs
             d == s.requests[k].queueDelayMs
             e == c.nodes[n].serviceTimeMs
  <2>1. n \in DOMAIN c.nodes /\ b \in Nat /\ d \in Nat /\ s.requests[k].completionMs \in Nat
    BY <1>5, <1>6
  <2>2. e \in Nat \ {0}
    BY <2>1, SimulationConfig
  <2>3. Begin(s, k) = b /\ Reach(s, k) = b - d /\ EndsAt(s, k) = b + e
    BY <1>1 DEF Begin, Reach, EndsAt
  <2>4. k \in AcceptedBy(s, n)
    BY <1>6 DEF AcceptedBy
  <2> HIDE DEF b, d, e
  <2>5. b - d \in Int /\ b + e \in Nat /\ b < b + e
    BY <2>1, <2>2
  <2>6. QED
    BY <2>1, <2>3, <2>4, <2>5 DEF d
<1>7. QED
  BY <1>4, <1>6

\* What a node has accepted.
LEMMA AcceptedParts ==
    ASSUME NEW c \in SimulationSettings, NEW s \in SimulationStates(c), NEW n,
           NEW k \in AcceptedBy(s, n)
    PROVE  /\ k \in 1..Count(s) /\ Answered(s, k) /\ s.requests[k].nodeId = n
           /\ n \in DOMAIN c.nodes /\ s.requests[k].queueDelayMs \in Nat
           /\ s.requests[k].arrivalMs \in Nat
           /\ Begin(s, k) \in Nat /\ Reach(s, k) \in Int /\ Reach(s, k) <= Begin(s, k)
           /\ EndsAt(s, k) \in Nat /\ Begin(s, k) < EndsAt(s, k)
           /\ EndsAt(s, k) = Begin(s, k) + c.nodes[n].serviceTimeMs
<1>1. k \in 1..Count(s) /\ Answered(s, k) /\ s.requests[k].nodeId = n
  BY DEF AcceptedBy
<1>2. /\ s.requests[k].arrivalMs \in Nat /\ n \in DOMAIN c.nodes
      /\ s.requests[k].queueDelayMs \in Nat
      /\ Begin(s, k) \in Nat /\ Reach(s, k) \in Int
      /\ EndsAt(s, k) \in Nat /\ Begin(s, k) < EndsAt(s, k)
  BY <1>1, RequestParts
<1>3. s.config = c
  BY DEF SimulationStates
<1>4. Reach(s, k) <= Begin(s, k) /\ EndsAt(s, k) = Begin(s, k) + c.nodes[n].serviceTimeMs
  BY <1>1, <1>2, <1>3 DEF Reach, EndsAt, Begin
<1>5. QED
  BY <1>1, <1>2, <1>4

\* A set and its image under a function that keeps elements apart have the same size.
LEMMA SameSize ==
    ASSUME NEW K, IsFiniteSet(K), NEW f, DOMAIN f = K, f \in [K -> {f[k] : k \in K}],
           \A k, l \in K : f[k] = f[l] => k = l
    PROVE  LET W == {f[k] : k \in K}
           IN  IsFiniteSet(W) /\ Cardinality(W) = Cardinality(K) /\ Cardinality(K) \in Nat
<1> DEFINE W == {f[k] : k \in K}
<1>1. \A w \in W : \E k \in K : f[k] = w
  OBVIOUS
<1> HIDE DEF W
<1>2. f \in Bijection(K, W)
  BY <1>1 DEF Bijection, Injection, Surjection, IsInjective, W
<1>3. IsFiniteSet(W) /\ Cardinality(W) = Cardinality(K)
  BY <1>2, FS_Bijection DEF ExistsBijection
<1>4. Cardinality(K) \in Nat
  BY FS_CardinalityType
<1>5. QED
  BY <1>3, <1>4 DEF W

\* Requests are told apart by their position, so that their answers and slots can be counted.
LEMMA RequestsCounted ==
    ASSUME NEW s, Count(s) \in Nat, NEW K \in SUBSET (1..Count(s))
    PROVE  /\ IsFiniteSet(K) /\ Cardinality(K) \in Nat
           /\ IsFiniteSet(AnswersOf(s, K))
           /\ Cardinality(AnswersOf(s, K)) = Cardinality(K)
           /\ IsFiniteSet(SlotsOf(s, K))
           /\ Cardinality(SlotsOf(s, K)) = Cardinality(K)
<1>1. IsFiniteSet(K)
  <2>1. IsFiniteSet(1..Count(s))
    BY FS_Interval
  <2>2. QED
    BY <2>1, FS_Subset
<1>2. Cardinality(K) \in Nat
  BY <1>1, FS_CardinalityType
<1> DEFINE f == [k \in K |-> Answer(s, k)]
           g == [k \in K |-> Slot(s, k)]
<1>3. \A k, l \in K : f[k] = f[l] => k = l
  BY DEF Answer
<1>4. \A k, l \in K : g[k] = g[l] => k = l
  BY DEF Slot
<1>5. /\ {f[k] : k \in K} = AnswersOf(s, K) /\ {g[k] : k \in K} = SlotsOf(s, K)
      /\ DOMAIN f = K /\ DOMAIN g = K /\ f \in [K -> {f[k] : k \in K}] /\ g \in [K -> {g[k] : k \in K}]
  BY DEF AnswersOf, SlotsOf
<1> HIDE DEF f, g
<1>6. IsFiniteSet({f[k] : k \in K}) /\ Cardinality({f[k] : k \in K}) = Cardinality(K)
  BY <1>1, <1>3, <1>5, SameSize
<1>7. IsFiniteSet({g[k] : k \in K}) /\ Cardinality({g[k] : k \in K}) = Cardinality(K)
  BY <1>1, <1>4, <1>5, SameSize
<1>8. QED
  BY <1>1, <1>2, <1>5, <1>6, <1>7

-----------------------------------------------------------------------------

(* The producer. *)

\* The least number of a set is its minimum.
LEMMA LeastIsMin ==
    ASSUME NEW S \in SUBSET Nat, S # {}
    PROVE  Min(S) \in S /\ \A x \in S : Min(S) <= x
<1>1. \E m \in S : \A x \in S : m <= x
  BY SomeLeast
<1>2. QED
  BY <1>1, Zenon DEF Min

\* More time leaves no more outstanding.
LEMMA OutstandingShrinks ==
    ASSUME NEW C \in SUBSET [id : Nat, atMs : Nat], IsFiniteSet(C), NEW x \in Nat
    PROVE  /\ IsFiniteSet(Outstanding(C, x)) /\ Cardinality(Outstanding(C, x)) \in Nat
           /\ \A y \in Outstanding(C, x) :
                  Cardinality(Outstanding(C, y.atMs)) < Cardinality(Outstanding(C, x))
<1>1. Outstanding(C, x) \subseteq C
  BY DEF Outstanding
<1>2. IsFiniteSet(Outstanding(C, x)) /\ Cardinality(Outstanding(C, x)) \in Nat
  BY <1>1, FS_Subset, FS_CardinalityType
<1>3. ASSUME NEW y \in Outstanding(C, x)
      PROVE  Cardinality(Outstanding(C, y.atMs)) < Cardinality(Outstanding(C, x))
  <2> DEFINE A == Outstanding(C, x)
             B == Outstanding(C, y.atMs)
  <2>1. \A z \in C : z.atMs \in Nat
    OBVIOUS
  <2>2. B \subseteq A /\ y \in A /\ y \notin B
    BY <2>1 DEF Outstanding
  <2> HIDE DEF A, B
  <2>3. IsFiniteSet(A) /\ Cardinality(A) \in Nat
    BY <1>2 DEF A
  <2>4. Cardinality(B) <= Cardinality(A) /\ (Cardinality(A) = Cardinality(B) => A = B) /\ IsFiniteSet(B)
    BY <2>2, <2>3, FS_Subset
  <2>5. Cardinality(B) \in Nat
    BY <2>4, FS_CardinalityType
  <2>6. Cardinality(A) # Cardinality(B)
    BY <2>2, <2>4
  <2>7. Cardinality(B) < Cardinality(A)
    BY <2>3, <2>4, <2>5, <2>6
  <2>8. QED
    BY <2>7 DEF A, B
<1>4. QED
  BY <1>2, <1>3

\* The producer sends as soon as it is below its limit, and not before.
LEMMA BackpressureIs ==
    ASSUME NEW c \in SimulationSettings, NEW s \in SimulationStates(c), IsFiniteSet(s.completions),
           NEW scheduledMs \in Nat
    PROVE  LET sentMs == applyBackpressure(s, scheduledMs)
               dueMs == IF scheduledMs <= s.previousArrivalMs THEN s.previousArrivalMs ELSE scheduledMs
               outstanding(t) == Cardinality(Outstanding(s.completions, t))
           IN  /\ sentMs \in Nat /\ dueMs <= sentMs
               /\ c.backpressureLimit = 0 => sentMs = dueMs
               /\ c.backpressureLimit # 0 =>
                      /\ outstanding(sentMs) < c.backpressureLimit
                      /\ \A t \in dueMs..(sentMs - 1) : outstanding(t) >= c.backpressureLimit
<1> DEFINE limit == c.backpressureLimit
           C == s.completions
           dueMs == IF scheduledMs <= s.previousArrivalMs THEN s.previousArrivalMs ELSE scheduledMs
           completing == {x.atMs : x \in Outstanding(C, dueMs)}
           times == {dueMs} \cup completing
           size(t) == Cardinality(Outstanding(C, t))
           below == {t \in times : BelowLimit(s, t)}
           sentMs == applyBackpressure(s, scheduledMs)
<1>1. s.config = c /\ s.previousArrivalMs \in Nat /\ C \in SUBSET [id : Nat, atMs : Nat]
      /\ limit \in Nat
  BY SimulationConfig DEF SimulationStates
<1>2. dueMs = Max({scheduledMs, s.previousArrivalMs}) /\ dueMs \in Nat
  <2>1. Max({scheduledMs, s.previousArrivalMs}) = dueMs
    BY <1>1, LaterOfTwo
  <2>2. QED
    BY <1>1, <2>1
<1>3. sentMs = IF limit = 0 THEN dueMs ELSE Min(below)
  BY <1>1, <1>2 DEF applyBackpressure
<1> HIDE DEF dueMs
<1>4. times \in SUBSET Nat /\ dueMs \in times /\ \A x \in times : dueMs <= x
  <2>1. \A x \in Outstanding(C, dueMs) : x.atMs \in Nat /\ dueMs <= x.atMs
    BY <1>1, <1>2 DEF Outstanding
  <2>2. completing \in SUBSET Nat /\ \A x \in completing : dueMs <= x
    BY <2>1
  <2> HIDE DEF completing
  <2>3. dueMs \in Nat /\ dueMs <= dueMs
    BY <1>2
  <2>4. QED
    BY <2>2, <2>3
<1>5. \A t \in Nat : size(t) \in Nat
  BY <1>1, OutstandingShrinks
<1>6. \A t \in Nat : BelowLimit(s, t) <=> size(t) < limit
  BY <1>1 DEF BelowLimit
<1>7. ASSUME limit # 0 PROVE below # {}
  <2> DEFINE sizes == {size(t) : t \in times}
  <2>1. sizes \in SUBSET Nat /\ sizes # {}
    BY <1>4, <1>5
  <2>2. PICK t \in times : \A u \in times : size(t) <= size(u)
    <3>1. \A u \in times : size(u) \in sizes
      OBVIOUS
    <3>2. \A m \in sizes : \E t \in times : m = size(t)
      OBVIOUS
    <3> HIDE DEF sizes, times, size
    <3>3. PICK m \in sizes : \A x \in sizes : m <= x
      BY <2>1, SomeLeast
    <3>4. QED
      BY <3>1, <3>2, <3>3
  <2>3. ASSUME NEW x \in Outstanding(C, t) PROVE FALSE
    <3>1. x \in C /\ x.atMs \in Nat /\ t \in Nat /\ x.atMs > t
      BY <1>1, <1>4 DEF Outstanding
    <3>2. dueMs <= t
      BY <1>4
    <3>3. x \in Outstanding(C, dueMs)
      BY <1>2, <3>1, <3>2 DEF Outstanding
    <3>4. x.atMs \in times
      BY <3>3
    <3>5. size(x.atMs) < size(t)
      BY <1>1, <3>1, OutstandingShrinks
    <3>6. size(t) <= size(x.atMs) /\ size(t) \in Nat /\ size(x.atMs) \in Nat
      BY <1>5, <2>2, <3>1, <3>4
    <3> HIDE DEF size
    <3>7. QED
      BY <3>5, <3>6
  <2>4. size(t) = 0
    <3>1. Outstanding(C, t) = {}
      BY <2>3
    <3>2. QED
      BY <3>1, FS_EmptySet
  <2>5. BelowLimit(s, t)
    BY <1>1, <1>4, <1>6, <1>7, <2>4
  <2>6. QED
    BY <2>5
<1>8. ASSUME limit # 0
      PROVE  sentMs \in times /\ size(sentMs) < limit /\ \A t \in times : size(t) < limit => sentMs <= t
  <2>1. below \in SUBSET Nat
    BY <1>4
  <2>2. Min(below) \in below /\ \A t \in below : Min(below) <= t
    BY <1>7, <1>8, <2>1, LeastIsMin
  <2>3. sentMs = Min(below)
    BY <1>3, <1>8
  <2>4. \A t \in times : size(t) < limit <=> t \in below
    BY <1>4, <1>6
  <2> HIDE DEF below, sentMs, size, times
  <2>5. sentMs \in times
    BY <2>2, <2>3 DEF below
  <2>6. QED
    BY <2>2, <2>3, <2>4, <2>5
<1>9. ASSUME limit # 0, NEW t \in dueMs..(sentMs - 1)
      PROVE  size(t) >= limit
  <2>1. t \in Nat /\ dueMs <= t /\ t < sentMs /\ sentMs \in Nat
    <3>1. sentMs \in Nat
      BY <1>4, <1>8, <1>9
    <3> HIDE DEF sentMs
    <3>2. QED
      BY <1>2, <1>9, <3>1
  <2> DEFINE earlier == {u \in times : u <= t}
             u == Max(earlier)
  <2>2. earlier \in SUBSET Nat /\ earlier # {} /\ \A x \in earlier : x <= t
    BY <1>4, <2>1
  <2> HIDE DEF earlier
  <2>3. u \in earlier /\ u \in Nat /\ \A x \in earlier : x <= u
    BY <2>1, <2>2, LargestIsMax
  <2>4. Outstanding(C, t) = Outstanding(C, u)
    <3>1. u <= t /\ dueMs <= u
      BY <1>4, <2>1, <2>2, <2>3 DEF earlier
    <3>2. ASSUME NEW x \in C, x.atMs > u, x.atMs <= t PROVE FALSE
      <4>1. x.atMs \in Nat
        BY <1>1
      <4>2. x \in Outstanding(C, dueMs)
        BY <1>2, <2>3, <3>1, <3>2, <4>1 DEF Outstanding
      <4>3. x.atMs \in earlier
        BY <3>2, <4>2 DEF earlier
      <4>4. QED
        BY <2>3, <3>2, <4>1, <4>3
    <3>3. \A x \in C : x.atMs \in Nat
      BY <1>1
    <3> HIDE DEF u, C
    <3>4. QED
      BY <2>1, <2>3, <3>1, <3>2, <3>3 DEF Outstanding
  <2>5. u \in times /\ u <= t
    BY <2>3 DEF earlier
  <2>6. ~(size(u) < limit)
    BY <1>8, <1>9, <2>1, <2>3, <2>5
  <2>7. size(t) = size(u) /\ size(u) \in Nat
    BY <1>5, <2>3, <2>4
  <2> HIDE DEF size, u
  <2>8. QED
    BY <1>1, <2>6, <2>7
<1>10. sentMs \in Nat /\ dueMs <= sentMs
  <2>1. CASE limit = 0
    BY <1>2, <1>3, <2>1
  <2>2. CASE limit # 0
    <3>1. sentMs \in times
      BY <1>8, <2>2
    <3>2. QED
      BY <1>4, <3>1
  <2>3. QED
    BY <2>1, <2>2
<1>11. limit = 0 => sentMs = dueMs
  BY <1>3
<1> HIDE DEF sentMs, size
<1>12. QED
  BY <1>8, <1>9, <1>10, <1>11 DEF sentMs, size, dueMs

-----------------------------------------------------------------------------

(* One more request. *)

\* t is s after request r.
SendsOneMore(s, t, r) ==
    /\ t.config = s.config
    /\ Count(t) = Count(s) + 1 /\ t.requests[Count(s) + 1] = r
    /\ \A k \in 1..Count(s) : t.requests[k] = s.requests[k]
    /\ s.previousArrivalMs <= r.arrivalMs /\ t.previousArrivalMs = r.arrivalMs

\* Node n accepts nothing and forgets some work that is done.
Keeps(s, t, n) ==
    /\ t.nodes[n].workerAvailableMs = s.nodes[n].workerAvailableMs
    /\ \E atMs \in Nat :
           /\ InOrder(s) => atMs <= t.previousArrivalMs + s.config.nodes[n].networkLatencyMs
           /\ t.nodes[n].scheduled = Pruned(s.nodes[n].scheduled, atMs)

\* The node of r accepts it for worker w, which is free first; the others go on.
Accepts(s, t, r, w) ==
    LET n == r.nodeId
        k == Count(s) + 1
        node == s.config.nodes[n]
        scheduled == Pruned(s.nodes[n].scheduled, Reach(t, k))
        depth == Cardinality({x \in scheduled : x.serviceStartMs > Reach(t, k)})
    IN  /\ r \in Answers(s.config) /\ r.arrivalMs < r.completionMs
        /\ w \in Workers(s, n) /\ \A v \in Workers(s, n) : FreeAt(s, n, w) <= FreeAt(s, n, v)
        /\ Reach(t, k) \in Nat /\ (InOrder(s) => Reach(t, k) = r.arrivalMs + node.networkLatencyMs)
        /\ Begin(t, k) = IF Reach(t, k) <= FreeAt(s, n, w) THEN FreeAt(s, n, w) ELSE Reach(t, k)
        /\ admissionFailureReason(s.config, node, r.queueDelayMs, depth) = "none"
        /\ t.nodes[n].workerAvailableMs =
               [s.nodes[n].workerAvailableMs EXCEPT ![w] = EndsAt(t, k)]
        /\ t.nodes[n].scheduled = scheduled \cup {Slot(t, k)}
        /\ \A m \in DOMAIN s.config.nodes \ {n} : Keeps(s, t, m)

\* What was recorded stays recorded.
LEMMA EarlierRequests ==
    ASSUME NEW c \in SimulationSettings, NEW s \in SimulationStates(c), NEW t, NEW r,
           SendsOneMore(s, t, r)
    PROVE  /\ Count(s) \in Nat /\ s.config = c /\ t.config = c /\ Count(t) = Count(s) + 1
           /\ s.previousArrivalMs \in Nat
           /\ \A k \in 1..Count(s) :
                  /\ t.requests[k] = s.requests[k] /\ (Answered(t, k) <=> Answered(s, k))
                  /\ Begin(t, k) = Begin(s, k) /\ Reach(t, k) = Reach(s, k)
                  /\ EndsAt(t, k) = EndsAt(s, k) /\ Slot(t, k) = Slot(s, k)
                  /\ Answer(t, k) = Answer(s, k)
<1>1. Count(s) \in Nat /\ s.config = c /\ s.previousArrivalMs \in Nat
  BY DEF SimulationStates, Count
<1>2. t.config = s.config /\ Count(t) = Count(s) + 1
      /\ \A k \in 1..Count(s) : t.requests[k] = s.requests[k]
  BY Zenon DEF SendsOneMore
<1>3. ASSUME NEW k \in 1..Count(s)
      PROVE  /\ t.requests[k] = s.requests[k] /\ (Answered(t, k) <=> Answered(s, k))
             /\ Begin(t, k) = Begin(s, k) /\ Reach(t, k) = Reach(s, k)
             /\ EndsAt(t, k) = EndsAt(s, k) /\ Slot(t, k) = Slot(s, k)
             /\ Answer(t, k) = Answer(s, k)
  <2>1. t.requests[k] = s.requests[k]
    BY <1>2
  <2>2. Begin(t, k) = Begin(s, k) /\ (Answered(t, k) <=> Answered(s, k))
    BY <2>1, Zenon DEF Begin, Answered
  <2>3. Reach(t, k) = Reach(s, k) /\ EndsAt(t, k) = EndsAt(s, k)
    BY <1>2, <2>1, <2>2, Zenon DEF Reach, EndsAt
  <2>4. Slot(t, k) = Slot(s, k) /\ Answer(t, k) = Answer(s, k)
    BY <2>1, <2>2, <2>3, Zenon DEF Slot, Answer
  <2>5. QED
    BY <2>1, <2>2, <2>3, <2>4
<1>4. QED
  BY <1>1, <1>2, <1>3

\* A node has accepted what it had, and the new request if that was accepted there.
LEMMA AcceptedGrows ==
    ASSUME NEW c \in SimulationSettings, NEW s \in SimulationStates(c), NEW t, NEW r,
           SendsOneMore(s, t, r), NEW n
    PROVE  /\ AcceptedBy(s, n) \subseteq 1..Count(s) /\ AcceptedBy(s, n) \subseteq AcceptedBy(t, n)
           /\ r.failureReason = "none" /\ r.nodeId = n =>
                  AcceptedBy(t, n) = AcceptedBy(s, n) \cup {Count(s) + 1}
           /\ ~(r.failureReason = "none" /\ r.nodeId = n) => AcceptedBy(t, n) = AcceptedBy(s, n)
<1>1. Count(s) \in Nat /\ Count(t) = Count(s) + 1
      /\ \A k \in 1..Count(s) : t.requests[k] = s.requests[k]
  BY EarlierRequests
<1>2. t.requests[Count(s) + 1] = r
  BY Zenon DEF SendsOneMore
<1>3. QED
  BY <1>1, <1>2 DEF AcceptedBy, Answered

\* Without a new request a node's workers stay as they were.
LEMMA KeptWorkers ==
    ASSUME NEW c \in SimulationSettings, NEW s \in SimulationStates(c), NEW t, NEW r,
           SendsOneMore(s, t, r), NEW n, ~(r.failureReason = "none" /\ r.nodeId = n),
           t.nodes[n].workerAvailableMs = s.nodes[n].workerAvailableMs,
           NEW worker, WorkedBy(s, n, worker)
    PROVE  WorkedBy(t, n, worker)
<1>1. AcceptedBy(t, n) = AcceptedBy(s, n) /\ AcceptedBy(s, n) \subseteq 1..Count(s)
  BY AcceptedGrows
<1>2. \A k \in AcceptedBy(s, n) :
          /\ Begin(t, k) = Begin(s, k) /\ Reach(t, k) = Reach(s, k) /\ EndsAt(t, k) = EndsAt(s, k)
          /\ \A x : Serving(t, k, x) <=> Serving(s, k, x)
  BY <1>1, EarlierRequests DEF Serving
<1>3. (InOrder(t) <=> InOrder(s)) /\ Workers(t, n) = Workers(s, n)
      /\ \A w : FreeAt(t, n, w) = FreeAt(s, n, w)
  BY EarlierRequests DEF InOrder, Workers, FreeAt
<1>4. \A k \in AcceptedBy(t, n) : EndsAt(t, k) <= FreeAt(t, n, worker[k])
  BY <1>1, <1>2, <1>3 DEF WorkedBy
<1>5. \A i, j \in AcceptedBy(t, n) :
          i < j /\ worker[i] = worker[j] => EndsAt(t, i) <= Begin(t, j)
  BY <1>1, <1>2 DEF WorkedBy
<1>6. ASSUME InOrder(t)
      PROVE  /\ \A w \in Workers(t, n) :
                    \/ FreeAt(t, n, w) = 0
                    \/ \E k \in AcceptedBy(t, n) : worker[k] = w /\ EndsAt(t, k) = FreeAt(t, n, w)
             /\ \A j \in AcceptedBy(t, n) : \A x \in Reach(t, j)..(Begin(t, j) - 1) :
                    \A w \in Workers(t, n) : \E i \in AcceptedBy(t, n) :
                        i < j /\ worker[i] = w /\ Serving(t, i, x)
  <2>1. \A w \in Workers(s, n) :
            \/ FreeAt(s, n, w) = 0
            \/ \E k \in AcceptedBy(s, n) : worker[k] = w /\ EndsAt(s, k) = FreeAt(s, n, w)
    BY <1>3, <1>6 DEF WorkedBy
  <2>2. \A j \in AcceptedBy(s, n) : \A x \in Reach(s, j)..(Begin(s, j) - 1) :
            \A w \in Workers(s, n) : \E i \in AcceptedBy(s, n) :
                i < j /\ worker[i] = w /\ Serving(s, i, x)
    BY <1>3, <1>6 DEF WorkedBy
  <2>3. QED
    BY <1>1, <1>2, <1>3, <2>1, <2>2
<1>7. QED
  BY <1>4, <1>5, <1>6 DEF WorkedBy

\* When the workers of the accepting node are free.
LEMMA FreeAfter ==
    ASSUME NEW c \in SimulationSettings, NEW s \in SimulationStates(c), NEW t, NEW r, NEW w0,
           SendsOneMore(s, t, r), Accepts(s, t, r, w0), WorkersSound(s)
    PROVE  LET n == r.nodeId
               k == Count(s) + 1
           IN  /\ n \in DOMAIN c.nodes /\ r.failureReason = "none"
               /\ Begin(t, k) \in Nat /\ Reach(t, k) \in Nat /\ EndsAt(t, k) \in Nat
               /\ Begin(t, k) <= EndsAt(t, k) /\ Reach(t, k) <= Begin(t, k)
               /\ w0 \in Workers(s, n) /\ Workers(t, n) = Workers(s, n)
               /\ FreeAt(t, n, w0) = EndsAt(t, k) /\ FreeAt(s, n, w0) <= Begin(t, k)
               /\ \A w \in Workers(s, n) :
                      /\ FreeAt(s, n, w) \in Nat /\ FreeAt(t, n, w) \in Nat
                      /\ FreeAt(s, n, w0) <= FreeAt(s, n, w)
                      /\ w # w0 => FreeAt(t, n, w) = FreeAt(s, n, w)
               /\ \A w \in Workers(s, n) : FreeAt(s, n, w) <= FreeAt(t, n, w)
               /\ t.nodes[n].workerAvailableMs \in [Workers(t, n) -> Nat]
<1> DEFINE n == r.nodeId
           k == Count(s) + 1
           e == c.nodes[n].serviceTimeMs
<1>1. s.config = c /\ t.config = c /\ t.requests[k] = r
  <2>1. t.requests[k] = r
    BY Zenon DEF SendsOneMore
  <2>2. QED
    BY <2>1, EarlierRequests
<1>2. r \in Answers(c) /\ w0 \in Workers(s, n) /\ Reach(t, k) \in Nat
      /\ \A v \in Workers(s, n) : FreeAt(s, n, w0) <= FreeAt(s, n, v)
      /\ Begin(t, k) = (IF Reach(t, k) <= FreeAt(s, n, w0) THEN FreeAt(s, n, w0) ELSE Reach(t, k))
      /\ t.nodes[n].workerAvailableMs =
             [s.nodes[n].workerAvailableMs EXCEPT ![w0] = EndsAt(t, k)]
  BY <1>1, Zenon DEF Accepts
<1>3. n \in DOMAIN c.nodes /\ r.failureReason = "none" /\ r.serviceStartMs \in Nat
  BY <1>2 DEF Answers
<1>4. e \in Nat
  BY <1>3, SimulationConfig
<1>5. Begin(t, k) \in Nat /\ EndsAt(t, k) = Begin(t, k) + e
  BY <1>1, <1>3 DEF Begin, EndsAt
<1>6. s.nodes[n].workerAvailableMs \in [Workers(s, n) -> Nat] /\ Workers(t, n) = Workers(s, n)
  BY <1>1, <1>3 DEF WorkersSound, Workers
<1>7. \A w \in Workers(s, n) : FreeAt(s, n, w) \in Nat
  BY <1>6 DEF FreeAt
<1> HIDE DEF e, n, k
<1>8. EndsAt(t, k) \in Nat /\ Begin(t, k) <= EndsAt(t, k)
  BY <1>4, <1>5
<1>9. FreeAt(s, n, w0) <= Begin(t, k) /\ Reach(t, k) <= Begin(t, k)
  <2>1. FreeAt(s, n, w0) \in Nat
    BY <1>2, <1>7
  <2>2. QED
    BY <1>2, <2>1
<1>10. \A w \in Workers(s, n) : FreeAt(t, n, w) = IF w = w0 THEN EndsAt(t, k) ELSE FreeAt(s, n, w)
  BY <1>2, <1>6 DEF FreeAt
<1>11. t.nodes[n].workerAvailableMs \in [Workers(t, n) -> Nat]
  BY <1>2, <1>6, <1>8
<1>12. FreeAt(t, n, w0) = EndsAt(t, k)
  BY <1>2, <1>10
<1>13. \A w \in Workers(s, n) :
           /\ FreeAt(t, n, w) \in Nat /\ (w # w0 => FreeAt(t, n, w) = FreeAt(s, n, w))
           /\ FreeAt(s, n, w) <= FreeAt(t, n, w)
  <2> SUFFICES ASSUME NEW w \in Workers(s, n)
               PROVE  /\ FreeAt(t, n, w) \in Nat /\ (w # w0 => FreeAt(t, n, w) = FreeAt(s, n, w))
                      /\ FreeAt(s, n, w) <= FreeAt(t, n, w)
    OBVIOUS
  <2>1. CASE w = w0
    BY <1>5, <1>7, <1>8, <1>9, <1>12, <2>1
  <2>2. CASE w # w0
    BY <1>7, <1>10, <2>2
  <2>3. QED
    BY <2>1, <2>2
<1>14. QED
  BY <1>2, <1>3, <1>5, <1>6, <1>7, <1>8, <1>9, <1>11, <1>12, <1>13 DEF n, k

\* What requests of a node were and are, before and after an accepted one.
LEMMA AcceptedFacts ==
    ASSUME NEW c \in SimulationSettings, NEW s \in SimulationStates(c), NEW t, NEW r,
           SendsOneMore(s, t, r), NEW n
    PROVE  \A k \in AcceptedBy(s, n) :
               /\ k \in 1..Count(s) /\ k < Count(s) + 1
               /\ Begin(t, k) = Begin(s, k) /\ Reach(t, k) = Reach(s, k)
               /\ EndsAt(t, k) = EndsAt(s, k) /\ Slot(t, k) = Slot(s, k)
               /\ t.requests[k] = s.requests[k]
               /\ Begin(s, k) \in Nat /\ Reach(s, k) \in Int /\ EndsAt(s, k) \in Nat
               /\ Begin(s, k) < EndsAt(s, k) /\ Reach(s, k) <= Begin(s, k)
               /\ \A x : Serving(t, k, x) <=> Serving(s, k, x)
<1> SUFFICES ASSUME NEW k \in AcceptedBy(s, n)
             PROVE  /\ k \in 1..Count(s) /\ k < Count(s) + 1
                    /\ Begin(t, k) = Begin(s, k) /\ Reach(t, k) = Reach(s, k)
                    /\ EndsAt(t, k) = EndsAt(s, k) /\ Slot(t, k) = Slot(s, k)
                    /\ t.requests[k] = s.requests[k]
                    /\ Begin(s, k) \in Nat /\ Reach(s, k) \in Int /\ EndsAt(s, k) \in Nat
                    /\ Begin(s, k) < EndsAt(s, k) /\ Reach(s, k) <= Begin(s, k)
                    /\ \A x : Serving(t, k, x) <=> Serving(s, k, x)
  OBVIOUS
<1>1. /\ k \in 1..Count(s) /\ Begin(s, k) \in Nat /\ Reach(s, k) \in Int /\ EndsAt(s, k) \in Nat
      /\ Begin(s, k) < EndsAt(s, k) /\ Reach(s, k) <= Begin(s, k)
  BY AcceptedParts
<1>2. /\ Begin(t, k) = Begin(s, k) /\ Reach(t, k) = Reach(s, k)
      /\ EndsAt(t, k) = EndsAt(s, k) /\ Slot(t, k) = Slot(s, k) /\ t.requests[k] = s.requests[k]
      /\ Count(s) \in Nat
  BY <1>1, EarlierRequests
<1>3. \A x : Serving(t, k, x) <=> Serving(s, k, x)
  BY <1>2, Zenon DEF Serving
<1>4. k < Count(s) + 1
  BY <1>1, <1>2
<1>5. QED
  BY <1>1, <1>2, <1>3, <1>4

\* Without jitter, nothing reached the node later than the new request does.
LEMMA ReachedEarlier ==
    ASSUME NEW c \in SimulationSettings, NEW s \in SimulationStates(c), NEW t, NEW r, NEW w0,
           SendsOneMore(s, t, r), Accepts(s, t, r, w0), SendingSound(s), TurnSound(s), InOrder(s)
    PROVE  \A k \in AcceptedBy(s, r.nodeId) : Reach(s, k) <= Reach(t, Count(s) + 1)
<1> DEFINE n == r.nodeId
           latencyMs == c.nodes[n].networkLatencyMs
<1> SUFFICES ASSUME NEW k \in AcceptedBy(s, n) PROVE Reach(s, k) <= Reach(t, Count(s) + 1)
  OBVIOUS
<1>1. s.config = c /\ s.previousArrivalMs \in Nat
  BY EarlierRequests
<1>2. k \in 1..Count(s) /\ n \in DOMAIN c.nodes /\ s.requests[k].arrivalMs \in Nat
  BY AcceptedParts
<1>3. latencyMs \in Nat
  BY <1>2, SimulationConfig
<1>4. Reach(s, k) = s.requests[k].arrivalMs + latencyMs
  BY <1>1, <1>2 DEF TurnSound
<1>5. Reach(t, Count(s) + 1) = r.arrivalMs + latencyMs /\ r \in Answers(c)
  BY <1>1, Zenon DEF Accepts
<1>6. r.arrivalMs \in Nat
  BY <1>5 DEF Answers
<1>7. s.requests[k].arrivalMs <= s.previousArrivalMs
  BY <1>2 DEF SendingSound
<1>8. s.previousArrivalMs <= r.arrivalMs
  BY Zenon DEF SendsOneMore
<1> HIDE DEF latencyMs
<1>9. QED
  BY ONLY <1>1, <1>2, <1>3, <1>4, <1>5, <1>6, <1>7, <1>8

\* The accepting node serves the new request on the worker that is free first.
LEMMA AcceptedWorkers ==
    ASSUME NEW c \in SimulationSettings, NEW s \in SimulationStates(c), NEW t, NEW r, NEW w0,
           SendsOneMore(s, t, r), Accepts(s, t, r, w0),
           SendingSound(s), WorkersSound(s), TurnSound(s)
    PROVE  \E worker \in [AcceptedBy(t, r.nodeId) -> Workers(t, r.nodeId)] :
               WorkedBy(t, r.nodeId, worker)
<1> DEFINE n == r.nodeId
           new == Count(s) + 1
           A == AcceptedBy(s, n)
           W == Workers(s, n)
<1>1. /\ n \in DOMAIN c.nodes /\ r.failureReason = "none"
      /\ Begin(t, new) \in Nat /\ Reach(t, new) \in Nat /\ EndsAt(t, new) \in Nat
      /\ Begin(t, new) <= EndsAt(t, new) /\ Reach(t, new) <= Begin(t, new)
      /\ w0 \in W /\ Workers(t, n) = W
      /\ FreeAt(t, n, w0) = EndsAt(t, new) /\ FreeAt(s, n, w0) <= Begin(t, new)
  BY FreeAfter
<1>2. \A w \in W :
          /\ FreeAt(s, n, w) \in Nat /\ FreeAt(t, n, w) \in Nat
          /\ FreeAt(s, n, w0) <= FreeAt(s, n, w) /\ FreeAt(s, n, w) <= FreeAt(t, n, w)
          /\ w # w0 => FreeAt(t, n, w) = FreeAt(s, n, w)
  BY FreeAfter
<1>3. AcceptedBy(t, n) = A \cup {new} /\ new \notin A /\ new \in Nat
  BY <1>1, AcceptedGrows, EarlierRequests
<1>4. \A k \in A :
          /\ k \in Nat /\ k < new /\ Begin(t, k) = Begin(s, k) /\ Reach(t, k) = Reach(s, k)
          /\ EndsAt(t, k) = EndsAt(s, k)
          /\ Begin(s, k) \in Nat /\ Reach(s, k) \in Int /\ EndsAt(s, k) \in Nat
          /\ \A x : Serving(t, k, x) <=> Serving(s, k, x)
  BY AcceptedFacts
<1>5. (InOrder(t) <=> InOrder(s)) /\ s.config = c
  BY EarlierRequests DEF InOrder
<1>6. PICK before \in [A -> W] : WorkedBy(s, n, before)
  BY <1>1, <1>5 DEF WorkersSound
<1> DEFINE after == [k \in A \cup {new} |-> IF k = new THEN w0 ELSE before[k]]
<1>7. after \in [A \cup {new} -> W] /\ after[new] = w0 /\ \A k \in A : after[k] = before[k] /\ before[k] \in W
  BY <1>1, <1>3
<1> HIDE DEF after, new, A, W
<1>8. \A k \in A \cup {new} : EndsAt(t, k) <= FreeAt(t, n, after[k])
  <2>1. ASSUME NEW k \in A PROVE EndsAt(t, k) <= FreeAt(t, n, after[k])
    <3>1. EndsAt(s, k) <= FreeAt(s, n, before[k])
      BY <1>6 DEF WorkedBy, A
    <3>2. FreeAt(s, n, before[k]) <= FreeAt(t, n, before[k]) /\ FreeAt(s, n, before[k]) \in Nat
          /\ FreeAt(t, n, before[k]) \in Nat
      BY <1>2, <1>7
    <3>3. QED
      BY <1>4, <1>7, <3>1, <3>2
  <2>2. EndsAt(t, new) <= FreeAt(t, n, after[new])
    BY <1>1, <1>7
  <2>3. QED
    BY <2>1, <2>2
<1>9. \A i, j \in A \cup {new} : i < j /\ after[i] = after[j] => EndsAt(t, i) <= Begin(t, j)
  <2> SUFFICES ASSUME NEW i \in A \cup {new}, NEW j \in A \cup {new}, i < j, after[i] = after[j]
               PROVE  EndsAt(t, i) <= Begin(t, j)
    OBVIOUS
  <2>1. i \in A
    BY <1>3, <1>4
  <2>2. CASE j \in A
    <3>1. EndsAt(s, i) <= Begin(s, j)
      BY <1>6, <1>7, <2>1, <2>2 DEF WorkedBy, A
    <3>2. QED
      BY <1>4, <2>1, <2>2, <3>1
  <2>3. CASE j = new
    <3>1. before[i] = w0
      BY <1>7, <2>1, <2>3
    <3>2. EndsAt(s, i) <= FreeAt(s, n, w0)
      BY <1>6, <2>1, <3>1 DEF WorkedBy, A
    <3>3. EndsAt(t, i) = EndsAt(s, i) /\ EndsAt(s, i) \in Nat /\ FreeAt(s, n, w0) \in Nat
      BY <1>1, <1>2, <1>4, <2>1
    <3>4. QED
      BY <1>1, <2>3, <3>2, <3>3
  <2>4. QED
    BY <2>2, <2>3
<1>10. ASSUME InOrder(s), NEW w \in W
       PROVE  \/ FreeAt(t, n, w) = 0
              \/ \E k \in A \cup {new} : after[k] = w /\ EndsAt(t, k) = FreeAt(t, n, w)
  <2>1. CASE w = w0
    BY <1>1, <1>7, <2>1
  <2>2. CASE w # w0
    <3>1. \/ FreeAt(s, n, w) = 0
          \/ \E k \in A : before[k] = w /\ EndsAt(s, k) = FreeAt(s, n, w)
      BY <1>6, <1>10 DEF WorkedBy, A, W
    <3>2. FreeAt(t, n, w) = FreeAt(s, n, w)
      BY <1>2, <2>2
    <3>3. CASE FreeAt(s, n, w) = 0
      BY <3>2, <3>3
    <3>4. CASE \E k \in A : before[k] = w /\ EndsAt(s, k) = FreeAt(s, n, w)
      <4>1. PICK k \in A : before[k] = w /\ EndsAt(s, k) = FreeAt(s, n, w)
        BY <3>4
      <4>2. k \in A \cup {new} /\ after[k] = w /\ EndsAt(t, k) = FreeAt(t, n, w)
        BY <1>4, <1>7, <3>2, <4>1
      <4>3. QED
        BY <4>2
    <3>5. QED
      BY <3>1, <3>3, <3>4
  <2>3. QED
    BY <2>1, <2>2
<1>11. ASSUME InOrder(s), NEW x \in Reach(t, new)..(Begin(t, new) - 1), NEW w \in W
       PROVE  \E i \in A : before[i] = w /\ Serving(s, i, x)
  <2>1. x \in Nat /\ Reach(t, new) <= x /\ x < Begin(t, new)
    BY <1>1
  <2>2. x < FreeAt(s, n, w)
    <3>1. Begin(t, new) = IF Reach(t, new) <= FreeAt(s, n, w0) THEN FreeAt(s, n, w0)
                          ELSE Reach(t, new)
      BY Zenon DEF Accepts, new
    <3>2. FreeAt(s, n, w0) \in Nat /\ FreeAt(s, n, w) \in Nat /\ FreeAt(s, n, w0) <= FreeAt(s, n, w)
      BY <1>1, <1>2
    <3>3. QED
      BY ONLY <1>1, <2>1, <3>1, <3>2
  <2>3. FreeAt(s, n, w) # 0
    BY <1>2, <2>1, <2>2
  <2>4. PICK k \in A : before[k] = w /\ EndsAt(s, k) = FreeAt(s, n, w)
    BY <1>6, <1>11, <2>3 DEF WorkedBy, A, W
  <2>5. Begin(s, k) \in Nat /\ Reach(s, k) \in Int /\ k \in Nat
    BY <1>4
  <2>6. CASE Begin(s, k) <= x
    BY <2>2, <2>4, <2>6 DEF Serving
  <2>7. CASE x < Begin(s, k)
    <3>1. Reach(s, k) <= Reach(t, new)
      BY <1>11, ReachedEarlier DEF A, new
    <3>2. x \in Reach(s, k)..(Begin(s, k) - 1)
      BY <1>1, <2>1, <2>5, <2>7, <3>1
    <3>3. PICK i \in A : i < k /\ before[i] = w /\ Serving(s, i, x)
      BY <1>6, <1>11, <3>2 DEF WorkedBy, A, W
    <3>4. QED
      BY <3>3
  <2>8. QED
    BY <2>1, <2>5, <2>6, <2>7
<1>12. ASSUME InOrder(s), NEW j \in A \cup {new}, NEW x \in Reach(t, j)..(Begin(t, j) - 1), NEW w \in W
       PROVE  \E i \in A \cup {new} : i < j /\ after[i] = w /\ Serving(t, i, x)
  <2>1. CASE j = new
    <3>1. PICK i \in A : before[i] = w /\ Serving(s, i, x)
      BY <1>11, <1>12, <2>1
    <3>2. i < j /\ after[i] = w /\ Serving(t, i, x)
      BY <1>4, <1>7, <2>1, <3>1
    <3>3. QED
      BY <3>2
  <2>2. CASE j \in A
    <3>1. x \in Reach(s, j)..(Begin(s, j) - 1)
      BY <1>4, <2>2
    <3>2. PICK i \in A : i < j /\ before[i] = w /\ Serving(s, i, x)
      BY <1>6, <1>12, <2>2, <3>1 DEF WorkedBy, A, W
    <3>3. after[i] = w /\ Serving(t, i, x)
      BY <1>4, <1>7, <3>2
    <3>4. QED
      BY <3>2, <3>3
  <2>3. QED
    BY <2>1, <2>2
<1>13. WorkedBy(t, n, after)
  BY <1>1, <1>3, <1>5, <1>8, <1>9, <1>10, <1>12 DEF WorkedBy
<1>14. QED
  BY <1>1, <1>3, <1>7, <1>13 DEF A, new, W

\* The request fails, or a node accepts it.
Decided(s, t, r) ==
    \/ r.failureReason # "none" /\ \A n \in DOMAIN s.config.nodes : Keeps(s, t, n)
    \/ \E w : Accepts(s, t, r, w)

\* A node accepts the request, or keeps what it has.
LEMMA NodeByNode ==
    ASSUME NEW c \in SimulationSettings, NEW s \in SimulationStates(c), NEW t, NEW r,
           SendsOneMore(s, t, r), Decided(s, t, r), NEW n \in DOMAIN c.nodes
    PROVE  \/ ~(r.failureReason = "none" /\ r.nodeId = n) /\ Keeps(s, t, n)
           \/ r.failureReason = "none" /\ r.nodeId = n /\ \E w : Accepts(s, t, r, w)
<1>1. s.config = c
  BY EarlierRequests
<1>2. CASE r.failureReason # "none" /\ \A m \in DOMAIN s.config.nodes : Keeps(s, t, m)
  BY <1>1, <1>2, Zenon
<1>3. ASSUME NEW w, Accepts(s, t, r, w)
      PROVE  \/ ~(r.failureReason = "none" /\ r.nodeId = n) /\ Keeps(s, t, n)
             \/ r.failureReason = "none" /\ r.nodeId = n /\ \E v : Accepts(s, t, r, v)
  <2>1. r \in Answers(c) /\ \A m \in DOMAIN c.nodes \ {r.nodeId} : Keeps(s, t, m)
    BY <1>1, <1>3, Zenon DEF Accepts
  <2>2. r.failureReason = "none"
    BY <2>1 DEF Answers
  <2>3. QED
    BY <1>3, <2>1, <2>2, Zenon
<1>4. QED
  BY <1>2, <1>3, Zenon DEF Decided

\* Every node's workers are accounted for.
LEMMA WorkersStep ==
    ASSUME NEW c \in SimulationSettings, NEW s \in SimulationStates(c), NEW t, NEW r,
           SendsOneMore(s, t, r), Decided(s, t, r),
           SendingSound(s), WorkersSound(s), TurnSound(s)
    PROVE  WorkersSound(t)
<1>1. s.config = c /\ t.config = c
  BY EarlierRequests
<1>2. SUFFICES ASSUME NEW n \in DOMAIN c.nodes
               PROVE  /\ t.nodes[n].workerAvailableMs \in [Workers(t, n) -> Nat]
                      /\ \E worker \in [AcceptedBy(t, n) -> Workers(t, n)] : WorkedBy(t, n, worker)
  BY <1>1 DEF WorkersSound
<1>3. CASE ~(r.failureReason = "none" /\ r.nodeId = n) /\ Keeps(s, t, n)
  <2>1. t.nodes[n].workerAvailableMs = s.nodes[n].workerAvailableMs
    BY <1>3, Zenon DEF Keeps
  <2>2. Workers(t, n) = Workers(s, n) /\ AcceptedBy(t, n) = AcceptedBy(s, n)
    BY <1>1, <1>3, AcceptedGrows DEF Workers
  <2>3. s.nodes[n].workerAvailableMs \in [Workers(s, n) -> Nat]
    BY <1>1 DEF WorkersSound
  <2>4. PICK worker \in [AcceptedBy(s, n) -> Workers(s, n)] : WorkedBy(s, n, worker)
    BY <1>1 DEF WorkersSound
  <2>5. WorkedBy(t, n, worker)
    BY <1>3, <2>1, <2>4, KeptWorkers
  <2>6. QED
    BY <2>1, <2>2, <2>3, <2>5
<1>4. CASE r.failureReason = "none" /\ r.nodeId = n /\ \E w : Accepts(s, t, r, w)
  <2>1. PICK w : Accepts(s, t, r, w)
    BY <1>4
  <2>2. t.nodes[r.nodeId].workerAvailableMs \in [Workers(t, r.nodeId) -> Nat]
    BY <2>1, FreeAfter
  <2>3. \E worker \in [AcceptedBy(t, r.nodeId) -> Workers(t, r.nodeId)] :
            WorkedBy(t, r.nodeId, worker)
    BY <2>1, AcceptedWorkers
  <2>4. QED
    BY <1>4, <2>2, <2>3
<1>5. QED
  BY <1>3, <1>4, NodeByNode

\* What a node forgets is done when the next request can reach it.
LEMMA ForgetsDone ==
    ASSUME NEW c \in SimulationSettings, NEW s \in SimulationStates(c), NEW t, NEW r,
           SendsOneMore(s, t, r), r.arrivalMs \in Nat, ScheduleSound(s), NEW n \in DOMAIN c.nodes,
           NEW atMs \in Nat, InOrder(s) => atMs <= r.arrivalMs + c.nodes[n].networkLatencyMs
    PROVE  LET left == Pruned(s.nodes[n].scheduled, atMs)
           IN  /\ left \subseteq {Slot(t, k) : k \in AcceptedBy(s, n)}
               /\ InOrder(s) => \A k \in AcceptedBy(s, n) :
                      \/ Slot(t, k) \in left
                      \/ EndsAt(t, k) <= r.arrivalMs + c.nodes[n].networkLatencyMs
<1> DEFINE A == AcceptedBy(s, n)
           latencyMs == c.nodes[n].networkLatencyMs
           held == s.nodes[n].scheduled
<1>1. s.config = c /\ s.previousArrivalMs \in Nat /\ latencyMs \in Nat
  BY EarlierRequests, SimulationConfig
<1>2. \A k \in A : Slot(t, k) = Slot(s, k) /\ EndsAt(t, k) = EndsAt(s, k) /\ EndsAt(s, k) \in Nat
  BY AcceptedFacts
<1>3. held \subseteq {Slot(s, k) : k \in A}
  BY <1>1 DEF ScheduleSound
<1>4. s.previousArrivalMs <= r.arrivalMs
  BY Zenon DEF SendsOneMore
<1> HIDE DEF A, held, latencyMs
<1>5. Pruned(held, atMs) \subseteq {Slot(t, k) : k \in A}
  <2>1. {Slot(t, k) : k \in A} = {Slot(s, k) : k \in A}
    BY <1>2
  <2>2. Pruned(held, atMs) \subseteq held
    BY DEF Pruned
  <2>3. QED
    BY <1>3, <2>1, <2>2
<1>6. ASSUME InOrder(s), NEW k \in A
      PROVE  Slot(t, k) \in Pruned(held, atMs) \/ EndsAt(t, k) <= r.arrivalMs + latencyMs
  <2>1. Slot(s, k) \in held \/ EndsAt(s, k) <= s.previousArrivalMs + latencyMs
    BY <1>1, <1>6 DEF ScheduleSound, A, held, latencyMs
  <2>2. Slot(s, k).serviceEndMs = EndsAt(s, k)
    BY DEF Slot
  <2>3. CASE EndsAt(s, k) <= s.previousArrivalMs + latencyMs
    BY <1>1, <1>2, <1>4, <2>3
  <2>4. CASE Slot(s, k) \in held /\ EndsAt(s, k) > atMs
    BY <1>2, <2>2, <2>4 DEF Pruned
  <2>5. CASE EndsAt(s, k) <= atMs
    <3>1. atMs <= r.arrivalMs + latencyMs
      BY <1>6 DEF latencyMs
    <3>2. QED
      BY <1>1, <1>2, <2>5, <3>1
  <2>6. EndsAt(s, k) \in Nat
    BY <1>2
  <2>7. QED
    BY <2>1, <2>3, <2>4, <2>5, <2>6
<1>7. QED
  BY <1>5, <1>6 DEF A, held, latencyMs

\* The schedules still hold what is to be served.
LEMMA ScheduleStep ==
    ASSUME NEW c \in SimulationSettings, NEW s \in SimulationStates(c), NEW t, NEW r,
           SendsOneMore(s, t, r), r.arrivalMs \in Nat, Decided(s, t, r), ScheduleSound(s)
    PROVE  ScheduleSound(t)
<1> DEFINE latency(n) == c.nodes[n].networkLatencyMs
           new == Count(s) + 1
<1>1. s.config = c /\ t.config = c /\ t.previousArrivalMs = r.arrivalMs
      /\ (InOrder(t) <=> InOrder(s))
  <2>1. t.previousArrivalMs = r.arrivalMs
    BY Zenon DEF SendsOneMore
  <2>2. QED
    BY <2>1, EarlierRequests DEF InOrder
<1>2. SUFFICES ASSUME NEW n \in DOMAIN c.nodes
               PROVE  /\ t.nodes[n].scheduled \subseteq {Slot(t, k) : k \in AcceptedBy(t, n)}
                      /\ InOrder(s) => \A k \in AcceptedBy(t, n) :
                             \/ Slot(t, k) \in t.nodes[n].scheduled
                             \/ EndsAt(t, k) <= r.arrivalMs + latency(n)
  BY <1>1 DEF ScheduleSound
<1>3. CASE ~(r.failureReason = "none" /\ r.nodeId = n) /\ Keeps(s, t, n)
  <2>1. PICK atMs \in Nat : /\ InOrder(s) => atMs <= r.arrivalMs + latency(n)
                            /\ t.nodes[n].scheduled = Pruned(s.nodes[n].scheduled, atMs)
    BY <1>1, <1>3 DEF Keeps
  <2>2. AcceptedBy(t, n) = AcceptedBy(s, n)
    BY <1>3, AcceptedGrows
  <2>3. QED
    BY <2>1, <2>2, ForgetsDone
<1>4. CASE r.failureReason = "none" /\ r.nodeId = n /\ \E w : Accepts(s, t, r, w)
  <2>1. PICK w : Accepts(s, t, r, w)
    BY <1>4
  <2> DEFINE left == Pruned(s.nodes[n].scheduled, Reach(t, new))
  <2>2. /\ Reach(t, new) \in Nat /\ (InOrder(s) => Reach(t, new) = r.arrivalMs + latency(n))
        /\ t.nodes[n].scheduled = left \cup {Slot(t, new)}
    BY <1>1, <1>4, <2>1, Zenon DEF Accepts
  <2>3. latency(n) \in Nat
    BY SimulationConfig
  <2>4. InOrder(s) => Reach(t, new) <= r.arrivalMs + latency(n)
    BY <2>2, <2>3
  <2>5. /\ left \subseteq {Slot(t, k) : k \in AcceptedBy(s, n)}
        /\ InOrder(s) => \A k \in AcceptedBy(s, n) :
               Slot(t, k) \in left \/ EndsAt(t, k) <= r.arrivalMs + latency(n)
    BY <2>2, <2>4, ForgetsDone
  <2>6. AcceptedBy(t, n) = AcceptedBy(s, n) \cup {new}
    BY <1>4, AcceptedGrows
  <2> HIDE DEF left, new, latency
  <2>7. t.nodes[n].scheduled \subseteq {Slot(t, k) : k \in AcceptedBy(t, n)}
    BY <2>2, <2>5, <2>6
  <2>8. QED
    BY <2>2, <2>5, <2>6, <2>7 DEF latency
<1>5. QED
  BY <1>3, <1>4, NodeByNode

\* The new request starts no earlier than those before it.
LEMMA TurnStep ==
    ASSUME NEW c \in SimulationSettings, NEW s \in SimulationStates(c), NEW t, NEW r,
           SendsOneMore(s, t, r), Decided(s, t, r),
           SendingSound(s), WorkersSound(s), TurnSound(s)
    PROVE  TurnSound(t)
<1> DEFINE latency(n) == c.nodes[n].networkLatencyMs
           new == Count(s) + 1
<1>1. s.config = c /\ t.config = c /\ (InOrder(t) <=> InOrder(s)) /\ t.requests[new] = r /\ new \in Nat
  <2>1. t.requests[new] = r
    BY Zenon DEF SendsOneMore
  <2>2. QED
    BY <2>1, EarlierRequests DEF InOrder
<1>2. SUFFICES ASSUME InOrder(s), NEW n \in DOMAIN c.nodes, NEW k \in AcceptedBy(t, n)
               PROVE  /\ Reach(t, k) = t.requests[k].arrivalMs + latency(n)
                      /\ \/ Begin(t, k) = Reach(t, k)
                         \/ \A w \in Workers(t, n) : Begin(t, k) <= FreeAt(t, n, w)
                      /\ \A j \in AcceptedBy(t, n) : k < j => Begin(t, k) <= Begin(t, j)
  BY <1>1 DEF TurnSound
<1> DEFINE A == AcceptedBy(s, n)
<1>3. \A i \in A :
          /\ i \in Nat /\ i < new /\ t.requests[i] = s.requests[i]
          /\ Begin(t, i) = Begin(s, i) /\ Reach(t, i) = Reach(s, i)
          /\ Begin(s, i) \in Nat /\ Reach(s, i) \in Int
  BY AcceptedFacts
<1>4. \A i \in A :
          /\ Reach(s, i) = s.requests[i].arrivalMs + latency(n)
          /\ Begin(s, i) = Reach(s, i) \/ \A w \in Workers(s, n) : Begin(s, i) <= FreeAt(s, n, w)
          /\ \A j \in A : i < j => Begin(s, i) <= Begin(s, j)
  BY <1>1, <1>2 DEF TurnSound
<1> HIDE DEF A, latency
<1>5. CASE ~(r.failureReason = "none" /\ r.nodeId = n) /\ Keeps(s, t, n)
  <2>1. AcceptedBy(t, n) = A
    BY <1>5, AcceptedGrows DEF A
  <2>2. t.nodes[n].workerAvailableMs = s.nodes[n].workerAvailableMs
    BY <1>5, Zenon DEF Keeps
  <2>3. Workers(t, n) = Workers(s, n) /\ \A w : FreeAt(t, n, w) = FreeAt(s, n, w)
    BY <1>1, <2>2 DEF Workers, FreeAt
  <2>4. QED
    BY <1>3, <1>4, <2>1, <2>3
<1>6. CASE r.failureReason = "none" /\ r.nodeId = n /\ \E w : Accepts(s, t, r, w)
  <2>1. PICK w0 : Accepts(s, t, r, w0)
    BY <1>6
  <2>2. AcceptedBy(t, n) = A \cup {new}
    BY <1>6, AcceptedGrows DEF A
  <2>3. /\ Begin(t, new) \in Nat /\ Reach(t, new) \in Nat /\ Reach(t, new) <= Begin(t, new)
        /\ w0 \in Workers(s, n) /\ Workers(t, n) = Workers(s, n) /\ FreeAt(s, n, w0) <= Begin(t, new)
        /\ \A w \in Workers(s, n) :
               /\ FreeAt(s, n, w) \in Nat /\ FreeAt(t, n, w) \in Nat
               /\ FreeAt(s, n, w0) <= FreeAt(s, n, w) /\ FreeAt(s, n, w) <= FreeAt(t, n, w)
    BY <1>6, <2>1, FreeAfter
  <2>4. /\ Reach(t, new) = r.arrivalMs + latency(n)
        /\ Begin(t, new) = IF Reach(t, new) <= FreeAt(s, n, w0) THEN FreeAt(s, n, w0)
                           ELSE Reach(t, new)
    BY <1>1, <1>2, <1>6, <2>1, Zenon DEF Accepts, latency
  <2>5. \A i \in A : Reach(s, i) <= Reach(t, new)
    BY <1>2, <1>6, <2>1, ReachedEarlier DEF A
  <2>6. ASSUME NEW i \in A PROVE Begin(s, i) <= Begin(t, new)
    <3>1. CASE Begin(s, i) = Reach(s, i)
      BY <1>3, <2>3, <2>5, <3>1
    <3>2. CASE \A w \in Workers(s, n) : Begin(s, i) <= FreeAt(s, n, w)
      <4>1. Begin(s, i) <= FreeAt(s, n, w0) /\ FreeAt(s, n, w0) \in Nat
        BY <2>3, <3>2
      <4>2. QED
        BY <1>3, <2>3, <4>1
    <3>3. QED
      BY <1>4, <3>1, <3>2
  <2> HIDE DEF new
  <2>7. CASE k \in A
    <3>1. Reach(t, k) = t.requests[k].arrivalMs + latency(n)
      BY <1>3, <1>4, <2>7
    <3>2. \/ Begin(t, k) = Reach(t, k)
          \/ \A w \in Workers(t, n) : Begin(t, k) <= FreeAt(t, n, w)
      <4>1. CASE Begin(s, k) = Reach(s, k)
        BY <1>3, <2>7, <4>1
      <4>2. CASE \A w \in Workers(s, n) : Begin(s, k) <= FreeAt(s, n, w)
        BY <1>3, <2>3, <2>7, <4>2
      <4>3. QED
        BY <1>4, <2>7, <4>1, <4>2
    <3>3. \A j \in A \cup {new} : k < j => Begin(t, k) <= Begin(t, j)
      BY <1>3, <1>4, <2>6, <2>7
    <3>4. QED
      BY <2>2, <3>1, <3>2, <3>3
  <2>8. CASE k = new
    <3>1. Reach(t, k) = t.requests[k].arrivalMs + latency(n)
      BY <1>1, <2>4, <2>8
    <3>2. \/ Begin(t, k) = Reach(t, k)
          \/ \A w \in Workers(t, n) : Begin(t, k) <= FreeAt(t, n, w)
      BY <2>3, <2>4, <2>8
    <3>3. \A j \in A \cup {new} : ~(k < j)
      BY <1>1, <1>3, <2>8
    <3>4. QED
      BY <2>2, <3>1, <3>2, <3>3
  <2>9. QED
    BY <2>2, <2>7, <2>8
<1>7. QED
  BY <1>5, <1>6, NodeByNode

\* The depth a node measures for a new request is the number of those that wait when it comes.
LEMMA DepthIsQueued ==
    ASSUME NEW c \in SimulationSettings, NEW s \in SimulationStates(c), NEW t, NEW r, NEW w0,
           SendsOneMore(s, t, r), Accepts(s, t, r, w0), SendingSound(s), ScheduleSound(s),
           TurnSound(s), InOrder(s)
    PROVE  LET n == r.nodeId
               reachMs == Reach(t, Count(s) + 1)
               scheduled == Pruned(s.nodes[n].scheduled, reachMs)
               K == Queued(s, n, reachMs)
           IN  /\ IsFiniteSet(K) /\ Cardinality(K) \in Nat
               /\ Cardinality({x \in scheduled : x.serviceStartMs > reachMs}) = Cardinality(K)
<1> DEFINE n == r.nodeId
           reachMs == Reach(t, Count(s) + 1)
           held == s.nodes[n].scheduled
           A == AcceptedBy(s, n)
           K == Queued(s, n, reachMs)
           latencyMs == c.nodes[n].networkLatencyMs
<1>1. s.config = c /\ Count(s) \in Nat /\ s.previousArrivalMs \in Nat
  BY EarlierRequests
<1>2. r \in Answers(c) /\ reachMs \in Nat /\ reachMs = r.arrivalMs + latencyMs
  BY <1>1, Zenon DEF Accepts
<1>3. n \in DOMAIN c.nodes /\ r.arrivalMs \in Nat
  BY <1>2 DEF Answers
<1>4. latencyMs \in Nat
  BY <1>3, SimulationConfig
<1>5. \A k \in A :
          /\ k \in 1..Count(s) /\ Begin(s, k) \in Nat /\ EndsAt(s, k) \in Nat /\ Reach(s, k) \in Int
          /\ Begin(s, k) < EndsAt(s, k) /\ Reach(s, k) <= reachMs
  BY AcceptedFacts, ReachedEarlier
<1>6. \A k \in A : Slot(s, k) \in held \/ EndsAt(s, k) <= s.previousArrivalMs + latencyMs
  BY <1>1, <1>3 DEF ScheduleSound
<1>7. held \subseteq {Slot(s, k) : k \in A}
  BY <1>1, <1>3 DEF ScheduleSound
<1>8. s.previousArrivalMs <= r.arrivalMs
  BY Zenon DEF SendsOneMore
<1>9. \A k : Slot(s, k).serviceStartMs = Begin(s, k) /\ Slot(s, k).serviceEndMs = EndsAt(s, k)
  BY DEF Slot
<1>10. K = {k \in A : Reach(s, k) <= reachMs /\ reachMs < Begin(s, k)}
  BY DEF Queued
<1> HIDE DEF held, A, K, reachMs, latencyMs
<1>11. {x \in Pruned(held, reachMs) : x.serviceStartMs > reachMs} = SlotsOf(s, K)
  <2>1. ASSUME NEW x \in held, x.serviceEndMs > reachMs, x.serviceStartMs > reachMs
        PROVE  x \in SlotsOf(s, K)
    <3>1. PICK k \in A : x = Slot(s, k)
      BY <1>7
    <3>2. k \in K
      BY <1>2, <1>5, <1>9, <1>10, <2>1, <3>1
    <3>3. QED
      BY <3>1, <3>2 DEF SlotsOf
  <2>2. ASSUME NEW k \in K
        PROVE  /\ Slot(s, k) \in held /\ Slot(s, k).serviceEndMs > reachMs
               /\ Slot(s, k).serviceStartMs > reachMs
    <3>1. k \in A /\ reachMs < Begin(s, k)
      BY <1>10
    <3>2. Begin(s, k) \in Nat /\ EndsAt(s, k) \in Nat /\ Begin(s, k) < EndsAt(s, k)
      BY <1>5, <3>1
    <3>3. ~(EndsAt(s, k) <= s.previousArrivalMs + latencyMs)
      BY <1>1, <1>2, <1>3, <1>4, <1>8, <3>1, <3>2
    <3>4. EndsAt(s, k) > reachMs /\ Begin(s, k) > reachMs
      BY <1>2, <3>1, <3>2
    <3>5. QED
      BY <1>6, <1>9, <3>1, <3>3, <3>4
  <2>3. {x \in Pruned(held, reachMs) : x.serviceStartMs > reachMs}
            = {x \in held : x.serviceEndMs > reachMs /\ x.serviceStartMs > reachMs}
    BY DEF Pruned
  <2>4. QED
    BY <2>1, <2>2, <2>3 DEF SlotsOf
<1>12. K \in SUBSET (1..Count(s))
  BY <1>5, <1>10
<1>13. IsFiniteSet(K) /\ Cardinality(K) \in Nat /\ Cardinality(SlotsOf(s, K)) = Cardinality(K)
  BY <1>1, <1>12, RequestsCounted
<1>14. QED
  BY <1>11, <1>13 DEF held, reachMs, K

\* The queue keeps within its bounds.
LEMMA QueueStep ==
    ASSUME NEW c \in SimulationSettings, NEW s \in SimulationStates(c), NEW t, NEW r,
           SendsOneMore(s, t, r), Decided(s, t, r), SendingSound(s), WorkersSound(s),
           ScheduleSound(s), TurnSound(s), TurnSound(t), QueueSound(s)
    PROVE  QueueSound(t)
<1> DEFINE capacity(n) == c.nodes[n].queueCapacity
           new == Count(s) + 1
           bound(u, n, k) ==
               /\ Cardinality(Queued(u, n, Reach(u, k))) <= capacity(n)
               /\ c.overloadPolicy = "reject" => u.requests[k].queueDelayMs = 0
               /\ c.overloadPolicy = "shed-load" => u.requests[k].queueDelayMs <= c.maxQueueWaitMs
<1>1. s.config = c /\ t.config = c /\ (InOrder(t) <=> InOrder(s)) /\ t.requests[new] = r /\ new \in Nat
  <2>1. t.requests[new] = r
    BY Zenon DEF SendsOneMore
  <2>2. QED
    BY <2>1, EarlierRequests DEF InOrder
<1>2. SUFFICES ASSUME InOrder(s), NEW n \in DOMAIN c.nodes, NEW k \in AcceptedBy(t, n)
               PROVE  bound(t, n, k)
  BY <1>1 DEF QueueSound
<1> DEFINE A == AcceptedBy(s, n)
<1>3. \A i \in A :
          /\ i \in Nat /\ i < new /\ t.requests[i] = s.requests[i]
          /\ Begin(t, i) = Begin(s, i) /\ Reach(t, i) = Reach(s, i)
          /\ Begin(s, i) \in Nat /\ Reach(s, i) \in Int
  BY AcceptedFacts
<1>4. \A i \in A : bound(s, n, i)
  BY <1>1, <1>2 DEF QueueSound
<1>5. CASE ~(r.failureReason = "none" /\ r.nodeId = n) /\ Keeps(s, t, n)
  <2>1. AcceptedBy(t, n) = A
    BY <1>5, AcceptedGrows
  <2>2. \A x : Queued(t, n, x) = Queued(s, n, x)
    BY <1>3, <2>1 DEF Queued
  <2> HIDE DEF A
  <2>3. bound(s, n, k) /\ Reach(t, k) = Reach(s, k) /\ t.requests[k] = s.requests[k]
    BY <1>3, <1>4, <2>1
  <2>4. QED
    BY <2>2, <2>3
<1>6. CASE r.failureReason = "none" /\ r.nodeId = n /\ \E w : Accepts(s, t, r, w)
  <2>1. PICK w0 : Accepts(s, t, r, w0)
    BY <1>6
  <2> DEFINE reachMs == Reach(t, new)
             K == Queued(s, n, reachMs)
             scheduled == Pruned(s.nodes[n].scheduled, reachMs)
             depth == Cardinality({x \in scheduled : x.serviceStartMs > reachMs})
             delayMs == r.queueDelayMs
  <2>2. AcceptedBy(t, n) = A \cup {new} /\ new \notin A
    BY <1>3, <1>6, AcceptedGrows
  <2>3. Begin(t, new) \in Nat /\ reachMs \in Nat /\ reachMs <= Begin(t, new)
    BY <1>6, <2>1, FreeAfter
  <2>4. r \in Answers(c) /\ admissionFailureReason(c, c.nodes[n], delayMs, depth) = "none"
    BY <1>1, <1>6, <2>1, Zenon DEF Accepts
  <2>5. delayMs \in Nat /\ reachMs = Begin(t, new) - delayMs
    BY <1>1, <2>4 DEF Answers, Reach
  <2>6. IsFiniteSet(K) /\ Cardinality(K) \in Nat /\ depth = Cardinality(K)
    BY <1>2, <1>6, <2>1, DepthIsQueued
  <2>7. c.overloadPolicy \in {"queue", "reject", "shed-load"} /\ c.maxQueueWaitMs \in Nat
        /\ capacity(n) \in Nat
    BY SimulationConfig
  <2>8. \A i \in A : Reach(s, i) <= reachMs
    BY <1>2, <1>6, <2>1, ReachedEarlier
  <2>9. \A i \in A : Begin(s, i) <= Begin(t, new)
    BY <1>1, <1>2, <1>3, <2>2 DEF TurnSound
  <2>10. delayMs = 0 \/ (c.overloadPolicy # "reject" /\ depth < capacity(n)
                          /\ (c.overloadPolicy = "shed-load" => delayMs <= c.maxQueueWaitMs))
    <3> HIDE DEF delayMs, depth, capacity, A, K, scheduled
    <3>1. depth \in Nat
      BY <2>6
    <3> HIDE DEF bound, new, reachMs
    <3>2. QED
      BY <2>4, <2>5, <2>7, <3>1 DEF admissionFailureReason, capacity
  <2> HIDE DEF depth, scheduled
  <2>11. Cardinality(Queued(t, n, reachMs)) <= capacity(n)
    <3>1. CASE delayMs = 0
      <4>1. reachMs = Begin(t, new)
        BY <2>3, <2>5, <3>1
      <4>2. Queued(t, n, reachMs) = {}
        BY <1>3, <2>2, <2>3, <2>9, <4>1 DEF Queued
      <4>3. Cardinality({}) = 0
        BY FS_EmptySet
      <4>4. QED
        BY <2>7, <4>2, <4>3
    <3>2. CASE delayMs # 0
      <4>1. reachMs < Begin(t, new)
        BY <2>3, <2>5, <3>2
      <4>2. Queued(t, n, reachMs) = K \cup {new} /\ new \notin K
        BY <1>3, <2>2, <2>3, <4>1 DEF Queued
      <4> HIDE DEF K
      <4>3. Cardinality(K \cup {new}) = Cardinality(K) + 1
        BY <2>6, <4>2, FS_AddElement
      <4>4. Cardinality(K) < capacity(n)
        BY <2>6, <2>10, <3>2
      <4> HIDE DEF capacity
      <4>5. QED
        BY <2>6, <2>7, <4>2, <4>3, <4>4
    <3>3. QED
      BY <3>1, <3>2
  <2>12. ASSUME NEW i \in A PROVE Cardinality(Queued(t, n, Reach(t, i))) <= capacity(n)
    <3>1. CASE Reach(s, i) = reachMs
      BY <1>3, <2>11, <3>1
    <3>2. CASE Reach(s, i) # reachMs
      <4>1. Reach(s, i) < reachMs /\ Reach(t, i) = Reach(s, i)
        BY <1>3, <2>3, <2>8, <3>2
      <4>2. Queued(t, n, Reach(t, i)) = Queued(s, n, Reach(s, i))
        BY <1>3, <2>2, <2>3, <4>1 DEF Queued
      <4>3. QED
        BY <1>4, <4>2
    <3>3. QED
      BY <3>1, <3>2
  <2>13. \A i \in A : t.requests[i].queueDelayMs = s.requests[i].queueDelayMs
    BY <1>3
  <2>14. t.requests[new].queueDelayMs = delayMs
    BY <1>1
  <2> HIDE DEF capacity, A, new, delayMs
  <2>15. CASE k \in A
    BY <1>4, <2>12, <2>13, <2>15
  <2>16. CASE k = new
    BY <2>5, <2>7, <2>10, <2>11, <2>14, <2>16
  <2>17. QED
    BY <2>2, <2>15, <2>16
<1>7. QED
  BY <1>5, <1>6, NodeByNode

\* The producer sends r when it may, and counts it among the outstanding when it is accepted.
Sends(s, t, r) ==
    /\ r.scheduledArrivalMs \in Nat /\ r.arrivalMs = applyBackpressure(s, r.scheduledArrivalMs)
    /\ t.completions = Outstanding(s.completions, r.arrivalMs) \cup
           (IF r.failureReason = "none" THEN {Answer(t, Count(s) + 1)} ELSE {})

\* The producer's count is the number of requests that are not answered.
LEMMA OutstandingIsPending ==
    ASSUME NEW c \in SimulationSettings, NEW s \in SimulationStates(c), ProducerSound(s)
    PROVE  /\ IsFiniteSet(s.completions)
           /\ \A x \in Nat : s.previousArrivalMs <= x =>
                  LET K == Pending(s, Count(s) + 1, x)
                  IN  /\ Outstanding(s.completions, x) = AnswersOf(s, K)
                      /\ Cardinality(Outstanding(s.completions, x)) = Cardinality(K)
                      /\ Cardinality(K) \in Nat
<1> DEFINE K(x) == Pending(s, Count(s) + 1, x)
<1>1. s.config = c /\ Count(s) \in Nat /\ s.previousArrivalMs \in Nat
  BY DEF SimulationStates, Count
<1>2. \A k \in 1..Count(s) : Answered(s, k) => s.requests[k].completionMs \in Nat
  BY RequestParts
<1>3. \A x : K(x) = {k \in 1..Count(s) : Answered(s, k) /\ s.requests[k].completionMs > x}
  BY <1>1 DEF Pending
<1>4. s.completions = AnswersOf(s, K(s.previousArrivalMs))
  BY DEF ProducerSound
<1>5. \A k : Answer(s, k).atMs = s.requests[k].completionMs
  BY DEF Answer
<1> HIDE DEF K
<1>6. \A x : IsFiniteSet(AnswersOf(s, K(x))) /\ Cardinality(AnswersOf(s, K(x))) = Cardinality(K(x))
             /\ Cardinality(K(x)) \in Nat
  <2>1. \A x : K(x) \in SUBSET (1..Count(s))
    BY <1>3
  <2>2. QED
    BY <1>1, <2>1, RequestsCounted
<1>7. IsFiniteSet(s.completions)
  BY <1>4, <1>6
<1>8. ASSUME NEW x \in Nat, s.previousArrivalMs <= x
      PROVE  Outstanding(s.completions, x) = AnswersOf(s, K(x))
  <2>1. ASSUME NEW y \in s.completions, y.atMs > x PROVE y \in AnswersOf(s, K(x))
    <3>1. PICK k \in K(s.previousArrivalMs) : y = Answer(s, k)
      BY <1>4 DEF AnswersOf
    <3>2. k \in K(x)
      BY <1>3, <1>5, <2>1, <3>1
    <3>3. QED
      BY <3>1, <3>2 DEF AnswersOf
  <2>2. ASSUME NEW k \in K(x) PROVE Answer(s, k) \in s.completions /\ Answer(s, k).atMs > x
    <3>1. k \in K(s.previousArrivalMs)
      BY <1>1, <1>2, <1>3, <1>8
    <3>2. QED
      BY <1>3, <1>4, <1>5, <3>1 DEF AnswersOf
  <2>3. QED
    BY <2>1, <2>2 DEF Outstanding, AnswersOf
<1>9. QED
  BY <1>6, <1>7, <1>8 DEF K

\* The producer keeps its limit.
LEMMA ProducerStep ==
    ASSUME NEW c \in SimulationSettings, NEW s \in SimulationStates(c), NEW t, NEW r,
           SendsOneMore(s, t, r), Decided(s, t, r), Sends(s, t, r), r.arrivalMs \in Nat,
           SendingSound(s), ProducerSound(s)
    PROVE  ProducerSound(t)
<1> DEFINE new == Count(s) + 1
           sentMs == r.arrivalMs
           limit == c.backpressureLimit
           dueMs == IF r.scheduledArrivalMs <= s.previousArrivalMs THEN s.previousArrivalMs
                    ELSE r.scheduledArrivalMs
<1>1. s.config = c /\ t.config = c /\ t.requests[new] = r /\ new \in Nat /\ Count(s) \in Nat
      /\ Count(t) = new /\ s.previousArrivalMs \in Nat
  <2>1. t.requests[new] = r
    BY Zenon DEF SendsOneMore
  <2>2. QED
    BY <2>1, EarlierRequests
<1>2. \A k \in 1..Count(s) : t.requests[k] = s.requests[k] /\ (Answered(t, k) <=> Answered(s, k))
                             /\ Answer(t, k) = Answer(s, k)
  BY EarlierRequests
<1>3. s.previousArrivalMs <= sentMs /\ t.previousArrivalMs = sentMs
  BY Zenon DEF SendsOneMore
<1>4. r.scheduledArrivalMs \in Nat /\ sentMs = applyBackpressure(s, r.scheduledArrivalMs)
      /\ t.completions = Outstanding(s.completions, sentMs) \cup
             (IF r.failureReason = "none" THEN {Answer(t, new)} ELSE {})
  BY Zenon DEF Sends
<1>5. /\ IsFiniteSet(s.completions)
      /\ \A x \in Nat : s.previousArrivalMs <= x =>
             /\ Outstanding(s.completions, x) = AnswersOf(s, Pending(s, new, x))
             /\ Cardinality(Outstanding(s.completions, x)) = Cardinality(Pending(s, new, x))
  BY OutstandingIsPending
<1>6. \A i \in 1..new : \A x : Pending(t, i, x) = Pending(s, i, x)
  BY <1>1, <1>2 DEF Pending
<1>7. r.failureReason = "none" => sentMs < r.completionMs
  BY <1>1, Zenon DEF Decided, Accepts
<1>8. t.completions = AnswersOf(t, Pending(t, new + 1, sentMs))
  <2> DEFINE K == Pending(s, new, sentMs)
  <2>1. Outstanding(s.completions, sentMs) = AnswersOf(s, K)
    BY <1>3, <1>5
  <2>2. K \in SUBSET (1..Count(s))
    BY <1>1 DEF Pending
  <2>3. AnswersOf(t, K) = AnswersOf(s, K)
    BY <1>2, <2>2 DEF AnswersOf
  <2>4. Pending(t, new + 1, sentMs) = K \cup (IF r.failureReason = "none" THEN {new} ELSE {})
    <3>1. Pending(t, new + 1, sentMs)
              = {k \in 1..new : Answered(t, k) /\ t.requests[k].completionMs > sentMs}
      BY <1>1 DEF Pending
    <3>2. K = {k \in 1..Count(s) : Answered(s, k) /\ s.requests[k].completionMs > sentMs}
      BY <1>1 DEF Pending
    <3>3. Answered(t, new) <=> r.failureReason = "none"
      BY <1>1 DEF Answered
    <3>4. r.failureReason = "none" => r.completionMs > sentMs
      BY <1>7
    <3>5. 1..new = (1..Count(s)) \cup {new}
      BY <1>1
    <3> HIDE DEF K, new
    <3>6. QED
      BY <1>1, <1>2, <3>1, <3>2, <3>3, <3>4, <3>5
  <2> HIDE DEF K, new
  <2>5. CASE r.failureReason = "none"
    BY <1>4, <2>1, <2>3, <2>4, <2>5 DEF AnswersOf
  <2>6. CASE r.failureReason # "none"
    BY <1>4, <2>1, <2>3, <2>4, <2>6 DEF AnswersOf
  <2>7. QED
    BY <2>5, <2>6
<1>9. ASSUME NEW i \in 1..Count(s) PROVE HeldBack(t, i)
  <2>1. HeldBack(s, i) /\ i \in 1..new /\ i \in Nat
    BY <1>1 DEF ProducerSound
  <2>2. i # 1 => i - 1 \in 1..Count(s)
    BY <1>1
  <2>3. t.requests[i] = s.requests[i] /\ (i # 1 => t.requests[i - 1] = s.requests[i - 1])
    BY <1>2, <2>2
  <2>4. DueAt(t, i) = DueAt(s, i)
    BY <2>3 DEF DueAt
  <2>5. \A x : Pending(t, i, x) = Pending(s, i, x)
    BY <1>6, <2>1
  <2>6. QED
    BY <1>1, <2>1, <2>3, <2>4, <2>5 DEF HeldBack
<1>10. HeldBack(t, new)
  <2>1. DueAt(t, new) = dueMs
    <3> DEFINE previousMs == IF new = 1 THEN 0 ELSE t.requests[new - 1].arrivalMs
    <3>1. previousMs = s.previousArrivalMs
      <4>1. CASE Count(s) = 0
        BY <4>1 DEF SendingSound
      <4>2. CASE Count(s) > 0
        <5>1. new # 1 /\ new - 1 = Count(s) /\ Count(s) \in 1..Count(s)
          BY <1>1, <4>2
        <5>2. t.requests[new - 1].arrivalMs = s.previousArrivalMs
          BY <1>2, <4>2, <5>1 DEF SendingSound
        <5>3. QED
          BY <5>1, <5>2
      <4>3. QED
        BY <1>1, <4>1, <4>2
    <3>2. DueAt(t, new) = IF r.scheduledArrivalMs <= previousMs THEN previousMs
                          ELSE r.scheduledArrivalMs
      BY <1>1 DEF DueAt
    <3> HIDE DEF previousMs, new
    <3>3. QED
      BY <3>1, <3>2
  <2>2. /\ dueMs <= sentMs
        /\ limit = 0 => sentMs = dueMs
        /\ limit # 0 =>
               /\ Cardinality(Outstanding(s.completions, sentMs)) < limit
               /\ \A x \in dueMs..(sentMs - 1) :
                      Cardinality(Outstanding(s.completions, x)) >= limit
    BY <1>1, <1>4, <1>5, BackpressureIs
  <2>3. dueMs \in Nat /\ s.previousArrivalMs <= dueMs
    BY <1>1, <1>4
  <2>4. new \in 1..new
    BY <1>1
  <2> HIDE DEF dueMs, new, limit
  <2>5. \A x \in dueMs..sentMs :
            Cardinality(Outstanding(s.completions, x)) = Cardinality(Pending(t, new, x))
    <3>1. \A x \in dueMs..sentMs : x \in Nat /\ s.previousArrivalMs <= x
      BY <1>1, <2>3
    <3>2. QED
      BY <1>5, <1>6, <2>4, <3>1
  <2>6. sentMs \in dueMs..sentMs /\ \A x \in dueMs..(sentMs - 1) : x \in dueMs..sentMs
    BY <2>2, <2>3
  <2>7. t.requests[new].arrivalMs = sentMs /\ t.config.backpressureLimit = limit
    BY <1>1 DEF limit
  <2> HIDE DEF sentMs
  <2>8. limit # 0 => /\ Cardinality(Pending(t, new, sentMs)) < limit
                     /\ \A x \in dueMs..(sentMs - 1) : Cardinality(Pending(t, new, x)) >= limit
    BY <2>2, <2>5, <2>6
  <2>9. QED
    BY <2>1, <2>2, <2>7, <2>8 DEF HeldBack
<1>11. \A i \in 1..Count(t) : i \in 1..Count(s) \/ i = new
  BY <1>1
<1> HIDE DEF new
<1>12. QED
  BY <1>1, <1>3, <1>8, <1>9, <1>10, <1>11 DEF ProducerSound

\* The new request was sent last.
LEMMA SendingStep ==
    ASSUME NEW c \in SimulationSettings, NEW s \in SimulationStates(c), NEW t, NEW r,
           SendsOneMore(s, t, r), r.arrivalMs \in Nat, SendingSound(s)
    PROVE  SendingSound(t)
<1> DEFINE new == Count(s) + 1
<1>1. Count(s) \in Nat /\ Count(t) = new /\ s.previousArrivalMs \in Nat
      /\ \A k \in 1..Count(s) : t.requests[k] = s.requests[k] /\ s.requests[k].arrivalMs \in Nat
  BY EarlierRequests, RequestParts
<1>2. t.requests[new] = r /\ s.previousArrivalMs <= r.arrivalMs /\ t.previousArrivalMs = r.arrivalMs
  BY Zenon DEF SendsOneMore
<1>3. \A k \in 1..new : t.requests[k].arrivalMs <= r.arrivalMs
  <2>1. \A k \in 1..Count(s) : s.requests[k].arrivalMs <= s.previousArrivalMs
    BY DEF SendingSound
  <2>2. ASSUME NEW k \in 1..Count(s) PROVE t.requests[k].arrivalMs <= r.arrivalMs
    BY <1>1, <1>2, <2>1
  <2>3. \A k \in 1..new : k \in 1..Count(s) \/ k = new
    BY <1>1
  <2>4. QED
    BY <1>2, <2>2, <2>3
<1>4. QED
  BY <1>1, <1>2, <1>3 DEF SendingSound

-----------------------------------------------------------------------------

(* The next request. *)

\* The way to a node takes what its configuration says, but for jitter.
LEMMA JitteredLatencyIs ==
    ASSUME NEW c \in SimulationSettings, NEW n \in DOMAIN c.nodes, NEW jitter \in c.jitters
    PROVE  /\ jitteredLatency(c.nodes[n], jitter) \in Nat
           /\ c.jitters = {0} => jitteredLatency(c.nodes[n], jitter) = c.nodes[n].networkLatencyMs
<1> DEFINE latencyMs == c.nodes[n].networkLatencyMs
           x == latencyMs + jitter
<1>1. latencyMs \in Nat /\ jitter \in Int
  BY SimulationConfig
<1>2. jitteredLatency(c.nodes[n], jitter) = Max({0, x})
  BY DEF jitteredLatency
<1> HIDE DEF latencyMs
<1>3. x \in Int /\ (jitter = 0 => x = latencyMs)
  BY <1>1
<1> HIDE DEF x
<1>4. \E m \in {0, x} : \A y \in {0, x} : m >= y
  <2>1. CASE x <= 0
    BY <1>3, <2>1
  <2>2. CASE x > 0
    BY <1>3, <2>2
  <2>3. QED
    BY <1>3, <2>1, <2>2
<1>5. Max({0, x}) \in {0, x} /\ \A y \in {0, x} : Max({0, x}) >= y
  BY <1>4, Zenon DEF Max
<1>6. Max({0, x}) \in Nat /\ (jitter = 0 => Max({0, x}) = latencyMs)
  BY <1>1, <1>3, <1>5
<1>7. QED
  BY <1>2, <1>6 DEF latencyMs

\* A pool has a worker that becomes free first.
LEMMA FirstFree ==
    ASSUME NEW size \in Nat \ {0}, NEW available \in [1..size -> Nat]
    PROVE  /\ earliestWorkerIndex(available) \in 1..size
           /\ \A v \in 1..size : available[earliestWorkerIndex(available)] <= available[v]
<1> DEFINE W == 1..size
           Precedes(w) == \A v \in W : available[w] < available[v] \/ (available[w] = available[v] /\ w <= v)
<1>1. DOMAIN available = W /\ W \in SUBSET Nat /\ 1 \in W /\ \A w \in W : available[w] \in Nat
  OBVIOUS
<1> HIDE DEF W
<1>2. PICK m \in {available[w] : w \in W} : \A x \in {available[w] : w \in W} : m <= x
  <2>1. {available[w] : w \in W} \in SUBSET Nat /\ {available[w] : w \in W} # {}
    BY <1>1
  <2>2. QED
    BY <2>1, SomeLeast
<1>3. PICK k \in {w \in W : available[w] = m} : \A x \in {w \in W : available[w] = m} : k <= x
  <2>1. {w \in W : available[w] = m} \in SUBSET Nat /\ {w \in W : available[w] = m} # {}
    BY <1>1, <1>2
  <2>2. QED
    BY <2>1, SomeLeast
<1>4. k \in W /\ Precedes(k)
  <2>1. \A v \in W : m <= available[v] /\ available[v] \in Nat /\ v \in Nat
    BY <1>1, <1>2
  <2>2. k \in W /\ available[k] = m /\ \A v \in W : available[v] = m => k <= v
    BY <1>3
  <2>3. QED
    BY <2>1, <2>2
<1>5. earliestWorkerIndex(available) = CHOOSE x \in W : Precedes(x)
  BY <1>1 DEF earliestWorkerIndex
<1> HIDE DEF Precedes
<1>6. earliestWorkerIndex(available) \in W /\ Precedes(earliestWorkerIndex(available))
  BY <1>4, <1>5, Zenon
<1>7. \A v \in W : available[earliestWorkerIndex(available)] <= available[v]
  BY <1>1, <1>6 DEF Precedes
<1>8. QED
  BY <1>6, <1>7 DEF W

\* Requests follow one another at intervals.
LEMMA IntervalIs ==
    ASSUME NEW c \in SimulationSettings, NEW k \in Nat
    PROVE  requestIntervalMs(c, k) \in Nat
<1>1. \A a \in Nat, b \in Nat \ {0} : a \div b \in Nat
  BY SMT
<1>2. c.baseIntervalMs \in Nat /\ c.burst.multiplier \in Nat \ {0}
  BY SimulationConfig
<1>3. c.baseIntervalMs \div c.burst.multiplier \in Nat
  BY <1>1, <1>2
<1>4. QED
  BY <1>2, <1>3 DEF requestIntervalMs

\* Time advances to the next request.
LEMMA AdvancedIs ==
    ASSUME NEW c \in SimulationSettings, NEW s \in SimulationStates(c), IsFiniteSet(s.completions),
           NEW scheduledMs \in Nat
    PROVE  LET t == Advanced(s, scheduledMs)
               arrivalMs == applyBackpressure(s, scheduledMs)
           IN  /\ t \in SimulationStates(c) /\ t.config = c /\ DOMAIN t.nodes = DOMAIN c.nodes
               /\ arrivalMs \in Nat /\ s.previousArrivalMs <= arrivalMs
               /\ t.previousArrivalMs = arrivalMs /\ t.requests = s.requests
               /\ t.completions = Outstanding(s.completions, arrivalMs)
               /\ \A n \in DOMAIN c.nodes :
                      /\ t.nodes[n].workerAvailableMs = s.nodes[n].workerAvailableMs
                      /\ t.nodes[n].scheduled = Pruned(s.nodes[n].scheduled, arrivalMs)
<1> DEFINE arrivalMs == applyBackpressure(s, scheduledMs)
           t == Advanced(s, scheduledMs)
           nodes == [n \in DOMAIN c.nodes |->
                       [s.nodes[n] EXCEPT !.scheduled = Pruned(s.nodes[n].scheduled, arrivalMs)]]
           completions == Outstanding(s.completions, arrivalMs)
           NodeStates == [scheduled : SUBSET Slots, workerAvailableMs : WorkerPools]
<1>1. /\ s.config = c /\ s.previousArrivalMs \in Nat /\ s.cursor \in Int
      /\ s.requests \in Seq(Results(c)) /\ s.completions \in SUBSET [id : Nat, atMs : Nat]
      /\ s.nodes \in [DOMAIN c.nodes -> NodeStates]
  BY DEF SimulationStates
<1>2. arrivalMs \in Nat /\ s.previousArrivalMs <= arrivalMs
  <2> DEFINE dueMs == IF scheduledMs <= s.previousArrivalMs THEN s.previousArrivalMs ELSE scheduledMs
  <2>1. arrivalMs \in Nat /\ dueMs <= arrivalMs
    BY BackpressureIs
  <2> HIDE DEF arrivalMs
  <2>2. QED
    BY <1>1, <2>1
<1>3. t = [s EXCEPT !.scheduledArrivalMs = scheduledMs, !.previousArrivalMs = arrivalMs,
                    !.completions = completions, !.nodes = nodes]
  BY <1>1, Zenon DEF Advanced, SimulationStates
<1>4. completions \in SUBSET [id : Nat, atMs : Nat]
  BY <1>1 DEF Outstanding
<1>5. \A n \in DOMAIN c.nodes :
          /\ nodes[n] \in NodeStates
          /\ nodes[n].workerAvailableMs = s.nodes[n].workerAvailableMs
          /\ nodes[n].scheduled = Pruned(s.nodes[n].scheduled, arrivalMs)
  <2>1. ASSUME NEW n \in DOMAIN c.nodes
        PROVE  /\ nodes[n] \in NodeStates
               /\ nodes[n].workerAvailableMs = s.nodes[n].workerAvailableMs
               /\ nodes[n].scheduled = Pruned(s.nodes[n].scheduled, arrivalMs)
    <3>1. s.nodes[n] \in NodeStates
      BY <1>1
    <3>2. Pruned(s.nodes[n].scheduled, arrivalMs) \in SUBSET Slots
      BY <3>1 DEF Pruned
    <3> HIDE DEF arrivalMs
    <3>3. QED
      BY <3>1, <3>2
  <2>2. QED
    BY <2>1
<1>6. nodes \in [DOMAIN c.nodes -> NodeStates] /\ DOMAIN nodes = DOMAIN c.nodes
  BY <1>5
<1> HIDE DEF nodes, completions, arrivalMs, t, NodeStates
<1>7. /\ t \in SimulationStates(c) /\ t.config = c /\ t.previousArrivalMs = arrivalMs
      /\ t.requests = s.requests /\ t.completions = completions /\ t.nodes = nodes
  BY <1>1, <1>2, <1>3, <1>4, <1>6 DEF SimulationStates, NodeStates
<1>8. QED
  BY <1>2, <1>5, <1>6, <1>7 DEF completions, arrivalMs, t

\* A simulation with one more result.
LEMMA RecordsOne ==
    ASSUME NEW c \in SimulationSettings, NEW s \in SimulationStates(c), NEW u, NEW r,
           u.config = s.config, u.requests = Append(s.requests, r),
           s.previousArrivalMs <= r.arrivalMs, u.previousArrivalMs = r.arrivalMs
    PROVE  SendsOneMore(s, u, r)
<1>1. s.requests \in Seq(Results(c))
  BY DEF SimulationStates
<1> DEFINE q == s.requests
           p == Append(q, r)
<1>2. Len(p) = Len(q) + 1 /\ p[Len(q) + 1] = r /\ \A k \in 1..Len(q) : p[k] = q[k]
  BY <1>1
<1> HIDE DEF q, p
<1>3. QED
  BY <1>2, Zenon DEF SendsOneMore, Count, q, p

\* What is forgotten later is all that is forgotten.
LEMMA PrunedAgain ==
    ASSUME NEW S \in SUBSET Slots, NEW a \in Nat, NEW b \in Nat, a <= b
    PROVE  Pruned(Pruned(S, a), b) = Pruned(S, b)
<1>1. \A x \in S : x.serviceEndMs \in Nat
  BY DEF Slots
<1>2. QED
  BY <1>1 DEF Pruned

\* u is s after a request that node n, or none, failed: the nodes in forgetting have forgotten what
\* was done at atMs.
Refuses(s, u, scheduledMs, n, reason, forgetting, atMs) ==
    LET t == Advanced(s, scheduledMs)
    IN  /\ \A m \in forgetting :
               /\ t.previousArrivalMs <= atMs
               /\ InOrder(s) => atMs <= t.previousArrivalMs + t.config.nodes[m].networkLatencyMs
        /\ u.previousArrivalMs = t.previousArrivalMs
        /\ u.requests = Append(t.requests, Failed(scheduledMs, t.previousArrivalMs, n, reason))
        /\ u.completions = t.completions
        /\ \A m \in DOMAIN t.config.nodes :
               /\ u.nodes[m].workerAvailableMs = t.nodes[m].workerAvailableMs
               /\ u.nodes[m].scheduled = IF m \in forgetting THEN Pruned(t.nodes[m].scheduled, atMs)
                                         ELSE t.nodes[m].scheduled

\* The request was not accepted anywhere.
LEMMA NotAccepted ==
    ASSUME NEW c \in SimulationSettings, NEW s \in SimulationStates(c), IsFiniteSet(s.completions),
           NEW scheduledMs \in Nat, NEW n, NEW reason \in Reasons, NEW forgetting, NEW atMs \in Nat,
           NEW u \in SimulationStates(c), Refuses(s, u, scheduledMs, n, reason, forgetting, atMs)
    PROVE  \E r : /\ r.arrivalMs \in Nat /\ SendsOneMore(s, u, r) /\ Decided(s, u, r)
                  /\ Sends(s, u, r)
<1> DEFINE t == Advanced(s, scheduledMs)
           arrivalMs == applyBackpressure(s, scheduledMs)
           r == Failed(scheduledMs, arrivalMs, n, reason)
<1>1. /\ t.config = c /\ arrivalMs \in Nat /\ s.previousArrivalMs <= arrivalMs
      /\ t.previousArrivalMs = arrivalMs /\ t.requests = s.requests
      /\ t.completions = Outstanding(s.completions, arrivalMs)
      /\ \A m \in DOMAIN c.nodes :
             /\ t.nodes[m].workerAvailableMs = s.nodes[m].workerAvailableMs
             /\ t.nodes[m].scheduled = Pruned(s.nodes[m].scheduled, arrivalMs)
  BY AdvancedIs
<1>2. /\ r.arrivalMs = arrivalMs /\ r.scheduledArrivalMs = scheduledMs
      /\ r.failureReason = reason /\ r.failureReason # "none"
  BY DEF Failed, Reasons
<1>3. s.config = c /\ u.config = c
  BY DEF SimulationStates
<1>4. /\ \A m \in forgetting :
             /\ t.previousArrivalMs <= atMs
             /\ InOrder(s) => atMs <= t.previousArrivalMs + t.config.nodes[m].networkLatencyMs
      /\ u.previousArrivalMs = t.previousArrivalMs
      /\ u.requests = Append(t.requests, Failed(scheduledMs, t.previousArrivalMs, n, reason))
      /\ u.completions = t.completions
      /\ \A m \in DOMAIN t.config.nodes :
             /\ u.nodes[m].workerAvailableMs = t.nodes[m].workerAvailableMs
             /\ u.nodes[m].scheduled = IF m \in forgetting THEN Pruned(t.nodes[m].scheduled, atMs)
                                       ELSE t.nodes[m].scheduled
  BY Zenon DEF Refuses
<1> HIDE DEF t, arrivalMs, r
<1>5. /\ u.requests = Append(s.requests, r) /\ u.previousArrivalMs = arrivalMs
      /\ u.completions = Outstanding(s.completions, arrivalMs)
      /\ \A m \in DOMAIN c.nodes :
             /\ u.nodes[m].workerAvailableMs = s.nodes[m].workerAvailableMs
             /\ u.nodes[m].scheduled =
                    IF m \in forgetting THEN Pruned(Pruned(s.nodes[m].scheduled, arrivalMs), atMs)
                    ELSE Pruned(s.nodes[m].scheduled, arrivalMs)
  BY <1>1, <1>4 DEF r
<1>6. SendsOneMore(s, u, r)
  BY <1>1, <1>2, <1>3, <1>5, RecordsOne
<1>7. ASSUME NEW m \in DOMAIN c.nodes PROVE Keeps(s, u, m)
  <2>1. u.nodes[m].workerAvailableMs = s.nodes[m].workerAvailableMs
    BY <1>5
  <2>2. c.nodes[m].networkLatencyMs \in Nat
    BY SimulationConfig
  <2> DEFINE held == s.nodes[m].scheduled
             latencyMs == c.nodes[m].networkLatencyMs
  <2>3. held \in SUBSET Slots
    BY DEF SimulationStates
  <2>4. \E x \in Nat : /\ InOrder(s) => x <= arrivalMs + latencyMs
                       /\ u.nodes[m].scheduled = Pruned(held, x)
    <3>1. CASE m \in forgetting
      <4>1. arrivalMs <= atMs /\ (InOrder(s) => atMs <= arrivalMs + latencyMs)
        BY <1>1, <1>4, <3>1
      <4>2. u.nodes[m].scheduled = Pruned(Pruned(held, arrivalMs), atMs)
        BY <1>5, <3>1
      <4>3. Pruned(Pruned(held, arrivalMs), atMs) = Pruned(held, atMs)
        BY <1>1, <2>3, <4>1, PrunedAgain
      <4>4. QED
        BY <4>1, <4>2, <4>3
    <3>2. CASE m \notin forgetting
      <4>1. u.nodes[m].scheduled = Pruned(held, arrivalMs)
        BY <1>5, <3>2
      <4> HIDE DEF latencyMs, held
      <4>2. arrivalMs <= arrivalMs + latencyMs
        BY <1>1, <2>2 DEF latencyMs
      <4>3. QED
        BY <1>1, <4>1, <4>2
    <3>3. QED
      BY <3>1, <3>2
  <2>5. QED
    BY <1>3, <1>5, <2>1, <2>4 DEF Keeps
<1>8. Decided(s, u, r)
  BY <1>2, <1>3, <1>7 DEF Decided
<1>9. Sends(s, u, r)
  BY <1>2, <1>5 DEF Sends, arrivalMs
<1>10. QED
  BY <1>1, <1>2, <1>6, <1>8, <1>9

\* The chosen node refuses the request, or accepts it.
LEMMA ServedDecides ==
    ASSUME NEW c \in SimulationSettings, NEW s \in SimulationStates(c), IsFiniteSet(s.completions),
           WorkersSound(s), NEW scheduledMs \in Nat, NEW n \in DOMAIN c.nodes, NEW cursor \in Int,
           NEW outbound \in c.jitters, NEW inbound \in c.jitters,
           Served(Advanced(s, scheduledMs), scheduledMs, n, cursor, outbound, inbound)
    PROVE  /\ simulation' \in SimulationStates(c)
           /\ \E r : /\ r.arrivalMs \in Nat /\ SendsOneMore(s, simulation', r)
                     /\ Decided(s, simulation', r) /\ Sends(s, simulation', r)
<1> DEFINE t == Advanced(s, scheduledMs)
           u == simulation'
           new == Count(s) + 1
           arrivalMs == applyBackpressure(s, scheduledMs)
           node == c.nodes[n]
           outboundMs == jitteredLatency(node, outbound)
           inboundMs == jitteredLatency(node, inbound)
           reachMs == arrivalMs + outboundMs
           scheduled == Pruned(t.nodes[n].scheduled, reachMs)
           available == s.nodes[n].workerAvailableMs
           w == earliestWorkerIndex(available)
           startMs == Max({reachMs, available[w]})
           endMs == startMs + node.serviceTimeMs
           completionMs == endMs + inboundMs
           delayMs == startMs - reachMs
           depth == Cardinality({x \in scheduled : x.serviceStartMs > reachMs})
           reason == admissionFailureReason(c, node, delayMs, depth)
           slot == [id |-> Count(s), serviceStartMs |-> startMs, serviceEndMs |-> endMs]
           answer == [id |-> Count(s), atMs |-> completionMs]
           served == [scheduled |-> scheduled \cup {slot},
                      workerAvailableMs |-> [available EXCEPT ![w] = endMs]]
           result == [scheduledArrivalMs |-> scheduledMs, arrivalMs |-> arrivalMs, nodeId |-> n,
                      failureReason |-> "none", queueDelayMs |-> delayMs,
                      serviceStartMs |-> startMs, completionMs |-> completionMs]
           failed == Failed(scheduledMs, arrivalMs, n, reason)
           NodeStates == [scheduled : SUBSET Slots, workerAvailableMs : WorkerPools]
<1>1. /\ t \in SimulationStates(c) /\ t.config = c
      /\ arrivalMs \in Nat /\ s.previousArrivalMs <= arrivalMs
      /\ t.previousArrivalMs = arrivalMs /\ t.requests = s.requests
      /\ t.completions = Outstanding(s.completions, arrivalMs)
      /\ \A m \in DOMAIN c.nodes :
             /\ t.nodes[m].workerAvailableMs = s.nodes[m].workerAvailableMs
             /\ t.nodes[m].scheduled = Pruned(s.nodes[m].scheduled, arrivalMs)
  BY AdvancedIs
<1>2. IF reason # "none"
      THEN u = [t EXCEPT !.cursor = cursor, !.nodes[n].scheduled = scheduled,
                         !.requests = Append(t.requests, failed)]
      ELSE u = [t EXCEPT !.cursor = cursor, !.nodes[n] = served,
                         !.completions = t.completions \cup {answer},
                         !.requests = Append(t.requests, result)]
  BY <1>1, Zenon DEF Served, Count
<1>3. /\ outboundMs \in Nat /\ inboundMs \in Nat
      /\ c.jitters = {0} => outboundMs = node.networkLatencyMs
      /\ node.serviceTimeMs \in Nat \ {0} /\ node.workers \in Nat \ {0}
      /\ node.networkLatencyMs \in Nat
  BY JitteredLatencyIs, SimulationConfig
<1>4. s.config = c /\ Count(s) \in Nat /\ s.requests \in Seq(Results(c))
  BY DEF SimulationStates, Count
<1>5. available \in [1..node.workers -> Nat] /\ Workers(s, n) = 1..node.workers
  BY <1>4 DEF WorkersSound, Workers
<1>6. w \in 1..node.workers /\ \A v \in 1..node.workers : available[w] <= available[v]
  BY <1>3, <1>5, FirstFree
<1> HIDE DEF t, u, arrivalMs, outboundMs, inboundMs, available, w, node
<1>7. reachMs \in Nat /\ arrivalMs <= reachMs /\ available[w] \in Nat
  BY <1>1, <1>3, <1>5, <1>6
<1> HIDE DEF reachMs
<1>8. startMs = (IF reachMs <= available[w] THEN available[w] ELSE reachMs)
  BY <1>7, LaterOfTwo
<1>9. startMs \in Nat /\ reachMs <= startMs
  BY <1>7, <1>8
<1> HIDE DEF startMs
<1>10. /\ endMs \in Nat /\ completionMs \in Nat /\ delayMs \in Nat /\ arrivalMs < completionMs
       /\ startMs - delayMs = reachMs
  BY <1>1, <1>3, <1>7, <1>9, SMTT(30)
<1>11. c.jitters = {0} => reachMs = arrivalMs + node.networkLatencyMs
  BY <1>3 DEF reachMs
<1> HIDE DEF endMs, completionMs, delayMs, depth, scheduled
<1>12. reason \in Reasons \cup {"none"}
  BY SimulationConfig DEF admissionFailureReason, Reasons
<1> HIDE DEF reason
<1>13. t.nodes \in [DOMAIN c.nodes -> NodeStates] /\ t.requests \in Seq(Results(c))
       /\ t.completions \in SUBSET [id : Nat, atMs : Nat]
  BY <1>1 DEF SimulationStates
<1>14. scheduled \in SUBSET Slots /\ t.nodes[n] \in NodeStates
  BY <1>13 DEF scheduled, Pruned
<1>15. CASE reason # "none"
  <2> DEFINE nodes == [t.nodes EXCEPT ![n] = [t.nodes[n] EXCEPT !.scheduled = scheduled]]
  <2>1. u = [t EXCEPT !.cursor = cursor, !.nodes = nodes, !.requests = Append(t.requests, failed)]
    BY <1>2, <1>15
  <2>2. failed \in Results(c)
    BY <1>1, <1>12, <1>15 DEF Failed, Results, Failures
  <2>3. Append(t.requests, failed) \in Seq(Results(c))
    BY <1>13, <2>2
  <2>4. [t.nodes[n] EXCEPT !.scheduled = scheduled] \in NodeStates
    BY <1>14
  <2>5. nodes \in [DOMAIN c.nodes -> NodeStates]
    BY <1>13, <2>4
  <2>6. \A m \in DOMAIN c.nodes :
            /\ nodes[m].workerAvailableMs = t.nodes[m].workerAvailableMs
            /\ nodes[m].scheduled = IF m \in {n} THEN Pruned(t.nodes[m].scheduled, reachMs)
                                    ELSE t.nodes[m].scheduled
    BY <1>13, <1>14 DEF scheduled
  <2> HIDE DEF nodes, failed, NodeStates
  <2>7. /\ u \in SimulationStates(c) /\ u.previousArrivalMs = t.previousArrivalMs
        /\ u.requests = Append(t.requests, failed) /\ u.completions = t.completions
        /\ u.nodes = nodes
    BY <1>1, <2>1, <2>3, <2>5 DEF SimulationStates, NodeStates
  <2>8. \A m \in {n} : arrivalMs <= reachMs
                       /\ (InOrder(s) => reachMs <= arrivalMs + c.nodes[m].networkLatencyMs)
    BY <1>3, <1>4, <1>7, <1>11 DEF InOrder, node
  <2>9. u.requests = Append(t.requests, Failed(scheduledMs, t.previousArrivalMs, n, reason))
    BY <1>1, <2>7 DEF failed
  <2>10. reason \in Reasons
    BY <1>12, <1>15
  <2>11. /\ \A m \in {n} :
                /\ t.previousArrivalMs <= reachMs
                /\ InOrder(s) => reachMs <= t.previousArrivalMs + t.config.nodes[m].networkLatencyMs
         /\ u.previousArrivalMs = t.previousArrivalMs
         /\ u.requests = Append(t.requests, Failed(scheduledMs, t.previousArrivalMs, n, reason))
         /\ u.completions = t.completions
         /\ \A m \in DOMAIN t.config.nodes :
                /\ u.nodes[m].workerAvailableMs = t.nodes[m].workerAvailableMs
                /\ u.nodes[m].scheduled = IF m \in {n} THEN Pruned(t.nodes[m].scheduled, reachMs)
                                          ELSE t.nodes[m].scheduled
    BY <1>1, <2>6, <2>7, <2>8, <2>9
  <2>12. Refuses(s, u, scheduledMs, n, reason, {n}, reachMs)
    BY <2>11, Zenon DEF Refuses, t
  <2>13. \E r : /\ r.arrivalMs \in Nat /\ SendsOneMore(s, u, r) /\ Decided(s, u, r)
                /\ Sends(s, u, r)
    BY <1>7, <2>7, <2>10, <2>12, NotAccepted, Zenon
  <2>14. QED
    BY <2>7, <2>13 DEF u
<1>16. CASE reason = "none"
  <2> DEFINE nodes == [t.nodes EXCEPT ![n] = served]
  <2>1. u = [t EXCEPT !.cursor = cursor, !.nodes = nodes, !.completions = t.completions \cup {answer},
                      !.requests = Append(t.requests, result)]
    BY <1>2, <1>16
  <2>2. result \in Answers(c)
    BY <1>1, <1>9, <1>10 DEF Answers
  <2>3. Append(t.requests, result) \in Seq(Results(c))
    BY <1>13, <2>2 DEF Results
  <2>4. slot \in Slots /\ answer \in [id : Nat, atMs : Nat]
    BY <1>4, <1>9, <1>10 DEF Slots
  <2>5. [available EXCEPT ![w] = endMs] \in WorkerPools
    <3>1. [available EXCEPT ![w] = endMs] \in [1..node.workers -> Nat]
      BY <1>5, <1>6, <1>10
    <3>2. QED
      BY <1>3, <3>1 DEF WorkerPools
  <2>6. served \in NodeStates
    BY <1>14, <2>4, <2>5
  <2>7. nodes \in [DOMAIN c.nodes -> NodeStates]
    BY <1>13, <2>6
  <2>8. nodes[n] = served /\ \A m \in DOMAIN c.nodes \ {n} : nodes[m] = t.nodes[m]
    BY <1>13
  <2> HIDE DEF nodes, result, answer, slot, served, NodeStates
  <2>9. /\ u \in SimulationStates(c) /\ u.config = c /\ u.previousArrivalMs = arrivalMs
        /\ u.requests = Append(s.requests, result) /\ u.nodes = nodes
        /\ u.completions = Outstanding(s.completions, arrivalMs) \cup {answer}
    BY <1>1, <1>13, <2>1, <2>3, <2>4, <2>7 DEF SimulationStates, NodeStates
  <2>10. /\ result.arrivalMs = arrivalMs /\ result.scheduledArrivalMs = scheduledMs
         /\ result.nodeId = n /\ result.failureReason = "none" /\ result.queueDelayMs = delayMs
         /\ result.serviceStartMs = startMs /\ result.completionMs = completionMs
    BY DEF result
  <2>11. SendsOneMore(s, u, result)
    BY <1>1, <1>4, <2>9, <2>10, RecordsOne
  <2>12. u.requests[new] = result
    BY <2>11, Zenon DEF SendsOneMore
  <2>13. Begin(u, new) = startMs /\ Reach(u, new) = reachMs /\ EndsAt(u, new) = endMs
    BY <1>10, <2>9, <2>10, <2>12 DEF Begin, Reach, EndsAt, endMs, node
  <2>14. Slot(u, new) = slot /\ Answer(u, new) = answer
    BY <1>4, <2>10, <2>12, <2>13 DEF Slot, Answer, slot, answer
  <2>15. /\ u.nodes[n].workerAvailableMs = [available EXCEPT ![w] = EndsAt(u, new)]
         /\ u.nodes[n].scheduled = scheduled \cup {Slot(u, new)}
    <3>1. u.nodes[n] = served
      BY <2>8, <2>9
    <3>2. /\ served.workerAvailableMs = [available EXCEPT ![w] = endMs]
          /\ served.scheduled = scheduled \cup {slot}
      BY DEF served
    <3>3. QED
      BY <2>13, <2>14, <3>1, <3>2, Zenon
  <2>16. scheduled = Pruned(s.nodes[n].scheduled, reachMs)
    <3>1. s.nodes[n].scheduled \in SUBSET Slots
      BY DEF SimulationStates
    <3>2. Pruned(Pruned(s.nodes[n].scheduled, arrivalMs), reachMs)
              = Pruned(s.nodes[n].scheduled, reachMs)
      BY <1>1, <1>7, <3>1, PrunedAgain
    <3>3. QED
      BY <1>1, <3>2 DEF scheduled
  <2>17. ASSUME NEW m \in DOMAIN c.nodes \ {n} PROVE Keeps(s, u, m)
    <3>1. /\ u.nodes[m].workerAvailableMs = s.nodes[m].workerAvailableMs
          /\ u.nodes[m].scheduled = Pruned(s.nodes[m].scheduled, arrivalMs)
      BY <1>1, <2>8, <2>9
    <3>2. arrivalMs <= arrivalMs + c.nodes[m].networkLatencyMs
      <4>1. c.nodes[m].networkLatencyMs \in Nat
        BY SimulationConfig
      <4>2. QED
        BY <1>1, <4>1
    <3>3. QED
      BY <1>1, <1>4, <2>9, <3>1, <3>2 DEF Keeps
  <2>18. w \in Workers(s, n) /\ \A v \in Workers(s, n) : FreeAt(s, n, w) <= FreeAt(s, n, v)
    BY <1>5, <1>6 DEF FreeAt, available
  <2>19. Begin(u, new) = IF Reach(u, new) <= FreeAt(s, n, w) THEN FreeAt(s, n, w)
                         ELSE Reach(u, new)
    BY <1>8, <2>13 DEF FreeAt, available
  <2>20. InOrder(s) => Reach(u, new) = result.arrivalMs + c.nodes[n].networkLatencyMs
    BY <1>4, <1>11, <2>10, <2>13 DEF InOrder, node
  <2>21. admissionFailureReason(c, c.nodes[n], result.queueDelayMs,
             Cardinality({x \in Pruned(s.nodes[n].scheduled, Reach(u, new)) :
                             x.serviceStartMs > Reach(u, new)})) = "none"
    BY <1>16, <2>10, <2>13, <2>16 DEF reason, depth, node
  <2>22. result.arrivalMs < result.completionMs /\ Reach(u, new) \in Nat
    BY <1>7, <1>10, <2>10, <2>13
  <2>23. /\ u.nodes[n].scheduled = Pruned(s.nodes[n].scheduled, Reach(u, new)) \cup {Slot(u, new)}
         /\ u.nodes[n].workerAvailableMs =
                [s.nodes[n].workerAvailableMs EXCEPT ![w] = EndsAt(u, new)]
    BY <2>13, <2>15, <2>16 DEF available
  <2>24. Accepts(s, u, result, w)
    BY <1>4, <2>2, <2>10, <2>17, <2>18, <2>19, <2>20, <2>21, <2>22, <2>23, Zenon DEF Accepts, new
  <2>25. Sends(s, u, result)
    BY <2>9, <2>10, <2>14 DEF Sends, arrivalMs
  <2>26. QED
    BY <1>1, <2>9, <2>10, <2>11, <2>24, <2>25 DEF Decided, u
<1>17. QED
  BY <1>15, <1>16

\* The next request is recorded, sent and decided.
LEMMA ArriveAddsOne ==
    ASSUME SimulationInv, Arrive
    PROVE  /\ simulation' \in SimulationStates(simulation.config)
           /\ \E r : /\ r.arrivalMs \in Nat /\ SendsOneMore(simulation, simulation', r)
                     /\ Decided(simulation, simulation', r) /\ Sends(simulation, simulation', r)
<1> DEFINE s == simulation
           c == simulation.config
           scheduledMs == s.scheduledArrivalMs + requestIntervalMs(c, Len(s.requests))
           t == Advanced(s, scheduledMs)
           healthy == {n \in DOMAIN s.nodes : isHealthy(c.nodes[n], t.previousArrivalMs)}
           failed == Failed(scheduledMs, t.previousArrivalMs, None, "no-healthy-node")
<1>1. /\ c \in SimulationSettings /\ s \in SimulationStates(c) /\ WorkersSound(s)
      /\ ProducerSound(s)
  BY DEF SimulationInv
<1>2. IsFiniteSet(s.completions)
  BY <1>1, OutstandingIsPending
<1>3. /\ s.scheduledArrivalMs \in Nat /\ s.requests \in Seq(Results(c)) /\ Len(s.requests) \in Nat
      /\ s.nodes \in [DOMAIN c.nodes -> [scheduled : SUBSET Slots, workerAvailableMs : WorkerPools]]
  BY <1>1 DEF SimulationStates
<1>4. scheduledMs \in Nat
  <2>1. requestIntervalMs(c, Len(s.requests)) \in Nat
    BY <1>1, <1>3, IntervalIs, Zenon
  <2>2. QED
    BY <1>3, <2>1
<1>5. \/ NoHealthyNode(t, scheduledMs)
      \/ \E n \in healthy, cursor \in 0..(Len(c.nodes) - 1) : \E outbound, inbound \in c.jitters :
             Served(t, scheduledMs, n, cursor, outbound, inbound)
  BY Zenon DEF Arrive
<1>6. CASE NoHealthyNode(t, scheduledMs)
  <2>1. /\ t \in SimulationStates(c) /\ t.config = c /\ t.previousArrivalMs \in Nat
        /\ t.requests = s.requests
    BY <1>1, <1>2, <1>4, AdvancedIs
  <2> HIDE DEF t, c, scheduledMs
  <2>2. simulation' = [t EXCEPT !.requests = Append(t.requests, failed)]
    BY <1>6 DEF NoHealthyNode
  <2>3. failed \in Results(c) /\ "no-healthy-node" \in Reasons
    BY <1>4, <2>1 DEF Failed, Results, Failures, Reasons
  <2>4. Append(t.requests, failed) \in Seq(Results(c))
    BY <1>3, <2>1, <2>3 DEF s
  <2> HIDE DEF failed
  <2>5. /\ simulation' \in SimulationStates(c) /\ simulation'.previousArrivalMs = t.previousArrivalMs
        /\ simulation'.requests = Append(t.requests, failed)
        /\ simulation'.completions = t.completions /\ simulation'.nodes = t.nodes
    BY <2>1, <2>2, <2>4 DEF SimulationStates
  <2>6. Refuses(s, simulation', scheduledMs, None, "no-healthy-node", {}, 0)
    BY <2>5 DEF Refuses, t, failed
  <2>7. \E r : /\ r.arrivalMs \in Nat /\ SendsOneMore(s, simulation', r)
               /\ Decided(s, simulation', r) /\ Sends(s, simulation', r)
    <3>1. 0 \in Nat
      OBVIOUS
    <3>2. QED
      BY <1>1, <1>2, <1>4, <2>3, <2>5, <2>6, <3>1, NotAccepted, Zenon
  <2>8. QED
    BY <2>5, <2>7 DEF c
<1>7. CASE \E n \in healthy, cursor \in 0..(Len(c.nodes) - 1) : \E outbound, inbound \in c.jitters :
               Served(t, scheduledMs, n, cursor, outbound, inbound)
  <2>1. PICK n \in healthy, cursor \in 0..(Len(c.nodes) - 1) : \E outbound, inbound \in c.jitters :
             Served(t, scheduledMs, n, cursor, outbound, inbound)
    BY <1>7, Zenon
  <2>2. PICK outbound \in c.jitters, inbound \in c.jitters :
             Served(t, scheduledMs, n, cursor, outbound, inbound)
    BY <2>1, Zenon
  <2>3. n \in DOMAIN c.nodes
    BY <1>3
  <2>4. cursor \in Int
    OBVIOUS
  <2>5. Served(Advanced(s, scheduledMs), scheduledMs, n, cursor, outbound, inbound)
    BY <2>2
  <2> HIDE DEF c, scheduledMs
  <2>6. /\ simulation' \in SimulationStates(c)
        /\ \E r : /\ r.arrivalMs \in Nat /\ SendsOneMore(s, simulation', r)
                  /\ Decided(s, simulation', r) /\ Sends(s, simulation', r)
    BY <1>1, <1>2, <1>4, <2>2, <2>3, <2>4, <2>5, ServedDecides, Zenon
  <2>7. QED
    BY <2>6 DEF c
<1>8. QED
  BY <1>5, <1>6, <1>7

\* The invariant holds before the first request.
LEMMA InitSimulation ==
    ASSUME simulation \in {SimulationOf(c) : c \in SimulationSettings}
    PROVE  SimulationInv
<1>1. PICK c \in SimulationSettings : simulation = SimulationOf(c)
  OBVIOUS
<1> DEFINE s == simulation
           nodes == [n \in DOMAIN c.nodes |->
                       [scheduled |-> {}, workerAvailableMs |-> [w \in 1..c.nodes[n].workers |-> 0]]]
<1>2. /\ s.config = c /\ s.scheduledArrivalMs = 0 /\ s.previousArrivalMs = 0 /\ s.completions = {}
      /\ s.cursor = 0 /\ s.nodes = nodes /\ s.requests = <<>>
  BY <1>1 DEF SimulationOf
<1>3. Count(s) = 0 /\ \A n : AcceptedBy(s, n) = {}
  BY <1>2 DEF Count, AcceptedBy
<1>4. \A n \in DOMAIN c.nodes : [w \in 1..c.nodes[n].workers |-> 0] \in WorkerPools
  <2>1. \A n \in DOMAIN c.nodes : c.nodes[n].workers \in Nat
    BY SimulationConfig
  <2>2. \A size \in Nat : [w \in 1..size |-> 0] \in [1..size -> Nat]
    OBVIOUS
  <2>3. \A size \in Nat : [1..size -> Nat] \subseteq WorkerPools
    BY DEF WorkerPools
  <2>4. QED
    BY <2>1, <2>2, <2>3
<1>5. nodes \in [DOMAIN c.nodes -> [scheduled : SUBSET Slots, workerAvailableMs : WorkerPools]]
  BY <1>4
<1>6. s \in SimulationStates(c)
  <2>1. <<>> \in Seq(Results(c))
    OBVIOUS
  <2>2. s = [config |-> c, scheduledArrivalMs |-> 0, previousArrivalMs |-> 0, completions |-> {},
             cursor |-> 0, nodes |-> nodes, requests |-> <<>>]
    BY <1>1, Zenon DEF SimulationOf
  <2> HIDE DEF nodes, s
  <2>3. QED
    BY <1>5, <2>1, <2>2 DEF SimulationStates
<1>7. SendingSound(s)
  BY <1>2, <1>3 DEF SendingSound
<1>8. WorkersSound(s)
  <2> SUFFICES ASSUME NEW n \in DOMAIN c.nodes
               PROVE  /\ s.nodes[n].workerAvailableMs \in [Workers(s, n) -> Nat]
                      /\ \E worker \in [AcceptedBy(s, n) -> Workers(s, n)] : WorkedBy(s, n, worker)
    BY <1>2 DEF WorkersSound
  <2>1. Workers(s, n) = 1..c.nodes[n].workers
    BY <1>2 DEF Workers
  <2>2. s.nodes[n].workerAvailableMs = [w \in 1..c.nodes[n].workers |-> 0]
    BY <1>2
  <2>3. \A w \in Workers(s, n) : FreeAt(s, n, w) = 0
    BY <2>1, <2>2 DEF FreeAt
  <2> DEFINE worker == [k \in AcceptedBy(s, n) |-> 1]
  <2>4. worker \in [AcceptedBy(s, n) -> Workers(s, n)]
    BY <1>3
  <2> HIDE DEF worker
  <2>5. WorkedBy(s, n, worker)
    BY <1>3, <2>3 DEF WorkedBy
  <2>6. QED
    BY <2>1, <2>2, <2>4, <2>5
<1>9. ScheduleSound(s)
  BY <1>2, <1>3 DEF ScheduleSound
<1>10. TurnSound(s) /\ QueueSound(s)
  BY <1>3 DEF TurnSound, QueueSound
<1>11. ProducerSound(s)
  <2>1. Pending(s, Count(s) + 1, s.previousArrivalMs) = {}
    BY <1>3 DEF Pending
  <2>2. QED
    BY <1>2, <1>3, <2>1 DEF ProducerSound, AnswersOf
<1>12. QED
  BY <1>2, <1>6, <1>7, <1>8, <1>9, <1>10, <1>11 DEF SimulationInv

\* Every request keeps it.
LEMMA NextSimulation ==
    ASSUME SimulationInv, [Arrive]_simulation
    PROVE  SimulationInv'
<1>1. CASE UNCHANGED simulation
  BY <1>1 DEF SimulationInv
<1>2. CASE Arrive
  <2> DEFINE s == simulation
             t == simulation'
             c == simulation.config
  <2>1. /\ c \in SimulationSettings /\ s \in SimulationStates(c)
        /\ SendingSound(s) /\ WorkersSound(s) /\ ScheduleSound(s)
        /\ TurnSound(s) /\ QueueSound(s) /\ ProducerSound(s)
    BY DEF SimulationInv
  <2>2. t \in SimulationStates(c)
    BY <1>2, ArriveAddsOne
  <2>3. PICK r : /\ r.arrivalMs \in Nat /\ SendsOneMore(s, t, r) /\ Decided(s, t, r)
                 /\ Sends(s, t, r)
    BY <1>2, ArriveAddsOne
  <2> HIDE DEF s, t, c
  <2>4. t.config = c
    BY <2>2 DEF SimulationStates
  <2>5. SendingSound(t)
    BY <2>1, <2>3, SendingStep
  <2>6. WorkersSound(t)
    BY <2>1, <2>3, WorkersStep
  <2>7. ScheduleSound(t)
    BY <2>1, <2>3, ScheduleStep
  <2>8. TurnSound(t)
    BY <2>1, <2>3, TurnStep
  <2>9. QueueSound(t)
    BY <2>1, <2>3, <2>8, QueueStep
  <2>10. ProducerSound(t)
    BY <2>1, <2>3, ProducerStep
  <2>11. QED
    BY <2>1, <2>2, <2>4, <2>5, <2>6, <2>7, <2>8, <2>9, <2>10 DEF SimulationInv, t
<1>3. QED
  BY <1>1, <1>2

-----------------------------------------------------------------------------

(* What the invariant promises. *)

\* The requests in service at a moment have a worker each.
LEMMA ServingCounted ==
    ASSUME NEW c \in SimulationSettings, NEW s \in SimulationStates(c), NEW n \in DOMAIN c.nodes,
           NEW worker \in [AcceptedBy(s, n) -> Workers(s, n)], WorkedBy(s, n, worker), NEW x \in Int
    PROVE  LET K == {k \in AcceptedBy(s, n) : Serving(s, k, x)}
           IN  /\ Cardinality(K) <= c.nodes[n].workers
               /\ (\A w \in Workers(s, n) : \E k \in K : worker[k] = w) =>
                      Cardinality(K) = c.nodes[n].workers
<1> DEFINE K == {k \in AcceptedBy(s, n) : Serving(s, k, x)}
           W == Workers(s, n)
           f == [k \in K |-> worker[k]]
           size == c.nodes[n].workers
<1>1. size \in Nat \ {0} /\ W = 1..size
  BY SimulationConfig DEF SimulationStates, Workers
<1>2. IsFiniteSet(W) /\ Cardinality(W) = size
  <2>1. IsFiniteSet(1..size) /\ Cardinality(1..size) = size
    <3> HIDE DEF size
    <3>1. 1 \in Int /\ size \in Int /\ ~(1 > size)
      BY <1>1
    <3>2. IsFiniteSet(1..size) /\ Cardinality(1..size) = size - 1 + 1
      BY <3>1, FS_Interval
    <3>3. QED
      BY <3>1, <3>2
  <2>2. QED
    BY <1>1, <2>1
<1>3. ASSUME NEW i \in K, NEW j \in K, i < j, worker[i] = worker[j] PROVE FALSE
  <2>1. EndsAt(s, i) <= Begin(s, j)
    BY <1>3 DEF WorkedBy
  <2>2. Begin(s, j) <= x /\ x < EndsAt(s, i)
    BY DEF Serving
  <2>3. Begin(s, j) \in Nat /\ EndsAt(s, i) \in Nat
    BY AcceptedParts
  <2>4. QED
    BY <2>1, <2>2, <2>3
<1>4. \A k \in K : k \in Nat
  <2>1. Count(s) \in Nat
    BY DEF SimulationStates, Count
  <2>2. QED
    BY <2>1 DEF AcceptedBy
<1>5. \A k \in K : worker[k] \in W
  OBVIOUS
<1> HIDE DEF K, W, size
<1>6. f \in [K -> W] /\ \A i, j \in K : f[i] = f[j] => i = j
  BY <1>3, <1>4, <1>5
<1>7. (\A w \in W : \E k \in K : worker[k] = w) => f \in Surjection(K, W)
  BY <1>6 DEF Surjection
<1> HIDE DEF f
<1>8. f \in Injection(K, W)
  BY <1>6 DEF Injection, IsInjective
<1>9. /\ Cardinality(K) <= Cardinality(W)
      /\ Cardinality(K) = Cardinality(W) <=> f \in Surjection(K, W)
  BY <1>2, <1>8, FS_Injection
<1>10. QED
  BY <1>2, <1>7, <1>9 DEF K, W, size

\* The names the property gives to what the invariant counts.
LEMMA SameRequests ==
    ASSUME SimulationInv
    PROVE  /\ DOMAIN simulation.requests = 1..Count(simulation)
           /\ \A n : Accepted(n) = AcceptedBy(simulation, n)
           /\ \A n, x : InService(n, x) = {k \in AcceptedBy(simulation, n) : Serving(simulation, k, x)}
           /\ \A n, x : Waiting(n, x) = Queued(simulation, n, x)
           /\ \A k : StartOf(k) = Begin(simulation, k) /\ ReachedAt(k) = Reach(simulation, k)
           /\ \A i \in 1..Count(simulation) : \A x : OutstandingBefore(i, x) = Pending(simulation, i, x)
<1> DEFINE s == simulation
<1>1. s.requests \in Seq(Results(s.config))
  BY DEF SimulationInv, SimulationStates
<1>2. DOMAIN s.requests = 1..Count(s) /\ Count(s) \in Nat
  BY <1>1 DEF Count
<1>3. \A n : Accepted(n) = AcceptedBy(s, n)
  BY <1>2 DEF Accepted, AcceptedBy, Answered
<1>4. \A k : StartOf(k) = Begin(s, k)
  BY Zenon DEF StartOf, Begin
<1>5. \A k : ReachedAt(k) = Reach(s, k) /\ EndOf(k) = EndsAt(s, k)
  BY <1>4, Zenon DEF ReachedAt, EndOf, Reach, EndsAt
<1>6. \A n, x : InService(n, x) = {k \in AcceptedBy(s, n) : Serving(s, k, x)}
  BY <1>3, <1>4, <1>5 DEF InService, Serving
<1>7. \A n, x : Waiting(n, x) = Queued(s, n, x)
  BY <1>3, <1>4, <1>5 DEF Waiting, Queued
<1>8. \A i \in 1..Count(s) : \A x : OutstandingBefore(i, x) = Pending(s, i, x)
  BY <1>2 DEF OutstandingBefore, AllAccepted, Pending, Answered
<1>9. QED
  BY <1>2, <1>3, <1>4, <1>5, <1>6, <1>7, <1>8

\* The invariant is enough.
LEMMA SimulationPromises ==
    ASSUME SimulationInv
    PROVE  NodesKeepTheirLimits
<1> DEFINE s == simulation
           c == simulation.config
<1>1. /\ c \in SimulationSettings /\ s \in SimulationStates(c)
      /\ WorkersSound(s) /\ TurnSound(s) /\ QueueSound(s) /\ ProducerSound(s)
  BY DEF SimulationInv
<1>2. /\ DOMAIN s.requests = 1..Count(s)
      /\ \A n : Accepted(n) = AcceptedBy(s, n)
      /\ \A n, x : InService(n, x) = {k \in AcceptedBy(s, n) : Serving(s, k, x)}
      /\ \A n, x : Waiting(n, x) = Queued(s, n, x)
      /\ \A k : StartOf(k) = Begin(s, k) /\ ReachedAt(k) = Reach(s, k)
      /\ \A i \in 1..Count(s) : \A x : OutstandingBefore(i, x) = Pending(s, i, x)
  BY SameRequests
<1>3. ServedInTurn
  <2> SUFFICES ASSUME NEW n \in DOMAIN c.nodes
               PROVE  /\ \A i \in AcceptedBy(s, n) :
                             Cardinality(InService(n, Begin(s, i))) <= c.nodes[n].workers
                      /\ c.jitters = {0} => \A i, j \in AcceptedBy(s, n) :
                             /\ i < j => Begin(s, i) <= Begin(s, j)
                             /\ \A x \in Reach(s, i)..(Begin(s, i) - 1) :
                                    Cardinality(InService(n, x)) = c.nodes[n].workers
    BY <1>2 DEF ServedInTurn
  <2> DEFINE size == c.nodes[n].workers
             A == AcceptedBy(s, n)
             W == Workers(s, n)
  <2>1. PICK worker \in [A -> W] : WorkedBy(s, n, worker)
    BY <1>1 DEF WorkersSound
  <2>2. \A i \in A : Begin(s, i) \in Nat /\ Reach(s, i) \in Int
    BY <1>1, AcceptedParts
  <2>3. \A x \in Int :
            /\ Cardinality(InService(n, x)) <= size
            /\ (\A w \in W : \E k \in A : Serving(s, k, x) /\ worker[k] = w) =>
                   Cardinality(InService(n, x)) = size
    <3> SUFFICES ASSUME NEW x \in Int
                 PROVE  /\ Cardinality(InService(n, x)) <= size
                        /\ (\A w \in W : \E k \in A : Serving(s, k, x) /\ worker[k] = w) =>
                               Cardinality(InService(n, x)) = size
      OBVIOUS
    <3> DEFINE K == {k \in A : Serving(s, k, x)}
    <3>1. /\ Cardinality(K) <= size
          /\ (\A w \in W : \E k \in K : worker[k] = w) => Cardinality(K) = size
      BY <1>1, <2>1, ServingCounted
    <3>2. InService(n, x) = K
      BY <1>2
    <3>3. (\A w \in W : \E k \in A : Serving(s, k, x) /\ worker[k] = w) =>
              \A w \in W : \E k \in K : worker[k] = w
      OBVIOUS
    <3> HIDE DEF K, A, W, size
    <3>4. QED
      BY <3>1, <3>2, <3>3
  <2>4. ASSUME c.jitters = {0}, NEW i \in A, NEW j \in A
        PROVE  /\ i < j => Begin(s, i) <= Begin(s, j)
               /\ \A x \in Reach(s, i)..(Begin(s, i) - 1) : Cardinality(InService(n, x)) = size
    <3>1. InOrder(s)
      BY <2>4 DEF InOrder
    <3>2. i < j => Begin(s, i) <= Begin(s, j)
      BY <1>1, <2>4, <3>1 DEF TurnSound
    <3>3. ASSUME NEW x \in Reach(s, i)..(Begin(s, i) - 1)
          PROVE  Cardinality(InService(n, x)) = size
      <4>1. x \in Int
        BY <2>2
      <4>2. \A w \in W : \E k \in A : k < i /\ worker[k] = w /\ Serving(s, k, x)
        BY <2>1, <2>4, <3>1 DEF WorkedBy
      <4>3. \A w \in W : \E k \in A : Serving(s, k, x) /\ worker[k] = w
        BY <4>2
      <4> HIDE DEF W, A, size
      <4>4. QED
        BY <2>3, <4>1, <4>3
    <3>4. QED
      BY <3>2, <3>3
  <2> HIDE DEF A
  <2>5. QED
    BY <2>2, <2>3, <2>4 DEF A
<1>4. QueueIsBounded
  <2> SUFFICES ASSUME c.jitters = {0}, NEW n \in DOMAIN c.nodes, NEW i \in AcceptedBy(s, n)
               PROVE  /\ Cardinality(Queued(s, n, Reach(s, i))) <= c.nodes[n].queueCapacity
                      /\ c.overloadPolicy = "reject" => s.requests[i].queueDelayMs = 0
                      /\ c.overloadPolicy = "shed-load" =>
                             s.requests[i].queueDelayMs <= c.maxQueueWaitMs
    BY <1>2 DEF QueueIsBounded
  <2>1. QED
    BY <1>1 DEF QueueSound, InOrder
<1>5. ProducerIsHeldBack
  <2> DEFINE r == s.requests
             limit == c.backpressureLimit
             previousMs(i) == IF i = 1 THEN 0 ELSE r[i - 1].arrivalMs
             dueMs(i) == Max({r[i].scheduledArrivalMs, previousMs(i)})
  <2> SUFFICES ASSUME NEW i \in 1..Count(s)
               PROVE  IF limit = 0 THEN r[i].arrivalMs = dueMs(i)
                      ELSE /\ Cardinality(OutstandingBefore(i, r[i].arrivalMs)) < limit
                           /\ \A x \in dueMs(i)..(r[i].arrivalMs - 1) :
                                  Cardinality(OutstandingBefore(i, x)) >= limit
    BY <1>2 DEF ProducerIsHeldBack
  <2>1. HeldBack(s, i)
    BY <1>1 DEF ProducerSound
  <2>2. dueMs(i) = DueAt(s, i)
    <3>1. Count(s) \in Nat
      BY <1>1 DEF SimulationStates, Count
    <3>2. r[i].scheduledArrivalMs \in Nat
      BY <1>1, RequestParts
    <3>3. previousMs(i) \in Nat
      <4>1. CASE i = 1
        BY <4>1
      <4>2. CASE i # 1
        <5>1. i - 1 \in 1..Count(s)
          BY <3>1, <4>2
        <5>2. r[i - 1].arrivalMs \in Nat
          BY <1>1, <5>1, RequestParts
        <5>3. QED
          BY <4>2, <5>2
      <4>3. QED
        BY <4>1, <4>2
    <3>4. DueAt(s, i) = IF r[i].scheduledArrivalMs <= previousMs(i) THEN previousMs(i)
                        ELSE r[i].scheduledArrivalMs
      BY Zenon DEF DueAt
    <3> HIDE DEF previousMs, r
    <3>5. QED
      BY <3>2, <3>3, <3>4, LaterOfTwo
  <2>3. \A x : OutstandingBefore(i, x) = Pending(s, i, x)
    BY <1>2
  <2> HIDE DEF dueMs
  <2>4. QED
    BY <2>1, <2>2, <2>3 DEF HeldBack
<1>6. QED
  BY <1>3, <1>4, <1>5 DEF NodesKeepTheirLimits

\* A node never serves more requests at once than it has workers; when requests reach it in the
\* order they were sent it starts them in that order, lets one wait only while all its workers are
\* busy, and lets no more wait, nor longer, than it may.  The producer sends as soon as it is below
\* its limit of outstanding requests, and not before (web/lib/simulation.ts, simulate).
THEOREM NodesServeInTurn == SimulationSpec => []NodesKeepTheirLimits
<1>1. SimulationSpec => []SimulationInv
  <2>1. simulation \in {SimulationOf(c) : c \in SimulationSettings} => SimulationInv
    BY InitSimulation
  <2>2. SimulationInv /\ [Arrive]_simulation => SimulationInv'
    BY NextSimulation
  <2>3. QED
    BY <2>1, <2>2, PTL DEF SimulationSpec
<1>2. SimulationInv => NodesKeepTheirLimits
  BY SimulationPromises
<1>3. QED
  BY <1>1, <1>2, PTL

-----------------------------------------------------------------------------

\* As many of the first n numbers are multiples of d as d goes into n.
LEMMA Multiples ==
    ASSUME NEW n \in Nat, NEW d \in Nat \ {0}, NEW offset \in Nat
    PROVE  LET W == {p \in (offset + 1)..(offset + n) : (p - offset) % d = 0}
           IN  IsFiniteSet(W) /\ Cardinality(W) = n \div d
<1> DEFINE W == {p \in (offset + 1)..(offset + n) : (p - offset) % d = 0}
           q == n \div d
           f == [k \in 1..q |-> offset + k * d]
<1>1. q \in Nat /\ q * d <= n /\ n < q * d + d
  BY SMT
<1>2. \A k \in Nat : k * d \in Nat
  BY SMT
<1>3. \A k \in Nat : (k * d) % d = 0
  BY SMT
<1>4. \A k, j \in Nat : k < j => k * d + d <= j * d
  <2>1. SUFFICES ASSUME NEW k \in Nat, NEW j \in Nat, k < j PROVE k * d + d <= j * d
    OBVIOUS
  <2>2. (j - k - 1) \in Nat
    BY <2>1
  <2>3. (j - k - 1) * d \in Nat
    BY <1>2, <2>2
  <2>4. (j - k - 1) * d = j * d - k * d - d
    BY SMT
  <2>5. QED
    BY <2>3, <2>4, <1>2
<1>5. \A x \in Nat : x % d = 0 => x = (x \div d) * d /\ x \div d \in Nat
  BY SMT
<1> HIDE DEF q
<1>6. \A k \in 1..q : k * d >= d /\ k * d <= n
  <2>1. SUFFICES ASSUME NEW k \in 1..q PROVE k * d >= d /\ k * d <= n
    OBVIOUS
  <2>2. k \in Nat /\ q \in Nat /\ 0 < k
    BY <1>1
  <2>3. 0 * d + d <= k * d /\ 0 * d = 0
    BY <1>4, <2>2, SMT
  <2>4. k * d <= q * d
    <3>1. CASE k = q
      BY <3>1, <1>2, <2>2
    <3>2. CASE k # q
      <4>1. k * d + d <= q * d
        BY <1>4, <2>2, <3>2
      <4>2. QED
        BY <4>1, <1>2, <2>2
    <3>3. QED
      BY <3>1, <3>2
  <2>5. QED
    BY <1>1, <1>2, <2>2, <2>3, <2>4
<1>7. \A k \in 1..q : f[k] \in W
  <2>1. SUFFICES ASSUME NEW k \in 1..q PROVE f[k] \in W
    OBVIOUS
  <2>2. k \in Nat /\ k * d \in Nat /\ k * d >= d /\ k * d <= n /\ (k * d) % d = 0
    BY <1>1, <1>2, <1>3, <1>6
  <2>3. offset + k * d \in (offset + 1)..(offset + n) /\ (offset + k * d) - offset = k * d
    BY <2>2
  <2>4. QED
    BY <2>2, <2>3
<1>8. \A k, j \in 1..q : f[k] = f[j] => k = j
  <2>1. SUFFICES ASSUME NEW k \in 1..q, NEW j \in 1..q, k * d = j * d PROVE k = j
    BY <1>1, <1>2
  <2>2. k \in Nat /\ j \in Nat
    BY <1>1
  <2>3. (k < j => k * d + d <= j * d) /\ (j < k => j * d + d <= k * d)
    BY <1>4, <2>2
  <2>4. QED
    BY <2>1, <2>2, <2>3, <1>2
<1>9. \A p \in W : \E k \in 1..q : f[k] = p
  <2>1. SUFFICES ASSUME NEW p \in W PROVE \E k \in 1..q : f[k] = p
    OBVIOUS
  <2>2. (p - offset) \in 1..n /\ (p - offset) % d = 0 /\ p \in Int
    OBVIOUS
  <2>3. PICK k \in Nat : p - offset = k * d
    BY <1>5, <2>2
  <2>4. k # 0
    BY <2>2, <2>3
  <2>5. k <= q
    <3>1. k > q => q * d + d <= k * d
      BY <1>1, <1>4
    <3>2. QED
      BY <3>1, <1>1, <1>2, <2>2, <2>3
  <2>6. k \in 1..q /\ offset + k * d = p
    BY <1>1, <2>2, <2>3, <2>4, <2>5
  <2>7. QED
    BY <2>6
<1> HIDE DEF W, f
<1>10. f \in Bijection(1..q, W)
  <2>1. DOMAIN f = 1..q /\ f \in [1..q -> W]
    BY <1>7, Zenon DEF f
  <2>2. QED
    BY <2>1, <1>8, <1>9 DEF Bijection, Injection, Surjection, IsInjective
<1>11. IsFiniteSet(1..q) /\ Cardinality(1..q) = q
  BY <1>1, FS_Interval
<1>12. IsFiniteSet(W) /\ Cardinality(W) = q
  BY <1>10, <1>11, FS_Bijection DEF ExistsBijection
<1>13. QED
  BY <1>12 DEF W, q

-----------------------------------------------------------------------------

(* The proxy experiment. *)

Loopbacks ==
    [drop_every : Nat, samples : Seq(BOOLEAN), client : [Probes -> {"none", "waiting", "done"}],
     proxy : [Probes -> {"none", "accepted", "forwarded", "answered", "closed"}],
     backend : [Probes -> {"none", "accepted", "answered", "closed"}],
     late : SUBSET ({"client", "proxy", "backend"} \X Probes)]

\* The connections of a probe: only the probe on which the client is and those before it have
\* any, the baseline goes past the proxy, and what the proxy drops never reaches the backend.
Connected(s, p) ==
    /\ p \in DOMAIN s.samples => s.client[p] = "done"
    /\ p \notin DOMAIN s.samples => s.client[p] \in {"none", "waiting"}
    /\ s.client[p] = "none" => s.proxy[p] = "none" /\ s.backend[p] = "none"
    /\ s.client[p] # "none" => (p \in Impaired <=> s.proxy[p] # "none")
    /\ p \notin Impaired => s.proxy[p] = "none" /\ (s.client[p] # "none" => s.backend[p] # "none")
    /\ p \in Impaired /\ s.proxy[p] \in {"none", "accepted"} => s.backend[p] = "none"
    /\ s.proxy[p] = "forwarded" => s.backend[p] # "none"
    /\ s.proxy[p] = "answered" => s.backend[p] = "answered"
    /\ Drops(s.drop_every, p) => s.backend[p] = "none" /\ s.proxy[p] \in {"none", "accepted", "closed"}

\* What closes a connection is an injected drop or somebody who gave up, and who gave up has
\* not answered.
Accounted(s, p) ==
    /\ <<"backend", p>> \in s.late => s.backend[p] = "closed"
    /\ <<"proxy", p>> \in s.late => s.proxy[p] = "closed"
    /\ Drops(s.drop_every, p) => <<"proxy", p>> \notin s.late
    /\ s.backend[p] = "closed" => <<"backend", p>> \in s.late
    /\ s.proxy[p] = "closed" => \/ Drops(s.drop_every, p)
                                \/ <<"proxy", p>> \in s.late \/ <<"backend", p>> \in s.late
    /\ <<"client", p>> \in s.late => p \in DOMAIN s.samples /\ ~s.samples[p]
    /\ p \in DOMAIN s.samples =>
           LET peer == IF p \in Impaired THEN s.proxy[p] ELSE s.backend[p]
           IN  IF s.samples[p] THEN peer = "answered" ELSE peer = "closed" \/ <<"client", p>> \in s.late

LoopbackInv ==
    /\ loopback \in Loopbacks
    /\ \A p \in Probes : Connected(loopback, p) /\ Accounted(loopback, p)

\* A step that leaves a probe alone leaves what is known of it.
Alike(s, t, p) ==
    /\ t.drop_every = s.drop_every /\ t.client[p] = s.client[p]
    /\ t.proxy[p] = s.proxy[p] /\ t.backend[p] = s.backend[p]
    /\ \A side \in {"client", "proxy", "backend"} : <<side, p>> \in t.late <=> <<side, p>> \in s.late
    /\ p \in DOMAIN t.samples <=> p \in DOMAIN s.samples
    /\ p \in DOMAIN s.samples => t.samples[p] = s.samples[p]

LEMMA LeftAlone ==
    ASSUME NEW s, NEW t, NEW p, Alike(s, t, p), Connected(s, p), Accounted(s, p)
    PROVE  Connected(t, p) /\ Accounted(t, p)
<1> USE DEF Alike
<1>1. Connected(t, p)
  BY Zenon DEF Connected
<1>2. <<"client", p>> \in t.late <=> <<"client", p>> \in s.late
  OBVIOUS
<1>3. <<"proxy", p>> \in t.late <=> <<"proxy", p>> \in s.late
  OBVIOUS
<1>4. <<"backend", p>> \in t.late <=> <<"backend", p>> \in s.late
  OBVIOUS
<1>5. Accounted(t, p)
  BY <1>2, <1>3, <1>4, Zenon DEF Accounted
<1>6. QED
  BY <1>1, <1>5

LEMMA InitLoopback == loopback \in {LoopbackOf(drop) : drop \in DropSettings} => LoopbackInv
<1>1. SUFFICES ASSUME NEW drop \in DropSettings, loopback = LoopbackOf(drop) PROVE LoopbackInv
  OBVIOUS
<1>2. loopback = [drop_every |-> drop, samples |-> <<>>,
                  client |-> [p \in Probes |-> "none"], proxy |-> [p \in Probes |-> "none"],
                  backend |-> [p \in Probes |-> "none"], late |-> {}]
  BY <1>1 DEF LoopbackOf
<1>3. drop \in Nat
  BY ProxyAssumption
<1>4. loopback \in Loopbacks
  BY <1>2, <1>3 DEF Loopbacks
<1>5. ASSUME NEW p \in Probes PROVE Connected(loopback, p) /\ Accounted(loopback, p)
  <2>1. loopback.client[p] = "none" /\ loopback.proxy[p] = "none" /\ loopback.backend[p] = "none"
        /\ loopback.late = {} /\ p \notin DOMAIN loopback.samples
    BY <1>2
  <2>2. QED
    BY <2>1 DEF Connected, Accounted
<1>6. QED
  BY <1>4, <1>5 DEF LoopbackInv

\* A step concerns one probe.
LEMMA OneProbe ==
    ASSUME LoopbackInv, loopback' \in Loopbacks, NEW q \in Probes,
           \A p \in Probes : p # q => Alike(loopback, loopback', p),
           Connected(loopback', q), Accounted(loopback', q)
    PROVE  LoopbackInv'
<1>1. ASSUME NEW p \in Probes PROVE Connected(loopback', p) /\ Accounted(loopback', p)
  <2>1. CASE p = q
    BY <2>1
  <2>2. CASE p # q
    BY <2>2, LeftAlone DEF LoopbackInv
  <2>3. QED
    BY <2>1, <2>2
<1>2. QED
  BY <1>1 DEF LoopbackInv

\* Where a step of the proxy or of the backend leads.
LEMMA ServersKeep ==
    ASSUME LoopbackInv, NEW q \in Probes,
           DropConnection(q) \/ Forward(q) \/ Serve(q) \/ Return(q)
    PROVE  LoopbackInv'
<1> DEFINE s == loopback
           t == loopback'
<1>1. s \in Loopbacks /\ Connected(s, q) /\ Accounted(s, q)
  BY DEF LoopbackInv
<1>2. CASE DropConnection(q)
  <2>1. t = [s EXCEPT !.proxy[q] = "closed"] /\ s.proxy[q] = "accepted" /\ Drops(s.drop_every, q)
    BY <1>2 DEF DropConnection
  <2>2. t \in Loopbacks
    BY <2>1, <1>1 DEF Loopbacks
  <2>3. \A p \in Probes : p # q => Alike(s, t, p)
    BY <2>1, <1>1 DEF Loopbacks, Alike
  <2>4. t.drop_every = s.drop_every /\ t.samples = s.samples /\ t.client = s.client
        /\ t.proxy[q] = "closed" /\ t.backend = s.backend /\ t.late = s.late
    BY <2>1, <1>1 DEF Loopbacks
  <2>5. Connected(t, q)
    BY <2>1, <2>4, <1>1 DEF Connected
  <2>6. Accounted(t, q)
    BY <2>1, <2>4, <1>1 DEF Accounted, Connected
  <2>7. QED
    BY <2>2, <2>3, <2>5, <2>6, OneProbe
<1>3. CASE Forward(q)
  <2>1. t = [s EXCEPT !.proxy[q] = "forwarded", !.backend[q] = "accepted"]
        /\ s.proxy[q] = "accepted" /\ ~Drops(s.drop_every, q)
    BY <1>3 DEF Forward
  <2>2. t \in Loopbacks
    BY <2>1, <1>1 DEF Loopbacks
  <2>3. \A p \in Probes : p # q => Alike(s, t, p)
    BY <2>1, <1>1 DEF Loopbacks, Alike
  <2>4. t.drop_every = s.drop_every /\ t.samples = s.samples /\ t.client = s.client
        /\ t.proxy[q] = "forwarded" /\ t.backend[q] = "accepted" /\ t.late = s.late
    BY <2>1, <1>1 DEF Loopbacks
  <2>5. Connected(t, q)
    BY <2>1, <2>4, <1>1 DEF Connected
  <2>6. Accounted(t, q)
    BY <2>1, <2>4, <1>1 DEF Accounted, Connected
  <2>7. QED
    BY <2>2, <2>3, <2>5, <2>6, OneProbe
<1>4. CASE Serve(q)
  <2>1. t = [s EXCEPT !.backend[q] = "answered"] /\ s.backend[q] = "accepted"
    BY <1>4 DEF Serve
  <2>2. t \in Loopbacks
    BY <2>1, <1>1 DEF Loopbacks
  <2>3. \A p \in Probes : p # q => Alike(s, t, p)
    BY <2>1, <1>1 DEF Loopbacks, Alike
  <2>4. t.drop_every = s.drop_every /\ t.samples = s.samples /\ t.client = s.client
        /\ t.proxy = s.proxy /\ t.backend[q] = "answered" /\ t.late = s.late
    BY <2>1, <1>1 DEF Loopbacks
  <2>5. Connected(t, q)
    BY <2>1, <2>4, <1>1 DEF Connected
  <2>6. Accounted(t, q)
    BY <2>1, <2>4, <1>1 DEF Accounted, Connected
  <2>7. QED
    BY <2>2, <2>3, <2>5, <2>6, OneProbe
<1>5. CASE Return(q)
  <2>1. t = [s EXCEPT !.proxy[q] = s.backend[q]] /\ s.proxy[q] = "forwarded"
        /\ s.backend[q] \in {"answered", "closed"}
    BY <1>5 DEF Return
  <2>2. t \in Loopbacks
    BY <2>1, <1>1 DEF Loopbacks
  <2>3. \A p \in Probes : p # q => Alike(s, t, p)
    BY <2>1, <1>1 DEF Loopbacks, Alike
  <2>4. t.drop_every = s.drop_every /\ t.samples = s.samples /\ t.client = s.client
        /\ t.proxy[q] = s.backend[q] /\ t.backend = s.backend /\ t.late = s.late
    BY <2>1, <1>1 DEF Loopbacks
  <2>5. Connected(t, q)
    BY <2>1, <2>4, <1>1 DEF Connected
  <2>6. Accounted(t, q)
    BY <2>1, <2>4, <1>1 DEF Accounted, Connected
  <2>7. QED
    BY <2>2, <2>3, <2>5, <2>6, OneProbe
<1>6. QED
  BY <1>2, <1>3, <1>4, <1>5

\* A server that gives up has not answered, and does not.
LEMMA TimeoutsKeep ==
    ASSUME LoopbackInv, NEW q \in Probes, ProxyTimesOut(q) \/ BackendTimesOut(q)
    PROVE  LoopbackInv'
<1> DEFINE s == loopback
           t == loopback'
<1>1. s \in Loopbacks /\ Connected(s, q) /\ Accounted(s, q)
  BY DEF LoopbackInv
<1>2. CASE ProxyTimesOut(q)
  <2>1. /\ t = [[s EXCEPT !.proxy[q] = "closed"] EXCEPT !.late = s.late \cup {<<"proxy", q>>}]
        /\ s.proxy[q] \in {"accepted", "forwarded"}
        /\ s.proxy[q] = "accepted" => ~Drops(s.drop_every, q)
    BY <1>1, <1>2 DEF ProxyTimesOut, GivenUp, Loopbacks
  <2>2. t.drop_every = s.drop_every /\ t.samples = s.samples /\ t.client = s.client
        /\ t.proxy = [s.proxy EXCEPT ![q] = "closed"] /\ t.backend = s.backend
        /\ t.late = s.late \cup {<<"proxy", q>>}
    BY <2>1, <1>1 DEF Loopbacks
  <2>3. t \in Loopbacks
    <3>1. <<"proxy", q>> \in {"client", "proxy", "backend"} \X Probes
          /\ <<"backend", q>> \in {"client", "proxy", "backend"} \X Probes
      OBVIOUS
    <3>2. t.late \in SUBSET ({"client", "proxy", "backend"} \X Probes)
      BY <2>2, <3>1, <1>1 DEF Loopbacks
    <3> DEFINE late == t.late
    <3>3. t = [[s EXCEPT !.proxy[q] = "closed"] EXCEPT !.late = late]
      BY <2>1, <2>2
    <3> HIDE DEF late
    <3>4. late \in SUBSET ({"client", "proxy", "backend"} \X Probes)
      BY <3>2 DEF late
    <3>5. QED
      BY <3>3, <3>4, <1>1 DEF Loopbacks
  <2>4. \A p \in Probes : p # q => Alike(s, t, p)
    <3>1. \A p \in Probes : p # q => t.proxy[p] = s.proxy[p]
      BY <2>2, <1>1 DEF Loopbacks
    <3>2. \A p \in Probes, side \in {"client", "proxy", "backend"} :
              p # q => (<<side, p>> \in t.late <=> <<side, p>> \in s.late)
      BY <2>2
    <3>3. QED
      BY <2>2, <3>1, <3>2, Zenon DEF Alike
  <2>5. t.proxy[q] = "closed" /\ <<"proxy", q>> \in t.late
        /\ (<<"backend", q>> \in t.late <=> <<"backend", q>> \in s.late)
        /\ (<<"client", q>> \in t.late <=> <<"client", q>> \in s.late)
    BY <2>2, <1>1 DEF Loopbacks
  <2>6. Drops(s.drop_every, q) <=> Drops(t.drop_every, q)
    BY <2>2
  <2>7. q \in Impaired /\ ~Drops(s.drop_every, q)
    BY <2>1, <1>1 DEF Connected
  <2>8. Connected(t, q)
    BY <2>1, <2>2, <2>5, <2>6, <1>1 DEF Connected
  <2>9. Accounted(t, q)
    BY <2>1, <2>2, <2>5, <2>6, <2>7, <1>1 DEF Accounted
  <2>10. QED
    BY <2>3, <2>4, <2>8, <2>9, OneProbe
<1>3. CASE BackendTimesOut(q)
  <2>1. /\ t = [[s EXCEPT !.backend[q] = "closed"] EXCEPT !.late = s.late \cup {<<"backend", q>>}]
        /\ s.backend[q] = "accepted"
    BY <1>1, <1>3 DEF BackendTimesOut, GivenUp, Loopbacks
  <2>2. t.drop_every = s.drop_every /\ t.samples = s.samples /\ t.client = s.client
        /\ t.backend = [s.backend EXCEPT ![q] = "closed"] /\ t.proxy = s.proxy
        /\ t.late = s.late \cup {<<"backend", q>>}
    BY <2>1, <1>1 DEF Loopbacks
  <2>3. t \in Loopbacks
    <3>1. <<"proxy", q>> \in {"client", "proxy", "backend"} \X Probes
          /\ <<"backend", q>> \in {"client", "proxy", "backend"} \X Probes
      OBVIOUS
    <3>2. t.late \in SUBSET ({"client", "proxy", "backend"} \X Probes)
      BY <2>2, <3>1, <1>1 DEF Loopbacks
    <3> DEFINE late == t.late
    <3>3. t = [[s EXCEPT !.backend[q] = "closed"] EXCEPT !.late = late]
      BY <2>1, <2>2
    <3> HIDE DEF late
    <3>4. late \in SUBSET ({"client", "proxy", "backend"} \X Probes)
      BY <3>2 DEF late
    <3>5. QED
      BY <3>3, <3>4, <1>1 DEF Loopbacks
  <2>4. \A p \in Probes : p # q => Alike(s, t, p)
    <3>1. \A p \in Probes : p # q => t.backend[p] = s.backend[p]
      BY <2>2, <1>1 DEF Loopbacks
    <3>2. \A p \in Probes, side \in {"client", "proxy", "backend"} :
              p # q => (<<side, p>> \in t.late <=> <<side, p>> \in s.late)
      BY <2>2
    <3>3. QED
      BY <2>2, <3>1, <3>2, Zenon DEF Alike
  <2>5. t.backend[q] = "closed" /\ <<"backend", q>> \in t.late
        /\ (<<"proxy", q>> \in t.late <=> <<"proxy", q>> \in s.late)
        /\ (<<"client", q>> \in t.late <=> <<"client", q>> \in s.late)
    BY <2>2, <1>1 DEF Loopbacks
  <2>6. Drops(s.drop_every, q) <=> Drops(t.drop_every, q)
    BY <2>2
  <2>8. Connected(t, q)
    BY <2>1, <2>2, <2>5, <2>6, <1>1 DEF Connected
  <2>9. Accounted(t, q)
    BY <2>1, <2>2, <2>5, <2>6, <1>1 DEF Accounted, Connected
  <2>10. QED
    BY <2>3, <2>4, <2>8, <2>9, OneProbe
<1>4. QED
  BY <1>2, <1>3

\* The client's turns: it connects, reads, or gives up.
LEMMA ClientKeeps ==
    ASSUME LoopbackInv, Connect \/ ReadResponse \/ ProbeTimesOut
    PROVE  LoopbackInv'
<1> DEFINE s == loopback
           t == loopback'
           q == Probe
<1>1. q \in Probes /\ q \in Nat
  <2>1. q \in Probes
    BY Zenon DEF Connect, ReadResponse, ProbeTimesOut
  <2>2. QED
    BY <2>1, ProxyAssumption DEF Probes
<1>2. s \in Loopbacks /\ Connected(s, q) /\ Accounted(s, q)
  BY <1>1 DEF LoopbackInv
<1>3. s.samples \in Seq(BOOLEAN) /\ q = Len(s.samples) + 1 /\ q \notin DOMAIN s.samples
  BY <1>2 DEF Loopbacks, Probe
<1> HIDE DEF q
<1>4. CASE Connect /\ q \in Impaired
  <2>1. t = [s EXCEPT !.client[q] = "waiting", !.proxy[q] = "accepted"] /\ s.client[q] = "none"
    BY <1>4 DEF Connect, q
  <2>2. t \in Loopbacks
    BY <2>1, <1>1, <1>2 DEF Loopbacks
  <2>3. \A p \in Probes : p # q => Alike(s, t, p)
    BY <2>1, <1>1, <1>2 DEF Loopbacks, Alike
  <2>4. t.drop_every = s.drop_every /\ t.samples = s.samples /\ t.client[q] = "waiting"
        /\ t.proxy[q] = "accepted" /\ t.backend = s.backend /\ t.late = s.late
    BY <2>1, <1>1, <1>2 DEF Loopbacks
  <2>5. Connected(t, q)
    BY <1>3, <1>4, <2>1, <2>4, <1>2 DEF Connected
  <2>6. Accounted(t, q)
    BY <1>3, <2>1, <2>4, <1>2 DEF Accounted, Connected
  <2>7. QED
    BY <1>1, <2>2, <2>3, <2>5, <2>6, OneProbe
<1>5. CASE Connect /\ q \notin Impaired
  <2>1. t = [s EXCEPT !.client[q] = "waiting", !.backend[q] = "accepted"] /\ s.client[q] = "none"
    BY <1>5 DEF Connect, q
  <2>2. t \in Loopbacks
    BY <2>1, <1>1, <1>2 DEF Loopbacks
  <2>3. \A p \in Probes : p # q => Alike(s, t, p)
    BY <2>1, <1>1, <1>2 DEF Loopbacks, Alike
  <2>4. t.drop_every = s.drop_every /\ t.samples = s.samples /\ t.client[q] = "waiting"
        /\ t.backend[q] = "accepted" /\ t.proxy = s.proxy /\ t.late = s.late
    BY <2>1, <1>1, <1>2 DEF Loopbacks
  <2>5. Connected(t, q)
    BY <1>3, <1>5, <2>1, <2>4, <1>2 DEF Connected, Drops
  <2>6. Accounted(t, q)
    BY <1>3, <2>1, <2>4, <1>2 DEF Accounted, Connected
  <2>7. QED
    BY <1>1, <2>2, <2>3, <2>5, <2>6, OneProbe
<1>6. ASSUME NEW success \in BOOLEAN, s.client[q] = "waiting", t.samples = Append(s.samples, success),
             t.client = [s.client EXCEPT ![q] = "done"], t.drop_every = s.drop_every,
             t.proxy = s.proxy, t.backend = s.backend,
             t.late = s.late \/ t.late = s.late \cup {<<"client", q>>},
             t.late # s.late => ~success /\ <<"client", q>> \notin s.late,
             t.late = s.late => Peer(q) = (IF success THEN "answered" ELSE "closed"),
             t \in Loopbacks
      PROVE  LoopbackInv'
  <2>1. DOMAIN t.samples = DOMAIN s.samples \cup {q} /\ t.samples[q] = success
        /\ \A p \in DOMAIN s.samples : t.samples[p] = s.samples[p]
    BY <1>3, <1>6
  <2>2. \A p \in Probes : p # q => Alike(s, t, p)
    <3>1. SUFFICES ASSUME NEW p \in Probes, p # q PROVE Alike(s, t, p)
      OBVIOUS
    <3>2. t.client[p] = s.client[p]
      BY <1>1, <1>2, <1>6, <3>1 DEF Loopbacks
    <3>3. \A side \in {"client", "proxy", "backend"} : <<side, p>> \in t.late <=> <<side, p>> \in s.late
      BY <1>6, <3>1
    <3>4. QED
      BY <1>6, <2>1, <3>1, <3>2, <3>3, Zenon DEF Alike
  <2>3. t.client[q] = "done"
    BY <1>1, <1>2, <1>6 DEF Loopbacks
  <2>4. Connected(t, q)
    BY <1>2, <1>6, <2>1, <2>3 DEF Connected
  <2>5. (<<"backend", q>> \in t.late <=> <<"backend", q>> \in s.late)
        /\ (<<"proxy", q>> \in t.late <=> <<"proxy", q>> \in s.late)
    BY <1>6
  <2>6. <<"client", q>> \notin s.late
    BY <1>2, <1>3 DEF Accounted
  <2>7. <<"client", q>> \in t.late <=> t.late # s.late
    BY <1>6, <2>6
  <2>8. Accounted(t, q)
    BY <1>2, <1>6, <2>1, <2>5, <2>7 DEF Accounted, Peer
  <2>9. QED
    BY <1>1, <1>6, <2>2, <2>4, <2>8, OneProbe
<1>7. CASE ReadResponse
  <2> DEFINE success == Peer(q) = "answered"
  <2>1. t = [s EXCEPT !.samples = Append(s.samples, success), !.client[q] = "done"]
        /\ s.client[q] = "waiting" /\ Peer(q) \in {"answered", "closed"} /\ success \in BOOLEAN
    BY <1>7, Zenon DEF ReadResponse, Sampled, q
  <2> HIDE DEF success
  <2>2. Append(s.samples, success) \in Seq(BOOLEAN)
    BY <1>3, <2>1
  <2>3. t \in Loopbacks
    BY <1>1, <1>2, <2>1, <2>2 DEF Loopbacks
  <2>4. t.samples = Append(s.samples, success) /\ t.client = [s.client EXCEPT ![q] = "done"]
        /\ t.drop_every = s.drop_every /\ t.proxy = s.proxy /\ t.backend = s.backend /\ t.late = s.late
    BY <2>1, <1>1, <1>2 DEF Loopbacks
  <2>5. Peer(q) = (IF success THEN "answered" ELSE "closed")
    BY <2>1 DEF success
  <2>6. QED
    BY <2>1, <2>3, <2>4, <2>5, <1>6
<1>8. CASE ProbeTimesOut
  <2>1. t = [[s EXCEPT !.samples = Append(s.samples, FALSE), !.client[q] = "done"] EXCEPT
                 !.late = s.late \cup {<<"client", q>>}]
        /\ s.client[q] = "waiting"
    BY <1>2, <1>8 DEF ProbeTimesOut, Sampled, GivenUp, q, Loopbacks
  <2>2. Append(s.samples, FALSE) \in Seq(BOOLEAN)
    BY <1>3
  <2>3. t \in Loopbacks
    <3> DEFINE late == s.late \cup {<<"client", q>>}
               samples == Append(s.samples, FALSE)
    <3>1. <<"client", q>> \in {"client", "proxy", "backend"} \X Probes
      BY <1>1
    <3>2. late \in SUBSET ({"client", "proxy", "backend"} \X Probes) /\ samples \in Seq(BOOLEAN)
      BY <2>2, <3>1, <1>2 DEF Loopbacks
    <3>3. t = [[s EXCEPT !.samples = samples, !.client[q] = "done"] EXCEPT !.late = late]
      BY <2>1
    <3> HIDE DEF late, samples
    <3>4. QED
      BY <3>2, <3>3, <1>1, <1>2 DEF Loopbacks
  <2>4. t.samples = Append(s.samples, FALSE) /\ t.client = [s.client EXCEPT ![q] = "done"]
        /\ t.drop_every = s.drop_every /\ t.proxy = s.proxy /\ t.backend = s.backend
        /\ t.late = s.late \cup {<<"client", q>>}
    BY <2>1, <1>1, <1>2 DEF Loopbacks
  <2>5. <<"client", q>> \notin s.late
    BY <1>2, <1>3 DEF Accounted
  <2>6. QED
    BY <2>1, <2>3, <2>4, <2>5, <1>6
<1>9. QED
  BY <1>4, <1>5, <1>7, <1>8

LEMMA NextLoopback == LoopbackInv /\ [LoopbackStep]_loopback => LoopbackInv'
<1>1. ASSUME LoopbackInv, LoopbackStep PROVE LoopbackInv'
  BY <1>1, ServersKeep, TimeoutsKeep, ClientKeeps, Zenon DEF LoopbackStep
<1>2. ASSUME LoopbackInv, UNCHANGED loopback PROVE LoopbackInv'
  BY <1>2, Zenon DEF LoopbackInv
<1>3. QED
  BY <1>1, <1>2

\* The finished report: a probe succeeded unless it was dropped or somebody gave up on it, and
\* counting the successes of the impaired phase finds exactly the late ones missing.
LEMMA InjectedFailures == LoopbackInv => ProbesFailAsInjected
<1> SUFFICES ASSUME LoopbackInv, Len(loopback.samples) = 2 * RequestCount PROVE ProbesFailAsInjected
  BY DEF ProbesFailAsInjected
<1> DEFINE s == loopback
           d == s.drop_every
           dropped == {p \in Impaired : Drops(d, p)}
           late == {x[2] : x \in s.late}
           good == {p \in Impaired \cap DOMAIN s.samples : s.samples[p]}
<1>1. s \in Loopbacks /\ \A p \in Probes : Connected(s, p) /\ Accounted(s, p)
  BY DEF LoopbackInv
<1>2. RequestCount \in Nat \ {0} /\ d \in Nat /\ s.samples \in Seq(BOOLEAN)
  BY <1>1, ProxyAssumption DEF Loopbacks
<1>3. DOMAIN s.samples = Probes /\ Impaired \subseteq Probes
  BY <1>2 DEF Probes, Impaired
<1>4. \A p \in Probes : p \in late <=> \E side \in {"client", "proxy", "backend"} : <<side, p>> \in s.late
  <2>1. ASSUME NEW p \in Probes, p \in late
        PROVE  \E side \in {"client", "proxy", "backend"} : <<side, p>> \in s.late
    <3>1. PICK x \in s.late : x[2] = p
      BY <2>1
    <3>2. x \in {"client", "proxy", "backend"} \X Probes
      BY <1>1 DEF Loopbacks
    <3>3. x[1] \in {"client", "proxy", "backend"} /\ x = <<x[1], p>>
      BY <3>1, <3>2
    <3>4. QED
      BY <3>1, <3>3
  <2>2. ASSUME NEW p \in Probes, NEW side \in {"client", "proxy", "backend"}, <<side, p>> \in s.late
        PROVE  p \in late
    BY <2>2
  <2>3. QED
    BY <2>1, <2>2
<1> HIDE DEF late
<1>5. ASSUME NEW p \in Probes PROVE s.samples[p] <=> p \notin dropped \cup late
  <2>1. Connected(s, p) /\ Accounted(s, p) /\ p \in DOMAIN s.samples
    BY <1>1, <1>3
  <2>2. p \in dropped <=> Drops(d, p)
    BY DEF Drops
  <2>3. p \in late <=> <<"client", p>> \in s.late \/ <<"proxy", p>> \in s.late \/ <<"backend", p>> \in s.late
    BY <1>4
  <2>4. p \notin Impaired => ~Drops(d, p)
    BY DEF Drops
  <2>5. CASE s.samples[p]
    <3>1. (IF p \in Impaired THEN s.proxy[p] ELSE s.backend[p]) = "answered"
      BY <2>1, <2>5 DEF Accounted
    <3>2. s.backend[p] = "answered"
      BY <2>1, <3>1 DEF Connected
    <3>3. ~Drops(d, p)
      BY <2>1, <3>2 DEF Connected
    <3>4. <<"backend", p>> \notin s.late /\ <<"client", p>> \notin s.late
      BY <2>1, <2>5, <3>2 DEF Accounted
    <3>5. <<"proxy", p>> \notin s.late
      BY <2>1, <3>1 DEF Accounted, Connected
    <3>6. QED
      BY <2>2, <2>3, <2>5, <3>3, <3>4, <3>5
  <2>6. CASE ~s.samples[p]
    <3>1. \/ <<"client", p>> \in s.late
          \/ (IF p \in Impaired THEN s.proxy[p] ELSE s.backend[p]) = "closed"
      BY <2>1, <2>6 DEF Accounted
    <3>2. QED
      BY <2>1, <2>2, <2>3, <2>6, <3>1 DEF Accounted
  <2>7. QED
    BY <2>5, <2>6
<1>6. \A p \in dropped : s.backend[p] = "none"
  BY <1>1, <1>3 DEF Connected
<1>7. IsFiniteSet(dropped) /\ Cardinality(dropped) = expected_drops /\ expected_drops \in Nat
  <2>1. CASE d = 0
    <3>1. dropped = {} /\ expected_drops = 0
      BY <2>1 DEF Drops, expected_drops
    <3>2. QED
      BY <3>1, FS_EmptySet
  <2>2. CASE d # 0
    <3>1. d \in Nat \ {0}
      BY <1>2, <2>2
    <3>2. dropped = {p \in (RequestCount + 1)..(RequestCount + RequestCount) : (p - RequestCount) % d = 0}
      BY <1>2, <3>1 DEF Drops, ordinal, Impaired
    <3>3. expected_drops = RequestCount \div d
      BY <2>2 DEF expected_drops
    <3>4. IsFiniteSet(dropped) /\ Cardinality(dropped) = RequestCount \div d
      <4>1. RequestCount \in Nat
        BY <1>2
      <4>2. QED
        BY <3>1, <3>2, <4>1, Multiples, Zenon
    <3>5. Cardinality(dropped) \in Nat
      BY <3>4, FS_CardinalityType
    <3>6. QED
      BY <3>3, <3>4, <3>5
  <2>3. QED
    BY <2>1, <2>2
<1> DEFINE kept == Impaired \ dropped
<1>8. IsFiniteSet(Impaired) /\ Cardinality(Impaired) = RequestCount
  <2>1. RequestCount + 1 \in Int /\ 2 * RequestCount \in Int
        /\ RequestCount + 1 <= 2 * RequestCount
        /\ 2 * RequestCount - (RequestCount + 1) + 1 = RequestCount
    BY <1>2
  <2>2. QED
    BY <2>1, FS_Interval DEF Impaired
<1>9. IsFiniteSet(kept) /\ Cardinality(kept) = expected_impaired_successes
  <2>1. Impaired \cap dropped = dropped
    OBVIOUS
  <2>2. IsFiniteSet(kept) /\ Cardinality(kept) = Cardinality(Impaired) - Cardinality(Impaired \cap dropped)
    <3> HIDE DEF dropped
    <3>1. QED
      BY <1>8, FS_Difference
  <2>3. Cardinality(kept) = RequestCount - expected_drops
    BY <1>7, <1>8, <2>1, <2>2, Zenon
  <2>4. QED
    BY <2>2, <2>3 DEF expected_impaired_successes
<1>10. good = kept \ late
  BY <1>3, <1>5
<1>11. Cardinality(good) = Cardinality(kept) <=> late \cap kept = {}
  <2>1. CASE late \cap kept = {}
    BY <1>10, <2>1
  <2>2. CASE late \cap kept # {}
    <3>1. good \subseteq kept /\ good # kept
      BY <1>10, <2>2
    <3> HIDE DEF good, kept
    <3>2. Cardinality(kept) = Cardinality(good) => kept = good
      BY <1>9, <3>1, FS_Subset
    <3>3. QED
      BY <2>2, <3>1, <3>2
  <2>3. QED
    BY <2>1, <2>2
<1>12. success_matches <=> late \cap (Impaired \ dropped) = {}
  BY <1>9, <1>11 DEF success_matches, succeeded
<1>13. QED
  BY <1>5, <1>6, <1>12 DEF ProbesFailAsInjected, late

\* However connections interleave, answers come late and timeouts strike: the probes dropped on
\* purpose fail and never reach the backend, and no other fails but those that ran into a timeout.
THEOREM FailuresAreInjected == LoopbackSpec => []ProbesFailAsInjected
<1>1. LoopbackSpec => []LoopbackInv
  BY InitLoopback, NextLoopback, PTL DEF LoopbackSpec
<1>2. QED
  BY <1>1, InjectedFailures, PTL

-----------------------------------------------------------------------------

(* The packet probe. *)

UdpStates ==
    [sent : Nat, copies : [Packets -> Nat], buffer : Seq(Packets), taken : Nat,
     received : SUBSET Packets, duplicate_packets : Nat, reordered_packets : Nat,
     highest_sequence : Nat, has_sequence : BOOLEAN, serving : BOOLEAN,
     result : {"none", "reported", "failed"}]

Firsts(a) == {i \in DOMAIN a : \A j \in 1..(i - 1) : a[j] # a[i]}
Overtaken(a) == {i \in Firsts(a) : \E j \in 1..(i - 1) : a[j] > a[i]}

\* The account s of a sequence of arrivals.
AccountOf(s, a) ==
    /\ s.received = {a[i] : i \in DOMAIN a}
    /\ IsFiniteSet(s.received) /\ Cardinality(s.received) = Cardinality(Firsts(a))
    /\ s.duplicate_packets = Len(a) - Cardinality(Firsts(a))
    /\ s.reordered_packets = Cardinality(Overtaken(a))
    /\ s.has_sequence <=> a # <<>>
    /\ \A i \in DOMAIN a : a[i] <= s.highest_sequence
    /\ IF s.has_sequence THEN \E i \in DOMAIN a : a[i] = s.highest_sequence
       ELSE s.highest_sequence = 0

ArrivedOf(s) == SubSeq(s.buffer, 1, s.taken)

UdpInv ==
    /\ udp \in UdpStates
    /\ udp.taken <= Len(udp.buffer)
    /\ AccountOf(udp, ArrivedOf(udp))

\* What one more arrival adds to the first ones of their number, and to those overtaken.
LEMMA OneMoreArrival ==
    ASSUME NEW a \in Seq(Nat), NEW x \in Nat
    PROVE  LET b == Append(a, x)
               n == Len(a) + 1
               new == \A j \in DOMAIN a : a[j] # x
           IN  /\ Firsts(b) = IF new THEN Firsts(a) \cup {n} ELSE Firsts(a)
               /\ Overtaken(b) = IF new /\ \E j \in DOMAIN a : a[j] > x
                                 THEN Overtaken(a) \cup {n} ELSE Overtaken(a)
               /\ n \notin Firsts(a) /\ n \notin Overtaken(a)
               /\ IsFiniteSet(Firsts(a)) /\ IsFiniteSet(Overtaken(a))
<1> DEFINE b == Append(a, x)
           n == Len(a) + 1
           new == \A j \in DOMAIN a : a[j] # x
<1>1. DOMAIN a = 1..Len(a) /\ Len(a) \in Nat /\ DOMAIN b = 1..n /\ b[n] = x
      /\ \A j \in 1..Len(a) : b[j] = a[j]
  OBVIOUS
<1> HIDE DEF b
<1>2. \A i \in 1..Len(a) : i \in Firsts(b) <=> i \in Firsts(a)
  BY <1>1 DEF Firsts
<1>3. n \in Firsts(b) <=> new
  BY <1>1 DEF Firsts
<1>4. Firsts(a) \subseteq 1..Len(a) /\ Firsts(b) \subseteq 1..n /\ Overtaken(a) \subseteq Firsts(a)
      /\ Overtaken(b) \subseteq Firsts(b)
  BY <1>1 DEF Firsts, Overtaken
<1>5. n \notin Firsts(a) /\ n \notin Overtaken(a)
  BY <1>1, <1>4
<1>6. Firsts(b) = IF new THEN Firsts(a) \cup {n} ELSE Firsts(a)
  <2>1. \A i \in 1..n : i = n \/ i \in 1..Len(a)
    BY <1>1
  <2>2. QED
    BY <1>2, <1>3, <1>4, <1>5, <2>1
<1>7. \A i \in 1..Len(a) : i \in Overtaken(b) <=> i \in Overtaken(a)
  <2>1. SUFFICES ASSUME NEW i \in 1..Len(a) PROVE i \in Overtaken(b) <=> i \in Overtaken(a)
    OBVIOUS
  <2>2. i \in 1..n /\ i # n /\ \A j \in 1..(i - 1) : b[j] = a[j]
    BY <1>1
  <2>3. b[i] = a[i]
    BY <1>1
  <2>4. QED
    BY <1>2, <2>2, <2>3 DEF Overtaken
<1>8. n \in Overtaken(b) <=> new /\ \E j \in DOMAIN a : a[j] > x
  BY <1>1, <1>3 DEF Overtaken
<1>9. Overtaken(b) = IF new /\ \E j \in DOMAIN a : a[j] > x THEN Overtaken(a) \cup {n} ELSE Overtaken(a)
  <2>1. \A i \in 1..n : i = n \/ i \in 1..Len(a)
    BY <1>1
  <2>2. Overtaken(a) \subseteq 1..Len(a) /\ Overtaken(b) \subseteq 1..n
    BY <1>4
  <2> DEFINE above == new /\ \E j \in DOMAIN a : a[j] > x
             A == Overtaken(a)
             B == Overtaken(b)
  <2>3. \A i \in 1..Len(a) : i \in B <=> i \in A
    BY <1>7
  <2>4. n \in B <=> above
    BY <1>8
  <2>5. A \subseteq 1..Len(a) /\ B \subseteq 1..n /\ n \notin A
    BY <2>2, <1>5
  <2> HIDE DEF above, A, B, n
  <2>6. \A i : i \in B <=> i \in A \/ (above /\ i = n)
    BY <2>1, <2>3, <2>4, <2>5, Zenon
  <2>7. B = IF above THEN A \cup {n} ELSE A
    BY <2>6, Zenon
  <2>8. QED
    BY <2>7 DEF above, A, B
<1>10. IsFiniteSet(1..Len(a))
  BY <1>1, FS_Interval
<1>11. IsFiniteSet(Firsts(a)) /\ IsFiniteSet(Overtaken(a))
  <2>1. IsFiniteSet(Firsts(a))
    BY <1>4, <1>10, FS_Subset
  <2>2. QED
    BY <1>4, <2>1, FS_Subset
<1>12. QED
  BY <1>5, <1>6, <1>9, <1>11 DEF b

\* Taking one more.
LEMMA OneMoreTaken ==
    ASSUME NEW S, NEW q \in Seq(S), NEW n \in Nat, n < Len(q)
    PROVE  SubSeq(q, 1, n + 1) = Append(SubSeq(q, 1, n), q[n + 1])
<1> DEFINE a == SubSeq(q, 1, n + 1)
           b == Append(SubSeq(q, 1, n), q[n + 1])
<1>1. SubSeq(q, 1, n) \in Seq(S) /\ Len(SubSeq(q, 1, n)) = n /\ q[n + 1] \in S
  OBVIOUS
<1>2. a \in Seq(S) /\ Len(a) = n + 1 /\ \A i \in 1..(n + 1) : a[i] = q[i]
  OBVIOUS
<1>3. b \in Seq(S) /\ Len(b) = n + 1 /\ \A i \in 1..(n + 1) : b[i] = IF i = n + 1 THEN q[n + 1] ELSE q[i]
  BY <1>1
<1>4. \A i \in 1..(n + 1) : a[i] = b[i]
  BY <1>2, <1>3
<1> HIDE DEF a, b
<1>5. a = b
  BY <1>2, <1>3, <1>4, SeqEqual
<1>6. QED
  BY <1>5 DEF a, b

\* Arrivals are numbers.
LEMMA PacketsAreNumbers ==
    /\ Packets \subseteq Nat
    /\ \A a \in Seq(Packets) : a \in Seq(Nat)
<1>1. Packets \subseteq Nat
  BY UdpAssumption DEF Packets
<1> HIDE DEF Packets
<1>2. ASSUME NEW a \in Seq(Packets) PROVE a \in Seq(Nat)
  BY <1>1, SeqMonotonic
<1>3. QED
  BY <1>1, <1>2

\* The account after one more arrival.
LEMMA AccountGrows ==
    ASSUME udp \in UdpStates, NEW a \in Seq(Packets), AccountOf(udp, a), NEW x \in Packets
    PROVE  AccountOf((IF x \in udp.received THEN [udp EXCEPT !.duplicate_packets = @ + 1] ELSE Counted(x)),
                     Append(a, x))
<1> DEFINE b == Append(a, x)
           n == Len(a) + 1
           new == \A j \in DOMAIN a : a[j] # x
           t == IF x \in udp.received THEN [udp EXCEPT !.duplicate_packets = @ + 1] ELSE Counted(x)
           higher == \E j \in DOMAIN a : a[j] > x
<1>1. Packets \subseteq Nat /\ a \in Seq(Nat) /\ x \in Nat
  BY PacketsAreNumbers
<1>2. /\ Firsts(b) = IF new THEN Firsts(a) \cup {n} ELSE Firsts(a)
      /\ Overtaken(b) = IF new /\ higher THEN Overtaken(a) \cup {n} ELSE Overtaken(a)
      /\ n \notin Firsts(a) /\ n \notin Overtaken(a)
      /\ IsFiniteSet(Firsts(a)) /\ IsFiniteSet(Overtaken(a))
  BY <1>1, OneMoreArrival
<1>3. /\ udp.received = {a[i] : i \in DOMAIN a}
      /\ IsFiniteSet(udp.received) /\ Cardinality(udp.received) = Cardinality(Firsts(a))
      /\ udp.duplicate_packets = Len(a) - Cardinality(Firsts(a))
      /\ udp.reordered_packets = Cardinality(Overtaken(a))
      /\ udp.has_sequence <=> a # <<>>
      /\ \A i \in DOMAIN a : a[i] <= udp.highest_sequence
      /\ IF udp.has_sequence THEN \E i \in DOMAIN a : a[i] = udp.highest_sequence
         ELSE udp.highest_sequence = 0
  BY DEF AccountOf
<1>4. x \in udp.received <=> ~new
  BY <1>3
<1>5. DOMAIN a = 1..Len(a) /\ Len(a) \in Nat /\ Len(b) = n /\ DOMAIN b = 1..n /\ b[n] = x
      /\ \A j \in 1..Len(a) : b[j] = a[j] /\ a[j] \in Nat
  BY <1>1
<1>6. udp.highest_sequence \in Nat /\ udp.duplicate_packets \in Nat /\ udp.reordered_packets \in Nat
  BY DEF UdpStates
<1>7. Cardinality(Firsts(a)) \in Nat /\ Cardinality(Overtaken(a)) \in Nat
      /\ Cardinality(Firsts(a) \cup {n}) = Cardinality(Firsts(a)) + 1
      /\ Cardinality(Overtaken(a) \cup {n}) = Cardinality(Overtaken(a)) + 1
  BY <1>2, FS_CardinalityType, FS_AddElement
<1>8. {b[i] : i \in DOMAIN b} = udp.received \cup {x}
  <2>1. \A i \in 1..n : i = n \/ i \in 1..Len(a)
    BY <1>5
  <2>2. \A i \in 1..Len(a) : i \in 1..n
    BY <1>5
  <2>3. n \in 1..n
    BY <1>5
  <2> HIDE DEF b, n
  <2>4. QED
    BY <1>3, <1>5, <2>1, <2>2, <2>3
<1>9. b # <<>>
  BY <1>5
<1> HIDE DEF b, new, higher, n
<1>10. CASE x \in udp.received
  <2>1. t = [udp EXCEPT !.duplicate_packets = udp.duplicate_packets + 1]
    BY <1>10
  <2>2. t.received = udp.received /\ t.duplicate_packets = udp.duplicate_packets + 1
        /\ t.reordered_packets = udp.reordered_packets /\ t.has_sequence = udp.has_sequence
        /\ t.highest_sequence = udp.highest_sequence
    BY <2>1 DEF UdpStates
  <2>3. t.received = {b[i] : i \in DOMAIN b}
    BY <1>8, <1>10, <2>2
  <2>4. Firsts(b) = Firsts(a) /\ Overtaken(b) = Overtaken(a)
    BY <1>2, <1>4, <1>10
  <2>5. t.duplicate_packets = Len(b) - Cardinality(Firsts(b))
    BY <1>3, <1>5, <1>6, <1>7, <2>2, <2>4 DEF n
  <2>6. a # <<>>
    BY <1>3, <1>10
  <2>7. \A i \in DOMAIN b : b[i] <= t.highest_sequence
    <3>1. x <= udp.highest_sequence
      BY <1>3, <1>10
    <3>2. QED
      BY <1>3, <1>5, <2>2, <3>1 DEF n
  <2>8. \E i \in DOMAIN b : b[i] = t.highest_sequence
    <3>1. PICK i \in DOMAIN a : a[i] = udp.highest_sequence
      BY <1>3, <2>6
    <3>2. i \in DOMAIN b /\ b[i] = a[i]
      BY <1>5 DEF n
    <3>3. QED
      BY <2>2, <3>1, <3>2
  <2> HIDE DEF t
  <2>9. AccountOf(t, b)
    BY <1>3, <1>9, <2>2, <2>3, <2>4, <2>5, <2>6, <2>7, <2>8 DEF AccountOf
  <2>10. QED
    BY <2>9 DEF t, b
<1>11. CASE x \notin udp.received
  <2> DEFINE late == udp.has_sequence /\ x < udp.highest_sequence
  <2>1. t = Counted(x)
    BY <1>11
  <2>2. /\ t.received = udp.received \cup {x} /\ t.duplicate_packets = udp.duplicate_packets
        /\ t.reordered_packets = udp.reordered_packets + (IF late THEN 1 ELSE 0)
        /\ t.has_sequence = TRUE
        /\ t.highest_sequence = IF x > udp.highest_sequence THEN x ELSE udp.highest_sequence
    BY <2>1 DEF UdpStates, Counted
  <2>3. late <=> higher
    <3>1. ASSUME late PROVE higher
      BY <1>3, <3>1 DEF higher
    <3>2. ASSUME higher PROVE late
      <4>1. PICK j \in DOMAIN a : a[j] > x
        BY <3>2 DEF higher
      <4>2. a # <<>> /\ a[j] <= udp.highest_sequence /\ a[j] \in Nat
        BY <1>3, <1>5, <4>1
      <4>3. QED
        BY <1>1, <1>3, <1>6, <4>1, <4>2
    <3>3. QED
      BY <3>1, <3>2
  <2>4. Firsts(b) = Firsts(a) \cup {n} /\ Overtaken(b) = IF higher THEN Overtaken(a) \cup {n} ELSE Overtaken(a)
    BY <1>2, <1>4, <1>11
  <2>5. t.duplicate_packets = Len(b) - Cardinality(Firsts(b))
    BY <1>3, <1>5, <1>6, <1>7, <2>2, <2>4 DEF n
  <2>6. t.reordered_packets = Cardinality(Overtaken(b))
    <3> HIDE DEF late, t
    <3>1. QED
      BY <1>3, <1>6, <1>7, <2>2, <2>3, <2>4
  <2>7. IsFiniteSet(t.received) /\ Cardinality(t.received) = Cardinality(Firsts(b))
    <3>1. IsFiniteSet(udp.received \cup {x})
          /\ Cardinality(udp.received \cup {x}) = Cardinality(udp.received) + 1
      BY <1>3, <1>11, FS_AddElement
    <3> HIDE DEF t, late
    <3>2. QED
      BY <1>3, <1>7, <2>2, <2>4, <3>1
  <2>8. \A i \in DOMAIN b : b[i] <= t.highest_sequence
    <3>1. \A i \in DOMAIN b : i = n \/ i \in 1..Len(a)
      BY <1>5 DEF n
    <3>2. x <= t.highest_sequence /\ udp.highest_sequence <= t.highest_sequence /\ t.highest_sequence \in Nat
      BY <1>1, <1>6, <2>2
    <3> HIDE DEF t
    <3>3. QED
      BY <1>1, <1>3, <1>5, <1>6, <3>1, <3>2, SMTT(30)
  <2>9. \E i \in DOMAIN b : b[i] = t.highest_sequence
    <3>1. CASE t.highest_sequence = x
      BY <1>5, <3>1 DEF n
    <3>2. CASE t.highest_sequence # x
      <4>1. t.highest_sequence = udp.highest_sequence /\ x < udp.highest_sequence
        BY <1>1, <1>6, <2>2, <3>2
      <4>2. a # <<>>
        <5>1. udp.highest_sequence # 0
          BY <1>1, <1>6, <4>1
        <5>2. QED
          BY <1>3, <1>6, <5>1
      <4>3. PICK i \in DOMAIN a : a[i] = udp.highest_sequence
        BY <1>3, <4>2
      <4>4. i \in DOMAIN b /\ b[i] = a[i]
        BY <1>5 DEF n
      <4>5. QED
        BY <4>1, <4>3, <4>4
    <3>3. QED
      BY <3>1, <3>2
  <2>10. t.received = {b[i] : i \in DOMAIN b}
    BY <1>8, <2>2
  <2> HIDE DEF t, late
  <2>11. AccountOf(t, b)
    BY <1>9, <2>2, <2>5, <2>6, <2>7, <2>8, <2>9, <2>10 DEF AccountOf
  <2>12. QED
    BY <2>11 DEF t, b
<1>12. QED
  BY <1>10, <1>11

LEMMA InitUdp == udp = UdpStart => UdpInv
<1>1. SUFFICES ASSUME udp = UdpStart PROVE UdpInv
  OBVIOUS
<1>2. udp = [sent |-> 0, copies |-> [s \in Packets |-> 0], buffer |-> <<>>, taken |-> 0,
             received |-> {}, duplicate_packets |-> 0, reordered_packets |-> 0,
             highest_sequence |-> 0, has_sequence |-> FALSE, serving |-> TRUE, result |-> "none"]
  BY <1>1 DEF UdpStart
<1>3. udp \in UdpStates
  BY <1>2 DEF UdpStates
<1>4. ArrivedOf(udp) = <<>> /\ udp.taken <= Len(udp.buffer)
  BY <1>2 DEF ArrivedOf
<1>5. Firsts(<<>>) = {} /\ Overtaken(<<>>) = {}
  BY DEF Firsts, Overtaken
<1>6. AccountOf(udp, <<>>)
  <2>1. DOMAIN <<>> = {} /\ Len(<<>>) = 0 /\ {<<>>[i] : i \in {}} = {}
    OBVIOUS
  <2>2. udp.received = {} /\ udp.duplicate_packets = 0 /\ udp.reordered_packets = 0
        /\ udp.has_sequence = FALSE /\ udp.highest_sequence = 0
    BY <1>2
  <2>3. IsFiniteSet({}) /\ Cardinality({}) = 0
    BY FS_EmptySet
  <2>4. udp.received = {<<>>[i] : i \in DOMAIN <<>>}
    BY <2>2
  <2>5. 0 = 0 - 0
    OBVIOUS
  <2>6. QED
    BY <1>5, <2>1, <2>2, <2>3, <2>4, <2>5, Zenon DEF AccountOf
<1>7. QED
  BY <1>3, <1>4, <1>6 DEF UdpInv

\* The account is about the numbers in it and about what was taken from the buffer.
LEMMA SameAccount ==
    ASSUME NEW s, NEW t, NEW a, AccountOf(s, a),
           t.received = s.received, t.duplicate_packets = s.duplicate_packets,
           t.reordered_packets = s.reordered_packets, t.highest_sequence = s.highest_sequence,
           t.has_sequence = s.has_sequence
    PROVE  AccountOf(t, a)
BY Zenon DEF AccountOf

LEMMA NextUdp == UdpInv /\ [UdpStep]_udp => UdpInv'
<1> SUFFICES ASSUME UdpInv, [UdpStep]_udp PROVE UdpInv'
  OBVIOUS
<1>1. udp \in UdpStates /\ udp.taken <= Len(udp.buffer) /\ AccountOf(udp, ArrivedOf(udp))
      /\ udp.buffer \in Seq(Packets) /\ udp.taken \in Nat
  BY DEF UdpInv, UdpStates
<1>2. ASSUME udp' \in UdpStates, udp'.taken = udp.taken, udp'.buffer = udp.buffer,
             udp'.received = udp.received, udp'.duplicate_packets = udp.duplicate_packets,
             udp'.reordered_packets = udp.reordered_packets, udp'.highest_sequence = udp.highest_sequence,
             udp'.has_sequence = udp.has_sequence
      PROVE  UdpInv'
  <2>1. ArrivedOf(udp') = ArrivedOf(udp)
    BY <1>2 DEF ArrivedOf
  <2>2. AccountOf(udp', ArrivedOf(udp'))
    BY <1>1, <1>2, <2>1, SameAccount
  <2>3. QED
    BY <1>1, <1>2, <2>2 DEF UdpInv
<1>3. CASE SendPacket
  <2>1. PICK n \in 0..(IF udp.serving THEN MaxCopies ELSE 0) :
            udp' = [udp EXCEPT !.sent = udp.sent + 1, !.copies[udp.sent] = n]
    BY <1>3 DEF SendPacket
  <2>2. n \in Nat /\ udp.sent + 1 \in Nat
    BY <1>1, UdpAssumption DEF UdpStates
  <2>3. udp' \in UdpStates
    BY <1>1, <2>1, <2>2 DEF UdpStates
  <2>4. udp'.taken = udp.taken /\ udp'.buffer = udp.buffer /\
        udp'.received = udp.received /\ udp'.duplicate_packets = udp.duplicate_packets /\
        udp'.reordered_packets = udp.reordered_packets /\ udp'.highest_sequence = udp.highest_sequence /\
        udp'.has_sequence = udp.has_sequence
    BY <1>1, <2>1 DEF UdpStates
  <2>5. QED
    BY <1>2, <2>3, <2>4
<1>4. CASE ServerTimesOut \/ ConnectionRefused \/ Report
  <2>1. udp' = [udp EXCEPT !.serving = FALSE] \/ udp' = [udp EXCEPT !.result = "failed"]
        \/ udp' = [udp EXCEPT !.result = "reported"]
    BY <1>4 DEF ServerTimesOut, ConnectionRefused, Report
  <2>2. udp' \in UdpStates
    BY <1>1, <2>1 DEF UdpStates
  <2>3. udp'.taken = udp.taken /\ udp'.buffer = udp.buffer /\
        udp'.received = udp.received /\ udp'.duplicate_packets = udp.duplicate_packets /\
        udp'.reordered_packets = udp.reordered_packets /\ udp'.highest_sequence = udp.highest_sequence /\
        udp'.has_sequence = udp.has_sequence
    BY <1>1, <2>1 DEF UdpStates
  <2>4. QED
    BY <1>2, <2>2, <2>3
<1>5. CASE EchoArrives
  <2>1. PICK x \in Packets : udp.copies[x] > 0
            /\ udp' = [udp EXCEPT !.copies[x] = udp.copies[x] - 1, !.buffer = Append(udp.buffer, x)]
    BY <1>5, <1>1 DEF EchoArrives, UdpStates
  <2>2. udp.copies[x] - 1 \in Nat /\ Append(udp.buffer, x) \in Seq(Packets)
    BY <1>1, <2>1 DEF UdpStates
  <2> DEFINE n == udp.copies[x] - 1
             c == Append(udp.buffer, x)
  <2>3. n \in Nat /\ c \in Seq(Packets) /\ udp' = [udp EXCEPT !.copies[x] = n, !.buffer = c]
    BY <2>1, <2>2
  <2>4. udp.taken <= Len(c) /\ SubSeq(c, 1, udp.taken) = SubSeq(udp.buffer, 1, udp.taken)
    BY <1>1
  <2> HIDE DEF n, c
  <2>5. udp' \in UdpStates
    BY <1>1, <2>3 DEF UdpStates
  <2>6. udp'.taken = udp.taken /\ udp'.buffer = c /\
        udp'.received = udp.received /\ udp'.duplicate_packets = udp.duplicate_packets /\
        udp'.reordered_packets = udp.reordered_packets /\ udp'.highest_sequence = udp.highest_sequence /\
        udp'.has_sequence = udp.has_sequence
    BY <1>1, <2>3 DEF UdpStates
  <2>7. AccountOf(udp', ArrivedOf(udp))
    BY <1>1, <2>6, SameAccount
  <2>8. ArrivedOf(udp') = ArrivedOf(udp)
    BY <2>4, <2>6 DEF ArrivedOf
  <2>9. QED
    BY <2>4, <2>5, <2>6, <2>7, <2>8 DEF UdpInv
<1>6. CASE Receive
  <2> DEFINE x == udp.buffer[udp.taken + 1]
             a == ArrivedOf(udp)
             s == IF x \in udp.received THEN [udp EXCEPT !.duplicate_packets = @ + 1] ELSE Counted(x)
  <2>1. udp.taken < Len(udp.buffer) /\ udp' = [s EXCEPT !.taken = s.taken + 1]
    BY <1>6 DEF Receive
  <2>2. x \in Packets /\ a \in Seq(Packets)
    BY <1>1, <2>1 DEF ArrivedOf
  <2>3. AccountOf(s, Append(a, x))
    <3> HIDE DEF x, a
    <3>1. QED
      BY <1>1, <2>2, AccountGrows DEF a
  <2>4. SubSeq(udp.buffer, 1, udp.taken + 1) = Append(a, x)
    BY <1>1, <2>1, OneMoreTaken DEF ArrivedOf
  <2>5. x \in Nat
    BY <2>2, PacketsAreNumbers
  <2>6. s \in UdpStates /\ s.taken = udp.taken /\ s.buffer = udp.buffer
    <3> HIDE DEF x
    <3>1. CASE x \in udp.received
      <4>1. s = [udp EXCEPT !.duplicate_packets = udp.duplicate_packets + 1]
        BY <3>1
      <4>2. udp.duplicate_packets + 1 \in Nat
        BY <1>1 DEF UdpStates
      <4>3. QED
        BY <1>1, <4>1, <4>2 DEF UdpStates
    <3>2. CASE x \notin udp.received
      <4> DEFINE more == udp.reordered_packets + (IF udp.has_sequence /\ x < udp.highest_sequence THEN 1 ELSE 0)
                 high == IF x > udp.highest_sequence THEN x ELSE udp.highest_sequence
                 set == udp.received \cup {x}
      <4>1. s = [udp EXCEPT !.received = set, !.reordered_packets = more, !.highest_sequence = high,
                            !.has_sequence = TRUE]
        BY <3>2 DEF Counted
      <4>2. more \in Nat /\ high \in Nat /\ set \in SUBSET Packets
        BY <1>1, <2>2, <2>5 DEF UdpStates
      <4> HIDE DEF more, high, set
      <4>3. QED
        BY <1>1, <4>1, <4>2, ZenonT(60) DEF UdpStates
    <3>3. QED
      BY <3>1, <3>2
  <2> DEFINE k == s.taken + 1
  <2> HIDE DEF s, x, a
  <2>12. k \in Nat /\ k = udp.taken + 1 /\ udp' = [s EXCEPT !.taken = k]
    BY <1>1, <2>1, <2>6
  <2> HIDE DEF k
  <2>7. udp' \in UdpStates /\ udp'.taken = udp.taken + 1 /\ udp'.buffer = udp.buffer /\
        udp'.received = s.received /\ udp'.duplicate_packets = s.duplicate_packets /\
        udp'.reordered_packets = s.reordered_packets /\ udp'.highest_sequence = s.highest_sequence /\
        udp'.has_sequence = s.has_sequence
    BY <2>6, <2>12 DEF UdpStates
  <2>8. AccountOf(udp', Append(a, x))
    BY <2>3, <2>7, SameAccount
  <2>9. ArrivedOf(udp') = Append(a, x)
    BY <2>4, <2>7 DEF ArrivedOf
  <2>10. udp'.taken <= Len(udp'.buffer)
    BY <1>1, <2>1, <2>7
  <2>11. QED
    BY <2>7, <2>8, <2>9, <2>10 DEF UdpInv
<1>7. CASE UNCHANGED udp
  BY <1>7, Zenon DEF UdpInv, ArrivedOf, AccountOf
<1>8. QED
  BY <1>3, <1>4, <1>5, <1>6, <1>7, Zenon DEF UdpStep

LEMMA Accounts == UdpInv => LossIsAccounted
<1> SUFFICES ASSUME UdpInv PROVE LossIsAccounted
  OBVIOUS
<1> DEFINE a == ArrivedOf(udp)
<1>1. udp \in UdpStates /\ udp.taken <= Len(udp.buffer) /\ AccountOf(udp, a)
      /\ udp.buffer \in Seq(Packets) /\ udp.taken \in Nat
  BY DEF UdpInv, UdpStates
<1>2. a \in Seq(Nat) /\ Len(a) = udp.taken /\ DOMAIN a = 1..udp.taken
  <2>1. a \in Seq(Packets) /\ Len(a) = udp.taken /\ DOMAIN a = 1..udp.taken
    BY <1>1 DEF ArrivedOf
  <2>2. QED
    BY <2>1, PacketsAreNumbers
<1> HIDE DEF a
<1>3. Cardinality(Firsts(a)) \in Nat /\ Cardinality(udp.received) = Cardinality(Firsts(a))
  BY <1>1, FS_CardinalityType DEF AccountOf
<1>4. PacketCount \in Nat
  BY UdpAssumption
<1>5. ASSUME \A i, j \in DOMAIN a : i < j => a[i] < a[j]
      PROVE  udp.duplicate_packets = 0 /\ udp.reordered_packets = 0
  <2>1. \A i \in DOMAIN a : \A j \in 1..(i - 1) : a[j] < a[i] /\ a[j] \in Nat /\ a[i] \in Nat
    BY <1>2, <1>5, SMTT(30)
  <2>2. Firsts(a) = 1..udp.taken /\ Overtaken(a) = {}
    BY <1>2, <2>1 DEF Firsts, Overtaken
  <2>3. Cardinality(Firsts(a)) = udp.taken
    BY <1>1, <2>2, FS_Interval
  <2>4. Cardinality(Overtaken(a)) = 0
    BY <2>2, FS_EmptySet
  <2>5. QED
    BY <1>1, <1>2, <2>3, <2>4 DEF AccountOf
<1>6. Cardinality(Firsts(a)) + lost_packets = PacketCount
  BY <1>3, <1>4 DEF lost_packets
<1>7. udp.duplicate_packets = udp.taken - Cardinality(Firsts(a))
      /\ udp.reordered_packets = Cardinality(Overtaken(a))
  BY <1>1, <1>2 DEF AccountOf
<1>8. QED
  BY <1>5, <1>6, <1>7, Zenon DEF LossIsAccounted, ArrivedOf, Firsts, Overtaken, a

\* Whatever the network loses, repeats and reorders, the client counts every packet as received
\* or lost, an arrival beyond the first as a duplicate, and as reordered what a later one overtook.
THEOREM EveryPacketIsAccounted == UdpSpec => []LossIsAccounted
<1>1. UdpSpec => []UdpInv
  BY InitUdp, NextUdp, PTL DEF UdpSpec
<1>2. QED
  BY <1>1, Accounts, PTL

-----------------------------------------------------------------------------

(* The process experiment. *)

\* The script's steps by kind, and the processes it has running before each.
Alive ==
    << {}, {"directory"}, {"directory", "signaling"}, {"directory", "signaling", "direct-gameplay"},
       {"directory", "signaling", "direct-gameplay", "turn-primary"},
       {"directory", "signaling", "direct-gameplay", "turn-primary"},
       {"directory", "signaling", "direct-gameplay", "turn-primary"},
       {"directory", "signaling", "direct-gameplay", "turn-primary"},
       {"directory", "signaling", "direct-gameplay", "turn-primary"},
       {"signaling", "direct-gameplay", "turn-primary"},
       {"signaling", "direct-gameplay", "turn-primary"},
       {"signaling", "direct-gameplay", "turn-primary"},
       {"direct-gameplay", "turn-primary"}, {"direct-gameplay", "turn-primary"},
       {"direct-gameplay", "turn-primary"},
       {"direct-gameplay", "turn-primary", "signaling-replacement"},
       {"direct-gameplay", "signaling-replacement"}, {"direct-gameplay", "signaling-replacement"},
       {"direct-gameplay", "signaling-replacement"},
       {"direct-gameplay", "signaling-replacement", "turn-replacement"},
       {"direct-gameplay", "signaling-replacement", "turn-replacement"} >>

\* What step k of the script asks for.
ServicesAt(k) == Range(Script[k].services)

LEMMA ScriptLength == Len(Script) = 20 /\ \A k \in 1..20 : Script[k].do \in {"spawn", "stop", "probe"}
BY DEF Script, Starts, Stops, Asks

LEMMA RangeOfOne == ASSUME NEW a PROVE Range(<<a>>) = {a}
BY DEF Range

LEMMA RangeOfTwo == ASSUME NEW a, NEW b PROVE Range(<<a, b>>) = {a, b}
BY DEF Range

LEMMA StartedAt ==
    \A k \in 1..20 : /\ Script[k].do = "spawn" => Alive[k + 1] = Alive[k] \cup ServicesAt(k)
                     /\ Script[k].do = "stop" => Alive[k + 1] = Alive[k] \ ServicesAt(k)
                     /\ Script[k].do = "probe" => Alive[k + 1] = Alive[k]
<1> SUFFICES ASSUME NEW k \in 1..20
             PROVE  /\ Script[k].do = "spawn" => Alive[k + 1] = Alive[k] \cup ServicesAt(k)
                    /\ Script[k].do = "stop" => Alive[k + 1] = Alive[k] \ ServicesAt(k)
                    /\ Script[k].do = "probe" => Alive[k + 1] = Alive[k]
  OBVIOUS
<1>1. CASE k \in {1, 2, 3, 4}
  <2>1. \/ k = 1 /\ Script[k] = Starts("directory") /\ Alive[k] = {} /\ Alive[k + 1] = {"directory"}
        \/ k = 2 /\ Script[k] = Starts("signaling") /\ Alive[k] = {"directory"}
              /\ Alive[k + 1] = {"directory", "signaling"}
        \/ k = 3 /\ Script[k] = Starts("direct-gameplay") /\ Alive[k] = {"directory", "signaling"}
              /\ Alive[k + 1] = {"directory", "signaling", "direct-gameplay"}
        \/ k = 4 /\ Script[k] = Starts("turn-primary")
              /\ Alive[k] = {"directory", "signaling", "direct-gameplay"}
              /\ Alive[k + 1] = {"directory", "signaling", "direct-gameplay", "turn-primary"}
    BY <1>1 DEF Script, Alive
  <2>2. QED
    BY <2>1, RangeOfOne DEF Starts, ServicesAt

<1>2. CASE k \in {5, 6, 7, 8, 10, 11, 13, 14, 17, 18, 20}
  <2>1. Script[k].do = "probe"
    BY <1>2 DEF Script, Asks
  <2>2. Alive[5] = Alive[6] /\ Alive[6] = Alive[7] /\ Alive[7] = Alive[8] /\ Alive[8] = Alive[9]
        /\ Alive[10] = Alive[11] /\ Alive[11] = Alive[12] /\ Alive[13] = Alive[14] /\ Alive[14] = Alive[15]
        /\ Alive[17] = Alive[18] /\ Alive[18] = Alive[19] /\ Alive[20] = Alive[21]
    BY DEF Alive
  <2>3. Alive[k + 1] = Alive[k]
    BY <1>2, <2>2
  <2>4. QED
    BY <2>1, <2>3
<1>3. CASE k \in {9, 12, 16}
  <2>1. \/ k = 9 /\ Script[k] = Stops("directory")
              /\ Alive[k] = {"directory", "signaling", "direct-gameplay", "turn-primary"}
              /\ Alive[k + 1] = {"signaling", "direct-gameplay", "turn-primary"}
        \/ k = 12 /\ Script[k] = Stops("signaling")
              /\ Alive[k] = {"signaling", "direct-gameplay", "turn-primary"}
              /\ Alive[k + 1] = {"direct-gameplay", "turn-primary"}
        \/ k = 16 /\ Script[k] = Stops("turn-primary")
              /\ Alive[k] = {"direct-gameplay", "turn-primary", "signaling-replacement"}
              /\ Alive[k + 1] = {"direct-gameplay", "signaling-replacement"}
    BY <1>3 DEF Script, Alive
  <2>2. QED
    BY <2>1, RangeOfOne DEF Stops, ServicesAt
<1>4. CASE k \in {15, 19}
  <2>1. \/ k = 15 /\ Script[k] = Starts("signaling-replacement")
              /\ Alive[k] = {"direct-gameplay", "turn-primary"}
              /\ Alive[k + 1] = {"direct-gameplay", "turn-primary", "signaling-replacement"}
        \/ k = 19 /\ Script[k] = Starts("turn-replacement")
              /\ Alive[k] = {"direct-gameplay", "signaling-replacement"}
              /\ Alive[k + 1] = {"direct-gameplay", "signaling-replacement", "turn-replacement"}
    BY <1>4 DEF Script, Alive
  <2>2. QED
    BY <2>1, RangeOfOne DEF Starts, ServicesAt
<1>5. k \in {1, 2, 3, 4} \/ k \in {5, 6, 7, 8, 10, 11, 13, 14, 17, 18, 20} \/ k \in {9, 12, 16}
      \/ k \in {15, 19}
  OBVIOUS
<1>6. QED
  BY <1>1, <1>2, <1>3, <1>4, <1>5

\* What the browser's model says of the probes' operations.
Up(names, live) == IF names \cap live # {} THEN "available" ELSE "failed"

OperationWith(field, live) ==
    [Operation(field) EXCEPT !.directoryState = Up({"directory"}, live),
         !.signalingState = Up({"signaling", "signaling-replacement"}, live),
         !.turnState = Up({"turn-primary"}, live), !.replacementTurnState = Up({"turn-replacement"}, live)]

LEMMA PredictedAs ==
    ASSUME NEW field, NEW live
    PROVE  LET s == OperationWith(field, live)
           IN  Predicted(field, live) <=>
                   /\ operationAvailable(InputOf(s))
                   /\ s.lifecycle = "established" /\ s.gameplayPath = "direct" => "direct-gameplay" \in live
BY Zenon DEF Predicted, OperationWith, Up

LEMMA PredictedDirect ==
    ASSUME NEW live, NEW field,
           field \notin {"setup_with_directory_down", "ice_restart_with_signaling_down",
                         "relayed_with_active_turn_down", "turn_reallocation_with_replacement"}
    PROVE  Predicted(field, live) <=> "direct-gameplay" \in live
<1> DEFINE s == OperationWith(field, live)
<1>1. Operation(field) = DefaultSession
  BY DEF Operation
<1>2. s.lifecycle = "established" /\ s.gameplayPath = "direct"
  BY <1>1 DEF OperationWith, DefaultSession
<1>3. InputOf(s).lifecycle = "established" /\ InputOf(s).gameplayPath = "direct" /\ InputOf(s).recoveryKind = "none"
  BY <1>2 DEF InputOf
<1>4. operationAvailable(InputOf(s))
  BY <1>3 DEF operationAvailable, requiredControlPlane, dataPathAvailable
<1>5. QED
  BY <1>2, <1>4, PredictedAs

LEMMA PredictedSetup ==
    ASSUME NEW live
    PROVE  Predicted("setup_with_directory_down", live) <=>
               "directory" \in live /\ {"signaling", "signaling-replacement"} \cap live # {}
<1> DEFINE s == OperationWith("setup_with_directory_down", live)
           i == InputOf(s)
<1>1. Operation("setup_with_directory_down") = [DefaultSession EXCEPT !.lifecycle = "establishing"]
  BY DEF Operation
<1>2. s.lifecycle = "establishing" /\ s.gameplayPath = "direct" /\ s.signalingRegionId = 1
      /\ s.directoryState = Up({"directory"}, live)
      /\ s.signalingState = Up({"signaling", "signaling-replacement"}, live)
  BY <1>1 DEF OperationWith, DefaultSession
<1> HIDE DEF s
<1>3. i.lifecycle = "establishing" /\ i.gameplayPath = "direct" /\ i.recoveryKind = "none"
      /\ i.directoryState = s.directoryState /\ i.signalingRegionId = 1
      /\ i.signalingStateByRegion[1] = s.signalingState
  BY <1>2 DEF InputOf, Regions
<1> HIDE DEF i
<1>4. isAvailable(i, Directory) <=> s.directoryState = "available"
  BY <1>3 DEF isAvailable, Directory
<1>5. isAvailable(i, Signaling(i)) <=> s.signalingState = "available"
  BY <1>3 DEF isAvailable, Signaling
<1>6. operationAvailable(i) <=> isAvailable(i, Directory) /\ isAvailable(i, Signaling(i))
  BY <1>3 DEF operationAvailable, requiredControlPlane, dataPathAvailable
<1>7. QED
  BY <1>2, <1>4, <1>5, <1>6, PredictedAs DEF Up, i, s

LEMMA PredictedRestart ==
    ASSUME NEW live
    PROVE  Predicted("ice_restart_with_signaling_down", live) <=>
               {"signaling", "signaling-replacement"} \cap live # {}
<1> DEFINE s == OperationWith("ice_restart_with_signaling_down", live)
           i == InputOf(s)
<1>1. Operation("ice_restart_with_signaling_down") = [DefaultSession EXCEPT !.lifecycle = "recovering"]
  BY DEF Operation
<1>2. s.lifecycle = "recovering" /\ s.gameplayPath = "direct" /\ s.signalingRegionId = 1
      /\ s.recoveryKind = "ice-restart"
      /\ s.signalingState = Up({"signaling", "signaling-replacement"}, live)
  BY <1>1 DEF OperationWith, DefaultSession
<1> HIDE DEF s
<1>3. i.lifecycle = "recovering" /\ i.gameplayPath = "direct" /\ i.recoveryKind = "ice-restart"
      /\ i.signalingRegionId = 1 /\ i.signalingStateByRegion[1] = s.signalingState
  BY <1>2 DEF InputOf, Regions, effectiveRecoveryKind
<1> HIDE DEF i
<1>5. isAvailable(i, Signaling(i)) <=> s.signalingState = "available"
  BY <1>3 DEF isAvailable, Signaling
<1>6. operationAvailable(i) <=> isAvailable(i, Signaling(i))
  BY <1>3 DEF operationAvailable, requiredControlPlane, dataPathAvailable
<1>7. QED
  BY <1>2, <1>5, <1>6, PredictedAs DEF Up, i, s

LEMMA PredictedRelayed ==
    ASSUME NEW live
    PROVE  Predicted("relayed_with_active_turn_down", live) <=> "turn-primary" \in live
<1> DEFINE s == OperationWith("relayed_with_active_turn_down", live)
           i == InputOf(s)
<1>1. Operation("relayed_with_active_turn_down") = [DefaultSession EXCEPT !.gameplayPath = "turn"]
  BY DEF Operation
<1>2. s.lifecycle = "established" /\ s.gameplayPath = "turn" /\ s.turnRegionId = 1
      /\ s.turnState = Up({"turn-primary"}, live)
  BY <1>1 DEF OperationWith, DefaultSession
<1> HIDE DEF s
<1>3. i.lifecycle = "established" /\ i.gameplayPath = "turn" /\ i.recoveryKind = "none"
      /\ i.turnRegionId = 1 /\ i.turnStateByRegion[1] = s.turnState
  BY <1>2 DEF InputOf, Regions, turnStateByRegion, replacementRelevant
<1> HIDE DEF i
<1>5. isAvailable(i, Relay(1)) <=> s.turnState = "available"
  BY <1>3 DEF isAvailable, Relay
<1>6. operationAvailable(i) <=> isAvailable(i, Relay(1))
  BY <1>3 DEF operationAvailable, requiredControlPlane, dataPathAvailable
<1>7. QED
  BY <1>2, <1>5, <1>6, PredictedAs DEF Up, i, s

LEMMA PredictedReallocation ==
    ASSUME NEW live
    PROVE  Predicted("turn_reallocation_with_replacement", live) <=>
               {"signaling", "signaling-replacement"} \cap live # {} /\ "turn-replacement" \in live
<1> DEFINE s == OperationWith("turn_reallocation_with_replacement", live)
           i == InputOf(s)
<1>1. Operation("turn_reallocation_with_replacement") =
          [DefaultSession EXCEPT !.lifecycle = "recovering", !.gameplayPath = "turn",
                                 !.recoveryKind = "turn-reallocate"]
  BY DEF Operation
<1>2. s.lifecycle = "recovering" /\ s.gameplayPath = "turn" /\ s.turnRegionId = 1
      /\ s.recoveryKind = "turn-reallocate" /\ s.signalingRegionId = 1 /\ s.replacementTurnRegionId = 2
      /\ s.replacementTurnState = Up({"turn-replacement"}, live)
      /\ s.signalingState = Up({"signaling", "signaling-replacement"}, live)
  BY <1>1 DEF OperationWith, DefaultSession
<1> HIDE DEF s
<1>3. i.lifecycle = "recovering" /\ i.gameplayPath = "turn" /\ i.recoveryKind = "turn-reallocate"
      /\ i.signalingRegionId = 1 /\ i.signalingStateByRegion[1] = s.signalingState
      /\ i.replacementTurnRegionId = 2 /\ i.turnStateByRegion[2] = s.replacementTurnState
  BY <1>2 DEF InputOf, Regions, turnStateByRegion, replacementRelevant, effectiveRecoveryKind,
              effectiveReplacementTurnState
<1> HIDE DEF i
<1>4. isAvailable(i, Relay(2)) <=> s.replacementTurnState = "available"
  BY <1>3 DEF isAvailable, Relay
<1>5. isAvailable(i, Signaling(i)) <=> s.signalingState = "available"
  BY <1>3 DEF isAvailable, Signaling
<1>6. operationAvailable(i) <=> isAvailable(i, Signaling(i)) /\ isAvailable(i, Relay(2))
  BY <1>3 DEF operationAvailable, requiredControlPlane, dataPathAvailable
<1>7. QED
  BY <1>2, <1>4, <1>5, <1>6, PredictedAs DEF Up, i, s

\* At its place in the script a probe is answered as predicted, even when further processes
\* have died, and with all that the script has running as the gate expects.
LEMMA AskedAt ==
    ASSUME NEW k \in 1..20, Script[k].do = "probe"
    PROVE  LET field == Script[k].field
           IN  /\ ServicesAt(k) \subseteq Alive[k] <=>
                      field \notin {"setup_with_directory_down", "ice_restart_with_signaling_down",
                                    "relayed_with_active_turn_down"}
               /\ field \notin Baselines => \A live \in SUBSET Alive[k] :
                      ServicesAt(k) \subseteq live <=> Predicted(field, live)
<1> DEFINE down == {"setup_with_directory_down", "ice_restart_with_signaling_down",
                    "relayed_with_active_turn_down"}
<1>1. CASE k \in {5, 6, 7, 8}
  <2>1. \/ k = 5 /\ Script[k] = Asks("baseline_directory", <<"directory">>)
        \/ k = 6 /\ Script[k] = Asks("baseline_signaling", <<"signaling">>)
        \/ k = 7 /\ Script[k] = Asks("baseline_direct_gameplay", <<"direct-gameplay">>)
        \/ k = 8 /\ Script[k] = Asks("baseline_turn_relay", <<"turn-primary">>)
    BY <1>1 DEF Script
  <2>2. Alive[k] = {"directory", "signaling", "direct-gameplay", "turn-primary"}
    BY <1>1 DEF Alive
  <2>3. QED
    BY <2>1, <2>2, RangeOfOne, PredictedDirect DEF Asks, ServicesAt, Baselines
<1>2. CASE k \in {11, 14, 17}
  <2>1. \/ k = 11 /\ Script[k] = Asks("direct_with_directory_down", <<"direct-gameplay">>)
        \/ k = 14 /\ Script[k] = Asks("direct_with_signaling_down", <<"direct-gameplay">>)
        \/ k = 17 /\ Script[k] = Asks("direct_with_turn_down", <<"direct-gameplay">>)
    BY <1>2 DEF Script
  <2>2. "direct-gameplay" \in Alive[k]
    BY <1>2 DEF Alive
  <2>3. QED
    BY <2>1, <2>2, RangeOfOne, PredictedDirect DEF Asks, ServicesAt
<1>3. CASE k = 10
  <2>1. Script[k] = Asks("setup_with_directory_down", <<"directory", "signaling">>)
    BY <1>3 DEF Script
  <2>2. Alive[k] = {"signaling", "direct-gameplay", "turn-primary"}
    BY <1>3 DEF Alive
  <2>3. QED
    BY <2>1, <2>2, RangeOfTwo, PredictedSetup DEF Asks, ServicesAt
<1>4. CASE k = 13
  <2>1. Script[k] = Asks("ice_restart_with_signaling_down", <<"signaling">>)
    BY <1>4 DEF Script
  <2>2. Alive[k] = {"direct-gameplay", "turn-primary"}
    BY <1>4 DEF Alive
  <2>3. QED
    BY <2>1, <2>2, RangeOfOne, PredictedRestart DEF Asks, ServicesAt
<1>5. CASE k = 18
  <2>1. Script[k] = Asks("relayed_with_active_turn_down", <<"turn-primary">>)
    BY <1>5 DEF Script
  <2>2. Alive[k] = {"direct-gameplay", "signaling-replacement"}
    BY <1>5 DEF Alive
  <2>3. QED
    BY <2>1, <2>2, RangeOfOne, PredictedRelayed DEF Asks, ServicesAt
<1>6. CASE k = 20
  <2>1. Script[k] = Asks("turn_reallocation_with_replacement", <<"signaling-replacement", "turn-replacement">>)
    BY <1>6 DEF Script
  <2>2. Alive[k] = {"direct-gameplay", "signaling-replacement", "turn-replacement"}
    BY <1>6 DEF Alive
  <2>3. QED
    BY <2>1, <2>2, RangeOfTwo, PredictedReallocation DEF Asks, ServicesAt
<1>7. k \in {1, 2, 3, 4, 9, 12, 15, 16, 19} => Script[k].do # "probe"
  BY DEF Script, Starts, Stops
<1>8. k \in {1, 2, 3, 4, 9, 12, 15, 16, 19} \/ k \in {5, 6, 7, 8} \/ k \in {11, 14, 17}
      \/ k \in {10, 13, 18, 20}
  OBVIOUS
<1>9. QED
  BY <1>1, <1>2, <1>3, <1>4, <1>5, <1>6, <1>7, <1>8

Expected == {"setup_with_directory_down", "ice_restart_with_signaling_down",
             "relayed_with_active_turn_down"}

\* The live processes are among those the script has running, all of them while none has died;
\* a probe saw processes that were live at its place in the script, and was answered by them.
ProbedAt(e, probe) ==
    \E k \in 1..20 :
        /\ Script[k].do = "probe" /\ Script[k].field = probe.field
        /\ probe.live \subseteq Alive[k]
        /\ e.died = {} => probe.live = Alive[k]
        /\ probe.field \notin e.slow => (probe.answered <=> ServicesAt(k) \subseteq probe.live)

ExperimentInv(e) ==
    /\ e.at \in 1..21
    /\ e.result = "none" => e.running \subseteq Alive[e.at]
    /\ e.died = {} /\ e.result = "none" => e.running = Alive[e.at]
    /\ e.result = "reported" => e.running = {}
    /\ e.result = "failed" => e.at <= 20 /\ e.running \subseteq ServicesAt(e.at)
    /\ \A probe \in e.report : ProbedAt(e, probe)

ExperimentShape(e) == \E a, r, p, s, d, o :
    e = [at |-> a, running |-> r, report |-> p, slow |-> s, died |-> d, result |-> o]

LEMMA NextExperiment ==
    ASSUME ExperimentShape(experiment), ExperimentInv(experiment), ExperimentStep
    PROVE  ExperimentShape(experiment') /\ ExperimentInv(experiment')
<1> DEFINE e == experiment
           k == e.at
<1> USE ScriptLength
<1>1. k \in 1..21 /\ (e.result = "none" => e.running \subseteq Alive[k])
      /\ (e.died = {} /\ e.result = "none" => e.running = Alive[k])
      /\ \A probe \in e.report : ProbedAt(e, probe)
  BY DEF ExperimentInv
<1>2. ASSUME NEW do, Step(do)
      PROVE  e.result = "none" /\ k \in 1..20 /\ Script[k].do = do /\ Services = ServicesAt(k)
  BY <1>1, <1>2 DEF Step, Services, ServicesAt
<1>3. ASSUME NEW f, f.died = e.died, f.slow = e.slow, f.report = e.report
      PROVE  \A probe \in f.report : ProbedAt(f, probe)
  BY <1>1, <1>3 DEF ProbedAt
<1>4. CASE SpawnService
  <2>1. e.result = "none" /\ k \in 1..20 /\ Script[k].do = "spawn" /\ Services = ServicesAt(k)
    BY <1>2, <1>4 DEF SpawnService
  <2>2. /\ e'.at = k + 1 /\ e'.running = e.running \cup Services /\ e'.result = "none"
        /\ e'.died = e.died /\ e'.slow = e.slow /\ e'.report = e.report /\ ExperimentShape(e')
    BY <1>4, <2>1 DEF SpawnService, ExperimentShape
  <2>3. Alive[k + 1] = Alive[k] \cup ServicesAt(k)
    BY <2>1, StartedAt
  <2>4. \A probe \in e'.report : ProbedAt(e', probe)
    BY <1>3, <2>2
  <2>5. QED
    BY <1>1, <2>1, <2>2, <2>3, <2>4 DEF ExperimentInv
<1>5. CASE SpawnFails \/ StopFails
  <2>1. PICK do \in {"spawn", "stop"} : GivesUp(do)
    BY <1>5 DEF SpawnFails, StopFails
  <2>2. k \in 1..20 /\ Services = ServicesAt(k)
    BY <1>2, <2>1 DEF GivesUp
  <2>3. PICK left \in SUBSET Services : e' = [e EXCEPT !.running = left, !.result = "failed"]
    BY <2>1 DEF GivesUp
  <2>4. /\ e'.at = k /\ e'.running = left /\ e'.result = "failed"
        /\ e'.died = e.died /\ e'.slow = e.slow /\ e'.report = e.report /\ ExperimentShape(e')
    BY <2>3 DEF ExperimentShape
  <2>5. \A probe \in e'.report : ProbedAt(e', probe)
    BY <1>3, <2>4
  <2>6. QED
    BY <1>1, <2>2, <2>3, <2>4, <2>5 DEF ExperimentInv
<1>6. CASE StopService
  <2>1. e.result = "none" /\ k \in 1..20 /\ Script[k].do = "stop" /\ Services = ServicesAt(k)
    BY <1>2, <1>6 DEF StopService
  <2>2. /\ e'.at = k + 1 /\ e'.running = e.running \ Services /\ e'.result = "none"
        /\ e'.died = e.died /\ e'.slow = e.slow /\ e'.report = e.report /\ ExperimentShape(e')
    BY <1>6, <2>1 DEF StopService, ExperimentShape
  <2>3. Alive[k + 1] = Alive[k] \ ServicesAt(k)
    BY <2>1, StartedAt
  <2>4. \A probe \in e'.report : ProbedAt(e', probe)
    BY <1>3, <2>2
  <2>5. QED
    BY <1>1, <2>1, <2>2, <2>3, <2>4 DEF ExperimentInv
<1>7. CASE ProbeServices
  <2> DEFINE up == Services \subseteq e.running
             field == Script[k].field
  <2>1. e.result = "none" /\ k \in 1..20 /\ Script[k].do = "probe" /\ Services = ServicesAt(k)
    BY <1>2, <1>7 DEF ProbeServices
  <2>2. PICK answered \in {FALSE, up} :
            e' = [e EXCEPT !.at = @ + 1,
                      !.report = @ \cup {[field |-> field, answered |-> answered, live |-> e.running]},
                      !.slow = IF answered = up THEN @ ELSE @ \cup {field}]
    BY <1>7 DEF ProbeServices
  <2>3. /\ e'.at = k + 1 /\ e'.running = e.running /\ e'.result = "none" /\ e'.died = e.died
        /\ e'.report = e.report \cup {[field |-> field, answered |-> answered, live |-> e.running]}
        /\ e'.slow = IF answered = up THEN e.slow ELSE e.slow \cup {field}
        /\ ExperimentShape(e')
    BY <2>1, <2>2, ZenonT(60) DEF ExperimentShape
  <2>4. Alive[k + 1] = Alive[k]
    BY <2>1, StartedAt
  <2>5. ASSUME NEW probe \in e'.report PROVE ProbedAt(e', probe)
    <3>1. e.slow \subseteq e'.slow
      BY <2>3
    <3>2. CASE probe \in e.report
      BY <1>1, <2>3, <3>1, <3>2 DEF ProbedAt
    <3>3. CASE probe = [field |-> field, answered |-> answered, live |-> e.running]
      <4>1. probe.field = field /\ probe.live = e.running /\ probe.answered = answered
        BY <3>3
      <4>2. field \notin e'.slow => answered = up
        BY <2>3
      <4>3. probe.live \subseteq Alive[k] /\ (e'.died = {} => probe.live = Alive[k])
        BY <1>1, <2>1, <2>3, <4>1
      <4>4. probe.field \notin e'.slow => (probe.answered <=> ServicesAt(k) \subseteq probe.live)
        BY <2>1, <4>1, <4>2
      <4>5. QED
        BY <2>1, <4>1, <4>3, <4>4 DEF ProbedAt
    <3>4. QED
      BY <2>3, <2>5, <3>2, <3>3
  <2>6. QED
    BY <1>1, <2>1, <2>3, <2>4, <2>5 DEF ExperimentInv
<1>8. CASE ServiceDies
  <2>1. PICK name \in e.running : e' = [e EXCEPT !.running = @ \ {name}, !.died = @ \cup {name}]
    BY <1>8 DEF ServiceDies
  <2>2. /\ e'.at = k /\ e'.running = e.running \ {name} /\ e'.result = e.result /\ e'.died = e.died \cup {name}
        /\ e'.slow = e.slow /\ e'.report = e.report /\ ExperimentShape(e') /\ e.result = "none"
    BY <1>8, <2>1 DEF ServiceDies, ExperimentShape
  <2>3. \A probe \in e'.report : ProbedAt(e', probe)
    BY <1>1, <2>2 DEF ProbedAt
  <2>4. QED
    BY <1>1, <2>2, <2>3 DEF ExperimentInv
<1>9. CASE Finish
  <2>1. /\ e'.at = k /\ e'.running = {} /\ e'.result = "reported"
        /\ e'.died = e.died /\ e'.slow = e.slow /\ e'.report = e.report /\ ExperimentShape(e')
    BY <1>9, ZenonT(60) DEF Finish, ExperimentShape
  <2>2. \A probe \in e'.report : ProbedAt(e', probe)
    BY <1>3, <2>1
  <2>3. QED
    BY <1>1, <2>1, <2>2 DEF ExperimentInv
<1>10. QED
  BY <1>4, <1>5, <1>6, <1>7, <1>8, <1>9 DEF ExperimentStep

LEMMA ExperimentAnswers ==
    ASSUME ExperimentInv(experiment)
    PROVE  ProcessesFailAsModelled
<1>1. ASSUME NEW probe \in experiment.report, probe.field \notin Baselines \cup experiment.slow
      PROVE  probe.answered <=> Predicted(probe.field, probe.live)
  <2>1. PICK k \in 1..20 :
            /\ Script[k].do = "probe" /\ Script[k].field = probe.field
            /\ probe.live \subseteq Alive[k]
            /\ probe.answered <=> ServicesAt(k) \subseteq probe.live
    BY <1>1 DEF ExperimentInv, ProbedAt
  <2>2. ServicesAt(k) \subseteq probe.live <=> Predicted(probe.field, probe.live)
    BY <1>1, <2>1, AskedAt
  <2>3. QED
    BY <2>1, <2>2
<1>2. ASSUME experiment.slow = {}, experiment.died = {}
      PROVE  expectations_hold
  <2>1. SUFFICES ASSUME NEW probe \in experiment.report
                 PROVE  probe.answered <=> probe.field \notin Expected
    BY DEF expectations_hold, Expected
  <2>2. PICK k \in 1..20 :
            /\ Script[k].do = "probe" /\ Script[k].field = probe.field
            /\ probe.live = Alive[k]
            /\ probe.answered <=> ServicesAt(k) \subseteq probe.live
    BY <1>2, <2>1 DEF ExperimentInv, ProbedAt
  <2>3. ServicesAt(k) \subseteq Alive[k] <=> probe.field \notin Expected
    BY <2>2, AskedAt DEF Expected
  <2>4. QED
    BY <2>2, <2>3
<1>3. /\ experiment.result = "reported" => experiment.running = {}
      /\ experiment.result = "failed" => experiment.running \subseteq Services
  BY ScriptLength DEF ExperimentInv, Services, ServicesAt
<1>4. QED
  BY <1>1, <1>2, <1>3 DEF ProcessesFailAsModelled

\* Whichever processes die and whichever probes time out, each probe of the native experiment
\* shows what the browser's model of failures says of its operation; with nothing but the
\* script's own stops the gate passes, and no process outlives the experiment but one whose
\* start or stop it gave up on.
THEOREM ProcessesAsModelled == ExperimentSpec => []ProcessesFailAsModelled
<1>1. experiment = ExperimentStart => ExperimentShape(experiment) /\ ExperimentInv(experiment)
  <2> HAVE experiment = ExperimentStart
  <2>1. ExperimentShape(experiment)
    BY DEF ExperimentShape, ExperimentStart
  <2>2. Alive[1] = {}
    BY DEF Alive
  <2>3. QED
    BY <2>1, <2>2 DEF ExperimentInv, ExperimentStart
<1>2. ExperimentShape(experiment) /\ ExperimentInv(experiment) /\ [ExperimentStep]_experiment
          => (ExperimentShape(experiment) /\ ExperimentInv(experiment))'
  BY NextExperiment
<1>3. ExperimentInv(experiment) => ProcessesFailAsModelled
  BY ExperimentAnswers
<1>4. QED
  BY <1>1, <1>2, <1>3, PTL DEF ExperimentSpec

-----------------------------------------------------------------------------

(* The three experiments together. *)

\* A dropped probe fails and no other does, every packet is accounted for, and the process
\* experiment finds what the browser's model predicts: in every run of the three programs.
THEOREM ExperimentsFindTheirFaults ==
    LoopbackSpec /\ UdpSpec /\ ExperimentSpec => []ExperimentsHold
BY FailuresAreInjected, EveryPacketIsAccounted, ProcessesAsModelled, PTL DEF ExperimentsHold

=============================================================================
