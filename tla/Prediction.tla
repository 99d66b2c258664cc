------------------------------ MODULE Prediction ------------------------------
(***************************************************************************)
(* PresentationTimeline.present against the kernel: a local player that    *)
(* holds one intent, drawn every millisecond from the last snapshot the    *)
(* client has, while the server keeps ticking.  A newer snapshot may       *)
(* replace the basis at any tick, or be lost.  The same player is also     *)
(* drawn the way another client draws it, interpolated between the two     *)
(* snapshots that client holds.                                            *)
(***************************************************************************)
EXTENDS PresentationTimeline

CONSTANT MaxElapsedMs   \* bound on how long a basis may be kept

ASSUME PredictionAssumption ==
    /\ StepUnits \in Nat /\ WorldLimit \in Nat
    /\ TickMs \in Nat \ {0}
    /\ MaxPredictionTicks \in Nat
    /\ MaxElapsedMs \in Nat

\* The kernel; its players and tick play no part, only how one record steps.
Kernel == INSTANCE AuthoritativeWorld WITH
              PlayerIds <- {0, 1}, Inputs <- {}, MaxPlayers <- 1,
              SpawnSpacing <- 0, SpawnOffset <- 0, MaxTick <- 0,
              tick <- 0, players <- <<>>

VARIABLE presentation   \* actual: the player's record on the server; current, previous: the
                        \* record in the snapshot shown and in the one shown before it;
                        \* elapsedMs: the time since the snapshot shown was received

\* A player that has just been shown for the first time.
PresentationOf(x, y, h, v) ==
    LET record == [x |-> x, y |-> y, horizontal |-> h, vertical |-> v,
                   last_received_sequence |-> 0, last_applied_sequence |-> 0]
    IN  [actual |-> record, current |-> record, previous |-> record, elapsedMs |-> 0]

Presentations ==
    {PresentationOf(x, y, h, v) :
        x \in Kernel!Coordinate, y \in Kernel!Coordinate, h \in Kernel!Axis, v \in Kernel!Axis}

\* A millisecond passes; at each tick boundary the server steps.
TimePasses ==
    LET elapsedMs == presentation.elapsedMs + 1
    IN  /\ elapsedMs <= MaxElapsedMs
        /\ presentation' =
               [presentation EXCEPT
                   !.elapsedMs = elapsedMs,
                   !.actual = IF elapsedMs % TickMs = 0 THEN Kernel!Stepped(@) ELSE @]

\* The snapshot of the tick just taken arrives.
SnapshotArrives ==
    /\ presentation.elapsedMs > 0 /\ presentation.elapsedMs % TickMs = 0
    /\ presentation' = [presentation EXCEPT !.previous = presentation.current,
                                            !.current = presentation.actual,
                                            !.elapsedMs = 0]

PresentationStep == TimePasses \/ SnapshotArrives

PresentationSpec == presentation \in Presentations /\ [][PresentationStep]_presentation

-----------------------------------------------------------------------------

Drawn ==
    predictLocalPlayer(presentation.current, [horizontal |-> presentation.current.horizontal,
                                              vertical |-> presentation.current.vertical],
                       presentation.elapsedMs)

Watched ==
    interpolateRemotePlayer(presentation.previous, presentation.current, presentation.elapsedMs)

\* With an intent that does not change, the local prediction is exactly the server's
\* own arithmetic at every tick boundary within the prediction horizon: stopping at
\* a border once equals stopping at it tick by tick.
PredictionMatchesServer ==
    /\ presentation.elapsedMs % TickMs = 0
    /\ presentation.elapsedMs <= MaxPredictionTicks * TickMs
    => /\ Drawn.x = presentation.actual.x * TickMs
       /\ Drawn.y = presentation.actual.y * TickMs

\* However long the server is silent, a player is never drawn outside the world nor
\* further from the last snapshot than the prediction horizon allows.
PredictionIsBounded ==
    LET reach == MaxPredictionTicks * StepUnits * TickMs
    IN  /\ {Drawn.x, Drawn.y} \subseteq -(WorldLimit * TickMs)..(WorldLimit * TickMs)
        /\ Drawn.x - presentation.current.x * TickMs \in -reach..reach
        /\ Drawn.y - presentation.current.y * TickMs \in -reach..reach

\* A remote player is drawn between its last two authoritative positions, and on the
\* newer one from the time the next snapshot is due.
InterpolationStaysBetween ==
    LET between(v, a, b) == (a <= v /\ v <= b) \/ (b <= v /\ v <= a)
        from == presentation.previous
        to == presentation.current
    IN  /\ between(Watched.x, from.x * TickMs, to.x * TickMs)
        /\ between(Watched.y, from.y * TickMs, to.y * TickMs)
        /\ presentation.elapsedMs >= TickMs =>
               Watched.x = to.x * TickMs /\ Watched.y = to.y * TickMs

\* What the page draws keeps to what the server has said and will say.
DrawnAsServed == PredictionMatchesServer /\ PredictionIsBounded /\ InterpolationStaysBetween

=============================================================================
