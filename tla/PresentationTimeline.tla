------------------------- MODULE PresentationTimeline -------------------------
(***************************************************************************)
(* The presentation-only timeline of the browser client                    *)
(* (authoritative/web/presentation.js): which snapshot is shown, which     *)
(* inputs are still unacknowledged, and where players are drawn between    *)
(* snapshots.  Pure operators; WebTransport composes them with the server, *)
(* Prediction checks the drawing against the kernel.                       *)
(*                                                                         *)
(* The code draws at fractions of a tick.  Here a drawn coordinate is in   *)
(* units of 1 / TickMs of a world unit, so that time stays an integer      *)
(* number of milliseconds and nothing is rounded.                          *)
(***************************************************************************)
EXTENDS Integers

CONSTANTS
    StepUnits,          \* AUTHORITATIVE_STEP_UNITS
    WorldLimit,         \* AUTHORITATIVE_WORLD_LIMIT
    TickMs,             \* AUTHORITATIVE_TICK_MS
    MaxPredictionTicks  \* DEFAULT_MAX_LOCAL_PREDICTION_TICKS

\* previous and current hold at most one snapshot each.  pendingInputs is an array in
\* which each input has a greater sequence than the one before it, for recordInput
\* refuses any other and a filter keeps the order; it is the set of its inputs here.
NewTimeline == [previous |-> {}, current |-> {}, pendingInputs |-> {}]

\* Mutant of pruneAcknowledgedInputs: the acknowledged input itself is kept.
pruneAcknowledgedInputs_KeepsLast(inputs, lastAppliedSequence) ==
    {i \in inputs : i.sequence >= lastAppliedSequence}

pruneAcknowledgedInputs(inputs, lastAppliedSequence) ==
    {i \in inputs : i.sequence > lastAppliedSequence}

\* An input that is not newer than the last pending one, the greatest, is not recorded.
recordInput(timeline, input) ==
    IF \E i \in timeline.pendingInputs : input.sequence <= i.sequence
    THEN timeline
    ELSE [timeline EXCEPT !.pendingInputs = @ \cup {input}]

\* Mutant of acceptSnapshot: an older snapshot is shown when it arrives late.
acceptSnapshot_AnyOrder(timeline, snapshot, localPlayerId) ==
    [previous |-> timeline.current,
     current |-> {snapshot},
     pendingInputs |->
         IF localPlayerId \in DOMAIN snapshot.players
         THEN pruneAcknowledgedInputs(timeline.pendingInputs,
                  snapshot.players[localPlayerId].last_applied_sequence)
         ELSE timeline.pendingInputs]

\* A snapshot that is not newer than the one shown is dropped; a newer one also
\* acknowledges inputs, if the local player is in it.
acceptSnapshot(timeline, snapshot, localPlayerId) ==
    IF \E s \in timeline.current : snapshot.tick <= s.tick
    THEN timeline
    ELSE [previous |-> timeline.current,
          current |-> {snapshot},
          pendingInputs |->
              IF localPlayerId \in DOMAIN snapshot.players
              THEN pruneAcknowledgedInputs(timeline.pendingInputs,
                       snapshot.players[localPlayerId].last_applied_sequence)
              ELSE timeline.pendingInputs]

-----------------------------------------------------------------------------

clampTo(v, low, high) == IF v < low THEN low ELSE IF v > high THEN high ELSE v

\* The extrapolated time, cut off after MaxPredictionTicks (in milliseconds).
predictedTime(elapsedMs) == clampTo(elapsedMs, 0, MaxPredictionTicks * TickMs)

\* Mutant of predictCoordinate: the world's border is ignored.
predictCoordinate_Unclamped(v, axis, elapsedMs) ==
    v * TickMs + axis * StepUnits * predictedTime(elapsedMs)

predictCoordinate(v, axis, elapsedMs) ==
    clampTo(v * TickMs + axis * StepUnits * predictedTime(elapsedMs),
            -WorldLimit * TickMs, WorldLimit * TickMs)

predictLocalPlayer(player, intent, elapsedMs) ==
    [x |-> predictCoordinate(player.x, intent.horizontal, elapsedMs),
     y |-> predictCoordinate(player.y, intent.vertical, elapsedMs)]

interpolateCoordinate(before, after, elapsedMs) ==
    before * TickMs + (after - before) * clampTo(elapsedMs, 0, TickMs)

interpolateRemotePlayer(previous, current, elapsedMs) ==
    [x |-> interpolateCoordinate(previous.x, current.x, elapsedMs),
     y |-> interpolateCoordinate(previous.y, current.y, elapsedMs)]

=============================================================================
