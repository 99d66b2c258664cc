-------------------------- MODULE AuthoritativeWorld --------------------------
(***************************************************************************)
(* The deterministic kernel of the authoritative multiplayer server        *)
(* (authoritative/src/lib.rs, struct AuthoritativeWorld).  Every server    *)
(* adapter keeps one world behind a mutex, so each method is one atomic    *)
(* step here; which method runs next, for which player and with which      *)
(* input, is up to the adapter and therefore nondeterministic.             *)
(*                                                                         *)
(* The actions below constrain only the kernel's own variables, so that    *)
(* the adapters' modules can EXTEND this one and conjoin their own state.  *)
(***************************************************************************)
EXTENDS Integers, FiniteSets

CONSTANTS
    PlayerIds,      \* u32 player identities; 0 is reserved by add_player
    Inputs,         \* decoded input commands that callers may submit
    MaxPlayers,     \* MAX_PLAYERS
    WorldLimit,     \* WORLD_LIMIT
    StepUnits,      \* STEP_UNITS
    SpawnSpacing,   \* the 512 of spawn_position
    SpawnOffset,    \* the 768 of spawn_position
    MaxTick         \* u64::MAX in the code; small in a model

\* A decoded command: the sequence is unsigned, an axis is any signed byte.
InputCommand == [sequence : Nat, horizontal : Int, vertical : Int]

ASSUME KernelAssumption ==
    /\ PlayerIds \subseteq Nat
    /\ Inputs \subseteq InputCommand
    /\ MaxPlayers \in 1..16
    /\ WorldLimit \in Nat
    /\ StepUnits \in Nat
    /\ SpawnSpacing \in Nat
    /\ SpawnOffset \in Nat
    /\ MaxTick \in Nat

\* Every spawn coordinate lies inside the world: -768 and 3 * 512 - 768 do.
ASSUME SpawnAssumption ==
    /\ SpawnOffset <= WorldLimit
    /\ 3 * SpawnSpacing - SpawnOffset <= WorldLimit

VARIABLES
    tick,           \* AuthoritativeWorld.tick
    players         \* AuthoritativeWorld.players, a map of PlayerRecord by id

world == <<tick, players>>

-----------------------------------------------------------------------------

Axis == -1..1

Coordinate == -WorldLimit..WorldLimit

PlayerRecord == [x : Coordinate, y : Coordinate,
                 horizontal : Axis, vertical : Axis,
                 last_received_sequence : Nat, last_applied_sequence : Nat]

Admitted == DOMAIN players

\* Spawn slots form a grid of four columns, filled by player id.
spawn_position(id) ==
    LET ordinal == (id - 1) % MaxPlayers
    IN  [x |-> (ordinal % 4) * SpawnSpacing - SpawnOffset,
         y |-> (ordinal \div 4) * SpawnSpacing - SpawnOffset]

NewPlayer(id) ==
    [x |-> spawn_position(id).x, y |-> spawn_position(id).y,
     horizontal |-> 0, vertical |-> 0,
     last_received_sequence |-> 0, last_applied_sequence |-> 0]

clamp(v) == IF v < -WorldLimit THEN -WorldLimit
            ELSE IF v > WorldLimit THEN WorldLimit ELSE v

\* One tick of one player: move by the held intent, acknowledge what was received.
Stepped(p) ==
    [p EXCEPT !.x = clamp(p.x + p.horizontal * StepUnits),
              !.y = clamp(p.y + p.vertical * StepUnits),
              !.last_applied_sequence = p.last_received_sequence]

validate_input(input) ==
    /\ input.sequence # 0
    /\ input.horizontal \in Axis
    /\ input.vertical \in Axis

\* What one snapshot tells its readers; the state hash is a function of it.
snapshot ==
    [tick |-> tick,
     players |-> [p \in Admitted |->
         [x |-> players[p].x, y |-> players[p].y,
          last_applied_sequence |-> players[p].last_applied_sequence]]]

-----------------------------------------------------------------------------

WorldInit ==
    /\ tick = 0
    /\ players = [p \in {} |-> NewPlayer(p)]

\* Mutants of CanAdd: the capacity test is off by one; a duplicate is let in.
CanAdd_OneTooMany(id) ==
    /\ id # 0
    /\ id \notin Admitted
    /\ Cardinality(Admitted) <= MaxPlayers

CanAdd_Duplicate(id) ==
    /\ id # 0
    /\ Cardinality(Admitted) < MaxPlayers

CanAdd(id) ==
    /\ id # 0
    /\ id \notin Admitted
    /\ Cardinality(Admitted) < MaxPlayers

add_player(id) ==
    /\ CanAdd(id)
    /\ players' = [p \in Admitted \cup {id} |->
                       IF p = id THEN NewPlayer(id) ELSE players[p]]
    /\ UNCHANGED tick

\* InvalidPlayerId, DuplicatePlayer and PlayerCapacity leave the world alone.
add_player_error(id) ==
    /\ ~CanAdd(id)
    /\ UNCHANGED world

\* Removing a player that is not there is allowed and changes nothing.
remove_player(id) ==
    /\ players' = [p \in Admitted \ {id} |-> players[p]]
    /\ UNCHANGED tick

\* Mutants of Fresh: the previous sequence is still taken; any other one is newer.
Fresh_PreviousToo(id, input) ==
    /\ validate_input(input)
    /\ id \in Admitted
    /\ input.sequence >= players[id].last_received_sequence - 1

Fresh_AnyOther(id, input) ==
    /\ validate_input(input)
    /\ id \in Admitted
    /\ input.sequence # players[id].last_received_sequence

Fresh(id, input) ==
    /\ validate_input(input)
    /\ id \in Admitted
    /\ input.sequence > players[id].last_received_sequence

\* Mutant of submit_input: a command is acknowledged when received, not when applied.
submit_input_AcksOnReceipt(id, input) ==
    /\ Fresh(id, input)
    /\ players' = [players EXCEPT
                       ![id].horizontal = input.horizontal,
                       ![id].vertical = input.vertical,
                       ![id].last_received_sequence = input.sequence,
                       ![id].last_applied_sequence = input.sequence]
    /\ UNCHANGED tick

\* Mutant of submit_input: the new sequence is noted, the old intent stays.
submit_input_KeepsIntent(id, input) ==
    /\ Fresh(id, input)
    /\ players' = [players EXCEPT ![id].last_received_sequence = input.sequence]
    /\ UNCHANGED tick

\* Accepted: the newer command replaces the player's whole intent.
submit_input(id, input) ==
    /\ Fresh(id, input)
    /\ players' = [players EXCEPT
                       ![id].horizontal = input.horizontal,
                       ![id].vertical = input.vertical,
                       ![id].last_received_sequence = input.sequence]
    /\ UNCHANGED tick

\* IgnoredStale, InvalidInput and UnknownPlayer leave the world alone.
submit_input_ignored(id, input) ==
    /\ ~Fresh(id, input)
    /\ UNCHANGED world

advance_tick ==
    /\ tick < MaxTick
    /\ tick' = tick + 1
    /\ players' = [p \in Admitted |-> Stepped(players[p])]

\* TickExhausted: checked_add fails before any player has moved.
advance_tick_exhausted ==
    /\ tick = MaxTick
    /\ UNCHANGED world

-----------------------------------------------------------------------------

\* Type invariant of the kernel: the player map holds at most MaxPlayers
\* records, never one for the reserved id, every position lies within the world,
\* and no snapshot acknowledges a sequence that was never received.
WorldTypeOK ==
    /\ tick \in 0..MaxTick
    /\ Admitted \subseteq PlayerIds \ {0}
    /\ players \in [Admitted -> PlayerRecord]
    /\ IsFiniteSet(Admitted)
    /\ Cardinality(Admitted) <= MaxPlayers
    /\ \A p \in Admitted :
           players[p].last_applied_sequence <= players[p].last_received_sequence

\* Movement is the server's alone: a player that stays admitted moves only when
\* the tick advances, and by at most one step on each axis.
MovementIsBounded ==
    [][\A p \in Admitted \cap Admitted' :
           LET before == players[p]
               after  == players'[p]
           IN  /\ after.x - before.x \in -StepUnits..StepUnits
               /\ after.y - before.y \in -StepUnits..StepUnits
               /\ tick' = tick => after.x = before.x /\ after.y = before.y]_world

\* Neither the received nor the acknowledged sequence of an admitted player ever
\* goes back, so that a client may forget inputs once they are acknowledged.
AcknowledgementsNeverRegress ==
    [][\A p \in Admitted \cap Admitted' :
           /\ players'[p].last_received_sequence >= players[p].last_received_sequence
           /\ players'[p].last_applied_sequence >= players[p].last_applied_sequence]_world

=============================================================================
