----------------------------- MODULE KernelProofs -----------------------------
(***************************************************************************)
(* What the operations of the kernel do to a player record and to the      *)
(* kernel's type invariant, for every set of players, every set of         *)
(* commands and every size of the world.  Every module that keeps a world  *)
(* builds its own invariants on these lemmas.                              *)
(***************************************************************************)
EXTENDS AuthoritativeWorld, FiniteSetTheorems, TLAPS

-----------------------------------------------------------------------------

(* Facts about one player record. *)

\* clamp returns a coordinate of the world, whatever it is given, and never takes
\* a value further than one step from a position inside the world.
LEMMA ClampStep ==
    ASSUME NEW c \in Coordinate, NEW d \in -StepUnits..StepUnits
    PROVE  /\ clamp(c + d) \in Coordinate
           /\ clamp(c + d) - c \in -StepUnits..StepUnits
BY KernelAssumption DEF clamp, Coordinate

\* The displacement an intent asks for is at most one step.
LEMMA IntentStep ==
    ASSUME NEW a \in Axis
    PROVE  a * StepUnits \in -StepUnits..StepUnits
<1>1. a = -1 \/ a = 0 \/ a = 1
  BY DEF Axis
<1>2. StepUnits \in Nat
  BY KernelAssumption
<1>3. QED
  BY <1>1, <1>2

\* A tick keeps a record well formed, moves it by at most one step and
\* acknowledges what was received.
LEMMA SteppedRecord ==
    ASSUME NEW p \in PlayerRecord
    PROVE  /\ Stepped(p) \in PlayerRecord
           /\ Stepped(p).x - p.x \in -StepUnits..StepUnits
           /\ Stepped(p).y - p.y \in -StepUnits..StepUnits
           /\ Stepped(p).horizontal = p.horizontal
           /\ Stepped(p).vertical = p.vertical
           /\ Stepped(p).last_received_sequence = p.last_received_sequence
           /\ Stepped(p).last_applied_sequence = p.last_received_sequence
<1> DEFINE dx == p.horizontal * StepUnits
           dy == p.vertical * StepUnits
<1>1. p.x \in Coordinate /\ p.y \in Coordinate /\ p.horizontal \in Axis /\ p.vertical \in Axis
  BY DEF PlayerRecord
<1>2. dx \in -StepUnits..StepUnits /\ dy \in -StepUnits..StepUnits
  BY <1>1, IntentStep
<1> HIDE DEF dx, dy
<1>3. /\ clamp(p.x + dx) \in Coordinate /\ clamp(p.x + dx) - p.x \in -StepUnits..StepUnits
      /\ clamp(p.y + dy) \in Coordinate /\ clamp(p.y + dy) - p.y \in -StepUnits..StepUnits
  BY <1>1, <1>2, ClampStep
<1>4. Stepped(p) = [p EXCEPT !.x = clamp(p.x + dx), !.y = clamp(p.y + dy),
                             !.last_applied_sequence = p.last_received_sequence]
  BY DEF Stepped, dx, dy
<1>5. QED
  BY <1>3, <1>4 DEF PlayerRecord

\* A player enters inside the world, at rest and with nothing acknowledged.
LEMMA NewPlayerRecord ==
    ASSUME NEW id \in PlayerIds
    PROVE  /\ NewPlayer(id) \in PlayerRecord
           /\ NewPlayer(id).last_received_sequence = 0
           /\ NewPlayer(id).last_applied_sequence = 0
           /\ NewPlayer(id).horizontal = 0
           /\ NewPlayer(id).vertical = 0
<1> DEFINE ordinal == (id - 1) % MaxPlayers
<1>1. ordinal \in 0..15
  BY KernelAssumption
<1> HIDE DEF ordinal
<1>2. /\ ordinal % 4 \in 0..3
      /\ ordinal \div 4 \in 0..3
  BY <1>1
<1>3. ASSUME NEW k \in 0..3
      PROVE  k * SpawnSpacing - SpawnOffset \in Coordinate
  <2>1. k = 0 \/ k = 1 \/ k = 2 \/ k = 3
    OBVIOUS
  <2>2. QED
    BY <2>1, KernelAssumption, SpawnAssumption DEF Coordinate
<1>4. spawn_position(id).x \in Coordinate /\ spawn_position(id).y \in Coordinate
  BY <1>2, <1>3 DEF spawn_position, ordinal
<1>5. QED
  BY <1>4 DEF NewPlayer, PlayerRecord, Axis

-----------------------------------------------------------------------------

(* What each kernel operation does to the type invariant. *)

\* An empty world is well formed, and so is one that is left alone.
LEMMA WorldInitType == WorldInit => WorldTypeOK
<1> SUFFICES ASSUME WorldInit PROVE WorldTypeOK
  OBVIOUS
<1>1. tick = 0 /\ Admitted = {} /\ players = [p \in {} |-> NewPlayer(p)]
  BY DEF WorldInit, Admitted
<1>2. IsFiniteSet({}) /\ Cardinality({}) = 0
  BY FS_EmptySet
<1>3. QED
  BY <1>1, <1>2, KernelAssumption DEF WorldTypeOK

\* What leaves the world alone leaves it well typed.
LEMMA WorldUnchangedType == WorldTypeOK /\ UNCHANGED world => WorldTypeOK'
BY DEF WorldTypeOK, world, Admitted

\* add_player keeps the capacity, and spawns inside the world.
LEMMA AddPlayerType ==
    ASSUME WorldTypeOK, NEW id \in PlayerIds, add_player(id)
    PROVE  WorldTypeOK'
<1>1. /\ id # 0 /\ id \notin Admitted /\ Cardinality(Admitted) < MaxPlayers
      /\ tick' = tick
      /\ players' = [p \in Admitted \cup {id} |-> IF p = id THEN NewPlayer(id) ELSE players[p]]
  BY DEF add_player, CanAdd
<1>2. Admitted' = Admitted \cup {id}
  BY <1>1 DEF Admitted
<1>3. IsFiniteSet(Admitted') /\ Cardinality(Admitted') = Cardinality(Admitted) + 1
  BY <1>1, <1>2, FS_AddElement DEF WorldTypeOK
<1>4. Cardinality(Admitted) \in Nat
  BY FS_CardinalityType DEF WorldTypeOK
<1>5. Cardinality(Admitted') <= MaxPlayers
  BY <1>1, <1>3, <1>4, KernelAssumption
<1>6. players' \in [Admitted' -> PlayerRecord]
  BY <1>1, <1>2, NewPlayerRecord DEF WorldTypeOK
<1>7. \A p \in Admitted' :
          players'[p].last_applied_sequence <= players'[p].last_received_sequence
  BY <1>1, <1>2, NewPlayerRecord DEF WorldTypeOK
<1>8. QED
  BY <1>1, <1>2, <1>3, <1>5, <1>6, <1>7 DEF WorldTypeOK

\* remove_player keeps every other player as it is.
LEMMA RemovePlayerType ==
    ASSUME WorldTypeOK, NEW id \in PlayerIds, remove_player(id)
    PROVE  WorldTypeOK'
<1>1. /\ tick' = tick
      /\ players' = [p \in Admitted \ {id} |-> players[p]]
  BY DEF remove_player
<1>2. Admitted' = Admitted \ {id}
  BY <1>1 DEF Admitted
<1>3. IsFiniteSet(Admitted') /\ Cardinality(Admitted') <= Cardinality(Admitted)
  BY <1>2, FS_Subset DEF WorldTypeOK
<1>4. Cardinality(Admitted) \in Nat /\ Cardinality(Admitted') \in Nat
  BY <1>3, FS_CardinalityType DEF WorldTypeOK
<1>5. Cardinality(Admitted') <= MaxPlayers
  BY <1>3, <1>4, KernelAssumption DEF WorldTypeOK
<1>6. QED
  BY <1>1, <1>2, <1>3, <1>5 DEF WorldTypeOK

\* submit_input stores only sequences and axes that validate_input lets through.
LEMMA SubmitInputType ==
    ASSUME WorldTypeOK, NEW id, NEW input \in InputCommand, submit_input(id, input)
    PROVE  WorldTypeOK'
<1>1. /\ input.sequence \in Nat
      /\ input.horizontal \in Axis /\ input.vertical \in Axis
  BY DEF submit_input, Fresh, validate_input, InputCommand
<1>2. /\ id \in Admitted
      /\ input.sequence > players[id].last_received_sequence
      /\ tick' = tick
      /\ players' = [players EXCEPT ![id].horizontal = input.horizontal,
                                    ![id].vertical = input.vertical,
                                    ![id].last_received_sequence = input.sequence]
  BY DEF submit_input, Fresh
<1>3. Admitted' = Admitted
  BY <1>2 DEF Admitted
<1>4. players' \in [Admitted -> PlayerRecord]
  BY <1>1, <1>2 DEF WorldTypeOK, PlayerRecord
<1>5. ASSUME NEW p \in Admitted
      PROVE  players'[p].last_applied_sequence <= players'[p].last_received_sequence
  BY <1>1, <1>2 DEF WorldTypeOK, PlayerRecord
<1>6. QED
  BY <1>2, <1>3, <1>4, <1>5 DEF WorldTypeOK

\* advance_tick keeps every player inside the world.
LEMMA AdvanceTickType ==
    ASSUME WorldTypeOK, advance_tick
    PROVE  WorldTypeOK'
<1>1. /\ tick < MaxTick /\ tick' = tick + 1
      /\ players' = [p \in Admitted |-> Stepped(players[p])]
  BY DEF advance_tick
<1>2. Admitted' = Admitted
  BY <1>1 DEF Admitted
<1>3. tick' \in 0..MaxTick
  BY <1>1, KernelAssumption DEF WorldTypeOK
<1>4. players' \in [Admitted -> PlayerRecord]
  BY <1>1, SteppedRecord DEF WorldTypeOK
<1>5. ASSUME NEW p \in Admitted
      PROVE  players'[p].last_applied_sequence <= players'[p].last_received_sequence
  <2>1. players[p] \in PlayerRecord
    BY DEF WorldTypeOK
  <2>2. players[p].last_received_sequence \in Nat
    BY <2>1 DEF PlayerRecord
  <2>3. QED
    BY <1>1, <2>1, <2>2, SteppedRecord
<1>6. QED
  BY <1>2, <1>3, <1>4, <1>5 DEF WorldTypeOK

=============================================================================
