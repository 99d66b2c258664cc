----------------------------- MODULE WorldProofs -----------------------------
(***************************************************************************)
(* The kernel's invariants and step properties, for every set of players,  *)
(* every set of commands and every size of the world.  TypeOK is inductive *)
(* as it stands; NewestIntentInForce and AcknowledgesNewestDue are         *)
(* inductive relative to it.                                               *)
(***************************************************************************)
EXTENDS WorldHistory, KernelProofs

-----------------------------------------------------------------------------

(* The type invariant of the kernel with its history. *)

\* The empty world is well typed.
LEMMA InitType == HistoryInit => TypeOK
BY WorldInitType DEF HistoryInit, TypeOK

\* Whatever a caller does, the world stays well typed.
LEMMA NextType == TypeOK /\ [HistoryNext]_observed => TypeOK'
<1> SUFFICES ASSUME TypeOK, [HistoryNext]_observed PROVE TypeOK'
  OBVIOUS
<1> USE DEF TypeOK
<1>1. ASSUME NEW id \in PlayerIds, AddPlayer(id) PROVE TypeOK'
  BY <1>1, AddPlayerType DEF AddPlayer, history
<1>2. ASSUME NEW id \in PlayerIds, RejectPlayer(id) PROVE TypeOK'
  BY <1>2 DEF RejectPlayer, add_player_error, history, world, WorldTypeOK, Admitted
<1>3. ASSUME NEW id \in PlayerIds, RemovePlayer(id) PROVE TypeOK'
  BY <1>3, RemovePlayerType DEF RemovePlayer
<1>4. ASSUME NEW id \in PlayerIds, NEW input \in Inputs, SubmitInput(id, input)
      PROVE  TypeOK'
  <2>1. WorldTypeOK'
    <3>1. CASE submit_input(id, input)
      BY <3>1, SubmitInputType, KernelAssumption
    <3>2. CASE submit_input_ignored(id, input)
      BY <3>2 DEF submit_input_ignored, world, WorldTypeOK, Admitted
    <3>3. QED
      BY <1>4, <3>1, <3>2 DEF SubmitInput
  <2>2. QED
    BY <1>4, <2>1 DEF SubmitInput
<1>5. ASSUME AdvanceTick PROVE TypeOK'
  BY <1>5, AdvanceTickType DEF AdvanceTick
<1>6. ASSUME TickExhausted PROVE TypeOK'
  BY <1>6 DEF TickExhausted, advance_tick_exhausted, history, world, WorldTypeOK, Admitted
<1>7. ASSUME UNCHANGED observed PROVE TypeOK'
  BY <1>7 DEF observed, WorldTypeOK, Admitted
<1>8. QED
  BY <1>1, <1>2, <1>3, <1>4, <1>5, <1>6, <1>7 DEF HistoryNext

\* Membership, capacity, positions and sequences stay within their bounds.
THEOREM TypeCorrect == HistorySpec => []TypeOK
BY InitType, NextType, PTL DEF HistorySpec

-----------------------------------------------------------------------------

(* What a step does to the record of a player that stays admitted. *)

\* The only two ways a record changes while its player stays admitted: a tick,
\* or the acceptance of a newer command.
LEMMA RecordStep ==
    ASSUME TypeOK, [HistoryNext]_observed, NEW id \in Admitted, id \in Admitted'
    PROVE  \/ players'[id] = players[id]
           \/ tick' = tick + 1 /\ players'[id] = Stepped(players[id])
           \/ \E input \in Inputs :
                 /\ Fresh(id, input)
                 /\ players'[id] = [players[id] EXCEPT
                                       !.horizontal = input.horizontal,
                                       !.vertical = input.vertical,
                                       !.last_received_sequence = input.sequence]
<1> USE DEF TypeOK, WorldTypeOK
<1>1. ASSUME NEW i \in PlayerIds, AddPlayer(i) PROVE players'[id] = players[id]
  BY <1>1 DEF AddPlayer, add_player, CanAdd, Admitted
<1>2. ASSUME NEW i \in PlayerIds, RemovePlayer(i) PROVE players'[id] = players[id]
  BY <1>2 DEF RemovePlayer, remove_player, Admitted
<1>3. ASSUME NEW i \in PlayerIds, NEW input \in Inputs, SubmitInput(i, input)
      PROVE  \/ players'[id] = players[id]
             \/ /\ Fresh(id, input)
                /\ players'[id] = [players[id] EXCEPT
                                       !.horizontal = input.horizontal,
                                       !.vertical = input.vertical,
                                       !.last_received_sequence = input.sequence]
  <2>1. CASE submit_input(i, input)
    <3>1. CASE i = id
      BY <2>1, <3>1 DEF submit_input
    <3>2. CASE i # id
      BY <2>1, <3>2 DEF submit_input, Fresh
    <3>3. QED
      BY <3>1, <3>2
  <2>2. CASE submit_input_ignored(i, input)
    BY <2>2 DEF submit_input_ignored, world
  <2>3. QED
    BY <1>3, <2>1, <2>2 DEF SubmitInput
<1>4. ASSUME AdvanceTick PROVE tick' = tick + 1 /\ players'[id] = Stepped(players[id])
  BY <1>4 DEF AdvanceTick, advance_tick
<1>5. ASSUME TickExhausted \/ (\E i \in PlayerIds : RejectPlayer(i)) \/ UNCHANGED observed
      PROVE  players'[id] = players[id]
  BY <1>5 DEF TickExhausted, advance_tick_exhausted, RejectPlayer, add_player_error, world, observed
<1>6. QED
  BY <1>1, <1>2, <1>3, <1>4, <1>5 DEF HistoryNext

\* While the tick stays, so do the positions.
LEMMA TickMovesOnly ==
    ASSUME TypeOK, [HistoryNext]_observed, NEW id \in Admitted, id \in Admitted'
    PROVE  LET before == players[id]
               after  == players'[id]
           IN  /\ after.x - before.x \in -StepUnits..StepUnits
               /\ after.y - before.y \in -StepUnits..StepUnits
               /\ tick' = tick => after.x = before.x /\ after.y = before.y
               /\ after.last_received_sequence >= before.last_received_sequence
               /\ after.last_applied_sequence >= before.last_applied_sequence
<1> DEFINE before == players[id]
           after  == players'[id]
<1>1. /\ before \in PlayerRecord
      /\ before.last_applied_sequence <= before.last_received_sequence
      /\ tick \in Nat
  BY DEF TypeOK, WorldTypeOK
<1>2. /\ before.x \in Int /\ before.y \in Int
      /\ before.last_received_sequence \in Nat
      /\ before.last_applied_sequence \in Nat
      /\ StepUnits \in Nat
  BY <1>1, KernelAssumption DEF PlayerRecord, Coordinate
<1>3. CASE after = before
  BY <1>2, <1>3
<1>4. CASE tick' = tick + 1 /\ after = Stepped(before)
  BY <1>1, <1>2, <1>4, SteppedRecord
<1>5. ASSUME NEW input \in Inputs,
             Fresh(id, input),
             after = [before EXCEPT !.horizontal = input.horizontal,
                                    !.vertical = input.vertical,
                                    !.last_received_sequence = input.sequence]
      PROVE  /\ after.x = before.x /\ after.y = before.y
             /\ after.last_received_sequence > before.last_received_sequence
             /\ after.last_applied_sequence = before.last_applied_sequence
  BY <1>1, <1>5 DEF Fresh, PlayerRecord
<1>6. QED
  <2>1. CASE \E input \in Inputs :
                 /\ Fresh(id, input)
                 /\ after = [before EXCEPT !.horizontal = input.horizontal,
                                           !.vertical = input.vertical,
                                           !.last_received_sequence = input.sequence]
    <3>1. /\ after.x = before.x /\ after.y = before.y
          /\ after.last_received_sequence > before.last_received_sequence
          /\ after.last_applied_sequence = before.last_applied_sequence
      BY <1>5, <2>1
    <3>2. after.last_received_sequence \in Nat
      BY <1>1, <2>1, KernelAssumption DEF PlayerRecord, InputCommand
    <3>3. QED
      BY <1>2, <3>1, <3>2
  <2>2. QED
    BY <1>3, <1>4, <2>1, RecordStep

\* No command teleports a player: an admitted player moves only with the tick and
\* by at most one step on each axis.
THEOREM MovementBounded == HistorySpec => MovementIsBounded
<1>1. TypeOK /\ [HistoryNext]_observed =>
        [\A p \in Admitted \cap Admitted' :
           LET before == players[p]
               after  == players'[p]
           IN  /\ after.x - before.x \in -StepUnits..StepUnits
               /\ after.y - before.y \in -StepUnits..StepUnits
               /\ tick' = tick => after.x = before.x /\ after.y = before.y]_world
  BY TickMovesOnly
<1>2. QED
  BY <1>1, TypeCorrect, PTL DEF HistorySpec, MovementIsBounded

\* Received and acknowledged sequences never go back while a player is admitted.
THEOREM AcknowledgementsMonotone == HistorySpec => AcknowledgementsNeverRegress
<1>1. TypeOK /\ [HistoryNext]_observed =>
        [\A p \in Admitted \cap Admitted' :
           /\ players'[p].last_received_sequence >= players[p].last_received_sequence
           /\ players'[p].last_applied_sequence >= players[p].last_applied_sequence]_world
  BY TickMovesOnly
<1>2. QED
  BY <1>1, TypeCorrect, PTL DEF HistorySpec, AcknowledgementsNeverRegress

-----------------------------------------------------------------------------

(* The newest offered command is in force. *)

\* The history of an identity that is not admitted is empty: this is what makes the
\* promise restart, rather than continue, when an identity is admitted again.
HistoryIsScoped ==
    \A id \in PlayerIds : id \notin Admitted => offered[id] = {} /\ due[id] = {}

HistoryInv ==
    /\ HistoryIsScoped
    /\ NewestIntentInForce
    /\ AcknowledgesNewestDue

\* The part of HistoryInv that speaks of one identity.
HistoryInvAt(id) ==
    IF id \in Admitted
    THEN /\ IsNewestSequence(players[id].last_received_sequence, offered[id])
         /\ IF players[id].last_received_sequence = 0
            THEN players[id].horizontal = 0 /\ players[id].vertical = 0
            ELSE \E c \in offered[id] :
                     /\ c.sequence = players[id].last_received_sequence
                     /\ c.horizontal = players[id].horizontal
                     /\ c.vertical = players[id].vertical
         /\ IsNewestSequence(players[id].last_applied_sequence, due[id])
    ELSE offered[id] = {} /\ due[id] = {}

\* The history invariant is a statement about each player on its own.
LEMMA HistoryInvPointwise ==
    /\ TypeOK => (HistoryInv <=> \A id \in PlayerIds : HistoryInvAt(id))
    /\ TypeOK' => (HistoryInv' <=> \A id \in PlayerIds : HistoryInvAt(id)')
BY DEF TypeOK, WorldTypeOK, HistoryInv, HistoryInvAt, HistoryIsScoped,
       NewestIntentInForce, AcknowledgesNewestDue

\* An identity whose record and history a step leaves alone keeps its part.
LEMMA HistoryInvFrame ==
    ASSUME NEW id \in PlayerIds, HistoryInvAt(id),
           id \in Admitted <=> id \in Admitted',
           id \in Admitted => players'[id] = players[id],
           offered'[id] = offered[id], due'[id] = due[id]
    PROVE  HistoryInvAt(id)'
BY DEF HistoryInvAt, IsNewestSequence

\* A player is admitted with an empty history.
LEMMA AddPlayerHistory ==
    ASSUME TypeOK, NEW i \in PlayerIds, AddPlayer(i), NEW id \in PlayerIds, HistoryInvAt(id)
    PROVE  HistoryInvAt(id)'
<1>1. /\ i \notin Admitted
      /\ players' = [p \in Admitted \cup {i} |-> IF p = i THEN NewPlayer(i) ELSE players[p]]
      /\ Admitted' = Admitted \cup {i}
      /\ offered' = offered /\ due' = due
  BY DEF AddPlayer, add_player, CanAdd, history, Admitted
<1>2. CASE id = i
  <2>1. offered'[id] = {} /\ due'[id] = {}
    BY <1>1, <1>2 DEF HistoryInvAt
  <2>2. players'[id] = NewPlayer(id) /\ id \in Admitted'
    BY <1>1, <1>2
  <2>3. QED
    BY <2>1, <2>2, NewPlayerRecord DEF HistoryInvAt, IsNewestSequence
<1>3. CASE id # i
  BY <1>1, <1>3, HistoryInvFrame
<1>4. QED
  BY <1>2, <1>3

\* Removing a player clears its history and no other's.
LEMMA RemovePlayerHistory ==
    ASSUME TypeOK, NEW i \in PlayerIds, RemovePlayer(i), NEW id \in PlayerIds, HistoryInvAt(id)
    PROVE  HistoryInvAt(id)'
<1>1. /\ players' = [p \in Admitted \ {i} |-> players[p]]
      /\ Admitted' = Admitted \ {i}
      /\ offered' = [offered EXCEPT ![i] = {}]
      /\ due' = [due EXCEPT ![i] = {}]
  BY DEF RemovePlayer, remove_player, Admitted
<1>2. CASE id = i
  <2>1. offered'[id] = {} /\ due'[id] = {} /\ id \notin Admitted'
    BY <1>1, <1>2 DEF TypeOK
  <2>2. QED
    BY <2>1 DEF HistoryInvAt
<1>3. CASE id # i
  <2>1. offered'[id] = offered[id] /\ due'[id] = due[id]
    BY <1>1, <1>3 DEF TypeOK
  <2>2. QED
    BY <1>1, <1>3, <2>1, HistoryInvFrame
<1>4. QED
  BY <1>2, <1>3

\* A command either becomes the intent, if it is newer than every earlier one, or
\* joins a history that already holds one at least as new.
LEMMA SubmitInputHistory ==
    ASSUME TypeOK, NEW i \in PlayerIds, NEW input \in Inputs, SubmitInput(i, input),
           NEW id \in PlayerIds, HistoryInvAt(id)
    PROVE  HistoryInvAt(id)'
<1>1. /\ Admitted' = Admitted
      /\ due' = due
      /\ id # i => offered'[id] = offered[id]
      /\ id # i /\ id \in Admitted => players'[id] = players[id]
  BY DEF SubmitInput, submit_input, submit_input_ignored, Fresh, world, Admitted, TypeOK
<1>2. CASE id # i
  BY <1>1, <1>2, HistoryInvFrame
<1>3. CASE id = i /\ id \notin Admitted
  BY <1>1, <1>3, HistoryInvFrame DEF SubmitInput
<1>4. CASE id = i /\ id \in Admitted /\ submit_input(i, input)
  <2>1. /\ validate_input(input)
        /\ input.sequence > players[id].last_received_sequence
        /\ offered'[id] = offered[id] \cup {input}
    BY <1>4 DEF SubmitInput, submit_input, Fresh, TypeOK
  <2>2. players[id] \in PlayerRecord /\ input.sequence \in Nat
    BY <1>4, KernelAssumption DEF TypeOK, WorldTypeOK, InputCommand
  <2>3. /\ players'[id].horizontal = input.horizontal
        /\ players'[id].vertical = input.vertical
        /\ players'[id].last_received_sequence = input.sequence
        /\ players'[id].last_applied_sequence = players[id].last_applied_sequence
    BY <1>4, <2>2 DEF submit_input, Fresh, PlayerRecord, TypeOK, WorldTypeOK
  <2>4. \A c \in offered[id] : c.sequence \in Nat /\ c.sequence < input.sequence
    <3>1. \A c \in offered[id] : c.sequence \in Nat
      BY KernelAssumption DEF TypeOK, InputCommand
    <3>2. \A c \in offered[id] : c.sequence <= players[id].last_received_sequence
      BY <1>4 DEF HistoryInvAt, IsNewestSequence
    <3>3. players[id].last_received_sequence \in Nat
      BY <2>2 DEF PlayerRecord
    <3>4. QED
      BY <2>1, <2>2, <3>1, <3>2, <3>3
  <2>5. IsNewestSequence(input.sequence, offered'[id])
    BY <2>1, <2>2, <2>4 DEF IsNewestSequence
  <2>6. input.sequence # 0 /\ input \in offered'[id]
    BY <2>1 DEF validate_input
  <2>7. id \in Admitted' /\ IsNewestSequence(players'[id].last_applied_sequence, due'[id])
    BY <1>1, <1>4, <2>3 DEF HistoryInvAt
  <2>8. QED
    BY <2>3, <2>5, <2>6, <2>7 DEF HistoryInvAt, IsNewestSequence
<1>5. CASE id = i /\ id \in Admitted /\ submit_input_ignored(i, input)
  <2>1. players' = players
    BY <1>5 DEF submit_input_ignored, world
  <2>2. CASE ~validate_input(input)
    BY <1>1, <1>5, <2>1, <2>2, HistoryInvFrame DEF SubmitInput
  <2>3. CASE validate_input(input)
    <3>1. ~(input.sequence > players[id].last_received_sequence)
      BY <1>5, <2>3 DEF submit_input_ignored, Fresh
    <3>2. input.sequence \in Nat /\ players[id].last_received_sequence \in Nat
      BY <1>5, KernelAssumption DEF TypeOK, WorldTypeOK, InputCommand, PlayerRecord
    <3>3. input.sequence <= players[id].last_received_sequence
      BY <3>1, <3>2
    <3>4. offered'[id] = offered[id] \cup {input}
      BY <1>5, <2>3 DEF SubmitInput, TypeOK
    <3>5. QED
      BY <1>1, <1>5, <2>1, <3>3, <3>4 DEF HistoryInvAt, IsNewestSequence
  <2>4. QED
    BY <2>2, <2>3
<1>6. QED
  BY <1>2, <1>3, <1>4, <1>5 DEF SubmitInput

\* A tick makes everything offered due, and applies what was received.
LEMMA AdvanceTickHistory ==
    ASSUME TypeOK, AdvanceTick, NEW id \in PlayerIds, HistoryInvAt(id)
    PROVE  HistoryInvAt(id)'
<1>1. /\ players' = [p \in Admitted |-> Stepped(players[p])]
      /\ Admitted' = Admitted
      /\ offered' = offered /\ due' = offered
  BY DEF AdvanceTick, advance_tick, Admitted
<1>2. CASE id \in Admitted
  <2>1. players'[id] = Stepped(players[id]) /\ players[id] \in PlayerRecord
    BY <1>1, <1>2 DEF TypeOK, WorldTypeOK
  <2>2. QED
    BY <1>1, <1>2, <2>1, SteppedRecord DEF HistoryInvAt, IsNewestSequence
<1>3. CASE id \notin Admitted
  BY <1>1, <1>3 DEF HistoryInvAt
<1>4. QED
  BY <1>2, <1>3

\* Every call of the kernel keeps the history invariant.
LEMMA NextHistory == TypeOK /\ HistoryInv /\ [HistoryNext]_observed => HistoryInv'
<1> SUFFICES ASSUME TypeOK, HistoryInv, [HistoryNext]_observed PROVE HistoryInv'
  OBVIOUS
<1>1. TypeOK'
  BY NextType
<1> SUFFICES ASSUME NEW id \in PlayerIds PROVE HistoryInvAt(id)'
  BY <1>1, HistoryInvPointwise
<1>2. HistoryInvAt(id)
  BY HistoryInvPointwise
<1>3. CASE \E i \in PlayerIds : AddPlayer(i)
  BY <1>2, <1>3, AddPlayerHistory
<1>4. CASE \E i \in PlayerIds : RemovePlayer(i)
  BY <1>2, <1>4, RemovePlayerHistory
<1>5. CASE \E i \in PlayerIds, input \in Inputs : SubmitInput(i, input)
  BY <1>2, <1>5, SubmitInputHistory
<1>6. CASE AdvanceTick
  BY <1>2, <1>6, AdvanceTickHistory
<1>7. CASE TickExhausted \/ (\E i \in PlayerIds : RejectPlayer(i)) \/ UNCHANGED observed
  BY <1>2, <1>7, HistoryInvFrame
     DEF TickExhausted, advance_tick_exhausted, RejectPlayer, add_player_error,
         history, world, observed, Admitted
<1>8. QED
  BY <1>3, <1>4, <1>5, <1>6, <1>7 DEF HistoryNext

\* The inductive invariant of the kernel under arbitrary callers.
LEMMA HistoryInvariant == HistorySpec => []HistoryInv
<1>1. HistoryInit => HistoryInv
  BY DEF HistoryInit, WorldInit, HistoryInv, HistoryIsScoped, NewestIntentInForce,
         AcknowledgesNewestDue, Admitted
<1>2. QED
  BY <1>1, NextHistory, TypeCorrect, PTL DEF HistorySpec

\* Whatever order and however often the commands arrive, the intent the next tick
\* applies is a newest one offered since the player was admitted.
THEOREM NewestIntent == HistorySpec => []NewestIntentInForce
<1>1. HistoryInv => NewestIntentInForce
  BY DEF HistoryInv
<1>2. QED
  BY <1>1, HistoryInvariant, PTL

\* A snapshot acknowledges exactly the commands its tick has taken into account.
THEOREM AcknowledgesDue == HistorySpec => []AcknowledgesNewestDue
<1>1. HistoryInv => AcknowledgesNewestDue
  BY DEF HistoryInv
<1>2. QED
  BY <1>1, HistoryInvariant, PTL

=============================================================================
