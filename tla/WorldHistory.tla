----------------------------- MODULE WorldHistory -----------------------------
(***************************************************************************)
(* The kernel under arbitrary callers, with a history of the commands each *)
(* player's connection has handed to submit_input since its admission.     *)
(* Callers may submit in any order and repeat themselves, which is what a  *)
(* datagram transport does to them; the history states what the kernel     *)
(* promises nevertheless (docs/contracts/authoritative-multiplayer.md,     *)
(* "Tick semantics"): the newest command offered so far is the one in      *)
(* force, and a tick acknowledges the newest one offered before it.        *)
(***************************************************************************)
EXTENDS AuthoritativeWorld

VARIABLES
    offered,        \* valid commands offered since admission, by player id
    due             \* the value of offered[id] when the last tick was taken

history == <<offered, due>>
observed == <<tick, players, offered, due>>

HistoryInit ==
    /\ WorldInit
    /\ offered = [id \in PlayerIds |-> {}]
    /\ due = [id \in PlayerIds |-> {}]

AddPlayer(id) == add_player(id) /\ UNCHANGED history

RejectPlayer(id) == add_player_error(id) /\ UNCHANGED history

\* The history of a player ends with its membership.
RemovePlayer(id) ==
    /\ remove_player(id)
    /\ offered' = [offered EXCEPT ![id] = {}]
    /\ due' = [due EXCEPT ![id] = {}]

\* The history takes every valid command for an admitted player, fresh or stale.
SubmitInput(id, input) ==
    /\ submit_input(id, input) \/ submit_input_ignored(id, input)
    /\ offered' = IF id \in Admitted /\ validate_input(input)
                  THEN [offered EXCEPT ![id] = @ \cup {input}]
                  ELSE offered
    /\ UNCHANGED due

AdvanceTick ==
    /\ advance_tick
    /\ due' = offered
    /\ UNCHANGED offered

TickExhausted == advance_tick_exhausted /\ UNCHANGED history

HistoryNext ==
    \/ \E id \in PlayerIds :
           \/ AddPlayer(id)
           \/ RejectPlayer(id)
           \/ RemovePlayer(id)
           \/ \E input \in Inputs : SubmitInput(id, input)
    \/ AdvanceTick
    \/ TickExhausted

HistorySpec == HistoryInit /\ [][HistoryNext]_observed

-----------------------------------------------------------------------------

TypeOK ==
    /\ WorldTypeOK
    /\ offered \in [PlayerIds -> SUBSET Inputs]
    /\ due \in [PlayerIds -> SUBSET Inputs]

\* The sequence that summarises a set of commands: its newest, or 0 for none.
IsNewestSequence(n, commands) ==
    /\ n = 0 \/ \E c \in commands : c.sequence = n
    /\ \A c \in commands : c.sequence <= n

\* However the commands of a player were reordered or repeated on their way, the
\* intent the next tick will apply is a newest command offered since admission,
\* whole (never the axis of one command with the axis of another), and a player
\* that has offered nothing stands still.
NewestIntentInForce ==
    \A id \in Admitted :
        LET p == players[id]
        IN  /\ IsNewestSequence(p.last_received_sequence, offered[id])
            /\ IF p.last_received_sequence = 0
               THEN p.horizontal = 0 /\ p.vertical = 0
               ELSE \E c \in offered[id] :
                        /\ c.sequence = p.last_received_sequence
                        /\ c.horizontal = p.horizontal
                        /\ c.vertical = p.vertical

\* The sequence a snapshot acknowledges is the newest one offered before the tick
\* the snapshot belongs to: a client that prunes its pending inputs up to it
\* never drops an input the server has yet to apply.
AcknowledgesNewestDue ==
    \A id \in Admitted :
        IsNewestSequence(players[id].last_applied_sequence, due[id])

=============================================================================
