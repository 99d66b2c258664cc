----------------------------- MODULE MCTcpServer -----------------------------
(* TcpServer with two or three connections.  Positions play no part in the    *)
(* properties of the adapter, so the world is a single point; commands keep   *)
(* their sequence, which snapshots acknowledge.                               *)
EXTENDS TcpServer, TLC

Ids4 == 0..3
Ids3 == 0..2

Command(n) == [sequence |-> n, horizontal |-> 1, vertical |-> 0]

Symmetry == Permutations(Connections)

NoCommands == {}
TwoCommands == {Command(1), Command(2)}

\* A connection whose threads have ended and whose socket is closed stands for the
\* next one to be accepted: connections without limit, two at a time.  One whose id has
\* come round to a live connection is kept until that one ends.
NextStream(c) ==
    /\ session[c] = "gone" /\ writer[c] \in {"none", "exited"} /\ c \notin clients
    /\ ticker.at # "publish"
    /\ \A d \in Connections \ {c} : Connected(d) => player_id[d] # player_id[c]
    /\ session' = [session EXCEPT ![c] = "none"]
    /\ player_id' = [player_id EXCEPT ![c] = 0]
    /\ current_tick' = [current_tick EXCEPT ![c] = 0]
    /\ outbox' = [outbox EXCEPT ![c] = [pending |-> {}, closed |-> FALSE]]
    /\ writer' = [writer EXCEPT ![c] = "none"]
    /\ writing' = [writing EXCEPT ![c] = {}]
    /\ socket' = [socket EXCEPT ![c] = "open"]
    /\ wire' = [wire EXCEPT ![c] = <<>>]
    /\ seen' = [seen EXCEPT ![c] = <<>>]
    /\ UNCHANGED <<world, next_player_id, clients, ticker>>

ReusingSpec == Init /\ [][Next \/ \E c \in Connections : NextStream(c)]_vars

=============================================================================
