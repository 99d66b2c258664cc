------------------------------- MODULE UdpProbe -------------------------------
(***************************************************************************)
(* The UDP sequence probe (native/src/bin/netem-udp.rs): the client sends  *)
(* numbered packets, the server echoes each, and the client accounts for   *)
(* what comes back before its deadline.  Between them the emulated network *)
(* loses, repeats and reorders.                                            *)
(***************************************************************************)
EXTENDS Integers, Sequences, FiniteSets

CONSTANTS PacketCount, MaxCopies     \* MaxCopies: bound on how often one packet is repeated

ASSUME UdpAssumption == PacketCount \in Nat /\ MaxCopies \in Nat

Packets == 0..(PacketCount - 1)

VARIABLE udp    \* sent: the packets sent so far; copies: echoes still on their way;
                \* buffer: what has reached the client's socket; taken: how much of it recv took;
                \* received, duplicate_packets, reordered_packets, highest_sequence,
                \* has_sequence: the client's account; serving: whether the server runs;
                \* result: "none", "reported" or "failed"

UdpStart ==
    [sent |-> 0, copies |-> [s \in Packets |-> 0], buffer |-> <<>>, taken |-> 0,
     received |-> {}, duplicate_packets |-> 0, reordered_packets |-> 0,
     highest_sequence |-> 0, has_sequence |-> FALSE, serving |-> TRUE, result |-> "none"]

\* The client receives only once everything is sent, until it has everything back.
Receiving == udp.sent = PacketCount /\ udp.result = "none" /\ Cardinality(udp.received) < PacketCount

\* A packet and its echo are lost, delivered or repeated on either way.
SendPacket ==
    /\ udp.sent < PacketCount /\ udp.result = "none"
    /\ \E n \in 0..(IF udp.serving THEN MaxCopies ELSE 0) :
           udp' = [udp EXCEPT !.sent = @ + 1, !.copies[udp.sent] = n]

\* The server leaves after a silence.
ServerTimesOut ==
    /\ udp.serving
    /\ udp' = [udp EXCEPT !.serving = FALSE]

\* The client learns that nobody listens any more, and ends with that error.
ConnectionRefused ==
    /\ ~udp.serving /\ udp.sent > 0
    /\ udp.sent < PacketCount \/ Receiving
    /\ udp.result = "none"
    /\ udp' = [udp EXCEPT !.result = "failed"]

\* An echo reaches the client's socket, in any order.
EchoArrives ==
    /\ udp.result = "none"
    /\ \E s \in Packets :
           /\ udp.copies[s] > 0
           /\ udp' = [udp EXCEPT !.copies[s] = @ - 1, !.buffer = Append(@, s)]

Counted(sequence) ==
    [udp EXCEPT !.received = @ \cup {sequence},
                !.reordered_packets = @ + (IF udp.has_sequence /\ sequence < udp.highest_sequence THEN 1 ELSE 0),
                !.highest_sequence = IF sequence > @ THEN sequence ELSE @, !.has_sequence = TRUE]

Receive ==
    /\ Receiving
    /\ udp.taken < Len(udp.buffer)
    /\ LET sequence == udp.buffer[udp.taken + 1]
       IN  udp' = [(IF sequence \in udp.received THEN [udp EXCEPT !.duplicate_packets = @ + 1]
                    ELSE Counted(sequence)) EXCEPT !.taken = @ + 1]

\* The deadline passes, or everything is back.
Report ==
    /\ udp.sent = PacketCount /\ udp.result = "none"
    /\ udp' = [udp EXCEPT !.result = "reported"]

UdpStep ==
    \/ SendPacket \/ EchoArrives \/ Receive \/ Report
    \/ ServerTimesOut \/ ConnectionRefused

UdpSpec == udp = UdpStart /\ [][UdpStep]_udp

lost_packets == PacketCount - Cardinality(udp.received)

-----------------------------------------------------------------------------

\* The account is that of what arrived in time: every packet is received or lost, every arrival
\* beyond the first of its number a duplicate, and as many are reordered as first arrived after
\* a higher number; a network that only delays reports neither.
LossIsAccounted ==
    LET arrived == SubSeq(udp.buffer, 1, udp.taken)
        firsts == {i \in DOMAIN arrived : \A j \in 1..(i - 1) : arrived[j] # arrived[i]}
        overtaken == {i \in firsts : \E j \in 1..(i - 1) : arrived[j] > arrived[i]}
    IN  /\ Cardinality(firsts) + lost_packets = PacketCount
        /\ udp.duplicate_packets = udp.taken - Cardinality(firsts)
        /\ udp.reordered_packets = Cardinality(overtaken)
        /\ (\A i, j \in DOMAIN arrived : i < j => arrived[i] < arrived[j]) =>
               udp.duplicate_packets = 0 /\ udp.reordered_packets = 0

=============================================================================
