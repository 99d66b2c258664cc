------------------------------- MODULE Protocol -------------------------------
(***************************************************************************)
(* The frames on the wire (authoritative/src/lib.rs) and the page's side   *)
(* of them (authoritative/web/client.js): a peer encodes a value, its      *)
(* frame may be damaged on the way, and the other side decodes it.         *)
(*                                                                         *)
(* Bytes, their order and two's complement are the program's; a byte has   *)
(* fewer values and a field fewer bytes, both constants.  decode_* yields  *)
(* the set of what it returns, empty for an error.                         *)
(***************************************************************************)
EXTENDS Integers, Sequences, Bitwise

CONSTANTS
    ByteValues,         \* 256, a power of two
    WideBytes,          \* the bytes of a u32 or u64; a player's fields take one each
    MaxSnapshotPlayers, \* 16
    HashOffset, HashPrime,
    WireMessages        \* what is sent, each [kind |-> ..., value |-> ...]

ASSUME ProtocolAssumption ==
    /\ ByteValues \in Nat \ {0} /\ WideBytes \in Nat \ {0}
    /\ MaxSnapshotPlayers \in 0..(ByteValues - 1)
    /\ HashOffset \in Nat /\ HashPrime \in Nat /\ HashPrime % 2 = 1

VARIABLE wire   \* the message on its way, its bytes, and whether they were damaged

WireVersion == 1
KindByte == [input |-> 1, snapshot |-> 2, welcome |-> 3]

Wide == ByteValues ^ WideBytes

to_be_bytes(n, width) == [i \in 1..width |-> (n \div ByteValues ^ (width - i)) % ByteValues]

from_be_bytes(bytes, first, width) ==
    LET value[i \in 0..width] ==
            IF i = 0 THEN 0 ELSE value[i - 1] * ByteValues + bytes[first + i - 1]
    IN  value[width]

as_u8(n) == n % ByteValues
as_i8(b) == IF b >= ByteValues \div 2 THEN b - ByteValues ELSE b

header(kind) == <<WireVersion, KindByte[kind]>>
require_header(bytes, kind) == SubSeq(bytes, 1, 2) = header(kind)

-----------------------------------------------------------------------------

(* Input datagrams. *)

InputBytes == 4 + WideBytes

validate_command(c) == c.sequence # 0 /\ {c.horizontal, c.vertical} \subseteq -1..1

\* The page's side, which leaves the check to the server.
encodeInput(c) ==
    header("input") \o to_be_bytes(c.sequence, WideBytes) \o <<as_u8(c.horizontal), as_u8(c.vertical)>>

encode_input_datagram(c) == IF validate_command(c) THEN {encodeInput(c)} ELSE {}

decode_input_datagram(bytes) ==
    LET command == [sequence |-> from_be_bytes(bytes, 3, WideBytes),
                    horizontal |-> as_i8(bytes[InputBytes - 1]), vertical |-> as_i8(bytes[InputBytes])]
    IN  IF Len(bytes) = InputBytes /\ require_header(bytes, "input") /\ validate_command(command)
        THEN {command} ELSE {}

-----------------------------------------------------------------------------

(* Snapshot datagrams: header, tick, hash, count, then the players. *)

fnv_update(hash, bytes) ==
    LET h[i \in 0..Len(bytes)] ==
            IF i = 0 THEN hash ELSE ((h[i - 1] ^^ bytes[i]) * HashPrime) % Wide
    IN  h[Len(bytes)]

\* player_id, x, y and last_applied_sequence.
player_bytes(p) == <<p.player_id, as_u8(p.x), as_u8(p.y), p.last_applied_sequence>>

players_bytes(ps) ==
    LET bytes[i \in 0..Len(ps)] == IF i = 0 THEN <<>> ELSE bytes[i - 1] \o player_bytes(ps[i])
    IN  bytes[Len(ps)]

\* Mutant of snapshot_hash: the tick is left out.
snapshot_hash_PlayersOnly(s) == fnv_update(HashOffset, <<Len(s.players)>> \o players_bytes(s.players))

snapshot_hash(s) ==
    fnv_update(HashOffset, to_be_bytes(s.tick, WideBytes) \o <<Len(s.players)>> \o players_bytes(s.players))

Sealed(s) == [tick |-> s.tick, state_hash |-> snapshot_hash(s), players |-> s.players]

SnapshotHeaderBytes == 3 + 2 * WideBytes
SnapshotPlayerBytes == 4

\* None for more players than the frame is meant for.
encode_snapshot_datagram(s) ==
    IF Len(s.players) > MaxSnapshotPlayers \/ s.state_hash # snapshot_hash(s) THEN {}
    ELSE {header("snapshot") \o to_be_bytes(s.tick, WideBytes) \o to_be_bytes(s.state_hash, WideBytes)
              \o <<Len(s.players)>> \o players_bytes(s.players)}

player_at(bytes, offset) ==
    [player_id |-> bytes[offset + 1], x |-> as_i8(bytes[offset + 2]), y |-> as_i8(bytes[offset + 3]),
     last_applied_sequence |-> bytes[offset + 4]]

\* decodeSnapshot of the page: whatever has the header and the length of its count.
decodeSnapshot(bytes) ==
    IF /\ Len(bytes) >= SnapshotHeaderBytes /\ require_header(bytes, "snapshot")
       /\ Len(bytes) = SnapshotHeaderBytes + bytes[SnapshotHeaderBytes] * SnapshotPlayerBytes
    THEN {[tick |-> from_be_bytes(bytes, 3, WideBytes),
           state_hash |-> from_be_bytes(bytes, 3 + WideBytes, WideBytes),
           players |-> [i \in 1..bytes[SnapshotHeaderBytes] |->
                           player_at(bytes, SnapshotHeaderBytes + (i - 1) * SnapshotPlayerBytes)]]}
    ELSE {}

decode_snapshot_datagram(bytes) ==
    {s \in decodeSnapshot(bytes) :
        Len(s.players) <= MaxSnapshotPlayers /\ s.state_hash = snapshot_hash(s)}

-----------------------------------------------------------------------------

(* Welcome frames, with one reserved byte before the tick. *)

WelcomeBytes == 5 + 2 * WideBytes

encode_welcome(w) ==
    header("welcome") \o to_be_bytes(w.player_id, WideBytes)
        \o <<w.tick_hz, w.max_players, 0>> \o to_be_bytes(w.current_tick, WideBytes)

decodeWelcome(bytes) ==
    IF Len(bytes) = WelcomeBytes /\ require_header(bytes, "welcome")
    THEN {[player_id |-> from_be_bytes(bytes, 3, WideBytes), tick_hz |-> bytes[3 + WideBytes],
           max_players |-> bytes[4 + WideBytes],
           current_tick |-> from_be_bytes(bytes, 6 + WideBytes, WideBytes)]}
    ELSE {}

decode_welcome(bytes) == decodeWelcome(bytes)

-----------------------------------------------------------------------------

Frames(message) ==
    CASE message.kind = "input" -> encode_input_datagram(message.value)
      [] message.kind = "snapshot" -> encode_snapshot_datagram(Sealed(message.value))
      [] message.kind = "welcome" -> {encode_welcome(message.value)}

Decoded(kind, bytes) ==
    CASE kind = "input" -> decode_input_datagram(bytes)
      [] kind = "snapshot" -> decode_snapshot_datagram(bytes)
      [] kind = "welcome" -> decode_welcome(bytes)

WireOf(message) == {[message |-> message, bytes |-> f, damaged |-> FALSE] : f \in Frames(message)}

Wires == UNION {WireOf(message) : message \in WireMessages}

\* A byte is changed, the last one lost, or one appended.
Damage ==
    /\ ~wire.damaged
    /\ \E bytes \in {[wire.bytes EXCEPT ![i] = b] : i \in DOMAIN wire.bytes, b \in 0..(ByteValues - 1)}
               \cup {Append(wire.bytes, b) : b \in 0..(ByteValues - 1)}
               \cup {SubSeq(wire.bytes, 1, Len(wire.bytes) - 1)} :
           /\ bytes # wire.bytes
           /\ wire' = [wire EXCEPT !.bytes = bytes, !.damaged = TRUE]

-----------------------------------------------------------------------------

Sent == IF wire.message.kind = "snapshot" THEN Sealed(wire.message.value) ELSE wire.message.value

\* An undamaged frame decodes to what was encoded, on either side, and as nothing else.  Of a
\* damaged one the server acts on no command but one that a client could have sent, and a
\* snapshot with a wrong byte is refused, its hash covering them all.
FramesAreFaithful ==
    LET decoded == Decoded(wire.message.kind, wire.bytes)
    IN  /\ ~wire.damaged =>
               /\ decoded = {Sent}
               /\ wire.message.kind = "snapshot" => decodeSnapshot(wire.bytes) = {Sent}
               /\ \A other \in DOMAIN KindByte \ {wire.message.kind} : Decoded(other, wire.bytes) = {}
        /\ wire.damaged /\ wire.message.kind = "snapshot" => decoded = {}
        /\ \A command \in decode_input_datagram(wire.bytes) :
               encode_input_datagram(command) = {wire.bytes}

=============================================================================
