----------------------------- MODULE WebTransport -----------------------------
(***************************************************************************)
(* The browser path end to end: the WebTransport server adapter            *)
(* (authoritative/src/bin/webtransport-server.rs), the datagrams between   *)
(* it and the page, and the page's input loop and snapshot loop            *)
(* (authoritative/web/client.js) over its PresentationTimeline.            *)
(*                                                                         *)
(* Each connection is a task on the server; between two awaits it runs     *)
(* alone, and the world mutex is never held across an await.  Snapshots go *)
(* through a broadcast channel of depth one: a subscriber that has not     *)
(* read the last message when the next is sent learns that it lagged, and  *)
(* then reads the newest.                                                  *)
(*                                                                         *)
(* The network is external.  A datagram once sent stays in its set, so it  *)
(* may arrive late, out of order, more than once, or never.                *)
(***************************************************************************)
EXTENDS AuthoritativeWorld

CONSTANTS
    Connections,        \* the connections ever negotiated, each used once
    IdSpace,            \* 2^32: next_player_id wraps there
    MaxSequence,        \* 2^32 - 1: the page's input sequence wraps there
    LastSequence,       \* bound: the page stops sending after this sequence
    TickMs, MaxPredictionTicks

ASSUME AdapterAssumption ==
    /\ IdSpace \in Nat \ {0, 1}
    /\ PlayerIds = 0..(IdSpace - 1)
    /\ MaxSequence \in Nat \ {0}
    /\ LastSequence \in Nat

Timeline == INSTANCE PresentationTimeline

VARIABLES
    next_player_id,     \* AtomicU32
    player_id,          \* the id fetched for a connection
    session,            \* where a connection's server task is
    current_tick,       \* the tick of a connection's welcome
    ticker,             \* the tick task: "tick" or "send", and its encoded snapshot
    newest,             \* the message the broadcast channel retains
    unread,             \* per subscriber: "none", "one" or "lagged"
    transport,          \* the QUIC session: "open" or "closed"
    up,                 \* input datagrams sent by the page
    down,               \* snapshot datagrams sent by the server
    page,               \* "connecting", "playing" or "left"
    horizontal,         \* the axis the page's pressed keys ask for
    sequence,           \* the page's last input sequence
    timeline            \* the page's PresentationTimeline

registration == <<next_player_id, player_id, current_tick>>
channel == <<ticker, newest, unread>>
client == <<page, horizontal, sequence, timeline>>
vars == <<tick, players, next_player_id, player_id, session, current_tick, ticker, newest,
          unread, transport, up, down, page, horizontal, sequence, timeline>>

Init ==
    /\ WorldInit
    /\ next_player_id = 1
    /\ player_id = [c \in Connections |-> 0]
    /\ session = [c \in Connections |-> "none"]
    /\ current_tick = [c \in Connections |-> 0]
    /\ ticker = [at |-> "tick", encoded |-> {}]
    /\ newest = {}
    /\ unread = [c \in Connections |-> "none"]
    /\ transport = [c \in Connections |-> "open"]
    /\ up = [c \in Connections |-> {}]
    /\ down = [c \in Connections |-> {}]
    /\ page = [c \in Connections |-> "connecting"]
    /\ horizontal = [c \in Connections |-> 0]
    /\ sequence = [c \in Connections |-> 0]
    /\ timeline = [c \in Connections |-> Timeline!NewTimeline]

-----------------------------------------------------------------------------

(* The server task of a connection. *)

Goto(c, from, to) ==
    /\ session[c] = from
    /\ session' = [session EXCEPT ![c] = to]

\* The datagram budget is too small, or datagrams are not supported at all.
RefuseDatagrams(c) ==
    /\ Goto(c, "none", "gone")
    /\ transport' = [transport EXCEPT ![c] = "closed"]
    /\ UNCHANGED <<world, registration, channel, up, down, client>>

Register(c) ==
    /\ session[c] = "none"
    /\ player_id' = [player_id EXCEPT ![c] = next_player_id]
    /\ next_player_id' = (next_player_id + 1) % IdSpace
    /\ session' = [session EXCEPT ![c] = IF next_player_id = 0 THEN "gone" ELSE "registered"]
    /\ transport' = [transport EXCEPT ![c] = IF next_player_id = 0 THEN "closed" ELSE @]
    /\ UNCHANGED <<world, current_tick, channel, up, down, client>>

Admit(c) ==
    /\ Goto(c, "registered", "admitted")
    /\ add_player(player_id[c])
    /\ current_tick' = [current_tick EXCEPT ![c] = tick]
    /\ UNCHANGED <<next_player_id, player_id, channel, transport, up, down, client>>

Refuse(c) ==
    /\ Goto(c, "registered", "gone")
    /\ add_player_error(player_id[c])
    /\ transport' = [transport EXCEPT ![c] = "closed"]
    /\ UNCHANGED <<registration, channel, up, down, client>>

\* Opening, writing and finishing the welcome stream: three awaits, any of which
\* fails once the session is closed.
SendWelcome(c) ==
    /\ Goto(c, "admitted", "welcomed")
    /\ transport[c] = "open"
    /\ UNCHANGED <<world, registration, channel, transport, up, down, client>>

\* Mutant of WelcomeFails: the error returns past the removal of the player.
WelcomeFails_LeavesPlayer(c) ==
    /\ Goto(c, "admitted", "gone")
    /\ transport[c] = "closed"
    /\ UNCHANGED <<world, registration, channel, transport, up, down, client>>

WelcomeFails(c) ==
    /\ Goto(c, "admitted", "removing")
    /\ transport[c] = "closed"
    /\ UNCHANGED <<world, registration, channel, transport, up, down, client>>

\* A subscriber sees only what is sent after it subscribed.
Subscribe(c) ==
    /\ Goto(c, "welcomed", "running")
    /\ UNCHANGED <<world, registration, channel, transport, up, down, client>>

\* select!: a datagram that decodes is submitted; stale ones are ignored.
ReceiveInput(c, input) ==
    /\ session[c] = "running" /\ transport[c] = "open"
    /\ input \in up[c]
    /\ \/ submit_input(player_id[c], input)
       \/ submit_input_ignored(player_id[c], input)
    /\ UNCHANGED <<registration, session, channel, transport, up, down, client>>

\* select!: a datagram that does not decode closes the session.
ReceiveMalformed(c) ==
    /\ Goto(c, "running", "removing")
    /\ transport[c] = "open"
    /\ transport' = [transport EXCEPT ![c] = "closed"]
    /\ UNCHANGED <<world, registration, channel, up, down, client>>

\* select!: the channel's message goes out as one datagram.
ForwardSnapshot(c) ==
    /\ session[c] = "running"
    /\ unread[c] = "one"
    /\ unread' = [unread EXCEPT ![c] = "none"]
    /\ down' = [down EXCEPT ![c] = @ \cup newest]
    /\ UNCHANGED <<world, registration, session, ticker, newest, transport, up, client>>

\* select!: Lagged skips to the message the channel still retains.
SkipLagged(c) ==
    /\ session[c] = "running"
    /\ unread[c] = "lagged"
    /\ unread' = [unread EXCEPT ![c] = "one"]
    /\ UNCHANGED <<world, registration, session, ticker, newest, transport, up, down, client>>

\* Mutant of SessionCloses: the error of a closed connection is ignored and the
\* loop selects again.
SessionCloses_Retries(c) ==
    /\ session[c] = "running" /\ transport[c] = "closed"
    /\ UNCHANGED vars

\* select!: closed, or receive_datagram reports that the connection is gone.
SessionCloses(c) ==
    /\ Goto(c, "running", "removing")
    /\ transport[c] = "closed"
    /\ UNCHANGED <<world, registration, channel, transport, up, down, client>>

RemovePlayer(c) ==
    /\ Goto(c, "removing", "gone")
    /\ remove_player(player_id[c])
    /\ unread' = [unread EXCEPT ![c] = "none"]
    /\ UNCHANGED <<registration, ticker, newest, transport, up, down, client>>

-----------------------------------------------------------------------------

(* The tick task. *)

\* Mutant of TickAdvance: the snapshot is stamped with the tick still to come.
TickAdvance_StampsNext ==
    /\ ticker.at = "tick"
    /\ advance_tick
    /\ ticker' = [at |-> "send",
                  encoded |-> {[snapshot EXCEPT !.tick = @ + 1]'}]
    /\ UNCHANGED <<registration, session, newest, unread, transport, up, down, client>>

TickAdvance ==
    /\ ticker.at = "tick"
    /\ advance_tick
    /\ ticker' = [at |-> "send", encoded |-> {snapshot'}]
    /\ UNCHANGED <<registration, session, newest, unread, transport, up, down, client>>

\* An exhausted tick counter is logged and skipped.
TickFails ==
    /\ ticker.at = "tick"
    /\ advance_tick_exhausted
    /\ UNCHANGED <<registration, session, channel, transport, up, down, client>>

Broadcast ==
    /\ ticker.at = "send"
    /\ newest' = ticker.encoded
    /\ unread' = [c \in Connections |->
                     IF session[c] # "running" THEN unread[c]
                     ELSE IF unread[c] = "none" THEN "one" ELSE "lagged"]
    /\ ticker' = [at |-> "tick", encoded |-> {}]
    /\ UNCHANGED <<world, registration, session, transport, up, down, client>>

-----------------------------------------------------------------------------

(* The page. *)

\* The welcome arrives: a fresh timeline for the player the server named.
Start(c) ==
    /\ page[c] = "connecting" /\ transport[c] = "open"
    /\ session[c] \in {"welcomed", "running"}
    /\ page' = [page EXCEPT ![c] = "playing"]
    /\ timeline' = [timeline EXCEPT ![c] = Timeline!NewTimeline]
    /\ UNCHANGED <<world, registration, session, channel, transport, up, down,
                   horizontal, sequence>>

\* Every key change is followed by at least one more send of the input loop.
PressKeys(c, axis) ==
    /\ page[c] # "left"
    /\ sequence[c] # LastSequence
    /\ axis # horizontal[c]
    /\ horizontal' = [horizontal EXCEPT ![c] = axis]
    /\ UNCHANGED <<world, registration, session, channel, transport, up, down,
                   page, sequence, timeline>>

\* Unsigned 32-bit increment that skips the reserved 0.
nextSequence(n) == IF n = MaxSequence THEN 1 ELSE n + 1

\* Mutant of SendInput: the refresh repeats the last sequence.
SendInput_Repeats(c) ==
    LET input == [sequence |-> IF sequence[c] = 0 THEN 1 ELSE sequence[c],
                  horizontal |-> horizontal[c], vertical |-> 0]
    IN  /\ page[c] = "playing" /\ transport[c] = "open"
        /\ sequence[c] # LastSequence
        /\ sequence' = [sequence EXCEPT ![c] = input.sequence]
        /\ timeline' = [timeline EXCEPT ![c] = Timeline!recordInput(@, input)]
        /\ up' = [up EXCEPT ![c] = @ \cup {input}]
        /\ UNCHANGED <<world, registration, session, channel, transport, down,
                       page, horizontal>>

\* One turn of the 50 ms input loop.
SendInput(c) ==
    LET input == [sequence |-> nextSequence(sequence[c]),
                  horizontal |-> horizontal[c], vertical |-> 0]
    IN  /\ page[c] = "playing" /\ transport[c] = "open"
        /\ sequence[c] # LastSequence
        /\ sequence' = [sequence EXCEPT ![c] = input.sequence]
        /\ timeline' = [timeline EXCEPT ![c] = Timeline!recordInput(@, input)]
        /\ up' = [up EXCEPT ![c] = @ \cup {input}]
        /\ UNCHANGED <<world, registration, session, channel, transport, down,
                       page, horizontal>>

ReceiveSnapshot(c, s) ==
    /\ page[c] = "playing" /\ transport[c] = "open"
    /\ s \in down[c]
    /\ timeline' = [timeline EXCEPT ![c] = Timeline!acceptSnapshot(@, s, player_id[c])]
    /\ UNCHANGED <<world, registration, session, channel, transport, up, down,
                   page, horizontal, sequence>>

\* The page disconnects, or notices that the session closed: resetUi.
Leave(c) ==
    /\ page[c] # "left"
    /\ page' = [page EXCEPT ![c] = "left"]
    /\ transport' = [transport EXCEPT ![c] = "closed"]
    /\ timeline' = [timeline EXCEPT ![c] = Timeline!NewTimeline]
    /\ horizontal' = [horizontal EXCEPT ![c] = 0]
    /\ sequence' = [sequence EXCEPT ![c] = 0]
    /\ UNCHANGED <<world, registration, session, channel, up, down>>

-----------------------------------------------------------------------------

SessionStep(c) ==
    \/ Register(c) \/ Admit(c) \/ Refuse(c)
    \/ SendWelcome(c) \/ WelcomeFails(c) \/ Subscribe(c)
    \/ ForwardSnapshot(c) \/ SkipLagged(c) \/ SessionCloses(c) \/ RemovePlayer(c)

TickStep == TickAdvance \/ TickFails \/ Broadcast

Next ==
    \/ TickStep
    \/ \E c \in Connections :
           \/ SessionStep(c) \/ RefuseDatagrams(c) \/ ReceiveMalformed(c)
           \/ \E input \in up[c] : ReceiveInput(c, input)
           \/ Start(c) \/ SendInput(c) \/ Leave(c)
           \/ \E axis \in Axis : PressKeys(c, axis)
           \/ \E s \in down[c] : ReceiveSnapshot(c, s)

Spec == Init /\ [][Next]_vars

\* The runtime polls every ready task and the page's timer keeps firing.
TaskFairness ==
    /\ WF_vars(TickStep)
    /\ \A c \in Connections : WF_vars(SessionStep(c)) /\ WF_vars(Start(c))

InputLoopFairness == \A c \in Connections : WF_vars(SendInput(c))

\* The network may lose, delay and reorder as it likes, but it does not lose every
\* datagram that carries the page's latest sequence.
NewestArrives ==
    \A c \in Connections :
        SF_vars(\E input \in up[c] :
                    input.sequence = sequence[c] /\ ReceiveInput(c, input))

ServerSpec == Spec /\ TaskFairness
FairSpec == Spec /\ TaskFairness /\ InputLoopFairness /\ NewestArrives

-----------------------------------------------------------------------------

HoldsPlayer(c) == session[c] \in {"admitted", "welcomed", "running", "removing"}

\* The world holds exactly the players of the sessions between their admission and
\* their removal, one each.
EachPlayerHasOneSession ==
    /\ Admitted = {player_id[c] : c \in {d \in Connections : HoldsPlayer(d)}}
    /\ \A c, d \in Connections :
           HoldsPlayer(c) /\ HoldsPlayer(d) /\ player_id[c] = player_id[d] => c = d

\* Whatever the network does to the datagrams, the intent the server holds for a
\* page is one this page sent, under the sequence the page sent it with, and
\* nothing is ever acknowledged that the page has not sent.
ServerHoldsWhatWasSent ==
    \A c \in Connections :
        HoldsPlayer(c) =>
            LET p == players[player_id[c]]
            IN  /\ p.last_received_sequence = 0 => p.horizontal = 0
                /\ p.last_received_sequence # 0 =>
                       \E input \in up[c] : /\ input.sequence = p.last_received_sequence
                                            /\ input.horizontal = p.horizontal

\* No other session was given this one's identity.
OwnIdentity(c) == \A d \in Connections \ {c} : player_id[d] # player_id[c]

\* The sequence that the snapshot the page shows acknowledges to it, or 0.
Acknowledged(c) ==
    LET acknowledged == {s.players[player_id[c]].last_applied_sequence :
                             s \in {t \in timeline[c].current :
                                        player_id[c] \in DOMAIN t.players}}
    IN  IF acknowledged = {} THEN 0 ELSE CHOOSE n \in acknowledged : TRUE

\* The page's pending inputs are exactly those it sent that the snapshot it shows does
\* not yet acknowledge: none lost before its acknowledgement, none kept after, and no
\* sequence left out.  A page whose identity another session had before it may be shown
\* that session's last snapshot, and with it acknowledgements that are not its own.
PendingIsUnacknowledged ==
    \A c \in Connections :
        page[c] = "playing" /\ OwnIdentity(c) =>
            LET pending == timeline[c].pendingInputs
            IN  /\ pending = {input \in up[c] : input.sequence > Acknowledged(c)}
                /\ {input.sequence : input \in pending} = (Acknowledged(c) + 1)..sequence[c]

\* The tick of the snapshot the page shows, or -1.
HeldTick(c) ==
    IF timeline[c].current = {} THEN -1 ELSE (CHOOSE s \in timeline[c].current : TRUE).tick

\* Through unordered, duplicated datagrams the page still follows the canonical ticks:
\* what it shows is replaced only by a newer state the server has really reached.
FollowsCanonicalTicks ==
    [][\A c \in Connections :
           HeldTick(c)' # HeldTick(c) /\ page'[c] = "playing" =>
               HeldTick(c)' \in (HeldTick(c) + 1)..tick]_vars

\* A closed session always gives its player back, with no help from the client.
ClosedSessionsEnd ==
    \A c \in Connections :
        (transport[c] = "closed" /\ HoldsPlayer(c)) ~> session[c] = "gone"

\* Packet loss heals: once the keys stay as they are, released or pressed, the server comes
\* to hold that intent and keeps it, unless the session ends.
IntentConverges ==
    \A c \in Connections : \A axis \in Axis :
        <>[](page[c] = "playing" /\ session[c] = "running" /\ transport[c] = "open"
                 /\ horizontal[c] = axis)
            => <>[](HoldsPlayer(c) /\ players[player_id[c]].horizontal = axis)

=============================================================================
