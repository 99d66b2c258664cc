------------------------------ MODULE TcpServer ------------------------------
(***************************************************************************)
(* The native TCP harness (authoritative/src/bin/tcp-server.rs): one       *)
(* accept loop, one tick thread, and for each connection a session thread  *)
(* that reads inputs and a writer thread that sends snapshots.             *)
(*                                                                         *)
(* Threads share the world (one mutex), the client list (one mutex) and,   *)
(* per connection, a LatestSnapshot mailbox (a mutex and a condition       *)
(* variable).  A critical section that no other thread can observe halfway *)
(* is one step.  The tick thread holds the client list while it publishes  *)
(* to one mailbox after another, so that section is a step per mailbox.    *)
(*                                                                         *)
(* The socket is external: a bounded buffer of frames towards the peer,    *)
(* and a peer that may send any command, send garbage, stop sending,       *)
(* stop reading, or reset the connection.                                  *)
(***************************************************************************)
EXTENDS AuthoritativeWorld, Sequences

CONSTANTS
    Connections,    \* the connections ever accepted, each used once
    IdSpace,        \* 2^32: next_player_id wraps there
    SocketFrames    \* frames the kernel's socket buffers hold before a write blocks

ASSUME ServerAssumption ==
    /\ IdSpace \in Nat \ {0, 1}
    /\ PlayerIds = 0..(IdSpace - 1)
    /\ SocketFrames \in Nat \ {0}

VARIABLES
    next_player_id, \* the accept loop's AtomicU32
    player_id,      \* the id fetched for a connection
    session,        \* where a connection's session thread is
    current_tick,   \* the tick a session read when it added its player
    clients,        \* connections whose ClientSink is in the client list
    outbox,         \* LatestSnapshotState of a connection: pending (at most one), closed
    writer,         \* where a connection's writer thread is
    writing,        \* the snapshot the writer thread has taken and is sending
    ticker,         \* the tick thread: its place, its encoded snapshot, sinks to visit
    socket,         \* "open", "half" (peer sends no more), "reset" or "shut"
    wire,           \* frames written and not yet read by the peer
    seen            \* the last frame the peer has read, <<>> before the first

connection == <<player_id, session, current_tick>>
mailbox == <<clients, outbox>>
sending == <<writer, writing>>
network == <<socket, wire, seen>>
vars == <<tick, players, next_player_id, player_id, session, current_tick,
          clients, outbox, writer, writing, ticker, socket, wire, seen>>

Init ==
    /\ WorldInit
    /\ next_player_id = 1
    /\ player_id = [c \in Connections |-> 0]
    /\ session = [c \in Connections |-> "none"]
    /\ current_tick = [c \in Connections |-> 0]
    /\ clients = {}
    /\ outbox = [c \in Connections |-> [pending |-> {}, closed |-> FALSE]]
    /\ writer = [c \in Connections |-> "none"]
    /\ writing = [c \in Connections |-> {}]
    /\ ticker = [at |-> "advance", encoded |-> {}, visit |-> {}]
    /\ socket = [c \in Connections |-> "open"]
    /\ wire = [c \in Connections |-> <<>>]
    /\ seen = [c \in Connections |-> <<>>]

-----------------------------------------------------------------------------

(* The mailbox.  A thread blocked in receive is at "waiting"; notify moves it *)
(* back to "receiving", where it looks at the mailbox again.                  *)

Notified(cs) ==
    [c \in Connections |->
        IF c \in cs /\ writer[c] = "waiting" THEN "receiving" ELSE writer[c]]

Closed == [pending |-> {}, closed |-> TRUE]

\* Mutant of close: the waiting writer is not notified.
close_Silent(cs) ==
    /\ outbox' = [c \in Connections |-> IF c \in cs THEN Closed ELSE outbox[c]]
    /\ UNCHANGED writer

\* LatestSnapshot::close for the mailboxes of cs.
close(cs) ==
    /\ outbox' = [c \in Connections |-> IF c \in cs THEN Closed ELSE outbox[c]]
    /\ writer' = Notified(cs)

\* Mutant of publish: the waiting writer is not notified.
publish_Silent(c, snapshots) ==
    /\ ~outbox[c].closed
    /\ outbox' = [outbox EXCEPT ![c].pending = snapshots]
    /\ UNCHANGED writer

\* LatestSnapshot::publish to an open mailbox replaces whatever is pending.
publish(c, snapshots) ==
    /\ ~outbox[c].closed
    /\ outbox' = [outbox EXCEPT ![c].pending = snapshots]
    /\ writer' = Notified({c})

ClientsLockFree == ticker.at # "publish"

-----------------------------------------------------------------------------

(* The accept loop and the session threads. *)

Goto(c, from, to) ==
    /\ session[c] = from
    /\ session' = [session EXCEPT ![c] = to]

\* fetch_add hands out the id; the reserved id 0 drops the connection at once.
Accept(c) ==
    /\ Goto(c, "none", IF next_player_id = 0 THEN "gone" ELSE "accepted")
    /\ player_id' = [player_id EXCEPT ![c] = next_player_id]
    /\ next_player_id' = (next_player_id + 1) % IdSpace
    /\ UNCHANGED <<world, current_tick, mailbox, sending, ticker, network>>

\* set_nodelay fails: the session ends before it has a player.
SetupFails(c) ==
    /\ Goto(c, "accepted", "gone")
    /\ UNCHANGED <<world, next_player_id, player_id, current_tick, mailbox, sending,
                   ticker, network>>

\* add_player and the reading of the tick happen under one world lock.
Admit(c) ==
    /\ Goto(c, "accepted", "admitted")
    /\ add_player(player_id[c])
    /\ current_tick' = [current_tick EXCEPT ![c] = tick]
    /\ UNCHANGED <<next_player_id, player_id, mailbox, sending, ticker, network>>

Refuse(c) ==
    /\ Goto(c, "accepted", "gone")
    /\ add_player_error(player_id[c])
    /\ UNCHANGED <<next_player_id, player_id, current_tick, mailbox, sending,
                   ticker, network>>

Writable(c) == socket[c] \in {"open", "half"}

\* The welcome is the first frame on the wire.
SendWelcome(c) ==
    /\ Goto(c, "admitted", "welcomed")
    /\ Writable(c)
    /\ wire' = [wire EXCEPT ![c] = Append(@, [kind |-> "welcome", tick |-> current_tick[c]])]
    /\ UNCHANGED <<world, next_player_id, player_id, current_tick, mailbox, sending,
                   ticker, socket, seen>>

\* Writing the welcome or cloning the stream fails: nothing to close or join yet.
HandshakeFails(c) ==
    /\ \/ Goto(c, "admitted", "removing") /\ ~Writable(c)
       \/ Goto(c, "welcomed", "removing")
    /\ UNCHANGED <<world, next_player_id, player_id, current_tick, mailbox, sending,
                   ticker, network>>

\* Push the sink under the client list's lock and spawn the writer thread.
Subscribe(c) ==
    /\ Goto(c, "welcomed", "reading")
    /\ ClientsLockFree
    /\ clients' = clients \cup {c}
    /\ writer' = [writer EXCEPT ![c] = "receiving"]
    /\ UNCHANGED <<world, next_player_id, player_id, current_tick, outbox, writing,
                   ticker, network>>

\* read_exact returns a command that decodes, which includes validation; a stale one is
\* ignored.
ReadInput(c, input) ==
    /\ session[c] = "reading"
    /\ socket[c] = "open"
    /\ validate_input(input)
    /\ \/ submit_input(player_id[c], input)
       \/ submit_input_ignored(player_id[c], input)
    /\ UNCHANGED <<next_player_id, connection, mailbox, sending, ticker, network>>

\* Bytes that do not decode, a reserved sequence included, end the session.
ReadMalformed(c) ==
    /\ Goto(c, "reading", "closing")
    /\ socket[c] = "open"
    /\ UNCHANGED <<world, next_player_id, player_id, current_tick, mailbox, sending,
                   ticker, network>>

\* End of stream, a reset, or the writer's own shutdown.
ReadEnds(c) ==
    /\ Goto(c, "reading", "closing")
    /\ socket[c] # "open"
    /\ UNCHANGED <<world, next_player_id, player_id, current_tick, mailbox, sending,
                   ticker, network>>

\* Mutant of CloseOutbox: the writer is joined without closing its mailbox.
CloseOutbox_JoinsOpen(c) ==
    /\ Goto(c, "closing", "joining")
    /\ UNCHANGED <<world, next_player_id, player_id, current_tick, mailbox, sending,
                   ticker, network>>

CloseOutbox(c) ==
    /\ Goto(c, "closing", "joining")
    /\ close({c})
    /\ UNCHANGED <<world, next_player_id, player_id, current_tick, clients, writing,
                   ticker, network>>

\* join returns once the writer thread has returned, and not before.
JoinWriter(c) ==
    /\ Goto(c, "joining", "removing")
    /\ writer[c] = "exited"
    /\ UNCHANGED <<world, next_player_id, player_id, current_tick, mailbox, sending,
                   ticker, network>>

RemovePlayer(c) ==
    /\ Goto(c, "removing", "unlisting")
    /\ remove_player(player_id[c])
    /\ UNCHANGED <<next_player_id, player_id, current_tick, mailbox, sending,
                   ticker, network>>

\* Mutant of Unlist: the sinks of other players are dropped.
Unlist_DropsOthers(c) ==
    /\ Goto(c, "unlisting", "gone")
    /\ ClientsLockFree
    /\ close(clients)
    /\ clients' = {}
    /\ UNCHANGED <<world, next_player_id, player_id, current_tick, writing, ticker, network>>

\* retain drops, and closes, every sink filed under this player id.
Unlist(c) ==
    /\ Goto(c, "unlisting", "gone")
    /\ ClientsLockFree
    /\ LET own == {d \in clients : player_id[d] = player_id[c]}
       IN  /\ close(own)
           /\ clients' = clients \ own
    /\ UNCHANGED <<world, next_player_id, player_id, current_tick, writing, ticker, network>>

-----------------------------------------------------------------------------

(* The writer threads. *)

WriterGoto(c, from, to) ==
    /\ writer[c] = from
    /\ writer' = [writer EXCEPT ![c] = to]

\* Mutant of Take: the snapshot is read but not taken out of the mailbox.
Take_Peeks(c) ==
    /\ WriterGoto(c, "receiving", "writing")
    /\ outbox[c].pending # {}
    /\ writing' = [writing EXCEPT ![c] = outbox[c].pending]
    /\ UNCHANGED <<world, next_player_id, connection, mailbox, ticker, network>>

\* receive: a pending snapshot is taken even from a mailbox about to close.
Take(c) ==
    /\ WriterGoto(c, "receiving", "writing")
    /\ outbox[c].pending # {}
    /\ writing' = [writing EXCEPT ![c] = outbox[c].pending]
    /\ outbox' = [outbox EXCEPT ![c].pending = {}]
    /\ UNCHANGED <<world, next_player_id, connection, clients, ticker, network>>

ReceiveNone(c) ==
    /\ WriterGoto(c, "receiving", "exited")
    /\ outbox[c].pending = {} /\ outbox[c].closed
    /\ UNCHANGED <<world, next_player_id, connection, mailbox, writing, ticker, network>>

WaitReady(c) ==
    /\ WriterGoto(c, "receiving", "waiting")
    /\ outbox[c].pending = {} /\ ~outbox[c].closed
    /\ UNCHANGED <<world, next_player_id, connection, mailbox, writing, ticker, network>>

\* A condition variable may wake its waiter for no reason.
SpuriousWakeup(c) ==
    /\ WriterGoto(c, "waiting", "receiving")
    /\ UNCHANGED <<world, next_player_id, connection, mailbox, writing, ticker, network>>

\* Mutant of WriteFrame: frames queue without limit towards a peer that does not read.
WriteFrame_NeverBlocks(c) ==
    /\ WriterGoto(c, "writing", "receiving")
    /\ Writable(c)
    /\ \E s \in writing[c] : wire' = [wire EXCEPT ![c] = Append(@, s)]
    /\ writing' = [writing EXCEPT ![c] = {}]
    /\ UNCHANGED <<world, next_player_id, connection, mailbox, ticker, socket, seen>>

\* write_frame blocks while the socket buffer is full.
WriteFrame(c) ==
    /\ WriterGoto(c, "writing", "receiving")
    /\ Writable(c)
    /\ Len(wire[c]) < SocketFrames
    /\ \E s \in writing[c] : wire' = [wire EXCEPT ![c] = Append(@, s)]
    /\ writing' = [writing EXCEPT ![c] = {}]
    /\ UNCHANGED <<world, next_player_id, connection, mailbox, ticker, socket, seen>>

\* A write error closes the mailbox, then shuts the socket down.
WriteFails(c) ==
    /\ writer[c] = "writing"
    /\ ~Writable(c)
    /\ outbox' = [outbox EXCEPT ![c] = Closed]
    /\ writer' = [writer EXCEPT ![c] = "failed"]
    /\ writing' = [writing EXCEPT ![c] = {}]
    /\ UNCHANGED <<world, next_player_id, connection, clients, ticker, network>>

ShutDown(c) ==
    /\ WriterGoto(c, "failed", "exited")
    /\ socket' = [socket EXCEPT ![c] = "shut"]
    /\ UNCHANGED <<world, next_player_id, connection, mailbox, writing, ticker, wire, seen>>

-----------------------------------------------------------------------------

(* The tick thread. *)

\* Mutant of TickAdvance: the snapshot is stamped with the tick still to come.
TickAdvance_StampsNext ==
    /\ ticker.at = "advance"
    /\ advance_tick
    /\ ticker' = [ticker EXCEPT !.at = "lock",
                                !.encoded = {[kind |-> "snapshot", tick |-> snapshot.tick + 1,
                                              players |-> snapshot.players]'}]
    /\ UNCHANGED <<next_player_id, connection, mailbox, sending, network>>

\* Advance and encode under the world lock, which is released before publishing.
TickAdvance ==
    /\ ticker.at = "advance"
    /\ advance_tick
    /\ ticker' = [ticker EXCEPT !.at = "lock",
                                !.encoded = {[kind |-> "snapshot", tick |-> snapshot.tick,
                                              players |-> snapshot.players]'}]
    /\ UNCHANGED <<next_player_id, connection, mailbox, sending, network>>

LockClients ==
    /\ ticker.at = "lock"
    /\ ticker' = [ticker EXCEPT !.at = "publish", !.visit = clients]
    /\ UNCHANGED <<world, next_player_id, connection, mailbox, sending, network>>

\* clients.retain(publish): a closed mailbox loses its place in the list.
PublishTo(c) ==
    /\ ticker.at = "publish"
    /\ c \in ticker.visit
    /\ ticker' = [ticker EXCEPT !.visit = @ \ {c}]
    /\ \/ publish(c, ticker.encoded) /\ UNCHANGED clients
       \/ /\ outbox[c].closed
          /\ clients' = clients \ {c}
          /\ UNCHANGED <<outbox, writer>>
    /\ UNCHANGED <<world, next_player_id, connection, writing, network>>

Sleep ==
    /\ ticker.at = "publish"
    /\ ticker.visit = {}
    /\ ticker' = [ticker EXCEPT !.at = "advance", !.encoded = {}]
    /\ UNCHANGED <<world, next_player_id, connection, mailbox, sending, network>>

-----------------------------------------------------------------------------

(* The peer (external). *)

PeerReads(c) ==
    /\ wire[c] # <<>>
    /\ seen' = [seen EXCEPT ![c] = <<Head(wire[c])>>]
    /\ wire' = [wire EXCEPT ![c] = Tail(@)]
    /\ UNCHANGED <<world, next_player_id, connection, mailbox, sending, ticker, socket>>

Connected(c) == session[c] \notin {"none", "gone"}

PeerStopsSending(c) ==
    /\ Connected(c) /\ socket[c] = "open"
    /\ socket' = [socket EXCEPT ![c] = "half"]
    /\ UNCHANGED <<world, next_player_id, connection, mailbox, sending, ticker, wire, seen>>

\* A reset loses the frames in flight.
PeerResets(c) ==
    /\ Connected(c) /\ socket[c] \in {"open", "half"}
    /\ socket' = [socket EXCEPT ![c] = "reset"]
    /\ wire' = [wire EXCEPT ![c] = <<>>]
    /\ UNCHANGED <<world, next_player_id, connection, mailbox, sending, ticker, seen>>

-----------------------------------------------------------------------------

SessionStep(c) ==
    \/ SetupFails(c) \/ Admit(c) \/ Refuse(c)
    \/ SendWelcome(c) \/ HandshakeFails(c) \/ Subscribe(c)
    \/ ReadEnds(c) \/ CloseOutbox(c) \/ JoinWriter(c)
    \/ RemovePlayer(c) \/ Unlist(c)

WriterStep(c) ==
    \/ Take(c) \/ ReceiveNone(c) \/ WaitReady(c)
    \/ WriteFrame(c) \/ WriteFails(c) \/ ShutDown(c)

TickStep ==
    \/ TickAdvance \/ LockClients \/ Sleep
    \/ \E c \in Connections : PublishTo(c)

PeerStep(c) ==
    \/ PeerReads(c) \/ PeerStopsSending(c) \/ PeerResets(c)
    \/ ReadMalformed(c)
    \/ \E input \in Inputs : ReadInput(c, input)

Next ==
    \/ TickStep
    \/ \E c \in Connections :
           Accept(c) \/ SessionStep(c) \/ WriterStep(c) \/ SpuriousWakeup(c) \/ PeerStep(c)

Spec == Init /\ [][Next]_vars

\* The operating system schedules every runnable thread; it promises nothing of
\* the peer.
ThreadFairness ==
    /\ WF_vars(TickStep)
    /\ \A c \in Connections : WF_vars(SessionStep(c)) /\ WF_vars(WriterStep(c))

\* A peer that drains its socket: an assumption about the environment.
ReadingPeers == \A c \in Connections : WF_vars(PeerReads(c))

ThreadSpec == Spec /\ ThreadFairness
FairSpec == Spec /\ ThreadFairness /\ ReadingPeers

-----------------------------------------------------------------------------

(* What has been sent to a connection and what is on its way, oldest first. *)
Pending(c) == outbox[c].pending \cup writing[c]

Pipeline(c) ==
    LET single(s) == IF s = {} THEN <<>> ELSE <<CHOOSE x \in s : TRUE>>
    IN  seen[c] \o wire[c] \o single(writing[c]) \o single(outbox[c].pending)

HoldsPlayer(c) ==
    session[c] \in {"admitted", "welcomed", "reading", "closing", "joining", "removing"}

WelcomeFrame == [kind : {"welcome"}, tick : 0..MaxTick]

IsSnapshot(f) ==
    /\ f.kind = "snapshot"
    /\ f.tick \in 0..MaxTick
    /\ DOMAIN f.players \subseteq PlayerIds \ {0}

IsFrame(f) == f \in WelcomeFrame \/ IsSnapshot(f)

\* Type invariant of the adapter: no socket buffer overflows, and what is under
\* way in a mailbox or a writer thread is at most one snapshot.
TypeOK ==
    /\ WorldTypeOK
    /\ next_player_id \in PlayerIds
    /\ player_id \in [Connections -> PlayerIds]
    /\ session \in [Connections -> {"none", "accepted", "admitted", "welcomed", "reading",
                                    "closing", "joining", "removing", "unlisting", "gone"}]
    /\ current_tick \in [Connections -> 0..MaxTick]
    /\ clients \subseteq Connections
    /\ writer \in [Connections -> {"none", "receiving", "waiting", "writing", "failed", "exited"}]
    /\ ticker.at \in {"advance", "lock", "publish"}
    /\ ticker.visit \subseteq Connections
    /\ Cardinality(ticker.encoded) = (IF ticker.at = "advance" THEN 0 ELSE 1)
    /\ \A s \in ticker.encoded : IsSnapshot(s)
    /\ socket \in [Connections -> {"open", "half", "reset", "shut"}]
    /\ \A c \in Connections :
           /\ outbox[c].closed \in BOOLEAN
           /\ Cardinality(outbox[c].pending) <= 1
           /\ Cardinality(writing[c]) = (IF writer[c] = "writing" THEN 1 ELSE 0)
           /\ \A s \in Pending(c) : IsSnapshot(s)
           /\ Len(wire[c]) <= SocketFrames
           /\ \A i \in DOMAIN wire[c] : IsFrame(wire[c][i])
           /\ Len(seen[c]) <= 1
           /\ \A i \in DOMAIN seen[c] : IsFrame(seen[c][i])

\* The world holds exactly the players of the sessions between their admission
\* and their removal, one each: no exit path of handle_client leaks a player or
\* removes somebody else's, even when identities wrap around and are refused.
EachPlayerHasOneSession ==
    /\ Admitted = {player_id[c] : c \in {d \in Connections : HoldsPlayer(d)}}
    /\ \A c, d \in Connections :
           HoldsPlayer(c) /\ HoldsPlayer(d) /\ player_id[c] = player_id[d] => c = d

\* No other session was given this one's identity.
OwnIdentity(c) == \A d \in Connections \ {c} : player_id[d] # player_id[c]

\* A writer thread sleeps on the condition variable only while its mailbox is
\* open and empty: neither a published snapshot nor a close is ever missed.
NoLostWakeup ==
    \A c \in Connections :
        writer[c] = "waiting" => outbox[c].pending = {} /\ ~outbox[c].closed

\* While a session reads and its writer has met no error, its sink is listed and its
\* mailbox open, whatever other sessions do (sinks are listed by identity, so this is
\* promised only to an identity that no other session was given).  When the session
\* thread has returned, its writer thread has too and its sink has left the list,
\* whichever of the tick thread, the reader and the writer noticed the end first.
ListedWhileServed ==
    \A c \in Connections :
        /\ /\ session[c] = "reading" /\ writer[c] \notin {"failed", "exited"}
           /\ OwnIdentity(c)
           => c \in clients /\ ~outbox[c].closed
        /\ session[c] = "gone" => c \notin clients /\ writer[c] \in {"none", "exited"}

\* Each snapshot is strictly newer than what went before.  It may carry the very tick
\* of the welcome, when it was taken before the admission and published after the
\* subscription, but never an older one.
TicksInOrder(c) ==
    LET q == Pipeline(c)
    IN  /\ \A i, j \in DOMAIN q :
               i < j => /\ q[j].kind = "snapshot"
                        /\ \/ q[i].tick < q[j].tick
                           \/ q[i].kind = "welcome" /\ q[i].tick = q[j].tick
        /\ \A i \in DOMAIN q : q[i].tick >= current_tick[c] /\ q[i].tick <= tick

\* Every snapshot newer than the welcome contains the player it is sent to.
ShowsItsClient(c) ==
    LET q == Pipeline(c)
    IN  \A i \in DOMAIN q :
            q[i].kind = "snapshot" /\ q[i].tick > current_tick[c] =>
                player_id[c] \in DOMAIN q[i].players

\* From one snapshot to a later one the acknowledged sequence never goes back.
AcknowledgesInOrder(c) ==
    LET q == Pipeline(c)
        id == player_id[c]
        concerns(i) == q[i].kind = "snapshot" /\ id \in DOMAIN q[i].players
    IN  \A i, j \in DOMAIN q :
            i < j /\ concerns(i) /\ concerns(j) =>
                q[i].players[id].last_applied_sequence
                    <= q[j].players[id].last_applied_sequence

\* Everything sent to a client, or on its way to it, is in order, the welcome first:
\* the client may reconcile its prediction against each snapshot in turn.  (A snapshot
\* may be of the tick a session was admitted in, and show whoever had its identity
\* before: acknowledgements are promised only to an identity that nobody else was given.)
PipelineInOrder ==
    \A c \in Connections :
        /\ TicksInOrder(c)
        /\ ShowsItsClient(c)
        /\ OwnIdentity(c) => AcknowledgesInOrder(c)

\* With peers that drain their sockets, every session that stops reading ends, its
\* player leaves the world and its writer thread returns.
SessionsEnd ==
    \A c \in Connections : session[c] = "closing" ~> session[c] = "gone"

\* With peers that drain their sockets, a published snapshot, or a newer one, is
\* read by its client unless the session ends first.
PublishedIsSeen ==
    \A c \in Connections : \A t \in 0..MaxTick :
        (\E s \in outbox[c].pending : s.tick = t)
            ~> \/ session[c] # "reading" \/ socket[c] # "open"
               \/ \E i \in DOMAIN seen[c] : seen[c][i].kind = "snapshot" /\ seen[c][i].tick >= t

\* The contract: a session that stops reading always gives its player back, with
\* nothing assumed of the peer.
PlayerRemovedOnEveryExit ==
    \A c \in Connections : session[c] = "closing" ~> ~HoldsPlayer(c)

\* Through this adapter each client follows the canonical ticks in order.
HeldTick(c) ==
    IF seen[c] # <<>> /\ seen[c][1].kind = "snapshot" THEN seen[c][1].tick ELSE -1

Feed == INSTANCE SnapshotFeed WITH
            Clients <- Connections,
            canonical <- tick,
            held <- [c \in Connections |-> HeldTick(c)]

ImplementsSnapshotFeed == Feed!Spec

=============================================================================
