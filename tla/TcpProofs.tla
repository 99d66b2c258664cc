------------------------------ MODULE TcpProofs ------------------------------
(***************************************************************************)
(* The threads of the native TCP harness, for any number of connections:   *)
(* no wakeup is lost, every player in the world belongs to one session,    *)
(* a served client stays listed, and nothing outlives its session.         *)
(*                                                                         *)
(* The invariants need each other.  That a waiting writer's mailbox is     *)
(* open and empty, and that a session's writer has returned before its     *)
(* player leaves, are facts about one connection (Lifecycle); that a       *)
(* player has one session needs the kernel's refusal of duplicates; that a *)
(* sink stays listed needs both.  The first half of the module proves      *)
(* them; the second proves what the sessions are sent.                     *)
(***************************************************************************)
EXTENDS TcpServer, KernelProofs, SequenceTheorems

View == [x : Coordinate, y : Coordinate, last_applied_sequence : Nat]

Snapshot ==
    [kind : {"snapshot"}, tick : 0..MaxTick,
     players : UNION {[ids -> View] : ids \in SUBSET (PlayerIds \ {0})}]

Frame == WelcomeFrame \cup Snapshot

Sessions == {"none", "accepted", "admitted", "welcomed", "reading",
             "closing", "joining", "removing", "unlisting", "gone"}

Writers == {"none", "receiving", "waiting", "writing", "failed", "exited"}

\* Types, as sets that the variables belong to.
Typed ==
    /\ WorldTypeOK
    /\ next_player_id \in PlayerIds
    /\ player_id \in [Connections -> PlayerIds]
    /\ session \in [Connections -> Sessions]
    /\ current_tick \in [Connections -> 0..MaxTick]
    /\ clients \in SUBSET Connections
    /\ outbox \in [Connections -> [pending : SUBSET Snapshot, closed : BOOLEAN]]
    /\ writer \in [Connections -> Writers]
    /\ writing \in [Connections -> SUBSET Snapshot]
    /\ ticker \in [at : {"advance", "lock", "publish"}, encoded : SUBSET Snapshot,
                   visit : SUBSET Connections]
    /\ socket \in [Connections -> {"open", "half", "reset", "shut"}]
    /\ wire \in [Connections -> Seq(Frame)]
    /\ seen \in [Connections -> Seq(Frame)]

AtMostOne(S) == \A x, y \in S : x = y

\* Where the threads of a connection can be, together with its mailbox and its socket.
Lifecycle(c) ==
    /\ session[c] = "none" => player_id[c] = 0
    /\ session[c] \in {"none", "accepted", "admitted"} => wire[c] = <<>> /\ seen[c] = <<>>
    /\ session[c] \in {"none", "accepted", "admitted", "welcomed"} => writer[c] = "none"
    /\ session[c] \in {"reading", "closing", "joining"} => writer[c] # "none"
    /\ session[c] = "joining" => outbox[c].closed
    /\ session[c] \in {"removing", "unlisting", "gone"} => writer[c] \in {"none", "exited"}
    /\ session[c] = "gone" => c \notin clients
    /\ writer[c] = "none" => c \notin clients /\ outbox[c].pending = {} /\ ~outbox[c].closed
    /\ writer[c] = "waiting" => outbox[c].pending = {} /\ ~outbox[c].closed
    /\ writer[c] \in {"failed", "exited"} => outbox[c].closed
    /\ outbox[c].closed => outbox[c].pending = {}
    /\ AtMostOne(outbox[c].pending) /\ AtMostOne(writing[c])
    /\ writer[c] = "writing" <=> writing[c] # {}
    /\ Len(wire[c]) <= SocketFrames /\ Len(seen[c]) <= 1

\* What the tick thread carries between its critical sections.
TickerInv ==
    /\ ticker.at = "advance" <=> ticker.encoded = {}
    /\ AtMostOne(ticker.encoded)
    /\ \A s \in ticker.encoded : s.tick = tick
    /\ ticker.at # "publish" => ticker.visit = {}
    /\ ticker.visit \subseteq clients

\* The sink of a session that reads is listed and open, in the terms of one connection.
Listed(c) ==
    session[c] = "reading" /\ writer[c] \notin {"failed", "exited"} /\ OwnIdentity(c)
        => c \in clients /\ ~outbox[c].closed

SessionInv ==
    /\ Typed
    /\ \A c \in Connections : Lifecycle(c)
    /\ TickerInv
    /\ EachPlayerHasOneSession
    /\ \A c \in Connections : Listed(c)

-----------------------------------------------------------------------------

(* Facts about data. *)

\* Replacing what is pending in a mailbox leaves a mailbox.
LEMMA MailboxUpdate ==
    ASSUME NEW S, NEW box \in [pending : S, closed : BOOLEAN], NEW x \in S
    PROVE  [box EXCEPT !.pending = x] \in [pending : S, closed : BOOLEAN]
OBVIOUS

\* A snapshot of a well-formed world is a frame.
LEMMA SnapshotFrame ==
    ASSUME NEW t \in 0..MaxTick, NEW ids \in SUBSET (PlayerIds \ {0}),
           NEW ps \in [ids -> PlayerRecord]
    PROVE  [kind |-> "snapshot", tick |-> t,
            players |-> [p \in ids |-> [x |-> ps[p].x, y |-> ps[p].y,
                             last_applied_sequence |-> ps[p].last_applied_sequence]]] \in Snapshot
<1> DEFINE shown == [p \in ids |-> [x |-> ps[p].x, y |-> ps[p].y,
                        last_applied_sequence |-> ps[p].last_applied_sequence]]
<1>1. shown \in [ids -> View]
  BY DEF PlayerRecord, View
<1> HIDE DEF shown
<1>2. shown \in UNION {[j -> View] : j \in SUBSET (PlayerIds \ {0})}
  BY <1>1
<1>3. QED
  BY <1>2 DEF Snapshot, shown

\* What a tick hands over to be published is one frame, of the new tick, that shows
\* exactly the admitted players and what has been applied of their input.
LEMMA TickAdvanceEffect ==
    ASSUME Typed, TickAdvance
    PROVE  /\ WorldTypeOK'
           /\ tick' = tick + 1
           /\ \E s \in Snapshot :
                 /\ ticker' = [ticker EXCEPT !.at = "lock", !.encoded = {s}]
                 /\ s.tick = tick'
                 /\ DOMAIN s.players = Admitted'
                 /\ \A p \in Admitted' :
                       s.players[p].last_applied_sequence = players'[p].last_applied_sequence
<1> DEFINE s == [kind |-> "snapshot", tick |-> tick',
                 players |-> [p \in Admitted' |-> [x |-> players'[p].x, y |-> players'[p].y,
                     last_applied_sequence |-> players'[p].last_applied_sequence]]]
<1>1. advance_tick /\ ticker' = [ticker EXCEPT !.at = "lock", !.encoded = {s}]
  BY DEF TickAdvance, snapshot
<1>2. WorldTypeOK'
  BY <1>1, AdvanceTickType DEF Typed
<1>3. tick' \in 0..MaxTick /\ Admitted' \in SUBSET (PlayerIds \ {0})
      /\ players' \in [Admitted' -> PlayerRecord]
  BY <1>2 DEF WorldTypeOK
<1>4. s \in Snapshot
  BY <1>3, SnapshotFrame
<1>5. tick' = tick + 1
  BY <1>1 DEF advance_tick
<1>6. /\ s.tick = tick'
      /\ DOMAIN s.players = Admitted'
      /\ \A p \in Admitted' :
            s.players[p].last_applied_sequence = players'[p].last_applied_sequence
  OBVIOUS
<1> HIDE DEF s
<1>7. QED
  BY <1>1, <1>2, <1>4, <1>5, <1>6

-----------------------------------------------------------------------------

(* Types are preserved. *)

\* The initial state has the types.
LEMMA InitTyped == Init => Typed
<1> SUFFICES ASSUME Init PROVE Typed
  OBVIOUS
<1>1. WorldTypeOK
  BY WorldInitType DEF Init
<1>2. 0 \in PlayerIds /\ (1 \in PlayerIds) /\ 0 \in 0..MaxTick
  BY ServerAssumption, KernelAssumption
<1>3. QED
  BY <1>1, <1>2 DEF Init, Typed, Sessions, Writers

\* The steps of the accept loop and of a session.
LEMMA SessionStepTyped ==
    ASSUME Typed, NEW c \in Connections, Accept(c) \/ SessionStep(c)
    PROVE  Typed'
<1> USE DEF Typed, Sessions, connection, mailbox, sending, network
<1>1. CASE Accept(c)
  <2>1. (next_player_id + 1) % IdSpace \in PlayerIds
    BY ServerAssumption, KernelAssumption
  <2>2. QED
    BY <1>1, <2>1, WorldUnchangedType DEF Accept, Goto
<1>2. CASE SetupFails(c)
  BY <1>2, WorldUnchangedType DEF SetupFails, Goto
<1>3. CASE Admit(c)
  <2>1. WorldTypeOK' /\ tick \in 0..MaxTick
    BY <1>3, AddPlayerType DEF Admit, WorldTypeOK
  <2>2. QED
    BY <1>3, <2>1 DEF Admit, Goto
<1>4. CASE Refuse(c)
  BY <1>4, WorldUnchangedType DEF Refuse, add_player_error, Goto
<1>5. CASE SendWelcome(c)
  <2>1. [kind |-> "welcome", tick |-> current_tick[c]] \in Frame
    BY DEF Frame, WelcomeFrame
  <2>2. wire' \in [Connections -> Seq(Frame)]
    BY <1>5, <2>1 DEF SendWelcome
  <2>3. QED
    BY <1>5, <2>2, WorldUnchangedType DEF SendWelcome, Goto
<1>6. CASE HandshakeFails(c)
  BY <1>6, WorldUnchangedType DEF HandshakeFails, Goto
<1>7. CASE Subscribe(c)
  BY <1>7, WorldUnchangedType DEF Subscribe, Goto, Writers
<1>8. CASE ReadEnds(c)
  BY <1>8, WorldUnchangedType DEF ReadEnds, Goto
<1>9. CASE CloseOutbox(c)
  BY <1>9, WorldUnchangedType DEF CloseOutbox, Goto, close, Closed, Notified, Writers
<1>10. CASE JoinWriter(c)
  BY <1>10, WorldUnchangedType DEF JoinWriter, Goto
<1>11. CASE RemovePlayer(c)
  BY <1>11, RemovePlayerType DEF RemovePlayer, Goto
<1>12. CASE Unlist(c)
  BY <1>12, WorldUnchangedType DEF Unlist, Goto, close, Closed, Notified, Writers
<1>13. QED
  BY <1>1, <1>2, <1>3, <1>4, <1>5, <1>6, <1>7, <1>8, <1>9, <1>10, <1>11, <1>12 DEF SessionStep

\* The steps of a writer thread.
LEMMA WriterStepTyped ==
    ASSUME Typed, NEW c \in Connections, WriterStep(c) \/ SpuriousWakeup(c)
    PROVE  Typed'
<1> USE WorldUnchangedType
    DEF Typed, Writers, connection, mailbox, sending, network, WriterGoto
<1>1. CASE Take(c)
  BY <1>1 DEF Take
<1>2. CASE ReceiveNone(c)
  BY <1>2 DEF ReceiveNone
<1>3. CASE WaitReady(c)
  BY <1>3 DEF WaitReady
<1>4. CASE SpuriousWakeup(c)
  BY <1>4 DEF SpuriousWakeup
<1>5. CASE WriteFrame(c)
  <2>1. wire' \in [Connections -> Seq(Frame)]
    BY <1>5 DEF WriteFrame, Frame
  <2>2. QED
    BY <1>5, <2>1 DEF WriteFrame
<1>6. CASE WriteFails(c)
  BY <1>6 DEF WriteFails, Closed
<1>7. CASE ShutDown(c)
  BY <1>7 DEF ShutDown
<1>8. QED
  BY <1>1, <1>2, <1>3, <1>4, <1>5, <1>6, <1>7 DEF WriterStep

\* The steps of the tick thread.
LEMMA TickStepTyped ==
    ASSUME Typed, TickStep
    PROVE  Typed'
<1> USE DEF Typed, connection, mailbox, sending, network
<1>1. CASE TickAdvance
  <2>1. PICK s \in Snapshot : ticker' = [ticker EXCEPT !.at = "lock", !.encoded = {s}]
    BY <1>1, TickAdvanceEffect
  <2>2. ticker' \in [at : {"advance", "lock", "publish"}, encoded : SUBSET Snapshot,
                     visit : SUBSET Connections]
    BY <2>1
  <2>3. WorldTypeOK'
    BY <1>1, TickAdvanceEffect
  <2>4. QED
    BY <1>1, <2>2, <2>3 DEF TickAdvance
<1>2. CASE LockClients
  BY <1>2, WorldUnchangedType DEF LockClients
<1>3. CASE Sleep
  BY <1>3, WorldUnchangedType DEF Sleep
<1>4. ASSUME NEW c \in Connections, PublishTo(c)
      PROVE  Typed'
  <2>1. CASE publish(c, ticker.encoded) /\ UNCHANGED clients
    <3>1. outbox' \in [Connections -> [pending : SUBSET Snapshot, closed : BOOLEAN]]
      <4>1. /\ ticker.encoded \in SUBSET Snapshot
            /\ outbox[c] \in [pending : SUBSET Snapshot, closed : BOOLEAN]
        OBVIOUS
      <4>2. [outbox[c] EXCEPT !.pending = ticker.encoded]
                \in [pending : SUBSET Snapshot, closed : BOOLEAN]
        BY <4>1, MailboxUpdate
      <4>3. outbox' = [outbox EXCEPT ![c] = [outbox[c] EXCEPT !.pending = ticker.encoded]]
        BY <2>1 DEF publish
      <4>4. QED
        BY <4>2, <4>3
    <3>2. writer' \in [Connections -> Writers]
      BY <2>1 DEF publish, Notified, Writers
    <3>3. ticker' \in [at : {"advance", "lock", "publish"}, encoded : SUBSET Snapshot,
                       visit : SUBSET Connections]
      BY <1>4 DEF PublishTo
    <3>4. QED
      BY <1>4, <2>1, <3>1, <3>2, <3>3, WorldUnchangedType DEF PublishTo
  <2>2. CASE clients' = clients \ {c} /\ UNCHANGED <<outbox, writer>>
    BY <1>4, <2>2, WorldUnchangedType DEF PublishTo
  <2>3. QED
    BY <1>4, <2>1, <2>2 DEF PublishTo
<1>5. QED
  BY <1>1, <1>2, <1>3, <1>4 DEF TickStep

\* What the peer does.
LEMMA PeerStepTyped ==
    ASSUME Typed, NEW c \in Connections, PeerStep(c)
    PROVE  Typed'
<1> USE DEF Typed, connection, mailbox, sending, network
<1>1. CASE PeerReads(c)
  <2>1. wire[c] \in Seq(Frame) /\ wire[c] # <<>>
    BY <1>1 DEF PeerReads
  <2>2. Head(wire[c]) \in Frame /\ Tail(wire[c]) \in Seq(Frame)
    BY <2>1, HeadTailProperties
  <2>3. <<Head(wire[c])>> \in Seq(Frame)
    BY <2>2
  <2>4. QED
    BY <1>1, <2>2, <2>3, WorldUnchangedType DEF PeerReads
<1>2. CASE PeerStopsSending(c)
  BY <1>2, WorldUnchangedType DEF PeerStopsSending
<1>3. CASE PeerResets(c)
  <2>1. <<>> \in Seq(Frame)
    OBVIOUS
  <2>2. QED
    BY <1>3, <2>1, WorldUnchangedType DEF PeerResets
<1>4. CASE ReadMalformed(c)
  BY <1>4, WorldUnchangedType DEF ReadMalformed, Goto, Sessions
<1>5. ASSUME NEW input \in Inputs, ReadInput(c, input)
      PROVE  Typed'
  <2>1. WorldTypeOK'
    <3>1. CASE submit_input(player_id[c], input)
      BY <3>1, SubmitInputType, KernelAssumption
    <3>2. CASE submit_input_ignored(player_id[c], input)
      BY <3>2, WorldUnchangedType DEF submit_input_ignored
    <3>3. QED
      BY <1>5, <3>1, <3>2 DEF ReadInput
  <2>2. QED
    BY <1>5, <2>1 DEF ReadInput
<1>6. QED
  BY <1>1, <1>2, <1>3, <1>4, <1>5 DEF PeerStep

-----------------------------------------------------------------------------

(* The threads of one connection. *)

\* A connection that a step leaves alone, or only takes out of the client list, stays
\* where it was.
LEMMA LifecycleFrame ==
    ASSUME NEW d \in Connections, Lifecycle(d),
           session'[d] = session[d], player_id'[d] = player_id[d],
           writer'[d] = writer[d], outbox'[d] = outbox[d], writing'[d] = writing[d],
           wire'[d] = wire[d], seen'[d] = seen[d],
           d \in clients' => d \in clients
    PROVE  Lifecycle(d)'
BY DEF Lifecycle, AtMostOne

\* The steps of the accept loop and of a session keep every connection's threads in order.
LEMMA SessionStepLifecycle ==
    ASSUME Typed, \A e \in Connections : Lifecycle(e), TickerInv,
           NEW c \in Connections, Accept(c) \/ SessionStep(c), NEW d \in Connections
    PROVE  Lifecycle(d)'
<1> USE DEF connection, mailbox, sending, network
<1>1. CASE Accept(c)
  <2>1. CASE d = c
    BY <1>1, <2>1 DEF Accept, Goto, Lifecycle, AtMostOne, Typed
  <2>2. CASE d # c
    BY <1>1, <2>2, LifecycleFrame DEF Accept, Goto, Typed
  <2>3. QED
    BY <2>1, <2>2
<1>2. CASE SetupFails(c)
  <2>1. CASE d = c
    BY <1>2, <2>1 DEF SetupFails, Goto, Lifecycle, AtMostOne, Typed
  <2>2. CASE d # c
    BY <1>2, <2>2, LifecycleFrame DEF SetupFails, Goto, Typed
  <2>3. QED
    BY <2>1, <2>2
<1>3. CASE Admit(c)
  <2>1. CASE d = c
    BY <1>3, <2>1 DEF Admit, Goto, Lifecycle, AtMostOne, Typed
  <2>2. CASE d # c
    BY <1>3, <2>2, LifecycleFrame DEF Admit, Goto, Typed
  <2>3. QED
    BY <2>1, <2>2
<1>4. CASE Refuse(c)
  <2>1. CASE d = c
    BY <1>4, <2>1 DEF Refuse, Goto, Lifecycle, AtMostOne, Typed
  <2>2. CASE d # c
    BY <1>4, <2>2, LifecycleFrame DEF Refuse, Goto, Typed
  <2>3. QED
    BY <2>1, <2>2
<1>5. CASE SendWelcome(c)
  <2>1. CASE d = c
    <3>1. wire[c] = <<>> /\ Writable(c)
      BY <1>5 DEF SendWelcome, Goto, Lifecycle
    <3>2. wire'[c] = <<[kind |-> "welcome", tick |-> current_tick[c]]>>
      BY <1>5, <3>1 DEF SendWelcome, Typed
    <3>3. Len(wire'[c]) <= SocketFrames
      BY <3>2, ServerAssumption
    <3>4. QED
      BY <1>5, <2>1, <3>3 DEF SendWelcome, Goto, Lifecycle, AtMostOne, Typed
  <2>2. CASE d # c
    BY <1>5, <2>2, LifecycleFrame DEF SendWelcome, Goto, Typed
  <2>3. QED
    BY <2>1, <2>2
<1>6. CASE HandshakeFails(c)
  <2>1. CASE d = c
    BY <1>6, <2>1 DEF HandshakeFails, Goto, Lifecycle, AtMostOne, Typed
  <2>2. CASE d # c
    BY <1>6, <2>2, LifecycleFrame DEF HandshakeFails, Goto, Typed
  <2>3. QED
    BY <2>1, <2>2
<1>7. CASE Subscribe(c)
  <2>1. CASE d = c
    BY <1>7, <2>1 DEF Subscribe, Goto, Lifecycle, AtMostOne, Typed
  <2>2. CASE d # c
    BY <1>7, <2>2, LifecycleFrame DEF Subscribe, Goto, Typed
  <2>3. QED
    BY <2>1, <2>2
<1>8. CASE ReadEnds(c)
  <2>1. CASE d = c
    BY <1>8, <2>1 DEF ReadEnds, Goto, Lifecycle, AtMostOne, Typed
  <2>2. CASE d # c
    BY <1>8, <2>2, LifecycleFrame DEF ReadEnds, Goto, Typed
  <2>3. QED
    BY <2>1, <2>2
<1>9. CASE CloseOutbox(c)
  <2>1. CASE d = c
    BY <1>9, <2>1
       DEF CloseOutbox, Goto, close, Closed, Notified, Lifecycle, AtMostOne, Typed
  <2>2. CASE d # c
    BY <1>9, <2>2, LifecycleFrame DEF CloseOutbox, Goto, close, Notified, Typed
  <2>3. QED
    BY <2>1, <2>2
<1>10. CASE JoinWriter(c)
  <2>1. CASE d = c
    BY <1>10, <2>1 DEF JoinWriter, Goto, Lifecycle, AtMostOne, Typed
  <2>2. CASE d # c
    BY <1>10, <2>2, LifecycleFrame DEF JoinWriter, Goto, Typed
  <2>3. QED
    BY <2>1, <2>2
<1>11. CASE RemovePlayer(c)
  <2>1. CASE d = c
    BY <1>11, <2>1 DEF RemovePlayer, Goto, Lifecycle, AtMostOne, Typed
  <2>2. CASE d # c
    BY <1>11, <2>2, LifecycleFrame DEF RemovePlayer, Goto, Typed
  <2>3. QED
    BY <2>1, <2>2
<1>12. CASE Unlist(c)
  <2> DEFINE own == {e \in clients : player_id[e] = player_id[c]}
  <2>1. CASE d \in own
    BY <1>12, <2>1
       DEF Unlist, Goto, close, Closed, Notified, Lifecycle, AtMostOne, Typed, Writers
  <2>2. CASE d \notin own /\ d = c
    BY <1>12, <2>2
       DEF Unlist, Goto, close, Closed, Notified, Lifecycle, AtMostOne, Typed, Writers
  <2>3. CASE d \notin own /\ d # c
    BY <1>12, <2>3, LifecycleFrame DEF Unlist, Goto, close, Notified, Typed
  <2>4. QED
    BY <2>1, <2>2, <2>3
<1>13. QED
  BY <1>1, <1>2, <1>3, <1>4, <1>5, <1>6, <1>7, <1>8, <1>9, <1>10, <1>11, <1>12 DEF SessionStep

\* So do the steps of a writer thread.
LEMMA WriterStepLifecycle ==
    ASSUME Typed, \A e \in Connections : Lifecycle(e),
           NEW c \in Connections, WriterStep(c) \/ SpuriousWakeup(c), NEW d \in Connections
    PROVE  Lifecycle(d)'
<1> USE DEF connection, mailbox, sending, network
<1>1. CASE Take(c)
  <2>1. CASE d = c
    BY <1>1, <2>1 DEF Take, WriterGoto, Lifecycle, AtMostOne, Typed
  <2>2. CASE d # c
    BY <1>1, <2>2, LifecycleFrame DEF Take, WriterGoto, Typed
  <2>3. QED
    BY <2>1, <2>2
<1>2. CASE ReceiveNone(c)
  <2>1. CASE d = c
    <3>1. /\ UNCHANGED <<session, player_id, clients, outbox, writing, wire, seen>>
          /\ writer[c] = "receiving" /\ writer'[c] = "exited"
          /\ outbox[c].pending = {} /\ outbox[c].closed
      BY <1>2 DEF ReceiveNone, WriterGoto, Typed
    <3>2. Lifecycle(c)
      OBVIOUS
    <3>3. session[c] \notin {"removing", "unlisting", "gone"} /\ writing[c] = {}
      BY <3>1, <3>2 DEF Lifecycle
    <3>4. QED
      BY <2>1, <3>1, <3>2, <3>3 DEF Lifecycle, AtMostOne
  <2>2. CASE d # c
    BY <1>2, <2>2, LifecycleFrame DEF ReceiveNone, WriterGoto, Typed
  <2>3. QED
    BY <2>1, <2>2
<1>3. CASE WaitReady(c)
  <2>1. CASE d = c
    BY <1>3, <2>1 DEF WaitReady, WriterGoto, Lifecycle, AtMostOne, Typed
  <2>2. CASE d # c
    BY <1>3, <2>2, LifecycleFrame DEF WaitReady, WriterGoto, Typed
  <2>3. QED
    BY <2>1, <2>2
<1>4. CASE SpuriousWakeup(c)
  <2>1. CASE d = c
    BY <1>4, <2>1 DEF SpuriousWakeup, WriterGoto, Lifecycle, AtMostOne, Typed
  <2>2. CASE d # c
    BY <1>4, <2>2, LifecycleFrame DEF SpuriousWakeup, WriterGoto, Typed
  <2>3. QED
    BY <2>1, <2>2
<1>5. CASE WriteFrame(c)
  <2>1. CASE d = c
    <3>1. PICK s \in writing[c] : wire' = [wire EXCEPT ![c] = Append(wire[c], s)]
      BY <1>5 DEF WriteFrame
    <3>2. wire[c] \in Seq(Frame) /\ s \in Frame /\ Len(wire[c]) < SocketFrames
      BY <1>5 DEF WriteFrame, Typed, Frame
    <3>3. Len(wire'[c]) = Len(wire[c]) + 1 /\ Len(wire[c]) \in Nat
      BY <3>1, <3>2 DEF Typed
    <3>4. Len(wire'[c]) <= SocketFrames
      BY <3>2, <3>3, ServerAssumption
    <3>5. session[c] \notin {"none", "accepted", "admitted"}
      BY <1>5 DEF WriteFrame, WriterGoto, Lifecycle
    <3>6. QED
      BY <1>5, <2>1, <3>4, <3>5 DEF WriteFrame, WriterGoto, Lifecycle, AtMostOne, Typed
  <2>2. CASE d # c
    BY <1>5, <2>2, LifecycleFrame DEF WriteFrame, WriterGoto, Typed
  <2>3. QED
    BY <2>1, <2>2
<1>6. CASE WriteFails(c)
  <2>1. CASE d = c
    BY <1>6, <2>1 DEF WriteFails, Closed, Lifecycle, AtMostOne, Typed
  <2>2. CASE d # c
    BY <1>6, <2>2, LifecycleFrame DEF WriteFails, Typed
  <2>3. QED
    BY <2>1, <2>2
<1>7. CASE ShutDown(c)
  <2>1. CASE d = c
    BY <1>7, <2>1 DEF ShutDown, WriterGoto, Lifecycle, AtMostOne, Typed
  <2>2. CASE d # c
    BY <1>7, <2>2, LifecycleFrame DEF ShutDown, WriterGoto, Typed
  <2>3. QED
    BY <2>1, <2>2
<1>8. QED
  BY <1>1, <1>2, <1>3, <1>4, <1>5, <1>6, <1>7 DEF WriterStep

\* A mailbox in the visiting list is open only while its writer thread may take from it.
LEMMA VisitedIsListed ==
    ASSUME TickerInv, NEW c \in Connections, Lifecycle(c), c \in ticker.visit
    PROVE  c \in clients /\ writer[c] # "none"
BY DEF TickerInv, Lifecycle

\* So do the steps of the tick thread, which publishes only to subscribed mailboxes.
LEMMA TickStepLifecycle ==
    ASSUME Typed, \A e \in Connections : Lifecycle(e), TickerInv, TickStep, NEW d \in Connections
    PROVE  Lifecycle(d)'
<1> USE DEF connection, mailbox, sending, network
<1>1. CASE TickAdvance
  BY <1>1, LifecycleFrame DEF TickAdvance
<1>2. CASE LockClients
  BY <1>2, LifecycleFrame DEF LockClients
<1>3. CASE Sleep
  BY <1>3, LifecycleFrame DEF Sleep
<1>4. ASSUME NEW c \in Connections, PublishTo(c)
      PROVE  Lifecycle(d)'
  <2>1. CASE d # c
    BY <1>4, <2>1, LifecycleFrame DEF PublishTo, publish, Notified, Typed
  <2>2. CASE d = c /\ publish(c, ticker.encoded) /\ UNCHANGED clients
    <3>1. ticker.encoded \in SUBSET Snapshot /\ AtMostOne(ticker.encoded)
          /\ writer[c] # "none"
      BY <1>4, VisitedIsListed DEF PublishTo, TickerInv, Typed
    <3>2. /\ outbox'[c].pending = ticker.encoded
          /\ outbox'[c].closed = outbox[c].closed
          /\ ~outbox[c].closed
      BY <2>2 DEF publish, Typed
    <3>3. writer'[c] = IF writer[c] = "waiting" THEN "receiving" ELSE writer[c]
      BY <2>2 DEF publish, Notified
    <3>4. QED
      BY <1>4, <2>2, <3>1, <3>2, <3>3 DEF PublishTo, Lifecycle, AtMostOne
  <2>3. CASE d = c /\ clients' = clients \ {c} /\ UNCHANGED <<outbox, writer>>
    BY <1>4, <2>3, LifecycleFrame DEF PublishTo
  <2>4. QED
    BY <1>4, <2>1, <2>2, <2>3 DEF PublishTo
<1>5. QED
  BY <1>1, <1>2, <1>3, <1>4 DEF TickStep

\* So does whatever the peer does.
LEMMA PeerStepLifecycle ==
    ASSUME Typed, \A e \in Connections : Lifecycle(e),
           NEW c \in Connections, PeerStep(c), NEW d \in Connections
    PROVE  Lifecycle(d)'
<1> USE DEF connection, mailbox, sending, network
<1>1. CASE PeerReads(c)
  <2>1. CASE d = c
    <3>1. wire[c] \in Seq(Frame) /\ wire[c] # <<>>
      BY <1>1 DEF PeerReads, Typed
    <3>2. Tail(wire[c]) \in Seq(Frame) /\ Len(Tail(wire[c])) = Len(wire[c]) - 1
          /\ Len(wire[c]) \in Nat
      BY <3>1
    <3>3. wire'[c] = Tail(wire[c]) /\ seen'[c] = <<Head(wire[c])>>
      BY <1>1 DEF PeerReads, Typed
    <3>4. Len(wire[c]) <= SocketFrames /\ session[c] \notin {"none", "accepted", "admitted"}
      BY <3>1 DEF Lifecycle
    <3>5. Len(wire'[c]) <= SocketFrames /\ Len(seen'[c]) <= 1
      BY <3>2, <3>3, <3>4, ServerAssumption
    <3>6. QED
      BY <1>1, <2>1, <3>4, <3>5 DEF PeerReads, Lifecycle, AtMostOne
  <2>2. CASE d # c
    BY <1>1, <2>2, LifecycleFrame DEF PeerReads, Typed
  <2>3. QED
    BY <2>1, <2>2
<1>2. CASE PeerStopsSending(c)
  BY <1>2, LifecycleFrame DEF PeerStopsSending
<1>3. CASE PeerResets(c)
  <2>1. CASE d = c
    <3>1. wire'[c] = <<>>
      BY <1>3 DEF PeerResets, Typed
    <3>2. Len(wire'[c]) <= SocketFrames
      BY <3>1, ServerAssumption
    <3>3. QED
      BY <1>3, <2>1, <3>1, <3>2 DEF PeerResets, Lifecycle, AtMostOne
  <2>2. CASE d # c
    BY <1>3, <2>2, LifecycleFrame DEF PeerResets, Typed
  <2>3. QED
    BY <2>1, <2>2
<1>4. CASE ReadMalformed(c)
  <2>1. CASE d = c
    BY <1>4, <2>1 DEF ReadMalformed, Goto, Lifecycle, AtMostOne, Typed
  <2>2. CASE d # c
    BY <1>4, <2>2, LifecycleFrame DEF ReadMalformed, Goto, Typed
  <2>3. QED
    BY <2>1, <2>2
<1>5. ASSUME NEW input \in Inputs, ReadInput(c, input)
      PROVE  Lifecycle(d)'
  BY <1>5, LifecycleFrame DEF ReadInput
<1>6. QED
  BY <1>1, <1>2, <1>3, <1>4, <1>5 DEF PeerStep

-----------------------------------------------------------------------------

(* Every step, for the parts that need no case of their own. *)

\* Every step of the system preserves the types.
LEMMA NextTyped == ASSUME Typed, [Next]_vars PROVE Typed'
<1>1. CASE TickStep
  BY <1>1, TickStepTyped
<1>2. ASSUME NEW c \in Connections,
             Accept(c) \/ SessionStep(c) \/ WriterStep(c) \/ SpuriousWakeup(c) \/ PeerStep(c)
      PROVE  Typed'
  BY <1>2, SessionStepTyped, WriterStepTyped, PeerStepTyped
<1>3. CASE UNCHANGED vars
  BY <1>3, WorldUnchangedType DEF vars, world, Typed
<1>4. QED
  BY <1>1, <1>2, <1>3 DEF Next

\* Every step keeps the threads of every connection in order.
LEMMA NextLifecycle ==
    ASSUME Typed, \A e \in Connections : Lifecycle(e), TickerInv, [Next]_vars
    PROVE  \A d \in Connections : Lifecycle(d)'
<1> SUFFICES ASSUME NEW d \in Connections PROVE Lifecycle(d)'
  OBVIOUS
<1>1. CASE TickStep
  BY <1>1, TickStepLifecycle
<1>2. ASSUME NEW c \in Connections,
             Accept(c) \/ SessionStep(c) \/ WriterStep(c) \/ SpuriousWakeup(c) \/ PeerStep(c)
      PROVE  Lifecycle(d)'
  BY <1>2, SessionStepLifecycle, WriterStepLifecycle, PeerStepLifecycle
<1>3. CASE UNCHANGED vars
  BY <1>3, LifecycleFrame DEF vars
<1>4. QED
  BY <1>1, <1>2, <1>3 DEF Next

\* Outside the tick thread, a step that leaves the tick alone and drops nobody who is
\* still to be visited leaves what the tick thread carries true.
LEMMA TickerFrame ==
    ASSUME TickerInv, UNCHANGED <<tick, ticker>>,
           clients \subseteq clients' \/ ticker.at # "publish"
    PROVE  TickerInv'
<1>1. ticker.visit \subseteq clients'
  BY DEF TickerInv
<1>2. QED
  BY <1>1 DEF TickerInv, AtMostOne

\* A step of a session, a writer thread or a peer leaves the tick thread's work alone.
LEMMA OthersTicker ==
    ASSUME NEW c \in Connections,
           Accept(c) \/ SessionStep(c) \/ WriterStep(c) \/ SpuriousWakeup(c) \/ PeerStep(c)
    PROVE  /\ UNCHANGED <<tick, ticker>>
           /\ clients \subseteq clients' \/ ticker.at # "publish"
<1> USE DEF world, mailbox, sending, network
<1>1. CASE Accept(c)
  BY <1>1 DEF Accept
<1>2. CASE SetupFails(c) \/ HandshakeFails(c) \/ ReadEnds(c) \/ CloseOutbox(c)
           \/ JoinWriter(c) \/ SendWelcome(c)
  BY <1>2 DEF SetupFails, HandshakeFails, ReadEnds, CloseOutbox, JoinWriter, SendWelcome
<1>3. CASE Admit(c) \/ Refuse(c) \/ RemovePlayer(c)
  BY <1>3 DEF Admit, Refuse, RemovePlayer, add_player, add_player_error, remove_player
<1>4. CASE Subscribe(c) \/ Unlist(c)
  BY <1>4 DEF Subscribe, Unlist, ClientsLockFree
<1>5. CASE WriterStep(c) \/ SpuriousWakeup(c)
  BY <1>5 DEF WriterStep, Take, ReceiveNone, WaitReady, WriteFrame, WriteFails, ShutDown,
              SpuriousWakeup
<1>6. CASE PeerReads(c) \/ PeerStopsSending(c) \/ PeerResets(c) \/ ReadMalformed(c)
  BY <1>6 DEF PeerReads, PeerStopsSending, PeerResets, ReadMalformed
<1>7. ASSUME NEW input \in Inputs, ReadInput(c, input)
      PROVE  /\ UNCHANGED <<tick, ticker>>
             /\ clients \subseteq clients'
  BY <1>7 DEF ReadInput, submit_input, submit_input_ignored
<1>8. QED
  BY <1>1, <1>2, <1>3, <1>4, <1>5, <1>6, <1>7 DEF SessionStep, PeerStep

\* Every step keeps what the tick thread carries true.
LEMMA NextTicker == ASSUME Typed, TickerInv, [Next]_vars PROVE TickerInv'
<1>1. CASE TickAdvance
  <2>1. PICK s \in Snapshot : /\ ticker' = [ticker EXCEPT !.at = "lock", !.encoded = {s}]
                              /\ s.tick = tick'
    BY <1>1, TickAdvanceEffect
  <2>2. ticker'.at = "lock" /\ ticker'.encoded = {s} /\ ticker'.visit = ticker.visit
    BY <2>1 DEF Typed
  <2>3. ticker.visit = {}
    BY <1>1 DEF TickAdvance, TickerInv
  <2>4. QED
    BY <2>1, <2>2, <2>3 DEF TickerInv, AtMostOne
<1>2. CASE LockClients
  BY <1>2 DEF LockClients, TickerInv, AtMostOne, Typed, mailbox, world
<1>3. CASE Sleep
  BY <1>3 DEF Sleep, TickerInv, AtMostOne, Typed, mailbox, world
<1>4. ASSUME NEW c \in Connections, PublishTo(c)
      PROVE  TickerInv'
  <2>1. /\ ticker'.at = ticker.at /\ ticker'.encoded = ticker.encoded
        /\ ticker'.visit = ticker.visit \ {c} /\ tick' = tick
        /\ ticker.at = "publish"
    BY <1>4 DEF PublishTo, Typed, world
  <2>2. clients \ {c} \subseteq clients'
    BY <1>4 DEF PublishTo
  <2>3. QED
    BY <2>1, <2>2 DEF TickerInv, AtMostOne
<1>5. ASSUME NEW c \in Connections,
             Accept(c) \/ SessionStep(c) \/ WriterStep(c) \/ SpuriousWakeup(c) \/ PeerStep(c)
      PROVE  TickerInv'
  BY <1>5, OthersTicker, TickerFrame
<1>6. CASE UNCHANGED vars
  BY <1>6, TickerFrame DEF vars
<1>7. QED
  BY <1>1, <1>2, <1>3, <1>4, <1>5, <1>6 DEF Next, TickStep

-----------------------------------------------------------------------------

(* One session for each player. *)

\* A step that admits and removes nobody, and moves no session between holding a
\* player and not holding one, keeps players and sessions matched.
LEMMA HoldersFrame ==
    ASSUME EachPlayerHasOneSession, Admitted' = Admitted,
           \A d \in Connections : HoldsPlayer(d)' <=> HoldsPlayer(d),
           \A d \in Connections : HoldsPlayer(d) => player_id'[d] = player_id[d]
    PROVE  EachPlayerHasOneSession'
<1>1. {player_id'[c] : c \in {d \in Connections : HoldsPlayer(d)'}}
          = {player_id[c] : c \in {d \in Connections : HoldsPlayer(d)}}
  OBVIOUS
<1>2. Admitted' = {player_id'[c] : c \in {d \in Connections : HoldsPlayer(d)'}}
  BY <1>1 DEF EachPlayerHasOneSession
<1>3. \A c, d \in Connections :
          HoldsPlayer(c)' /\ HoldsPlayer(d)' /\ player_id'[c] = player_id'[d] => c = d
  BY DEF EachPlayerHasOneSession
<1>4. QED
  BY <1>2, <1>3 DEF EachPlayerHasOneSession

\* An input, taken or ignored, and a tick leave the set of players alone.
LEMMA SamePlayers ==
    ASSUME \/ \E id : \E input : submit_input(id, input) \/ submit_input_ignored(id, input)
           \/ \E id : add_player_error(id)
           \/ advance_tick
           \/ UNCHANGED world
    PROVE  Admitted' = Admitted
BY DEF submit_input, submit_input_ignored, add_player_error, advance_tick, world, Admitted

\* The only steps that change who holds a player are the admission and the removal;
\* the kernel refuses a duplicate, and the removal names the session's own player.
LEMMA NextOneSession ==
    ASSUME Typed, \A e \in Connections : Lifecycle(e), EachPlayerHasOneSession, [Next]_vars
    PROVE  EachPlayerHasOneSession'
<1> USE DEF connection, mailbox, sending, network
<1>1. ASSUME NEW c \in Connections, Admit(c)
      PROVE  EachPlayerHasOneSession'
  <2>1. /\ player_id[c] \notin Admitted /\ Admitted' = Admitted \cup {player_id[c]}
        /\ player_id' = player_id
    BY <1>1 DEF Admit, add_player, CanAdd, Admitted
  <2>2. \A d \in Connections : HoldsPlayer(d)' <=> HoldsPlayer(d) \/ d = c
    BY <1>1 DEF Admit, Goto, HoldsPlayer, Typed
  <2>3. \A d \in Connections : HoldsPlayer(d) => player_id[d] \in Admitted
    BY DEF EachPlayerHasOneSession
  <2>4. Admitted' = {player_id'[d] : d \in {e \in Connections : HoldsPlayer(e)'}}
    BY <2>1, <2>2 DEF EachPlayerHasOneSession
  <2>5. \A d, e \in Connections :
            HoldsPlayer(d)' /\ HoldsPlayer(e)' /\ player_id'[d] = player_id'[e] => d = e
    BY <2>1, <2>2, <2>3 DEF EachPlayerHasOneSession
  <2>6. QED
    BY <2>4, <2>5 DEF EachPlayerHasOneSession
<1>2. ASSUME NEW c \in Connections, RemovePlayer(c)
      PROVE  EachPlayerHasOneSession'
  <2>1. Admitted' = Admitted \ {player_id[c]} /\ player_id' = player_id
    BY <1>2 DEF RemovePlayer, remove_player, Admitted
  <2>2. /\ HoldsPlayer(c)
        /\ \A d \in Connections : HoldsPlayer(d)' <=> HoldsPlayer(d) /\ d # c
    BY <1>2 DEF RemovePlayer, Goto, HoldsPlayer, Typed
  <2>3. \A d \in Connections : HoldsPlayer(d) /\ d # c => player_id[d] # player_id[c]
    BY <2>2 DEF EachPlayerHasOneSession
  <2>4. Admitted' = {player_id'[d] : d \in {e \in Connections : HoldsPlayer(e)'}}
    BY <2>1, <2>2, <2>3 DEF EachPlayerHasOneSession
  <2>5. \A d, e \in Connections :
            HoldsPlayer(d)' /\ HoldsPlayer(e)' /\ player_id'[d] = player_id'[e] => d = e
    BY <2>1, <2>2 DEF EachPlayerHasOneSession
  <2>6. QED
    BY <2>4, <2>5 DEF EachPlayerHasOneSession
<1>3. ASSUME NEW c \in Connections, Accept(c)
      PROVE  EachPlayerHasOneSession'
  <2>1. Admitted' = Admitted
    BY <1>3, SamePlayers DEF Accept
  <2>2. /\ ~HoldsPlayer(c) /\ \A d \in Connections : HoldsPlayer(d)' <=> HoldsPlayer(d)
        /\ \A d \in Connections : d # c => player_id'[d] = player_id[d]
    BY <1>3 DEF Accept, Goto, HoldsPlayer, Typed
  <2>3. QED
    BY <2>1, <2>2, HoldersFrame
<1>4. ASSUME NEW c \in Connections, SetupFails(c) \/ Refuse(c) \/ SendWelcome(c)
             \/ HandshakeFails(c) \/ Subscribe(c) \/ ReadEnds(c) \/ CloseOutbox(c)
             \/ JoinWriter(c) \/ Unlist(c) \/ ReadMalformed(c)
      PROVE  EachPlayerHasOneSession'
  <2>1. Admitted' = Admitted /\ player_id' = player_id
    BY <1>4, SamePlayers
       DEF SetupFails, Refuse, SendWelcome, HandshakeFails, Subscribe, ReadEnds,
           CloseOutbox, JoinWriter, Unlist, ReadMalformed
  <2>2. \A d \in Connections : HoldsPlayer(d)' <=> HoldsPlayer(d)
    <3>1. CASE SetupFails(c) \/ Refuse(c) \/ Unlist(c)
      BY <3>1 DEF SetupFails, Refuse, Unlist, Goto, HoldsPlayer, Typed
    <3>2. CASE SendWelcome(c) \/ HandshakeFails(c) \/ Subscribe(c)
      BY <3>2 DEF SendWelcome, HandshakeFails, Subscribe, Goto, HoldsPlayer, Typed
    <3>3. CASE ReadEnds(c) \/ CloseOutbox(c) \/ JoinWriter(c) \/ ReadMalformed(c)
      BY <3>3 DEF ReadEnds, CloseOutbox, JoinWriter, ReadMalformed, Goto, HoldsPlayer, Typed
    <3>4. QED
      BY <1>4, <3>1, <3>2, <3>3
  <2>3. QED
    BY <2>1, <2>2, HoldersFrame
<1>5. ASSUME NEW c \in Connections, WriterStep(c) \/ SpuriousWakeup(c)
      PROVE  EachPlayerHasOneSession'
  <2>1. UNCHANGED <<world, player_id, session>>
    BY <1>5 DEF WriterStep, Take, ReceiveNone, WaitReady, WriteFrame, WriteFails, ShutDown,
                SpuriousWakeup
  <2>2. QED
    BY <2>1, SamePlayers, HoldersFrame DEF HoldsPlayer
<1>6. ASSUME NEW c \in Connections, PeerReads(c) \/ PeerStopsSending(c) \/ PeerResets(c)
      PROVE  EachPlayerHasOneSession'
  <2>1. UNCHANGED <<world, player_id, session>>
    BY <1>6 DEF PeerReads, PeerStopsSending, PeerResets
  <2>2. QED
    BY <2>1, SamePlayers, HoldersFrame DEF HoldsPlayer
<1>7. ASSUME NEW c \in Connections, NEW input \in Inputs, ReadInput(c, input)
      PROVE  EachPlayerHasOneSession'
  <2>1. Admitted' = Admitted /\ UNCHANGED <<player_id, session>>
    BY <1>7, SamePlayers DEF ReadInput
  <2>2. QED
    BY <2>1, HoldersFrame DEF HoldsPlayer
<1>8. CASE TickStep
  <2>1. Admitted' = Admitted /\ UNCHANGED <<player_id, session>>
    BY <1>8, SamePlayers DEF TickStep, TickAdvance, LockClients, Sleep, PublishTo
  <2>2. QED
    BY <2>1, HoldersFrame DEF HoldsPlayer
<1>9. CASE UNCHANGED vars
  BY <1>9, SamePlayers, HoldersFrame DEF HoldsPlayer, vars, world
<1>10. QED
  BY <1>1, <1>2, <1>3, <1>4, <1>5, <1>6, <1>7, <1>8, <1>9 DEF Next, SessionStep, PeerStep

-----------------------------------------------------------------------------

(* A served client stays listed. *)

\* A step that takes nobody who reads out of the list, and closes no such mailbox.
LEMMA ListedFrame ==
    ASSUME NEW d \in Connections, Listed(d), UNCHANGED player_id,
           session'[d] = "reading" => session[d] = "reading",
           writer[d] \in {"failed", "exited"} => writer'[d] \in {"failed", "exited"},
           d \in clients => d \in clients' \/ outbox[d].closed,
           outbox'[d].closed => outbox[d].closed \/ writer'[d] \in {"failed", "exited"}
    PROVE  Listed(d)'
BY DEF Listed, OwnIdentity

\* A session that holds a player was given an identity other than the reserved one.
LEMMA HoldersIdentity ==
    ASSUME Typed, EachPlayerHasOneSession, NEW d \in Connections, HoldsPlayer(d)
    PROVE  player_id[d] # 0
BY DEF EachPlayerHasOneSession, Typed, WorldTypeOK

\* No other session, and no thread of this connection's own, unlists a served client.
LEMMA NextListed ==
    ASSUME Typed, \A e \in Connections : Lifecycle(e), TickerInv, EachPlayerHasOneSession,
           \A e \in Connections : Listed(e), [Next]_vars, NEW d \in Connections
    PROVE  Listed(d)'
<1> USE DEF connection, mailbox, sending, network
<1>1. ASSUME NEW c \in Connections, Accept(c)
      PROVE  Listed(d)'
  <2>1. CASE d = c
    BY <1>1, <2>1 DEF Accept, Goto, Listed, Typed
  <2>2. CASE d # c /\ session[d] = "reading"
    <3>1. player_id[c] = 0 /\ player_id[d] # 0
      BY <1>1, <2>2, HoldersIdentity DEF Accept, Goto, Lifecycle, HoldsPlayer
    <3>2. \A e \in Connections : e # c => player_id'[e] = player_id[e]
      BY <1>1 DEF Accept
    <3>3. OwnIdentity(d)' => OwnIdentity(d)
      BY <2>2, <3>1, <3>2 DEF OwnIdentity
    <3>4. UNCHANGED <<clients, outbox, writer>>
      BY <1>1 DEF Accept
    <3>5. QED
      BY <2>2, <3>3, <3>4 DEF Listed
  <2>3. CASE d # c /\ session[d] # "reading"
    BY <1>1, <2>3 DEF Accept, Goto, Listed, Typed
  <2>4. QED
    BY <2>1, <2>2, <2>3
<1>2. ASSUME NEW c \in Connections, Subscribe(c)
      PROVE  Listed(d)'
  <2>1. CASE d = c
    <3>1. ~outbox[c].closed /\ c \in clients'
      BY <1>2 DEF Subscribe, Goto, Lifecycle
    <3>2. QED
      BY <1>2, <2>1, <3>1 DEF Subscribe, Listed
  <2>2. CASE d # c
    BY <1>2, <2>2, ListedFrame DEF Subscribe, Goto, Typed
  <2>3. QED
    BY <2>1, <2>2
<1>3. ASSUME NEW c \in Connections, CloseOutbox(c)
      PROVE  Listed(d)'
  <2>1. CASE d = c
    BY <1>3, <2>1 DEF CloseOutbox, Goto, Listed, Typed
  <2>2. CASE d # c
    BY <1>3, <2>2, ListedFrame DEF CloseOutbox, Goto, close, Notified, Typed
  <2>3. QED
    BY <2>1, <2>2
<1>4. ASSUME NEW c \in Connections, Unlist(c)
      PROVE  Listed(d)'
  <2> DEFINE own == {e \in clients : player_id[e] = player_id[c]}
  <2>1. CASE d = c
    BY <1>4, <2>1 DEF Unlist, Goto, Listed, Typed
  <2>2. CASE d # c /\ d \in own
    BY <1>4, <2>2 DEF Unlist, Listed, OwnIdentity
  <2>3. CASE d # c /\ d \notin own
    BY <1>4, <2>3, ListedFrame DEF Unlist, Goto, close, Notified, Typed
  <2>4. QED
    BY <2>1, <2>2, <2>3
<1>5. ASSUME NEW c \in Connections, SetupFails(c) \/ Admit(c) \/ Refuse(c)
             \/ SendWelcome(c) \/ HandshakeFails(c) \/ ReadEnds(c) \/ JoinWriter(c)
             \/ RemovePlayer(c) \/ ReadMalformed(c)
      PROVE  Listed(d)'
  <2>1. UNCHANGED <<player_id, clients, outbox, writer>>
    BY <1>5 DEF SetupFails, Admit, Refuse, SendWelcome, HandshakeFails, ReadEnds, JoinWriter,
                RemovePlayer, ReadMalformed
  <2>2. PICK to \in Sessions \ {"reading"} : session' = [session EXCEPT ![c] = to]
    BY <1>5 DEF SetupFails, Admit, Refuse, SendWelcome, HandshakeFails, ReadEnds, JoinWriter,
                RemovePlayer, ReadMalformed, Goto, Sessions
  <2>3. session'[d] = "reading" => session[d] = "reading"
    BY <2>2 DEF Typed
  <2>4. QED
    BY <2>1, <2>3, ListedFrame
<1>6. ASSUME NEW c \in Connections, WriterStep(c) \/ SpuriousWakeup(c)
      PROVE  Listed(d)'
  <2>1. UNCHANGED <<player_id, clients, session>>
    BY <1>6 DEF WriterStep, Take, ReceiveNone, WaitReady, WriteFrame, WriteFails, ShutDown,
                SpuriousWakeup
  <2>2. outbox'[d].closed => outbox[d].closed \/ writer'[d] \in {"failed", "exited"}
    <3>1. CASE WriteFails(c)
      BY <3>1 DEF WriteFails, Typed
    <3>2. CASE Take(c)
      BY <3>2 DEF Take, Typed
    <3>3. CASE ~WriteFails(c) /\ ~Take(c)
      BY <1>6, <3>3 DEF WriterStep, ReceiveNone, WaitReady, WriteFrame, ShutDown,
                        SpuriousWakeup
    <3>4. QED
      BY <3>1, <3>2, <3>3
  <2>3. writer[d] \in {"failed", "exited"} => writer'[d] \in {"failed", "exited"}
    <3>1. CASE ShutDown(c)
      BY <3>1 DEF ShutDown, WriterGoto, Typed
    <3>2. CASE ~ShutDown(c)
      <4>1. writer[c] \notin {"failed", "exited"}
        BY <1>6, <3>2 DEF WriterStep, Take, ReceiveNone, WaitReady, WriteFrame, WriteFails,
                          SpuriousWakeup, WriterGoto
      <4>2. d # c => writer'[d] = writer[d]
        <5>1. CASE Take(c) \/ ReceiveNone(c) \/ WaitReady(c)
          BY <5>1 DEF Take, ReceiveNone, WaitReady, WriterGoto, Typed
        <5>2. CASE WriteFails(c) \/ SpuriousWakeup(c)
          BY <5>2 DEF WriteFails, SpuriousWakeup, WriterGoto, Typed
        <5>3. CASE WriteFrame(c)
          <6>1. writer' = [writer EXCEPT ![c] = "receiving"]
            BY <5>3 DEF WriteFrame, WriterGoto
          <6>2. QED
            BY <6>1 DEF Typed
        <5>4. QED
          BY <1>6, <3>2, <5>1, <5>2, <5>3 DEF WriterStep
      <4>3. QED
        BY <4>1, <4>2
    <3>3. QED
      BY <3>1, <3>2
  <2>4. QED
    BY <2>1, <2>2, <2>3, ListedFrame
<1>7. ASSUME NEW c \in Connections, PublishTo(c)
      PROVE  Listed(d)'
  <2>1. UNCHANGED <<player_id, session>>
    BY <1>7 DEF PublishTo
  <2>2. d \in clients => d \in clients' \/ outbox[d].closed
    BY <1>7 DEF PublishTo
  <2>3. outbox'[d].closed => outbox[d].closed
    <3>1. CASE UNCHANGED outbox
      BY <3>1
    <3>2. CASE publish(c, ticker.encoded)
      <4>1. outbox' = [outbox EXCEPT ![c].pending = ticker.encoded]
        BY <3>2 DEF publish
      <4>2. d # c => outbox'[d] = outbox[d]
        BY <4>1 DEF Typed
      <4>3. outbox[c] \in [pending : SUBSET Snapshot, closed : BOOLEAN]
        BY DEF Typed
      <4>4. outbox'[c] = [outbox[c] EXCEPT !.pending = ticker.encoded]
        BY <4>1 DEF Typed
      <4>5. outbox'[c].closed = outbox[c].closed
        BY <4>3, <4>4
      <4>6. QED
        BY <4>2, <4>5
    <3>3. QED
      BY <1>7, <3>1, <3>2 DEF PublishTo
  <2>4. writer[d] \in {"failed", "exited"} => writer'[d] \in {"failed", "exited"}
    BY <1>7 DEF PublishTo, publish, Notified, Typed
  <2>5. QED
    BY <2>1, <2>2, <2>3, <2>4, ListedFrame
<1>8. CASE \/ TickAdvance \/ LockClients \/ Sleep \/ UNCHANGED vars
           \/ \E c \in Connections : \/ PeerReads(c) \/ PeerStopsSending(c) \/ PeerResets(c)
                                     \/ \E input \in Inputs : ReadInput(c, input)
  <2>1. UNCHANGED <<player_id, session, clients, outbox, writer>>
    BY <1>8 DEF TickAdvance, LockClients, Sleep, vars, PeerReads, PeerStopsSending,
                PeerResets, ReadInput
  <2>2. QED
    BY <2>1, ListedFrame
<1>9. QED
  BY <1>1, <1>2, <1>3, <1>4, <1>5, <1>6, <1>7, <1>8
     DEF Next, TickStep, SessionStep, PeerStep

-----------------------------------------------------------------------------

(* The theorems. *)

\* Every step of the system preserves the inductive invariant.
LEMMA NextSessionInv == SessionInv /\ [Next]_vars => SessionInv'
<1> SUFFICES ASSUME SessionInv, [Next]_vars PROVE SessionInv'
  OBVIOUS
<1>1. /\ Typed /\ TickerInv /\ EachPlayerHasOneSession
      /\ \A c \in Connections : Lifecycle(c)
      /\ \A c \in Connections : Listed(c)
  BY DEF SessionInv
<1>2. Typed'
  BY <1>1, NextTyped
<1>3. \A c \in Connections : Lifecycle(c)'
  BY <1>1, NextLifecycle
<1>4. TickerInv'
  BY <1>1, NextTicker
<1>5. EachPlayerHasOneSession'
  BY <1>1, NextOneSession
<1>6. \A c \in Connections : Listed(c)'
  BY <1>1, NextListed
<1>7. QED
  BY <1>2, <1>3, <1>4, <1>5, <1>6 DEF SessionInv

\* The initial state satisfies it.
LEMMA InitSessionInv == Init => SessionInv
<1> SUFFICES ASSUME Init PROVE SessionInv
  OBVIOUS
<1>1. Typed
  BY InitTyped
<1>2. \A c \in Connections : Lifecycle(c) /\ Listed(c)
  BY ServerAssumption DEF Init, Lifecycle, Listed, AtMostOne
<1>3. TickerInv
  BY DEF Init, TickerInv, AtMostOne
<1>4. EachPlayerHasOneSession
  BY DEF Init, WorldInit, Admitted, HoldsPlayer, EachPlayerHasOneSession
<1>5. QED
  BY <1>1, <1>2, <1>3, <1>4 DEF SessionInv

\* The inductive invariant of the harness: the threads of every connection, the tick
\* thread's work, the match of players and sessions and the client list, together.
THEOREM SessionInvariant == Spec => []SessionInv
BY InitSessionInv, NextSessionInv, PTL DEF Spec

\* A set of at most one snapshot has the cardinality its emptiness says.
LEMMA FewSnapshots ==
    ASSUME NEW S, AtMostOne(S)
    PROVE  Cardinality(S) = IF S = {} THEN 0 ELSE 1
<1>1. CASE S = {}
  BY <1>1, FS_EmptySet
<1>2. CASE S # {}
  <2>1. PICK x : S = {x}
    BY <1>2 DEF AtMostOne
  <2>2. QED
    BY <1>2, <2>1, FS_Singleton
<1>3. QED
  BY <1>1, <1>2

\* Members of the frame types are the frames the type invariant speaks of.
LEMMA FrameTypes ==
    /\ \A f \in Snapshot : IsSnapshot(f)
    /\ \A f \in Frame : IsFrame(f)
<1>1. ASSUME NEW f \in Snapshot PROVE IsSnapshot(f)
  <2>1. f.kind = "snapshot" /\ f.tick \in 0..MaxTick
        /\ f.players \in UNION {[ids -> View] : ids \in SUBSET (PlayerIds \ {0})}
    BY DEF Snapshot
  <2>2. PICK ids \in SUBSET (PlayerIds \ {0}) : f.players \in [ids -> View]
    BY <2>1
  <2>3. QED
    BY <2>1, <2>2 DEF IsSnapshot
<1>2. QED
  BY <1>1 DEF Frame, IsFrame

\* The harness is well typed: in particular no more frames are ever in a socket than it
\* holds, and a mailbox and a writer thread carry at most one snapshot each.
THEOREM Typing == Spec => []TypeOK
<1>1. SessionInv => TypeOK
  <2> SUFFICES ASSUME SessionInv PROVE TypeOK
    OBVIOUS
  <2>1. Typed /\ TickerInv /\ \A c \in Connections : Lifecycle(c)
    BY DEF SessionInv
  <2>2. /\ ticker.at \in {"advance", "lock", "publish"}
        /\ ticker.visit \subseteq Connections
        /\ \A s \in ticker.encoded : IsSnapshot(s)
    BY <2>1, FrameTypes DEF Typed
  <2>3. Cardinality(ticker.encoded) = (IF ticker.at = "advance" THEN 0 ELSE 1)
    BY <2>1, FewSnapshots DEF TickerInv
  <2>4. ASSUME NEW c \in Connections
        PROVE  /\ outbox[c].closed \in BOOLEAN
               /\ Cardinality(outbox[c].pending) <= 1
               /\ Cardinality(writing[c]) = (IF writer[c] = "writing" THEN 1 ELSE 0)
               /\ \A s \in Pending(c) : IsSnapshot(s)
               /\ Len(wire[c]) <= SocketFrames
               /\ \A i \in DOMAIN wire[c] : IsFrame(wire[c][i])
               /\ Len(seen[c]) <= 1
               /\ \A i \in DOMAIN seen[c] : IsFrame(seen[c][i])
    <3>1. Lifecycle(c)
      BY <2>1
    <3>2. outbox[c].closed \in BOOLEAN /\ outbox[c].pending \subseteq Snapshot
          /\ writing[c] \subseteq Snapshot
      BY <2>1 DEF Typed
    <3>3. wire[c] \in Seq(Frame) /\ seen[c] \in Seq(Frame)
      BY <2>1 DEF Typed
    <3>4. Cardinality(outbox[c].pending) <= 1
      BY <3>1, FewSnapshots DEF Lifecycle
    <3>5. Cardinality(writing[c]) = (IF writer[c] = "writing" THEN 1 ELSE 0)
      BY <3>1, FewSnapshots DEF Lifecycle
    <3>6. \A s \in Pending(c) : IsSnapshot(s)
      BY <3>2, FrameTypes DEF Pending
    <3>7. /\ \A i \in DOMAIN wire[c] : IsFrame(wire[c][i])
          /\ \A i \in DOMAIN seen[c] : IsFrame(seen[c][i])
      BY <3>3, FrameTypes
    <3>8. QED
      BY <3>1, <3>2, <3>4, <3>5, <3>6, <3>7 DEF Lifecycle
  <2>5. QED
    BY <2>1, <2>2, <2>3, <2>4 DEF TypeOK, Typed, Sessions, Writers
<1>2. QED
  BY <1>1, SessionInvariant, PTL

\* No thread sleeps through the publication or the close it waits for (LatestSnapshot:
\* every change of the mailbox that a waiting receive looks for notifies it).
THEOREM WakeupsArrive == Spec => []NoLostWakeup
<1>1. SessionInv => NoLostWakeup
  BY DEF SessionInv, Lifecycle, NoLostWakeup
<1>2. QED
  BY <1>1, SessionInvariant, PTL

\* Players and sessions match one to one, whatever way the sessions end and however
\* the identities wrap around (handle_client's single path of removal).
THEOREM OneSessionEach == Spec => []EachPlayerHasOneSession
<1>1. SessionInv => EachPlayerHasOneSession
  BY DEF SessionInv
<1>2. QED
  BY <1>1, SessionInvariant, PTL

\* A served client is listed with an open mailbox, and a session that is over has left
\* neither a sink in the list nor a writer thread behind.
THEOREM ServedClientsAreListed == Spec => []ListedWhileServed
<1>1. SessionInv => ListedWhileServed
  BY DEF SessionInv, Lifecycle, Listed, ListedWhileServed
<1>2. QED
  BY <1>1, SessionInvariant, PTL

-----------------------------------------------------------------------------

(***************************************************************************)
(* What the native TCP harness sends: for any number of connections, every *)
(* client is sent a welcome and then ever newer states of the world it is  *)
(* part of, and follows the canonical ticks in order (SnapshotFeed).       *)
(*                                                                         *)
(* The order of what is on its way to a client is settled in four places   *)
(* (read, in the socket, held by the writer thread, in the mailbox), and   *)
(* the tick thread carries the next snapshot between two critical          *)
(* sections while sessions come and go.  FeedInv says of each place what   *)
(* may follow what, and what the carried snapshot may still be given to.   *)
(***************************************************************************)

Frames(q) == {q[i] : i \in DOMAIN q}

\* What a client has read last or can still read of what the socket holds, and what
\* is on its way to it altogether.
Sent(c) == Frames(seen[c]) \cup Frames(wire[c])

OnItsWay(c) == Sent(c) \cup writing[c] \cup outbox[c].pending

Concerns(c, f) == f.kind = "snapshot" /\ player_id[c] \in DOMAIN f.players

Applied(c, f) == f.players[player_id[c]].last_applied_sequence

\* Frame g may follow frame f on its way to c.
Before(c, f, g) ==
    /\ g.kind = "snapshot"
    /\ f.tick < g.tick \/ (f.kind = "welcome" /\ f.tick = g.tick)
    /\ OwnIdentity(c) /\ Concerns(c, f) /\ Concerns(c, g) => Applied(c, f) <= Applied(c, g)

\* Frame f agrees with the session it is sent to and with the world as it is now.
Fits(c, f) ==
    /\ current_tick[c] <= f.tick /\ f.tick <= tick
    /\ f.kind = "snapshot" /\ current_tick[c] < f.tick => Concerns(c, f)
    /\ OwnIdentity(c) /\ HoldsPlayer(c) /\ Concerns(c, f)
           => Applied(c, f) <= players[player_id[c]].last_applied_sequence

Ordered(c) ==
    /\ \A i, j \in DOMAIN wire[c] : i < j => Before(c, wire[c][i], wire[c][j])
    /\ \A f \in Frames(seen[c]) : \A g \in Frames(wire[c]) : Before(c, f, g)
    /\ \A f \in Sent(c) : \A g \in writing[c] : Before(c, f, g)
    /\ \A f \in Sent(c) \cup writing[c] : \A g \in outbox[c].pending : Before(c, f, g)

\* The tick thread has a snapshot that c may still be given.
Due(c) == ticker.at = "lock" \/ c \in ticker.visit

\* The encoded snapshot may follow everything on its way to a client it is due to.
Deliverable(c) ==
    \A s \in ticker.encoded :
        /\ HoldsPlayer(c) => Fits(c, s)
        /\ Due(c) => \A f \in OnItsWay(c) : Before(c, f, s)

FeedOf(c) ==
    /\ current_tick[c] <= tick
    /\ OnItsWay(c) # {} => player_id[c] # 0
    /\ \A f \in OnItsWay(c) : Fits(c, f)
    /\ Ordered(c)
    /\ Deliverable(c)

\* Whoever an encoded snapshot shows has been admitted under that identity.
ShownWereAdmitted ==
    \A s \in ticker.encoded : \A p \in DOMAIN s.players :
        \E d \in Connections : player_id[d] = p /\ session[d] \notin {"none", "accepted"}

FeedInv == (\A c \in Connections : FeedOf(c)) /\ ShownWereAdmitted

-----------------------------------------------------------------------------

(* What a step does to one connection. *)

\* A session past its admission keeps its identity and its admission tick.
Settled(c) == session[c] \notin {"none", "accepted"}

\* Whatever is on its way to a client, its session has been admitted.
LEMMA SentToSettled ==
    ASSUME NEW c \in Connections, Lifecycle(c)
    PROVE  /\ OnItsWay(c) # {} => Settled(c)
           /\ session[c] = "admitted" => OnItsWay(c) = {}
           /\ HoldsPlayer(c) => Settled(c)
<1>1. session[c] \in {"none", "accepted", "admitted"} => OnItsWay(c) = {}
  <2>1. Frames(<<>>) = {}
    BY DEF Frames
  <2>2. QED
    BY <2>1 DEF Lifecycle, OnItsWay, Sent
<1>2. QED
  BY <1>1 DEF Settled, HoldsPlayer

\* The kernel never takes an acknowledgement back, and the tick never goes back.
LEMMA AppliedGrows ==
    ASSUME Typed, [Next]_vars
    PROVE  /\ tick' >= tick
           /\ \A p \in Admitted \cap Admitted' :
                 players'[p].last_applied_sequence >= players[p].last_applied_sequence
<1> DEFINE Grows == /\ tick' >= tick
                    /\ \A p \in Admitted \cap Admitted' :
                          players'[p].last_applied_sequence >= players[p].last_applied_sequence
<1>1. /\ tick \in 0..MaxTick /\ tick \in Int
      /\ players \in [Admitted -> PlayerRecord]
      /\ \A p \in Admitted :
             /\ players[p] \in PlayerRecord
             /\ players[p].last_applied_sequence \in Nat
             /\ players[p].last_received_sequence \in Nat
             /\ players[p].last_applied_sequence <= players[p].last_received_sequence
  <2>1. /\ tick \in 0..MaxTick /\ players \in [Admitted -> PlayerRecord]
        /\ \A p \in Admitted : players[p].last_applied_sequence <= players[p].last_received_sequence
    BY DEF Typed, WorldTypeOK
  <2>2. \A r \in PlayerRecord : r.last_applied_sequence \in Nat /\ r.last_received_sequence \in Nat
    BY DEF PlayerRecord
  <2>3. QED
    BY <2>1, <2>2
<1>2. CASE UNCHANGED world
  BY <1>1, <1>2 DEF world
<1>3. ASSUME NEW id \in PlayerIds, add_player(id)
      PROVE  Grows
  BY <1>1, <1>3 DEF add_player, CanAdd, Admitted
<1>4. ASSUME NEW id \in PlayerIds, remove_player(id)
      PROVE  Grows
  BY <1>1, <1>4 DEF remove_player, Admitted
<1>5. ASSUME NEW id \in PlayerIds, NEW input \in Inputs, submit_input(id, input)
      PROVE  Grows
  <2>1. id \in Admitted /\ tick' = tick
        /\ players' = [players EXCEPT
                           ![id].horizontal = input.horizontal,
                           ![id].vertical = input.vertical,
                           ![id].last_received_sequence = input.sequence]
    BY <1>5 DEF submit_input, Fresh
  <2>2. ASSUME NEW p \in Admitted
        PROVE  players'[p].last_applied_sequence = players[p].last_applied_sequence
    BY <1>1, <2>1, <2>2 DEF PlayerRecord
  <2>3. QED
    BY <1>1, <2>1, <2>2
<1>6. CASE advance_tick
  <2>1. tick' = tick + 1 /\ players' = [p \in Admitted |-> Stepped(players[p])]
    BY <1>6 DEF advance_tick
  <2>2. \A p \in Admitted :
            players'[p].last_applied_sequence = players[p].last_received_sequence
    BY <1>1, <2>1, SteppedRecord
  <2>3. QED
    BY <1>1, <2>1, <2>2
<1>7. \/ UNCHANGED world
      \/ \E id \in PlayerIds : add_player(id) \/ remove_player(id)
      \/ \E id \in PlayerIds : \E input \in Inputs : submit_input(id, input)
      \/ advance_tick
  <2>1. ASSUME NEW c \in Connections, Accept(c) \/ SessionStep(c)
        PROVE  UNCHANGED world \/ \E id \in PlayerIds : add_player(id) \/ remove_player(id)
    BY <2>1 DEF Typed, Accept, SessionStep, SetupFails, Admit, Refuse, SendWelcome,
                HandshakeFails, Subscribe, ReadEnds, CloseOutbox, JoinWriter, RemovePlayer,
                Unlist, add_player_error
  <2>2. ASSUME NEW c \in Connections, WriterStep(c) \/ SpuriousWakeup(c)
        PROVE  UNCHANGED world
    BY <2>2 DEF WriterStep, Take, ReceiveNone, WaitReady, WriteFrame, WriteFails, ShutDown,
                SpuriousWakeup
  <2>3. ASSUME NEW c \in Connections, PeerStep(c)
        PROVE  \/ UNCHANGED world
               \/ \E id \in PlayerIds : \E input \in Inputs : submit_input(id, input)
    BY <2>3 DEF Typed, PeerStep, PeerReads, PeerStopsSending, PeerResets, ReadMalformed,
                ReadInput, submit_input_ignored
  <2>4. CASE TickStep
    BY <2>4 DEF TickStep, TickAdvance, LockClients, Sleep, PublishTo
  <2>5. CASE UNCHANGED vars
    BY <2>5 DEF vars, world
  <2>6. QED
    BY <2>1, <2>2, <2>3, <2>4, <2>5 DEF Next
<1>8. QED
  BY <1>2, <1>3, <1>4, <1>5, <1>6, <1>7

\* A session that is settled stays so, keeps its identity and its admission tick, and
\* never again gets hold of a player it gave back.
LEMMA SettledStep ==
    ASSUME Typed, [Next]_vars, NEW c \in Connections, Settled(c)
    PROVE  /\ Settled(c)'
           /\ player_id'[c] = player_id[c]
           /\ current_tick'[c] = current_tick[c]
           /\ HoldsPlayer(c)' => HoldsPlayer(c)
<1> USE DEF Settled, HoldsPlayer, connection
<1>1. ASSUME NEW d \in Connections, Accept(d) \/ Admit(d)
      PROVE  /\ UNCHANGED <<session[c], player_id[c], current_tick[c]>>
  BY <1>1 DEF Accept, Admit, Goto, Typed
<1>2. ASSUME NEW d \in Connections, SetupFails(d) \/ Refuse(d)
      PROVE  /\ UNCHANGED <<session[c], player_id[c], current_tick[c]>>
  BY <1>2 DEF SetupFails, Refuse, Goto, Typed
<1>3. ASSUME NEW d \in Connections,
             SendWelcome(d) \/ HandshakeFails(d) \/ Subscribe(d) \/ ReadEnds(d)
             \/ CloseOutbox(d) \/ JoinWriter(d) \/ RemovePlayer(d) \/ Unlist(d)
             \/ ReadMalformed(d)
      PROVE  /\ UNCHANGED <<player_id, current_tick>>
             /\ \/ session'[c] = session[c]
                \/ session'[c] \in {"welcomed", "reading", "closing", "joining", "removing"}
                   /\ HoldsPlayer(c)
                \/ session'[c] \in {"unlisting", "gone"}
  <2>1. CASE SendWelcome(d) \/ HandshakeFails(d) \/ Subscribe(d)
    BY <2>1 DEF SendWelcome, HandshakeFails, Subscribe, Goto, Typed
  <2>2. CASE ReadEnds(d) \/ CloseOutbox(d) \/ JoinWriter(d) \/ ReadMalformed(d)
    BY <2>2 DEF ReadEnds, CloseOutbox, JoinWriter, ReadMalformed, Goto, Typed
  <2>3. CASE RemovePlayer(d) \/ Unlist(d)
    BY <2>3 DEF RemovePlayer, Unlist, Goto, Typed
  <2>4. QED
    BY <1>3, <2>1, <2>2, <2>3
<1>4. ASSUME NEW d \in Connections, WriterStep(d) \/ SpuriousWakeup(d)
      PROVE  UNCHANGED <<session, player_id, current_tick>>
  BY <1>4 DEF WriterStep, Take, ReceiveNone, WaitReady, WriteFrame, WriteFails, ShutDown,
              SpuriousWakeup
<1>5. ASSUME NEW d \in Connections,
             PeerReads(d) \/ PeerStopsSending(d) \/ PeerResets(d)
             \/ \E input \in Inputs : ReadInput(d, input)
      PROVE  UNCHANGED <<session, player_id, current_tick>>
  BY <1>5 DEF PeerReads, PeerStopsSending, PeerResets, ReadInput
<1>6. CASE TickStep \/ UNCHANGED vars
  BY <1>6 DEF TickStep, TickAdvance, LockClients, Sleep, PublishTo, vars
<1>7. QED
  BY <1>1, <1>2, <1>3, <1>4, <1>5, <1>6 DEF Next, SessionStep, PeerStep

\* An identity that is somebody else's stays so: a later session is given an identity
\* once, when it had none.
LEMMA IdentityStep ==
    ASSUME Typed, \A e \in Connections : Lifecycle(e), [Next]_vars,
           NEW c \in Connections, Settled(c), player_id[c] # 0
    PROVE  OwnIdentity(c)' => OwnIdentity(c)
<1>1. player_id'[c] = player_id[c]
  BY SettledStep
<1>2. ASSUME NEW d \in Connections
      PROVE  player_id'[d] = player_id[d] \/ player_id[d] = 0
  <2>1. CASE session[d] = "none"
    BY <2>1 DEF Lifecycle
  <2>2. CASE session[d] = "accepted"
    <3>1. ASSUME NEW e \in Connections, Accept(e)
          PROVE  player_id'[d] = player_id[d]
      BY <2>2, <3>1 DEF Accept, Goto, Typed
    <3>2. (\A e \in Connections : ~Accept(e)) => player_id' = player_id
      <4> SUFFICES ASSUME \A e \in Connections : ~Accept(e) PROVE player_id' = player_id
        OBVIOUS
      <4> USE DEF connection
      <4>1. ASSUME NEW e \in Connections, SessionStep(e)
            PROVE  player_id' = player_id
        BY <4>1 DEF SessionStep, SetupFails, Admit, Refuse, SendWelcome, HandshakeFails,
                    Subscribe, ReadEnds, CloseOutbox, JoinWriter, RemovePlayer, Unlist
      <4>2. ASSUME NEW e \in Connections, WriterStep(e) \/ SpuriousWakeup(e)
            PROVE  player_id' = player_id
        BY <4>2 DEF WriterStep, Take, ReceiveNone, WaitReady, WriteFrame, WriteFails,
                    ShutDown, SpuriousWakeup
      <4>3. ASSUME NEW e \in Connections, PeerStep(e)
            PROVE  player_id' = player_id
        BY <4>3 DEF PeerStep, PeerReads, PeerStopsSending, PeerResets, ReadMalformed,
                    ReadInput
      <4>4. CASE TickStep \/ UNCHANGED vars
        BY <4>4 DEF TickStep, TickAdvance, LockClients, Sleep, PublishTo, vars
      <4>5. QED
        BY <4>1, <4>2, <4>3, <4>4 DEF Next
    <3>3. QED
      BY <3>1, <3>2
  <2>3. CASE Settled(d)
    BY <2>3, SettledStep
  <2>4. QED
    BY <2>1, <2>2, <2>3 DEF Settled
<1>3. QED
  BY <1>1, <1>2 DEF OwnIdentity

\* What may follow what does not change while anything is on its way.
LEMMA BeforeStable ==
    ASSUME Typed, \A e \in Connections : Lifecycle(e), [Next]_vars,
           NEW c \in Connections, Settled(c), player_id[c] # 0, NEW f, NEW g, Before(c, f, g)
    PROVE  Before(c, f, g)'
<1>1. player_id'[c] = player_id[c] /\ (OwnIdentity(c)' => OwnIdentity(c))
  BY SettledStep, IdentityStep
<1>2. QED
  BY <1>1 DEF Before, Concerns, Applied

\* Nor does a frame that agreed with its session and the world ever come to disagree.
LEMMA FitsStable ==
    ASSUME Typed, Typed', \A e \in Connections : Lifecycle(e), [Next]_vars,
           EachPlayerHasOneSession, EachPlayerHasOneSession',
           NEW c \in Connections, Settled(c), player_id[c] # 0,
           NEW f \in Frame, Fits(c, f)
    PROVE  Fits(c, f)'
<1>1. /\ player_id'[c] = player_id[c] /\ current_tick'[c] = current_tick[c]
      /\ OwnIdentity(c)' => OwnIdentity(c)
      /\ HoldsPlayer(c)' => HoldsPlayer(c)
  BY SettledStep, IdentityStep
<1>2. Concerns(c, f)' <=> Concerns(c, f)
  BY <1>1 DEF Concerns
<1>3. Applied(c, f)' = Applied(c, f)
  BY <1>1 DEF Applied
<1>4. f.tick \in Int /\ tick \in Int /\ tick' \in Int /\ tick' >= tick
  <2>1. f.tick \in 0..MaxTick
    BY DEF Frame, WelcomeFrame, Snapshot
  <2>2. tick \in 0..MaxTick /\ tick' \in 0..MaxTick
    BY DEF Typed, WorldTypeOK
  <2>3. QED
    BY <2>1, <2>2, AppliedGrows
<1>5. HoldsPlayer(c)' =>
          players'[player_id[c]].last_applied_sequence
              >= players[player_id[c]].last_applied_sequence
  <2> SUFFICES ASSUME HoldsPlayer(c)'
               PROVE  players'[player_id[c]].last_applied_sequence
                          >= players[player_id[c]].last_applied_sequence
    OBVIOUS
  <2>1. player_id[c] \in Admitted /\ player_id[c] \in Admitted'
    BY <1>1 DEF EachPlayerHasOneSession
  <2>2. QED
    BY <2>1, AppliedGrows
<1>6. HoldsPlayer(c)' =>
          /\ players[player_id[c]].last_applied_sequence \in Nat
          /\ players'[player_id[c]].last_applied_sequence \in Nat
  <2> SUFFICES ASSUME HoldsPlayer(c)'
               PROVE  /\ players[player_id[c]].last_applied_sequence \in Nat
                      /\ players'[player_id[c]].last_applied_sequence \in Nat
    OBVIOUS
  <2>1. player_id[c] \in Admitted /\ player_id[c] \in Admitted'
    BY <1>1 DEF EachPlayerHasOneSession
  <2>2. players[player_id[c]] \in PlayerRecord /\ players'[player_id[c]] \in PlayerRecord
    BY <2>1 DEF Typed, WorldTypeOK
  <2>3. QED
    BY <2>2 DEF PlayerRecord
<1>7. Concerns(c, f) => Applied(c, f) \in Nat
  BY DEF Concerns, Applied, Frame, WelcomeFrame, Snapshot, View
<1>8. /\ current_tick'[c] <= f.tick /\ f.tick <= tick'
      /\ f.kind = "snapshot" /\ current_tick'[c] < f.tick => Concerns(c, f)'
  BY <1>1, <1>2, <1>4 DEF Fits
<1>9. OwnIdentity(c)' /\ HoldsPlayer(c)' /\ Concerns(c, f)'
          => Applied(c, f)' <= players'[player_id'[c]].last_applied_sequence
  BY <1>1, <1>2, <1>3, <1>5, <1>6, <1>7 DEF Fits
<1>10. QED
  BY <1>8, <1>9 DEF Fits

-----------------------------------------------------------------------------

(* How the frames of one connection move. *)

\* Nothing moves, or what is in the mailbox, the writer thread or the socket is lost.
Dropped(c) ==
    /\ seen'[c] = seen[c]
    /\ wire'[c] \in {wire[c], <<>>}
    /\ writing'[c] \in {writing[c], {}}
    /\ outbox'[c].pending \in {outbox[c].pending, {}}

Taken(c) ==
    /\ seen'[c] = seen[c] /\ wire'[c] = wire[c]
    /\ writing[c] = {} /\ writing'[c] = outbox[c].pending
    /\ outbox'[c].pending = {}

Written(c) ==
    /\ seen'[c] = seen[c] /\ outbox'[c].pending = outbox[c].pending
    /\ writing'[c] = {}
    /\ \E s \in writing[c] : wire'[c] = Append(wire[c], s)

Read(c) ==
    /\ wire[c] # <<>>
    /\ seen'[c] = <<Head(wire[c])>> /\ wire'[c] = Tail(wire[c])
    /\ writing'[c] = writing[c] /\ outbox'[c].pending = outbox[c].pending

Welcomed(c) ==
    /\ session[c] = "admitted"
    /\ seen'[c] = <<>> /\ writing'[c] = {} /\ outbox'[c].pending = {}
    /\ wire'[c] = <<[kind |-> "welcome", tick |-> current_tick[c]]>>

Published(c) ==
    /\ c \in ticker.visit /\ ~Due(c)' /\ ~outbox[c].closed
    /\ seen'[c] = seen[c] /\ wire'[c] = wire[c] /\ writing'[c] = writing[c]
    /\ outbox'[c].pending = ticker.encoded

\* Those are all the ways they move.
LEMMA Moves ==
    ASSUME Typed, \A e \in Connections : Lifecycle(e), [Next]_vars, NEW c \in Connections
    PROVE  \/ Dropped(c) \/ Taken(c) \/ Written(c) \/ Read(c) \/ Welcomed(c)
           \/ Published(c)
<1> USE DEF connection, mailbox, sending, network
<1>1. UNCHANGED <<seen[c], wire[c], writing[c], outbox[c]>> => Dropped(c)
  BY DEF Dropped
<1>2. ASSUME NEW d \in Connections, CloseOutbox(d) \/ Unlist(d)
      PROVE  Dropped(c)
  BY <1>2 DEF CloseOutbox, Unlist, close, Closed, Dropped
<1>3. ASSUME NEW d \in Connections, SendWelcome(d)
      PROVE  Dropped(c) \/ Welcomed(c)
  <2>1. UNCHANGED <<seen, writing, outbox>>
        /\ wire' = [wire EXCEPT ![d] = Append(@, [kind |-> "welcome", tick |-> current_tick[d]])]
        /\ session[d] = "admitted"
    BY <1>3 DEF SendWelcome, Goto
  <2>2. CASE d # c
    BY <2>1, <2>2 DEF Dropped, Typed
  <2>3. CASE d = c
    <3>1. seen[c] = <<>> /\ wire[c] = <<>> /\ writing[c] = {} /\ outbox[c].pending = {}
      BY <2>1, <2>3 DEF Lifecycle
    <3>2. wire'[c] = <<[kind |-> "welcome", tick |-> current_tick[c]]>>
      BY <2>1, <2>3, <3>1 DEF Typed
    <3>3. QED
      BY <2>1, <2>3, <3>1, <3>2 DEF Welcomed
  <2>4. QED
    BY <2>2, <2>3
<1>4. ASSUME NEW d \in Connections,
             Accept(d) \/ SetupFails(d) \/ Admit(d) \/ Refuse(d) \/ HandshakeFails(d)
             \/ Subscribe(d) \/ ReadEnds(d) \/ JoinWriter(d) \/ RemovePlayer(d)
             \/ ReadMalformed(d)
      PROVE  Dropped(c)
  <2>1. UNCHANGED <<seen, wire, writing, outbox>>
    BY <1>4 DEF Accept, SetupFails, Admit, Refuse, HandshakeFails, Subscribe, ReadEnds,
                JoinWriter, RemovePlayer, ReadMalformed
  <2>2. QED
    BY <1>1, <2>1
<1>5. ASSUME NEW d \in Connections, Take(d)
      PROVE  Dropped(c) \/ Taken(c)
  <2>1. CASE d # c
    BY <1>5, <2>1 DEF Take, WriterGoto, Dropped, Typed
  <2>2. CASE d = c
    <3>1. /\ UNCHANGED <<seen, wire>> /\ writer[c] = "receiving"
          /\ writing' = [writing EXCEPT ![c] = outbox[c].pending]
          /\ outbox' = [outbox EXCEPT ![c].pending = {}]
      BY <1>5, <2>2 DEF Take, WriterGoto
    <3>2. writing[c] = {}
      BY <3>1 DEF Lifecycle
    <3>3. writing'[c] = outbox[c].pending /\ outbox'[c].pending = {}
      BY <3>1 DEF Typed
    <3>4. QED
      BY <3>1, <3>2, <3>3 DEF Taken
  <2>3. QED
    BY <2>1, <2>2
<1>6. ASSUME NEW d \in Connections, WriteFrame(d)
      PROVE  Dropped(c) \/ Written(c)
  <2>1. CASE d # c
    BY <1>6, <2>1 DEF WriteFrame, WriterGoto, Dropped, Typed
  <2>2. CASE d = c
    BY <1>6, <2>2 DEF WriteFrame, WriterGoto, Written, Typed
  <2>3. QED
    BY <2>1, <2>2
<1>7. ASSUME NEW d \in Connections, WriteFails(d)
      PROVE  Dropped(c)
  BY <1>7 DEF WriteFails, Closed, Dropped, Typed
<1>8. ASSUME NEW d \in Connections,
             ReceiveNone(d) \/ WaitReady(d) \/ ShutDown(d) \/ SpuriousWakeup(d)
             \/ PeerStopsSending(d) \/ (\E input \in Inputs : ReadInput(d, input))
      PROVE  Dropped(c)
  <2>1. UNCHANGED <<seen, wire, writing, outbox>>
    BY <1>8 DEF ReceiveNone, WaitReady, ShutDown, SpuriousWakeup, PeerStopsSending, ReadInput
  <2>2. QED
    BY <1>1, <2>1
<1>9. ASSUME NEW d \in Connections, PeerReads(d)
      PROVE  Dropped(c) \/ Read(c)
  <2>1. CASE d # c
    BY <1>9, <2>1 DEF PeerReads, Dropped, Typed
  <2>2. CASE d = c
    BY <1>9, <2>2 DEF PeerReads, Read, Typed
  <2>3. QED
    BY <2>1, <2>2
<1>10. ASSUME NEW d \in Connections, PeerResets(d)
       PROVE  Dropped(c)
  BY <1>10 DEF PeerResets, Dropped, Typed
<1>11. CASE TickAdvance \/ LockClients \/ Sleep \/ UNCHANGED vars
  <2>1. UNCHANGED <<seen, wire, writing, outbox>>
    BY <1>11 DEF TickAdvance, LockClients, Sleep, vars
  <2>2. QED
    BY <1>1, <2>1
<1>12. ASSUME NEW d \in Connections, PublishTo(d)
       PROVE  Dropped(c) \/ Published(c)
  <2>1. CASE UNCHANGED outbox
    BY <1>1, <1>12, <2>1 DEF PublishTo
  <2>2. CASE publish(d, ticker.encoded)
    <3>1. outbox' = [outbox EXCEPT ![d].pending = ticker.encoded] /\ ~outbox[d].closed
      BY <2>2 DEF publish
    <3>2. UNCHANGED <<seen, wire, writing>>
      BY <1>12 DEF PublishTo
    <3>3. CASE d # c
      <4>1. outbox'[c] = outbox[c]
        BY <3>1, <3>3 DEF Typed
      <4>2. QED
        BY <1>1, <3>2, <4>1
    <3>4. CASE d = c
      <4>1. outbox'[c].pending = ticker.encoded
        BY <3>1, <3>4 DEF Typed
      <4>2. c \in ticker.visit /\ ticker'.at = "publish" /\ c \notin ticker'.visit
        BY <1>12, <3>4 DEF PublishTo, Typed
      <4>3. QED
        BY <3>1, <3>2, <3>4, <4>1, <4>2 DEF Published, Due
    <3>5. QED
      BY <3>3, <3>4
  <2>3. QED
    BY <1>12, <2>1, <2>2 DEF PublishTo
<1>13. QED
  BY <1>2, <1>3, <1>4, <1>5, <1>6, <1>7, <1>8, <1>9, <1>10, <1>11, <1>12
     DEF Next, TickStep, SessionStep, WriterStep, PeerStep

\* The frames of a connection after each move.
LEMMA FramesAfter ==
    ASSUME NEW c \in Connections, wire[c] \in Seq(Frame), seen[c] \in Seq(Frame)
    PROVE  /\ Dropped(c) =>
                 /\ Frames(seen'[c]) = Frames(seen[c])
                 /\ Frames(wire'[c]) \subseteq Frames(wire[c])
           /\ \A s : wire'[c] = Append(wire[c], s)
                         => Frames(wire'[c]) = Frames(wire[c]) \cup {s}
           /\ Read(c) => /\ Frames(seen'[c]) = {wire[c][1]}
                         /\ Frames(wire'[c]) \subseteq Frames(wire[c])
                         /\ wire[c][1] \in Frames(wire[c])
           /\ Welcomed(c) =>
                 /\ Frames(seen'[c]) = {}
                 /\ Frames(wire'[c]) = {[kind |-> "welcome", tick |-> current_tick[c]]}
<1>1. Frames(<<>>) = {}
  BY DEF Frames
<1>2. \A x : Frames(<<x>>) = {x}
  BY DEF Frames
<1>3. Dropped(c) => /\ Frames(seen'[c]) = Frames(seen[c])
                    /\ Frames(wire'[c]) \subseteq Frames(wire[c])
  BY <1>1 DEF Dropped
<1>4. ASSUME NEW s, wire'[c] = Append(wire[c], s)
      PROVE  Frames(wire'[c]) = Frames(wire[c]) \cup {s}
  <2>1. /\ Len(wire[c]) \in Nat /\ DOMAIN wire[c] = 1..Len(wire[c])
        /\ DOMAIN wire'[c] = 1..(Len(wire[c]) + 1)
        /\ \A i \in DOMAIN wire[c] : wire'[c][i] = wire[c][i]
        /\ wire'[c][Len(wire[c]) + 1] = s
    BY <1>4
  <2>2. QED
    BY <2>1 DEF Frames
<1>5. ASSUME Read(c)
      PROVE  /\ Frames(seen'[c]) = {wire[c][1]}
             /\ Frames(wire'[c]) \subseteq Frames(wire[c])
             /\ wire[c][1] \in Frames(wire[c])
  <2>1. wire[c] # <<>> /\ Head(wire[c]) = wire[c][1] /\ 1 \in DOMAIN wire[c]
    BY <1>5 DEF Read
  <2>2. Frames(seen'[c]) = {wire[c][1]}
    BY <1>2, <1>5, <2>1 DEF Read
  <2>3. \A i \in DOMAIN Tail(wire[c]) :
            i + 1 \in DOMAIN wire[c] /\ Tail(wire[c])[i] = wire[c][i + 1]
    BY <2>1
  <2>4. Frames(wire'[c]) \subseteq Frames(wire[c])
    BY <1>5, <2>3 DEF Read, Frames
  <2>5. QED
    BY <2>1, <2>2, <2>4 DEF Frames
<1>6. Welcomed(c) =>
          /\ Frames(seen'[c]) = {}
          /\ Frames(wire'[c]) = {[kind |-> "welcome", tick |-> current_tick[c]]}
  BY <1>1, <1>2 DEF Welcomed
<1>7. QED
  BY <1>3, <1>4, <1>5, <1>6

-----------------------------------------------------------------------------

(* Where frames come from. *)

Welcome(c) == [kind |-> "welcome", tick |-> current_tick[c]]

\* What is on its way was so before, or is the welcome or the encoded snapshot.
LEMMA NewFrames ==
    ASSUME Typed, \A e \in Connections : Lifecycle(e), [Next]_vars, NEW c \in Connections,
           NEW f \in OnItsWay(c)'
    PROVE  \/ f \in OnItsWay(c)
           \/ Welcomed(c) /\ f = Welcome(c)
           \/ Published(c) /\ f \in ticker.encoded
<1>1. wire[c] \in Seq(Frame) /\ seen[c] \in Seq(Frame)
  BY DEF Typed
<1>2. f \in Frames(seen'[c]) \cup Frames(wire'[c]) \cup writing'[c] \cup outbox'[c].pending
  BY DEF OnItsWay, Sent, Frames
<1>3. CASE Dropped(c)
  BY <1>1, <1>2, <1>3, FramesAfter DEF Dropped, OnItsWay, Sent
<1>4. CASE Taken(c)
  BY <1>2, <1>4 DEF Taken, OnItsWay, Sent
<1>5. CASE Written(c)
  <2>1. PICK s \in writing[c] : wire'[c] = Append(wire[c], s)
    BY <1>5 DEF Written
  <2>2. Frames(wire'[c]) = Frames(wire[c]) \cup {s}
    BY <1>1, <2>1, FramesAfter
  <2>3. f \in Frames(seen[c]) \cup Frames(wire[c]) \cup writing[c] \cup outbox[c].pending
    BY <1>2, <1>5, <2>2 DEF Written
  <2>4. QED
    BY <2>3 DEF OnItsWay, Sent
<1>6. CASE Read(c)
  <2>1. Frames(seen'[c]) \cup Frames(wire'[c]) \subseteq Frames(wire[c])
    BY <1>1, <1>6, FramesAfter
  <2>2. f \in Frames(wire[c]) \cup writing[c] \cup outbox[c].pending
    BY <1>2, <1>6, <2>1 DEF Read
  <2>3. QED
    BY <2>2 DEF OnItsWay, Sent
<1>7. CASE Welcomed(c)
  BY <1>1, <1>2, <1>7, FramesAfter DEF Welcomed, Welcome
<1>8. CASE Published(c)
  BY <1>2, <1>8 DEF Published, OnItsWay, Sent
<1>9. QED
  BY <1>3, <1>4, <1>5, <1>6, <1>7, <1>8, Moves

\* Everything on its way is a frame.
LEMMA OnItsWayFrames ==
    ASSUME Typed, NEW c \in Connections
    PROVE  OnItsWay(c) \subseteq Frame
<1>1. /\ wire[c] \in Seq(Frame) /\ seen[c] \in Seq(Frame)
      /\ writing[c] \subseteq Snapshot /\ outbox[c].pending \subseteq Snapshot
  BY DEF Typed
<1>2. Frames(wire[c]) \subseteq Frame /\ Frames(seen[c]) \subseteq Frame
  BY <1>1 DEF Frames
<1>3. QED
  BY <1>1, <1>2 DEF OnItsWay, Sent, Frame

\* A welcome and a snapshot go only to a session that holds its player: the mailbox of
\* any other is closed or was never listed.
LEMMA SentToHolder ==
    ASSUME Typed, TickerInv, NEW c \in Connections, Lifecycle(c), Welcomed(c) \/ Published(c)
    PROVE  HoldsPlayer(c)
<1>1. CASE Welcomed(c)
  BY <1>1 DEF Welcomed, HoldsPlayer
<1>2. CASE Published(c)
  <2>1. c \in clients /\ ~outbox[c].closed
    BY <1>2 DEF Published, TickerInv
  <2>2. writer[c] \notin {"none", "exited"}
    BY <2>1 DEF Lifecycle
  <2>3. QED
    BY <2>1, <2>2 DEF Lifecycle, HoldsPlayer, Sessions, Typed
<1>3. QED
  BY <1>1, <1>2

\* The encoded snapshot is replaced only by the tick thread, and once a client's turn
\* has passed, it is not due that snapshot again.
LEMMA TickerMoves ==
    ASSUME Typed, [Next]_vars
    PROVE  \/ /\ ticker'.encoded = ticker.encoded /\ tick' = tick
              /\ \A c \in Connections : Due(c)' => Due(c)
           \/ ticker'.encoded = {}
           \/ TickAdvance
<1>1. CASE LockClients
  BY <1>1 DEF LockClients, Due, Typed, world
<1>2. CASE Sleep
  BY <1>2 DEF Sleep, Typed
<1>3. ASSUME NEW d \in Connections, PublishTo(d)
      PROVE  /\ ticker'.encoded = ticker.encoded /\ tick' = tick
             /\ \A c \in Connections : Due(c)' => Due(c)
  BY <1>3 DEF PublishTo, Due, Typed, world
<1>4. ASSUME NEW c \in Connections,
             Accept(c) \/ SessionStep(c) \/ WriterStep(c) \/ SpuriousWakeup(c) \/ PeerStep(c)
      PROVE  UNCHANGED <<tick, ticker>>
  BY <1>4, OthersTicker
<1>5. UNCHANGED <<tick, ticker>> => /\ ticker'.encoded = ticker.encoded /\ tick' = tick
                                    /\ \A c \in Connections : Due(c)' => Due(c)
  BY DEF Due
<1>6. CASE UNCHANGED vars
  BY <1>5, <1>6 DEF vars
<1>7. QED
  BY <1>1, <1>2, <1>3, <1>4, <1>5, <1>6 DEF Next, TickStep

\* A session gets hold of a player, and of an admission tick, only when it is admitted.
LEMMA HolderStep ==
    ASSUME Typed, [Next]_vars, NEW c \in Connections, ~Admit(c)
    PROVE  /\ HoldsPlayer(c)' => HoldsPlayer(c)
           /\ current_tick'[c] = current_tick[c]
<1> USE DEF HoldsPlayer, connection
<1>1. CASE Settled(c)
  BY <1>1, SettledStep
<1>2. CASE session[c] \in {"none", "accepted"}
  <2>1. ASSUME NEW d \in Connections, Accept(d) \/ SetupFails(d) \/ Refuse(d)
        PROVE  /\ HoldsPlayer(c)' => HoldsPlayer(c)
               /\ current_tick'[c] = current_tick[c]
    BY <2>1 DEF Accept, SetupFails, Refuse, Goto, Typed
  <2>2. ASSUME NEW d \in Connections, Admit(d)
        PROVE  /\ HoldsPlayer(c)' => HoldsPlayer(c)
               /\ current_tick'[c] = current_tick[c]
    BY <2>2 DEF Admit, Goto, Typed
  <2>3. ASSUME NEW d \in Connections,
               SendWelcome(d) \/ HandshakeFails(d) \/ Subscribe(d) \/ ReadEnds(d)
               \/ CloseOutbox(d) \/ JoinWriter(d) \/ RemovePlayer(d) \/ Unlist(d)
               \/ ReadMalformed(d)
        PROVE  d # c /\ UNCHANGED current_tick /\ session'[c] = session[c]
    <3>1. CASE SendWelcome(d) \/ HandshakeFails(d) \/ Subscribe(d)
      BY <1>2, <3>1 DEF SendWelcome, HandshakeFails, Subscribe, Goto, Typed
    <3>2. CASE ReadEnds(d) \/ CloseOutbox(d) \/ JoinWriter(d) \/ ReadMalformed(d)
      BY <1>2, <3>2 DEF ReadEnds, CloseOutbox, JoinWriter, ReadMalformed, Goto, Typed
    <3>3. CASE RemovePlayer(d) \/ Unlist(d)
      BY <1>2, <3>3 DEF RemovePlayer, Unlist, Goto, Typed
    <3>4. QED
      BY <2>3, <3>1, <3>2, <3>3
  <2>4. ASSUME NEW d \in Connections, WriterStep(d) \/ SpuriousWakeup(d)
        PROVE  UNCHANGED <<session, current_tick>>
    BY <2>4 DEF WriterStep, Take, ReceiveNone, WaitReady, WriteFrame, WriteFails, ShutDown,
                SpuriousWakeup
  <2>5. ASSUME NEW d \in Connections,
               PeerReads(d) \/ PeerStopsSending(d) \/ PeerResets(d)
               \/ \E input \in Inputs : ReadInput(d, input)
        PROVE  UNCHANGED <<session, current_tick>>
    BY <2>5 DEF PeerReads, PeerStopsSending, PeerResets, ReadInput
  <2>6. CASE TickStep \/ UNCHANGED vars
    BY <2>6 DEF TickStep, TickAdvance, LockClients, Sleep, PublishTo, vars
  <2>7. QED
    BY <2>1, <2>2, <2>3, <2>4, <2>5, <2>6 DEF Next, SessionStep, PeerStep
<1>3. QED
  BY <1>1, <1>2 DEF Settled

-----------------------------------------------------------------------------

(* Every step preserves the invariant. *)

\* What the lemmas before assume of the states, from the invariant of the sessions.
LEMMA SessionFacts ==
    ASSUME SessionInv
    PROVE  /\ Typed /\ TickerInv /\ EachPlayerHasOneSession
           /\ \A c \in Connections : Lifecycle(c)
           /\ tick \in 0..MaxTick
           /\ \A c \in Connections : current_tick[c] \in 0..MaxTick
           /\ \A c \in Connections : HoldsPlayer(c) => player_id[c] # 0
BY HoldersIdentity DEF SessionInv, Typed, WorldTypeOK

\* A session that has anything on its way, or a player, has an identity for good.
LEMMA Identified ==
    ASSUME SessionInv, FeedInv, NEW c \in Connections,
           OnItsWay(c) # {} \/ HoldsPlayer(c) \/ Welcomed(c) \/ Published(c)
    PROVE  Settled(c) /\ player_id[c] # 0
<1>1. Typed /\ TickerInv /\ Lifecycle(c) /\ (HoldsPlayer(c) => player_id[c] # 0)
  BY SessionFacts
<1>2. CASE OnItsWay(c) # {}
  BY <1>1, <1>2, SentToSettled DEF FeedInv, FeedOf
<1>3. CASE HoldsPlayer(c) \/ Welcomed(c) \/ Published(c)
  BY <1>1, <1>3, SentToHolder, SentToSettled
<1>4. QED
  BY <1>2, <1>3

\* Everything on its way to a client agrees with its session and with the world.
LEMMA NextFits ==
    ASSUME SessionInv, SessionInv', FeedInv, [Next]_vars, NEW c \in Connections
    PROVE  /\ \A f \in OnItsWay(c)' : Fits(c, f)'
           /\ OnItsWay(c)' # {} => player_id'[c] # 0
<1>1. /\ Typed /\ TickerInv /\ EachPlayerHasOneSession
      /\ \A e \in Connections : Lifecycle(e)
  BY SessionFacts
<1>2. Typed' /\ EachPlayerHasOneSession'
  BY DEF SessionInv
<1>3. FeedOf(c)
  BY DEF FeedInv
<1>4. ASSUME NEW f \in OnItsWay(c)'
      PROVE  Fits(c, f)' /\ player_id'[c] # 0
  <2>1. \/ f \in OnItsWay(c)
        \/ Welcomed(c) /\ f = Welcome(c)
        \/ Published(c) /\ f \in ticker.encoded
    BY <1>1, <1>4, NewFrames
  <2>2. Settled(c) /\ player_id[c] # 0
    BY <2>1, Identified
  <2>3. Fits(c, f)
    <3>1. CASE f \in OnItsWay(c)
      BY <1>3, <3>1 DEF FeedOf
    <3>2. CASE f = Welcome(c)
      <4>1. f.kind = "welcome" /\ f.tick = current_tick[c]
        BY <3>2 DEF Welcome
      <4>2. current_tick[c] <= tick /\ current_tick[c] \in Int
        BY <1>3, SessionFacts DEF FeedOf
      <4>3. QED
        BY <4>1, <4>2 DEF Fits, Concerns
    <3>3. CASE Published(c) /\ f \in ticker.encoded
      BY <1>1, <1>3, <3>3, SentToHolder DEF FeedOf, Deliverable
    <3>4. QED
      BY <2>1, <3>1, <3>2, <3>3
  <2>4. f \in Frame
    <3>1. Welcome(c) \in Frame
      BY SessionFacts DEF Welcome, Frame, WelcomeFrame
    <3>2. OnItsWay(c) \subseteq Frame
      BY <1>1, OnItsWayFrames
    <3>3. ticker.encoded \subseteq Frame
      BY <1>1 DEF Typed, Frame
    <3>4. QED
      BY <2>1, <3>1, <3>2, <3>3
  <2>5. Fits(c, f)'
    BY <1>1, <1>2, <2>2, <2>3, <2>4, FitsStable
  <2>6. player_id'[c] = player_id[c]
    BY <1>1, <2>2, SettledStep
  <2>7. QED
    BY <2>2, <2>5, <2>6
<1>5. QED
  BY <1>4

\* What is on its way stays in order, whichever way it moves.
LEMMA NextOrdered ==
    ASSUME SessionInv, FeedInv, [Next]_vars, NEW c \in Connections
    PROVE  Ordered(c)'
<1> DEFINE R == {p \in Frame \X Frame : Before(c, p[1], p[2])'}
<1>1. /\ Typed /\ TickerInv /\ \A e \in Connections : Lifecycle(e)
  BY SessionFacts
<1>2. Ordered(c) /\ Deliverable(c)
  BY DEF FeedInv, FeedOf
<1>3. ASSUME NEW f \in OnItsWay(c), NEW g \in Frame, Before(c, f, g)
      PROVE  <<f, g>> \in R
  <2>1. Settled(c) /\ player_id[c] # 0
    BY <1>3, Identified
  <2>2. Before(c, f, g)'
    BY <1>1, <1>3, <2>1, BeforeStable
  <2>3. f \in Frame
    BY <1>1, OnItsWayFrames
  <2>4. QED
    BY <2>2, <2>3
<1>4. /\ wire[c] \in Seq(Frame) /\ seen[c] \in Seq(Frame)
      /\ Frames(wire[c]) \subseteq OnItsWay(c) /\ Frames(seen[c]) \subseteq OnItsWay(c)
      /\ writing[c] \subseteq OnItsWay(c) /\ outbox[c].pending \subseteq OnItsWay(c)
      /\ \A i \in DOMAIN wire[c] : wire[c][i] \in Frames(wire[c])
  BY <1>1 DEF Typed, OnItsWay, Sent, Frames
<1>5. /\ \A i, j \in DOMAIN wire[c] : i < j => <<wire[c][i], wire[c][j]>> \in R
      /\ \A f \in Frames(seen[c]) : \A g \in Frames(wire[c]) : <<f, g>> \in R
      /\ \A f \in Frames(seen[c]) \cup Frames(wire[c]) : \A g \in writing[c] : <<f, g>> \in R
      /\ \A f \in Frames(seen[c]) \cup Frames(wire[c]) \cup writing[c] :
             \A g \in outbox[c].pending : <<f, g>> \in R
  <2>1. OnItsWay(c) \subseteq Frame
    BY <1>1, OnItsWayFrames
  <2>2. \A i, j \in DOMAIN wire[c] : i < j => <<wire[c][i], wire[c][j]>> \in R
    <3> SUFFICES ASSUME NEW i \in DOMAIN wire[c], NEW j \in DOMAIN wire[c], i < j
                 PROVE  <<wire[c][i], wire[c][j]>> \in R
      OBVIOUS
    <3>1. Before(c, wire[c][i], wire[c][j])
      BY <1>2 DEF Ordered
    <3>2. wire[c][i] \in OnItsWay(c) /\ wire[c][j] \in Frame
      BY <1>4, <2>1
    <3>3. QED
      BY <1>3, <3>1, <3>2
  <2>3. \A f \in Frames(seen[c]) : \A g \in Frames(wire[c]) : <<f, g>> \in R
    BY <1>2, <1>3, <1>4, <2>1 DEF Ordered
  <2>4. \A f \in Frames(seen[c]) \cup Frames(wire[c]) : \A g \in writing[c] : <<f, g>> \in R
    BY <1>2, <1>3, <1>4, <2>1 DEF Ordered, Sent
  <2>5. \A f \in Frames(seen[c]) \cup Frames(wire[c]) \cup writing[c] :
            \A g \in outbox[c].pending : <<f, g>> \in R
    BY <1>2, <1>3, <1>4, <2>1 DEF Ordered, Sent
  <2>6. QED
    BY <2>2, <2>3, <2>4, <2>5
<1>6. SUFFICES
          /\ \A i, j \in DOMAIN wire'[c] : i < j => <<wire'[c][i], wire'[c][j]>> \in R
          /\ \A f \in Frames(seen'[c]) : \A g \in Frames(wire'[c]) : <<f, g>> \in R
          /\ \A f \in Frames(seen'[c]) \cup Frames(wire'[c]) : \A g \in writing'[c] : <<f, g>> \in R
          /\ \A f \in Frames(seen'[c]) \cup Frames(wire'[c]) \cup writing'[c] :
                 \A g \in outbox'[c].pending : <<f, g>> \in R
  <2>1. \A f, g : <<f, g>> \in R <=> f \in Frame /\ g \in Frame /\ Before(c, f, g)'
    OBVIOUS
  <2> HIDE DEF R
  <2>2. \A i, j \in DOMAIN wire'[c] : i < j => Before(c, wire[c][i], wire[c][j])'
    BY <2>1 DEF Before, Concerns, Applied
  <2>3. \A f \in Frames(seen'[c]) : \A g \in Frames(wire'[c]) : Before(c, f, g)'
    BY <2>1
  <2>4. \A f \in Frames(seen'[c]) \cup Frames(wire'[c]) : \A g \in writing'[c] :
            Before(c, f, g)'
    BY <2>1
  <2>5. \A f \in Frames(seen'[c]) \cup Frames(wire'[c]) \cup writing'[c] :
            \A g \in outbox'[c].pending : Before(c, f, g)'
    BY <2>1
  <2>6. Frames(seen[c])' = Frames(seen'[c]) /\ Frames(wire[c])' = Frames(wire'[c])
    BY DEF Frames
  <2>7. QED
    BY <2>2, <2>3, <2>4, <2>5, <2>6 DEF Ordered, Sent
<1> HIDE DEF R
<1>7. CASE Dropped(c)
  <2>1. Frames(seen'[c]) = Frames(seen[c]) /\ Frames(wire'[c]) \subseteq Frames(wire[c])
    BY <1>4, <1>7, FramesAfter
  <2>2. \A i, j \in DOMAIN wire'[c] : i < j => <<wire'[c][i], wire'[c][j]>> \in R
    BY <1>5, <1>7 DEF Dropped
  <2>3. writing'[c] \subseteq writing[c] /\ outbox'[c].pending \subseteq outbox[c].pending
    BY <1>7 DEF Dropped
  <2>4. QED
    BY <1>5, <2>1, <2>2, <2>3
<1>8. CASE Taken(c)
  BY <1>5, <1>8 DEF Taken
<1>9. CASE Written(c)
  <2>1. PICK s \in writing[c] : wire'[c] = Append(wire[c], s)
    BY <1>9 DEF Written
  <2>2. Frames(wire'[c]) = Frames(wire[c]) \cup {s}
    BY <1>4, <2>1, FramesAfter
  <2>3. \A i, j \in DOMAIN wire'[c] : i < j => <<wire'[c][i], wire'[c][j]>> \in R
    <3>1. /\ Len(wire[c]) \in Nat
          /\ DOMAIN wire[c] = 1..Len(wire[c]) /\ DOMAIN wire'[c] = 1..(Len(wire[c]) + 1)
          /\ \A i \in DOMAIN wire[c] : wire'[c][i] = wire[c][i]
          /\ wire'[c][Len(wire[c]) + 1] = s
      BY <1>4, <2>1
    <3>2. SUFFICES ASSUME NEW i \in DOMAIN wire'[c], NEW j \in DOMAIN wire'[c], i < j
                   PROVE  <<wire'[c][i], wire'[c][j]>> \in R
      OBVIOUS
    <3>3. i \in DOMAIN wire[c] /\ (j \in DOMAIN wire[c] \/ j = Len(wire[c]) + 1)
      BY <3>1, <3>2
    <3>4. CASE j \in DOMAIN wire[c]
      BY <1>5, <3>1, <3>2, <3>3, <3>4
    <3>5. CASE j = Len(wire[c]) + 1
      BY <1>4, <1>5, <3>1, <3>3, <3>5
    <3>6. QED
      BY <3>3, <3>4, <3>5
  <2>4. QED
    BY <1>5, <1>9, <2>1, <2>2, <2>3 DEF Written
<1>10. CASE Read(c)
  <2>1. /\ Frames(seen'[c]) = {wire[c][1]} /\ Frames(wire'[c]) \subseteq Frames(wire[c])
        /\ wire[c][1] \in Frames(wire[c])
    BY <1>4, <1>10, FramesAfter
  <2>2. /\ 1 \in DOMAIN wire[c] /\ DOMAIN wire'[c] \subseteq Nat
        /\ \A i \in DOMAIN wire'[c] : /\ i \in Nat /\ i + 1 \in DOMAIN wire[c] /\ 1 < i + 1
                                      /\ wire'[c][i] = wire[c][i + 1]
    BY <1>4, <1>10 DEF Read
  <2>3. \A i, j \in DOMAIN wire'[c] : i < j => <<wire'[c][i], wire'[c][j]>> \in R
    <3> SUFFICES ASSUME NEW i \in DOMAIN wire'[c], NEW j \in DOMAIN wire'[c], i < j
                 PROVE  <<wire'[c][i], wire'[c][j]>> \in R
      OBVIOUS
    <3>1. i + 1 \in DOMAIN wire[c] /\ j + 1 \in DOMAIN wire[c] /\ i + 1 < j + 1
      BY <2>2
    <3>2. QED
      BY <1>5, <2>2, <3>1
  <2>4. \A g \in Frames(wire'[c]) : <<wire[c][1], g>> \in R
    <3> SUFFICES ASSUME NEW i \in DOMAIN wire'[c] PROVE <<wire[c][1], wire'[c][i]>> \in R
      BY DEF Frames
    <3>1. QED
      BY <1>5, <2>2
  <2>5. QED
    BY <1>5, <1>10, <2>1, <2>3, <2>4 DEF Read
<1>11. CASE Welcomed(c)
  <2>1. Frames(seen'[c]) = {} /\ Frames(wire'[c]) = {Welcome(c)} /\ DOMAIN wire'[c] = {1}
    <3>1. Frames(seen'[c]) = {} /\ Frames(wire'[c]) = {Welcome(c)}
      BY <1>4, <1>11, FramesAfter DEF Welcome
    <3>2. QED
      BY <1>11, <3>1 DEF Welcomed
  <2>2. QED
    BY <1>11, <2>1 DEF Welcomed
<1>12. CASE Published(c)
  <2>1. \A f \in OnItsWay(c) : \A s \in ticker.encoded : <<f, s>> \in R
    <3>1. ticker.encoded \subseteq Frame
      BY <1>1 DEF Typed, Frame
    <3>2. QED
      BY <1>2, <1>3, <1>12, <3>1 DEF Deliverable, Published, Due
  <2>2. QED
    BY <1>4, <1>5, <1>12, <2>1 DEF Published
<1>13. QED
  BY <1>1, <1>7, <1>8, <1>9, <1>10, <1>11, <1>12, Moves

\* A tick encodes a snapshot that may follow everything on its way to anybody.
LEMMA AdvanceDeliverable ==
    ASSUME SessionInv, SessionInv', FeedInv, [Next]_vars, TickAdvance, NEW c \in Connections
    PROVE  Deliverable(c)'
<1>1. /\ Typed /\ EachPlayerHasOneSession /\ EachPlayerHasOneSession'
      /\ tick \in 0..MaxTick /\ current_tick[c] \in 0..MaxTick
      /\ FeedOf(c)
  BY SessionFacts DEF SessionInv, FeedInv
<1>2. PICK s \in Snapshot :
          /\ ticker' = [ticker EXCEPT !.at = "lock", !.encoded = {s}]
          /\ s.tick = tick' /\ tick' = tick + 1
          /\ DOMAIN s.players = Admitted'
          /\ \A p \in Admitted' :
                s.players[p].last_applied_sequence = players'[p].last_applied_sequence
  BY <1>1, TickAdvanceEffect
<1>3. ticker'.encoded = {s} /\ s.kind = "snapshot" /\ s.tick = tick + 1
  BY <1>1, <1>2 DEF Typed, Snapshot
<1>4. UNCHANGED <<player_id, session, current_tick, seen, wire, writing, outbox>>
  BY DEF TickAdvance, connection, mailbox, sending, network
<1>5. HoldsPlayer(c)' => player_id'[c] \in Admitted'
  BY <1>1 DEF EachPlayerHasOneSession
<1>6. HoldsPlayer(c)' => Fits(c, s)'
  <2>1. current_tick'[c] <= s.tick /\ s.tick <= tick'
    BY <1>1, <1>2, <1>4 DEF FeedOf
  <2>2. HoldsPlayer(c)' => Concerns(c, s)'
    BY <1>2, <1>3, <1>5 DEF Concerns
  <2>3. HoldsPlayer(c)' =>
            Applied(c, s)' = players'[player_id'[c]].last_applied_sequence
    BY <1>2, <1>5 DEF Applied
  <2>4. HoldsPlayer(c)' => players'[player_id'[c]].last_applied_sequence \in Nat
    BY <1>1, <1>5 DEF SessionInv, Typed, WorldTypeOK, PlayerRecord
  <2>5. QED
    BY <2>1, <2>2, <2>3, <2>4 DEF Fits
<1>7. ASSUME NEW f \in OnItsWay(c)'
      PROVE  Before(c, f, s)'
  <2>1. f \in OnItsWay(c)
    BY <1>4, <1>7 DEF OnItsWay, Sent, Frames
  <2>2. Fits(c, f) /\ Fits(c, f)'
    BY <1>1, <1>7, <2>1, NextFits DEF FeedOf
  <2>3. f.tick \in Int
    BY <1>1, <2>1, OnItsWayFrames DEF Frame, WelcomeFrame, Snapshot
  <2>4. f.tick < s.tick
    BY <1>1, <1>3, <2>2, <2>3 DEF Fits
  <2>5. OwnIdentity(c)' /\ Concerns(c, f)' /\ Concerns(c, s)' => Applied(c, f)' <= Applied(c, s)'
    <3> SUFFICES ASSUME OwnIdentity(c)', Concerns(c, f)', Concerns(c, s)'
                 PROVE  Applied(c, f)' <= Applied(c, s)'
      OBVIOUS
    <3>1. player_id'[c] \in Admitted'
      BY <1>2 DEF Concerns
    <3>2. PICK d \in Connections : HoldsPlayer(d)' /\ player_id'[d] = player_id'[c]
      BY <1>1, <3>1 DEF EachPlayerHasOneSession
    <3>3. HoldsPlayer(c)'
      BY <3>2 DEF OwnIdentity
    <3>4. Applied(c, f)' <= players'[player_id'[c]].last_applied_sequence
      BY <2>2, <3>3 DEF Fits
    <3>5. Applied(c, s)' = players'[player_id'[c]].last_applied_sequence
      BY <1>2, <3>1 DEF Applied
    <3>6. QED
      BY <3>4, <3>5
  <2>6. QED
    BY <1>3, <2>4, <2>5 DEF Before
<1>8. QED
  BY <1>3, <1>6, <1>7 DEF Deliverable

\* A snapshot stays deliverable while sessions come and go, and until it is delivered.
LEMMA NextDeliverable ==
    ASSUME SessionInv, SessionInv', FeedInv, [Next]_vars, NEW c \in Connections
    PROVE  Deliverable(c)'
<1>1. /\ Typed /\ Typed' /\ TickerInv
      /\ EachPlayerHasOneSession /\ EachPlayerHasOneSession'
      /\ \A e \in Connections : Lifecycle(e)
      /\ FeedOf(c) /\ ShownWereAdmitted
      /\ tick \in 0..MaxTick /\ current_tick[c] \in 0..MaxTick
  BY SessionFacts DEF SessionInv, FeedInv
<1>2. CASE TickAdvance
  BY <1>2, AdvanceDeliverable
<1>3. CASE ticker'.encoded = {}
  BY <1>3 DEF Deliverable
<1>4. CASE /\ ticker'.encoded = ticker.encoded /\ tick' = tick
           /\ \A d \in Connections : Due(d)' => Due(d)
  <2> SUFFICES ASSUME NEW s \in ticker.encoded
               PROVE  /\ HoldsPlayer(c)' => Fits(c, s)'
                      /\ Due(c)' => \A f \in OnItsWay(c)' : Before(c, f, s)'
    BY <1>4 DEF Deliverable
  <2>1. s \in Frame /\ s \in Snapshot /\ s.kind = "snapshot" /\ s.tick = tick
    BY <1>1 DEF Typed, Frame, Snapshot, TickerInv
  <2>3. HoldsPlayer(c)' => Fits(c, s)'
    <3>1. CASE HoldsPlayer(c)
      BY <1>1, <2>1, <3>1, Identified, FitsStable DEF FeedOf, Deliverable
    <3>2. CASE Admit(c)
      <4>1. current_tick'[c] = tick /\ player_id' = player_id /\ session[c] = "accepted"
        BY <1>1, <3>2 DEF Admit, Goto, Typed
      <4>2. OwnIdentity(c)' => ~Concerns(c, s)'
        <5> SUFFICES ASSUME OwnIdentity(c)', Concerns(c, s)' PROVE FALSE
          OBVIOUS
        <5>1. PICK d \in Connections :
                  player_id[d] = player_id[c] /\ session[d] \notin {"none", "accepted"}
          BY <1>1, <4>1 DEF Concerns, ShownWereAdmitted
        <5>2. QED
          BY <4>1, <5>1 DEF OwnIdentity
      <4>3. QED
        BY <1>1, <1>4, <2>1, <4>1, <4>2 DEF Fits
    <3>3. CASE ~HoldsPlayer(c) /\ ~Admit(c)
      BY <1>1, <3>3, HolderStep
    <3>4. QED
      BY <3>1, <3>2, <3>3
  <2>4. ASSUME Due(c)', NEW f \in OnItsWay(c)'
        PROVE  Before(c, f, s)'
    <3>1. \/ f \in OnItsWay(c)
          \/ Welcomed(c) /\ f = Welcome(c)
          \/ Published(c) /\ f \in ticker.encoded
      BY <1>1, <2>4, NewFrames
    <3>2. Settled(c) /\ player_id[c] # 0
      BY <3>1, Identified
    <3>3. ~Published(c)
      BY <2>4 DEF Published
    <3>4. Before(c, f, s)
      <4>1. CASE f \in OnItsWay(c)
        BY <1>1, <1>4, <2>4, <4>1 DEF FeedOf, Deliverable
      <4>2. CASE f = Welcome(c)
        <5>1. f.kind = "welcome" /\ f.tick = current_tick[c] /\ current_tick[c] <= tick
          BY <1>1, <4>2 DEF Welcome, FeedOf
        <5>2. QED
          BY <1>1, <2>1, <5>1 DEF Before, Concerns
      <4>3. QED
        BY <3>1, <3>3, <4>1, <4>2
    <3>5. QED
      BY <1>1, <3>2, <3>4, BeforeStable
  <2>5. QED
    BY <2>3, <2>4
<1>5. QED
  BY <1>1, <1>2, <1>3, <1>4, TickerMoves

\* Whoever is shown stays admitted under the identity shown.
LEMMA NextShown ==
    ASSUME SessionInv, SessionInv', FeedInv, [Next]_vars
    PROVE  ShownWereAdmitted'
<1>1. Typed /\ ShownWereAdmitted
  BY SessionFacts DEF FeedInv
<1>2. CASE TickAdvance
  <2>1. PICK s \in Snapshot :
            /\ ticker' = [ticker EXCEPT !.at = "lock", !.encoded = {s}]
            /\ DOMAIN s.players = Admitted'
    BY <1>1, <1>2, TickAdvanceEffect
  <2>2. ticker'.encoded = {s}
    BY <1>1, <2>1 DEF Typed
  <2>3. EachPlayerHasOneSession'
    BY DEF SessionInv
  <2> SUFFICES ASSUME NEW p \in Admitted'
               PROVE  \E d \in Connections :
                          player_id'[d] = p /\ session'[d] \notin {"none", "accepted"}
    BY <2>1, <2>2 DEF ShownWereAdmitted
  <2>4. PICK d \in Connections : HoldsPlayer(d)' /\ player_id'[d] = p
    BY <2>3 DEF EachPlayerHasOneSession
  <2>5. QED
    BY <2>4 DEF HoldsPlayer
<1>3. CASE ticker'.encoded = {}
  BY <1>3 DEF ShownWereAdmitted
<1>4. CASE ticker'.encoded = ticker.encoded
  <2> SUFFICES ASSUME NEW s \in ticker.encoded, NEW p \in DOMAIN s.players
               PROVE  \E d \in Connections :
                          player_id'[d] = p /\ session'[d] \notin {"none", "accepted"}
    BY <1>4 DEF ShownWereAdmitted
  <2>1. PICK d \in Connections : player_id[d] = p /\ session[d] \notin {"none", "accepted"}
    BY <1>1 DEF ShownWereAdmitted
  <2>2. QED
    BY <1>1, <2>1, SettledStep DEF Settled
<1>5. QED
  BY <1>1, <1>2, <1>3, <1>4, TickerMoves

\* Every step of the system preserves the invariant of the feed.
LEMMA NextFeedInv ==
    ASSUME SessionInv, SessionInv', FeedInv, [Next]_vars
    PROVE  FeedInv'
<1>1. ASSUME NEW c \in Connections
      PROVE  FeedOf(c)'
  <2>1. current_tick'[c] <= tick'
    <3>1. /\ Typed /\ current_tick[c] <= tick /\ tick \in Int /\ tick' \in Int
          /\ current_tick[c] \in Int
      <4>1. /\ Typed /\ Typed' /\ tick \in 0..MaxTick /\ current_tick[c] \in 0..MaxTick
            /\ FeedOf(c)
        BY SessionFacts DEF FeedInv, SessionInv
      <4>2. tick' \in 0..MaxTick
        BY <4>1 DEF Typed, WorldTypeOK
      <4>3. QED
        BY <4>1, <4>2 DEF FeedOf
    <3>2. tick <= tick'
      BY <3>1, AppliedGrows
    <3>3. CASE Admit(c)
      <4>1. current_tick'[c] = tick
        BY <3>1, <3>3 DEF Admit, Typed
      <4>2. QED
        BY <3>1, <3>2, <4>1
    <3>4. CASE ~Admit(c)
      BY <3>1, <3>2, <3>4, HolderStep
    <3>5. QED
      BY <3>3, <3>4
  <2>2. /\ \A f \in OnItsWay(c)' : Fits(c, f)'
        /\ OnItsWay(c)' # {} => player_id'[c] # 0
    BY NextFits
  <2>3. Ordered(c)' /\ Deliverable(c)'
    BY NextOrdered, NextDeliverable
  <2>4. QED
    BY <2>1, <2>2, <2>3 DEF FeedOf
<1>2. ShownWereAdmitted'
  BY NextShown
<1>3. QED
  BY <1>1, <1>2 DEF FeedInv

\* Initially nothing is on its way.
LEMMA InitFeedInv == Init => FeedInv
<1> SUFFICES ASSUME Init PROVE FeedInv
  OBVIOUS
<1>1. ASSUME NEW c \in Connections
      PROVE  FeedOf(c)
  <2>1. wire[c] = <<>> /\ seen[c] = <<>> /\ writing[c] = {} /\ outbox[c].pending = {}
        /\ ticker.encoded = {} /\ current_tick[c] = 0 /\ tick = 0
    BY <1>1 DEF Init, WorldInit
  <2>2. Frames(<<>>) = {}
    BY DEF Frames
  <2>3. OnItsWay(c) = {}
    BY <2>1, <2>2 DEF OnItsWay, Sent
  <2>4. Ordered(c)
    BY <2>1, <2>2 DEF Ordered, Sent
  <2>5. QED
    BY <2>1, <2>3, <2>4 DEF FeedOf, Deliverable
<1>2. ShownWereAdmitted
  BY DEF Init, ShownWereAdmitted
<1>3. QED
  BY <1>1, <1>2 DEF FeedInv

\* The inductive invariant of the feed: what is on its way to each client is in order
\* and agrees with its session, and the snapshot between the tick thread's critical
\* sections may still be given to everyone it is due to.
THEOREM FeedInvariant == Spec => [](SessionInv /\ FeedInv)
<1>1. Init => SessionInv /\ FeedInv
  BY InitSessionInv, InitFeedInv
<1>2. SessionInv /\ FeedInv /\ [Next]_vars => SessionInv' /\ FeedInv'
  BY NextSessionInv, NextFeedInv
<1>3. QED
  BY <1>1, <1>2, PTL DEF Spec

-----------------------------------------------------------------------------

(* The whole of what is on its way, as one sequence. *)

InOrder(R, q) == \A i, j \in DOMAIN q : i < j => <<q[i], q[j]>> \in R

\* Two sequences in order, the first wholly before the second, are in order together.
LEMMA ConcatInOrder ==
    ASSUME NEW S, NEW R, NEW a \in Seq(S), NEW b \in Seq(S), InOrder(R, a), InOrder(R, b),
           \A f \in Frames(a) : \A g \in Frames(b) : <<f, g>> \in R
    PROVE  /\ a \o b \in Seq(S)
           /\ Frames(a \o b) = Frames(a) \cup Frames(b)
           /\ InOrder(R, a \o b)
<1> DEFINE q == a \o b
<1>1. /\ q \in Seq(S) /\ Len(a) \in Nat /\ Len(b) \in Nat
      /\ DOMAIN a = 1..Len(a) /\ DOMAIN b = 1..Len(b) /\ DOMAIN q = 1..(Len(a) + Len(b))
      /\ \A i \in 1..Len(a) : q[i] = a[i]
      /\ \A i \in 1..Len(b) : q[i + Len(a)] = b[i]
  OBVIOUS
<1> HIDE DEF q
<1>2. ASSUME NEW i \in DOMAIN q
      PROVE  \/ i \in DOMAIN a /\ q[i] = a[i] /\ q[i] \in Frames(a)
             \/ i > Len(a) /\ i - Len(a) \in DOMAIN b /\ q[i] = b[i - Len(a)]
                           /\ q[i] \in Frames(b)
  <2>1. CASE i <= Len(a)
    BY <1>1, <2>1 DEF Frames
  <2>2. CASE i > Len(a)
    <3>1. i - Len(a) \in 1..Len(b) /\ (i - Len(a)) + Len(a) = i
      BY <1>1, <2>2
    <3>2. q[i] = b[i - Len(a)]
      BY <1>1, <3>1
    <3>3. QED
      BY <1>1, <2>2, <3>1, <3>2 DEF Frames
  <2>3. QED
    BY <1>1, <2>1, <2>2
<1>3. Frames(q) = Frames(a) \cup Frames(b)
  <2>1. Frames(q) \subseteq Frames(a) \cup Frames(b)
    BY <1>2 DEF Frames
  <2>2. \A i \in DOMAIN a : a[i] \in Frames(q)
    BY <1>1 DEF Frames
  <2>3. ASSUME NEW i \in DOMAIN b
        PROVE  b[i] \in Frames(q)
    <3>1. i + Len(a) \in DOMAIN q /\ q[i + Len(a)] = b[i]
      BY <1>1
    <3>2. QED
      BY <3>1 DEF Frames
  <2>4. QED
    BY <2>1, <2>2, <2>3 DEF Frames
<1>4. InOrder(R, q)
  <2> SUFFICES ASSUME NEW i \in DOMAIN q, NEW j \in DOMAIN q, i < j
               PROVE  <<q[i], q[j]>> \in R
    BY DEF InOrder
  <2>1. CASE i \in DOMAIN a /\ j \in DOMAIN a
    BY <1>1, <2>1 DEF InOrder
  <2>2. CASE i > Len(a)
    <3>1. j > Len(a) /\ i - Len(a) < j - Len(a)
      BY <1>1, <2>2
    <3>2. /\ i - Len(a) \in DOMAIN b /\ j - Len(a) \in DOMAIN b
          /\ q[i] = b[i - Len(a)] /\ q[j] = b[j - Len(a)]
      BY <1>1, <1>2, <2>2, <3>1
    <3>3. QED
      BY <3>1, <3>2 DEF InOrder
  <2>3. CASE i \in DOMAIN a /\ j > Len(a)
    <3>1. q[i] \in Frames(a) /\ q[j] \in Frames(b)
      BY <1>1, <1>2, <2>3
    <3>2. QED
      BY <3>1
  <2>4. QED
    BY <1>1, <1>2, <2>1, <2>2, <2>3
<1>5. QED
  BY <1>1, <1>3, <1>4 DEF q

Single(s) == IF s = {} THEN <<>> ELSE <<CHOOSE x \in s : TRUE>>

\* A mailbox or a writer thread as a sequence of none or one.
LEMMA SingleInOrder ==
    ASSUME NEW R, NEW s \in SUBSET Snapshot
    PROVE  /\ Single(s) \in Seq(Frame)
           /\ Frames(Single(s)) \subseteq s
           /\ InOrder(R, Single(s))
<1>1. CASE s = {}
  BY <1>1 DEF Single, Frames, InOrder
<1>2. CASE s # {}
  <2>1. PICK x \in s : Single(s) = <<x>>
    BY <1>2 DEF Single
  <2>2. x \in Frame
    BY DEF Frame
  <2>3. QED
    BY <2>1, <2>2 DEF Frames, InOrder
<1>3. QED
  BY <1>1, <1>2

\* What is on its way to a client, as one sequence, is in order.
LEMMA PipelineOrdered ==
    ASSUME SessionInv, FeedInv, NEW c \in Connections
    PROVE  /\ Pipeline(c) \in Seq(Frame)
           /\ \A i \in DOMAIN Pipeline(c) : Fits(c, Pipeline(c)[i])
           /\ \A i, j \in DOMAIN Pipeline(c) :
                  i < j => Before(c, Pipeline(c)[i], Pipeline(c)[j])
<1> DEFINE R == {p \in Frame \X Frame : Before(c, p[1], p[2])}
           writes == Single(writing[c])
           pends == Single(outbox[c].pending)
<1>1. /\ Typed /\ FeedOf(c) /\ Lifecycle(c)
  BY SessionFacts DEF FeedInv
<1>2. /\ wire[c] \in Seq(Frame) /\ seen[c] \in Seq(Frame)
      /\ writing[c] \in SUBSET Snapshot /\ outbox[c].pending \in SUBSET Snapshot
      /\ OnItsWay(c) \subseteq Frame
  BY <1>1, OnItsWayFrames DEF Typed
<1>3. /\ writes \in Seq(Frame) /\ Frames(writes) \subseteq writing[c] /\ InOrder(R, writes)
      /\ pends \in Seq(Frame) /\ Frames(pends) \subseteq outbox[c].pending
      /\ InOrder(R, pends)
  BY <1>2, SingleInOrder
<1>4. \A f, g \in Frame : Before(c, f, g) => <<f, g>> \in R
  OBVIOUS
<1>5. /\ Frames(seen[c]) \subseteq Frame /\ Frames(wire[c]) \subseteq Frame
      /\ writing[c] \subseteq Frame /\ outbox[c].pending \subseteq Frame
      /\ \A i \in DOMAIN wire[c] : wire[c][i] \in Frame
  BY <1>2 DEF OnItsWay, Sent, Frames
<1>6. InOrder(R, seen[c])
  <2>1. DOMAIN seen[c] \subseteq {1}
    BY <1>1, <1>2 DEF Lifecycle
  <2>2. QED
    BY <2>1 DEF InOrder
<1>7. InOrder(R, wire[c])
  BY <1>1, <1>4, <1>5 DEF InOrder, FeedOf, Ordered
<1>8. \A f \in Frames(seen[c]) : \A g \in Frames(wire[c]) : <<f, g>> \in R
  BY <1>1, <1>4, <1>5 DEF FeedOf, Ordered
<1>9. \A f \in Sent(c) : \A g \in writing[c] : <<f, g>> \in R
  BY <1>1, <1>4, <1>5 DEF FeedOf, Ordered, Sent
<1>10. \A f \in Sent(c) \cup writing[c] : \A g \in outbox[c].pending : <<f, g>> \in R
  BY <1>1, <1>4, <1>5 DEF FeedOf, Ordered, Sent
<1>11. Pipeline(c) = seen[c] \o wire[c] \o writes \o pends
  BY DEF Pipeline, Single
<1> HIDE DEF R, writes, pends
<1>12. /\ seen[c] \o wire[c] \in Seq(Frame)
       /\ Frames(seen[c] \o wire[c]) = Sent(c)
       /\ InOrder(R, seen[c] \o wire[c])
  BY <1>2, <1>6, <1>7, <1>8, ConcatInOrder DEF Sent
<1> DEFINE sent == seen[c] \o wire[c]
<1> HIDE DEF sent
<1>13. /\ sent \o writes \in Seq(Frame)
       /\ Frames(sent \o writes) \subseteq Sent(c) \cup writing[c]
       /\ InOrder(R, sent \o writes)
  <2>1. /\ sent \in Seq(Frame) /\ Frames(sent) = Sent(c) /\ InOrder(R, sent)
    BY <1>12 DEF sent
  <2>2. \A f \in Frames(sent) : \A g \in Frames(writes) : <<f, g>> \in R
    BY <1>3, <1>9, <2>1
  <2>3. /\ sent \o writes \in Seq(Frame) /\ InOrder(R, sent \o writes)
        /\ Frames(sent \o writes) = Frames(sent) \cup Frames(writes)
    BY <1>3, <2>1, <2>2, ConcatInOrder
  <2>4. QED
    BY <1>3, <2>1, <2>3
<1>14. /\ sent \o writes \o pends \in Seq(Frame)
       /\ Frames(sent \o writes \o pends) \subseteq OnItsWay(c)
       /\ InOrder(R, sent \o writes \o pends)
  <2> DEFINE most == sent \o writes
  <2>1. /\ most \in Seq(Frame) /\ Frames(most) \subseteq Sent(c) \cup writing[c]
        /\ InOrder(R, most)
    BY <1>13
  <2> HIDE DEF most
  <2>2. \A f \in Frames(most) : \A g \in Frames(pends) : <<f, g>> \in R
    BY <1>3, <1>10, <2>1
  <2>3. /\ most \o pends \in Seq(Frame) /\ InOrder(R, most \o pends)
        /\ Frames(most \o pends) = Frames(most) \cup Frames(pends)
    BY <1>3, <2>1, <2>2, ConcatInOrder
  <2>4. QED
    BY <1>3, <2>1, <2>3 DEF most, OnItsWay
<1>15. /\ Pipeline(c) \in Seq(Frame)
       /\ Frames(Pipeline(c)) \subseteq OnItsWay(c)
       /\ InOrder(R, Pipeline(c))
  BY <1>11, <1>14 DEF sent
<1>16. \A i \in DOMAIN Pipeline(c) : Fits(c, Pipeline(c)[i])
  <2> SUFFICES ASSUME NEW i \in DOMAIN Pipeline(c) PROVE Fits(c, Pipeline(c)[i])
    OBVIOUS
  <2>1. Pipeline(c)[i] \in OnItsWay(c)
    BY <1>15 DEF Frames
  <2>2. QED
    BY <1>1, <2>1 DEF FeedOf
<1>17. \A i, j \in DOMAIN Pipeline(c) : i < j => Before(c, Pipeline(c)[i], Pipeline(c)[j])
  <2> SUFFICES ASSUME NEW i \in DOMAIN Pipeline(c), NEW j \in DOMAIN Pipeline(c), i < j
               PROVE  Before(c, Pipeline(c)[i], Pipeline(c)[j])
    OBVIOUS
  <2>1. <<Pipeline(c)[i], Pipeline(c)[j]>> \in R
    BY <1>15 DEF InOrder
  <2>2. QED
    BY <2>1 DEF R
<1>18. QED
  BY <1>15, <1>16, <1>17

\* Everything sent to a client, or on its way to it, is in order, shows the client its
\* own player, and acknowledges what is its own (the writer thread, the mailbox and the
\* tick thread hand one another ever newer snapshots).
THEOREM PipelinesInOrder == Spec => []PipelineInOrder
<1>1. SessionInv /\ FeedInv => PipelineInOrder
  <2> SUFFICES ASSUME SessionInv, FeedInv, NEW c \in Connections
               PROVE  /\ TicksInOrder(c) /\ ShowsItsClient(c)
                      /\ OwnIdentity(c) => AcknowledgesInOrder(c)
    BY DEF PipelineInOrder
  <2> DEFINE q == Pipeline(c)
  <2>1. /\ \A i \in DOMAIN q : Fits(c, q[i])
        /\ \A i, j \in DOMAIN q : i < j => Before(c, q[i], q[j])
    BY PipelineOrdered
  <2>2. /\ q \in Seq(Frame) /\ current_tick[c] \in Int
        /\ \A i \in DOMAIN q : q[i] \in Frame
    <3>1. q \in Seq(Frame) /\ current_tick[c] \in 0..MaxTick
      BY PipelineOrdered, SessionFacts
    <3>2. QED
      BY <3>1
  <2>3. \A f \in Frame : f.tick \in Int
    BY DEF Frame, WelcomeFrame, Snapshot
  <2>4. TicksInOrder(c)
    <3>1. \A i, j \in DOMAIN q :
              i < j => /\ q[j].kind = "snapshot"
                       /\ \/ q[i].tick < q[j].tick
                          \/ q[i].kind = "welcome" /\ q[i].tick = q[j].tick
      BY <2>1 DEF Before
    <3>2. \A i \in DOMAIN q : q[i].tick >= current_tick[c] /\ q[i].tick <= tick
      BY <2>1, <2>2, <2>3 DEF Fits
    <3>3. QED
      BY <3>1, <3>2 DEF TicksInOrder
  <2>5. ShowsItsClient(c)
    BY <2>1 DEF ShowsItsClient, Fits, Concerns
  <2>6. OwnIdentity(c) => AcknowledgesInOrder(c)
    BY <2>1 DEF AcknowledgesInOrder, Before, Concerns, Applied
  <2>7. QED
    BY <2>4, <2>5, <2>6
<1>2. QED
  BY <1>1, FeedInvariant, PTL

-----------------------------------------------------------------------------

(* The harness implements the feed of snapshots. *)

\* Only the peer's reading changes what it has seen, and only a tick the canonical state.
LEMMA ReadsOrNot ==
    ASSUME [Next]_vars
    PROVE  \/ tick' = tick /\ seen' = seen
           \/ tick' = tick + 1 /\ seen' = seen
           \/ \E c \in Connections : PeerReads(c)
<1> USE DEF world, network
<1>1. ASSUME NEW c \in Connections, Accept(c) \/ SessionStep(c)
      PROVE  tick' = tick /\ seen' = seen
  <2>1. tick' = tick
    BY <1>1, OthersTicker
  <2>2. seen' = seen
    BY <1>1 DEF Accept, SessionStep, SetupFails, Admit, Refuse, SendWelcome, HandshakeFails,
                Subscribe, ReadEnds, CloseOutbox, JoinWriter, RemovePlayer, Unlist
  <2>3. QED
    BY <2>1, <2>2
<1>2. ASSUME NEW c \in Connections, WriterStep(c) \/ SpuriousWakeup(c)
      PROVE  tick' = tick /\ seen' = seen
  BY <1>2 DEF WriterStep, Take, ReceiveNone, WaitReady, WriteFrame, WriteFails, ShutDown,
              SpuriousWakeup
<1>3. ASSUME NEW c \in Connections, PeerStep(c), ~PeerReads(c)
      PROVE  tick' = tick /\ seen' = seen
  <2>1. tick' = tick
    BY <1>3, OthersTicker
  <2>2. seen' = seen
    BY <1>3 DEF PeerStep, PeerStopsSending, PeerResets, ReadMalformed, ReadInput
  <2>3. QED
    BY <2>1, <2>2
<1>4. CASE TickStep
  BY <1>4 DEF TickStep, TickAdvance, LockClients, Sleep, PublishTo, advance_tick
<1>5. CASE UNCHANGED vars
  BY <1>5 DEF vars
<1>6. QED
  BY <1>1, <1>2, <1>3, <1>4, <1>5 DEF Next

\* A frame that a peer reads is its welcome, which is not a snapshot it could hold, or a
\* snapshot of the canonical state newer than the one it holds.
LEMMA ReadEffect ==
    ASSUME SessionInv, FeedInv, NEW c \in Connections, PeerReads(c)
    PROVE  /\ \A d \in Connections : d # c => HeldTick(d)' = HeldTick(d)
           /\ HeldTick(c)' = HeldTick(c) \/ HeldTick(c)' \in (HeldTick(c) + 1)..tick
<1>1. /\ Typed /\ FeedOf(c) /\ Lifecycle(c) /\ tick \in 0..MaxTick
      /\ wire[c] \in Seq(Frame) /\ seen[c] \in Seq(Frame) /\ OnItsWay(c) \subseteq Frame
  BY SessionFacts, OnItsWayFrames DEF FeedInv, Typed
<1>2. seen' = [seen EXCEPT ![c] = <<Head(wire[c])>>] /\ wire[c] # <<>>
  BY DEF PeerReads
<1>3. \A d \in Connections : d # c => HeldTick(d)' = HeldTick(d)
  BY <1>1, <1>2 DEF HeldTick, Typed
<1>4. 1 \in DOMAIN wire[c] /\ seen'[c] = <<wire[c][1]>>
  BY <1>1, <1>2 DEF Typed
<1>5. wire[c][1] \in Frames(wire[c]) /\ wire[c][1] \in OnItsWay(c) /\ wire[c][1] \in Frame
  BY <1>1, <1>4 DEF Frames, OnItsWay, Sent
<1>6. Fits(c, wire[c][1]) /\ wire[c][1].tick \in 0..MaxTick
  BY <1>1, <1>5 DEF FeedOf, Frame, WelcomeFrame, Snapshot
<1>7. HeldTick(c)' = IF wire[c][1].kind = "snapshot" THEN wire[c][1].tick ELSE -1
  BY <1>4 DEF HeldTick
<1>8. CASE seen[c] = <<>>
  <2>1. HeldTick(c) = -1
    BY <1>8 DEF HeldTick
  <2>2. wire[c][1].tick \in 0..tick
    BY <1>1, <1>6 DEF Fits
  <2>3. HeldTick(c)' = -1 \/ HeldTick(c)' \in 0..tick
    BY <1>7, <2>2
  <2>4. HeldTick(c)' = HeldTick(c) \/ HeldTick(c)' \in (HeldTick(c) + 1)..tick
    BY <2>1, <2>3
  <2>5. QED
    BY <1>3, <2>4
<1>9. CASE seen[c] # <<>>
  <2>1. 1 \in DOMAIN seen[c] /\ seen[c][1] \in Frames(seen[c]) /\ seen[c][1] \in Frame
    BY <1>1, <1>9 DEF Frames
  <2>2. Before(c, seen[c][1], wire[c][1])
    BY <1>1, <1>5, <2>1 DEF FeedOf, Ordered
  <2>3. seen[c][1].tick \in 0..MaxTick
        /\ (seen[c][1].kind = "snapshot" => seen[c][1].kind # "welcome")
    BY <2>1 DEF Frame, WelcomeFrame, Snapshot
  <2>4. HeldTick(c) = IF seen[c][1].kind = "snapshot" THEN seen[c][1].tick ELSE -1
    BY <1>9 DEF HeldTick
  <2>5. HeldTick(c)' = wire[c][1].tick
    BY <1>7, <2>2 DEF Before
  <2>6. HeldTick(c) < wire[c][1].tick /\ HeldTick(c) \in Int
    BY <1>6, <2>2, <2>3, <2>4 DEF Before
  <2>7. wire[c][1].tick <= tick /\ wire[c][1].tick \in Int /\ tick \in Int
    BY <1>1, <1>6 DEF Fits
  <2>8. HeldTick(c)' \in (HeldTick(c) + 1)..tick
    BY <2>5, <2>6, <2>7
  <2>9. QED
    BY <1>3, <2>8
<1>10. QED
  BY <1>3, <1>8, <1>9

\* The initial state of the harness is one of the feed.
LEMMA InitImplements == Init => Feed!Init
BY DEF Init, WorldInit, Feed!Init, HeldTick

\* Every step of the harness is a step of the feed, or none.
LEMMA NextImplements ==
    SessionInv /\ FeedInv /\ [Next]_vars => [Feed!Next]_(Feed!feedVars)
<1> DEFINE held == [c \in Connections |-> HeldTick(c)]
<1> SUFFICES ASSUME SessionInv, FeedInv, [Next]_vars
             PROVE  [Feed!Next]_(Feed!feedVars)
  OBVIOUS
<1>1. seen' = seen => held' = held
  BY DEF HeldTick
<1>2. CASE tick' = tick /\ seen' = seen
  BY <1>1, <1>2 DEF Feed!feedVars
<1>3. CASE tick' = tick + 1 /\ seen' = seen
  BY <1>1, <1>3 DEF Feed!Next, Feed!Advance
<1>4. ASSUME NEW c \in Connections, PeerReads(c)
      PROVE  [Feed!Next]_(Feed!feedVars)
  <2>1. tick' = tick
    BY <1>4 DEF PeerReads, world
  <2>2. /\ \A d \in Connections : d # c => HeldTick(d)' = HeldTick(d)
        /\ HeldTick(c)' = HeldTick(c) \/ HeldTick(c)' \in (HeldTick(c) + 1)..tick
    BY <1>4, ReadEffect
  <2>3. held' = [held EXCEPT ![c] = HeldTick(c)']
    BY <2>2
  <2>4. CASE HeldTick(c)' = HeldTick(c)
    BY <2>1, <2>3, <2>4 DEF Feed!feedVars
  <2>5. CASE HeldTick(c)' \in (held[c] + 1)..tick
    BY <2>1, <2>3, <2>5 DEF Feed!Next, Feed!Deliver
  <2>6. QED
    BY <2>2, <2>4, <2>5
<1>5. QED
  BY <1>2, <1>3, <1>4, ReadsOrNot

\* Through the native harness every client follows the canonical ticks, in order and
\* never ahead: the harness implements the abstract feed of snapshots.
THEOREM FeedRefinement == Spec => ImplementsSnapshotFeed
<1>1. Init => Feed!Init
  BY InitImplements
<1>2. SessionInv /\ FeedInv /\ [Next]_vars => [Feed!Next]_(Feed!feedVars)
  BY NextImplements
<1>3. QED
  BY <1>1, <1>2, FeedInvariant, PTL DEF Spec, ImplementsSnapshotFeed, Feed!Spec

=============================================================================
