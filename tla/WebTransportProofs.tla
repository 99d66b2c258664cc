--------------------------- MODULE WebTransportProofs ---------------------------
(***************************************************************************)
(* The browser path, for any number of connections, any network and any    *)
(* length of a session: every player in the world belongs to one server    *)
(* task, the server holds only what the page has sent, the page follows    *)
(* the canonical ticks, and, until its sequence wraps, what it keeps       *)
(* pending is exactly what the server has not acknowledged to it.          *)
(*                                                                         *)
(* WebInv is about one datagram or one task at a time.  The last property  *)
(* also needs PageInv: every snapshot on its way to a page acknowledges no *)
(* more than that page sent, and a newer one no less than an older one.    *)
(***************************************************************************)
EXTENDS WebTransport, KernelProofs

View == [x : Coordinate, y : Coordinate, last_applied_sequence : Nat]

Snapshot ==
    [tick : 0..MaxTick,
     players : UNION {[ids -> View] : ids \in SUBSET (PlayerIds \ {0})}]

Sent == [sequence : 1..MaxSequence, horizontal : Axis, vertical : {0}]

Sessions == {"none", "registered", "admitted", "welcomed", "running", "removing", "gone"}

Presentation == [previous : SUBSET Snapshot, current : SUBSET Snapshot,
                 pendingInputs : SUBSET Sent]

\* Types, as sets that the variables belong to.
Typed ==
    /\ WorldTypeOK
    /\ next_player_id \in PlayerIds
    /\ player_id \in [Connections -> PlayerIds]
    /\ session \in [Connections -> Sessions]
    /\ current_tick \in [Connections -> 0..MaxTick]
    /\ ticker \in [at : {"tick", "send"}, encoded : SUBSET Snapshot]
    /\ newest \in SUBSET Snapshot
    /\ unread \in [Connections -> {"none", "one", "lagged"}]
    /\ transport \in [Connections -> {"open", "closed"}]
    /\ up \in [Connections -> SUBSET Sent]
    /\ down \in [Connections -> SUBSET Snapshot]
    /\ page \in [Connections -> {"connecting", "playing", "left"}]
    /\ horizontal \in [Connections -> Axis]
    /\ sequence \in [Connections -> 0..MaxSequence]
    /\ timeline \in [Connections -> Presentation]

AtMostOne(S) == \A x, y \in S : x = y

\* Where a server task and its page can be, together with what they have exchanged.
Course(c) ==
    /\ session[c] = "none" => player_id[c] = 0
    /\ HoldsPlayer(c) \/ session[c] = "registered" => player_id[c] # 0
    /\ session[c] \in {"none", "registered", "admitted", "welcomed"} =>
           unread[c] = "none" /\ down[c] = {}
    /\ page[c] = "connecting" =>
           up[c] = {} /\ sequence[c] = 0 /\ timeline[c] = Timeline!NewTimeline
    /\ page[c] = "playing" =>
           /\ session[c] \in {"welcomed", "running", "removing", "gone"}
           /\ player_id[c] # 0
    /\ page[c] = "left" => timeline[c] = Timeline!NewTimeline
    /\ AtMostOne(timeline[c].current)
    /\ timeline[c].current \subseteq down[c]

\* What the tick task and the channel carry: one snapshot each, never of a tick to come.
ChannelInv ==
    /\ ticker.at = "tick" => ticker.encoded = {}
    /\ AtMostOne(newest)
    /\ \A s \in ticker.encoded : s.tick = tick
    /\ AtMostOne(ticker.encoded)
    /\ \A s \in newest : s.tick <= tick
    /\ \A c \in Connections : \A s \in down[c] : s.tick <= tick

WebInv ==
    /\ Typed
    /\ \A c \in Connections : Course(c)
    /\ ChannelInv
    /\ EachPlayerHasOneSession
    /\ ServerHoldsWhatWasSent

-----------------------------------------------------------------------------

\* The page's sequence does not come round.
NoWrap == LastSequence <= MaxSequence

\* A page has sent each sequence up to its last, and none beyond.
Numbers(c) ==
    page[c] # "left" =>
        /\ \A input \in up[c] : input.sequence <= sequence[c]
        /\ \A n \in 1..sequence[c] : \E input \in up[c] : input.sequence = n
        /\ sequence[c] <= LastSequence

\* Every player in a snapshot has an identity that some connection was given.
Identities ==
    \A s \in ticker.encoded \cup newest \cup UNION {down[c] : c \in Connections} :
        \A id \in DOMAIN s.players : \E d \in Connections : id = player_id[d]

\* The snapshots a page may still be shown.
InFlight(c) ==
    down[c] \cup (IF session[c] = "running" /\ unread[c] # "none" THEN newest ELSE {})
            \cup (IF session[c] \in {"removing", "gone"} THEN {} ELSE ticker.encoded)

Shows(s, c) == player_id[c] \in DOMAIN s.players
Acknowledges(s, c) == s.players[player_id[c]].last_applied_sequence

\* What such a snapshot acknowledges lies between what older ones did and what the
\* server holds, and the page has sent it.
AcknowledgesInOrder(c) ==
    OwnIdentity(c) /\ player_id[c] # 0 =>
        \A s \in InFlight(c) :
            Shows(s, c) =>
                /\ session[c] \notin {"none", "registered"}
                /\ HoldsPlayer(c) =>
                       Acknowledges(s, c) <= players[player_id[c]].last_applied_sequence
                /\ page[c] # "left" => Acknowledges(s, c) <= sequence[c]
                /\ \A t \in InFlight(c) :
                       s.tick < t.tick =>
                           Shows(t, c) /\ Acknowledges(s, c) <= Acknowledges(t, c)

\* PendingIsUnacknowledged for one connection, without what follows from Numbers.
Pending(c) ==
    page[c] = "playing" /\ OwnIdentity(c) =>
        timeline[c].pendingInputs = {input \in up[c] : input.sequence > Acknowledged(c)}

PageInv ==
    /\ \A c \in Connections : Numbers(c)
    /\ Identities
    /\ \A c \in Connections : AcknowledgesInOrder(c)
    /\ \A c \in Connections : Pending(c)

-----------------------------------------------------------------------------

(* Facts about data. *)

\* The choice from a set of one is that one.
LEMMA TheOne ==
    ASSUME NEW S, AtMostOne(S), NEW x \in S
    PROVE  (CHOOSE y \in S : TRUE) = x
<1>1. (CHOOSE y \in S : TRUE) \in S
  OBVIOUS
<1>2. QED
  BY <1>1 DEF AtMostOne

\* A snapshot of a well-formed world is one the page can be sent.
LEMMA SnapshotType ==
    ASSUME NEW t \in 0..MaxTick, NEW ids \in SUBSET (PlayerIds \ {0}),
           NEW ps \in [ids -> PlayerRecord]
    PROVE  [tick |-> t,
            players |-> [p \in ids |-> [x |-> ps[p].x, y |-> ps[p].y,
                             last_applied_sequence |-> ps[p].last_applied_sequence]]] \in Snapshot
<1> DEFINE shown == [p \in ids |-> [x |-> ps[p].x, y |-> ps[p].y,
                        last_applied_sequence |-> ps[p].last_applied_sequence]]
<1>1. shown \in [ids -> View]
  BY DEF PlayerRecord, View
<1> HIDE DEF shown
<1>2. shown \in UNION {[j -> View] : j \in SUBSET (PlayerIds \ {0})}
  BY <1>1
<1>3. QED
  BY <1>2 DEF Snapshot, shown

\* A player shown in a snapshot has an identity other than 0, and a sequence.
LEMMA SnapshotPlayers ==
    ASSUME NEW s \in Snapshot, NEW id \in DOMAIN s.players
    PROVE  /\ id \in PlayerIds \ {0}
           /\ s.players[id].last_applied_sequence \in Nat
<1>1. PICK ids \in SUBSET (PlayerIds \ {0}) : s.players \in [ids -> View]
  BY DEF Snapshot
<1>2. QED
  BY <1>1 DEF View

\* What a tick hands over to be broadcast is one snapshot, of the new tick, that shows
\* exactly the admitted players and what has been applied of their input.
LEMMA TickAdvanceEffect ==
    ASSUME Typed, TickAdvance
    PROVE  /\ WorldTypeOK'
           /\ tick' = tick + 1
           /\ \E s \in Snapshot :
                 /\ ticker' = [at |-> "send", encoded |-> {s}]
                 /\ s.tick = tick'
                 /\ DOMAIN s.players = Admitted'
                 /\ \A p \in Admitted' :
                       s.players[p].last_applied_sequence = players'[p].last_applied_sequence
<1> DEFINE s == [tick |-> tick',
                 players |-> [p \in Admitted' |-> [x |-> players'[p].x, y |-> players'[p].y,
                     last_applied_sequence |-> players'[p].last_applied_sequence]]]
<1>1. advance_tick /\ ticker' = [at |-> "send", encoded |-> {s}]
  BY DEF TickAdvance, snapshot
<1>2. WorldTypeOK'
  BY <1>1, AdvanceTickType DEF Typed
<1>3. tick' \in 0..MaxTick /\ Admitted' \in SUBSET (PlayerIds \ {0})
      /\ players' \in [Admitted' -> PlayerRecord]
  BY <1>2 DEF WorldTypeOK
<1>4. s \in Snapshot
  BY <1>3, SnapshotType
<1>5. tick' = tick + 1
  BY <1>1 DEF advance_tick
<1>6. /\ s.tick = tick'
      /\ DOMAIN s.players = Admitted'
      /\ \A p \in Admitted' :
            s.players[p].last_applied_sequence = players'[p].last_applied_sequence
  OBVIOUS
<1> HIDE DEF s
<1>7. QED
  BY <1>1, <1>2, <1>4, <1>5, <1>6

\* The next sequence is one the page may send.
LEMMA NextSequenceType ==
    ASSUME NEW n \in 0..MaxSequence
    PROVE  nextSequence(n) \in 1..MaxSequence
BY AdapterAssumption DEF nextSequence

-----------------------------------------------------------------------------

(* Types are preserved. *)

\* The initial state has the types.
LEMMA InitTyped == Init => Typed
<1> SUFFICES ASSUME Init PROVE Typed
  OBVIOUS
<1>1. WorldTypeOK
  BY WorldInitType DEF Init
<1>2. 0 \in PlayerIds /\ (1 \in PlayerIds) /\ 0 \in 0..MaxTick
  BY AdapterAssumption, KernelAssumption
<1>3. Timeline!NewTimeline \in Presentation
  BY DEF Timeline!NewTimeline, Presentation
<1>4. QED
  BY <1>1, <1>2, <1>3, AdapterAssumption DEF Init, Typed, Sessions, Axis

\* The steps of a server task.
LEMMA TaskStepTyped ==
    ASSUME Typed, NEW c \in Connections,
           \/ SessionStep(c) \/ RefuseDatagrams(c) \/ ReceiveMalformed(c)
           \/ \E input \in up[c] : ReceiveInput(c, input)
    PROVE  Typed'
<1> USE DEF Typed, Sessions, registration, channel, client
<1>1. CASE RefuseDatagrams(c)
  BY <1>1, WorldUnchangedType DEF RefuseDatagrams, Goto
<1>2. CASE Register(c)
  <2>1. (next_player_id + 1) % IdSpace \in PlayerIds
    BY AdapterAssumption, KernelAssumption
  <2>2. QED
    BY <1>2, <2>1, WorldUnchangedType DEF Register
<1>3. CASE Admit(c)
  <2>1. WorldTypeOK' /\ tick \in 0..MaxTick
    BY <1>3, AddPlayerType DEF Admit, WorldTypeOK
  <2>2. QED
    BY <1>3, <2>1 DEF Admit, Goto
<1>4. CASE Refuse(c)
  BY <1>4, WorldUnchangedType DEF Refuse, add_player_error, Goto
<1>5. CASE SendWelcome(c) \/ WelcomeFails(c) \/ Subscribe(c) \/ SessionCloses(c)
  BY <1>5, WorldUnchangedType DEF SendWelcome, WelcomeFails, Subscribe, SessionCloses, Goto
<1>6. CASE ReceiveMalformed(c)
  BY <1>6, WorldUnchangedType DEF ReceiveMalformed, Goto
<1>7. CASE ForwardSnapshot(c)
  BY <1>7, WorldUnchangedType DEF ForwardSnapshot
<1>8. CASE SkipLagged(c)
  BY <1>8, WorldUnchangedType DEF SkipLagged
<1>9. CASE RemovePlayer(c)
  BY <1>9, RemovePlayerType DEF RemovePlayer, Goto
<1>10. ASSUME NEW input \in up[c], ReceiveInput(c, input)
       PROVE  Typed'
  <2>1. input \in InputCommand
    BY DEF Sent, InputCommand, Axis
  <2>2. WorldTypeOK'
    <3>1. CASE submit_input(player_id[c], input)
      BY <2>1, <3>1, SubmitInputType
    <3>2. CASE submit_input_ignored(player_id[c], input)
      BY <3>2, WorldUnchangedType DEF submit_input_ignored
    <3>3. QED
      BY <1>10, <3>1, <3>2 DEF ReceiveInput
  <2>3. QED
    BY <1>10, <2>2 DEF ReceiveInput
<1>11. QED
  BY <1>1, <1>2, <1>3, <1>4, <1>5, <1>6, <1>7, <1>8, <1>9, <1>10 DEF SessionStep

\* The steps of the tick task.
LEMMA TickStepTyped ==
    ASSUME Typed, TickStep
    PROVE  Typed'
<1> USE DEF Typed, registration, channel, client
<1>1. CASE TickAdvance
  <2>1. /\ WorldTypeOK'
        /\ \E s \in Snapshot : ticker' = [at |-> "send", encoded |-> {s}]
    BY <1>1, TickAdvanceEffect
  <2>2. ticker' \in [at : {"tick", "send"}, encoded : SUBSET Snapshot]
    BY <2>1
  <2>3. QED
    BY <1>1, <2>1, <2>2 DEF TickAdvance
<1>2. CASE TickFails
  BY <1>2, WorldUnchangedType DEF TickFails, advance_tick_exhausted
<1>3. CASE Broadcast
  BY <1>3, WorldUnchangedType DEF Broadcast
<1>4. QED
  BY <1>1, <1>2, <1>3 DEF TickStep

\* What recording an input and accepting a snapshot return.
LEMMA RecordInputType ==
    ASSUME NEW t \in Presentation, NEW input \in Sent
    PROVE  Timeline!recordInput(t, input) \in Presentation
<1>1. [t EXCEPT !.pendingInputs = t.pendingInputs \cup {input}] \in Presentation
  BY DEF Presentation
<1>2. QED
  BY <1>1 DEF Timeline!recordInput

\* Accepting a snapshot leaves the timeline well typed.
LEMMA AcceptSnapshotType ==
    ASSUME NEW t \in Presentation, NEW s \in Snapshot, NEW id
    PROVE  Timeline!acceptSnapshot(t, s, id) \in Presentation
<1>1. Timeline!pruneAcknowledgedInputs(t.pendingInputs, s.players[id].last_applied_sequence)
          \in SUBSET Sent
  BY DEF Timeline!pruneAcknowledgedInputs, Presentation
<1>2. QED
  BY <1>1 DEF Timeline!acceptSnapshot, Presentation

\* The steps of a page.
LEMMA PageStepTyped ==
    ASSUME Typed, NEW c \in Connections,
           \/ Start(c) \/ SendInput(c) \/ Leave(c)
           \/ \E axis \in Axis : PressKeys(c, axis)
           \/ \E s \in down[c] : ReceiveSnapshot(c, s)
    PROVE  Typed'
<1> USE DEF Typed, registration, channel, client
<1>1. Timeline!NewTimeline \in Presentation /\ 0 \in Axis /\ 0 \in 0..MaxSequence
  BY AdapterAssumption DEF Timeline!NewTimeline, Presentation, Axis
<1>2. CASE Start(c)
  BY <1>1, <1>2, WorldUnchangedType DEF Start
<1>3. CASE SendInput(c)
  <2> DEFINE input == [sequence |-> nextSequence(sequence[c]),
                       horizontal |-> horizontal[c], vertical |-> 0]
  <2>1. input \in Sent /\ input.sequence \in 0..MaxSequence
    BY NextSequenceType DEF Sent
  <2>2. /\ sequence' = [sequence EXCEPT ![c] = input.sequence]
        /\ timeline' = [timeline EXCEPT ![c] = Timeline!recordInput(timeline[c], input)]
        /\ up' = [up EXCEPT ![c] = up[c] \cup {input}]
        /\ UNCHANGED <<world, registration, session, channel, transport, down, page, horizontal>>
    BY <1>3 DEF SendInput
  <2> HIDE DEF input
  <2>3. Timeline!recordInput(timeline[c], input) \in Presentation
    BY <2>1, RecordInputType
  <2>4. QED
    BY <2>1, <2>2, <2>3, WorldUnchangedType
<1>4. CASE Leave(c)
  BY <1>1, <1>4, WorldUnchangedType DEF Leave
<1>5. ASSUME NEW axis \in Axis, PressKeys(c, axis)
      PROVE  Typed'
  BY <1>5, WorldUnchangedType DEF PressKeys
<1>6. ASSUME NEW s \in down[c], ReceiveSnapshot(c, s)
      PROVE  Typed'
  <2>1. Timeline!acceptSnapshot(timeline[c], s, player_id[c]) \in Presentation
    BY AcceptSnapshotType
  <2>2. timeline' = [timeline EXCEPT ![c] =
                        Timeline!acceptSnapshot(timeline[c], s, player_id[c])]
    BY <1>6 DEF ReceiveSnapshot
  <2>3. QED
    BY <1>6, <2>1, <2>2, WorldUnchangedType DEF ReceiveSnapshot
<1>7. QED
  BY <1>2, <1>3, <1>4, <1>5, <1>6

\* Every step preserves the types.
LEMMA NextTyped == ASSUME Typed, [Next]_vars PROVE Typed'
<1>1. CASE UNCHANGED vars
  BY <1>1, WorldUnchangedType DEF Typed, vars, world
<1>2. CASE TickStep
  BY <1>2, TickStepTyped
<1>3. ASSUME NEW c \in Connections,
             \/ SessionStep(c) \/ RefuseDatagrams(c) \/ ReceiveMalformed(c)
             \/ \E input \in up[c] : ReceiveInput(c, input)
      PROVE  Typed'
  BY <1>3, TaskStepTyped
<1>4. ASSUME NEW c \in Connections,
             \/ Start(c) \/ SendInput(c) \/ Leave(c)
             \/ \E axis \in Axis : PressKeys(c, axis)
             \/ \E s \in down[c] : ReceiveSnapshot(c, s)
      PROVE  Typed'
  BY <1>4, PageStepTyped
<1>5. QED
  BY <1>1, <1>2, <1>3, <1>4 DEF Next

-----------------------------------------------------------------------------

(* One server task and its page. *)

\* Recording an input leaves what is shown alone.
LEMMA RecordInputShows ==
    ASSUME NEW t \in Presentation, NEW input
    PROVE  Timeline!recordInput(t, input).current = t.current
BY DEF Timeline!recordInput, Presentation

\* Accepting a snapshot either changes nothing or shows it in place of an older one.
LEMMA AcceptSnapshotShows ==
    ASSUME NEW t \in Presentation, NEW s, NEW id
    PROVE  \/ /\ \E x \in t.current : s.tick <= x.tick
              /\ Timeline!acceptSnapshot(t, s, id) = t
           \/ /\ \A x \in t.current : ~(s.tick <= x.tick)
              /\ Timeline!acceptSnapshot(t, s, id).current = {s}
              /\ Timeline!acceptSnapshot(t, s, id).pendingInputs =
                     IF id \in DOMAIN s.players
                     THEN Timeline!pruneAcknowledgedInputs(
                              t.pendingInputs, s.players[id].last_applied_sequence)
                     ELSE t.pendingInputs
BY DEF Timeline!acceptSnapshot

\* A step that leaves a connection's task, datagrams and page alone keeps its course.
LEMMA CourseFrame ==
    ASSUME NEW d \in Connections, Course(d),
           session'[d] = session[d], player_id'[d] = player_id[d],
           unread'[d] = unread[d], down'[d] = down[d], up'[d] = up[d],
           page'[d] = page[d], sequence'[d] = sequence[d], timeline'[d] = timeline[d]
    PROVE  Course(d)'
BY DEF Course, HoldsPlayer

\* The steps of a server task keep every course.
LEMMA TaskStepCourse ==
    ASSUME Typed, \A e \in Connections : Course(e), NEW c \in Connections,
           \/ SessionStep(c) \/ RefuseDatagrams(c) \/ ReceiveMalformed(c)
           \/ \E input \in up[c] : ReceiveInput(c, input),
           NEW d \in Connections
    PROVE  Course(d)'
<1> USE DEF registration, channel, client
<1>1. CASE d # c
  <2>1. /\ session'[d] = session[d] /\ player_id'[d] = player_id[d]
        /\ unread'[d] = unread[d] /\ down'[d] = down[d]
        /\ UNCHANGED <<up, page, sequence, timeline>>
    <3>1. CASE RefuseDatagrams(c) \/ Register(c) \/ Admit(c) \/ Refuse(c)
      BY <1>1, <3>1 DEF RefuseDatagrams, Register, Admit, Refuse, Goto, Typed
    <3>2. CASE SendWelcome(c) \/ WelcomeFails(c) \/ Subscribe(c) \/ SessionCloses(c)
               \/ ReceiveMalformed(c)
      BY <1>1, <3>2 DEF SendWelcome, WelcomeFails, Subscribe, SessionCloses,
                        ReceiveMalformed, Goto, Typed
    <3>3. CASE ForwardSnapshot(c) \/ SkipLagged(c) \/ RemovePlayer(c)
      BY <1>1, <3>3 DEF ForwardSnapshot, SkipLagged, RemovePlayer, Goto, Typed
    <3>4. CASE \E input \in up[c] : ReceiveInput(c, input)
      BY <3>4 DEF ReceiveInput
    <3>5. QED
      BY <3>1, <3>2, <3>3, <3>4 DEF SessionStep
  <2>2. QED
    BY <2>1, CourseFrame
<1>2. CASE d = c
  <2>1. Course(c)
    OBVIOUS
  <2>2. CASE RefuseDatagrams(c) \/ Refuse(c)
    BY <1>2, <2>1, <2>2 DEF RefuseDatagrams, Refuse, Goto, Course, HoldsPlayer, Typed, AtMostOne
  <2>3. CASE Register(c)
    BY <1>2, <2>1, <2>3 DEF Register, Course, HoldsPlayer, Typed, AtMostOne
  <2>4. CASE Admit(c)
    BY <1>2, <2>1, <2>4 DEF Admit, Goto, Course, HoldsPlayer, Typed, AtMostOne
  <2>5. CASE SendWelcome(c) \/ WelcomeFails(c)
    BY <1>2, <2>1, <2>5 DEF SendWelcome, WelcomeFails, Goto, Course, HoldsPlayer, Typed, AtMostOne
  <2>6. CASE Subscribe(c) \/ SessionCloses(c) \/ ReceiveMalformed(c)
    BY <1>2, <2>1, <2>6
       DEF Subscribe, SessionCloses, ReceiveMalformed, Goto, Course, HoldsPlayer, Typed, AtMostOne
  <2>7. CASE ForwardSnapshot(c)
    <3>1. down'[c] = down[c] \cup newest /\ session[c] = "running"
      BY <2>7 DEF ForwardSnapshot, Typed
    <3>2. QED
      BY <1>2, <2>1, <2>7, <3>1 DEF ForwardSnapshot, Course, HoldsPlayer, AtMostOne
  <2>8. CASE SkipLagged(c)
    BY <1>2, <2>1, <2>8 DEF SkipLagged, Course, HoldsPlayer, AtMostOne
  <2>9. CASE RemovePlayer(c)
    BY <1>2, <2>1, <2>9 DEF RemovePlayer, Goto, Course, HoldsPlayer, Typed, AtMostOne
  <2>10. CASE \E input \in up[c] : ReceiveInput(c, input)
    BY <1>2, <2>1, <2>10, CourseFrame DEF ReceiveInput
  <2>11. QED
    BY <2>2, <2>3, <2>4, <2>5, <2>6, <2>7, <2>8, <2>9, <2>10 DEF SessionStep
<1>3. QED
  BY <1>1, <1>2

\* The steps of a page keep every course.
LEMMA PageStepCourse ==
    ASSUME Typed, \A e \in Connections : Course(e), NEW c \in Connections,
           \/ Start(c) \/ SendInput(c) \/ Leave(c)
           \/ \E axis \in Axis : PressKeys(c, axis)
           \/ \E s \in down[c] : ReceiveSnapshot(c, s),
           NEW d \in Connections
    PROVE  Course(d)'
<1> USE DEF registration, channel, client
<1>1. CASE d # c
  <2>1. /\ UNCHANGED <<session, player_id, unread, down>>
        /\ up'[d] = up[d] /\ page'[d] = page[d]
        /\ sequence'[d] = sequence[d] /\ timeline'[d] = timeline[d]
    <3>1. CASE Start(c) \/ Leave(c) \/ \E axis \in Axis : PressKeys(c, axis)
      BY <1>1, <3>1 DEF Start, Leave, PressKeys, Typed
    <3>2. CASE SendInput(c) \/ \E s \in down[c] : ReceiveSnapshot(c, s)
      BY <1>1, <3>2 DEF SendInput, ReceiveSnapshot, Typed
    <3>3. QED
      BY <3>1, <3>2
  <2>2. QED
    BY <2>1, CourseFrame
<1>2. CASE d = c
  <2>1. Course(c)
    OBVIOUS
  <2>2. Timeline!NewTimeline.current = {}
    BY DEF Timeline!NewTimeline
  <2>3. CASE Start(c)
    <3>1. /\ page[c] = "connecting" /\ session[c] \in {"welcomed", "running"}
          /\ page'[c] = "playing" /\ timeline'[c] = Timeline!NewTimeline
          /\ UNCHANGED <<session, player_id, unread, down, up, sequence>>
      BY <2>3 DEF Start, Typed
    <3>2. player_id[c] # 0
      BY <2>1, <3>1 DEF Course, HoldsPlayer
    <3>3. QED
      BY <1>2, <2>1, <2>2, <3>1, <3>2 DEF Course, HoldsPlayer, AtMostOne
  <2>4. CASE Leave(c)
    <3>1. /\ page'[c] = "left" /\ timeline'[c] = Timeline!NewTimeline
          /\ UNCHANGED <<session, player_id, unread, down, up>>
      BY <2>4 DEF Leave, Typed
    <3>2. QED
      BY <1>2, <2>1, <2>2, <3>1 DEF Course, HoldsPlayer, AtMostOne
  <2>5. CASE \E axis \in Axis : PressKeys(c, axis)
    BY <1>2, <2>1, <2>5, CourseFrame DEF PressKeys
  <2>6. CASE SendInput(c)
    <3> DEFINE input == [sequence |-> nextSequence(sequence[c]),
                         horizontal |-> horizontal[c], vertical |-> 0]
    <3>1. timeline' = [timeline EXCEPT ![c] = Timeline!recordInput(timeline[c], input)]
      BY <2>6 DEF SendInput
    <3> HIDE DEF input
    <3>2. timeline'[c].current = timeline[c].current
      BY <3>1, RecordInputShows DEF Typed
    <3>3. page[c] = "playing" /\ UNCHANGED <<session, player_id, unread, down, page>>
      BY <2>6 DEF SendInput
    <3>4. QED
      BY <1>2, <2>1, <3>2, <3>3 DEF Course, HoldsPlayer
  <2>7. ASSUME NEW s \in down[c], ReceiveSnapshot(c, s)
        PROVE  Course(d)'
    <3>1. /\ timeline'[c] = Timeline!acceptSnapshot(timeline[c], s, player_id[c])
          /\ page[c] = "playing" /\ UNCHANGED <<session, player_id, unread, down, page>>
      BY <2>7 DEF ReceiveSnapshot, Typed
    <3>2. timeline'[c].current = timeline[c].current \/ timeline'[c].current = {s}
      <4>1. timeline[c] \in Presentation
        BY DEF Typed
      <4>2. \/ Timeline!acceptSnapshot(timeline[c], s, player_id[c]) = timeline[c]
            \/ Timeline!acceptSnapshot(timeline[c], s, player_id[c]).current = {s}
        BY <4>1, AcceptSnapshotShows
      <4>3. QED
        BY <3>1, <4>2
    <3>3. AtMostOne(timeline'[c].current) /\ timeline'[c].current \subseteq down[c]
      BY <2>1, <3>2 DEF Course, AtMostOne
    <3>4. QED
      BY <1>2, <2>1, <3>1, <3>3 DEF Course, HoldsPlayer
  <2>8. QED
    BY <2>3, <2>4, <2>5, <2>6, <2>7
<1>3. QED
  BY <1>1, <1>2

\* Every step keeps every course; a broadcast wakes only tasks that are running.
LEMMA NextCourse ==
    ASSUME Typed, \A e \in Connections : Course(e), [Next]_vars, NEW d \in Connections
    PROVE  Course(d)'
<1>1. CASE UNCHANGED vars
  BY <1>1, CourseFrame DEF vars
<1>2. CASE TickAdvance \/ TickFails
  BY <1>2, CourseFrame DEF TickAdvance, TickFails, registration, channel, client
<1>3. CASE Broadcast
  <2>1. /\ session[d] # "running" => unread'[d] = unread[d]
        /\ UNCHANGED <<session, player_id, down, up, page, sequence, timeline>>
    BY <1>3 DEF Broadcast, registration, client
  <2>2. QED
    BY <2>1 DEF Course, HoldsPlayer
<1>4. ASSUME NEW c \in Connections,
             \/ SessionStep(c) \/ RefuseDatagrams(c) \/ ReceiveMalformed(c)
             \/ \E input \in up[c] : ReceiveInput(c, input)
      PROVE  Course(d)'
  BY <1>4, TaskStepCourse
<1>5. ASSUME NEW c \in Connections,
             \/ Start(c) \/ SendInput(c) \/ Leave(c)
             \/ \E axis \in Axis : PressKeys(c, axis)
             \/ \E s \in down[c] : ReceiveSnapshot(c, s)
      PROVE  Course(d)'
  BY <1>5, PageStepCourse
<1>6. QED
  BY <1>1, <1>2, <1>3, <1>4, <1>5 DEF Next, TickStep

-----------------------------------------------------------------------------

(* The tick task and the channel. *)

\* A step that sends no snapshot keeps the channel's invariant.
LEMMA ChannelFrame ==
    ASSUME ChannelInv, UNCHANGED <<tick, ticker, newest, down>>
    PROVE  ChannelInv'
BY DEF ChannelInv, AtMostOne

\* Every step preserves the invariant of the tick task and the channel.
LEMMA NextChannel == ASSUME Typed, ChannelInv, [Next]_vars PROVE ChannelInv'
<1> USE DEF registration, channel, client, world
<1>1. CASE UNCHANGED vars
  BY <1>1, ChannelFrame DEF vars
<1>2. CASE TickAdvance
  <2>1. PICK s : ticker' = [at |-> "send", encoded |-> {s}] /\ s.tick = tick'
    BY <1>2, TickAdvanceEffect
  <2>2. tick' = tick + 1 /\ UNCHANGED <<newest, down>>
    BY <1>2, TickAdvanceEffect DEF TickAdvance
  <2>3. /\ tick \in Nat
        /\ \A x \in newest : x.tick \in Nat
        /\ \A c \in Connections : \A x \in down[c] : x.tick \in Nat
    BY DEF Typed, WorldTypeOK, Snapshot
  <2>4. /\ \A x \in newest : x.tick <= tick'
        /\ \A c \in Connections : \A x \in down[c] : x.tick <= tick'
    BY <2>2, <2>3 DEF ChannelInv
  <2>5. QED
    BY <2>1, <2>2, <2>4 DEF ChannelInv, AtMostOne
<1>3. CASE TickFails
  BY <1>3, ChannelFrame DEF TickFails, advance_tick_exhausted
<1>4. CASE Broadcast
  <2>1. /\ newest' = ticker.encoded /\ ticker' = [at |-> "tick", encoded |-> {}]
        /\ UNCHANGED <<tick, down>>
    BY <1>4 DEF Broadcast
  <2>2. tick \in Nat
    BY DEF Typed, WorldTypeOK
  <2>3. QED
    BY <2>1, <2>2 DEF ChannelInv, AtMostOne
<1>5. ASSUME NEW c \in Connections, ForwardSnapshot(c)
      PROVE  ChannelInv'
  <2>1. down' = [down EXCEPT ![c] = down[c] \cup newest] /\ UNCHANGED <<tick, ticker, newest>>
    BY <1>5 DEF ForwardSnapshot
  <2>2. \A d \in Connections : down'[d] \subseteq down[d] \cup newest
    BY <2>1 DEF Typed
  <2>3. QED
    BY <2>1, <2>2 DEF ChannelInv, AtMostOne
<1>6. ASSUME NEW c \in Connections,
             \/ RefuseDatagrams(c) \/ Register(c) \/ Admit(c) \/ Refuse(c) \/ SendWelcome(c)
             \/ WelcomeFails(c) \/ Subscribe(c) \/ ReceiveMalformed(c) \/ SkipLagged(c)
             \/ SessionCloses(c) \/ RemovePlayer(c)
      PROVE  ChannelInv'
  <2>1. UNCHANGED <<tick, ticker, newest, down>>
    BY <1>6 DEF RefuseDatagrams, Register, Admit, add_player, Refuse, add_player_error,
                SendWelcome, WelcomeFails, Subscribe, ReceiveMalformed, SkipLagged,
                SessionCloses, RemovePlayer, remove_player
  <2>2. QED
    BY <2>1, ChannelFrame
<1>7. ASSUME NEW c \in Connections,
             \/ \E input \in up[c] : ReceiveInput(c, input)
             \/ Start(c) \/ SendInput(c) \/ Leave(c)
             \/ \E axis \in Axis : PressKeys(c, axis)
             \/ \E s \in down[c] : ReceiveSnapshot(c, s)
      PROVE  ChannelInv'
  <2>1. UNCHANGED <<tick, ticker, newest, down>>
    BY <1>7 DEF ReceiveInput, submit_input, submit_input_ignored, Start, SendInput, Leave,
                PressKeys, ReceiveSnapshot
  <2>2. QED
    BY <2>1, ChannelFrame
<1>8. QED
  BY <1>1, <1>2, <1>3, <1>4, <1>5, <1>6, <1>7 DEF Next, TickStep, SessionStep

-----------------------------------------------------------------------------

(* One task for each player. *)

\* A step that admits and removes nobody, and moves no task between holding a
\* player and not holding one, keeps players and tasks matched.
LEMMA HoldersFrame ==
    ASSUME EachPlayerHasOneSession, Admitted' = Admitted,
           \A d \in Connections : HoldsPlayer(d)' <=> HoldsPlayer(d),
           \A d \in Connections : HoldsPlayer(d) => player_id'[d] = player_id[d]
    PROVE  EachPlayerHasOneSession'
<1>1. {player_id'[c] : c \in {d \in Connections : HoldsPlayer(d)'}}
          = {player_id[c] : c \in {d \in Connections : HoldsPlayer(d)}}
  OBVIOUS
<1>2. Admitted' = {player_id'[c] : c \in {d \in Connections : HoldsPlayer(d)'}}
  BY <1>1 DEF EachPlayerHasOneSession
<1>3. \A c, d \in Connections :
          HoldsPlayer(c)' /\ HoldsPlayer(d)' /\ player_id'[c] = player_id'[d] => c = d
  BY DEF EachPlayerHasOneSession
<1>4. QED
  BY <1>2, <1>3 DEF EachPlayerHasOneSession

\* An input, taken or ignored, and a tick leave the set of players alone.
LEMMA SamePlayers ==
    ASSUME \/ \E id : \E input : submit_input(id, input) \/ submit_input_ignored(id, input)
           \/ \E id : add_player_error(id)
           \/ advance_tick
           \/ UNCHANGED world
    PROVE  Admitted' = Admitted
BY DEF submit_input, submit_input_ignored, add_player_error, advance_tick, world, Admitted

\* The only steps that change who holds a player are the admission and the removal;
\* the kernel refuses a duplicate, and the removal names the task's own player.
LEMMA NextOneSession ==
    ASSUME Typed, \A e \in Connections : Course(e), EachPlayerHasOneSession, [Next]_vars
    PROVE  EachPlayerHasOneSession'
<1> USE DEF registration, channel, client
<1>1. ASSUME NEW c \in Connections, Admit(c)
      PROVE  EachPlayerHasOneSession'
  <2>1. /\ player_id[c] \notin Admitted /\ Admitted' = Admitted \cup {player_id[c]}
        /\ player_id' = player_id
    BY <1>1 DEF Admit, add_player, CanAdd, Admitted
  <2>2. \A d \in Connections : HoldsPlayer(d)' <=> HoldsPlayer(d) \/ d = c
    BY <1>1 DEF Admit, Goto, HoldsPlayer, Typed
  <2>3. \A d \in Connections : HoldsPlayer(d) => player_id[d] \in Admitted
    BY DEF EachPlayerHasOneSession
  <2>4. Admitted' = {player_id'[d] : d \in {e \in Connections : HoldsPlayer(e)'}}
    BY <2>1, <2>2 DEF EachPlayerHasOneSession
  <2>5. \A d, e \in Connections :
            HoldsPlayer(d)' /\ HoldsPlayer(e)' /\ player_id'[d] = player_id'[e] => d = e
    BY <2>1, <2>2, <2>3 DEF EachPlayerHasOneSession
  <2>6. QED
    BY <2>4, <2>5 DEF EachPlayerHasOneSession
<1>2. ASSUME NEW c \in Connections, RemovePlayer(c)
      PROVE  EachPlayerHasOneSession'
  <2>1. Admitted' = Admitted \ {player_id[c]} /\ player_id' = player_id
    BY <1>2 DEF RemovePlayer, remove_player, Admitted
  <2>2. /\ HoldsPlayer(c)
        /\ \A d \in Connections : HoldsPlayer(d)' <=> HoldsPlayer(d) /\ d # c
    BY <1>2 DEF RemovePlayer, Goto, HoldsPlayer, Typed
  <2>3. \A d \in Connections : HoldsPlayer(d) /\ d # c => player_id[d] # player_id[c]
    BY <2>2 DEF EachPlayerHasOneSession
  <2>4. Admitted' = {player_id'[d] : d \in {e \in Connections : HoldsPlayer(e)'}}
    BY <2>1, <2>2, <2>3 DEF EachPlayerHasOneSession
  <2>5. \A d, e \in Connections :
            HoldsPlayer(d)' /\ HoldsPlayer(e)' /\ player_id'[d] = player_id'[e] => d = e
    BY <2>1, <2>2 DEF EachPlayerHasOneSession
  <2>6. QED
    BY <2>4, <2>5 DEF EachPlayerHasOneSession
<1>3. ASSUME NEW c \in Connections, Register(c)
      PROVE  EachPlayerHasOneSession'
  <2>1. Admitted' = Admitted
    BY <1>3, SamePlayers DEF Register
  <2>2. /\ ~HoldsPlayer(c) /\ \A d \in Connections : HoldsPlayer(d)' <=> HoldsPlayer(d)
        /\ \A d \in Connections : d # c => player_id'[d] = player_id[d]
    BY <1>3 DEF Register, HoldsPlayer, Typed
  <2>3. QED
    BY <2>1, <2>2, HoldersFrame
<1>4. ASSUME NEW c \in Connections,
             \/ RefuseDatagrams(c) \/ Refuse(c) \/ SendWelcome(c) \/ WelcomeFails(c)
             \/ Subscribe(c) \/ ReceiveMalformed(c) \/ SessionCloses(c)
      PROVE  EachPlayerHasOneSession'
  <2>1. Admitted' = Admitted /\ player_id' = player_id
    BY <1>4, SamePlayers DEF RefuseDatagrams, Refuse, SendWelcome, WelcomeFails, Subscribe,
                             ReceiveMalformed, SessionCloses
  <2>2. \A d \in Connections : HoldsPlayer(d)' <=> HoldsPlayer(d)
    <3>1. CASE RefuseDatagrams(c) \/ Refuse(c)
      BY <3>1 DEF RefuseDatagrams, Refuse, Goto, HoldsPlayer, Typed
    <3>2. CASE SendWelcome(c) \/ WelcomeFails(c) \/ Subscribe(c)
      BY <3>2 DEF SendWelcome, WelcomeFails, Subscribe, Goto, HoldsPlayer, Typed
    <3>3. CASE ReceiveMalformed(c) \/ SessionCloses(c)
      BY <3>3 DEF ReceiveMalformed, SessionCloses, Goto, HoldsPlayer, Typed
    <3>4. QED
      BY <1>4, <3>1, <3>2, <3>3
  <2>3. QED
    BY <2>1, <2>2, HoldersFrame
<1>5. ASSUME NEW c \in Connections,
             \/ ForwardSnapshot(c) \/ SkipLagged(c)
             \/ \E input \in up[c] : ReceiveInput(c, input)
             \/ Start(c) \/ SendInput(c) \/ Leave(c)
             \/ \E axis \in Axis : PressKeys(c, axis)
             \/ \E s \in down[c] : ReceiveSnapshot(c, s)
      PROVE  EachPlayerHasOneSession'
  <2>1. Admitted' = Admitted /\ UNCHANGED <<player_id, session>>
    BY <1>5, SamePlayers DEF ForwardSnapshot, SkipLagged, ReceiveInput, Start, SendInput,
                             Leave, PressKeys, ReceiveSnapshot
  <2>2. QED
    BY <2>1, HoldersFrame DEF HoldsPlayer
<1>6. CASE TickStep
  <2>1. Admitted' = Admitted /\ UNCHANGED <<player_id, session>>
    BY <1>6, SamePlayers
       DEF TickStep, TickAdvance, TickFails, advance_tick_exhausted, Broadcast
  <2>2. QED
    BY <2>1, HoldersFrame DEF HoldsPlayer
<1>7. CASE UNCHANGED vars
  BY <1>7, SamePlayers, HoldersFrame DEF HoldsPlayer, vars, world
<1>8. QED
  BY <1>1, <1>2, <1>3, <1>4, <1>5, <1>6, <1>7 DEF Next, SessionStep

-----------------------------------------------------------------------------

(* The intent the server holds is one the page has sent. *)

\* ServerHoldsWhatWasSent, for one connection.
Held(c) ==
    HoldsPlayer(c) =>
        LET p == players[player_id[c]]
        IN  /\ p.last_received_sequence = 0 => p.horizontal = 0
            /\ p.last_received_sequence # 0 =>
                   \E input \in up[c] : /\ input.sequence = p.last_received_sequence
                                        /\ input.horizontal = p.horizontal

\* A step that leaves a player's received intent alone keeps it one that was sent:
\* datagrams are never taken back.
LEMMA HeldFrame ==
    ASSUME NEW d \in Connections, Held(d),
           HoldsPlayer(d)' => HoldsPlayer(d),
           up[d] \subseteq up'[d],
           HoldsPlayer(d) /\ HoldsPlayer(d)' =>
               /\ player_id'[d] = player_id[d]
               /\ players'[player_id[d]].last_received_sequence
                      = players[player_id[d]].last_received_sequence
               /\ players'[player_id[d]].horizontal = players[player_id[d]].horizontal
    PROVE  Held(d)'
BY DEF Held

\* The player of a task that holds one is in the world.
LEMMA HolderAdmitted ==
    ASSUME EachPlayerHasOneSession, NEW d \in Connections, HoldsPlayer(d)
    PROVE  player_id[d] \in Admitted
BY DEF EachPlayerHasOneSession

\* Every step keeps it so: an input reaches only the player of the connection it came
\* on, for no other task holds that player.
LEMMA NextHeld ==
    ASSUME Typed, \A e \in Connections : Held(e), EachPlayerHasOneSession, [Next]_vars,
           NEW d \in Connections
    PROVE  Held(d)'
<1> USE DEF registration, channel, client, world
<1>1. CASE UNCHANGED vars
  BY <1>1, HeldFrame DEF vars, HoldsPlayer
<1>2. CASE TickAdvance
  <2>1. /\ players' = [p \in Admitted |-> Stepped(players[p])]
        /\ UNCHANGED <<session, player_id, up>>
    BY <1>2 DEF TickAdvance, advance_tick
  <2>2. ASSUME HoldsPlayer(d)
        PROVE  /\ players'[player_id[d]].last_received_sequence
                      = players[player_id[d]].last_received_sequence
               /\ players'[player_id[d]].horizontal = players[player_id[d]].horizontal
    <3>1. player_id[d] \in Admitted /\ players[player_id[d]] \in PlayerRecord
      BY <2>2, HolderAdmitted DEF Typed, WorldTypeOK
    <3>2. QED
      BY <2>1, <3>1, SteppedRecord
  <2>3. QED
    BY <2>1, <2>2, HeldFrame DEF HoldsPlayer
<1>3. CASE TickFails \/ Broadcast
  BY <1>3, HeldFrame DEF TickFails, advance_tick_exhausted, Broadcast, HoldsPlayer
<1>4. ASSUME NEW c \in Connections, Register(c)
      PROVE  Held(d)'
  <2>1. /\ UNCHANGED <<tick, players, up>>
        /\ d # c => session'[d] = session[d] /\ player_id'[d] = player_id[d]
        /\ d = c => ~HoldsPlayer(d)'
    BY <1>4 DEF Register, HoldsPlayer, Typed
  <2>2. QED
    BY <2>1, HeldFrame DEF HoldsPlayer
<1>5. ASSUME NEW c \in Connections, Admit(c)
      PROVE  Held(d)'
  <2>1. /\ UNCHANGED <<player_id, up>>
        /\ players' = [p \in Admitted \cup {player_id[c]} |->
                           IF p = player_id[c] THEN NewPlayer(player_id[c]) ELSE players[p]]
        /\ player_id[c] \notin Admitted
    BY <1>5 DEF Admit, add_player, CanAdd
  <2>2. CASE d = c
    <3>1. player_id[c] \in PlayerIds
      BY DEF Typed
    <3>2. /\ players'[player_id[c]].last_received_sequence = 0
          /\ players'[player_id[c]].horizontal = 0
      BY <2>1, <3>1, NewPlayerRecord
    <3>3. QED
      BY <2>1, <2>2, <3>2 DEF Held
  <2>3. CASE d # c
    <3>1. session'[d] = session[d]
      BY <1>5, <2>3 DEF Admit, Goto, Typed
    <3>2. HoldsPlayer(d) => players'[player_id[d]] = players[player_id[d]]
      BY <2>1, HolderAdmitted
    <3>3. QED
      BY <2>1, <3>1, <3>2, HeldFrame DEF HoldsPlayer
  <2>4. QED
    BY <2>2, <2>3
<1>6. ASSUME NEW c \in Connections, RemovePlayer(c)
      PROVE  Held(d)'
  <2>1. /\ UNCHANGED <<player_id, up>>
        /\ players' = [p \in Admitted \ {player_id[c]} |-> players[p]]
        /\ HoldsPlayer(c) /\ ~HoldsPlayer(c)'
        /\ d # c => session'[d] = session[d]
    BY <1>6 DEF RemovePlayer, remove_player, Goto, HoldsPlayer, Typed
  <2>2. d # c /\ HoldsPlayer(d) => players'[player_id[d]] = players[player_id[d]]
    BY <2>1, HolderAdmitted DEF EachPlayerHasOneSession
  <2>3. QED
    BY <2>1, <2>2, HeldFrame DEF HoldsPlayer
<1>7. ASSUME NEW c \in Connections,
             \/ RefuseDatagrams(c) \/ Refuse(c) \/ SendWelcome(c) \/ WelcomeFails(c)
             \/ Subscribe(c) \/ ReceiveMalformed(c) \/ SessionCloses(c)
      PROVE  Held(d)'
  <2>1. UNCHANGED <<tick, players, player_id, up>>
    BY <1>7 DEF RefuseDatagrams, Refuse, add_player_error, SendWelcome, WelcomeFails,
                Subscribe, ReceiveMalformed, SessionCloses
  <2>2. HoldsPlayer(d)' => HoldsPlayer(d)
    <3>1. CASE RefuseDatagrams(c) \/ Refuse(c)
      BY <3>1 DEF RefuseDatagrams, Refuse, Goto, HoldsPlayer, Typed
    <3>2. CASE SendWelcome(c) \/ WelcomeFails(c) \/ Subscribe(c)
      BY <3>2 DEF SendWelcome, WelcomeFails, Subscribe, Goto, HoldsPlayer, Typed
    <3>3. CASE ReceiveMalformed(c) \/ SessionCloses(c)
      BY <3>3 DEF ReceiveMalformed, SessionCloses, Goto, HoldsPlayer, Typed
    <3>4. QED
      BY <1>7, <3>1, <3>2, <3>3
  <2>3. QED
    BY <2>1, <2>2, HeldFrame
<1>8. ASSUME NEW c \in Connections, NEW input \in up[c], ReceiveInput(c, input)
      PROVE  Held(d)'
  <2>1. UNCHANGED <<session, player_id, up>> /\ HoldsPlayer(c)
    BY <1>8 DEF ReceiveInput, HoldsPlayer
  <2>2. CASE submit_input_ignored(player_id[c], input)
    BY <2>1, <2>2, HeldFrame DEF submit_input_ignored, HoldsPlayer
  <2>3. CASE submit_input(player_id[c], input)
    <3>1. /\ player_id[c] \in Admitted
          /\ input.sequence # 0
          /\ players' = [players EXCEPT
                             ![player_id[c]].horizontal = input.horizontal,
                             ![player_id[c]].vertical = input.vertical,
                             ![player_id[c]].last_received_sequence = input.sequence]
          /\ players \in [Admitted -> PlayerRecord]
      BY <2>3 DEF submit_input, Fresh, validate_input, Typed, WorldTypeOK
    <3>2. CASE d = c
      <4>1. /\ players'[player_id[c]].horizontal = input.horizontal
            /\ players'[player_id[c]].last_received_sequence = input.sequence
        BY <3>1 DEF PlayerRecord
      <4>2. QED
        BY <2>1, <3>1, <3>2, <4>1 DEF Held
    <3>3. CASE d # c
      <4>1. HoldsPlayer(d) => player_id[d] # player_id[c] /\ player_id[d] \in Admitted
        BY <2>1, <3>3, HolderAdmitted DEF EachPlayerHasOneSession
      <4>2. HoldsPlayer(d) => players'[player_id[d]] = players[player_id[d]]
        BY <3>1, <4>1
      <4>3. QED
        BY <2>1, <4>2, HeldFrame DEF HoldsPlayer
    <3>4. QED
      BY <3>2, <3>3
  <2>4. QED
    BY <1>8, <2>2, <2>3 DEF ReceiveInput
<1>9. ASSUME NEW c \in Connections,
             \/ ForwardSnapshot(c) \/ SkipLagged(c)
             \/ Start(c) \/ SendInput(c) \/ Leave(c)
             \/ \E axis \in Axis : PressKeys(c, axis)
             \/ \E s \in down[c] : ReceiveSnapshot(c, s)
      PROVE  Held(d)'
  <2>1. /\ UNCHANGED <<tick, players, player_id, session>> /\ up[d] \subseteq up'[d]
    BY <1>9 DEF ForwardSnapshot, SkipLagged, Start, SendInput, Leave, PressKeys,
                ReceiveSnapshot, Typed
  <2>2. QED
    BY <2>1, HeldFrame DEF HoldsPlayer
<1>10. QED
  BY <1>1, <1>2, <1>3, <1>4, <1>5, <1>6, <1>7, <1>8, <1>9 DEF Next, TickStep, SessionStep

-----------------------------------------------------------------------------

(* The theorems about every session, whether or not the page's sequence wraps. *)

\* The initial state satisfies the invariant.
LEMMA InitWebInv == Init => WebInv
<1> SUFFICES ASSUME Init PROVE WebInv
  OBVIOUS
<1>1. Typed
  BY InitTyped
<1>2. \A c \in Connections : Course(c)
  BY DEF Init, Course, HoldsPlayer, AtMostOne, Timeline!NewTimeline
<1>3. ChannelInv
  BY DEF Init, ChannelInv, AtMostOne
<1>4. EachPlayerHasOneSession /\ ServerHoldsWhatWasSent
  BY DEF Init, WorldInit, Admitted, HoldsPlayer, EachPlayerHasOneSession, ServerHoldsWhatWasSent
<1>5. QED
  BY <1>1, <1>2, <1>3, <1>4 DEF WebInv

\* Every step of the system preserves it.
LEMMA NextWebInv == WebInv /\ [Next]_vars => WebInv'
<1> SUFFICES ASSUME WebInv, [Next]_vars PROVE WebInv'
  OBVIOUS
<1>1. /\ Typed /\ ChannelInv /\ EachPlayerHasOneSession
      /\ \A c \in Connections : Course(c)
      /\ \A c \in Connections : Held(c)
  BY DEF WebInv, ServerHoldsWhatWasSent, Held
<1>2. Typed' /\ ChannelInv' /\ EachPlayerHasOneSession'
  BY <1>1, NextTyped, NextChannel, NextOneSession
<1>3. \A c \in Connections : Course(c)'
  BY <1>1, NextCourse
<1>4. \A c \in Connections : Held(c)'
  BY <1>1, NextHeld
<1>5. ServerHoldsWhatWasSent'
  BY <1>4 DEF ServerHoldsWhatWasSent, Held
<1>6. QED
  BY <1>2, <1>3, <1>5 DEF WebInv

\* The inductive invariant of the browser path.
THEOREM WebInvariant == Spec => []WebInv
BY InitWebInv, NextWebInv, PTL DEF Spec

\* The world holds exactly the players of the tasks between admission and removal, one
\* each, for any number of connections and any size of the identity space.
THEOREM OneTaskEach == Spec => []EachPlayerHasOneSession
<1>1. WebInv => EachPlayerHasOneSession
  BY DEF WebInv
<1>2. QED
  BY <1>1, WebInvariant, PTL

\* Whatever the network loses, repeats or reorders, the intent the server holds for a
\* page is one that page sent, under the sequence it was sent with.
THEOREM HeldIntentsWereSent == Spec => []ServerHoldsWhatWasSent
<1>1. WebInv => ServerHoldsWhatWasSent
  BY DEF WebInv
<1>2. QED
  BY <1>1, WebInvariant, PTL

\* The tick of what a set of at most one snapshot shows.
TickOf(S) == IF S = {} THEN -1 ELSE (CHOOSE s \in S : TRUE).tick

\* A page's shown snapshot changes only when it leaves or when a newer one arrives.
LEMMA ShownStep ==
    ASSUME WebInv, [Next]_vars, NEW c \in Connections, page'[c] = "playing"
    PROVE  \/ timeline'[c].current = timeline[c].current
           \/ \E s \in down[c] : /\ timeline'[c].current = {s}
                                 /\ \A x \in timeline[c].current : ~(s.tick <= x.tick)
<1> USE DEF registration, channel, client
<1>1. Typed /\ Course(c) /\ timeline[c] \in Presentation
  BY DEF WebInv, Typed
<1>2. CASE UNCHANGED timeline
  BY <1>2
<1>3. ASSUME NEW d \in Connections, Start(d)
      PROVE  timeline'[c].current = timeline[c].current
  BY <1>1, <1>3 DEF Start, Course, Typed
<1>4. ASSUME NEW d \in Connections, Leave(d)
      PROVE  timeline'[c].current = timeline[c].current
  BY <1>1, <1>4 DEF Leave, Typed
<1>5. ASSUME NEW d \in Connections, SendInput(d)
      PROVE  timeline'[c].current = timeline[c].current
  <2> DEFINE input == [sequence |-> nextSequence(sequence[d]),
                       horizontal |-> horizontal[d], vertical |-> 0]
  <2>1. timeline' = [timeline EXCEPT ![d] = Timeline!recordInput(timeline[d], input)]
    BY <1>5 DEF SendInput
  <2> HIDE DEF input
  <2>2. QED
    BY <1>1, <2>1, RecordInputShows DEF Typed
<1>6. ASSUME NEW d \in Connections, NEW s \in down[d], ReceiveSnapshot(d, s)
      PROVE  \/ timeline'[c].current = timeline[c].current
             \/ \E x \in down[c] : /\ timeline'[c].current = {x}
                                   /\ \A y \in timeline[c].current : ~(x.tick <= y.tick)
  <2>1. timeline' = [timeline EXCEPT ![d] =
                        Timeline!acceptSnapshot(timeline[d], s, player_id[d])]
    BY <1>6 DEF ReceiveSnapshot
  <2>2. CASE d # c
    BY <1>1, <2>1, <2>2 DEF Typed
  <2>3. CASE d = c
    <3>1. timeline'[c] = Timeline!acceptSnapshot(timeline[c], s, player_id[c])
      BY <1>1, <2>1, <2>3 DEF Typed
    <3>2. \/ Timeline!acceptSnapshot(timeline[c], s, player_id[c]) = timeline[c]
          \/ /\ \A x \in timeline[c].current : ~(s.tick <= x.tick)
             /\ Timeline!acceptSnapshot(timeline[c], s, player_id[c]).current = {s}
      BY <1>1, AcceptSnapshotShows
    <3>3. QED
      BY <2>3, <3>1, <3>2
  <2>4. QED
    BY <2>2, <2>3
<1>7. UNCHANGED timeline
      \/ \E d \in Connections : \/ Start(d) \/ Leave(d) \/ SendInput(d)
                                \/ \E s \in down[d] : ReceiveSnapshot(d, s)
  <2>1. CASE UNCHANGED vars
    BY <2>1 DEF vars
  <2>2. CASE TickStep
    BY <2>2 DEF TickStep, TickAdvance, TickFails, Broadcast
  <2>3. ASSUME NEW d \in Connections,
               \/ SessionStep(d) \/ RefuseDatagrams(d) \/ ReceiveMalformed(d)
               \/ \E input \in up[d] : ReceiveInput(d, input)
               \/ \E axis \in Axis : PressKeys(d, axis)
        PROVE  UNCHANGED timeline
    BY <2>3 DEF SessionStep, Register, Admit, Refuse, SendWelcome, WelcomeFails, Subscribe,
                ForwardSnapshot, SkipLagged, SessionCloses, RemovePlayer, RefuseDatagrams,
                ReceiveMalformed, ReceiveInput, PressKeys
  <2>4. QED
    BY <2>1, <2>2, <2>3 DEF Next
<1>8. QED
  BY <1>2, <1>3, <1>4, <1>5, <1>6, <1>7

\* The page follows the canonical ticks: what it shows is replaced, while it plays, only
\* by a newer state that the server has really reached.
THEOREM PageFollowsTicks == Spec => FollowsCanonicalTicks
<1>1. WebInv /\ [Next]_vars =>
          [\A c \in Connections :
               HeldTick(c)' # HeldTick(c) /\ page'[c] = "playing" =>
                   HeldTick(c)' \in (HeldTick(c) + 1)..tick]_vars
  <2> SUFFICES ASSUME WebInv, [Next]_vars, NEW c \in Connections,
                      HeldTick(c)' # HeldTick(c), page'[c] = "playing"
               PROVE  HeldTick(c)' \in (HeldTick(c) + 1)..tick
    OBVIOUS
  <2>1. HeldTick(c) = TickOf(timeline[c].current) /\ HeldTick(c)' = TickOf(timeline'[c].current)
    BY DEF HeldTick, TickOf
  <2>2. PICK s \in down[c] : /\ timeline'[c].current = {s}
                             /\ \A x \in timeline[c].current : ~(s.tick <= x.tick)
    BY <2>1, ShownStep
  <2>3. HeldTick(c)' = s.tick
    <3>1. AtMostOne({s}) /\ s \in {s}
      BY DEF AtMostOne
    <3>2. (CHOOSE y \in {s} : TRUE) = s
      BY <3>1, TheOne
    <3>3. QED
      BY <2>1, <2>2, <3>2 DEF TickOf
  <2>4. /\ Typed /\ Course(c) /\ ChannelInv
        /\ s \in Snapshot /\ s.tick \in Nat /\ s.tick <= tick /\ tick \in Nat
    BY DEF WebInv, Typed, WorldTypeOK, ChannelInv, Snapshot
  <2>5. CASE timeline[c].current = {}
    BY <2>1, <2>3, <2>4, <2>5 DEF TickOf
  <2>6. ASSUME NEW x \in timeline[c].current
        PROVE  HeldTick(c)' \in (HeldTick(c) + 1)..tick
    <3>1. HeldTick(c) = x.tick
      BY <2>1, <2>4, TheOne DEF TickOf, Course
    <3>2. x.tick \in Nat
      BY <2>4 DEF Course, Typed, Snapshot
    <3>3. QED
      BY <2>2, <2>3, <2>4, <3>1, <3>2
  <2>7. QED
    BY <2>5, <2>6
<1>2. QED
  BY <1>1, WebInvariant, PTL DEF Spec, FollowsCanonicalTicks

-----------------------------------------------------------------------------

(* What a page has sent, as long as its sequence does not wrap. *)

\* Every step keeps a page's sequences complete: the one it sends next is the successor.
LEMMA NextNumbers ==
    ASSUME NoWrap, Typed, \A e \in Connections : Course(e), \A e \in Connections : Numbers(e),
           [Next]_vars, NEW d \in Connections
    PROVE  Numbers(d)'
<1> USE DEF registration, channel, client
<1>1. CASE UNCHANGED vars
  BY <1>1 DEF vars, Numbers
<1>2. CASE TickStep
  BY <1>2 DEF TickStep, TickAdvance, TickFails, Broadcast, Numbers
<1>3. ASSUME NEW c \in Connections,
             \/ SessionStep(c) \/ RefuseDatagrams(c) \/ ReceiveMalformed(c)
             \/ \E input \in up[c] : ReceiveInput(c, input)
             \/ \E axis \in Axis : PressKeys(c, axis)
             \/ \E s \in down[c] : ReceiveSnapshot(c, s)
      PROVE  Numbers(d)'
  <2>1. UNCHANGED <<page, up, sequence>>
    BY <1>3 DEF SessionStep, Register, Admit, Refuse, SendWelcome, WelcomeFails, Subscribe,
                ForwardSnapshot, SkipLagged, SessionCloses, RemovePlayer, RefuseDatagrams,
                ReceiveMalformed, ReceiveInput, PressKeys, ReceiveSnapshot
  <2>2. QED
    BY <2>1 DEF Numbers
<1>4. ASSUME NEW c \in Connections, Start(c)
      PROVE  Numbers(d)'
  <2>1. page[d] # "left" \/ page'[d] = page[d]
    BY <1>4 DEF Start, Typed
  <2>2. UNCHANGED <<up, sequence>>
    BY <1>4 DEF Start
  <2>3. QED
    BY <2>1, <2>2 DEF Numbers
<1>5. ASSUME NEW c \in Connections, Leave(c)
      PROVE  Numbers(d)'
  <2>1. CASE d = c
    BY <1>5, <2>1 DEF Leave, Numbers, Typed
  <2>2. CASE d # c
    BY <1>5, <2>2 DEF Leave, Numbers, Typed
  <2>3. QED
    BY <2>1, <2>2
<1>6. ASSUME NEW c \in Connections, SendInput(c)
      PROVE  Numbers(d)'
  <2> DEFINE input == [sequence |-> nextSequence(sequence[c]),
                       horizontal |-> horizontal[c], vertical |-> 0]
  <2>1. /\ page[c] = "playing" /\ page' = page
        /\ sequence[c] # LastSequence
        /\ sequence' = [sequence EXCEPT ![c] = input.sequence]
        /\ up' = [up EXCEPT ![c] = up[c] \cup {input}]
    BY <1>6 DEF SendInput
  <2>2. CASE d # c
    BY <2>1, <2>2 DEF Numbers, Typed
  <2>3. CASE d = c
    <3>1. sequence[c] \in Nat /\ sequence[c] < LastSequence /\ LastSequence <= MaxSequence
      BY <2>1, AdapterAssumption DEF NoWrap, Numbers, Typed
    <3>2. input.sequence = sequence[c] + 1
      BY <3>1, AdapterAssumption DEF nextSequence
    <3> HIDE DEF input
    <3>3. sequence'[c] = sequence[c] + 1 /\ up'[c] = up[c] \cup {input}
      BY <2>1, <3>2 DEF Typed
    <3>4. \A i \in up'[c] : i.sequence <= sequence'[c]
      <4>1. \A i \in up[c] : i.sequence \in Nat /\ i.sequence <= sequence[c]
        BY <2>1 DEF Numbers, Typed, Sent
      <4>2. QED
        BY <3>1, <3>2, <3>3, <4>1
    <3>5. ASSUME NEW n \in 1..sequence'[c]
          PROVE  \E i \in up'[c] : i.sequence = n
      <4>1. CASE n = sequence[c] + 1
        BY <3>2, <3>3, <4>1
      <4>2. CASE n # sequence[c] + 1
        <5>1. n \in 1..sequence[c]
          BY <3>1, <3>3, <4>2
        <5>2. \E i \in up[c] : i.sequence = n
          BY <2>1, <5>1 DEF Numbers
        <5>3. QED
          BY <3>3, <5>2
      <4>3. QED
        BY <4>1, <4>2
    <3>6. sequence'[c] <= LastSequence
      BY <3>1, <3>3, AdapterAssumption
    <3>7. QED
      BY <2>3, <3>4, <3>5, <3>6 DEF Numbers
  <2>4. QED
    BY <2>2, <2>3
<1>7. QED
  BY <1>1, <1>2, <1>3, <1>4, <1>5, <1>6 DEF Next

-----------------------------------------------------------------------------

(* Whose players the snapshots show. *)

\* The snapshots the server has made that some page may have or still get.
Known == ticker.encoded \cup newest \cup UNION {down[c] : c \in Connections}

\* Only its registration gives a connection an identity, and only once.
LEMMA IdentityStep ==
    ASSUME Typed, \A e \in Connections : Course(e), [Next]_vars, NEW d \in Connections
    PROVE  \/ player_id'[d] = player_id[d]
           \/ player_id[d] = 0 /\ Register(d)
<1>1. ASSUME NEW c \in Connections, Register(c)
      PROVE  \/ player_id'[d] = player_id[d]
             \/ player_id[d] = 0 /\ Register(d)
  BY <1>1 DEF Register, Course, Typed
<1>2. UNCHANGED player_id \/ \E c \in Connections : Register(c)
  <2>1. CASE UNCHANGED vars
    BY <2>1 DEF vars
  <2>2. CASE TickStep
    BY <2>2 DEF TickStep, TickAdvance, TickFails, Broadcast, registration
  <2>3. ASSUME NEW c \in Connections,
               \/ SessionStep(c) \/ RefuseDatagrams(c) \/ ReceiveMalformed(c)
               \/ \E input \in up[c] : ReceiveInput(c, input)
        PROVE  UNCHANGED player_id \/ Register(c)
    BY <2>3 DEF SessionStep, Admit, Refuse, SendWelcome, WelcomeFails, Subscribe,
                ForwardSnapshot, SkipLagged, SessionCloses, RemovePlayer, RefuseDatagrams,
                ReceiveMalformed, ReceiveInput, registration
  <2>4. ASSUME NEW c \in Connections,
               \/ Start(c) \/ SendInput(c) \/ Leave(c)
               \/ \E axis \in Axis : PressKeys(c, axis)
               \/ \E s \in down[c] : ReceiveSnapshot(c, s)
        PROVE  UNCHANGED player_id
    BY <2>4 DEF Start, SendInput, Leave, PressKeys, ReceiveSnapshot, registration
  <2>5. QED
    BY <2>1, <2>2, <2>3, <2>4 DEF Next
<1>3. QED
  BY <1>1, <1>2

\* A connection that keeps its identity and has it to itself after a step had it to
\* itself before.
LEMMA OwnIdentityBefore ==
    ASSUME Typed, \A e \in Connections : Course(e), [Next]_vars, NEW d \in Connections,
           OwnIdentity(d)', player_id[d] # 0
    PROVE  player_id'[d] = player_id[d] /\ OwnIdentity(d)
<1>1. \A e \in Connections : player_id'[e] = player_id[e] \/ player_id[e] = 0
  BY IdentityStep
<1>2. QED
  BY <1>1 DEF OwnIdentity

\* A tick adds one snapshot to those there are; no other step adds any.
LEMMA KnownStep ==
    ASSUME Typed, [Next]_vars
    PROVE  TickAdvance \/ Known' \subseteq Known
<1> USE DEF registration, channel, client
<1>1. CASE UNCHANGED vars
  BY <1>1 DEF vars, Known
<1>2. CASE TickFails \/ Broadcast
  BY <1>2 DEF TickFails, Broadcast, Known
<1>3. ASSUME NEW c \in Connections, ForwardSnapshot(c)
      PROVE  Known' \subseteq Known
  <2>1. down' = [down EXCEPT ![c] = down[c] \cup newest] /\ UNCHANGED <<ticker, newest>>
    BY <1>3 DEF ForwardSnapshot
  <2>2. \A d \in Connections : down'[d] \subseteq down[d] \cup newest
    BY <2>1 DEF Typed
  <2>3. QED
    BY <2>1, <2>2 DEF Known
<1>4. ASSUME NEW c \in Connections,
             \/ RefuseDatagrams(c) \/ Register(c) \/ Admit(c) \/ Refuse(c) \/ SendWelcome(c)
             \/ WelcomeFails(c) \/ Subscribe(c) \/ ReceiveMalformed(c) \/ SkipLagged(c)
             \/ SessionCloses(c) \/ RemovePlayer(c)
      PROVE  UNCHANGED <<ticker, newest, down>>
  BY <1>4 DEF RefuseDatagrams, Register, Admit, Refuse, SendWelcome, WelcomeFails, Subscribe,
              ReceiveMalformed, SkipLagged, SessionCloses, RemovePlayer
<1>5. ASSUME NEW c \in Connections,
             \/ \E input \in up[c] : ReceiveInput(c, input)
             \/ Start(c) \/ SendInput(c) \/ Leave(c)
             \/ \E axis \in Axis : PressKeys(c, axis)
             \/ \E s \in down[c] : ReceiveSnapshot(c, s)
      PROVE  UNCHANGED <<ticker, newest, down>>
  BY <1>5 DEF ReceiveInput, Start, SendInput, Leave, PressKeys, ReceiveSnapshot
<1>6. UNCHANGED <<ticker, newest, down>> => Known' \subseteq Known
  BY DEF Known
<1>7. QED
  BY <1>1, <1>2, <1>3, <1>4, <1>5, <1>6 DEF Next, TickStep, SessionStep

\* Every step keeps the identities in snapshots ones that were given.
LEMMA NextIdentities ==
    ASSUME Typed, \A e \in Connections : Course(e), EachPlayerHasOneSession, Identities,
           [Next]_vars
    PROVE  Identities'
<1>1. \A s \in Known : \A id \in DOMAIN s.players :
          id # 0 /\ \E d \in Connections : id = player_id[d]
  <2>1. Known \subseteq Snapshot
    BY DEF Known, Typed
  <2>2. QED
    BY <2>1, SnapshotPlayers DEF Identities, Known
<1>2. \A d \in Connections : player_id'[d] = player_id[d] \/ player_id[d] = 0
  BY IdentityStep
<1>3. \A s \in Known : \A id \in DOMAIN s.players : \E d \in Connections : id = player_id'[d]
  BY <1>1, <1>2
<1>4. CASE Known' \subseteq Known
  BY <1>3, <1>4 DEF Identities, Known
<1>5. CASE TickAdvance
  <2>1. PICK s : ticker' = [at |-> "send", encoded |-> {s}] /\ DOMAIN s.players = Admitted'
    BY <1>5, TickAdvanceEffect
  <2>2. Admitted' = Admitted /\ UNCHANGED <<newest, down, player_id>>
    BY <1>5, SamePlayers DEF TickAdvance, registration
  <2>3. Known' \subseteq Known \cup {s}
    BY <2>1, <2>2 DEF Known
  <2>4. \A id \in Admitted : \E d \in Connections : id = player_id[d]
    BY DEF EachPlayerHasOneSession
  <2>5. QED
    BY <1>3, <2>1, <2>2, <2>3, <2>4 DEF Identities, Known
<1>6. QED
  BY <1>4, <1>5, KnownStep

-----------------------------------------------------------------------------

(* What the snapshots on their way to a page acknowledge. *)

\* A snapshot in flight is one of those there are.
LEMMA InFlightKnown ==
    ASSUME NEW d \in Connections
    PROVE  InFlight(d) \subseteq Known
BY DEF InFlight, Known

\* A step that adds nothing in flight to a page, and takes back neither what the server
\* has applied for it nor what it has sent, keeps its acknowledgements in order.
LEMMA AcknowledgesFrame ==
    ASSUME Typed, Typed', NEW d \in Connections, AcknowledgesInOrder(d),
           EachPlayerHasOneSession,
           OwnIdentity(d)' => OwnIdentity(d),
           player_id'[d] = player_id[d],
           InFlight(d)' \subseteq InFlight(d),
           session[d] \notin {"none", "registered"} => session'[d] \notin {"none", "registered"},
           HoldsPlayer(d)' =>
               \/ session[d] \in {"none", "registered"}
               \/ /\ HoldsPlayer(d)
                  /\ players'[player_id[d]].last_applied_sequence
                         = players[player_id[d]].last_applied_sequence,
           page'[d] # "left" => page[d] # "left" /\ sequence[d] <= sequence'[d]
    PROVE  AcknowledgesInOrder(d)'
<1> SUFFICES ASSUME OwnIdentity(d)', player_id'[d] # 0, NEW s \in InFlight(d)',
                    player_id[d] \in DOMAIN s.players
             PROVE  /\ session'[d] \notin {"none", "registered"}
                    /\ HoldsPlayer(d)' =>
                           Acknowledges(s, d) <= players'[player_id[d]].last_applied_sequence
                    /\ page'[d] # "left" => Acknowledges(s, d) <= sequence'[d]
                    /\ \A t \in InFlight(d)' :
                           s.tick < t.tick =>
                               Shows(t, d) /\ Acknowledges(s, d) <= Acknowledges(t, d)
  BY DEF AcknowledgesInOrder, Shows, Acknowledges
<1>1. /\ session[d] \notin {"none", "registered"}
      /\ HoldsPlayer(d) =>
             Acknowledges(s, d) <= players[player_id[d]].last_applied_sequence
      /\ page[d] # "left" => Acknowledges(s, d) <= sequence[d]
      /\ \A t \in InFlight(d) :
             s.tick < t.tick => Shows(t, d) /\ Acknowledges(s, d) <= Acknowledges(t, d)
  BY DEF AcknowledgesInOrder, Shows
<1>2. Acknowledges(s, d) \in Nat /\ sequence[d] \in Nat /\ sequence'[d] \in Nat
  <2>1. s \in Snapshot
    BY InFlightKnown DEF Known, Typed
  <2>2. QED
    BY <2>1, SnapshotPlayers DEF Acknowledges, Typed
<1>3. page'[d] # "left" => Acknowledges(s, d) <= sequence'[d]
  BY <1>1, <1>2
<1>4. QED
  BY <1>1, <1>3

\* The tick: what the new snapshot acknowledges to a page that may get it is what the
\* server has received from that page, and no less than it ever acknowledged before.
LEMMA TickAdvanceAcknowledges ==
    ASSUME NoWrap, WebInv, PageInv, TickAdvance, NEW d \in Connections
    PROVE  AcknowledgesInOrder(d)'
<1> DEFINE id == player_id[d]
<1>1. /\ Typed /\ Course(d) /\ ChannelInv /\ EachPlayerHasOneSession /\ ServerHoldsWhatWasSent
      /\ Numbers(d) /\ AcknowledgesInOrder(d)
  BY DEF WebInv, PageInv
<1>2. PICK new \in Snapshot :
          /\ ticker' = [at |-> "send", encoded |-> {new}]
          /\ new.tick = tick'
          /\ DOMAIN new.players = Admitted'
          /\ \A p \in Admitted' :
                new.players[p].last_applied_sequence = players'[p].last_applied_sequence
  BY <1>1, TickAdvanceEffect
<1>3. /\ ticker.at = "tick" /\ tick \in Nat /\ tick' = tick + 1
      /\ players' = [p \in Admitted |-> Stepped(players[p])] /\ Admitted' = Admitted
      /\ UNCHANGED <<session, player_id, newest, unread, down, up, page, sequence>>
  BY <1>1, TickAdvanceEffect, SamePlayers
     DEF TickAdvance, advance_tick, registration, client, Typed, WorldTypeOK
<1>4. ticker.encoded = {}
  BY <1>1, <1>3 DEF ChannelInv
<1>5. /\ InFlight(d)' \subseteq InFlight(d) \cup {new}
      /\ new \in InFlight(d)' => session[d] \notin {"removing", "gone"} \/ new \in InFlight(d)
  BY <1>2, <1>3, <1>4 DEF InFlight
<1>6. \A x \in InFlight(d) : x \in Snapshot /\ x.tick \in Nat /\ x.tick <= tick
  <2>1. \A x \in InFlight(d) : x \in newest \/ x \in down[d]
    BY <1>4 DEF InFlight
  <2>2. QED
    BY <1>1, <2>1 DEF ChannelInv, Typed, Snapshot
<1>7. new \notin InFlight(d) /\ new.tick = tick + 1
  BY <1>2, <1>3, <1>6
<1>8. ASSUME HoldsPlayer(d)
      PROVE  /\ id \in Admitted
             /\ players[id].last_applied_sequence \in Nat
             /\ players[id].last_received_sequence \in Nat
             /\ players[id].last_applied_sequence <= players[id].last_received_sequence
             /\ players'[id].last_applied_sequence = players[id].last_received_sequence
             /\ page[d] # "left" => players[id].last_received_sequence <= sequence[d]
  <2>1. id \in Admitted /\ players[id] \in PlayerRecord
        /\ players[id].last_applied_sequence <= players[id].last_received_sequence
    BY <1>1, <1>8, HolderAdmitted DEF Typed, WorldTypeOK
  <2>2. players'[id].last_applied_sequence = players[id].last_received_sequence
    BY <1>3, <2>1, SteppedRecord
  <2>3. page[d] # "left" => players[id].last_received_sequence <= sequence[d]
    <3>1. sequence[d] \in Nat
      BY <1>1 DEF Typed
    <3>2. players[id].last_received_sequence # 0 =>
              \E input \in up[d] : input.sequence = players[id].last_received_sequence
      BY <1>1, <1>8 DEF ServerHoldsWhatWasSent
    <3>3. page[d] # "left" => \A input \in up[d] : input.sequence <= sequence[d]
      BY <1>1 DEF Numbers
    <3>4. QED
      BY <3>1, <3>2, <3>3
  <2>4. QED
    BY <2>1, <2>2, <2>3 DEF PlayerRecord
<1> SUFFICES ASSUME OwnIdentity(d), id # 0, NEW s \in InFlight(d)', id \in DOMAIN s.players
             PROVE  /\ session[d] \notin {"none", "registered"}
                    /\ HoldsPlayer(d) => Acknowledges(s, d) <= players'[id].last_applied_sequence
                    /\ page[d] # "left" => Acknowledges(s, d) <= sequence[d]
                    /\ \A t \in InFlight(d)' :
                           s.tick < t.tick =>
                               Shows(t, d) /\ Acknowledges(s, d) <= Acknowledges(t, d)
  BY <1>3 DEF AcknowledgesInOrder, Shows, Acknowledges, OwnIdentity, HoldsPlayer
<1>9. CASE s = new
  <2>1. HoldsPlayer(d)
    <3>1. PICK e \in Connections : HoldsPlayer(e) /\ id = player_id[e]
      BY <1>1, <1>2, <1>3, <1>9 DEF EachPlayerHasOneSession
    <3>2. e = d
      BY <3>1 DEF OwnIdentity
    <3>3. QED
      BY <3>1, <3>2
  <2>2. session[d] \notin {"none", "registered"}
    BY <2>1 DEF HoldsPlayer
  <2>3. Acknowledges(s, d) = players'[id].last_applied_sequence
    BY <1>2, <1>9 DEF Acknowledges
  <2>4. \A t \in InFlight(d)' : ~(s.tick < t.tick)
    <3>1. \A t \in InFlight(d) : ~(s.tick < t.tick)
      BY <1>3, <1>6, <1>7, <1>9
    <3>2. ~(s.tick < new.tick)
      BY <1>3, <1>7, <1>9
    <3>3. QED
      BY <1>5, <3>1, <3>2
  <2>5. QED
    BY <1>8, <2>1, <2>2, <2>3, <2>4
<1>10. CASE s \in InFlight(d)
  <2>1. /\ session[d] \notin {"none", "registered"}
        /\ HoldsPlayer(d) => Acknowledges(s, d) <= players[id].last_applied_sequence
        /\ page[d] # "left" => Acknowledges(s, d) <= sequence[d]
        /\ \A t \in InFlight(d) :
               s.tick < t.tick => Shows(t, d) /\ Acknowledges(s, d) <= Acknowledges(t, d)
    BY <1>1, <1>10 DEF AcknowledgesInOrder, Shows
  <2>2. Acknowledges(s, d) \in Nat
    BY <1>6, <1>10, SnapshotPlayers DEF Acknowledges
  <2>3. HoldsPlayer(d) => Acknowledges(s, d) <= players'[id].last_applied_sequence
    BY <1>8, <2>1, <2>2
  <2>4. new \in InFlight(d)' => HoldsPlayer(d)
    BY <1>1, <1>5, <1>7, <2>1 DEF HoldsPlayer, Typed, Sessions
  <2>5. new \in InFlight(d)' => Shows(new, d) /\ Acknowledges(s, d) <= Acknowledges(new, d)
    BY <1>2, <1>3, <1>8, <2>3, <2>4 DEF Shows, Acknowledges
  <2>6. QED
    BY <1>5, <2>1, <2>3, <2>5
<1>11. QED
  BY <1>5, <1>9, <1>10

\* A registration: no snapshot shows the identity just given, if no other connection
\* was ever given it.
LEMMA RegisterAcknowledges ==
    ASSUME WebInv, WebInv', PageInv, NEW c \in Connections, Register(c), NEW d \in Connections
    PROVE  AcknowledgesInOrder(d)'
<1>1. /\ Typed /\ Typed' /\ Course(c) /\ EachPlayerHasOneSession
      /\ Identities /\ AcknowledgesInOrder(d)
  BY DEF WebInv, PageInv
<1>2. /\ session[c] = "none" /\ player_id[c] = 0
      /\ session'[c] \in {"registered", "gone"}
      /\ \A e \in Connections \ {c} : player_id'[e] = player_id[e] /\ session'[e] = session[e]
      /\ UNCHANGED <<players, ticker, newest, unread, down, page, sequence>>
  BY <1>1 DEF Register, Course, Typed, world, channel, client
<1>3. CASE d = c
  <2>1. InFlight(c)' \subseteq Known
    <3>1. InFlight(c)' \subseteq down[c] \cup newest \cup ticker.encoded
      BY <1>2 DEF InFlight
    <3>2. QED
      BY <3>1 DEF Known
  <2>2. ASSUME OwnIdentity(c)', player_id'[c] # 0, NEW s \in InFlight(c)'
        PROVE  player_id'[c] \notin DOMAIN s.players
    <3>1. /\ \A id \in DOMAIN s.players : id # 0
          /\ \A id \in DOMAIN s.players : \E e \in Connections : id = player_id[e]
      <4>1. s \in Known /\ s \in Snapshot
        BY <1>1, <2>1 DEF Known, Typed
      <4>2. QED
        BY <1>1, <4>1, SnapshotPlayers DEF Identities, Known
    <3>2. QED
      BY <1>2, <2>2, <3>1 DEF OwnIdentity
  <2>3. QED
    BY <1>3, <2>2 DEF AcknowledgesInOrder, Shows
<1>4. CASE d # c
  <2>1. player_id'[d] = player_id[d] /\ session'[d] = session[d]
    BY <1>2, <1>4
  <2>2. CASE player_id[d] = 0
    BY <2>1, <2>2 DEF AcknowledgesInOrder
  <2>3. CASE player_id[d] # 0
    <3>1. OwnIdentity(d)' => OwnIdentity(d)
      BY <1>2, <2>3 DEF OwnIdentity
    <3>2. InFlight(d)' = InFlight(d)
      BY <1>2, <2>1 DEF InFlight
    <3>3. HoldsPlayer(d)' <=> HoldsPlayer(d)
      BY <2>1 DEF HoldsPlayer
    <3>4. sequence[d] <= sequence'[d]
      BY <1>1, <1>2 DEF Typed
    <3>5. QED
      BY <1>1, <1>2, <2>1, <3>1, <3>2, <3>3, <3>4, AcknowledgesFrame
  <2>4. QED
    BY <2>2, <2>3
<1>5. QED
  BY <1>3, <1>4

\* The steps of a server task after its registration; none of them makes a snapshot.
LEMMA TaskStepAcknowledges ==
    ASSUME WebInv, WebInv', PageInv, NEW c \in Connections,
           \/ RefuseDatagrams(c) \/ Admit(c) \/ Refuse(c) \/ SendWelcome(c) \/ WelcomeFails(c)
           \/ Subscribe(c) \/ ReceiveMalformed(c) \/ SessionCloses(c) \/ RemovePlayer(c)
           \/ ForwardSnapshot(c) \/ SkipLagged(c)
           \/ \E input \in up[c] : ReceiveInput(c, input),
           NEW d \in Connections
    PROVE  AcknowledgesInOrder(d)'
<1> USE DEF registration, channel, client, world
<1>1. /\ Typed /\ Typed' /\ Course(d) /\ EachPlayerHasOneSession /\ AcknowledgesInOrder(d)
  BY DEF WebInv, PageInv
<1>2. UNCHANGED <<player_id, ticker, newest, page, sequence>>
  BY DEF RefuseDatagrams, Admit, Refuse, SendWelcome, WelcomeFails, Subscribe,
         ReceiveMalformed, SessionCloses, RemovePlayer, ForwardSnapshot, SkipLagged, ReceiveInput
<1>3. InFlight(d)' \subseteq InFlight(d)
  <2>1. CASE ForwardSnapshot(c)
    <3>1. /\ session[c] = "running" /\ unread[c] = "one" /\ session' = session
          /\ \A e \in Connections :
                /\ e = c => down'[e] = down[e] \cup newest /\ unread'[e] = "none"
                /\ e # c => down'[e] = down[e] /\ unread'[e] = unread[e]
      BY <1>1, <2>1 DEF ForwardSnapshot, Typed
    <3>2. QED
      BY <1>2, <3>1 DEF InFlight
  <2>2. CASE SkipLagged(c)
    <3>1. /\ UNCHANGED <<session, down>>
          /\ unread'[d] # "none" => unread[d] # "none"
      BY <1>1, <2>2 DEF SkipLagged, Typed
    <3>2. QED
      BY <1>2, <3>1 DEF InFlight
  <2>3. CASE \E input \in up[c] : ReceiveInput(c, input)
    BY <1>2, <2>3 DEF ReceiveInput, InFlight
  <2>4. CASE Subscribe(c)
    <3>1. /\ UNCHANGED <<down, unread>>
          /\ d # c => session'[d] = session[d]
          /\ d = c => session[d] = "welcomed" /\ session'[d] = "running"
      BY <1>1, <2>4 DEF Subscribe, Goto, Typed
    <3>2. QED
      BY <1>1, <1>2, <3>1 DEF InFlight, Course
  <2>5. CASE \/ RefuseDatagrams(c) \/ Admit(c) \/ Refuse(c) \/ SendWelcome(c) \/ WelcomeFails(c)
             \/ ReceiveMalformed(c) \/ SessionCloses(c) \/ RemovePlayer(c)
    <3>1. /\ down' = down
          /\ unread'[d] # "none" => unread[d] # "none"
          /\ session[d] \in {"removing", "gone"} => session'[d] \in {"removing", "gone"}
          /\ session'[d] = "running" => session[d] = "running"
      <4>1. CASE RefuseDatagrams(c) \/ Admit(c) \/ Refuse(c)
        BY <1>1, <4>1 DEF RefuseDatagrams, Admit, Refuse, Goto, Typed
      <4>2. CASE SendWelcome(c) \/ WelcomeFails(c)
        BY <1>1, <4>2 DEF SendWelcome, WelcomeFails, Goto, Typed
      <4>3. CASE ReceiveMalformed(c) \/ SessionCloses(c) \/ RemovePlayer(c)
        BY <1>1, <4>3 DEF ReceiveMalformed, SessionCloses, RemovePlayer, Goto, Typed
      <4>4. QED
        BY <2>5, <4>1, <4>2, <4>3
    <3>2. QED
      BY <1>2, <3>1 DEF InFlight
  <2>6. QED
    BY <2>1, <2>2, <2>3, <2>4, <2>5
<1>4. session[d] \notin {"none", "registered"} => session'[d] \notin {"none", "registered"}
  <2>1. CASE RefuseDatagrams(c) \/ Admit(c) \/ Refuse(c) \/ SendWelcome(c) \/ WelcomeFails(c)
    BY <1>1, <2>1 DEF RefuseDatagrams, Admit, Refuse, SendWelcome, WelcomeFails, Goto, Typed
  <2>2. CASE Subscribe(c) \/ ReceiveMalformed(c) \/ SessionCloses(c) \/ RemovePlayer(c)
    BY <1>1, <2>2 DEF Subscribe, ReceiveMalformed, SessionCloses, RemovePlayer, Goto, Typed
  <2>3. CASE ForwardSnapshot(c) \/ SkipLagged(c) \/ \E input \in up[c] : ReceiveInput(c, input)
    BY <2>3 DEF ForwardSnapshot, SkipLagged, ReceiveInput
  <2>4. QED
    BY <2>1, <2>2, <2>3
<1>5. ASSUME HoldsPlayer(d)'
      PROVE  \/ session[d] \in {"none", "registered"}
             \/ /\ HoldsPlayer(d)
                /\ players'[player_id[d]].last_applied_sequence
                       = players[player_id[d]].last_applied_sequence
  <2>1. CASE RefuseDatagrams(c) \/ Refuse(c) \/ SendWelcome(c) \/ WelcomeFails(c)
    BY <1>1, <1>5, <2>1 DEF RefuseDatagrams, Refuse, add_player_error, SendWelcome,
                            WelcomeFails, Goto, HoldsPlayer, Typed
  <2>2. CASE Subscribe(c) \/ ReceiveMalformed(c) \/ SessionCloses(c)
    BY <1>1, <1>5, <2>2 DEF Subscribe, ReceiveMalformed, SessionCloses, Goto, HoldsPlayer, Typed
  <2>3. CASE ForwardSnapshot(c) \/ SkipLagged(c)
    BY <1>5, <2>3 DEF ForwardSnapshot, SkipLagged, HoldsPlayer
  <2>4. CASE Admit(c)
    <3>1. /\ players' = [p \in Admitted \cup {player_id[c]} |->
                             IF p = player_id[c] THEN NewPlayer(player_id[c]) ELSE players[p]]
          /\ player_id[c] \notin Admitted
          /\ d = c => session[d] = "registered"
          /\ d # c => session'[d] = session[d]
      BY <1>1, <2>4 DEF Admit, add_player, CanAdd, Goto, Typed
    <3>2. CASE d = c
      BY <3>1, <3>2
    <3>3. CASE d # c
      <4>1. HoldsPlayer(d)
        BY <1>5, <3>1, <3>3 DEF HoldsPlayer
      <4>2. player_id[d] \in Admitted
        BY <1>1, <4>1, HolderAdmitted
      <4>3. QED
        BY <3>1, <4>1, <4>2
    <3>4. QED
      BY <3>2, <3>3
  <2>5. CASE RemovePlayer(c)
    <3>1. /\ players' = [p \in Admitted \ {player_id[c]} |-> players[p]]
          /\ HoldsPlayer(c) /\ ~HoldsPlayer(c)'
          /\ d # c => session'[d] = session[d]
      BY <1>1, <2>5 DEF RemovePlayer, remove_player, Goto, HoldsPlayer, Typed
    <3>2. d # c /\ HoldsPlayer(d)
      BY <1>5, <3>1 DEF HoldsPlayer
    <3>3. player_id[d] \in Admitted /\ player_id[d] # player_id[c]
      BY <1>1, <3>1, <3>2, HolderAdmitted DEF EachPlayerHasOneSession
    <3>4. QED
      BY <3>1, <3>2, <3>3
  <2>6. ASSUME NEW input \in up[c], ReceiveInput(c, input)
        PROVE  /\ HoldsPlayer(d)
               /\ players'[player_id[d]].last_applied_sequence
                      = players[player_id[d]].last_applied_sequence
    <3>1. HoldsPlayer(d) /\ player_id[d] \in Admitted
      BY <1>1, <1>5, <2>6, HolderAdmitted DEF ReceiveInput, HoldsPlayer
    <3>2. CASE submit_input_ignored(player_id[c], input)
      BY <3>1, <3>2 DEF submit_input_ignored
    <3>3. CASE submit_input(player_id[c], input)
      <4>1. /\ players \in [Admitted -> PlayerRecord]
            /\ players' = [players EXCEPT
                               ![player_id[c]].horizontal = input.horizontal,
                               ![player_id[c]].vertical = input.vertical,
                               ![player_id[c]].last_received_sequence = input.sequence]
        BY <1>1, <3>3 DEF submit_input, Typed, WorldTypeOK
      <4>2. QED
        BY <3>1, <4>1 DEF PlayerRecord
    <3>4. QED
      BY <2>6, <3>1, <3>2, <3>3 DEF ReceiveInput
  <2>7. QED
    BY <2>1, <2>2, <2>3, <2>4, <2>5, <2>6
<1>6. OwnIdentity(d)' <=> OwnIdentity(d)
  BY <1>2 DEF OwnIdentity
<1>7. sequence[d] <= sequence'[d]
  BY <1>1, <1>2 DEF Typed
<1>8. QED
  BY <1>1, <1>2, <1>3, <1>4, <1>5, <1>6, <1>7, AcknowledgesFrame

\* Every step keeps the acknowledgements on their way to a page in order.
LEMMA NextAcknowledges ==
    ASSUME NoWrap, WebInv, WebInv', PageInv, [Next]_vars, NEW d \in Connections
    PROVE  AcknowledgesInOrder(d)'
<1> USE DEF registration, channel, client, world
<1>1. /\ Typed /\ Typed' /\ Course(d) /\ EachPlayerHasOneSession
      /\ AcknowledgesInOrder(d) /\ Numbers(d)
  BY DEF WebInv, PageInv
<1>2. ASSUME UNCHANGED <<player_id, session, players>>,
             InFlight(d)' \subseteq InFlight(d),
             page'[d] # "left" => page[d] # "left" /\ sequence[d] <= sequence'[d]
      PROVE  AcknowledgesInOrder(d)'
  <2>1. (OwnIdentity(d)' <=> OwnIdentity(d)) /\ (HoldsPlayer(d)' <=> HoldsPlayer(d))
    BY <1>2 DEF OwnIdentity, HoldsPlayer
  <2>2. \/ session[d] \in {"none", "registered"} \/ HoldsPlayer(d) \/ ~HoldsPlayer(d)'
    BY <2>1
  <2>3. QED
    BY <1>1, <1>2, <2>1, <2>2, AcknowledgesFrame
<1>3. \A e \in Connections : sequence[e] <= sequence[e]
  BY <1>1 DEF Typed
<1>4. CASE UNCHANGED vars
  BY <1>2, <1>3, <1>4 DEF vars, InFlight
<1>5. CASE TickAdvance
  BY <1>5, TickAdvanceAcknowledges
<1>6. CASE TickFails
  BY <1>2, <1>3, <1>6 DEF TickFails, advance_tick_exhausted, InFlight
<1>7. CASE Broadcast
  <2>1. /\ newest' = ticker.encoded /\ ticker'.encoded = {}
        /\ session[d] # "running" => unread'[d] = unread[d]
        /\ UNCHANGED <<player_id, session, players, down, page, sequence>>
    BY <1>7 DEF Broadcast
  <2>2. InFlight(d)' \subseteq InFlight(d)
    BY <2>1 DEF InFlight
  <2>3. QED
    BY <1>2, <1>3, <2>1, <2>2
<1>8. ASSUME NEW c \in Connections, Register(c)
      PROVE  AcknowledgesInOrder(d)'
  BY <1>8, RegisterAcknowledges
<1>9. ASSUME NEW c \in Connections,
             \/ RefuseDatagrams(c) \/ Admit(c) \/ Refuse(c) \/ SendWelcome(c) \/ WelcomeFails(c)
             \/ Subscribe(c) \/ ReceiveMalformed(c) \/ SessionCloses(c) \/ RemovePlayer(c)
             \/ ForwardSnapshot(c) \/ SkipLagged(c)
             \/ \E input \in up[c] : ReceiveInput(c, input)
      PROVE  AcknowledgesInOrder(d)'
  BY <1>9, TaskStepAcknowledges
<1>10. ASSUME NEW c \in Connections,
              \/ Start(c) \/ Leave(c) \/ SendInput(c)
              \/ \E axis \in Axis : PressKeys(c, axis)
              \/ \E s \in down[c] : ReceiveSnapshot(c, s)
       PROVE  AcknowledgesInOrder(d)'
  <2>1. UNCHANGED <<player_id, session, players, ticker, newest, unread, down>>
    BY <1>10 DEF Start, Leave, SendInput, PressKeys, ReceiveSnapshot
  <2>2. InFlight(d)' = InFlight(d)
    BY <2>1 DEF InFlight
  <2>3. page'[d] # "left" => page[d] # "left" /\ sequence[d] <= sequence'[d]
    <3>1. CASE Start(c) \/ Leave(c)
      BY <1>1, <1>3, <3>1 DEF Start, Leave, Typed
    <3>2. CASE (\E axis \in Axis : PressKeys(c, axis)) \/ \E s \in down[c] : ReceiveSnapshot(c, s)
      BY <1>3, <3>2 DEF PressKeys, ReceiveSnapshot
    <3>3. CASE SendInput(c)
      <4>1. /\ page' = page /\ page[c] = "playing" /\ sequence[c] # LastSequence
            /\ sequence' = [sequence EXCEPT ![c] = nextSequence(sequence[c])]
        BY <3>3 DEF SendInput
      <4>2. CASE d = c
        <5>1. sequence[c] \in Nat /\ sequence[c] < LastSequence /\ LastSequence <= MaxSequence
          BY <1>1, <4>1, <4>2, AdapterAssumption DEF NoWrap, Numbers, Typed
        <5>2. nextSequence(sequence[c]) = sequence[c] + 1
          BY <5>1, AdapterAssumption DEF nextSequence
        <5>3. QED
          BY <1>1, <4>1, <4>2, <5>1, <5>2 DEF Typed
      <4>3. CASE d # c
        BY <1>1, <1>3, <4>1, <4>3 DEF Typed
      <4>4. QED
        BY <4>2, <4>3
    <3>4. QED
      BY <1>10, <3>1, <3>2, <3>3
  <2>4. QED
    BY <1>2, <2>1, <2>2, <2>3
<1>11. QED
  BY <1>4, <1>5, <1>6, <1>7, <1>8, <1>9, <1>10 DEF Next, TickStep, SessionStep

-----------------------------------------------------------------------------

(* The inputs the page keeps pending. *)

\* What a set of at most one snapshot acknowledges to a player.
AcknowledgedBy(S, id) ==
    LET acknowledged == {s.players[id].last_applied_sequence :
                             s \in {t \in S : id \in DOMAIN t.players}}
    IN  IF acknowledged = {} THEN 0 ELSE CHOOSE n \in acknowledged : TRUE

\* It is what its one snapshot does, if that shows the player, and 0 otherwise.
LEMMA AcknowledgedByOne ==
    ASSUME NEW S, NEW id
    PROVE  /\ S = {} => AcknowledgedBy(S, id) = 0
           /\ \A s : S = {s} =>
                  AcknowledgedBy(S, id) =
                      IF id \in DOMAIN s.players THEN s.players[id].last_applied_sequence ELSE 0
<1> DEFINE acknowledged == {s.players[id].last_applied_sequence :
                                s \in {t \in S : id \in DOMAIN t.players}}
<1>1. AcknowledgedBy(S, id) =
          IF acknowledged = {} THEN 0 ELSE CHOOSE n \in acknowledged : TRUE
  BY DEF AcknowledgedBy
<1>2. S = {} => acknowledged = {}
  OBVIOUS
<1>3. ASSUME NEW s, S = {s}
      PROVE  AcknowledgedBy(S, id) =
                 IF id \in DOMAIN s.players THEN s.players[id].last_applied_sequence ELSE 0
  <2>1. CASE id \in DOMAIN s.players
    <3>1. acknowledged = {s.players[id].last_applied_sequence}
      BY <1>3, <2>1
    <3> HIDE DEF acknowledged
    <3>2. AtMostOne(acknowledged) /\ s.players[id].last_applied_sequence \in acknowledged
      BY <3>1 DEF AtMostOne
    <3>3. (CHOOSE n \in acknowledged : TRUE) = s.players[id].last_applied_sequence
      BY <3>2, TheOne
    <3>4. QED
      BY <1>1, <2>1, <3>2, <3>3
  <2>2. CASE id \notin DOMAIN s.players
    <3>1. acknowledged = {}
      BY <1>3, <2>2
    <3> HIDE DEF acknowledged
    <3>2. QED
      BY <1>1, <2>2, <3>1
  <2>3. QED
    BY <2>1, <2>2
<1> HIDE DEF acknowledged
<1>4. QED
  BY <1>1, <1>2, <1>3

\* The sequences above a number, of inputs that have each sequence from 1 to a last one.
LEMMA SequencesAbove ==
    ASSUME NEW U \in SUBSET Sent, NEW last \in Nat, NEW a \in Nat,
           \A i \in U : i.sequence <= last,
           \A n \in 1..last : \E i \in U : i.sequence = n
    PROVE  {i.sequence : i \in {j \in U : j.sequence > a}} = (a + 1)..last
<1>1. \A i \in U : i.sequence \in Nat
  BY AdapterAssumption DEF Sent
<1>2. ASSUME NEW i \in U, i.sequence > a
      PROVE  i.sequence \in (a + 1)..last
  BY <1>1, <1>2
<1>3. ASSUME NEW n \in (a + 1)..last
      PROVE  \E i \in U : i.sequence > a /\ i.sequence = n
  <2>1. n \in 1..last /\ n > a
    OBVIOUS
  <2>2. QED
    BY <2>1
<1>4. QED
  BY <1>2, <1>3

\* What the shown snapshot acknowledges is a number, and the page has sent it.
LEMMA AcknowledgedWasSent ==
    ASSUME WebInv, PageInv, NEW c \in Connections, page[c] = "playing", OwnIdentity(c)
    PROVE  Acknowledged(c) \in 0..sequence[c]
<1>1. /\ Typed /\ Course(c) /\ AcknowledgesInOrder(c) /\ sequence[c] \in Nat /\ player_id[c] # 0
  BY DEF WebInv, PageInv, Typed, Course
<1>2. Acknowledged(c) = AcknowledgedBy(timeline[c].current, player_id[c])
  BY DEF Acknowledged, AcknowledgedBy
<1>3. CASE timeline[c].current = {}
  BY <1>1, <1>2, <1>3, AcknowledgedByOne
<1>4. ASSUME NEW s \in timeline[c].current
      PROVE  Acknowledged(c) \in 0..sequence[c]
  <2>1. timeline[c].current = {s} /\ s \in down[c] /\ s \in Snapshot /\ s \in InFlight(c)
    BY <1>1, <1>4 DEF Course, AtMostOne, Typed, InFlight
  <2>2. Acknowledged(c) = IF player_id[c] \in DOMAIN s.players
                          THEN s.players[player_id[c]].last_applied_sequence ELSE 0
    BY <1>2, <2>1, AcknowledgedByOne
  <2>3. CASE player_id[c] \in DOMAIN s.players
    <3>1. s.players[player_id[c]].last_applied_sequence \in Nat
      BY <2>1, <2>3, SnapshotPlayers
    <3>2. s.players[player_id[c]].last_applied_sequence <= sequence[c]
      BY <1>1, <2>1, <2>3 DEF AcknowledgesInOrder, Shows, Acknowledges
    <3>3. QED
      BY <1>1, <2>2, <2>3, <3>1, <3>2
  <2>4. QED
    BY <1>1, <2>2, <2>3
<1>5. QED
  BY <1>3, <1>4

\* A page's own step to send: the new input is pending, for it is newer than what was
\* sent and so than what is acknowledged.
LEMMA SendInputPending ==
    ASSUME NoWrap, WebInv, PageInv, NEW c \in Connections, SendInput(c)
    PROVE  Pending(c)'
<1> DEFINE input == [sequence |-> nextSequence(sequence[c]),
                     horizontal |-> horizontal[c], vertical |-> 0]
           pending == timeline[c].pendingInputs
<1> SUFFICES ASSUME OwnIdentity(c)'
             PROVE  timeline'[c].pendingInputs
                        = {i \in up'[c] : i.sequence > Acknowledged(c)'}
  BY DEF Pending
<1>1. /\ Typed /\ Course(c) /\ Numbers(c) /\ timeline[c] \in Presentation
      /\ sequence[c] \in Nat /\ up[c] \in SUBSET Sent
  BY DEF WebInv, PageInv, Typed
<1>2. /\ page[c] = "playing" /\ sequence[c] # LastSequence
      /\ timeline' = [timeline EXCEPT ![c] = Timeline!recordInput(timeline[c], input)]
      /\ up' = [up EXCEPT ![c] = up[c] \cup {input}]
      /\ UNCHANGED <<player_id, page>>
  BY DEF SendInput, registration
<1>3. OwnIdentity(c)
  BY <1>2 DEF OwnIdentity
<1>4. input.sequence = sequence[c] + 1
  <2>1. sequence[c] < LastSequence /\ LastSequence <= MaxSequence
    BY <1>1, <1>2, AdapterAssumption DEF NoWrap, Numbers
  <2>2. QED
    BY <1>1, <2>1, AdapterAssumption DEF nextSequence
<1>5. pending = {i \in up[c] : i.sequence > Acknowledged(c)}
  BY <1>2, <1>3 DEF PageInv, Pending
<1>6. \A i \in up[c] : i.sequence \in Nat /\ i.sequence <= sequence[c]
  BY <1>1, <1>2 DEF Numbers, Sent
<1> HIDE DEF input
<1>7. ~\E i \in pending : input.sequence <= i.sequence
  BY <1>1, <1>4, <1>5, <1>6
<1>8. Timeline!recordInput(timeline[c], input)
          = [timeline[c] EXCEPT !.pendingInputs = pending \cup {input}]
  BY <1>7 DEF Timeline!recordInput
<1>9. /\ timeline'[c].pendingInputs = pending \cup {input}
      /\ timeline'[c].current = timeline[c].current
      /\ up'[c] = up[c] \cup {input}
  BY <1>1, <1>2, <1>8 DEF Presentation, Typed
<1>10. Acknowledged(c)' = Acknowledged(c)
  <2>1. timeline'[c].current = timeline[c].current /\ player_id'[c] = player_id[c]
    BY <1>2, <1>9
  <2>2. QED
    BY <2>1 DEF Acknowledged
<1>11. Acknowledged(c) \in Nat /\ Acknowledged(c) <= sequence[c]
  BY <1>1, <1>2, <1>3, AcknowledgedWasSent
<1>12. input.sequence > Acknowledged(c)
  BY <1>1, <1>4, <1>11
<1> HIDE DEF pending
<1>13. QED
  BY <1>5, <1>9, <1>10, <1>12

\* A snapshot arrives: a newer one acknowledges no less than the one it replaces, so that
\* dropping what it acknowledges from what was pending leaves what it does not.
LEMMA ReceiveSnapshotPending ==
    ASSUME WebInv, PageInv, NEW c \in Connections,
           NEW s \in down[c], ReceiveSnapshot(c, s)
    PROVE  Pending(c)'
<1> DEFINE id == player_id[c]
           pending == timeline[c].pendingInputs
           ack == s.players[id].last_applied_sequence
<1> SUFFICES ASSUME OwnIdentity(c)'
             PROVE  timeline'[c].pendingInputs
                        = {i \in up'[c] : i.sequence > Acknowledged(c)'}
  BY DEF Pending
<1>1. /\ Typed /\ Course(c) /\ timeline[c] \in Presentation
      /\ AcknowledgesInOrder(c) /\ up[c] \in SUBSET Sent
  BY DEF WebInv, PageInv, Typed
<1>2. /\ page[c] = "playing"
      /\ timeline'[c] = Timeline!acceptSnapshot(timeline[c], s, id)
      /\ UNCHANGED <<player_id, page, up>>
  BY <1>1 DEF ReceiveSnapshot, registration, Typed
<1>3. OwnIdentity(c) /\ id # 0 /\ id' = id
  BY <1>1, <1>2 DEF OwnIdentity, Course
<1>4. pending = {i \in up[c] : i.sequence > Acknowledged(c)}
  BY <1>2, <1>3 DEF PageInv, Pending
<1>5. CASE Timeline!acceptSnapshot(timeline[c], s, id) = timeline[c]
  <2>1. Acknowledged(c)' = Acknowledged(c)
    BY <1>2, <1>5 DEF Acknowledged
  <2>2. QED
    BY <1>2, <1>4, <1>5, <2>1
<1>6. CASE /\ \A x \in timeline[c].current : ~(s.tick <= x.tick)
           /\ timeline'[c].current = {s}
           /\ timeline'[c].pendingInputs =
                  IF id \in DOMAIN s.players
                  THEN {i \in pending : i.sequence > ack} ELSE pending
  <2>1. /\ Acknowledged(c) = AcknowledgedBy(timeline[c].current, id)
        /\ Acknowledged(c)' = AcknowledgedBy(timeline'[c].current, id)
    BY <1>3 DEF Acknowledged, AcknowledgedBy
  <2>2. Acknowledged(c)' = IF id \in DOMAIN s.players THEN ack ELSE 0
    BY <1>6, <2>1, AcknowledgedByOne
  <2>3. /\ s \in InFlight(c) /\ s \in Snapshot
        /\ id \in DOMAIN s.players => ack \in Nat
    BY <1>1, SnapshotPlayers DEF InFlight, Typed
  <2>4. /\ Acknowledged(c) \in Nat
        /\ Acknowledged(c) <= IF id \in DOMAIN s.players THEN ack ELSE 0
    <3>1. CASE timeline[c].current = {}
      BY <2>1, <2>3, <3>1, AcknowledgedByOne
    <3>2. ASSUME NEW x \in timeline[c].current
          PROVE  /\ Acknowledged(c) \in Nat
                 /\ Acknowledged(c) <= IF id \in DOMAIN s.players THEN ack ELSE 0
      <4>1. /\ timeline[c].current = {x} /\ x \in InFlight(c) /\ x \in Snapshot
            /\ x.tick \in Nat /\ s.tick \in Nat
        BY <1>1, <2>3 DEF Course, AtMostOne, InFlight, Typed, Snapshot
      <4>2. x.tick < s.tick
        BY <1>6, <4>1
      <4>3. Acknowledged(c) = IF id \in DOMAIN x.players
                              THEN x.players[id].last_applied_sequence ELSE 0
        BY <2>1, <4>1, AcknowledgedByOne
      <4>4. CASE id \in DOMAIN x.players
        <5>1. x.players[id].last_applied_sequence \in Nat
          BY <4>1, <4>4, SnapshotPlayers
        <5>2. id \in DOMAIN s.players /\ x.players[id].last_applied_sequence <= ack
          BY <1>1, <1>3, <2>3, <4>1, <4>2, <4>4 DEF AcknowledgesInOrder, Shows, Acknowledges
        <5>3. QED
          BY <4>3, <4>4, <5>1, <5>2
      <4>5. CASE id \notin DOMAIN x.players
        BY <2>3, <4>3, <4>5
      <4>6. QED
        BY <4>4, <4>5
    <3>3. QED
      BY <3>1, <3>2
  <2>5. \A i \in up[c] : i.sequence \in Nat
    BY <1>1 DEF Sent
  <2>6. CASE id \in DOMAIN s.players
    <3>1. {i \in pending : i.sequence > ack} = {i \in up[c] : i.sequence > ack}
      BY <1>4, <2>3, <2>4, <2>5, <2>6
    <3>2. QED
      BY <1>2, <1>6, <2>2, <2>6, <3>1
  <2>7. CASE id \notin DOMAIN s.players
    <3>1. Acknowledged(c) = 0
      BY <2>4, <2>7
    <3>2. QED
      BY <1>2, <1>4, <1>6, <2>2, <2>7, <3>1
  <2>8. QED
    BY <2>6, <2>7
<1>7. \/ Timeline!acceptSnapshot(timeline[c], s, id) = timeline[c]
      \/ /\ \A x \in timeline[c].current : ~(s.tick <= x.tick)
         /\ Timeline!acceptSnapshot(timeline[c], s, id).current = {s}
         /\ Timeline!acceptSnapshot(timeline[c], s, id).pendingInputs =
                IF id \in DOMAIN s.players
                THEN Timeline!pruneAcknowledgedInputs(pending, ack) ELSE pending
  BY <1>1, AcceptSnapshotShows
<1>8. Timeline!pruneAcknowledgedInputs(pending, ack) = {i \in pending : i.sequence > ack}
  BY DEF Timeline!pruneAcknowledgedInputs
<1> HIDE DEF pending, ack, id
<1>9. QED
  BY <1>2, <1>5, <1>6, <1>7, <1>8

\* Every step keeps the pending inputs those not yet acknowledged.
LEMMA NextPending ==
    ASSUME NoWrap, WebInv, WebInv', PageInv, [Next]_vars,
           NEW d \in Connections
    PROVE  Pending(d)'
<1> USE DEF registration, channel, client
<1>1. Typed /\ Typed' /\ Course(d) /\ Course(d)' /\ \A e \in Connections : Course(e)
  BY DEF WebInv
<1>2. ASSUME page[d] = page'[d], timeline'[d] = timeline[d], up'[d] = up[d]
      PROVE  Pending(d)'
  <2> SUFFICES ASSUME page[d] = "playing", OwnIdentity(d)' PROVE Pending(d)'
    BY <1>2 DEF Pending
  <2>1. player_id'[d] = player_id[d] /\ OwnIdentity(d)
    BY <1>1, OwnIdentityBefore DEF Course
  <2>2. Acknowledged(d)' = Acknowledged(d)
    BY <1>2, <2>1 DEF Acknowledged
  <2>3. QED
    BY <1>2, <2>1, <2>2 DEF PageInv, Pending
<1>3. CASE UNCHANGED vars
  BY <1>2, <1>3 DEF vars
<1>4. CASE TickStep
  BY <1>2, <1>4 DEF TickStep, TickAdvance, TickFails, Broadcast
<1>5. ASSUME NEW c \in Connections,
             \/ SessionStep(c) \/ RefuseDatagrams(c) \/ ReceiveMalformed(c)
             \/ \E input \in up[c] : ReceiveInput(c, input)
             \/ \E axis \in Axis : PressKeys(c, axis)
      PROVE  Pending(d)'
  <2>1. UNCHANGED <<page, timeline, up>>
    BY <1>5 DEF SessionStep, Register, Admit, Refuse, SendWelcome, WelcomeFails, Subscribe,
                ForwardSnapshot, SkipLagged, SessionCloses, RemovePlayer, RefuseDatagrams,
                ReceiveMalformed, ReceiveInput, PressKeys
  <2>2. QED
    BY <1>2, <2>1
<1>6. ASSUME NEW c \in Connections, d # c,
             \/ Start(c) \/ SendInput(c) \/ Leave(c)
             \/ \E s \in down[c] : ReceiveSnapshot(c, s)
      PROVE  Pending(d)'
  <2>1. page[d] = page'[d] /\ timeline'[d] = timeline[d] /\ up'[d] = up[d]
    <3>1. CASE Start(c) \/ Leave(c)
      BY <1>1, <1>6, <3>1 DEF Start, Leave, Typed
    <3>2. CASE SendInput(c) \/ \E s \in down[c] : ReceiveSnapshot(c, s)
      BY <1>1, <1>6, <3>2 DEF SendInput, ReceiveSnapshot, Typed
    <3>3. QED
      BY <1>6, <3>1, <3>2
  <2>2. QED
    BY <1>2, <2>1
<1>7. CASE Start(d)
  <2>1. up'[d] = {} /\ timeline'[d] = Timeline!NewTimeline
    BY <1>1, <1>7 DEF Start, Course, Typed
  <2>2. QED
    BY <2>1 DEF Pending, Timeline!NewTimeline
<1>8. CASE Leave(d)
  BY <1>1, <1>8 DEF Leave, Pending, Typed
<1>9. CASE SendInput(d)
  BY <1>9, SendInputPending
<1>10. ASSUME NEW s \in down[d], ReceiveSnapshot(d, s)
       PROVE  Pending(d)'
  BY <1>10, ReceiveSnapshotPending
<1>11. QED
  BY <1>3, <1>4, <1>5, <1>6, <1>7, <1>8, <1>9, <1>10 DEF Next

-----------------------------------------------------------------------------

(* The theorems about a page whose sequence does not wrap. *)

\* The invariant is all of PendingIsUnacknowledged, since a page has sent each sequence.
LEMMA PendingSuffices == WebInv /\ PageInv => PendingIsUnacknowledged
<1> SUFFICES ASSUME WebInv, PageInv, NEW c \in Connections, page[c] = "playing", OwnIdentity(c)
             PROVE  /\ timeline[c].pendingInputs
                           = {input \in up[c] : input.sequence > Acknowledged(c)}
                    /\ {input.sequence : input \in timeline[c].pendingInputs}
                           = (Acknowledged(c) + 1)..sequence[c]
  BY DEF PendingIsUnacknowledged
<1>1. timeline[c].pendingInputs = {input \in up[c] : input.sequence > Acknowledged(c)}
  BY DEF PageInv, Pending
<1>2. /\ up[c] \in SUBSET Sent /\ sequence[c] \in Nat
      /\ \A i \in up[c] : i.sequence <= sequence[c]
      /\ \A n \in 1..sequence[c] : \E i \in up[c] : i.sequence = n
  BY DEF PageInv, Numbers, WebInv, Typed
<1>3. Acknowledged(c) \in Nat
  BY AcknowledgedWasSent
<1>4. {i.sequence : i \in {j \in up[c] : j.sequence > Acknowledged(c)}}
          = (Acknowledged(c) + 1)..sequence[c]
  BY <1>2, <1>3, SequencesAbove
<1>5. QED
  BY <1>1, <1>4

\* The initial state satisfies the page's invariant.
LEMMA InitPageInv == Init => PageInv
<1> SUFFICES ASSUME Init PROVE PageInv
  OBVIOUS
<1>1. \A c \in Connections : Numbers(c)
  BY AdapterAssumption DEF Init, Numbers
<1>2. Identities
  BY DEF Init, Identities
<1>3. \A c \in Connections : InFlight(c) = {}
  BY DEF Init, InFlight
<1>4. \A c \in Connections : AcknowledgesInOrder(c)
  BY <1>3 DEF AcknowledgesInOrder
<1>5. \A c \in Connections : Pending(c)
  BY DEF Init, Pending
<1>6. QED
  BY <1>1, <1>2, <1>4, <1>5 DEF PageInv

\* Every step of the system preserves it.
LEMMA NextPageInv ==
    ASSUME NoWrap, WebInv, WebInv', PageInv, [Next]_vars
    PROVE  PageInv'
<1>1. /\ Typed /\ EachPlayerHasOneSession /\ Identities
      /\ \A c \in Connections : Course(c)
      /\ \A c \in Connections : Numbers(c)
  BY DEF WebInv, PageInv
<1>2. \A c \in Connections : Numbers(c)'
  BY <1>1, NextNumbers
<1>3. Identities'
  BY <1>1, NextIdentities
<1>4. \A c \in Connections : AcknowledgesInOrder(c)'
  BY NextAcknowledges
<1>5. \A c \in Connections : Pending(c)'
  BY NextPending
<1>6. QED
  BY <1>2, <1>3, <1>4, <1>5 DEF PageInv

\* The inductive invariant of a page that sends fewer inputs than its sequence has values.
THEOREM PageInvariant == NoWrap => (Spec => [](WebInv /\ PageInv))
<1> SUFFICES ASSUME NoWrap PROVE Spec => [](WebInv /\ PageInv)
  OBVIOUS
<1>1. Init => WebInv /\ PageInv
  BY InitWebInv, InitPageInv
<1>2. WebInv /\ PageInv /\ [Next]_vars => (WebInv /\ PageInv)'
  BY NextWebInv, NextPageInv
<1>3. QED
  BY <1>1, <1>2, PTL DEF Spec

\* Through any loss, repetition and reordering of datagrams, what the page keeps pending
\* is exactly what it sent and was not yet told has been applied, as long as its sequence
\* does not come round and no other connection was given its identity.
THEOREM PendingInputs == NoWrap => (Spec => []PendingIsUnacknowledged)
<1> SUFFICES ASSUME NoWrap PROVE Spec => []PendingIsUnacknowledged
  OBVIOUS
<1>1. WebInv /\ PageInv => PendingIsUnacknowledged
  BY PendingSuffices
<1>2. Spec => [](WebInv /\ PageInv)
  BY PageInvariant
<1>3. QED
  BY <1>1, <1>2, PTL

=============================================================================
