---------------------------- MODULE BrowserProofs ----------------------------
(***************************************************************************)
(* The page's session, for any number of submissions of the form and any   *)
(* width of the sequence: whatever callbacks of superseded connections run *)
(* late, the page is one session or none.                                  *)
(*                                                                         *)
(* PageHoldsOneSession speaks of the states between events, when no        *)
(* reaction is due.  The invariant behind it holds in every turn of the    *)
(* event loop: what the page shows is owned by its transport also while a  *)
(* rejected connect() or a closed session is still to be noticed, and only *)
(* that the transport is a live one has to wait for the reactions.         *)
(***************************************************************************)
EXTENDS BrowserClient, TLAPS

Attempts == {"none", "ready", "welcome", "connected", "rejected", "done"}
Links == {"none", "connecting", "open", "closed", "failed"}

Typed ==
    /\ connectStep \in [Connections -> Attempts]
    /\ link \in [Connections -> Links]
    /\ reading \in SUBSET Connections
    /\ writing \in [Connections -> Nat]
    /\ sent \in [Connections -> [sequence : 0..MaxSequence, horizontal : {-1, 0, 1}]]
    /\ transport \in Connections \cup {NoConnection}
    /\ inputSendInFlight \in BOOLEAN
    /\ sequence \in 0..MaxSequence
    /\ pressed \in SUBSET Keys

\* The connection whose session the page shows.
Owner == IF transport # NoConnection /\ connectStep[transport] = "connected" THEN transport ELSE NoConnection

\* Timer, frame, writer, player and timeline belong to it, in every turn of the loop.
PageIsOwned ==
    /\ datagramWriter = Owner /\ inputTimer = Owner /\ animationFrame = Owner
    /\ localPlayerId = Owner /\ timeline = Owner

\* Where the connect() of a connection is, together with its transport.
Course(c) ==
    /\ connectStep[c] = "none" => link[c] = "none" /\ sent[c].sequence = 0 /\ transport # c
    /\ transport = c =>
           \/ connectStep[c] = "ready" /\ link[c] = "connecting"
           \/ connectStep[c] = "welcome" /\ link[c] = "open"
           \/ connectStep[c] = "connected" /\ link[c] \in {"open", "failed"}
           \/ connectStep[c] = "rejected"
    /\ transport # c =>
           /\ ~Live(c) /\ connectStep[c] \notin Waiting /\ c \notin reading
           /\ connectStep[c] = "connected" => link[c] \in Ended

\* The sequence is the one last sent on the page's transport.
SequenceOfTransport == sequence = IF transport = NoConnection THEN 0 ELSE sent[transport].sequence

\* The flag stands for exactly one pending write, whichever connection it was for.
FlagIsOneWrite ==
    /\ inputSendInFlight <=> \E c \in Connections : writing[c] > 0
    /\ \A c, d \in Connections : writing[c] > 0 /\ writing[d] > 0 => c = d /\ writing[c] = 1

PageInv ==
    /\ Typed
    /\ PageIsOwned
    /\ \A c \in Connections : Course(c)
    /\ SequenceOfTransport
    /\ FlagIsOneWrite

-----------------------------------------------------------------------------

\* The connections are positive numbers, so that none of them is NoConnection.
LEMMA ConnectionsNotNone == NoConnection \notin Connections
BY DEF NoConnection, Connections

\* Initially the page is idle.
LEMMA InitPage == PageInit => PageInv
<1> SUFFICES ASSUME PageInit PROVE PageInv
  OBVIOUS
<1>1. 0 \in 0..MaxSequence
  BY PageAssumption
<1>2. Typed
  BY <1>1 DEF PageInit, Typed, Attempts, Links
<1>3. PageIsOwned
  BY DEF PageInit, PageIsOwned, Owner
<1>4. \A c \in Connections : Course(c)
  BY ConnectionsNotNone DEF PageInit, Course, Live, Waiting
<1>5. SequenceOfTransport /\ FlagIsOneWrite
  BY DEF PageInit, SequenceOfTransport, FlagIsOneWrite
<1>6. QED
  BY <1>2, <1>3, <1>4, <1>5 DEF PageInv

\* disconnect() leaves an idle page, whatever becomes of the attempts it rejects.
LEMMA DisconnectKeeps ==
    ASSUME PageInv, disconnect, connectStep' \in [Connections -> Attempts],
           \A c \in Connections : \/ connectStep'[c] = AttemptsRejected(transport)[c]
                                  \/ connectStep'[c] \in {"rejected", "done"}
    PROVE  PageInv'
<1>1. /\ datagramWriter' = NoConnection /\ inputTimer' = NoConnection /\ animationFrame' = NoConnection
      /\ localPlayerId' = NoConnection /\ timeline' = NoConnection /\ sequence' = 0 /\ pressed' = {}
      /\ transport' = NoConnection /\ link' = LinksClosed /\ reading' = reading \ {transport}
      /\ UNCHANGED <<inputSendInFlight, writing, sent>>
  BY DEF disconnect, resetPage
<1>2. Typed'
  <2>1. 0 \in 0..MaxSequence
    BY PageAssumption
  <2>2. link' \in [Connections -> Links]
    BY <1>1 DEF LinksClosed, PageInv, Typed, Links
  <2>3. QED
    BY <1>1, <2>1, <2>2 DEF PageInv, Typed
<1>3. PageIsOwned'
  BY <1>1 DEF PageIsOwned, Owner
<1>4. ASSUME NEW c \in Connections
      PROVE  Course(c)'
  <2>1. Course(c) /\ c # transport'
    BY <1>1, ConnectionsNotNone DEF PageInv
  <2>2. link'[c] = IF c = transport THEN "closed" ELSE link[c]
    BY <1>1 DEF LinksClosed
  <2>3. \/ connectStep'[c] = IF c = transport /\ connectStep[c] \in Waiting THEN "rejected" ELSE connectStep[c]
        \/ connectStep'[c] \in {"rejected", "done"}
    BY DEF AttemptsRejected
  <2>4. CASE c = transport
    BY <1>1, <2>1, <2>2, <2>3, <2>4 DEF Course, Live, Waiting, Ended
  <2>5. CASE c # transport
    BY <1>1, <2>1, <2>2, <2>3, <2>5 DEF Course, Live, Waiting, Ended
  <2>6. QED
    BY <2>4, <2>5
<1>5. SequenceOfTransport'
  BY <1>1 DEF SequenceOfTransport
<1>6. FlagIsOneWrite'
  BY <1>1 DEF FlagIsOneWrite, PageInv
<1>7. QED
  BY <1>2, <1>3, <1>4, <1>5, <1>6 DEF PageInv

\* A submission supersedes whatever connection there is.
LEMMA SubmitKeeps ==
    ASSUME PageInv, NEW c \in Connections, Submit(c)
    PROVE  PageInv'
<1>1. /\ datagramWriter' = NoConnection /\ inputTimer' = NoConnection /\ animationFrame' = NoConnection
      /\ localPlayerId' = NoConnection /\ timeline' = NoConnection /\ sequence' = 0 /\ pressed' = {}
      /\ transport' = c /\ reading' = reading \ {transport}
      /\ link' = [LinksClosed EXCEPT ![c] = "connecting"]
      /\ connectStep' = [AttemptsRejected(transport) EXCEPT ![c] = "ready"]
      /\ UNCHANGED <<inputSendInFlight, writing, sent>>
  BY DEF Submit, resetPage
<1>2. connectStep[c] = "none" /\ Course(c) /\ Typed
  BY DEF Submit, NextConnection, PageInv
<1>3. sent[c].sequence = 0 /\ transport # c
  BY <1>2 DEF Course
<1>4. /\ \A d \in Connections : link'[d] = IF d = c THEN "connecting"
                                           ELSE IF d = transport THEN "closed" ELSE link[d]
      /\ \A d \in Connections :
             connectStep'[d] = IF d = c THEN "ready"
                           ELSE IF d = transport /\ connectStep[d] \in Waiting THEN "rejected"
                           ELSE connectStep[d]
  BY <1>1 DEF LinksClosed, AttemptsRejected
<1>5. Typed'
  <2>1. 0 \in 0..MaxSequence
    BY PageAssumption
  <2>2. link' \in [Connections -> Links]
    BY <1>1, <1>2 DEF LinksClosed, Typed, Links
  <2>3. connectStep' \in [Connections -> Attempts]
    BY <1>1, <1>2 DEF AttemptsRejected, Typed, Attempts
  <2>4. QED
    BY <1>1, <1>2, <2>1, <2>2, <2>3 DEF Typed
<1>6. PageIsOwned'
  BY <1>1, <1>4 DEF PageIsOwned, Owner
<1>7. ASSUME NEW d \in Connections
      PROVE  Course(d)'
  <2>1. Course(d)
    BY DEF PageInv
  <2>2. CASE d = c
    BY <1>1, <1>4, <2>2 DEF Course
  <2>3. CASE d # c /\ d = transport
    BY <1>1, <1>4, <2>1, <2>3 DEF Course, Live, Waiting, Ended
  <2>4. CASE d # c /\ d # transport
    BY <1>1, <1>4, <2>1, <2>4 DEF Course, Live, Waiting, Ended
  <2>5. QED
    BY <2>2, <2>3, <2>4
<1>8. SequenceOfTransport'
  BY <1>1, <1>3, ConnectionsNotNone DEF SequenceOfTransport
<1>9. FlagIsOneWrite'
  BY <1>1 DEF FlagIsOneWrite, PageInv
<1>10. QED
  BY <1>5, <1>6, <1>7, <1>8, <1>9 DEF PageInv

\* A step of one connection, which the page may or may not still be on, that moves it
\* along its course and touches nothing of the page's.
LEMMA CourseKeeps ==
    ASSUME PageInv, NEW c \in Connections,
           UNCHANGED <<writing, sent, session, inputSendInFlight, sequence, pressed>>,
           connectStep' \in [Connections -> Attempts], link' \in [Connections -> Links],
           \A d \in Connections \ {c} : connectStep'[d] = connectStep[d] /\ link'[d] = link[d],
           reading' \subseteq reading, Course(c)',
           transport = c => (connectStep'[c] = "connected" <=> connectStep[c] = "connected")
    PROVE  PageInv'
<1>1. Typed'
  BY DEF PageInv, Typed, session
<1>2. Owner' = Owner
  BY DEF PageInv, Typed, Owner, session
<1>3. PageIsOwned'
  BY <1>2 DEF PageInv, PageIsOwned, session
<1>4. ASSUME NEW d \in Connections
      PROVE  Course(d)'
  <2>1. Course(d)
    BY DEF PageInv
  <2>2. CASE d # c
    BY <2>1, <2>2 DEF Course, Live, session
  <2>3. QED
    BY <2>2
<1>5. SequenceOfTransport' /\ FlagIsOneWrite'
  BY DEF PageInv, SequenceOfTransport, FlagIsOneWrite, session
<1>6. QED
  BY <1>1, <1>3, <1>4, <1>5 DEF PageInv

\* A welcome makes the page its connection's: it comes only to the page's transport.
LEMMA WelcomeKeeps ==
    ASSUME PageInv, NEW c \in Connections, WelcomeArrives(c)
    PROVE  PageInv'
<1>1. /\ connectStep[c] = "welcome" /\ link[c] = "open"
      /\ localPlayerId' = c /\ timeline' = c /\ datagramWriter' = c
      /\ inputTimer' = c /\ animationFrame' = c
      /\ reading' = reading \cup {c}
      /\ connectStep' = [connectStep EXCEPT ![c] = "connected"]
      /\ UNCHANGED <<link, writing, sent, transport, inputSendInFlight, sequence, pressed>>
  BY DEF WelcomeArrives
<1>2. Typed /\ transport = c
  BY <1>1 DEF PageInv, Course, Waiting
<1>3. Typed'
  BY <1>1, <1>2 DEF Typed, Attempts
<1>4. connectStep'[c] = "connected" /\ \A d \in Connections : d # c => connectStep'[d] = connectStep[d]
  BY <1>1, <1>2 DEF Typed
<1>5. PageIsOwned'
  BY <1>1, <1>2, <1>4, ConnectionsNotNone DEF PageIsOwned, Owner
<1>6. ASSUME NEW d \in Connections
      PROVE  Course(d)'
  <2>1. Course(d)
    BY DEF PageInv
  <2>2. CASE d = c
    BY <1>1, <1>2, <1>4, <2>2 DEF Course
  <2>3. CASE d # c
    BY <1>1, <1>2, <1>4, <2>1, <2>3 DEF Course, Live
  <2>4. QED
    BY <2>2, <2>3
<1>7. SequenceOfTransport' /\ FlagIsOneWrite'
  BY <1>1 DEF PageInv, SequenceOfTransport, FlagIsOneWrite
<1>8. QED
  BY <1>3, <1>5, <1>6, <1>7 DEF PageInv

\* The input loop takes a sequence for the page's transport, and writes only when no
\* write is pending, be it one of an earlier connection.
LEMMA InputTickKeeps ==
    ASSUME PageInv, NEW c \in Connections, InputTick(c)
    PROVE  PageInv'
<1>1. /\ transport = c /\ datagramWriter # NoConnection /\ ~inputSendInFlight
      /\ inputSendInFlight' = TRUE /\ sequence' = nextSequence
      /\ sent' = [sent EXCEPT ![datagramWriter] =
                      [sequence |-> nextSequence, horizontal |-> horizontal]]
      /\ writing' = [writing EXCEPT ![datagramWriter] = @ + 1]
      /\ UNCHANGED <<connectStep, link, reading, session, pressed>>
  BY DEF InputTick
<1>2. Typed /\ PageIsOwned /\ FlagIsOneWrite
  BY DEF PageInv
<1>3. datagramWriter = c /\ connectStep[c] = "connected"
  BY <1>1, <1>2 DEF PageIsOwned, Owner
<1>4. nextSequence \in 0..MaxSequence
  BY <1>2, PageAssumption DEF nextSequence, Typed
<1>5. horizontal \in {-1, 0, 1}
  BY DEF horizontal
<1>6. /\ \A d \in Connections : writing[d] = 0
      /\ writing' = [writing EXCEPT ![c] = 1]
  <2>1. \A d \in Connections : writing[d] \in Nat /\ ~(writing[d] > 0)
    BY <1>1, <1>2 DEF FlagIsOneWrite, Typed
  <2>2. \A d \in Connections : writing[d] = 0
    BY <2>1
  <2>3. writing' = [writing EXCEPT ![c] = writing[c] + 1]
    BY <1>1, <1>3
  <2>4. writing[c] + 1 = 1
    BY <2>2
  <2>5. QED
    BY <2>2, <2>3, <2>4
<1>7. sent' = [sent EXCEPT ![c] = [sequence |-> nextSequence, horizontal |-> horizontal]]
  BY <1>1, <1>3
<1> HIDE DEF nextSequence, horizontal
<1>8. Typed'
  <2>1. sent' \in [Connections -> [sequence : 0..MaxSequence, horizontal : {-1, 0, 1}]]
    BY <1>2, <1>4, <1>5, <1>7 DEF Typed
  <2>2. writing' \in [Connections -> Nat]
    BY <1>2, <1>6 DEF Typed
  <2>3. QED
    BY <1>1, <1>2, <1>4, <2>1, <2>2 DEF Typed, session
<1>9. PageIsOwned'
  BY <1>1, <1>2 DEF PageIsOwned, Owner, session
<1>10. ASSUME NEW d \in Connections
       PROVE  Course(d)'
  <2>1. Course(d)
    BY DEF PageInv
  <2>2. d # c => sent'[d] = sent[d]
    BY <1>2, <1>7 DEF Typed
  <2>3. QED
    BY <1>1, <1>3, <2>1, <2>2 DEF Course, Live, session
<1>11. SequenceOfTransport'
  BY <1>1, <1>2, <1>7, ConnectionsNotNone DEF SequenceOfTransport, session, Typed
<1>12. FlagIsOneWrite'
  BY <1>1, <1>2, <1>6 DEF FlagIsOneWrite, Typed
<1>13. QED
  BY <1>8, <1>9, <1>10, <1>11, <1>12 DEF PageInv

\* The one write there is settles, and with it the flag.
LEMMA WriteSettlesKeeps ==
    ASSUME PageInv, NEW c \in Connections, WriteSettles(c)
    PROVE  PageInv'
<1>1. /\ writing[c] > 0 /\ writing' = [writing EXCEPT ![c] = @ - 1]
      /\ inputSendInFlight' = FALSE
      /\ UNCHANGED <<connectStep, link, reading, sent, session, sequence, pressed>>
  BY DEF WriteSettles
<1>2. Typed /\ FlagIsOneWrite
  BY DEF PageInv
<1>3. \A d \in Connections : writing'[d] = 0
  <2>1. writing[c] = 1 /\ \A d \in Connections \ {c} : ~(writing[d] > 0) /\ writing[d] \in Nat
    BY <1>1, <1>2 DEF FlagIsOneWrite, Typed
  <2>2. QED
    BY <1>1, <1>2, <2>1 DEF Typed
<1>4. Typed'
  <2>1. writing' = [d \in Connections |-> 0]
    BY <1>1, <1>2, <1>3 DEF Typed
  <2>2. writing' \in [Connections -> Nat]
    BY <2>1
  <2>3. /\ connectStep' = connectStep /\ link' = link /\ reading' = reading /\ sent' = sent
        /\ transport' = transport /\ sequence' = sequence /\ pressed' = pressed
    BY <1>1 DEF session
  <2>4. QED
    BY <1>1, <1>2, <2>2, <2>3 DEF Typed
<1>5. PageIsOwned' /\ SequenceOfTransport'
  BY <1>1 DEF PageInv, PageIsOwned, SequenceOfTransport, Owner, session
<1>6. ASSUME NEW d \in Connections
      PROVE  Course(d)'
  <2>1. Course(d)
    BY DEF PageInv
  <2>2. /\ connectStep' = connectStep /\ link' = link /\ reading' = reading
        /\ sent' = sent /\ transport' = transport /\ datagramWriter' = datagramWriter
    BY <1>1 DEF session
  <2>3. QED
    BY <2>1, <2>2 DEF Course, Live
<1>7. FlagIsOneWrite'
  BY <1>1, <1>3 DEF FlagIsOneWrite
<1>8. QED
  BY <1>4, <1>5, <1>6, <1>7 DEF PageInv

\* Every step of the page preserves the invariant.
LEMMA NextPage == PageInv /\ [PageNext]_page => PageInv'
<1> SUFFICES ASSUME PageInv, [PageNext]_page PROVE PageInv'
  OBVIOUS
<1>1. /\ connectStep \in [Connections -> Attempts] /\ link \in [Connections -> Links]
      /\ reading \in SUBSET Connections
      /\ \A c \in Connections : Course(c)
  BY DEF PageInv, Typed
<1>2. AttemptsRejected(transport) \in [Connections -> Attempts]
  BY <1>1 DEF AttemptsRejected, Attempts
<1>3. ASSUME NEW c \in Connections, Submit(c)
      PROVE  PageInv'
  BY <1>3, SubmitKeeps
<1>4. ASSUME NEW c \in Connections, SubmitFails(c)
      PROVE  PageInv'
  <2>1. disconnect /\ connectStep' = [AttemptsRejected(transport) EXCEPT ![c] = "rejected"]
    BY <1>4 DEF SubmitFails
  <2>2. connectStep' \in [Connections -> Attempts]
    BY <1>2, <2>1 DEF Attempts
  <2>3. QED
    BY <1>2, <2>1, <2>2, DisconnectKeeps
<1>5. ASSUME NEW c \in Connections, Catch(c)
      PROVE  PageInv'
  <2>1. disconnect /\ connectStep' = [AttemptsRejected(transport) EXCEPT ![c] = "done"]
    BY <1>5 DEF Catch
  <2>2. connectStep' \in [Connections -> Attempts]
    BY <1>2, <2>1 DEF Attempts
  <2>3. QED
    BY <1>2, <2>1, <2>2, DisconnectKeeps
<1>6. CASE ClickDisconnect
  <2>1. disconnect /\ connectStep' = AttemptsRejected(transport)
    BY <1>6 DEF ClickDisconnect
  <2>2. QED
    BY <1>2, <2>1, DisconnectKeeps
<1>7. ASSUME NEW c \in Connections, ClosedNoticed(c), transport = c, disconnect
      PROVE  PageInv'
  <2>1. connectStep' = [connectStep EXCEPT ![c] = "done"]
    BY <1>7 DEF ClosedNoticed
  <2>2. connectStep' \in [Connections -> Attempts]
    BY <1>1, <2>1 DEF Attempts
  <2>3. \A d \in Connections : d # c => connectStep'[d] = AttemptsRejected(transport)[d]
    BY <1>1, <1>7, <2>1 DEF AttemptsRejected
  <2>4. connectStep'[c] = "done"
    BY <1>1, <2>1
  <2>5. QED
    BY <1>7, <2>2, <2>3, <2>4, DisconnectKeeps
<1>8. ASSUME NEW c \in Connections, ClosedNoticed(c), transport # c
      PROVE  PageInv'
  <2>1. /\ connectStep[c] = "connected" /\ connectStep' = [connectStep EXCEPT ![c] = "done"]
        /\ UNCHANGED <<link, reading, writing, sent, session, inputSendInFlight, sequence, pressed>>
    BY <1>8 DEF ClosedNoticed
  <2>2. Course(c)'
    BY <1>1, <1>8, <2>1 DEF Course, Live, Waiting, session
  <2>3. connectStep' \in [Connections -> Attempts]
    BY <1>1, <2>1 DEF Attempts
  <2>4. QED
    BY <1>1, <1>8, <2>1, <2>2, <2>3, CourseKeeps
<1>9. ASSUME NEW c \in Connections, ReadyResolves(c)
      PROVE  PageInv'
  <2>1. /\ connectStep[c] = "ready" /\ link[c] = "connecting"
        /\ link' = [link EXCEPT ![c] = "open"]
        /\ connectStep' = [connectStep EXCEPT ![c] = IF transport = c THEN "welcome" ELSE "done"]
        /\ UNCHANGED <<reading, writing, sent, session, inputSendInFlight, sequence, pressed>>
    BY <1>9 DEF ReadyResolves
  <2>2. transport = c
    BY <1>1, <2>1 DEF Course, Waiting
  <2>3. /\ connectStep' \in [Connections -> Attempts] /\ link' \in [Connections -> Links]
        /\ connectStep'[c] = "welcome" /\ link'[c] = "open"
        /\ \A d \in Connections \ {c} : connectStep'[d] = connectStep[d] /\ link'[d] = link[d]
    BY <1>1, <2>1, <2>2 DEF Attempts, Links
  <2>4. Course(c)'
    BY <2>1, <2>2, <2>3 DEF Course, session
  <2>5. QED
    BY <2>1, <2>3, <2>4, CourseKeeps
<1>10. ASSUME NEW c \in Connections, WelcomeArrives(c)
       PROVE  PageInv'
  BY <1>10, WelcomeKeeps
<1>11. ASSUME NEW c \in Connections, WelcomeFails(c)
       PROVE  PageInv'
  <2>1. /\ connectStep[c] = "welcome"
        /\ connectStep' = [connectStep EXCEPT ![c] = "rejected"]
        /\ UNCHANGED <<link, reading, writing, sent, session, inputSendInFlight, sequence, pressed>>
    BY <1>11 DEF WelcomeFails
  <2>2. transport = c
    BY <1>1, <2>1 DEF Course, Waiting
  <2>3. /\ connectStep' \in [Connections -> Attempts] /\ connectStep'[c] = "rejected"
        /\ \A d \in Connections \ {c} : connectStep'[d] = connectStep[d]
    BY <1>1, <2>1 DEF Attempts
  <2>4. Course(c)'
    BY <2>1, <2>2, <2>3 DEF Course, session
  <2>5. QED
    BY <1>1, <2>1, <2>3, <2>4, CourseKeeps
<1>12. ASSUME NEW c \in Connections, LinkFails(c)
       PROVE  PageInv'
  <2>1. /\ link[c] \in {"connecting", "open"}
        /\ link' = [link EXCEPT ![c] = "failed"]
        /\ connectStep' = AttemptsRejected(c)
        /\ reading' = reading \ {c}
        /\ UNCHANGED <<writing, sent, session, inputSendInFlight, sequence, pressed>>
    BY <1>12 DEF LinkFails
  <2>2. transport = c
    BY <1>1, <2>1 DEF Course, Live
  <2>3. connectStep' \in [Connections -> Attempts] /\ link' \in [Connections -> Links]
    BY <1>1, <1>2, <2>1, <2>2 DEF Links
  <2>4. /\ link'[c] = "failed"
        /\ connectStep'[c] = IF connectStep[c] \in Waiting THEN "rejected" ELSE connectStep[c]
        /\ \A d \in Connections \ {c} : connectStep'[d] = connectStep[d] /\ link'[d] = link[d]
    BY <1>1, <2>1 DEF AttemptsRejected
  <2>5. Course(c)'
    BY <1>1, <2>1, <2>2, <2>4 DEF Course, Waiting, session
  <2>6. QED
    BY <2>1, <2>3, <2>4, <2>5, CourseKeeps DEF Waiting
<1>13. ASSUME NEW c \in Connections, SnapshotFails(c)
       PROVE  PageInv'
  <2>1. /\ reading' = reading \ {c}
        /\ UNCHANGED <<connectStep, link, writing, sent, session, inputSendInFlight, sequence, pressed>>
    BY <1>13 DEF SnapshotFails
  <2>2. Course(c)'
    BY <1>1, <2>1 DEF Course, Live, session
  <2>3. QED
    BY <1>1, <2>1, <2>2, CourseKeeps
<1>14. ASSUME NEW c \in Connections, InputTick(c) \/ WriteSettles(c)
       PROVE  PageInv'
  BY <1>14, InputTickKeeps, WriteSettlesKeeps
<1>15. ASSUME NEW key \in Keys, ToggleKey(key)
       PROVE  PageInv'
  <2>1. /\ pressed' \in SUBSET Keys
        /\ UNCHANGED <<connectStep, link, reading, writing, sent, session, inputSendInFlight, sequence>>
    BY <1>15 DEF ToggleKey, PageInv, Typed
  <2>2. QED
    BY <2>1 DEF PageInv, Typed, PageIsOwned, Owner, Course, Live, SequenceOfTransport,
                FlagIsOneWrite, session
<1>16. CASE UNCHANGED page
  BY <1>16 DEF PageInv, Typed, PageIsOwned, Owner, Course, Live, SequenceOfTransport,
               FlagIsOneWrite, session, page
<1>17. QED
  BY <1>3, <1>4, <1>5, <1>6, <1>7, <1>8, <1>9, <1>10, <1>11, <1>12, <1>13, <1>14, <1>15,
     <1>16 DEF PageNext, ClosedNoticed

\* In every turn of the event loop what the page shows is owned by its transport, every
\* superseded connection is closed, and the flag stands for the one write under way.
THEOREM PageInvariant == PageSpec => []PageInv
BY InitPage, NextPage, PTL DEF PageSpec

\* Between events the page is one session or none, whatever was submitted, failed or
\* settled late before (connect, disconnect and their callbacks in client.js).
THEOREM OneSessionShown == PageSpec => []PageHoldsOneSession
<1>1. PageInv => PageHoldsOneSession
  <2> SUFFICES ASSUME PageInv, ~PendingReaction PROVE PageHoldsOneSession
    BY DEF PageHoldsOneSession
  <2>1. /\ \A owner \in {datagramWriter, inputTimer, animationFrame, localPlayerId, timeline} :
               owner = IF transport # NoConnection /\ connectStep[transport] = "connected"
                       THEN transport ELSE NoConnection
    BY DEF PageInv, PageIsOwned, Owner
  <2>2. ASSUME NEW c \in Connections
        PROVE  /\ Live(c) <=> transport = c
               /\ connectStep[c] \in Waiting \/ c \in reading => transport = c
    <3>1. Course(c) /\ ~Reacting(c)
      BY DEF PageInv, PendingReaction
    <3>2. QED
      BY <3>1 DEF Course, Reacting, Live, Ended
  <2>3. /\ sequence = IF transport = NoConnection THEN 0 ELSE sent[transport].sequence
        /\ inputSendInFlight <=> \E c \in Connections : writing[c] > 0
        /\ \A c, d \in Connections : writing[c] > 0 /\ writing[d] > 0 => c = d /\ writing[c] = 1
    BY DEF PageInv, SequenceOfTransport, FlagIsOneWrite
  <2>4. QED
    BY <2>1, <2>2, <2>3 DEF PageHoldsOneSession
<1>2. QED
  BY <1>1, PageInvariant, PTL

=============================================================================
