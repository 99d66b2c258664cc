---------------------------- MODULE BrowserClient ----------------------------
(***************************************************************************)
(* The page's session (authoritative/web/client.js): the variables of the  *)
(* page that successive connections share, and the callbacks of each       *)
(* connection that outlive it.  A form submission supersedes whatever      *)
(* connection there is; its callbacks tell it from its successor, when     *)
(* they do, by comparing transports.                                       *)
(*                                                                         *)
(* A turn of the event loop runs with all the promise reactions it causes, *)
(* so an event and the continuation it resumes are one action.  Closing a  *)
(* WebTransport rejects at once what waits for it; the reactions that have *)
(* to run before the next event are those of PendingReaction.  Writes are  *)
(* the exception: a write already handed over settles in its own time.     *)
(*                                                                         *)
(* Of the two axes one is modelled; frames only draw, and a snapshot's     *)
(* effect on the timeline is PresentationTimeline's.                       *)
(***************************************************************************)
EXTENDS Integers

CONSTANTS
    MaxConnects,        \* bound: submissions of the form
    MaxSequence         \* 2^32 - 1: the input sequence wraps there

ASSUME PageAssumption == MaxConnects \in Nat \ {0} /\ MaxSequence \in Nat \ {0}

Connections == 1..MaxConnects
NoConnection == 0       \* null
Keys == {"ArrowLeft", "ArrowRight"}

VARIABLES
    connectStep,            \* where the connect() of a connection is
    link,               \* its WebTransport
    reading,            \* the connections whose consumeSnapshots runs
    writing,            \* the number of a connection's writes that have not settled
    sent,               \* the last input written to a connection
    transport, datagramWriter, inputTimer, animationFrame, localPlayerId, timeline,
                        \* the page's, each by the connection it belongs to
    inputSendInFlight, sequence, pressed

session == <<transport, datagramWriter, inputTimer, animationFrame, localPlayerId, timeline>>
page == <<connectStep, link, reading, writing, sent, session, inputSendInFlight, sequence, pressed>>

\* What updateAxes makes of the pressed keys.
horizontal ==
    (IF "ArrowRight" \in pressed THEN 1 ELSE 0) - (IF "ArrowLeft" \in pressed THEN 1 ELSE 0)

Waiting == {"ready", "welcome"}
Ended == {"closed", "failed"}

PageInit ==
    /\ connectStep = [c \in Connections |-> "none"]
    /\ link = [c \in Connections |-> "none"]
    /\ reading = {}
    /\ writing = [c \in Connections |-> 0]
    /\ sent = [c \in Connections |-> [sequence |-> 0, horizontal |-> 0]]
    /\ transport = NoConnection /\ datagramWriter = NoConnection /\ inputTimer = NoConnection
    /\ animationFrame = NoConnection /\ localPlayerId = NoConnection /\ timeline = NoConnection
    /\ inputSendInFlight = FALSE /\ sequence = 0 /\ pressed = {}

-----------------------------------------------------------------------------

(* disconnect(), in the parts its callers put together. *)

\* Mutant of resetPage: the flag of a write that is still pending is cleared as well.
resetPage_ForgetsWrite ==
    /\ datagramWriter' = NoConnection /\ inputTimer' = NoConnection /\ animationFrame' = NoConnection
    /\ localPlayerId' = NoConnection /\ timeline' = NoConnection
    /\ sequence' = 0 /\ pressed' = {} /\ inputSendInFlight' = FALSE
    /\ UNCHANGED <<writing, sent>>

\* Timer, frame and writer are given up, and resetUi clears the rest.
resetPage ==
    /\ datagramWriter' = NoConnection /\ inputTimer' = NoConnection /\ animationFrame' = NoConnection
    /\ localPlayerId' = NoConnection /\ timeline' = NoConnection
    /\ sequence' = 0 /\ pressed' = {}
    /\ UNCHANGED <<inputSendInFlight, writing, sent>>

\* close() of the page's transport: what waits for it is rejected, its reads end.
LinksClosed == [c \in Connections |-> IF c = transport THEN "closed" ELSE link[c]]

AttemptsRejected(ended) ==
    [c \in Connections |-> IF c = ended /\ connectStep[c] \in Waiting THEN "rejected" ELSE connectStep[c]]

disconnect ==
    /\ resetPage
    /\ transport' = NoConnection
    /\ link' = LinksClosed
    /\ reading' = reading \ {transport}

\* Reactions to run before the next event: the catch of a rejected connect(), the
\* handlers on closed.
Reacting(c) == connectStep[c] = "rejected" \/ (connectStep[c] = "connected" /\ link[c] \in Ended)
PendingReaction == \E c \in Connections : Reacting(c)

-----------------------------------------------------------------------------

(* connect() *)

NextConnection(c) ==
    /\ ~PendingReaction
    /\ connectStep[c] = "none" /\ \A d \in 1..(c - 1) : connectStep[d] # "none"

\* The form is submitted: disconnect, then a transport of its own.
Submit(c) ==
    /\ NextConnection(c)
    /\ resetPage
    /\ transport' = c
    /\ link' = [LinksClosed EXCEPT ![c] = "connecting"]
    /\ reading' = reading \ {transport}
    /\ connectStep' = [AttemptsRejected(transport) EXCEPT ![c] = "ready"]

\* There is no WebTransport, or it does not take the endpoint.
SubmitFails(c) ==
    /\ NextConnection(c)
    /\ disconnect
    /\ connectStep' = [AttemptsRejected(transport) EXCEPT ![c] = "rejected"]

ReadyResolves(c) ==
    /\ ~PendingReaction
    /\ connectStep[c] = "ready" /\ link[c] = "connecting"
    /\ link' = [link EXCEPT ![c] = "open"]
    /\ connectStep' = [connectStep EXCEPT ![c] = IF transport = c THEN "welcome" ELSE "done"]
    /\ UNCHANGED <<reading, writing, sent, session, inputSendInFlight, sequence, pressed>>

\* The welcome is complete and the loops start.
WelcomeArrives(c) ==
    /\ ~PendingReaction
    /\ connectStep[c] = "welcome" /\ link[c] = "open"
    /\ localPlayerId' = c /\ timeline' = c /\ datagramWriter' = c
    /\ inputTimer' = c /\ animationFrame' = c
    /\ reading' = reading \cup {c}
    /\ connectStep' = [connectStep EXCEPT ![c] = "connected"]
    /\ UNCHANGED <<link, writing, sent, transport, inputSendInFlight, sequence, pressed>>

\* readWelcome throws: no stream, the wrong length, another protocol.
WelcomeFails(c) ==
    /\ ~PendingReaction
    /\ connectStep[c] = "welcome" /\ link[c] = "open"
    /\ connectStep' = [connectStep EXCEPT ![c] = "rejected"]
    /\ UNCHANGED <<link, reading, writing, sent, session, inputSendInFlight, sequence, pressed>>

\* connect(...).catch: it disconnects whatever transport the page has by now.
Catch(c) ==
    /\ connectStep[c] = "rejected"
    /\ disconnect
    /\ connectStep' = [AttemptsRejected(transport) EXCEPT ![c] = "done"]

-----------------------------------------------------------------------------

(* A connection's end. *)

\* The network or the server ends the session.
LinkFails(c) ==
    /\ ~PendingReaction
    /\ link[c] \in {"connecting", "open"}
    /\ link' = [link EXCEPT ![c] = "failed"]
    /\ connectStep' = AttemptsRejected(c)
    /\ reading' = reading \ {c}
    /\ UNCHANGED <<writing, sent, session, inputSendInFlight, sequence, pressed>>

\* currentTransport.closed.then, for the page's own transport and for an earlier one.
ClosedNoticed(c) ==
    /\ connectStep[c] = "connected" /\ link[c] \in Ended
    /\ connectStep' = [connectStep EXCEPT ![c] = "done"]
    /\ \/ transport = c /\ disconnect
       \/ /\ transport # c
          /\ UNCHANGED <<link, reading, writing, sent, session, inputSendInFlight, sequence, pressed>>

\* The button is enabled while the page is connected.
ClickDisconnect ==
    /\ ~PendingReaction
    /\ datagramWriter # NoConnection
    /\ disconnect
    /\ connectStep' = AttemptsRejected(transport)

\* consumeSnapshots ends with a datagram that does not decode; the session goes on.
SnapshotFails(c) ==
    /\ ~PendingReaction
    /\ c \in reading
    /\ reading' = reading \ {c}
    /\ UNCHANGED <<connectStep, link, writing, sent, session, inputSendInFlight, sequence, pressed>>

-----------------------------------------------------------------------------

(* Keys and the input loop. *)

ToggleKey(key) ==
    /\ ~PendingReaction
    /\ pressed' = IF key \in pressed THEN pressed \ {key} ELSE pressed \cup {key}
    /\ UNCHANGED <<connectStep, link, reading, writing, sent, session, inputSendInFlight, sequence>>

\* Unsigned increment that skips the reserved 0.
nextSequence == IF sequence = MaxSequence THEN 1 ELSE sequence + 1

\* The interval fires: sendCurrentInput up to its await.
InputTick(c) ==
    /\ ~PendingReaction
    /\ inputTimer = c
    /\ transport = c /\ datagramWriter # NoConnection /\ ~inputSendInFlight
    /\ inputSendInFlight' = TRUE
    /\ sequence' = nextSequence
    /\ sent' = [sent EXCEPT ![datagramWriter] =
                   [sequence |-> nextSequence, horizontal |-> horizontal]]
    /\ writing' = [writing EXCEPT ![datagramWriter] = @ + 1]
    /\ UNCHANGED <<connectStep, link, reading, session, pressed>>

\* Mutant of WriteSettles: a write that fails leaves the flag set.
WriteSettles_OnlySuccessClears(c) ==
    /\ ~PendingReaction
    /\ writing[c] > 0
    /\ writing' = [writing EXCEPT ![c] = @ - 1]
    /\ \E failed \in BOOLEAN : inputSendInFlight' = failed
    /\ UNCHANGED <<connectStep, link, reading, sent, session, sequence, pressed>>

\* The write succeeds or fails; the connection it was for may be gone.
WriteSettles(c) ==
    /\ ~PendingReaction
    /\ writing[c] > 0
    /\ writing' = [writing EXCEPT ![c] = @ - 1]
    /\ inputSendInFlight' = FALSE
    /\ UNCHANGED <<connectStep, link, reading, sent, session, sequence, pressed>>

PageNext ==
    \/ \E c \in Connections :
           \/ Submit(c) \/ SubmitFails(c)
           \/ ReadyResolves(c) \/ WelcomeArrives(c) \/ WelcomeFails(c) \/ Catch(c)
           \/ LinkFails(c) \/ ClosedNoticed(c) \/ SnapshotFails(c)
           \/ InputTick(c) \/ WriteSettles(c)
    \/ ClickDisconnect
    \/ \E key \in Keys : ToggleKey(key)

PageSpec == PageInit /\ [][PageNext]_page

\* The event loop runs reactions and timers, and the browser settles every write.
PageFairness ==
    \A c \in Connections :
        /\ WF_page(Catch(c)) /\ WF_page(ClosedNoticed(c))
        /\ WF_page(InputTick(c)) /\ WF_page(WriteSettles(c))

FairPageSpec == PageSpec /\ PageFairness

-----------------------------------------------------------------------------

Live(c) == link[c] \in {"connecting", "open"}

\* Between events the page is one session or none: timer, frame, writer, player and timeline
\* belong to its transport, no superseded transport is left open, waited for or read, the
\* sequence is the one last sent on it, and the flag stands for exactly one pending write,
\* be it of an earlier connection.
PageHoldsOneSession ==
    ~PendingReaction =>
        /\ \A owner \in {datagramWriter, inputTimer, animationFrame, localPlayerId, timeline} :
               owner = IF transport # NoConnection /\ connectStep[transport] = "connected"
                       THEN transport ELSE NoConnection
        /\ \A c \in Connections :
               /\ Live(c) <=> transport = c
               /\ connectStep[c] \in Waiting \/ c \in reading => transport = c
        /\ sequence = IF transport = NoConnection THEN 0 ELSE sent[transport].sequence
        /\ inputSendInFlight <=> \E c \in Connections : writing[c] > 0
        /\ \A c, d \in Connections : writing[c] > 0 /\ writing[d] > 0 => c = d /\ writing[c] = 1

\* Whatever became of the writes before, those of earlier connections included, once the keys
\* rest a connected page keeps sending what they ask for.
IntentIsSent ==
    \A c \in Connections : \A axis \in {-1, 0, 1} :
        <>[](datagramWriter = c /\ horizontal = axis)
            => /\ <>[](sent[c].horizontal = axis)
               /\ []<>(writing[c] = 0) /\ []<>(writing[c] = 1)

=============================================================================
