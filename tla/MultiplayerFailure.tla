-------------------------- MODULE MultiplayerFailure --------------------------
(***************************************************************************)
(* What a failed service means to a multiplayer session                    *)
(* (web/lib/multiplayer-recovery.ts, simulateMultiplayerFailure) under the *)
(* controls of its exhibit (web/components/multiplayer-recovery-lab.tsx).  *)
(* One step changes one control.                                           *)
(***************************************************************************)
EXTENDS GlobalRegions

CONSTANT ServiceStates  \* "available" and the ways in which a service is not

ASSUME ServiceAssumption ==
    "available" \in ServiceStates /\ ServiceStates \subseteq {"available", "failed", "partitioned"}

VARIABLE session    \* the exhibit's controls

NoRelay == 0

Options ==
    [lifecycle |-> {"establishing", "established", "recovering"},
     signalingRegionId |-> Regions, signalingState |-> ServiceStates,
     directoryState |-> ServiceStates, gameplayPath |-> {"direct", "turn"},
     turnRegionId |-> Regions, turnState |-> ServiceStates,
     recoveryKind |-> {"ice-restart", "rejoin", "turn-reallocate"},
     replacementTurnRegionId |-> Regions, replacementTurnState |-> ServiceStates]

\* The input the exhibit derives from its controls.  Only the selected regions' states are
\* given, every other region counts as available.

effectiveRecoveryKind(s) ==
    IF s.gameplayPath = "direct" /\ s.recoveryKind = "turn-reallocate" THEN "ice-restart"
    ELSE s.recoveryKind

effectiveReplacementTurnState(s) ==
    IF s.replacementTurnRegionId = s.turnRegionId THEN s.turnState ELSE s.replacementTurnState

replacementRelevant(s) == s.lifecycle = "recovering" /\ effectiveRecoveryKind(s) = "turn-reallocate"

\* The replacement is written after the active relay.
turnStateByRegion(s) ==
    [r \in Regions |->
        CASE s.gameplayPath = "direct" -> "available"
          [] s.gameplayPath = "turn" /\ replacementRelevant(s) /\ r = s.replacementTurnRegionId ->
                 effectiveReplacementTurnState(s)
          [] OTHER -> IF r = s.turnRegionId THEN s.turnState ELSE "available"]

InputOf(s) ==
    [lifecycle |-> s.lifecycle, directoryState |-> s.directoryState, gameplayPath |-> s.gameplayPath,
     signalingRegionId |-> s.signalingRegionId,
     signalingStateByRegion |->
         [r \in Regions |-> IF r = s.signalingRegionId THEN s.signalingState ELSE "available"],
     recoveryKind |-> IF s.lifecycle = "recovering" THEN effectiveRecoveryKind(s) ELSE "none",
     turnRegionId |-> IF s.gameplayPath = "turn" THEN s.turnRegionId ELSE NoRelay,
     turnStateByRegion |-> turnStateByRegion(s),
     replacementTurnRegionId |-> IF s.gameplayPath = "turn" /\ replacementRelevant(s)
                                 THEN s.replacementTurnRegionId ELSE NoRelay]

\* What validateInput accepts.
Valid(input) ==
    /\ (input.lifecycle = "recovering") <=> (input.recoveryKind # "none")
    /\ (input.gameplayPath = "turn") <=> (input.turnRegionId # NoRelay)
    /\ (input.recoveryKind = "turn-reallocate") <=> (input.replacementTurnRegionId # NoRelay)
    /\ input.recoveryKind = "turn-reallocate" => input.gameplayPath = "turn"

\* Services by name and region, the directory being global.
Directory == <<"directory", NoRelay>>
Signaling(input) == <<"signaling", input.signalingRegionId>>
Relay(r) == <<"turn", r>>

isAvailable(input, service) ==
    "available" = CASE service[1] = "directory" -> input.directoryState
                    [] service[1] = "signaling" -> input.signalingStateByRegion[service[2]]
                    [] service[1] = "turn" -> input.turnStateByRegion[service[2]]

requiredControlPlane(input) ==
    CASE input.lifecycle = "establishing" -> {Directory, Signaling(input)}
      [] input.lifecycle = "established" -> {}
      [] input.lifecycle = "recovering" ->
             {Signaling(input)} \cup (IF input.recoveryKind = "rejoin" THEN {Directory} ELSE {})

dataPathAvailable(input) ==
    input.gameplayPath = "direct" \/ isAvailable(input, Relay(input.turnRegionId))

operationAvailable(input) ==
    /\ \A service \in requiredControlPlane(input) : isAvailable(input, service)
    /\ input.lifecycle # "recovering" => dataPathAvailable(input)
    /\ input.recoveryKind = "turn-reallocate" => isAvailable(input, Relay(input.replacementTurnRegionId))

gameplayAvailable(input) == input.lifecycle = "established" /\ dataPathAvailable(input)

blockers(input) ==
    {service \in {Directory, Signaling(input)}
         \cup {Relay(r) : r \in {input.turnRegionId, input.replacementTurnRegionId} \ {NoRelay}} :
     ~isAvailable(input, service)}

-----------------------------------------------------------------------------

\* The controls as the page first shows them.
DefaultSession ==
    [lifecycle |-> "established", signalingRegionId |-> 1, signalingState |-> "available",
     directoryState |-> "available", gameplayPath |-> "direct", turnRegionId |-> 1,
     turnState |-> "available", recoveryKind |-> "ice-restart",
     replacementTurnRegionId |-> 2, replacementTurnState |-> "available"]

SessionInit == session = DefaultSession

\* Controls without a meaning at the moment are disabled.
Relevant(control) ==
    CASE control \in {"turnRegionId", "turnState"} -> session.gameplayPath = "turn"
      [] control = "recoveryKind" -> session.lifecycle = "recovering"
      [] control = "replacementTurnRegionId" -> replacementRelevant(session)
      [] control = "replacementTurnState" ->
             replacementRelevant(session) /\ session.replacementTurnRegionId # session.turnRegionId
      [] OTHER -> TRUE

ChangeControl ==
    \E control \in DOMAIN Options : \E x \in Options[control] :
        /\ Relevant(control)
        /\ control = "recoveryKind" => (x = "turn-reallocate" => session.gameplayPath = "turn")
        /\ session' = [session EXCEPT ![control] = x]

SessionSpec == SessionInit /\ [][ChangeControl]_session

-----------------------------------------------------------------------------

\* However the visitor has set the controls, the simulation accepts its input and shows the
\* relays in the state chosen for them.
ControlsAreConsistent ==
    LET input == InputOf(session)
    IN  /\ Valid(input)
        /\ session.gameplayPath = "turn" =>
               (isAvailable(input, Relay(session.turnRegionId)) <=> session.turnState = "available")

\* Only what an operation depends on can stop it: no other region's signaling or relay, not the
\* directory once the room is known, and for an established session nothing but its relay.
OnlyDependenciesMatter ==
    LET input == InputOf(session)
        relays == {input.turnRegionId, input.replacementTurnRegionId}
        same(other) == /\ operationAvailable(other) = operationAvailable(input)
                       /\ gameplayAvailable(other) = gameplayAvailable(input)
        signalingOut(r) == [input EXCEPT !.signalingStateByRegion[r] = "failed"]
    IN  /\ \A r \in Regions :
               /\ r # input.signalingRegionId \/ input.lifecycle = "established" => same(signalingOut(r))
               /\ r \notin relays => same([input EXCEPT !.turnStateByRegion[r] = "failed"])
        /\ input.lifecycle = "established" \/ input.recoveryKind \in {"ice-restart", "turn-reallocate"} =>
               same([input EXCEPT !.directoryState = "partitioned"])

\* What is unavailable has a reason on the list, setting up needs everything on it healed, and a
\* relay that is down is never its own replacement.
BlockersExplain ==
    LET input == InputOf(session)
    IN  /\ ~operationAvailable(input) => blockers(input) # {}
        /\ input.lifecycle = "establishing" => (operationAvailable(input) <=> blockers(input) = {})
        /\ input.recoveryKind = "turn-reallocate" /\ session.turnState # "available"
               /\ operationAvailable(input) => input.replacementTurnRegionId # input.turnRegionId

SessionHolds == ControlsAreConsistent /\ OnlyDependenciesMatter /\ BlockersExplain

=============================================================================
