--------------------------- MODULE GlobalLaboratory ---------------------------
(***************************************************************************)
(* The exhibits of the /global page (web/app/global/page.tsx) and the      *)
(* leader election, side by side.  They share nothing but the regions; an  *)
(* exhibit's controls are its settings, or steps of its own where they are *)
(* what the exhibit is about.                                              *)
(***************************************************************************)
EXTENDS GlobalIngress, RoomAuthority, GameplayLatency, MultiplayerFailure, FleetPlacement,
        ServerDistribution, Election

(* A visit: one exhibit is chosen and runs, the others keep showing what their default settings give. *)

VARIABLE exhibit    \* the exhibit that runs, "none" before the visitor has chosen

Default(settings) == CHOOSE c \in settings : TRUE

\* The visitor chooses an exhibit, whose step and settings the caller adds.
Choose(name) == exhibit = "none" /\ exhibit' = name

Shows(name) == exhibit = name /\ UNCHANGED exhibit

-----------------------------------------------------------------------------

globals == <<ingress, authority, latency, session, fleet, distribution, election>>

\* The directory's authority as the exhibit simulates it: Frankfurt leads and fails.
DirectoryRecovery ==
    directoryAuthorityRecovery(Regions, 2, [startMs |-> 100, endMs |-> 900],
        [initialTerm |-> 7, heartbeatIntervalMs |-> 50, electionTimeoutMs |-> 150,
         electionDurationMs |-> 40])

\* The recovery page's election of five nodes, which the visitor may deprive of its majority.
PageElections ==
    {[failures |-> << <<[startMs |-> 1000, endMs |-> 3200]>>, others, others, <<>>, <<>> >>,
      initialLeaderId |-> 1, initialTerm |-> 7, heartbeatIntervalMs |-> 100,
      electionTimeoutMs |-> timeout, electionDurationMs |-> duration] :
        others \in {<<>>, <<[startMs |-> 0, endMs |-> 4000]>>},
        timeout \in {200, 400, 1200}, duration \in {50, 250, 800}}

GlobalInit ==
    /\ ingress = IngressOf(Default(IngressSettings))
    /\ authority = AuthorityOf(Default(RoomSettings))
    /\ LatencyInit /\ SessionInit
    /\ fleet = FleetOf(Default(FleetSettings))
    /\ distribution = DistributionOf(Default(DistributionSettings))
    /\ election = ElectionOf(DirectoryRecovery)

Ingress ==
    /\ \/ Choose("ingress") /\ ingress' \in {IngressOf(c) : c \in IngressSettings}
       \/ Shows("ingress") /\ Route
    /\ UNCHANGED <<authority, latency, session, fleet, distribution, election>>

RoomOwner ==
    /\ \/ Choose("authority") /\ authority' \in {AuthorityOf(c) : c \in RoomSettings}
       \/ Shows("authority") /\ ResolveClient
    /\ UNCHANGED <<ingress, latency, session, fleet, distribution, election>>

Latency ==
    /\ \/ Choose("latency") /\ UNCHANGED latency
       \/ Shows("latency") /\ ChangeLatencyControl
    /\ UNCHANGED <<ingress, authority, session, fleet, distribution, election>>

SessionRecovery ==
    /\ \/ Choose("session") /\ UNCHANGED session
       \/ Shows("session") /\ ChangeControl
    /\ UNCHANGED <<ingress, authority, latency, fleet, distribution, election>>

Fleet ==
    /\ \/ Choose("fleet") /\ fleet' \in {FleetOf(c) : c \in FleetSettings}
       \/ Shows("fleet") /\ PlaceRoom
    /\ UNCHANGED <<ingress, authority, latency, session, distribution, election>>

Servers ==
    /\ \/ Choose("servers") /\ distribution' \in {DistributionOf(c) : c \in DistributionSettings}
       \/ Shows("servers") /\ AssignRoom
    /\ UNCHANGED <<ingress, authority, latency, session, fleet, election>>

Elections == ElectionSettings \cup PageElections \cup {DirectoryRecovery}

Leadership ==
    /\ \/ Choose("election") /\ election' \in {ElectionOf(c) : c \in Elections}
       \/ Shows("election") /\ ElectionStep
    /\ UNCHANGED <<ingress, authority, latency, session, fleet, distribution>>

GlobalNext ==
    Ingress \/ RoomOwner \/ Latency \/ SessionRecovery \/ Fleet \/ Servers \/ Leadership

-----------------------------------------------------------------------------

\* Rooms of a fleet and of a region's servers stay within health and capacity, are turned away
\* only when nothing fits, and move no more than a failure forces them to.
PlacementsHold == FleetPlacementsHold /\ DistributionHolds

\* Players reach healthy regions, agree on the one owner of their room, and lose only what
\* depends on a service that failed.
GlobalPromises == RoutedToHealthy /\ AuthorityHolds /\ LatencyHolds /\ SessionHolds

=============================================================================
