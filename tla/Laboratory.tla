------------------------------ MODULE Laboratory ------------------------------
(***************************************************************************)
(* The exhibits of the web site side by side (web/app/page.tsx,            *)
(* web/components/deeper-systems-lab.tsx) and the page that draws the      *)
(* game (authoritative/web), together with the programs of native/.  A     *)
(* visitor chooses the settings of one exhibit and its program runs; the   *)
(* exhibits share nothing, and the others keep showing what their default  *)
(* settings give.                                                          *)
(***************************************************************************)
EXTENDS RequestSimulation, CapModel, CacheModel, LaboratoryPromises, ShardingModel,
        Prediction, GlobalLaboratory, Protocol

(* The native experiments and the frames of the authoritative protocol. *)

natives == <<loopback, udp, experiment, wire>>

NativeInit ==
    /\ loopback = LoopbackOf(Default(DropSettings))
    /\ udp = UdpStart
    /\ experiment = ExperimentStart
    /\ wire = Default(Wires)

Loopback ==
    /\ \/ Choose("loopback") /\ loopback' \in {LoopbackOf(drop) : drop \in DropSettings}
       \/ Shows("loopback") /\ LoopbackStep
    /\ UNCHANGED <<udp, experiment, wire>>

Netem ==
    /\ \/ Choose("netem") /\ UNCHANGED udp
       \/ Shows("netem") /\ UdpStep
    /\ UNCHANGED <<loopback, experiment, wire>>

Coordinator ==
    /\ \/ Choose("processes") /\ UNCHANGED experiment
       \/ Shows("processes") /\ ExperimentStep
    /\ UNCHANGED <<loopback, udp, wire>>

Wire ==
    /\ \/ Choose("wire") /\ wire' \in Wires
       \/ Shows("wire") /\ Damage
    /\ UNCHANGED <<loopback, udp, experiment>>

NativeNext == Loopback \/ Netem \/ Coordinator \/ Wire

-----------------------------------------------------------------------------

(* All exhibits. *)

\* The exhibits of the other pages.
local == <<simulation, cap, cache, admission, flow, sharding, presentation>>

labs == <<exhibit, local, globals, natives>>

Init ==
    /\ exhibit = "none"
    /\ simulation = SimulationOf(Default(SimulationSettings))
    /\ cap = CapOf(Default(CapSettings))
    /\ cache = CacheOf(Default(CacheSettings))
    /\ admission = AdmissionOf(Default(AdmissionSettings))
    /\ flow = FlowOf(Default(FlowSettings))
    /\ sharding = ShardingOf(Default(ShardingSettings))
    /\ presentation = Default(Presentations)
    /\ GlobalInit /\ NativeInit

Requests ==
    /\ \/ Choose("requests") /\ simulation' \in {SimulationOf(c) : c \in SimulationSettings}
       \/ Shows("requests") /\ Arrive
    /\ UNCHANGED <<cap, cache, admission, flow, sharding, presentation>>

Partition ==
    /\ \/ Choose("cap") /\ cap' \in {CapOf(c) : c \in CapSettings}
       \/ Shows("cap") /\ Operate
    /\ UNCHANGED <<simulation, cache, admission, flow, sharding, presentation>>

Caching ==
    /\ \/ Choose("cache") /\ cache' \in {CacheOf(c) : c \in CacheSettings}
       \/ Shows("cache") /\ CacheOperation
    /\ UNCHANGED <<simulation, cap, admission, flow, sharding, presentation>>

Admission ==
    /\ \/ Choose("admission") /\ admission' \in {AdmissionOf(c) : c \in AdmissionSettings}
       \/ Shows("admission") /\ Offer
    /\ UNCHANGED <<simulation, cap, cache, flow, sharding, presentation>>

Connections ==
    /\ \/ Choose("flow") /\ flow' \in {FlowOf(c) : c \in FlowSettings}
       \/ Shows("flow") /\ Schedule
    /\ UNCHANGED <<simulation, cap, cache, admission, sharding, presentation>>

Sharding ==
    /\ \/ Choose("sharding") /\ sharding' \in {ShardingOf(c) : c \in ShardingSettings}
       \/ Shows("sharding") /\ AddNode
    /\ UNCHANGED <<simulation, cap, cache, admission, flow, presentation>>

Game ==
    /\ \/ Choose("game") /\ presentation' \in Presentations
       \/ Shows("game") /\ PresentationStep
    /\ UNCHANGED <<simulation, cap, cache, admission, flow, sharding>>

Next ==
    \/ /\ Requests \/ Partition \/ Caching \/ Admission \/ Connections \/ Sharding \/ Game
       /\ UNCHANGED <<globals, natives>>
    \/ GlobalNext /\ UNCHANGED <<local, natives>>
    \/ NativeNext /\ UNCHANGED <<local, globals>>

Spec == Init /\ [][Next]_labs

=============================================================================
