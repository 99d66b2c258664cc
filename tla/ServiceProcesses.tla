--------------------------- MODULE ServiceProcesses ---------------------------
(***************************************************************************)
(* The native multi-process experiment                                     *)
(* (native/src/bin/multiplayer-recovery-experiment.rs): a coordinator      *)
(* starts service processes, stops some, and probes the others between.    *)
(* A process may die on its own, a start may fail, and a probe may time    *)
(* out although its service is up.                                         *)
(***************************************************************************)
EXTENDS MultiplayerFailure, Sequences

CONSTANT MaxFaults  \* bound on processes that die and probes that time out

ASSUME FaultsAssumption == MaxFaults \in Nat

VARIABLE experiment     \* at: the next step of the script; running: the live processes;
                        \* report: of every probe whether it was answered, and the processes
                        \* that were live then; slow: the probes that timed out for no reason;
                        \* died: the processes that ended on their own;
                        \* result: "none", "reported" or "failed"

Starts(name) == [do |-> "spawn", services |-> <<name>>, field |-> "none"]
Stops(name) == [do |-> "stop", services |-> <<name>>, field |-> "none"]
Asks(field, services) == [do |-> "probe", services |-> services, field |-> field]

Script ==
    << Starts("directory"), Starts("signaling"), Starts("direct-gameplay"), Starts("turn-primary"),
       Asks("baseline_directory", <<"directory">>), Asks("baseline_signaling", <<"signaling">>),
       Asks("baseline_direct_gameplay", <<"direct-gameplay">>),
       Asks("baseline_turn_relay", <<"turn-primary">>),
       Stops("directory"),
       Asks("setup_with_directory_down", <<"directory", "signaling">>),
       Asks("direct_with_directory_down", <<"direct-gameplay">>),
       Stops("signaling"),
       Asks("ice_restart_with_signaling_down", <<"signaling">>),
       Asks("direct_with_signaling_down", <<"direct-gameplay">>),
       Starts("signaling-replacement"), Stops("turn-primary"),
       Asks("direct_with_turn_down", <<"direct-gameplay">>),
       Asks("relayed_with_active_turn_down", <<"turn-primary">>),
       Starts("turn-replacement"),
       Asks("turn_reallocation_with_replacement", <<"signaling-replacement", "turn-replacement">>) >>

ExperimentStart ==
    [at |-> 1, running |-> {}, report |-> {}, slow |-> {}, died |-> {}, result |-> "none"]

Step(do) == experiment.result = "none" /\ experiment.at <= Len(Script) /\ Script[experiment.at].do = do

Services == Range(Script[experiment.at].services)

\* The process comes up and answers under its name.
SpawnService ==
    /\ Step("spawn")
    /\ experiment' = [experiment EXCEPT !.at = @ + 1, !.running = @ \cup Services]

\* The coordinator gives up with an error, which drops the other processes.  The one at hand
\* stays if it could not be asked for its state or killed.
GivesUp(do) ==
    /\ Step(do)
    /\ \E left \in SUBSET Services :
           experiment' = [experiment EXCEPT !.running = left, !.result = "failed"]

\* The process exits, is killed as it does not answer in time, or cannot be asked.
SpawnFails == GivesUp("spawn")
StopFails == GivesUp("stop")

\* Killed and waited for, unless it has exited already.
StopService ==
    /\ Step("stop")
    /\ experiment' = [experiment EXCEPT !.at = @ + 1, !.running = @ \ Services]

Faulty == Cardinality(experiment.died) + Cardinality(experiment.slow) < MaxFaults

\* The services are asked in turn until one does not answer.
ProbeServices ==
    /\ Step("probe")
    /\ LET up == Services \subseteq experiment.running
           field == Script[experiment.at].field
       IN  \E answered \in (IF Faulty THEN {FALSE, up} ELSE {up}) :
               experiment' = [experiment EXCEPT
                   !.at = @ + 1,
                   !.report = @ \cup {[field |-> field, answered |-> answered, live |-> experiment.running]},
                   !.slow = IF answered = up THEN @ ELSE @ \cup {field}]

\* A service ends with the error of a connection.
ServiceDies ==
    /\ experiment.result = "none" /\ Faulty
    /\ \E name \in experiment.running :
           experiment' = [experiment EXCEPT !.running = @ \ {name}, !.died = @ \cup {name}]

\* The coordinator returns and drops its processes.
Finish ==
    /\ experiment.result = "none" /\ experiment.at > Len(Script)
    /\ experiment' = [experiment EXCEPT !.running = {}, !.result = "reported"]

ExperimentStep ==
    \/ SpawnService \/ SpawnFails \/ StopService \/ StopFails
    \/ ProbeServices \/ ServiceDies \/ Finish

ExperimentSpec == experiment = ExperimentStart /\ [][ExperimentStep]_experiment

\* What the gate wants: every baseline, and what does not depend on the stopped service.
expectations_hold ==
    \A probe \in experiment.report :
        probe.answered <=>
            probe.field \notin {"setup_with_directory_down", "ice_restart_with_signaling_down",
                                "relayed_with_active_turn_down"}

-----------------------------------------------------------------------------

\* The operation of the browser's model that a probe stands for.
Operation(field) ==
    CASE field = "setup_with_directory_down" -> [DefaultSession EXCEPT !.lifecycle = "establishing"]
      [] field = "ice_restart_with_signaling_down" -> [DefaultSession EXCEPT !.lifecycle = "recovering"]
      [] field = "relayed_with_active_turn_down" -> [DefaultSession EXCEPT !.gameplayPath = "turn"]
      [] field = "turn_reallocation_with_replacement" ->
             [DefaultSession EXCEPT !.lifecycle = "recovering", !.gameplayPath = "turn",
                                    !.recoveryKind = "turn-reallocate"]
      [] OTHER -> DefaultSession

\* Its availability there, when the live processes are the services that are up.
Predicted(field, live) ==
    LET state(names) == IF names \cap live # {} THEN "available" ELSE "failed"
        s == [Operation(field) EXCEPT !.directoryState = state({"directory"}),
                 !.signalingState = state({"signaling", "signaling-replacement"}),
                 !.turnState = state({"turn-primary"}),
                 !.replacementTurnState = state({"turn-replacement"})]
    IN  /\ operationAvailable(InputOf(s))
        /\ s.lifecycle = "established" /\ s.gameplayPath = "direct" => "direct-gameplay" \in live

Baselines == {"baseline_directory", "baseline_signaling", "baseline_turn_relay"}

\* Whichever processes are live, each probe shows what the browser's model of failures says of
\* its operation, unless it merely timed out; with nothing but the script's own stops the gate
\* passes; and however the experiment ends, it leaves no process behind but one whose start or
\* stop it gave up on.
ProcessesFailAsModelled ==
    /\ \A probe \in experiment.report : probe.field \notin Baselines \cup experiment.slow =>
           (probe.answered <=> Predicted(probe.field, probe.live))
    /\ experiment.result = "reported" => experiment.running = {}
    /\ experiment.result = "failed" => experiment.running \subseteq Services
    /\ experiment.result = "reported" /\ experiment.slow = {} /\ experiment.died = {} =>
           expectations_hold

=============================================================================
