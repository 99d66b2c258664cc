----------------------------- MODULE MCStandalone -----------------------------
(* The programs that run on their own, one of them in a behaviour: the kernel  *)
(* under arbitrary callers, the page's session, and the simulators of          *)
(* replication and recovery.  The three that do not run stay as they began.    *)
EXTENDS WorldHistory, BrowserClient, Replication, MCRecovery

\* Three usable identities for two places, a step larger than the distance from some spawn
\* slots to the border; an invalid axis, the reserved sequence and two different commands
\* under one sequence number.
MCInputs ==
    { [sequence |-> 0, horizontal |-> 1,  vertical |-> 0],
      [sequence |-> 1, horizontal |-> 2,  vertical |-> 0],
      [sequence |-> 1, horizontal |-> 1,  vertical |-> 0],
      [sequence |-> 2, horizontal |-> -1, vertical |-> 1],
      [sequence |-> 2, horizontal |-> 0,  vertical |-> -1],
      [sequence |-> 3, horizontal |-> -1, vertical |-> 0] }

\* Replica 1 is cut off while the first operations run, or from the second on.
SomePartitions == {[replica |-> 1, startMs |-> 0, endMs |-> 4],
                   [replica |-> 1, startMs |-> 2, endMs |-> 9]}

-----------------------------------------------------------------------------

VARIABLE running    \* the program of this behaviour

Programs == {"kernel", "page", "replication", "recovery"}

Init ==
    /\ running \in Programs
    /\ HistoryInit
    /\ PageInit
    /\ ReplicationInit
    /\ running # "replication" =>
           guarantees = [replicationMode |-> "quorum", readConsistency |-> "quorum", partition |-> {}]
    /\ RecoveryInit
    /\ running # "recovery" => config = CHOOSE c \in Configurations : TRUE

Kernel == running = "kernel" /\ HistoryNext /\ UNCHANGED <<page, replicating, recovering>>

Page == running = "page" /\ PageNext /\ UNCHANGED <<observed, replicating, recovering>>

Replicate ==
    /\ running = "replication"
    /\ ReplicationNext \/ (operations = MaxOperations /\ UNCHANGED replicating)
    /\ UNCHANGED <<observed, page, recovering>>

\* A simulator stops when it has nothing left to do.
Recover ==
    /\ running = "recovery"
    /\ RecoveryNext \/ (queue = {} /\ UNCHANGED recovering)
    /\ UNCHANGED <<observed, page, replicating>>

Next ==
    /\ Kernel \/ Page \/ Replicate \/ Recover
    /\ UNCHANGED running

Spec == Init /\ [][Next]_<<running, observed, page, replicating, recovering>> /\ PageFairness

=============================================================================
