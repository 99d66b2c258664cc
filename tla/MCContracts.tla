------------------------------ MODULE MCContracts ------------------------------
(* The partition exhibit and the leader election, one at a time, against what *)
(* their contracts say of them: partitions that end anywhere in a trace, and  *)
(* leaders that come back before, during and after the election of a follower.*)
EXTENDS CapModel, Election

\* Region B's first read after the end may precede the next write.
Traces == [strategy : {"quorum-consistency"}, operationCount : {10}, lagOperations : {2},
           partitionStart : {2}, partitionEnd : 2..10]

Timing == [initialTerm |-> 1, heartbeatIntervalMs |-> 2, electionTimeoutMs |-> 3,
           electionDurationMs |-> 3]

LeaderDown(until) == directoryAuthorityRecovery(1..3, 1, [startMs |-> 0, endMs |-> until], Timing)

\* The room directory, of which the leader alone fails.
DirectoryFailures == {LeaderDown(until) : until \in {2, 5, 7}}

\* One of the two followers fails as well, for good or until the election is nearly over.
FollowerFails ==
    {[LeaderDown(until) EXCEPT !.failures[2] = <<[startMs |-> 1, endMs |-> end]>>] :
        until \in {2, 7}, end \in {5, 9}}

Init ==
    /\ cap \in {CapOf(c) : c \in CapSettings}
    /\ election \in {ElectionOf(c) : c \in ElectionSettings}

CapAlone == Init /\ [][Operate /\ UNCHANGED election]_<<cap, election>>

ElectionAlone == Init /\ [][ElectionStep /\ UNCHANGED cap]_<<cap, election>>

=============================================================================
