------------------------------- MODULE Election -------------------------------
(***************************************************************************)
(* The leader-election exhibit (web/lib/recovery.ts, simulateElection) and *)
(* its use for the room directory's authority                              *)
(* (web/lib/multiplayer-directory-recovery.ts).  Nodes are numbered in the *)
(* order of their ids.  One step is one event of the trace: the initial    *)
(* leader fails, recovers unnoticed or is suspected, the election          *)
(* completes, and the old leader comes back.                               *)
(***************************************************************************)
EXTENDS Integers, Sequences, FiniteSets, TLC

CONSTANT ElectionSettings   \* failures of every node, initialLeaderId, initialTerm, timing

ASSUME ElectionAssumption ==
    \A c \in ElectionSettings :
        /\ c.failures \in Seq(Seq([startMs : Nat, endMs : Nat])) /\ Len(c.failures) >= 3
        /\ c.initialLeaderId \in DOMAIN c.failures
        /\ {c.initialTerm, c.heartbeatIntervalMs, c.electionTimeoutMs} \subseteq Nat \ {0}
        /\ c.electionDurationMs \in Nat
        /\ \A n \in DOMAIN c.failures : \A i \in DOMAIN c.failures[n] :
               c.failures[n][i].endMs > c.failures[n][i].startMs

VARIABLE election   \* config, phase, term, leader, candidate, voters, and whether the old
                    \* leader is back and its write was rejected

NoLeader == 0

isElectionNodeFailed(c, n, atMs) ==
    \E i \in DOMAIN c.failures[n] :
        c.failures[n][i].startMs <= atMs /\ atMs < c.failures[n][i].endMs

leaderFailure(c) == c.failures[c.initialLeaderId][1]

\* The heartbeats at 0, 1, 2 ... intervals before the failure were seen.
lastHeartbeatMs(c) ==
    LET beats == (leaderFailure(c).startMs + c.heartbeatIntervalMs - 1) \div c.heartbeatIntervalMs
    IN  IF beats = 0 THEN 0 ELSE (beats - 1) * c.heartbeatIntervalMs

detectionAtMs(c) == lastHeartbeatMs(c) + c.electionTimeoutMs
leaderElectedAtMs(c) == detectionAtMs(c) + c.electionDurationMs

quorumSize(c) == Len(c.failures) \div 2 + 1

healthyAtElection(c) ==
    {n \in DOMAIN c.failures \ {c.initialLeaderId} : ~isElectionNodeFailed(c, n, detectionAtMs(c))}
healthyAtCompletion(c) ==
    {n \in DOMAIN c.failures : ~isElectionNodeFailed(c, n, leaderElectedAtMs(c))}

\* Mutant of electionSucceeded: one node short of a majority suffices.
electionSucceeded_Half(c, candidate) ==
    /\ candidate # NoLeader /\ ~isElectionNodeFailed(c, candidate, leaderElectedAtMs(c))
    /\ Cardinality(healthyAtCompletion(c)) >= quorumSize(c) - 1

electionSucceeded(c, candidate) ==
    /\ candidate # NoLeader /\ ~isElectionNodeFailed(c, candidate, leaderElectedAtMs(c))
    /\ Cardinality(healthyAtCompletion(c)) >= quorumSize(c)

-----------------------------------------------------------------------------

ElectionOf(c) ==
    [config |-> c, phase |-> "leading", term |-> c.initialTerm, leader |-> c.initialLeaderId,
     candidate |-> NoLeader, voters |-> {}, recovered |-> FALSE, fenced |-> FALSE]

LeaderFails ==
    /\ election.phase = "leading" /\ election.config.failures[election.leader] # <<>>
    /\ election' = [election EXCEPT !.phase = "silent"]

RecoversUnnoticed ==
    /\ election.phase = "silent"
    /\ leaderFailure(election.config).endMs <= detectionAtMs(election.config)
    /\ election' = [election EXCEPT !.phase = "kept", !.recovered = TRUE]

\* Every healthy follower votes for the first of them.
TermStarts ==
    LET healthy == healthyAtElection(election.config)
    IN  /\ election.phase = "silent"
        /\ leaderFailure(election.config).endMs > detectionAtMs(election.config)
        /\ election' = [election EXCEPT !.phase = "voting", !.term = @ + 1, !.voters = healthy,
               !.candidate = IF healthy = {} THEN NoLeader
                             ELSE CHOOSE n \in healthy : \A m \in healthy : n <= m]

ElectionCompletes ==
    LET c == election.config
        succeeded == electionSucceeded(c, election.candidate)
    IN  /\ election.phase = "voting"
        /\ election.recovered \/ leaderFailure(c).endMs >= leaderElectedAtMs(c)
        /\ election' = [election EXCEPT !.phase = IF succeeded THEN "elected" ELSE "leaderless",
                           !.leader = IF succeeded THEN election.candidate ELSE NoLeader]

\* The old leader is back; once there is a new one, its write with the old term is refused.
OldLeaderRecovers ==
    LET c == election.config
    IN  /\ ~election.recovered
        /\ \/ election.phase = "voting" /\ leaderFailure(c).endMs < leaderElectedAtMs(c)
           \/ election.phase \in {"elected", "leaderless"}
        /\ election' = [election EXCEPT !.recovered = TRUE,
                           !.fenced = (election.phase = "elected")]

\* The global room directory's authority: the regions elect, and only the leader fails.
directoryAuthorityRecovery(regions, leader, failure, timing) ==
    timing @@ [initialLeaderId |-> leader,
               failures |-> [r \in regions |-> IF r = leader THEN <<failure>> ELSE <<>>]]

ElectionStep ==
    LeaderFails \/ RecoversUnnoticed \/ TermStarts \/ ElectionCompletes \/ OldLeaderRecovers

ElectionSpec == election \in {ElectionOf(c) : c \in ElectionSettings} /\ [][ElectionStep]_election

-----------------------------------------------------------------------------

\* A new term begins only after the followers have missed a heartbeat of a leader that is
\* down then, provided they are patient enough to wait for one.
OnlyAfterFailure ==
    LET c == election.config
    IN  (election.term > c.initialTerm /\ c.electionTimeoutMs >= c.heartbeatIntervalMs) =>
            isElectionNodeFailed(c, c.initialLeaderId, detectionAtMs(c))

\* The voters decide.  The new leader is one of them and up when the election begins and when
\* it ends.  While nobody comes back in between it takes a majority of votes to be elected,
\* and a majority that stays up elects in any case.  (Whoever is up at the end is counted,
\* voter or not, the old leader included: MajorityRemains.)
DecidedByTheVoters ==
    LET c == election.config
        majority == 2 * Cardinality(election.voters) > Len(c.failures)
    IN  /\ election.phase = "elected" =>
               /\ election.leader \in election.voters \ {c.initialLeaderId}
               /\ \A atMs \in {detectionAtMs(c), leaderElectedAtMs(c)} :
                      ~isElectionNodeFailed(c, election.leader, atMs)
               /\ majority \/ ~(healthyAtCompletion(c) \subseteq election.voters)
        /\ election.phase = "leaderless" =>
               ~majority \/ \E n \in election.voters : isElectionNodeFailed(c, n, leaderElectedAtMs(c))

\* The old leader either leads on in its own term, is fenced in the new one, or came back
\* while the election was under way, where nothing fences it: RecoveredLeaderIsFenced.
OldLeaderIsFenced ==
    LET c == election.config
    IN  /\ election.phase = "kept" =>
               election.leader = c.initialLeaderId /\ election.term = c.initialTerm
        /\ election.phase = "elected" /\ election.recovered /\ ~election.fenced =>
               /\ detectionAtMs(c) < leaderFailure(c).endMs
               /\ leaderFailure(c).endMs < leaderElectedAtMs(c)
        /\ election.fenced => election.term > c.initialTerm /\ election.leader # NoLeader

\* An election replaces a leader that is down, as its voters decide, and fences it.
ElectionsReplaceTheFailed == OnlyAfterFailure /\ DecidedByTheVoters /\ OldLeaderIsFenced

\* Contract (docs/contracts/recovery-model.md:109, docs/contracts/multiplayer-recovery.md:69):
\* a majority is the prerequisite of an election, which elects only while one remains available.
MajorityRemains ==
    LET c == election.config
    IN  election.phase = "elected" =>
            \A atMs \in {detectionAtMs(c), leaderElectedAtMs(c)} :
                2 * Cardinality({n \in DOMAIN c.failures : ~isElectionNodeFailed(c, n, atMs)})
                    > Len(c.failures)

\* Contract (docs/contracts/multiplayer-recovery.md:67 and :78): a promotion fences the old
\* leader when it recovers.
RecoveredLeaderIsFenced == election.phase = "elected" /\ election.recovered => election.fenced

=============================================================================
