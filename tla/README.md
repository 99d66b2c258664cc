# Formal models of server-lab

server-lab is a teaching laboratory for server systems. It has three parts: an authoritative
multiplayer server with a browser client (`authoritative/`, Rust and JavaScript), deterministic
simulators of distributed-systems topics that run in the browser (`web/lib/`, TypeScript), and native
network experiments (`native/`, Rust). This directory holds TLA+ models of that code, the TLC runs that
check them and TLAPS proofs of the results that hold for every value of the constants.

`tlc -workers 2 -config MCx.cfg Module` repeats a run, `tlapm WorldProofs.tla` repeats a proof;
`PROJECT.json` lists them all and maps every definition to the lines it models.

## 1. Inventory

| component | state | operations | hard behaviour |
| --- | --- | --- | --- |
| kernel `authoritative/src/lib.rs` | tick, player map (position, intent, received and applied sequence) | add, remove, submit_input, advance_tick, snapshot | commands reordered and repeated; borders; capacity; counters |
| wire codec (same file, and `web/client.js`) | none | encode/decode of input, snapshot, welcome; hash | lengths, signs, damaged frames |
| TCP harness `tcp-server.rs` | world and client list behind a mutex each, one `LatestSnapshot` mailbox per client, id counter | accept, admit, welcome, subscribe, read, publish, write, clean up | three kinds of threads, a condition variable, blocking socket writes, error exits, id wrap |
| WebTransport adapter `webtransport-server.rs` | world behind an async mutex, broadcast channel of depth one, id counter | the same, as tasks | lost, late, repeated and reordered datagrams, lagging subscribers, exits of a `select!` |
| page session `web/client.js` | transport, writer, timers, in-flight flag, sequence, axes | connect, disconnect, input loop, snapshot loop | continuations of an old connection meeting a new one; sequence wrap |
| presentation `web/presentation.js` | previous and current snapshot, pending inputs | recordInput, acceptSnapshot, present | stale snapshots, bounded prediction, pruning |
| request simulator `web/lib/simulation.ts` | scheduled work and workers per node, producer's clock, outstanding completions, cursor | backpressure, choose node, admission, scheduling | bursts, bounded queues, jitter that reorders arrivals |
| recovery `web/lib/recovery.ts` | attempt queue, breaker per node, health marks, failover | attempts, retries, detection, promotion; election | events stamped in the future, second failures |
| replication `web/lib/replication.ts` | leader version, follower versions, pending deliveries, cursors | write, read in four consistencies | out-of-order delivery, partitions, timeouts |
| CAP exhibit `web/lib/cap-model.ts` | versions of two regions, pending replications | read, write, heal | replications that cross a partition |
| cache exhibit `cache-model.ts` | entries with insertion and use times, origin versions | read, write | TTL against LRU against invalidation |
| admission exhibit `admission-model.ts` | tokens, work in flight | offer | refill and completion at the moment of an arrival |
| connection-flow exhibit `flow-model.ts` | connections, parents' completions | schedule a child | ties and contention in the pool |
| sharding exhibit `sharding-model.ts` | owner of every key | add a node | colliding points, the end of the ring |
| leader election (`recovery.ts`, `multiplayer-directory-recovery.ts`) | phase, term, leader, voters | failure, detection, candidacy, completion, fencing | failures that heal during the election |
| fleet placement `fleet-placement.ts` | rooms by region, before and after a failure | place a room | capacity, moves in the wake of a failure |
| server distribution `server-distribution.ts` | rooms by process, before and after a host failure | assign a room | candidates that change under a cursor, draining |
| room authority `room-authority.ts` | directory entry, what each client resolved | place the room, resolve a client | stale directories, several ingresses |
| multiplayer recovery `multiplayer-recovery.ts` and its controls | lifecycle, paths, state of services | change a control | dependence on the right services in the right phase |
| ingress and latency `global-ingress.ts`, `gameplay-latency.ts` | requests so far; controls | route; change a control | unhealthy regions, fallbacks |
| TCP experiment `native/src/lib.rs` | samples, connections under way | probe, drop, forward, serve, time out | late answers, a drop cadence that counts connections |
| UDP probe `netem-udp.rs` | sequence accounting | send, echo, receive, report | loss, repetition, reordering, a server that leaves |
| multi-process experiment `multiplayer-recovery-experiment.rs` | live processes, report | start, stop, probe | processes that die or do not start |
| user interface, build and netem scripts | | | not modelled: presentation and I/O |

Interaction: the two server adapters call the kernel under a lock and send its snapshots; the page
sends inputs to an adapter and feeds snapshots to its timeline. The simulators are independent of one
another, except that multiplayer directory recovery calls the election of `recovery.ts`. The native
experiments share no code with them; the multi-process one repeats the browser's failure model with real
processes.

What makes each correct. Kernel: the newest command is in force and is acknowledged by exactly the tick
that applied it. Adapters: every admitted player belongs to one live session and is given back on every
exit; a client sees canonical states, in order, newest first. Page: nothing unacknowledged is dropped,
nothing stale is shown, prediction stays the server's own arithmetic. Simulators: each claims in
`docs/contracts` a guarantee of the technique it teaches (read-your-writes, quorum intersection, breaker
isolation, capacity), and the simulated runs must have it.

## 2. Modules

`AuthoritativeWorld` is the kernel. Its actions constrain only `tick` and `players`, so that the
adapters EXTEND it and conjoin their own state. A player map is a function whose domain is the admitted
set; a snapshot is the record its readers get (the state hash is a function of that record and left out).
`u64::MAX` is `MaxTick`: `advance_tick_exhausted` is its error path.

`WorldHistory` adds arbitrary callers and a history: the valid commands offered for each player since its
admission (`offered`), and what had been offered when the last tick was taken (`due`). The promises of the
contract's *Tick semantics* are stated against that history.

`TcpServer` is the native harness thread by thread. A session is at one of the places of
`handle_client`/`handle_admitted_client`; a writer is in `receive` (`receiving`, `waiting`), in
`write_frame` (`writing`), between close and shutdown (`failed`) or has returned. A critical section no
other thread can see half done is one step. The tick thread's `clients.retain(publish)` visits one mailbox
after another under the client list's lock, so it is one step per mailbox and sessions that need the lock
wait. Socket and peer are external: a bounded buffer of frames, and a peer that may send commands, send
garbage, half-close, stop reading or reset.

`SnapshotFeed` is what an adapter promises: the canonical tick only advances, and a client replaces the
state it holds only by a newer canonical one. `TcpServer` implements it (`ImplementsSnapshotFeed`).

`PresentationTimeline` has the operators of `presentation.js`. Time is an integer number of milliseconds and a
drawn coordinate is in units of 1/TickMs of a world unit, so nothing is rounded. `Prediction` runs them beside
the kernel's own step.

`WebTransport` composes kernel, adapter, network and page. A task runs alone between two awaits. Sent
datagrams stay in a set, so that they may arrive late, again, in any order, or never.

`Replication` is the replication simulator, one step per turn of its operation loop: a write is appended to
the leader, its deliveries are scheduled, and it is acknowledged or rolled back before the next operation
starts; reads go to the leader, a quorum, the session's follower, or any follower. Jitter is a choice of each
delivery's delay, so a later version may overtake an earlier one. `VersionedRegister` is what the value looks
like to its one client, and `ImplementsRegister` says that `Replication` implements it.

`Recovery` is the service-recovery simulator, one step per turn of its loop: the earliest pending attempt is
taken, detection, failover and breakers are advanced to its time, and it is refused, failed or answered. The
code records a failure with the time of its *end*, so later turns may be earlier in time than the state they
meet; the model keeps that.

`RequestSimulation`, `CapModel`, `CacheModel`, `AdmissionModel`, `FlowModel` and `ShardingModel` are the other
simulators. Each has one variable (a record with the settings, the program's state and the results so far), an
operator that builds its initial state from settings, and one action: one turn of the program's loop. A seeded
generator becomes a choice among its outcomes; the hash of `ShardingModel` is a parameter, as is the order in which
its nodes' ids compare (`idOrder`: with `localeCompare`, `node-10` comes before `node-2`), and its sorted ring
has each point at the place that as many points precede. `LaboratoryPromises` puts together what the two exhibits
of limited capacity promise, and what the three native experiments do.

`GlobalRegions` has the regions, sites and round-trip times that the exhibits of the `/global` page share, and
`Election`, `FleetPlacement`, `ServerDistribution`, `RoomAuthority`, `MultiplayerFailure`, `GlobalIngress` and
`GameplayLatency` are those exhibits, in the same form. The two comparisons (a region or a host fails) run the
baseline and the failure placement in step, room by room. A hash that ranks candidates is a ranking chosen
freely for each room. Scores stay exact fractions (cross-multiplied), where the code compares floats.
`MultiplayerFailure` and `GameplayLatency` have no program that runs to an end: there a step is one change of a
control, hidden controls keep their value, and the simulation is an operator on the settings.

`BrowserClient` is the page-wide state of `client.js` that successive connections share. Every event and callback
is one action together with the promise reactions it causes, since nothing else runs between them; a write
already handed to the stream settles in its own time, which is how the in-flight flag outlives its connection.
`WebTransport` keeps one connection of the page and the network under it.

`Protocol` has the frames byte by byte: big-endian fields, two's complement, FNV-1a with wrap-around, the checks
in their order, and the page's decoders beside the server's. `FaultProxy`, `UdpProbe` and `ServiceProcesses` are
the native experiments; in `ServiceProcesses` a start or a stop may fail, with or without its process left
alive, and each probe is compared with what `MultiplayerFailure` says of the operation it stands for.

`Laboratory`, with `GlobalLaboratory` for the `/global` page, puts all these exhibits and `Prediction` side by
side, the way the site shows them: a visitor chooses the settings of one exhibit, and its program runs to the
end. The exhibits share nothing; the composition lets one run ask its question of each of them.

The modules named `...Proofs` hold the theorems, section 5 says which; `KernelProofs` has the lemmas about the
kernel that the proofs of all callers cite. `MC...` modules give constants their values. Two of them also put
specifications side by side: in `MCStandalone` the kernel with its callers, the page's session, the replication
and the recovery simulator share one run, of which each behaviour takes one (`running`) and leaves the others as
they began; `MCContracts` has the partition exhibit and the election, each alone, for the runs that hold them
against their contracts. A specification that is composed so has names of its own (`HistorySpec`, `PageSpec`,
`ReplicationSpec`, `RecoverySpec`).

## 3. Runs

| run | bounds | question |
| --- | --- | --- |
| `standalone` | kernel: ids 0..3, capacity 2, 2 ticks, six commands; page: 3 submissions of the form, sequence wraps at 3; replication: 4 nodes, 3 operations, delays 0, 1, 4 ms, two partitions; recovery: 3 nodes, 4 requests, 10 failure plans, both detection modes, breakers on and off | promises of the kernel to arbitrary callers; superseded connections leave one session or none and the page keeps sending its intent; no update is lost, and acknowledgements, session reads and the register hold what they promise; detection, promotion, breakers and retries |
| `tcp_one` | 1 connection, 3 ticks, 1 frame of socket buffer, two commands | safety of the harness, refinement of `SnapshotFeed`, and that sessions end and snapshots are seen |
| `tcp_two` | 2 connections at a time over ids {0, 1, 2}, 1 tick | without limit on their number, sessions do not disturb one another's place in the client list; reserved id 0, refused duplicates, no leaked player |
| `tcp_hang` (violation) | 1 connection, peer not assumed to read | the player is *not* removed on every exit |
| `web_one` | 1 session, 2 ticks, sequences 1..3 | loss, repetition and reordering in both directions; the refresh heals loss for good |
| `web_ids` | 3 sessions over ids {0, 1} | every exit gives back its own player, and a closed session always takes one |
| `web_wrap` (violation) | sequence wraps at 2 | the refresh does *not* heal anything after the wrap |
| `recovery_again` (violation) | the promoted node fails in its turn | a second failover does *not* start |
| `cap_heal` (violation) | traces of 10 operations, every end of the partition | after the partition the regions do *not* both observe the newest version |
| `election_returns` (violation) | 3 regions, a leader back before, during or after the election | a promotion does *not* fence a leader that came back before it |
| `election_minority` (violation) | 3 regions, a follower fails as well | a majority is *not* the prerequisite of an election |
| `labs` | traces of 2 to 20 steps, every policy | each exhibit keeps its promise; prediction and interpolation against the kernel; native experiments account for what was injected; frames are faithful |

What the properties of `labs` say, exhibit by exhibit. `NodesKeepTheirLimits`: a node never serves more than its
workers allow nor queues more than its capacity, and, when latencies are constant, serves in order and lets
nobody wait beside an idle worker; backpressure waits just as long as it must.
`StalenessIsConfined`: where and for how long reads may be stale before, during and after a partition, for each
strategy; for the quorum strategy that is more than its contract allows (section 4).
`CachePromises`: no hit is older than its TTL, what was used more recently is not evicted first, and capacity is
kept.
`LimitsHold`: a bucket admits no more than capacity plus refill in *any* stretch of the trace, and refuses only
what would exceed it; a concurrency limit refuses exactly when the backend is full; connections do not overlap,
children do not overtake, and no connection idles while a child waits.
`OnlyToTheNewNode`: on the ring, a new node takes keys for itself and no key moves between old nodes.
`DrawnAsServed`: prediction equals the server's arithmetic at tick boundaries, and drawing is bounded.
`ElectionsReplaceTheFailed`: no election without a missed heartbeat; the leader is a voter that is up at the
beginning and at the end; while nobody comes back in between, a majority of votes is needed to be elected, and
one that stays up suffices in any case; a returned leader is fenced unless it came back while the election was
under way. Nothing is said of a majority at the beginning, because the code asks for none (section 4).
`PlacementsHold`: rooms stay within health and capacity, are refused only when nothing fits, and (where the
policy promises it) move only when they must.
`GlobalPromises`: requests reach healthy regions; clients never disagree on the owner of a room, nor guess it
from a directory that may be stale; an operation is stopped exactly by what it depends on; signaling adds to the
set-up only.
`ExperimentsHold`: the report of the lossy proxy matches unless a probe that was not dropped ran into a timeout;
the UDP account is that of the arrivals; each multi-process probe agrees with the browser's model, and no
process survives the experiment but one whose start or stop it gave up on.
`FramesAreFaithful`: a frame decodes to what was encoded, in Rust and in the page, and as nothing else; a
snapshot with one wrong, missing or extra byte is refused; a damaged input yields only a command that a client
could have sent.

Why the bounds suffice. An input matters by its order against one earlier and one later input, a snapshot by its
order against the one held and the one under way: two ticks after the first state (three where a writer holds
one more) and two or three sequences give all of these orders. A one-frame socket blocks the writer as soon as a
larger one would after more ticks. With two connections one can end while the other is served; with an id space
of two and three connections ids repeat while their first owner is still admitted. Positions play no part in the
adapters, so there the world is a single point; `standalone` gives the kernel a world of seven columns that
players reach the border of. Four replicas are the smallest number at which half is not a majority and a quorum
can miss a follower. Delays include one that is longer than the write timeout and one that overtakes. The
failure plans of `MCRecovery` fail the active node, its standby, both, a standby at the moment of its promotion,
and all nodes. The exhibits' traces are long enough for queues to fill and drain, for the bucket to empty and
refill, for cache entries to expire and be evicted; the ring has six points on three hash values, so that points
collide and keys lie before the first and beyond the last. Elections have three nodes, the five of the page and
the three of the directory; failures end before, during and after the election. `Protocol` has four values of a
byte and fields of two bytes, so that signs, carries and the hash's wrap-around occur; a damaged frame differs
in one byte. The native experiments have three probes or packets, each repeated at most twice, and at most two
timeouts or deaths (`MaxTimeouts`, `MaxFaults`), so that a late answer meets the next probe. In `tcp_two` a
connection whose threads have ended is used again for the next client (`NextStream`), unless its id has come
round to a live one, so that the number of sessions has no bound. In `standalone` three submissions of the form
let a connection be superseded twice, once while its predecessor's write is still pending.

Deadlock is checked in `standalone`, where a simulator is seen to stop only with its queue or its operations used
up. It is not checked where the program itself ends: ticks are finite, connections are used once, traces are
finite; that nothing is stuck which should go on is what the liveness properties of the adapters say.

Fairness. Threads and tasks that can run do run (`ThreadFairness`, `TaskFairness`): the operating system's and
tokio's scheduling. Nothing is assumed of a peer, except in `FairSpec` of `TcpServer`, where it drains its
socket, which `tcp_hang` drops again (`ThreadSpec`); and in `FairSpec` of `WebTransport`, where of infinitely
many chances to deliver the latest sequence one is taken. The input loop's timer keeps firing
(`InputLoopFairness`): `IntentConverges` is about keys that rest for ever, which the server then holds from some
moment on for ever, whatever it held by coincidence before. `PageFairness` of `BrowserClient`: the event loop
runs reactions and timers, and the browser settles every write, if only with an error after the transport is
closed; users and servers owe nothing.

## 4. Disagreements found

* `tcp_hang`: `handle_admitted_client` joins the writer before the player is removed. A peer that
  half-closes and does not read leaves the writer in `write_frame`; closing the mailbox does not unblock
  it. The contract promises removal "on all post-admission exits". Shutting the socket down before the
  join would repair it.
* `web_wrap`: the page's sequence wraps from 2^32 - 1 to 1, which the kernel ignores as stale for the rest
  of the session (at 20 Hz after some seven years).
* `recovery_again`: the first failover is never forgotten, so when the promoted node fails and is marked
  unhealthy, no second failover starts. `docs/contracts/recovery-model.md` has one start whenever the active
  node is marked.

* `cap_heal`: under the quorum strategy nothing brings region B up to date when the partition ends
  (`cap-model.ts:64` reconciles under the local strategy only). Its reads are stale until the next write, while
  `docs/contracts/deeper-systems.md:99` says that outside the partition both regions observe the newest version. It
  takes a partition whose end leaves region B a read before the next write (an end of 1 modulo 6); the page's
  default window, 20 to 40, happens to avoid it. `QuorumSideIsCurrent` states what the code does.
* `election_returns`: `recovery.ts:727` rejects the old leader's write only when it returns at or after the end of
  the election. One that returns while the election is under way is never fenced, although a successor is promoted in
  a higher term; `docs/contracts/multiplayer-recovery.md:67` and `:78` have a promotion fence a recovered writer.
  (`recovery-model.md:113` claims it for a leader that recovers *after* the election, which holds:
  `OldLeaderIsFenced`.)
* `election_minority`: `recovery.ts:698-702` counts the quorum at the end of the election only, among all nodes that
  are up then, so that a term begins and a single vote of three wins while a majority is down, if another node (the old
  leader, for one) comes back in time. `recovery-model.md:109` makes a majority the prerequisite of an election and
  `multiplayer-recovery.md:69` lets it succeed only when a majority *remains* available. `DecidedByTheVoters`
  states what does hold of the voters.

One more was met without a run of its own. In `client.js` the `catch` of a superseded
attempt disconnects whatever connection is still *connecting* then: the user sees a failure, and
`PageHoldsOneSession` holds (no session is left half open).

## 5. Proofs

Eight modules hold theorems; each extends the modules it is about. Everything below holds for *every* value of
the constants that the named assumptions allow: any number of connections, nodes, requests, operations and
ticks, any delays, and (for the protocols) any behaviour of peers and network that the model has.

| module | assumptions on the constants | theorems |
| --- | --- | --- |
| `KernelProofs` | `KernelAssumption`, `SpawnAssumption` | lemmas only: what each operation does to a player and to the kernel's types |
| `WorldProofs` | the same, any identities and inputs | `TypeCorrect`, `MovementBounded`, `AcknowledgementsMonotone`, `NewestIntent`, `AcknowledgesDue` |
| `TcpProofs` | and `ServerAssumption`: an id space of at least two, any size of socket | `Typing`, `WakeupsArrive`, `OneSessionEach`, `ServedClientsAreListed`, `PipelinesInOrder`, `FeedRefinement` |
| `WebTransportProofs` | and `AdapterAssumption` | `OneTaskEach`, `HeldIntentsWereSent`, `PageFollowsTicks`; under `NoWrap`, `PendingInputs` |
| `BrowserProofs` | `PageAssumption`: any number of submissions, any sequence width | `OneSessionShown` |
| `ReplicationProofs` | `ReplicationAssumption`, `PartitionAssumption` | `Typing`, `UpdatesSurvive`, `AcknowledgementIsDurable`, `ReadsOwnWrites`, `QuorumsIntersect`, `Refinement` |
| `RecoveryProofs` | `RecoveryAssumption`, `FailureAssumption` | `PendingOnce`, `FailoverStopsTraffic`, `DetectionIsTrue`, `BreakersIsolate` |
| the same, on the `/global` page | `IngressAssumption`, `RoomAssumption`, `ServiceAssumption`, `FleetAssumption`, `DistributionAssumption` | `RequestsReachHealthyRegions`, `RoomsHaveOneOwner`, `SignalingNeverMovesTheGame`, `SessionsLoseOnlyTheirDependencies`, together `GlobalPromisesKept`; `RoomsFitTheirRegions`, `RoomsShareTheirServers`, together `PlacementsKept` |
| the same, on the sharding exhibit | `ShardingAssumption` | `KeysMoveToTheNewNode` |
| `LaboratoryProofs` | `PredictionAssumption`, `ElectionAssumption`, `CapAssumption`, `CacheAssumption`, `AdmissionAssumption`, `FlowAssumption`, `SimulationAssumption` | `Drawing`, `ElectionsAreDecided`, `Freshness`, `CacheKeeps`, `Limiting`, `Sharing`, `CapacityIsLimited`, `NodesServeInTurn` |
| the same, on `native/` | `ProxyAssumption`, `UdpAssumption`, `FaultsAssumption` | `FailuresAreInjected`, `EveryPacketIsAccounted`, `ProcessesAsModelled`, together `ExperimentsFindTheirFaults` |

None of the invariants below is inductive as the runs check it. What each needs, and why:

*Kernel.* The two history properties need that the history of a player that is not admitted is empty
(`HistoryIsScoped`; else a re-admitted player would be measured against commands of its earlier life), and each
needs the other's ingredients at a tick, where `due` becomes `offered` and the applied sequence becomes the
received one. `HistoryInv` is the conjunction. `SpawnAssumption` says that spawn positions lie inside the world;
the code's numbers satisfy it (3 * 512 - 768 <= 10000).

*TCP harness.* `SessionInv` is what can be said of threads: `Lifecycle(c)`, where the session and the writer of a
connection stand relative to each other and to their mailbox; `TickerInv`, what the tick thread carries between
its critical sections; that players and sessions match one to one; and that a served client is listed. The parts
need one another: that a sink stays listed needs that no other session shares its id, which needs the kernel's
refusal of duplicates, which needs that a player leaves only after its own session has joined its writer.
`FeedInv` adds the order of all that is on its way to a client: taken, written, in the socket and seen. Between
the tick and the visit to a mailbox the canonical state is newer than anything published (`Due`), and after the
visit it is equal (`Deliverable`); without that distinction the invariant fails at the tick. `FeedRefinement` maps
every step to a step of `SnapshotFeed` or a stutter from `FeedInv`.

*WebTransport.* `WebInv` speaks of one datagram or one task at a time. That the page's pending inputs are
exactly those not acknowledged needs `PageInv` as well: every snapshot on its way acknowledges no more than the
page sent, and a newer snapshot no less than an older one. `PendingInputs` has the hypothesis `NoWrap`, that the
page's sequence does not come round; `web_wrap` shows that without it the kernel does not follow.

*Page.* `PageHoldsOneSession` speaks of states between events. `PageInv` holds in every turn of the event loop:
what the page shows belongs to the current transport also while a rejection or a close is still to be noticed
(`PageIsOwned`), every superseded connection is closed, the sequence is that of the transport
(`SequenceOfTransport`), and the in-flight flag stands for exactly one write that has not settled.

*Replication.* `IInv` adds to the checked invariants only that the last acknowledged version is the leader's: a
write that fails is rolled back before the next operation. The work is in the delivery of overlapping versions:
a follower that has applied a version keeps the newest of those that arrive, so the leader's is applied or on its
way. `QuorumsIntersect` rests on
the counting lemma that two sets that together outnumber the followers meet.

*Recovery.* That traffic stops during a failover is not inductive, because a failover is recorded when the attempt
that revealed it *ends*, in the future of the next turns. It needs that turns follow time and that no promotion
is made early (`TimeInv`), which needs that a retry is never scheduled in the past, whatever the jitter.
`QueueInv` gives each unfinished request exactly one pending attempt.

*Prediction.* The server's player is where the snapshot shown, and the intent in it, have taken it by now
(`PresentationInv`). The rest is arithmetic: one more tick added to a clamped sum of ticks is the clamped sum
(`OneTickMore`), and a time cut into whole ticks and a remainder moves no further than the next tick.

*Election.* `ElectionInv` says phase by phase what the events so far have established: the voters are the followers
that were up at the detection, the candidate is one of them if there is any, and a lost election is one that
`electionSucceeded` refuses. What the votes decide is then a matter of counting two sets against each other: the
quorum is counted among those that are up at the end, so it speaks about the voters only where one set contains
the other.

*CAP.* `QuorumSound`: region B falls behind only during a partition and until the first write after it; nothing
is ever pending. `LocalSound`: each write is in both regions, on its way, or was made during a partition that
lasts; with that, what an operation observed is at least what was written `lagOperations` before it. The hard
step is the turn in which the partition ends: versions are reconciled, replications that are due are applied,
and an operation follows, so that the three are proved one after another (`ReconciledSound`, `AppliedSound`,
`OperationsKeepSound`).

*Cache.* `EntrySound`: an entry is what the origin had when it was inserted, and was last used when its key was
last read. `OrderSound` is about what is *not* there: a key that is not cached was not read after one that is,
or was written since. The eviction of the entry used the longest time ago keeps it (`RoomForOne`), and so does
the expiry of an entry, because its key is fetched again in the same turn.

*Admission.* What a bucket admitted in *every* stretch of the trace follows from what it holds now: its tokens
are the least that any stretch up to now has left over (`BucketSound`). A refill adds the same to every stretch,
an admission costs every stretch the same, and the full bucket is the stretch that begins with the next request.
The work in flight is that of the admitted requests that have not ended, by identity, so that its size is the
number in service (`BackendSound`); work that takes no time is in the set until the next arrival only.

*Connection pool.* A connection is available when the last of its children completes (`ConnectionsSound`), and
each child started when it arrived or at a time at which no connection is available any more (`StartsSound`),
hence in turn. A child that waits finds on each connection either that last child or, where it is yet to start,
the one that it waited for itself (`TurnsSound`); one per connection at that moment makes as many as the pool
has.

*Request simulator.* The state remembers only when each worker is free, what is left of the schedule, and which
completions are outstanding; the property speaks of all requests since the start. `WorkersSound` therefore says
that there *is* an assignment of requests to workers under which no two overlap, and that a request that waits
finds on every worker an earlier one in service; the next request extends it by the worker that is free first
(`AcceptedWorkers`). What a node has dropped from its schedule has ended before any request can reach the node
(`ScheduleSound`), so the depth it measures is the number of those waiting (`DepthIsQueued`). Requests start in
turn because one that waited starts when no worker is free any earlier (`TurnSound`). With jitter only the limit
of workers is claimed, and each of these parts says so (`InOrder`). The producer jumps from completion to
completion; between two of them nothing becomes outstanding or ceases to be, so that it is at its limit at every
moment it waits, and the last completion always lets it go on (`BackpressureIs`).

*Sharding.* The inductive part is small: an owner is what `lookupRing` gives for the ring of that moment, and a
moved key had another owner before (`ShardingInv`). The proof is about the algorithm. Counting the points that
precede a point gives each its own place (`RingPlaces`), so the ring is sorted and complete. The binary search
is a recursion whose spans shrink, hence a function (`SearchExists`), and every span it visits has smaller
hashes before it and no smaller ones after (`SearchFinds`). So a key arrives at the first point at or after its
hash, or at the first of all (`LookupFinds`), which no point is nearer than (`NearestArrives`, with `%` around
the ring). More points change the arrival only to one of the new ones (`ArrivesOnce`). Collisions are decided by
the order of the nodes' ids, as in the code.

*Placement.* `usedUnits` and `processUnits` are sums over the rooms placed, so the proofs begin with lemmas on
sums (one more room, a different place, least and largest terms). `FleetInv` and `ServersInv` say of each run
that it is within capacity and of each room that it was placed by the policy *in the state of its moment*. That
the two runs used the same hash for a room is part of them: without it nothing says that rendezvous moves only
what it must. In `ServersInv` the two runs differ only where the failed host's region is concerned
(`ApartAtHome`), because the candidates, the loads and the cursor of a region depend on that region's rooms only
(`ElsewhereTheSame`). Round robin is even while every process can take every room (`InTurns`), and the least
loaded processes stay within one room's demand (`Levelled`).

*The other exhibits of the `/global` page.* `IngressInv`: each request went where `selectRegion` sends it, and a
region has had as many as turns have come round to its rank. `AuthorityInv`: each client resolved the same entry
in the same state of the directory. The session and the latency exhibits have no history; there each control
stays within its options, and the theorems are about the simulation's answer for every combination of them.

*Native experiments.* `LoopbackInv` follows each probe through client, proxy and backend (`Connected`,
`Accounted`): a probe that is dropped is never forwarded, and one that is not fails only with a timeout on its
record. A late answer is on a connection of its own, so it cannot count for the next probe. `UdpInv` equates the
client's three counters with sets of arrivals, the first of each number and those a later one overtook
(`AccountOf`). `ExperimentInv` knows which processes the script keeps alive at each of its steps (`Alive`), and
each probe of the report carries the processes that were live when it was made.

What the proofs found out about the models. (1) With an id shared by two sessions (after the id counter has come
round) acknowledgements can go *back*: the newer session's player starts at 0. `PipelineInOrder`,
`ListedWhileServed` and `PendingIsUnacknowledged` are therefore stated for a session whose id is its own
(`OwnIdentity`); the code reaches the other case after 2^32 connections. (2) `pendingInputs`, an array in the
code, is a set in the model: sequences are unique, the order is theirs, and every use filters, maps or appends.
(3) An id space of one has no id to give, since 0 is reserved: `ServerAssumption` and `AdapterAssumption`
exclude it. (4) The failure lists of `Recovery` and `Election`, the pattern of `CacheModel` and the rooms of
`ServerDistribution` have to be assumed to be sequences, and the keys of `ShardingModel` to be finitely many.
(5) The prover expands an `@` inside another `EXCEPT` wrongly, so `Advanced` in `RequestSimulation` names the
record it changes; it does not look into the operators of `TLC` nor functions of several arguments, so the
report of `ServiceProcesses` is a set of records, the ring is built by rank instead of a library sort, and the
search is a function of a pair.

What stays with TLC. Liveness (`SessionsEnd`, `PublishedIsSeen`, `ClosedSessionsEnd`, `IntentConverges`,
`IntentIsSent`) and ENABLED are out of the prover's reach. `Protocol` uses bitwise operators and recursion,
which no proof module may reach, so `FramesAreFaithful` is the one invariant that is checked only; for that
reason the proofs are about each exhibit with the specification of its own module, and not about `Laboratory`,
whose visitor runs one of them at a time.

## 6. Not modelled

* Panics and poisoned mutexes: among them `thread::spawn` failing in `tcp-server.rs:203`, after which the code
  specifies nothing. Between removing its player and removing its sink a TCP session whose id has come round to
  a newer session could close that session's sink; `ListedWhileServed` is checked for ids not in use twice.
* TLS, session negotiation, sockets below the level of frames and connections.
* Statistics, percentiles, measured latencies, wording of errors, reasons and event logs. The latency half of
  the loopback experiment's expectation is a measurement.
* The stand-alone binaries of `native/` serve a bounded number of connections and join their workers; the
  loopback experiment, which is modelled, does not use that bound. A connection that the kernel refuses or
  forgets before it is accepted would shift the proxy's cadence; so few are not refused.
* The page's rendering and the React components: what they contribute are the settings an exhibit starts with
  and, where they are modelled, the controls. Scripts around `tc netem`, build and CI: pure I/O.

## 7. Plan

Every component that keeps state is modelled, and every invariant that a run checks is proved, except that of
the wire codec. What would be worth adding:

1. `FramesAreFaithful` for the fields: the two big-endian conversions are inverse for any width, without the hash.
2. That the composition `Laboratory` implements the specification of each exhibit, once `Protocol` is no longer in
   the way of a proof about it.
3. The `thread::spawn` of `tcp-server.rs:203` that panics, when the code says what should become of the player.
