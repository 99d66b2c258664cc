------------------------------ MODULE FlowModel ------------------------------
(***************************************************************************)
(* The connection-pool exhibit (web/lib/flow-model.ts, simulateFlow):      *)
(* parent requests fan out into children that share a pool of connections. *)
(* One step schedules one child.                                           *)
(***************************************************************************)
EXTENDS Integers, Sequences, FiniteSetsExt

CONSTANT FlowSettings   \* the configurations to simulate

ASSUME FlowAssumption ==
    \A c \in FlowSettings :
        /\ {c.fanout, c.poolSize} \subseteq Nat \ {0}
        /\ {c.parentRequests, c.slowEvery, c.normalServiceMs, c.slowServiceMs, c.handshakeMs,
            c.parentArrivalIntervalMs} \subseteq Nat
        /\ c.normalServiceMs <= c.slowServiceMs
        /\ c.reuseConnections \in BOOLEAN

VARIABLE flow   \* config, the connections, the children so far, handshakes, and when the
                \* children of each parent have completed

\* The connection that is free first, the lowest id among equals.
earliestConnection(pool) ==
    CHOOSE c \in DOMAIN pool :
        \A d \in DOMAIN pool :
            \/ pool[c].availableAtMs < pool[d].availableAtMs
            \/ pool[c].availableAtMs = pool[d].availableAtMs /\ c <= d

Slow(c, ordinal) == c.slowEvery > 0 /\ ordinal % c.slowEvery = 0

HandshakeMs(c, connection) == IF c.reuseConnections /\ connection.used THEN 0 ELSE c.handshakeMs

-----------------------------------------------------------------------------

ParentIds(c) == 0..(c.parentRequests - 1)

FlowOf(c) ==
    [config |-> c,
     connections |-> [k \in 1..c.poolSize |-> [availableAtMs |-> 0, used |-> FALSE]],
     handshakes |-> 0, children |-> <<>>,
     parentCompletion |-> [p \in ParentIds(c) |-> p * c.parentArrivalIntervalMs]]

\* The next child of the trace, in the order of parents and of a parent's children.
Schedule ==
    LET s == flow
        c == s.config
        ordinal == Len(s.children) + 1
        parent == Len(s.children) \div c.fanout
        arrivalMs == parent * c.parentArrivalIntervalMs
        k == earliestConnection(s.connections)
        startMs == Max({arrivalMs, s.connections[k].availableAtMs})
        handshakeMs == HandshakeMs(c, s.connections[k])
        completionMs == startMs + handshakeMs
                            + (IF Slow(c, ordinal) THEN c.slowServiceMs ELSE c.normalServiceMs)
        child == [parentId |-> parent, connectionId |-> k, arrivalMs |-> arrivalMs,
                  startMs |-> startMs, handshakeMs |-> handshakeMs, completionMs |-> completionMs]
    IN  /\ Len(s.children) < c.parentRequests * c.fanout
        /\ flow' = [s EXCEPT
               !.connections[k] = [availableAtMs |-> completionMs, used |-> TRUE],
               !.handshakes = IF handshakeMs > 0 THEN @ + 1 ELSE @,
               !.children = Append(@, child),
               !.parentCompletion[parent] = Max({@, completionMs})]

FlowSpec == flow \in {FlowOf(c) : c \in FlowSettings} /\ [][Schedule]_flow

-----------------------------------------------------------------------------

Held(i, t) == flow.children[i].startMs <= t /\ t < flow.children[i].completionMs

\* A connection carries one child at a time.
OneChildPerConnection ==
    \A i, j \in DOMAIN flow.children :
        i < j /\ flow.children[i].connectionId = flow.children[j].connectionId =>
            flow.children[i].completionMs <= flow.children[j].startMs

\* Children start in order, and one waits only while every connection is busy.
ChildrenInTurn ==
    \A i, j \in DOMAIN flow.children :
        /\ i < j => flow.children[i].startMs <= flow.children[j].startMs
        /\ \A t \in flow.children[j].arrivalMs..(flow.children[j].startMs - 1) :
               Cardinality({k \in 1..(j - 1) : Held(k, t)}) = flow.config.poolSize

\* With reuse a connection is set up once, before its first child.
HandshakesAreReused ==
    flow.config.reuseConnections => flow.handshakes <= flow.config.poolSize

\* A parent completes with the last of its children.
ParentsWaitForAll ==
    \A p \in ParentIds(flow.config) :
        flow.parentCompletion[p] =
            Max({p * flow.config.parentArrivalIntervalMs} \cup
                {flow.children[i].completionMs : i \in {j \in DOMAIN flow.children :
                                                            flow.children[j].parentId = p}})

\* The pool is shared without overlap, without overtaking and without idle connections.
PoolIsShared ==
    OneChildPerConnection /\ ChildrenInTurn /\ HandshakesAreReused /\ ParentsWaitForAll

=============================================================================
