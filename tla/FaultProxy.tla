------------------------------ MODULE FaultProxy ------------------------------
(***************************************************************************)
(* The loopback experiment (native/src/lib.rs): a client probes a backend  *)
(* directly and then through a proxy that drops every nth connection it    *)
(* accepts, and compares the successes with what it expects.               *)
(*                                                                         *)
(* Probes are sequential, each on a connection of its own; backend and     *)
(* proxy serve every connection on a thread of its own.  A side that waits *)
(* longer than its timeout gives up, whenever the scheduler makes it so,   *)
(* and what the others still do for that probe goes on.  The kernel takes  *)
(* every connection of so few, so that each is accepted in its turn.       *)
(***************************************************************************)
EXTENDS Integers, Sequences, FiniteSets

CONSTANTS
    RequestCount,
    DropSettings,   \* the values of drop_every, 0 for no drops
    MaxTimeouts     \* bound on timeouts

ASSUME ProxyAssumption ==
    RequestCount \in Nat \ {0} /\ DropSettings \subseteq Nat /\ MaxTimeouts \in Nat

\* The baseline probes, then the impaired ones.
Probes == 1..(2 * RequestCount)
Impaired == (RequestCount + 1)..(2 * RequestCount)

VARIABLE loopback   \* drop_every; samples: the success of each probe so far; client, proxy,
                    \* backend: where each is with a probe; late: who gave up on which probe

LoopbackOf(drop) ==
    [drop_every |-> drop, samples |-> <<>>,
     client |-> [p \in Probes |-> "none"], proxy |-> [p \in Probes |-> "none"],
     backend |-> [p \in Probes |-> "none"], late |-> {}]

\* Connections are accepted in the order of the probes.
ordinal(p) == p - RequestCount

\* Mutant of Drops: ordinals counted from zero.
Drops_FromZero(drop, p) == p \in Impaired /\ drop > 0 /\ (ordinal(p) - 1) % drop = 0

Drops(drop, p) == p \in Impaired /\ drop > 0 /\ ordinal(p) % drop = 0

\* The probe on which the client is.
Probe == Len(loopback.samples) + 1

Connect ==
    /\ Probe \in Probes
    /\ loopback.client[Probe] = "none"
    /\ loopback' = [loopback EXCEPT !.client[Probe] = "waiting",
                        ![IF Probe \in Impaired THEN "proxy" ELSE "backend"][Probe] = "accepted"]

\* The proxy closes the connection before it forwards anything.
DropConnection(p) ==
    /\ loopback.proxy[p] = "accepted" /\ Drops(loopback.drop_every, p)
    /\ loopback' = [loopback EXCEPT !.proxy[p] = "closed"]

Forward(p) ==
    /\ loopback.proxy[p] = "accepted" /\ ~Drops(loopback.drop_every, p)
    /\ loopback' = [loopback EXCEPT !.proxy[p] = "forwarded", !.backend[p] = "accepted"]

\* PONG to whoever connected, the proxy or the client.
Serve(p) ==
    /\ loopback.backend[p] = "accepted"
    /\ loopback' = [loopback EXCEPT !.backend[p] = "answered"]

\* The proxy passes on what it reads, be it the end of the stream.
Return(p) ==
    /\ loopback.proxy[p] = "forwarded" /\ loopback.backend[p] \in {"answered", "closed"}
    /\ loopback' = [loopback EXCEPT !.proxy[p] = loopback.backend[p]]

Patient == Cardinality(loopback.late) < MaxTimeouts

GivenUp(s, side, p) == [s EXCEPT !.late = @ \cup {<<side, p>>}]

\* No request in time, at the proxy or the backend, or no response at the proxy.
ProxyTimesOut(p) ==
    /\ Patient
    /\ loopback.proxy[p] = "forwarded" \/ (loopback.proxy[p] = "accepted" /\ ~Drops(loopback.drop_every, p))
    /\ loopback' = GivenUp([loopback EXCEPT !.proxy[p] = "closed"], "proxy", p)

BackendTimesOut(p) ==
    /\ Patient
    /\ loopback.backend[p] = "accepted"
    /\ loopback' = GivenUp([loopback EXCEPT !.backend[p] = "closed"], "backend", p)

Sampled(success) ==
    [loopback EXCEPT !.samples = Append(@, success), !.client[Probe] = "done"]

Peer(p) == IF p \in Impaired THEN loopback.proxy[p] ELSE loopback.backend[p]

ReadResponse ==
    /\ Probe \in Probes
    /\ loopback.client[Probe] = "waiting" /\ Peer(Probe) \in {"answered", "closed"}
    /\ loopback' = Sampled(Peer(Probe) = "answered")

ProbeTimesOut ==
    /\ Patient
    /\ Probe \in Probes
    /\ loopback.client[Probe] = "waiting"
    /\ loopback' = GivenUp(Sampled(FALSE), "client", Probe)

LoopbackStep ==
    \/ Connect \/ ReadResponse \/ ProbeTimesOut
    \/ \E p \in Probes :
           \/ DropConnection(p) \/ Forward(p) \/ Serve(p) \/ Return(p)
           \/ ProxyTimesOut(p) \/ BackendTimesOut(p)

LoopbackSpec == loopback \in {LoopbackOf(drop) : drop \in DropSettings} /\ [][LoopbackStep]_loopback

succeeded(phase) ==
    Cardinality({p \in phase \cap DOMAIN loopback.samples : loopback.samples[p]})

\* drop_every of 0 divides nothing.
expected_drops ==
    IF loopback.drop_every = 0 THEN 0 ELSE RequestCount \div loopback.drop_every
expected_impaired_successes == RequestCount - expected_drops

\* The part of expectations_hold that does not measure time.
success_matches == succeeded(Impaired) = expected_impaired_successes

-----------------------------------------------------------------------------

\* However late answers and next probes interleave, the finished report expects exactly the
\* probes that were not dropped: it matches unless one of those ran into a timeout, and never
\* because another failure makes up for it.
ProbesFailAsInjected ==
    LET dropped == {p \in Impaired : Drops(loopback.drop_every, p)}
        late == {x[2] : x \in loopback.late}
    IN  Len(loopback.samples) = 2 * RequestCount =>
            /\ success_matches <=> late \cap (Impaired \ dropped) = {}
            /\ \A p \in Probes : loopback.samples[p] <=> p \notin dropped \cup late
            /\ \A p \in dropped : loopback.backend[p] = "none"

=============================================================================
