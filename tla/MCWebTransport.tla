---------------------------- MODULE MCWebTransport ----------------------------
(* WebTransport with one or two connections on a world that is a single point: *)
(* where players stand plays no part in the properties of the adapter.  An     *)
(* input keeps its sequence and its horizontal axis.                           *)
EXTENDS WebTransport, TLC

Ids4 == 0..3
Ids2 == 0..1

\* What the page may send: every sequence up to the wrap, 0 excluded.
Sendable == [sequence : 1..MaxSequence, horizontal : Axis, vertical : {0}]

Symmetry == Permutations(Connections)

=============================================================================
