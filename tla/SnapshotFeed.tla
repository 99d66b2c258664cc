----------------------------- MODULE SnapshotFeed -----------------------------
(***************************************************************************)
(* What a server adapter promises its clients about authoritative state,   *)
(* whatever it is carried by: the canonical tick only advances, and what a *)
(* client holds is always a state the server really was in, replaced only  *)
(* by newer ones.  Skipping states is allowed ("latest state matters more  *)
(* than retransmitting stale snapshots").                                  *)
(***************************************************************************)
EXTENDS Integers

CONSTANT Clients

VARIABLES
    canonical,      \* the tick of the authoritative world
    held            \* the tick of the newest snapshot a client has taken, or -1

feedVars == <<canonical, held>>

Init ==
    /\ canonical = 0
    /\ held = [c \in Clients |-> -1]

Advance ==
    /\ canonical' = canonical + 1
    /\ UNCHANGED held

Deliver(c) ==
    /\ \E t \in (held[c] + 1)..canonical : held' = [held EXCEPT ![c] = t]
    /\ UNCHANGED canonical

Next == Advance \/ \E c \in Clients : Deliver(c)

Spec == Init /\ [][Next]_feedVars

=============================================================================
