-------------------------- MODULE VersionedRegister --------------------------
(***************************************************************************)
(* What the replicated value looks like to its one client.  A write either *)
(* advances the committed version by one or fails and leaves it alone.  A  *)
(* read returns the committed version if the configuration promises fresh  *)
(* reads, and otherwise some version that was committed once.              *)
(***************************************************************************)
EXTENDS Integers

VARIABLES
    fresh,          \* whether the configuration promises fresh reads
    committed,      \* the committed version
    returned        \* what the last operation returned, -1 if it was not a read

registerVars == <<fresh, committed, returned>>

Init ==
    /\ fresh \in BOOLEAN
    /\ committed = 0
    /\ returned = -1

Write ==
    /\ committed' \in {committed, committed + 1}
    /\ returned' = -1
    /\ UNCHANGED fresh

Read ==
    /\ returned' \in IF fresh THEN {committed} ELSE 0..committed
    /\ UNCHANGED <<fresh, committed>>

Next == Write \/ Read

Spec == Init /\ [][Next]_registerVars

=============================================================================
