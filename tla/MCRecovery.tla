----------------------------- MODULE MCRecovery -----------------------------
(* Recovery with three nodes that fail at various times.                   *)
EXTENDS Recovery

W(s, e) == [startMs |-> s, endMs |-> e]

Always == <<W(0, 60)>>
Never == <<>>

\* Two nodes in effect, the third being down all the time: the active node alone, it and
\* its standby in turn, both at once, and a short blip.
TwoUp == {
    << Never, Never, Always >>,
    << <<W(1, 12)>>, Never, Always >>,
    << <<W(2, 5), W(6, 20)>>, Never, Always >>,
    << <<W(1, 4), W(7, 16)>>, Never, Always >>,
    << <<W(1, 6)>>, Never, Always >>,
    << <<W(0, 9)>>, <<W(7, 18)>>, Always >>,
    << <<W(1, 14)>>, <<W(3, 10)>>, Always >>,
    << Always, Always, Always >> }

\* The first standby fails before it can be promoted.
ThreeUp == {
    << <<W(1, 20)>>, <<W(4, 9)>>, Never >>,
    << <<W(0, 6)>>, Always, <<W(5, 16)>> >> }

Plans == TwoUp \cup ThreeUp

Answers == <<1, 2, 1>>

NoJitter == {0}
SomeJitter == {-1, 0, 2}

=============================================================================
