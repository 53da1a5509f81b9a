--------------------------- MODULE MCCounterState ---------------------------
(* Instances of CounterState for TLC. *)
EXTENDS CounterState, TLC

CONSTANTS p1, p2

BothWidths == {{"Counter32", "Counter64"}}

\* Pollers are interchangeable.
PollerSymmetry == Permutations(Pollers)
=============================================================================
