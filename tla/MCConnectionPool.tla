-------------------------- MODULE MCConnectionPool --------------------------
(* Instances of ConnectionPool for TLC. *)
EXTENDS ConnectionPool, TLC

CONSTANTS w1, w2, w3, d1, d2, c1, c2, c3, s1, s2, s3, s4, k1, k2

\* c1 allows three concurrent polls, c2 one, c3 leaves the default of four.
Polls == [c \in Configs |-> CASE c = c1 -> 3 [] c = c2 -> 1 [] c = c3 -> 0]

AllC1 == [d \in Devices |-> c1]
AllC2 == [d \in Devices |-> c2]
OneEach == d1 :> c1 @@ d2 :> c2

Interchangeable == Permutations(Workers) \cup Permutations(Conns)
=============================================================================
