------------------------------ MODULE Ranking ------------------------------
(***************************************************************************)
(* The members of a finite set in an order, and the part of a sequence at  *)
(* some of its positions, without recursion: a member's place is the       *)
(* number of members up to it.                                             *)
(***************************************************************************)
EXTENDS Integers, FiniteSets, Sequences

\* The n-th member of S, where below[x] holds x and the members before it.
Nth(S, below, n) == CHOOSE x \in S : Cardinality(below[x]) = n

\* The members of S as a sequence.
Ranked(S, below) == [n \in 1..Cardinality(S) |-> Nth(S, below, n)]

\* For a set of numbers.
UpTo(I) == [i \in I |-> {j \in I : j <= i}]

\* The elements of sequence q at the positions I.
Picked(q, I) == LET at == Ranked(I, UpTo(I)) IN [n \in DOMAIN at |-> q[at[n]]]
=============================================================================
