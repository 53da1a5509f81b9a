---------------------------- MODULE MCScheduler ----------------------------
(* Instances of Scheduler for TLC. *)
EXTENDS Scheduler, TLC

CONSTANTS a, b, c

\* Intervals of one, two and three ticks, one host without (the default), a
\* host that comes and goes, and an empty configuration.
MCCfgs == {a :> 1 @@ b :> 2, a :> 3 @@ b :> 2 @@ c :> 0, c :> 1, <<>>}
MCInit == a :> 1 @@ b :> 2
=============================================================================
