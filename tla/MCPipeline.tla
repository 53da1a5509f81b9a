----------------------------- MODULE MCPipeline -----------------------------
(* Instances of Pipeline for TLC. *)
EXTENDS Pipeline, TLC

CONSTANTS w1, w2

Interchangeable == Permutations(Workers)
=============================================================================
