--------------------------- MODULE MC_ScatterGather ---------------------------
(* Model-checking instance of ScatterGather: three shard indexes as model  *)
(* values.                                                                  *)
EXTENDS ScatterGather, TLC

CONSTANTS s1, s2, s3

MCShards == {s1, s2, s3}
Symm == Permutations(MCShards)
=============================================================================
