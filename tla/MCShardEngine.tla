---------------------------- MODULE MCShardEngine ---------------------------
(* An instance of ShardEngine.  Messages are interchangeable.              *)
EXTENDS ShardEngine, TLC

Symmetry == Permutations(Msg)
=============================================================================
