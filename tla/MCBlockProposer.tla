-------------------------- MODULE MCBlockProposer --------------------------
(* Two nodes, two shards, two heights and a channel of two decisions:      *)
(* chunks of a later height overtake those a slow proposer still waits     *)
(* for, and shard actors meet a full channel.                              *)
EXTENDS BlockProposer
=============================================================================
