---------------------------- MODULE MCShardedSuite ----------------------------
(* A small instance of ShardedSuite for TLC.                               *)
EXTENDS ShardedSuite
=============================================================================
