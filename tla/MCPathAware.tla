---------------------------- MODULE MCPathAware ----------------------------
(* Small instances of PathAware for TLC.                                   *)
EXTENDS PathAware

CONSTANTS w1, w2, c1, c2, p1

\* Both clusters use the same workspace path, one after the other.
OnePath == [c \in Clusters |-> p1]

\* All clusters behind one endpoint.
OneShard == [c \in Clusters |-> w1]

\* The second cluster lives on another shard.
TwoShards == [c \in Clusters |-> IF c = c1 THEN w1 ELSE w2]
=============================================================================
