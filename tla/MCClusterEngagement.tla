------------------------- MODULE MCClusterEngagement -------------------------
(* Small instances of ClusterEngagement for TLC.                           *)
EXTENDS ClusterEngagement

CONSTANTS w1, w2, o1, o2, c1, c2

\* Two objects of one cluster: the index check of DeleteFunc matters.
OneCluster == [o \in {o1, o2} |-> c1]

\* A single object.
OneObject == [o \in {o1} |-> c1]

\* One object per cluster.
TwoClusters == [o \in {o1, o2} |-> IF o = o1 THEN c1 ELSE c2]
=============================================================================
