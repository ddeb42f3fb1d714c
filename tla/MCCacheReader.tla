---------------------------- MODULE MCCacheReader ----------------------------
(* A small instance of CacheReader for TLC.                                *)
EXTENDS CacheReader

CONSTANTS c1, c2, a, v, k1, k2, f1, f2

Object(cluster, ns, name, first, second, labelled) ==
  [cluster |-> cluster, ns |-> ns, name |-> name, labelled |-> labelled,
   fields |-> [f \in {f1, f2} |-> IF f = f1 THEN first ELSE second]]

\* The value "v", and one that looks like the key of a value of cluster c2.
MCValues == {<<v>>, <<c2, v>>}

\* A namespace that has the name of a cluster.
MCNamespaces == {c2}

\* The same name in two clusters, with and without a namespace, in two
\* versions.
MCObjects ==
  {Object(c1, c2, a, {<<v>>}, {<<c2, v>>}, TRUE),
   Object(c1, c2, a, {<<v>>, <<c2, v>>}, {}, FALSE),
   Object(c2, c2, a, {<<v>>}, {<<v>>}, TRUE),
   Object(c1, Empty, a, {<<c2, v>>}, {<<v>>}, TRUE),
   Object(c2, Empty, a, {<<v>>}, {<<c2, v>>}, FALSE)}
=============================================================================
