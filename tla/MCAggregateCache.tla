-------------------------- MODULE MCAggregateCache --------------------------
(* Small instances of AggregateCache for TLC.                              *)
EXTENDS AggregateCache

CONSTANTS s1, s2, h1, h2, p1
=============================================================================
