-------------------------- MODULE MCRecorderManager --------------------------
(* A small instance of RecorderManager for TLC.                            *)
EXTENDS RecorderManager

CONSTANTS k1, k2, e1, e2, c1, c2
=============================================================================
