---------------------------- MODULE MCRingServer ----------------------------
(***************************************************************************)
(* RingServer on small instances.                                          *)
(***************************************************************************)
EXTENDS RingServer, TLC

CONSTANTS w1, w2, acc, c1, c2, none

TwoWorkers == {w1, w2}
OneConn    == {c1}
TwoConns   == {c1, c2}

\* workers and clients are interchangeable (safety runs only)
Symmetry == Permutations(Workers) \cup Permutations(Conns)
=============================================================================
