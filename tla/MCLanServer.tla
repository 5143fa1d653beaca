---------------------------- MODULE MCLanServer ----------------------------
(***************************************************************************)
(* LanServer on small instances.                                           *)
(***************************************************************************)
EXTENDS LanServer, TLC

CONSTANTS w1, w2, acc, c1, c2, none, junk

TwoWorkers == {w1, w2}
OneWorker  == {w1}
OneConn    == {c1}
TwoConns   == {c1, c2}

NoCalls        == {}
StopCall       == {"Stop"}
DisconnectCall == {"Disconnect"}

\* workers and clients are interchangeable (not in the run with liveness properties)
Symmetry == Permutations(Workers) \cup Permutations(Conns)
=============================================================================
