-------------------------- MODULE MCLockFreeQueue --------------------------
(***************************************************************************)
(* LockFreeQueue on small instances.                                       *)
(***************************************************************************)
EXTENDS LockFreeQueue, TLC

CONSTANTS p1, p2, c, b1, b2, b3, b4, null

TwoProducers == {p1, p2, c}
FourBlocks   == {b1, b2, b3, b4}
TwoItems     == {1, 2}

QueueSymmetry == Permutations(Producers) \cup Permutations(Blocks)
=============================================================================
