-------------------------- MODULE MCLockFreeStack --------------------------
(***************************************************************************)
(* LockFreeStack on small instances.                                       *)
(***************************************************************************)
EXTENDS LockFreeStack, TLC

CONSTANTS t1, t2, b1, b2, b3, null

TwoProcs    == {t1, t2}
ThreeBlocks == {b1, b2, b3}

StackSymmetry == Permutations(Procs) \cup Permutations(Blocks)
=============================================================================
