------------------------- MODULE MCLockTableRestart -------------------------
(* Instances of LockTableRestart for TLC. *)
EXTENDS LockTableRestart, TLC

CONSTANTS t1, t2, t3, p1, p2, a1, a2, a3

Symmetry ==
  Permutations(Threads) \cup Permutations(Paths) \cup Permutations(Addrs)
=============================================================================
