---------------------------- MODULE MCLockTable -----------------------------
(* An instance of LockTable for TLC. *)
EXTENDS LockTable

CONSTANTS t1, t2, t3, p1, p2, a1, a2, a3
=============================================================================
