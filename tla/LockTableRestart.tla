-------------------------- MODULE LockTableRestart --------------------------
(***************************************************************************)
(* LockTable when the lock server's process dies and is started again.     *)
(* The table lives in memory only.  A caller inside AcquireLock or         *)
(* ReleaseLock gets an Ice exception and gives its operation up; a thread  *)
(* that owns a path is told nothing and releases it to the new process     *)
(* when it is done.  ReleaseLock compares neither hostname nor tid with    *)
(* the owner (server/sm2sI.cpp).                                           *)
(***************************************************************************)
EXTENDS LockTable

(* A new process serves the same endpoint with an empty table. *)
Restart ==
  /\ locks' = [p \in Paths |-> None]
  /\ live' = {}
  /\ locks_lock' = None
  /\ pc' = [t \in Threads |-> IF pc[t] = "holding" THEN "holding" ELSE "idle"]
  /\ UNCHANGED <<locked, ref_cnt, path, m>>

(* m->lock.lock() on a deleted Mutex: undefined; here it may also return   *)
(* whatever the freed memory holds (the process may also die: Restart).    *)
AcquireDeleted(t) ==
  /\ pc[t] = "waiting"
  /\ m[t] \notin live
  /\ pc' = [pc EXCEPT ![t] = "holding"]
  /\ UNCHANGED <<locks, live, locked, ref_cnt, locks_lock, path, m>>

NextR ==
  \/ Next
  \/ \E t \in Threads : AcquireDeleted(t)
  \/ Restart

SpecR == Init /\ [][NextR]_vars
-----------------------------------------------------------------------------
(* "At least ref_cnt number of clients are trying to acquire the lock"     *)
(* (comment in AcquireLock) survives restarts: releases of owners from     *)
(* before a restart make the count too small, never too large, so a path   *)
(* nobody uses never keeps its mutex.                                      *)
RefCountBound ==
  \A p \in Paths :
    locks[p] # None => ref_cnt[locks[p]] \in 1 .. Cardinality(Users(p))

(* The map and the heap agree after any number of restarts, stale releases *)
(* and deletions: every live Mutex is the mutex of exactly one path.       *)
TableMatchesHeap ==
  /\ live = {locks[p] : p \in Paths} \ {None}
  /\ \A p, q \in Paths : locks[p] # None /\ locks[p] = locks[q] => p = q

(* ReleaseLock drops its reference to a mutex that the map still has: no   *)
(* restart gets between its two halves, and nobody else changes the map.   *)
ReleaserFindsLock ==
  \A t \in Threads : pc[t] = "releasing" => locks[path[t]] # None

(* The inductive invariant: of LockTable's, what no stale release breaks.  *)
RInv ==
  /\ TypeOK
  /\ TableLockSound
  /\ ReleaserFindsLock
  /\ RefCountBound
  /\ TableMatchesHeap
=============================================================================
