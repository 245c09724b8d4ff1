----------------------------- MODULE LockTable ------------------------------
(***************************************************************************)
(* The lock service of one server: SM2SI::AcquireLock, SM2SI::ReleaseLock  *)
(* and the map _locks of heap-allocated, reference-counted mutexes         *)
(* (server/sm2sI.cpp, server/sm2sI.h).                                     *)
(*                                                                         *)
(* A thread calls AcquireLock, owns the path, calls ReleaseLock: the calls *)
(* are made by the constructor and the destructor of GlobalLock, so a      *)
(* release always follows an acquire of the same thread and path.          *)
(*                                                                         *)
(* The code under _locks_lock in AcquireLock is one step: nothing it       *)
(* touches is visible to a thread that does not hold _locks_lock.  In      *)
(* ReleaseLock the unlock of the path's mutex is visible to the threads    *)
(* blocked in m->lock.lock(), which hold no other lock, so ReleaseLock is  *)
(* two steps with _locks_lock held in between.                             *)
(*                                                                         *)
(* The release build compiles IceUtil::Mutex as a NORMAL pthread mutex:    *)
(* unlocking it from a thread other than the one that locked it frees it.  *)
(***************************************************************************)
EXTENDS Integers, FiniteSets

CONSTANTS
  Threads,  (* the callers: the (hostname, tid) pairs of the requests *)
  Paths,    (* lock paths *)
  Addrs,    (* addresses that new Mutex may return; freed ones are reused *)
  None      (* no mutex, no thread *)

ASSUME NoneAssumption    == None \notin Threads \cup Addrs
ASSUME ThreadsAssumption == IsFiniteSet(Threads)

VARIABLES
  locks,       (* _locks: the address of each path's mutex, or None *)
  live,        (* addresses allocated and not deleted *)
  locked,      (* whether the mutex at an address is locked *)
  ref_cnt,     (* Mutex::ref_cnt at an address *)
  locks_lock,  (* the thread inside a two-step _locks_lock section, or None *)
  pc,          (* where each thread is *)
  path,        (* argument lockPath of its current call *)
  m            (* local variable m of AcquireLock *)

vars == <<locks, live, locked, ref_cnt, locks_lock, pc, path, m>>

TypeOK ==
  /\ locks \in [Paths -> Addrs \cup {None}]
  /\ live \subseteq Addrs
  /\ locked \in [Addrs -> BOOLEAN]
  /\ ref_cnt \in [Addrs -> Int]
  /\ locks_lock \in Threads \cup {None}
  /\ pc \in [Threads -> {"idle", "waiting", "holding", "releasing"}]
  /\ path \in [Threads -> Paths]
  /\ m \in [Threads -> Addrs \cup {None}]

Init ==
  /\ locks = [p \in Paths |-> None]
  /\ live = {}
  /\ locked = [a \in Addrs |-> FALSE]
  /\ ref_cnt = [a \in Addrs |-> 0]
  /\ locks_lock = None
  /\ pc = [t \in Threads |-> "idle"]
  /\ path \in [Threads -> Paths]
  /\ m = [t \in Threads |-> None]
-----------------------------------------------------------------------------
(* Variant: an existing mutex is handed out without counting the user. *)
FindMutexUncounted(t, p) ==
  /\ locks[p] # None
  /\ m' = [m EXCEPT ![t] = locks[p]]
  /\ UNCHANGED <<locks, live, locked, ref_cnt>>

(* AcquireLock, under _locks_lock: the path has a mutex. *)
FindMutex(t, p) ==
  /\ locks[p] # None
  /\ m' = [m EXCEPT ![t] = locks[p]]
  /\ ref_cnt' = [ref_cnt EXCEPT ![locks[p]] = @ + 1]
  /\ UNCHANGED <<locks, live, locked>>

(* Variant: the constructor and AcquireLock both count the first user. *)
NewMutexCountedTwice(t, p) ==
  /\ locks[p] = None
  /\ \E a \in Addrs \ live :
       /\ m' = [m EXCEPT ![t] = a]
       /\ locks' = [locks EXCEPT ![p] = a]
       /\ live' = live \cup {a}
       /\ locked' = [locked EXCEPT ![a] = FALSE]
       /\ ref_cnt' = [ref_cnt EXCEPT ![a] = 2]

(* AcquireLock, under _locks_lock: the path gets a mutex, at any free      *)
(* address.                                                                *)
NewMutex(t, p) ==
  /\ locks[p] = None
  /\ \E a \in Addrs \ live :
       /\ m' = [m EXCEPT ![t] = a]
       /\ locks' = [locks EXCEPT ![p] = a]
       /\ live' = live \cup {a}
       /\ locked' = [locked EXCEPT ![a] = FALSE]
       /\ ref_cnt' = [ref_cnt EXCEPT ![a] = 1]

AcquireLookup(t, p) ==
  /\ pc[t] = "idle"
  /\ locks_lock = None
  /\ FindMutex(t, p) \/ NewMutex(t, p)
  /\ path' = [path EXCEPT ![t] = p]
  /\ pc' = [pc EXCEPT ![t] = "waiting"]
  /\ UNCHANGED locks_lock

(* Variant: tryLock() without a look at its result. *)
AcquireMutexTry(t) ==
  /\ pc[t] = "waiting"
  /\ locked' = [locked EXCEPT ![m[t]] = TRUE]
  /\ pc' = [pc EXCEPT ![t] = "holding"]
  /\ UNCHANGED <<locks, live, ref_cnt, locks_lock, path, m>>

(* AcquireLock: m->lock.lock() returns, outside _locks_lock. *)
AcquireMutex(t) ==
  /\ pc[t] = "waiting"
  /\ ~locked[m[t]]
  /\ locked' = [locked EXCEPT ![m[t]] = TRUE]
  /\ pc' = [pc EXCEPT ![t] = "holding"]
  /\ UNCHANGED <<locks, live, ref_cnt, locks_lock, path, m>>

(* Variant: the mutex stays locked. *)
ReleaseWithoutUnlock(t) ==
  /\ pc[t] = "holding"
  /\ locks_lock = None
  /\ locks[path[t]] # None
  /\ locks_lock' = t
  /\ pc' = [pc EXCEPT ![t] = "releasing"]
  /\ UNCHANGED <<locks, live, locked, ref_cnt, path, m>>

(* ReleaseLock up to the unlock of the path's mutex. *)
ReleaseUnlock(t) ==
  /\ pc[t] = "holding"
  /\ locks_lock = None
  /\ locks[path[t]] # None
  /\ locked' = [locked EXCEPT ![locks[path[t]]] = FALSE]
  /\ locks_lock' = t
  /\ pc' = [pc EXCEPT ![t] = "releasing"]
  /\ UNCHANGED <<locks, live, ref_cnt, path, m>>

(* Variant: the last release erases the path but does not delete. *)
ReleaseDropLeaks(t) ==
  LET a == locks[path[t]] IN
  /\ pc[t] = "releasing"
  /\ ref_cnt' = [ref_cnt EXCEPT ![a] = @ - 1]
  /\ locks' = IF ref_cnt'[a] = 0 THEN [locks EXCEPT ![path[t]] = None] ELSE locks
  /\ locks_lock' = None
  /\ pc' = [pc EXCEPT ![t] = "idle"]
  /\ UNCHANGED <<live, locked, path, m>>

(* ReleaseLock: drop the reference, delete the mutex with the last one. *)
ReleaseDrop(t) ==
  LET a == locks[path[t]] IN
  /\ pc[t] = "releasing"
  /\ ref_cnt' = [ref_cnt EXCEPT ![a] = @ - 1]
  /\ \/ /\ ref_cnt'[a] = 0
        /\ live' = live \ {a}
        /\ locks' = [locks EXCEPT ![path[t]] = None]
     \/ /\ ref_cnt'[a] # 0
        /\ UNCHANGED <<live, locks>>
  /\ locks_lock' = None
  /\ pc' = [pc EXCEPT ![t] = "idle"]
  /\ UNCHANGED <<locked, path, m>>

(* ReleaseLock: "Could not find lock", thrown to the caller. *)
ReleaseNotFound(t) ==
  /\ pc[t] = "holding"
  /\ locks_lock = None
  /\ locks[path[t]] = None
  /\ pc' = [pc EXCEPT ![t] = "idle"]
  /\ UNCHANGED <<locks, live, locked, ref_cnt, locks_lock, path, m>>

Step(t) ==
  \/ AcquireMutex(t)
  \/ ReleaseUnlock(t)
  \/ ReleaseDrop(t)
  \/ ReleaseNotFound(t)

Next == \E t \in Threads : Step(t) \/ \E p \in Paths : AcquireLookup(t, p)

Spec == Init /\ [][Next]_vars

(* A call in progress makes progress when it can, and an owner's           *)
(* destructor runs; nothing forces a thread to ask for a lock, and a       *)
(* NORMAL mutex is not fair between its waiters.                           *)
FairSpec == Spec /\ \A t \in Threads : WF_vars(Step(t))
-----------------------------------------------------------------------------
Holds(t, p) == pc[t] = "holding" /\ path[t] = p

(* The threads counted by the reference count of p's mutex. *)
Users(p) ==
  {t \in Threads : pc[t] \in {"waiting", "holding", "releasing"} /\ path[t] = p}

(* No two threads are between their AcquireLock and their ReleaseLock of   *)
(* the same path: what GlobalLock is for.                                  *)
MutualExclusion ==
  \A t, u \in Threads, p \in Paths : Holds(t, p) /\ Holds(u, p) => t = u

(* A thread inside m->lock.lock() is never left with the address of a      *)
(* deleted Mutex, whatever the release that runs beside it deletes: m is   *)
(* read after _locks_lock is given up.                                     *)
NoDanglingMutex ==
  \A t \in Threads :
    pc[t] = "waiting" => m[t] \in live /\ m[t] = locks[path[t]]

(* ReleaseLock by an owner finds the path in _locks: the exception "Could  *)
(* not find lock" is never thrown.                                         *)
ReleaseFindsLock ==
  \A t \in Threads : pc[t] \in {"holding", "releasing"} => locks[path[t]] # None

(* A reference count is the number of threads that use the path, whatever  *)
(* the order of their calls; so the mutex is deleted by the last of them.  *)
RefCountExact ==
  \A p \in Paths :
    locks[p] # None => ref_cnt[locks[p]] = Cardinality(Users(p))

(* Every allocated Mutex is some path's and every path in _locks is in     *)
(* use: nothing leaks and no two paths share a Mutex.                      *)
NoLeak ==
  /\ \A a \in live : \E p \in Paths : locks[p] = a
  /\ \A p \in Paths : locks[p] # None => locks[p] \in live /\ Users(p) # {}
  /\ \A p, q \in Paths : locks[p] # None /\ locks[p] = locks[q] => p = q

(* A locked mutex has an owner: a released path can be had. *)
LockedHasOwner ==
  \A p \in Paths :
    locks[p] # None => (locked[locks[p]] <=> \E t \in Threads : Holds(t, p))

(* _locks_lock is held exactly by the thread in the middle of ReleaseLock. *)
TableLockSound ==
  \A t \in Threads : pc[t] = "releasing" <=> locks_lock = t

(* The inductive invariant. *)
IInv ==
  /\ TypeOK
  /\ MutualExclusion
  /\ NoDanglingMutex
  /\ ReleaseFindsLock
  /\ RefCountExact
  /\ NoLeak
  /\ LockedHasOwner
  /\ TableLockSound

(* The table keeps GlobalLock's promise. *)
Promise == INSTANCE GlobalLock WITH
  holder <- [p \in Paths |->
               IF \E t \in Threads : Holds(t, p)
               THEN CHOOSE t \in Threads : Holds(t, p)
               ELSE None]

ImplementsGlobalLock == Promise!Spec

(* While threads wait for a path, the path is owned again and again: no    *)
(* wake-up is lost between an unlock, a deletion and a new allocation.     *)
Granted ==
  \A p \in Paths :
    (\E t \in Threads : pc[t] = "waiting" /\ path[t] = p)
      ~> (\E t \in Threads : Holds(t, p))
=============================================================================
