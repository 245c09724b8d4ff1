----------------------- MODULE LockTableRestartProofs -----------------------
(***************************************************************************)
(* What a lock server's table keeps through any number of deaths and       *)
(* restarts of its process, for any finite set of threads and any sets of  *)
(* paths and addresses.                                                    *)
(***************************************************************************)
EXTENDS LockTableRestart, LockTableProofs

(* Every step, a restart too, keeps the types. *)
LEMMA RestartKeepsType ==
  ASSUME TypeOK, [NextR]_vars
  PROVE  TypeOK'
<1>1. CASE [Next]_vars
  BY <1>1, StepKeepsType
<1>2. ASSUME NEW t \in Threads, AcquireDeleted(t)
      PROVE  TypeOK'
  BY <1>2 DEF AcquireDeleted, TypeOK
<1>3. CASE Restart
  BY <1>3 DEF Restart, TypeOK
<1> QED
  BY <1>1, <1>2, <1>3 DEF NextR

(* What TableMatchesHeap says, path by path and address by address.        *)
LEMMA HeapByPath ==
  TableMatchesHeap <=>
    /\ \A a \in live : a # None /\ \E p \in Paths : locks[p] = a
    /\ \A p \in Paths : locks[p] # None => locks[p] \in live
    /\ \A p, q \in Paths : locks[p] # None /\ locks[p] = locks[q] => p = q
BY DEF TableMatchesHeap

(* AcquireLock under _locks_lock: one more user, one more count.           *)
LEMMA LookupKeepsRInv ==
  ASSUME RInv, TypeOK', NEW t \in Threads, NEW p \in Paths, AcquireLookup(t, p)
  PROVE  RInv'
<1> USE DEF TypeOK
<1>0. TypeOK
  BY DEF RInv
<1>1. /\ t \notin Users(p)
      /\ Users(p)' = Users(p) \cup {t}
      /\ \A q \in Paths \ {p} : Users(q)' = Users(q)
  BY <1>0, UsersAfterLookup
<1>2. /\ Cardinality(Users(p)') = Cardinality(Users(p)) + 1
      /\ Cardinality(Users(p)) \in Nat
  BY <1>1, UsersFinite, FS_AddElement
<1>3. TableLockSound'
  BY <1>0 DEF RInv, TableLockSound, AcquireLookup
<1>4. CASE FindMutex(t, p)
  <2> USE <1>0, <1>4 DEF FindMutex
  <2>1. ReleaserFindsLock'
    BY DEF RInv, ReleaserFindsLock, AcquireLookup
  <2>2. TableMatchesHeap'
    BY DEF RInv, TableMatchesHeap
  <2>3. RefCountBound'
    <3> SUFFICES ASSUME NEW q \in Paths, locks[q] # None
                 PROVE  ref_cnt'[locks[q]] \in 1 .. Cardinality(Users(q)')
      BY DEF RefCountBound
    <3>1. ref_cnt[locks[q]] \in 1 .. Cardinality(Users(q))
      BY DEF RInv, RefCountBound
    <3>2. CASE q = p
      <4>1. ref_cnt'[locks[q]] = ref_cnt[locks[q]] + 1
        BY <3>2
      <4> QED
        BY <1>2, <3>1, <3>2, <4>1
    <3>3. CASE q # p
      <4>1. locks[q] # locks[p]
        BY <3>3 DEF RInv, TableMatchesHeap
      <4> QED
        BY <1>1, <3>1, <3>3, <4>1
    <3> QED
      BY <3>2, <3>3
  <2> QED
    BY <1>3, <2>1, <2>2, <2>3 DEF RInv
<1>5. CASE NewMutex(t, p)
  <2>0. PICK a \in Addrs \ live :
          /\ locks' = [locks EXCEPT ![p] = a]
          /\ live' = live \cup {a}
          /\ ref_cnt' = [ref_cnt EXCEPT ![a] = 1]
    BY <1>5 DEF NewMutex
  <2>1. a # None /\ locks[p] = None /\ \A q \in Paths : locks[q] # a
    BY <1>5, NoneAssumption, HeapByPath DEF RInv, NewMutex
  <2>2. ReleaserFindsLock'
    BY <1>0, <2>0, <2>1 DEF RInv, ReleaserFindsLock, AcquireLookup
  <2>3. TableMatchesHeap'
    <3>1. \A b \in live' : b # None /\ \E q \in Paths : locks'[q] = b
      BY <1>0, <2>0, <2>1, HeapByPath DEF RInv
    <3>2. \A q \in Paths : locks'[q] # None => locks'[q] \in live'
      BY <1>0, <2>0, <2>1, HeapByPath DEF RInv
    <3>3. \A q, r \in Paths : locks'[q] # None /\ locks'[q] = locks'[r] => q = r
      BY <1>0, <2>0, <2>1, HeapByPath DEF RInv
    <3> QED
      BY <3>1, <3>2, <3>3 DEF TableMatchesHeap
  <2>4. RefCountBound'
    <3> SUFFICES ASSUME NEW q \in Paths, locks'[q] # None
                 PROVE  ref_cnt'[locks'[q]] \in 1 .. Cardinality(Users(q)')
      BY DEF RefCountBound
    <3>1. CASE q = p
      BY <1>0, <1>2, <2>0, <3>1
    <3>2. CASE q # p
      BY <1>0, <1>1, <2>0, <2>1, <3>2 DEF RInv, RefCountBound
    <3> QED
      BY <3>1, <3>2
  <2> QED
    BY <1>3, <2>2, <2>3, <2>4 DEF RInv
<1> QED
  BY <1>4, <1>5 DEF AcquireLookup

(* The steps that leave the map and the counts alone.                      *)
LEMMA QuietStepKeepsRInv ==
  ASSUME RInv, TypeOK', NEW t \in Threads,
         AcquireMutex(t) \/ AcquireDeleted(t) \/ ReleaseUnlock(t)
  PROVE  RInv'
<1>0. TypeOK /\ UNCHANGED <<locks, live, ref_cnt, path>>
  BY DEF RInv, AcquireMutex, AcquireDeleted, ReleaseUnlock
<1>1. \A q \in Paths : Users(q)' = Users(q)
  BY <1>0 DEF Users, AcquireMutex, AcquireDeleted, ReleaseUnlock, TypeOK
<1>2. RefCountBound' /\ TableMatchesHeap'
  BY <1>0, <1>1 DEF RInv, RefCountBound, TableMatchesHeap
<1>3. TableLockSound'
  BY <1>0, NoneAssumption
  DEF RInv, TableLockSound, AcquireMutex, AcquireDeleted, ReleaseUnlock, TypeOK
<1>4. ReleaserFindsLock'
  BY <1>0
  DEF RInv, ReleaserFindsLock, AcquireMutex, AcquireDeleted, ReleaseUnlock, TypeOK
<1> QED
  BY <1>2, <1>3, <1>4 DEF RInv

(* ReleaseLock drops a reference, whoever's acquire had counted it: of the *)
(* users the dropping thread is one, so the count stays in its bound.      *)
LEMMA DropKeepsRInv ==
  ASSUME RInv, TypeOK', NEW t \in Threads, ReleaseDrop(t)
  PROVE  RInv'
<1>0. TypeOK
  BY DEF RInv
<1> PICK p \in Paths : p = path[t]
  BY <1>0 DEF TypeOK
<1> DEFINE a == locks[p]
<1>1. pc[t] = "releasing" /\ a \in Addrs /\ a # None /\ a \in live
  BY <1>0, NoneAssumption, HeapByPath DEF RInv, TypeOK, ReleaserFindsLock, ReleaseDrop
<1>2. /\ t \in Users(p)
      /\ Users(p)' = Users(p) \ {t}
      /\ \A q \in Paths \ {p} : Users(q)' = Users(q)
  BY <1>0, UsersAfterDrop
<1>3. /\ ref_cnt' = [ref_cnt EXCEPT ![a] = @ - 1]
      /\ pc' = [pc EXCEPT ![t] = "idle"]
      /\ locks_lock' = None
      /\ UNCHANGED <<locked, path, m>>
  BY DEF ReleaseDrop
<1>4. /\ Cardinality(Users(p)') = Cardinality(Users(p)) - 1
      /\ Cardinality(Users(p)) \in Nat
  BY <1>2, UsersFinite, FS_RemoveElement
<1>5. ref_cnt[a] \in 1 .. Cardinality(Users(p)) /\ ref_cnt'[a] = ref_cnt[a] - 1
  BY <1>0, <1>1, <1>3 DEF RInv, RefCountBound, TypeOK
<1>6. \A q \in Paths \ {p} : locks[q] # a
  BY <1>1 DEF RInv, TableMatchesHeap
<1>7. TableLockSound'
  BY <1>0, <1>1, <1>3, NoneAssumption DEF RInv, TableLockSound, TypeOK
<1>8. \A u \in Threads : pc'[u] # "releasing"
  BY <1>0, <1>1, <1>3 DEF RInv, TableLockSound, TypeOK
<1>9. ReleaserFindsLock'
  BY <1>8 DEF ReleaserFindsLock
<1>10. CASE /\ ref_cnt'[a] = 0
            /\ live' = live \ {a}
            /\ locks' = [locks EXCEPT ![p] = None]
  <2>1. locks'[p] = None /\ \A q \in Paths \ {p} : locks'[q] = locks[q]
    BY <1>0, <1>10 DEF TypeOK
  <2>2. RefCountBound'
    BY <1>0, <1>2, <1>3, <1>6, <2>1 DEF RInv, RefCountBound, TypeOK
  <2>3. TableMatchesHeap'
    <3>1. \A b \in live' : b # None /\ \E q \in Paths : locks'[q] = b
      BY <1>10, <2>1, HeapByPath DEF RInv
    <3>2. \A q \in Paths : locks'[q] # None => locks'[q] \in live'
      BY <1>6, <1>10, <2>1, HeapByPath DEF RInv
    <3>3. \A q, r \in Paths : locks'[q] # None /\ locks'[q] = locks'[r] => q = r
      BY <2>1, HeapByPath DEF RInv
    <3> QED
      BY <3>1, <3>2, <3>3 DEF TableMatchesHeap
  <2> QED
    BY <1>7, <1>9, <2>2, <2>3 DEF RInv
<1>11. CASE ref_cnt'[a] # 0 /\ UNCHANGED <<live, locks>>
  <2>1. RefCountBound'
    <3> SUFFICES ASSUME NEW q \in Paths, locks[q] # None
                 PROVE  ref_cnt'[locks[q]] \in 1 .. Cardinality(Users(q)')
      BY <1>11 DEF RefCountBound
    <3>1. CASE q = p
      BY <1>4, <1>5, <1>11, <3>1
    <3>2. CASE q # p
      BY <1>0, <1>2, <1>3, <1>6, <3>2 DEF RInv, RefCountBound, TypeOK
    <3> QED
      BY <3>1, <3>2
  <2> QED
    BY <1>7, <1>9, <1>11, <2>1 DEF RInv, TableMatchesHeap
<1> QED
  BY <1>10, <1>11 DEF ReleaseDrop

(* A release that finds nothing: its path has no count to be wrong.        *)
LEMMA NotFoundKeepsRInv ==
  ASSUME RInv, TypeOK', NEW t \in Threads, ReleaseNotFound(t)
  PROVE  RInv'
<1>0. TypeOK /\ UNCHANGED <<locks, live, ref_cnt, locks_lock, path>>
  BY DEF RInv, ReleaseNotFound
<1>1. \A q \in Paths : locks[q] # None => Users(q)' = Users(q)
  BY <1>0 DEF Users, ReleaseNotFound, TypeOK
<1>2. RefCountBound' /\ TableMatchesHeap'
  BY <1>0, <1>1 DEF RInv, RefCountBound, TableMatchesHeap
<1>3. TableLockSound' /\ ReleaserFindsLock'
  BY <1>0, NoneAssumption
  DEF RInv, TableLockSound, ReleaserFindsLock, ReleaseNotFound, TypeOK
<1> QED
  BY <1>2, <1>3 DEF RInv

-----------------------------------------------------------------------------
(* The inductive invariant holds through any number of restarts.           *)
THEOREM RestartInvariance == SpecR => []RInv
<1>1. Init => RInv
  BY NoneAssumption
  DEF Init, RInv, TypeOK, TableLockSound, ReleaserFindsLock, RefCountBound,
      TableMatchesHeap
<1>2. RInv /\ [NextR]_vars => RInv'
  <2> SUFFICES ASSUME RInv, [NextR]_vars
               PROVE  RInv'
    OBVIOUS
  <2>0. TypeOK'
    BY RestartKeepsType DEF RInv
  <2>1. ASSUME NEW t \in Threads, NEW p \in Paths, AcquireLookup(t, p)
        PROVE  RInv'
    BY <2>0, <2>1, LookupKeepsRInv
  <2>2. ASSUME NEW t \in Threads,
               AcquireMutex(t) \/ AcquireDeleted(t) \/ ReleaseUnlock(t)
        PROVE  RInv'
    BY <2>0, <2>2, QuietStepKeepsRInv
  <2>3. ASSUME NEW t \in Threads, ReleaseDrop(t)
        PROVE  RInv'
    BY <2>0, <2>3, DropKeepsRInv
  <2>4. ASSUME NEW t \in Threads, ReleaseNotFound(t)
        PROVE  RInv'
    BY <2>0, <2>4, NotFoundKeepsRInv
  <2>5. CASE Restart
    BY <2>0, <2>5, NoneAssumption
    DEF Restart, RInv, TypeOK, TableLockSound, ReleaserFindsLock, RefCountBound,
        TableMatchesHeap
  <2>6. CASE UNCHANGED vars
    BY <2>6 DEF vars, RInv, TypeOK, TableLockSound, ReleaserFindsLock,
                RefCountBound, TableMatchesHeap, Users
  <2> QED
    BY <2>1, <2>2, <2>3, <2>4, <2>5, <2>6 DEF NextR, Next, Step
<1> QED
  BY <1>1, <1>2, PTL DEF SpecR

(* A reference count is never larger than the number of threads that use   *)
(* the path, and never zero: a path nobody uses keeps no mutex, whatever   *)
(* owners from before a restart release.                                   *)
THEOREM CountsNeverTooLarge == SpecR => []RefCountBound
BY RestartInvariance, PTL DEF RInv

(* Every live Mutex is the mutex of exactly one path after any number of   *)
(* restarts, stale releases and deletions.                                 *)
THEOREM MapMatchesHeap == SpecR => []TableMatchesHeap
BY RestartInvariance, PTL DEF RInv

-----------------------------------------------------------------------------
(* How a restart is outlived.                                              *)
Quiet == \A t \in Threads : pc[t] = "idle"

(* No thread uses a path, so no path has a mutex and none is allocated.    *)
LEMMA QuietTable ==
  ASSUME RInv, Quiet
  PROVE  IInv
<1>1. \A p \in Paths : Users(p) = {}
  BY DEF Quiet, Users
<1>2. \A p \in Paths : locks[p] = None
  <2>1. Cardinality({}) = 0
    BY FS_EmptySet
  <2> QED
    BY <1>1, <2>1 DEF RInv, RefCountBound
<1>3. live = {}
  BY <1>2 DEF RInv, TableMatchesHeap
<1> QED
  BY <1>2, <1>3 DEF RInv, Quiet, IInv, MutualExclusion, Holds, NoDanglingMutex,
     ReleaseFindsLock, RefCountExact, NoLeak, LockedHasOwner

(* Once no thread is between its AcquireLock and its ReleaseLock, what the *)
(* restarts have left behind is gone: until the next restart every path    *)
(* has one owner again, and no caller waits on a deleted Mutex.            *)
THEOREM QuietHealsRestart ==
  SpecR => [](Quiet => ([][Next]_vars => [](MutualExclusion /\ NoDanglingMutex)))
<1>1. RInv /\ Quiet => IInv
  BY QuietTable
<1>2. IInv /\ [Next]_vars => IInv'
  BY StepKeepsIInv
<1>3. IInv => MutualExclusion /\ NoDanglingMutex
  BY DEF IInv
<1> QED
  BY <1>1, <1>2, <1>3, RestartInvariance, PTL
=============================================================================
