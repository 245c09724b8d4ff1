-------------------------- MODULE LockTableProofs ---------------------------
(***************************************************************************)
(* Proofs about LockTable, for any finite set of threads and any sets of   *)
(* paths and addresses.                                                    *)
(***************************************************************************)
EXTENDS LockTable, FiniteSetTheorems, TLAPS

(* The users of a path are finitely many. *)
LEMMA UsersFinite ==
  ASSUME NEW p \in Paths
  PROVE  /\ IsFiniteSet(Users(p))
         /\ Cardinality(Users(p)) \in Nat
BY ThreadsAssumption, FS_Subset, FS_CardinalityType DEF Users

(* Every step keeps the types. *)
LEMMA StepKeepsType ==
  ASSUME TypeOK, [Next]_vars
  PROVE  TypeOK'
<1> USE DEF TypeOK
<1>1. ASSUME NEW t \in Threads, NEW p \in Paths, AcquireLookup(t, p)
      PROVE  TypeOK'
  <2>1. CASE FindMutex(t, p)
    BY <1>1, <2>1 DEF AcquireLookup, FindMutex
  <2>2. CASE NewMutex(t, p)
    BY <1>1, <2>2 DEF AcquireLookup, NewMutex
  <2> QED
    BY <1>1, <2>1, <2>2 DEF AcquireLookup
<1>2. ASSUME NEW t \in Threads, AcquireMutex(t)
      PROVE  TypeOK'
  BY <1>2 DEF AcquireMutex
<1>3. ASSUME NEW t \in Threads, ReleaseUnlock(t)
      PROVE  TypeOK'
  BY <1>3 DEF ReleaseUnlock
<1>4. ASSUME NEW t \in Threads, ReleaseDrop(t)
      PROVE  TypeOK'
  <2>1. locks' \in [Paths -> Addrs \cup {None}] /\ live' \subseteq Addrs
    BY <1>4 DEF ReleaseDrop
  <2>2. ref_cnt' \in [Addrs -> Int]
    <3>1. ref_cnt' = [ref_cnt EXCEPT ![locks[path[t]]] = @ - 1]
      BY <1>4 DEF ReleaseDrop
    <3>2. CASE locks[path[t]] \in Addrs
      BY <3>1, <3>2
    <3>3. CASE locks[path[t]] \notin Addrs
      BY <3>1, <3>3
    <3> QED
      BY <3>2, <3>3
  <2> QED
    BY <1>4, <2>1, <2>2 DEF ReleaseDrop
<1>5. ASSUME NEW t \in Threads, ReleaseNotFound(t)
      PROVE  TypeOK'
  BY <1>5 DEF ReleaseNotFound
<1>6. CASE UNCHANGED vars
  BY <1>6 DEF vars
<1> QED
  BY <1>1, <1>2, <1>3, <1>4, <1>5, <1>6 DEF Next, Step

(* Every reachable state is well typed. *)
THEOREM TypeCorrect == Spec => []TypeOK
<1>1. Init => TypeOK
  BY DEF Init, TypeOK
<1>2. TypeOK /\ [Next]_vars => TypeOK'
  BY StepKeepsType
<1> QED
  BY <1>1, <1>2, PTL DEF Spec

-----------------------------------------------------------------------------
(* How each call changes the users of a path. *)
LEMMA UsersAfterLookup ==
  ASSUME TypeOK, NEW t \in Threads, NEW p \in Paths, AcquireLookup(t, p)
  PROVE  /\ t \notin Users(p)
         /\ Users(p)' = Users(p) \cup {t}
         /\ \A q \in Paths \ {p} : Users(q)' = Users(q)
BY DEF AcquireLookup, TypeOK, Users

LEMMA UsersAfterDrop ==
  ASSUME TypeOK, NEW t \in Threads, ReleaseDrop(t),
         NEW p \in Paths, p = path[t]
  PROVE  /\ t \in Users(p)
         /\ Users(p)' = Users(p) \ {t}
         /\ \A q \in Paths \ {p} : Users(q)' = Users(q)
BY DEF ReleaseDrop, TypeOK, Users

LEMMA UsersKept ==
  ASSUME TypeOK, NEW t \in Threads, NEW q \in Paths,
         AcquireMutex(t) \/ ReleaseUnlock(t)
  PROVE  Users(q)' = Users(q)
BY DEF AcquireMutex, ReleaseUnlock, TypeOK, Users

-----------------------------------------------------------------------------
LEMMA InitIInv == Init => IInv
<1> SUFFICES ASSUME Init PROVE IInv
  OBVIOUS
<1>1. TypeOK
  BY DEF Init, TypeOK
<1>2. MutualExclusion /\ NoDanglingMutex /\ ReleaseFindsLock
  BY DEF Init, MutualExclusion, NoDanglingMutex, ReleaseFindsLock, Holds
<1>3. RefCountExact /\ NoLeak /\ LockedHasOwner
  BY DEF Init, RefCountExact, NoLeak, LockedHasOwner
<1>4. TableLockSound
  BY NoneAssumption DEF Init, TableLockSound
<1> QED
  BY <1>1, <1>2, <1>3, <1>4 DEF IInv

(* AcquireLock under _locks_lock: one more user, counted. *)
LEMMA LookupKeepsIInv ==
  ASSUME IInv, TypeOK', NEW t \in Threads, NEW p \in Paths, AcquireLookup(t, p)
  PROVE  IInv'
<1> USE DEF TypeOK
<1>0. TypeOK
  BY DEF IInv
<1>1. /\ t \notin Users(p)
      /\ Users(p)' = Users(p) \cup {t}
      /\ \A q \in Paths \ {p} : Users(q)' = Users(q)
  BY <1>0, UsersAfterLookup
<1>2. Cardinality(Users(p)') = Cardinality(Users(p)) + 1
  BY <1>1, UsersFinite, FS_AddElement
<1>3. \A u \in Threads, q \in Paths : Holds(u, q)' <=> Holds(u, q)
  BY <1>0 DEF Holds, AcquireLookup
<1>4. MutualExclusion'
  BY <1>3 DEF IInv, MutualExclusion
<1>5. TableLockSound'
  BY <1>0 DEF IInv, TableLockSound, AcquireLookup
<1>6. CASE FindMutex(t, p)
  <2> USE <1>0, <1>6 DEF FindMutex
  <2>1. NoDanglingMutex'
    BY DEF IInv, NoDanglingMutex, NoLeak, AcquireLookup
  <2>2. ReleaseFindsLock'
    BY DEF IInv, ReleaseFindsLock, AcquireLookup
  <2>3. NoLeak'
    BY <1>1 DEF IInv, NoLeak
  <2>4. RefCountExact'
    <3> SUFFICES ASSUME NEW q \in Paths, locks[q] # None
                 PROVE  ref_cnt'[locks[q]] = Cardinality(Users(q)')
      BY DEF RefCountExact
    <3>1. ref_cnt[locks[q]] = Cardinality(Users(q))
      BY DEF IInv, RefCountExact
    <3>2. CASE q = p
      BY <1>2, <3>1, <3>2
    <3>3. CASE q # p
      <4>1. locks[q] # locks[p]
        BY <3>3 DEF IInv, NoLeak
      <4> QED
        BY <1>1, <3>1, <3>3, <4>1
    <3> QED
      BY <3>2, <3>3
  <2>5. LockedHasOwner'
    BY <1>3 DEF IInv, LockedHasOwner
  <2> QED
    BY <1>4, <1>5, <2>1, <2>2, <2>3, <2>4, <2>5 DEF IInv
<1>7. CASE NewMutex(t, p)
  <2> USE <1>0 DEF NewMutex
  <2>0. PICK a \in Addrs \ live :
          /\ m' = [m EXCEPT ![t] = a]
          /\ locks' = [locks EXCEPT ![p] = a]
          /\ live' = live \cup {a}
          /\ locked' = [locked EXCEPT ![a] = FALSE]
          /\ ref_cnt' = [ref_cnt EXCEPT ![a] = 1]
    BY <1>7
  <2>1. a # None /\ locks[p] = None /\ \A q \in Paths : locks[q] # a
    BY <1>7, NoneAssumption DEF IInv, NoLeak
  <2>2. \A u \in Threads : path[u] = p => pc[u] = "idle"
    BY <2>1, NoneAssumption DEF IInv, NoDanglingMutex, ReleaseFindsLock
  <2>3. Users(p) = {}
    BY <2>2 DEF Users
  <2>4. NoDanglingMutex'
    BY <2>0, <2>1, <2>2 DEF IInv, NoDanglingMutex, AcquireLookup
  <2>5. ReleaseFindsLock'
    BY <2>0, <2>1 DEF IInv, ReleaseFindsLock, AcquireLookup
  <2>6. NoLeak'
    <3>1. \A b \in live' : \E q \in Paths : locks'[q] = b
      BY <2>0, <2>1, NoneAssumption DEF IInv, NoLeak
    <3>2. \A q \in Paths : locks'[q] # None => locks'[q] \in live'
      BY <2>0, <2>1 DEF IInv, NoLeak
    <3>3. \A q \in Paths : locks'[q] # None => Users(q)' # {}
      <4> SUFFICES ASSUME NEW q \in Paths, locks'[q] # None
                   PROVE  Users(q)' # {}
        OBVIOUS
      <4>1. CASE q = p
        BY <1>1, <4>1
      <4>2. CASE q # p
        BY <1>1, <2>0, <4>2 DEF IInv, NoLeak
      <4> QED
        BY <4>1, <4>2
    <3>4. \A q, r \in Paths : locks'[q] # None /\ locks'[q] = locks'[r] => q = r
      BY <2>0, <2>1 DEF IInv, NoLeak
    <3> QED
      BY <3>1, <3>2, <3>3, <3>4 DEF NoLeak
  <2>7. RefCountExact'
    <3>1. Cardinality(Users(p)') = 1
      BY <1>2, <2>3, FS_EmptySet
    <3> SUFFICES ASSUME NEW q \in Paths, locks'[q] # None
                 PROVE  ref_cnt'[locks'[q]] = Cardinality(Users(q)')
      BY DEF RefCountExact
    <3>2. CASE q = p
      BY <2>0, <3>1, <3>2
    <3>3. CASE q # p
      BY <1>1, <2>0, <2>1, <3>3 DEF IInv, RefCountExact
    <3> QED
      BY <3>2, <3>3
  <2>8. LockedHasOwner'
    BY <1>3, <2>0, <2>1, <2>2 DEF IInv, LockedHasOwner, Holds
  <2> QED
    BY <1>4, <1>5, <2>4, <2>5, <2>6, <2>7, <2>8 DEF IInv
<1> QED
  BY <1>6, <1>7 DEF AcquireLookup

(* m->lock.lock() returns: the path, which nobody owned, has an owner. *)
LEMMA AcquireMutexKeepsIInv ==
  ASSUME IInv, TypeOK', NEW t \in Threads, AcquireMutex(t)
  PROVE  IInv'
<1> USE DEF TypeOK, AcquireMutex
<1>0. TypeOK
  BY DEF IInv
<1>1. m[t] = locks[path[t]] /\ m[t] # None
  BY <1>0, NoneAssumption DEF IInv, NoDanglingMutex
<1>2. \A q \in Paths : Users(q)' = Users(q)
  BY <1>0, UsersKept
<1>3. \A u \in Threads, q \in Paths :
        Holds(u, q)' <=> Holds(u, q) \/ (u = t /\ q = path[t])
  BY <1>0 DEF Holds
<1>4. \A u \in Threads : ~Holds(u, path[t])
  BY <1>0, <1>1 DEF IInv, LockedHasOwner
<1>5. MutualExclusion'
  BY <1>3, <1>4 DEF IInv, MutualExclusion
<1>6. NoDanglingMutex'
  BY <1>0 DEF IInv, NoDanglingMutex
<1>7. ReleaseFindsLock'
  BY <1>0, <1>1 DEF IInv, ReleaseFindsLock
<1>8. NoLeak' /\ RefCountExact'
  BY <1>2 DEF IInv, NoLeak, RefCountExact
<1>9. LockedHasOwner'
  BY <1>0, <1>1, <1>3 DEF IInv, LockedHasOwner, NoLeak
<1>10. TableLockSound'
  BY <1>0 DEF IInv, TableLockSound
<1> QED
  BY <1>5, <1>6, <1>7, <1>8, <1>9, <1>10 DEF IInv

(* ReleaseLock unlocks: the path has no owner, its mutex stays.            *)
LEMMA ReleaseUnlockKeepsIInv ==
  ASSUME IInv, TypeOK', NEW t \in Threads, ReleaseUnlock(t)
  PROVE  IInv'
<1> USE DEF TypeOK, ReleaseUnlock
<1>0. TypeOK
  BY DEF IInv
<1>1. \A q \in Paths : Users(q)' = Users(q)
  BY <1>0, UsersKept
<1>2. \A u \in Threads, q \in Paths : Holds(u, q)' <=> Holds(u, q) /\ u # t
  BY <1>0 DEF Holds
<1>3. Holds(t, path[t])
  BY <1>0 DEF Holds
<1>4. \A u \in Threads : Holds(u, path[t]) => u = t
  BY <1>0, <1>3 DEF IInv, MutualExclusion
<1>5. MutualExclusion'
  BY <1>2 DEF IInv, MutualExclusion
<1>6. NoDanglingMutex'
  BY <1>0 DEF IInv, NoDanglingMutex
<1>7. ReleaseFindsLock'
  BY <1>0 DEF IInv, ReleaseFindsLock
<1>8. NoLeak' /\ RefCountExact'
  BY <1>1 DEF IInv, NoLeak, RefCountExact
<1>9. LockedHasOwner'
  <2> SUFFICES ASSUME NEW q \in Paths, locks[q] # None
               PROVE  locked'[locks[q]] <=> \E u \in Threads : Holds(u, q)'
    BY DEF LockedHasOwner
  <2>1. locked[locks[q]] <=> \E u \in Threads : Holds(u, q)
    BY DEF IInv, LockedHasOwner
  <2>2. CASE q = path[t]
    BY <1>0, <1>2, <1>4, <2>2, NoneAssumption
  <2>3. CASE q # path[t]
    <3>1. locks[q] # locks[path[t]]
      BY <1>0, <2>3 DEF IInv, NoLeak
    <3>2. ~Holds(t, q)
      BY <2>3 DEF Holds
    <3> QED
      BY <1>0, <1>2, <2>1, <3>1, <3>2
  <2> QED
    BY <2>2, <2>3
<1>10. TableLockSound'
  BY <1>0, NoneAssumption DEF IInv, TableLockSound
<1> QED
  BY <1>5, <1>6, <1>7, <1>8, <1>9, <1>10 DEF IInv

(* ReleaseLock drops its reference: the mutex goes exactly with its last   *)
(* user.                                                                   *)
LEMMA ReleaseDropKeepsIInv ==
  ASSUME IInv, TypeOK', NEW t \in Threads, ReleaseDrop(t)
  PROVE  IInv'
<1>0. TypeOK
  BY DEF IInv
<1> PICK p \in Paths : p = path[t]
  BY <1>0 DEF TypeOK
<1> DEFINE a == locks[p]
<1>1. /\ pc[t] = "releasing"
      /\ a \in Addrs
      /\ a # None
      /\ a \in live
  BY <1>0, NoneAssumption DEF IInv, TypeOK, ReleaseFindsLock, NoLeak, ReleaseDrop
<1>2. /\ t \in Users(p)
      /\ Users(p)' = Users(p) \ {t}
      /\ \A q \in Paths \ {p} : Users(q)' = Users(q)
  BY <1>0, UsersAfterDrop
<1>3. /\ ref_cnt' = [ref_cnt EXCEPT ![a] = @ - 1]
      /\ pc' = [pc EXCEPT ![t] = "idle"]
      /\ locks_lock' = None
      /\ UNCHANGED <<locked, path, m>>
  BY DEF ReleaseDrop
<1>4. ref_cnt'[a] = Cardinality(Users(p)') /\ IsFiniteSet(Users(p)')
  <2>1. Cardinality(Users(p)') = Cardinality(Users(p)) - 1
    BY <1>1, <1>2, UsersFinite, FS_RemoveElement
  <2>2. ref_cnt[a] = Cardinality(Users(p))
    BY <1>1 DEF IInv, RefCountExact
  <2>3. ref_cnt'[a] = ref_cnt[a] - 1
    BY <1>0, <1>1, <1>3 DEF TypeOK
  <2> QED
    BY <1>1, <1>2, <2>1, <2>2, <2>3, UsersFinite, FS_RemoveElement
<1>5. \A u \in Threads, q \in Paths : Holds(u, q)' <=> Holds(u, q)
  BY <1>0, <1>1, <1>3 DEF Holds, TypeOK
<1>6. MutualExclusion'
  BY <1>5 DEF IInv, MutualExclusion
<1>7. TableLockSound'
  BY <1>0, <1>1, <1>3, NoneAssumption DEF IInv, TableLockSound, TypeOK
<1>8. CASE /\ ref_cnt'[a] = 0
           /\ live' = live \ {a}
           /\ locks' = [locks EXCEPT ![p] = None]
  <2>1. Users(p)' = {}
    BY <1>4, <1>8, FS_EmptySet
  <2>2. \A u \in Threads : path[u] = p => pc'[u] = "idle"
    BY <1>0, <1>3, <2>1 DEF Users, TypeOK
  <2>3. \A q \in Paths \ {p} : locks'[q] = locks[q] /\ locks[q] # a
    BY <1>0, <1>1, <1>8 DEF IInv, NoLeak, TypeOK
  <2>4. locks'[p] = None
    BY <1>0, <1>1, <1>8 DEF TypeOK
  <2>5. NoDanglingMutex'
    BY <1>0, <1>3, <1>8, <2>2, <2>3 DEF IInv, NoDanglingMutex, TypeOK
  <2>6. ReleaseFindsLock'
    BY <1>0, <1>3, <2>2, <2>3 DEF IInv, ReleaseFindsLock, TypeOK
  <2>7. RefCountExact'
    BY <1>0, <1>1, <1>2, <1>3, <2>3, <2>4 DEF IInv, RefCountExact, TypeOK
  <2>8. NoLeak'
    <3>1. ASSUME NEW b \in live'
          PROVE  \E q \in Paths : locks'[q] = b
      <4>1. b \in live /\ b # a
        BY <1>8
      <4>2. PICK q \in Paths : locks[q] = b
        BY <4>1 DEF IInv, NoLeak
      <4> QED
        BY <2>3, <4>1, <4>2
    <3>2. \A q \in Paths : locks'[q] # None =>
             locks'[q] \in live' /\ Users(q)' # {}
      BY <1>2, <1>8, <2>3, <2>4 DEF IInv, NoLeak
    <3>3. \A q, r \in Paths :
             locks'[q] # None /\ locks'[q] = locks'[r] => q = r
      BY <2>3, <2>4 DEF IInv, NoLeak
    <3> QED
      BY <3>1, <3>2, <3>3 DEF NoLeak
  <2>9. LockedHasOwner'
    BY <1>0, <1>3, <1>5, <2>3, <2>4 DEF IInv, LockedHasOwner, TypeOK
  <2> QED
    BY <1>6, <1>7, <2>5, <2>6, <2>7, <2>8, <2>9 DEF IInv
<1>9. CASE ref_cnt'[a] # 0 /\ UNCHANGED <<live, locks>>
  <2>1. Users(p)' # {}
    BY <1>4, <1>9, FS_EmptySet
  <2>2. NoDanglingMutex'
    BY <1>0, <1>3, <1>9 DEF IInv, NoDanglingMutex, TypeOK
  <2>3. ReleaseFindsLock'
    BY <1>0, <1>3, <1>9 DEF IInv, ReleaseFindsLock, TypeOK
  <2>4. RefCountExact'
    <3> SUFFICES ASSUME NEW q \in Paths, locks[q] # None
                 PROVE  ref_cnt'[locks[q]] = Cardinality(Users(q)')
      BY <1>9 DEF RefCountExact
    <3>1. CASE q = p
      BY <1>4, <3>1
    <3>2. CASE q # p
      <4>1. locks[q] # a
        BY <1>1, <3>2 DEF IInv, NoLeak
      <4> QED
        BY <1>0, <1>2, <1>3, <3>2, <4>1 DEF IInv, RefCountExact, TypeOK
    <3> QED
      BY <3>1, <3>2
  <2>5. NoLeak'
    <3>1. \A q \in Paths : locks[q] # None => Users(q)' # {}
      BY <1>2, <2>1 DEF IInv, NoLeak
    <3> QED
      BY <1>9, <3>1 DEF IInv, NoLeak
  <2>6. LockedHasOwner'
    BY <1>3, <1>5, <1>9 DEF IInv, LockedHasOwner
  <2> QED
    BY <1>6, <1>7, <2>2, <2>3, <2>4, <2>5, <2>6 DEF IInv
<1> QED
  BY <1>8, <1>9 DEF ReleaseDrop

-----------------------------------------------------------------------------
LEMMA StepKeepsIInv ==
  ASSUME IInv, [Next]_vars
  PROVE  IInv'
<1>t. TypeOK'
  BY StepKeepsType DEF IInv
<1>1. ASSUME NEW t \in Threads, NEW p \in Paths, AcquireLookup(t, p)
      PROVE  IInv'
  BY <1>t, <1>1, LookupKeepsIInv
<1>2. ASSUME NEW t \in Threads, AcquireMutex(t)
      PROVE  IInv'
  BY <1>t, <1>2, AcquireMutexKeepsIInv
<1>3. ASSUME NEW t \in Threads, ReleaseUnlock(t)
      PROVE  IInv'
  BY <1>t, <1>3, ReleaseUnlockKeepsIInv
<1>4. ASSUME NEW t \in Threads, ReleaseDrop(t)
      PROVE  IInv'
  BY <1>t, <1>4, ReleaseDropKeepsIInv
<1>5. ASSUME NEW t \in Threads, ReleaseNotFound(t)
      PROVE  FALSE
  BY <1>5 DEF ReleaseNotFound, IInv, ReleaseFindsLock
<1>6. CASE UNCHANGED vars
  BY <1>6 DEF vars, IInv, TypeOK, MutualExclusion, NoDanglingMutex,
              ReleaseFindsLock, RefCountExact, NoLeak, LockedHasOwner,
              TableLockSound, Holds, Users
<1> QED
  BY <1>1, <1>2, <1>3, <1>4, <1>5, <1>6 DEF Next, Step

(* The inductive invariant holds in every reachable state.                 *)
THEOREM Invariance == Spec => []IInv
BY InitIInv, StepKeepsIInv, PTL DEF Spec

(* No two threads own a path at once: any number of callers, any           *)
(* interleaving of acquires, releases, deletions and address reuse.        *)
THEOREM Exclusion == Spec => []MutualExclusion
BY Invariance, PTL DEF IInv

(* No caller waits on a deleted Mutex.                                     *)
THEOREM NoUseAfterFree == Spec => []NoDanglingMutex
BY Invariance, PTL DEF IInv

(* "Could not find lock" is never thrown while the process lives.          *)
THEOREM OwnersFindTheirLock == Spec => []ReleaseFindsLock
BY Invariance, PTL DEF IInv

(* No Mutex is leaked or shared.                                           *)
THEOREM NothingLeaks == Spec => []NoLeak
BY Invariance, PTL DEF IInv

-----------------------------------------------------------------------------
(* The owner of a path, as ImplementsGlobalLock maps it.                   *)
Owner(p) ==
  IF \E t \in Threads : Holds(t, p)
  THEN CHOOSE t \in Threads : Holds(t, p)
  ELSE None

(* In a state of the invariant the mapping names the one owner.            *)
LEMMA OwnerIsHolder ==
  ASSUME IInv, NEW t \in Threads, NEW p \in Paths
  PROVE  Holds(t, p) <=> Owner(p) = t
BY NoneAssumption DEF Owner, IInv, MutualExclusion

(* Every step of the table is a step of the promise, or none.              *)
THEOREM Implementation == Spec => ImplementsGlobalLock
<1> DEFINE owner == [p \in Paths |-> Owner(p)]
<1>1. Init => Promise!Init
  BY DEF Init, Promise!Init, Holds
<1>2. IInv /\ IInv' /\ [Next]_vars => [Promise!Next]_owner
  <2> SUFFICES ASSUME IInv, IInv', [Next]_vars
               PROVE  [Promise!Next]_owner
    OBVIOUS
  <2>0. TypeOK
    BY DEF IInv
  <2>1. ASSUME \A t \in Threads, p \in Paths : Holds(t, p)' <=> Holds(t, p)
        PROVE  UNCHANGED owner
    <3>1. \A p \in Paths : Owner(p)' = Owner(p)
      BY <2>1 DEF Owner
    <3> QED
      BY <3>1
  <2>2. ASSUME NEW t \in Threads, NEW p \in Paths, AcquireLookup(t, p)
        PROVE  UNCHANGED owner
    BY <2>0, <2>1, <2>2 DEF AcquireLookup, Holds, TypeOK
  <2>3. ASSUME NEW t \in Threads, AcquireMutex(t)
        PROVE  Promise!Grant(t, path[t])
    <3> PICK p \in Paths : p = path[t]
      BY <2>0 DEF TypeOK
    <3>1. /\ \A u \in Threads : ~Holds(u, p)
          /\ Holds(t, p)'
          /\ \A u \in Threads, q \in Paths \ {p} : Holds(u, q)' <=> Holds(u, q)
      BY <2>0, <2>3, NoneAssumption
      DEF IInv, LockedHasOwner, NoDanglingMutex, AcquireMutex, Holds, TypeOK
    <3>2. Owner(p) = None /\ Owner(p)' = t
      BY <3>1, OwnerIsHolder DEF Owner, IInv, MutualExclusion
    <3>3. \A q \in Paths \ {p} : Owner(q)' = Owner(q)
      BY <3>1 DEF Owner
    <3>4. owner' = [owner EXCEPT ![p] = t]
      BY <3>2, <3>3
    <3> QED
      BY <3>2, <3>4 DEF Promise!Grant, Owner
  <2>4. ASSUME NEW t \in Threads, ReleaseUnlock(t)
        PROVE  Promise!Free(t, path[t])
    <3> PICK p \in Paths : p = path[t]
      BY <2>0 DEF TypeOK
    <3>1. /\ Holds(t, p)
          /\ \A u \in Threads : Holds(u, p) => u = t
          /\ ~Holds(t, p)'
          /\ \A u \in Threads \ {t} : Holds(u, p)' <=> Holds(u, p)
          /\ \A u \in Threads, q \in Paths \ {p} : Holds(u, q)' <=> Holds(u, q)
      BY <2>0, <2>4 DEF IInv, MutualExclusion, ReleaseUnlock, Holds, TypeOK
    <3>2. Owner(p) = t /\ Owner(p)' = None
      BY <3>1 DEF Owner
    <3>3. \A q \in Paths \ {p} : Owner(q)' = Owner(q)
      BY <3>1 DEF Owner
    <3>4. owner' = [owner EXCEPT ![p] = None]
      BY <3>2, <3>3
    <3> QED
      BY <3>2, <3>4 DEF Promise!Free, Owner
  <2>5. ASSUME NEW t \in Threads, ReleaseDrop(t)
        PROVE  UNCHANGED owner
    BY <2>0, <2>1, <2>5 DEF ReleaseDrop, Holds, TypeOK
  <2>6. ASSUME NEW t \in Threads, ReleaseNotFound(t)
        PROVE  FALSE
    BY <2>6 DEF ReleaseNotFound, IInv, ReleaseFindsLock
  <2>7. CASE UNCHANGED vars
    BY <2>1, <2>7 DEF vars, Holds
  <2> QED
    BY <2>0, <2>2, <2>3, <2>4, <2>5, <2>6, <2>7
    DEF Next, Step, Promise!Next, TypeOK, Owner
<1> QED
  BY <1>1, <1>2, Invariance, PTL DEF Spec, ImplementsGlobalLock, Promise!Spec, Owner
=============================================================================
