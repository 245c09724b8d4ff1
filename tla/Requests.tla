------------------------------ MODULE Requests ------------------------------
(***************************************************************************)
(* What the handlers of the containers that use redis have in common: the  *)
(* container's lookup, a GlobalLock around C2S_Get, C2S_Put or C2S_Append, *)
(* threads that call the peers, and the three ways out: a return or an     *)
(* exception, which release the lock, or the end of the process, which     *)
(* does not.  The locks are those of LockTable, exclusive; they end with   *)
(* the process of their lock server, and then Acquire and Release throw    *)
(* (out of a destructor: during another exception the process ends).       *)
(* Every bucket has one object, so its lock is the object's, and the body  *)
(* of a function, which runs under the lock, is one step up to its threads *)
(* and one at each peer.  The storage root is the same at all servers, so  *)
(* the path kept in redis is valid at each of them.                        *)
(*                                                                         *)
(* No handler frees the redisContext that it connects, so each request     *)
(* leaves its process with a file descriptor less.  With none left, redis  *)
(* is not connected to, and no file is opened.                             *)
(***************************************************************************)
EXTENDS ContainerMgr, FileOps

CONSTANTS
  Home,       (* the server each client calls *)
  LockServer, (* GlobalLockMgr: the lock server of each bucket's object *)
  Missing,    (* redis has no such key *)
  Plenty      (* more descriptors than the requests of a run can use up *)

VARIABLES
  pc,      (* where each client's request is *)
  kind,    (* "Get", "Put" or "Append" *)
  seqno,   (* the writes of each client *)
  got,     (* the answer to its last Get *)
  holder,  (* the client whose request owns the lock of each bucket's object *)
  files,   (* each server's file of each bucket's object *)
  redis,   (* up, and the values of its keys: external *)
  descriptors  (* that each server process has left *)

callVars    == <<pc, kind, seqno, got, holder, files, redis, descriptors>>
requestVars == <<mgrVars, callVars>>

Peers(c)   == Servers \ {Home[c]}
Here(c)    == <<c, Home[c]>>
File(c, s) == files[s][bucket[c]]
Content(c) == <<[client |-> c, n |-> seqno[c]]>>
SetFile(c, s, content) == files' = [files EXCEPT ![s][bucket[c]] = content]
Replaced(c, s) == WriteAtStart(Truncate(File(c, s)), Content(c))

(* s has n descriptors left. *)
Spare(s, n) == descriptors[s] \notin 0 .. n - 1

(* redisConnectWithTimeout; a failure is seen at the first command only. *)
Connected(s) == redis.up /\ Spare(s, 1)
Connect(s) ==
  descriptors' = [descriptors EXCEPT
    ![s] = IF Connected(s) /\ @ # Plenty THEN @ - 1 ELSE @]

(* ofstream and ifstream find a descriptor: in a handler that has connected *)
(* to redis, and in one at a peer, which only stores.                       *)
OpensConnected(s) == Spare(s, 2)
Opens(s)          == Spare(s, 1)

Kinds == {"Get", "Put", "Append"}

InBody(c, b, k) == pc[c] = "body" /\ bucket[c] = b /\ kind[c] = k
-----------------------------------------------------------------------------
(* C2SI::Get, Put, Append: the handler's first step is GetContainer. *)
Call(c, b, k) ==
  /\ pc[c] = "idle" /\ Home[c] \notin dead
  /\ pc' = [pc EXCEPT ![c] = "container"]
  /\ kind' = [kind EXCEPT ![c] = k]
  /\ seqno' = [seqno EXCEPT ![c] = IF k = "Get" THEN @ ELSE @ + 1]
  /\ bucket' = [bucket EXCEPT ![c] = b]
  /\ place' = [place EXCEPT ![Here(c)] = "find"]
  /\ UNCHANGED <<got, holder, files, redis, descriptors, plugin, load_lock, loads, dead>>

(* The client of a request that failed exits. *)
ContainerThrows(c) ==
  /\ pc[c] = "container" /\ place[Here(c)] = "failed"
  /\ pc' = [pc EXCEPT ![c] = "exited"]
  /\ UNCHANGED <<mgrVars, kind, seqno, got, holder, files, redis, descriptors>>

LockLost(c) == LockServer[bucket[c]] \in dead

(* GlobalLock lock(boID, ...), which waits for the lock. *)
AcquireLock(c) ==
  /\ pc[c] = "container" /\ place[Here(c)] = "in"
  /\ ~LockLost(c) /\ holder[bucket[c]] = Nobody
  /\ pc' = [pc EXCEPT ![c] = "body"]
  /\ holder' = [holder EXCEPT ![bucket[c]] = c]
  /\ UNCHANGED <<mgrVars, kind, seqno, got, files, redis, descriptors>>

AcquireThrows(c) ==
  /\ pc[c] = "container" /\ place[Here(c)] = "in"
  /\ LockLost(c)
  /\ pc' = [pc EXCEPT ![c] = "exited"]
  /\ UNCHANGED <<mgrVars, kind, seqno, got, holder, files, redis, descriptors>>

ReleaseLock(c) == holder' = [holder EXCEPT ![bucket[c]] = Nobody]

HandlersEnd(c) ==
  /\ place' = [h \in Handlers |-> IF h[1] = c THEN "out" ELSE place[h]]
  /\ UNCHANGED <<bucket, plugin, load_lock, loads, dead>>

Return(c) ==
  /\ pc' = [pc EXCEPT ![c] = IF LockLost(c) THEN "exited" ELSE "idle"]
  /\ ReleaseLock(c)
  /\ HandlersEnd(c)

(* A thread per peer of the set; a call of one that is gone fails. *)
StartThreads(c, peers) ==
  /\ pc' = [pc EXCEPT ![c] = "join"]
  /\ place' = [h \in Handlers |->
                 IF h[1] = c /\ h[2] \in peers
                 THEN IF h[2] \in dead THEN "failed" ELSE "find"
                 ELSE place[h]]
  /\ UNCHANGED <<bucket, plugin, load_lock, loads, dead, holder>>

(* The process of s ends: its clients exit, calls that it executes fail,   *)
(* the locks of its requests stay taken.                                   *)
Die(s) ==
  /\ dead' = dead \cup {s}
  /\ pc' = [c \in Clients |-> IF Home[c] = s /\ pc[c] # "idle" THEN "exited" ELSE pc[c]]
  /\ place' = [h \in Handlers |->
                 IF h[2] = s /\ place[h] \notin {"out", "done"} THEN "failed" ELSE place[h]]
  /\ load_lock' = [load_lock EXCEPT ![s] = Nobody]
  /\ UNCHANGED <<bucket, plugin, loads, holder>>

(* Variant: only a return releases the lock. *)
ThrowLocked(c) ==
  /\ pc' = [pc EXCEPT ![c] = "exited"]
  /\ HandlersEnd(c)
  /\ UNCHANGED holder

(* An exception leaves the function: the client exits. *)
Throw(c) ==
  IF LockLost(c)
  THEN Die(Home[c])
  ELSE /\ pc' = [pc EXCEPT ![c] = "exited"]
       /\ ReleaseLock(c)
       /\ HandlersEnd(c)

NullReference(h) ==
  /\ FindsNull(h)
  /\ Die(h[2])
  /\ UNCHANGED <<kind, seqno, got, files, redis, descriptors>>

(* GetThread::run, PutThread::run, AppendThread::run have no handler. *)
ThreadThrows(c) ==
  /\ pc[c] = "join"
  /\ \E s \in Peers(c) : place[<<c, s>>] = "failed"
  /\ Die(Home[c])
  /\ UNCHANGED <<kind, seqno, got, files, redis, descriptors>>

(* All threads are joined; a Get has the content its thread was given. *)
JoinThreads(c) ==
  /\ pc[c] = "join"
  /\ \A s \in Peers(c) : place[<<c, s>>] \in {"out", "done"}
  /\ Return(c)
  /\ UNCHANGED <<kind, seqno, got, files, redis, descriptors>>

(* The handler of c's S2S call at s: its container is loaded, and it is to *)
(* return, to throw, or to end its process.                                *)
AtPeer(c, s, b, k) ==
  /\ place[<<c, s>>] = "in" /\ s # Home[c]
  /\ bucket[c] = b /\ kind[c] = k

PeerEnds(c, s, to) ==
  /\ place' = [place EXCEPT ![<<c, s>>] = to]
  /\ UNCHANGED <<bucket, plugin, load_lock, loads, dead, pc, holder>>

RequestStep(c) ==
  \/ ContainerThrows(c) \/ AcquireLock(c) \/ AcquireThrows(c)
  \/ ThreadThrows(c) \/ JoinThreads(c)
=============================================================================
