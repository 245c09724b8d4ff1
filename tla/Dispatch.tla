------------------------------ MODULE Dispatch ------------------------------
(***************************************************************************)
(* How the requests of the strongly consistent container wait for one      *)
(* another: for the lock of an object, for a thread of a server's pool,    *)
(* and for the requests before them on the same connection.  Contents are  *)
(* left out.                                                               *)
(*                                                                         *)
(* A handler of C2S_Get, C2S_Put or C2S_Append occupies a pool thread of   *)
(* its server until it returns.  Its nested calls (AcquireLock at the      *)
(* object's lock server, Put or Append at every peer from threads of their *)
(* own, ReleaseLock) are requests on the connection from its server to the *)
(* other, which all proxies to one endpoint share, and occupy a pool       *)
(* thread there while they execute; AcquireLock executes until the lock is *)
(* had.  A server's call to itself runs in the caller's thread when Ice    *)
(* recognizes the endpoint as local (Collocated).  Timeouts are infinite.  *)
(***************************************************************************)
EXTENDS Integers, Sequences, FiniteSets

CONSTANTS
  Clients,     (* one request each at a time *)
  Servers,
  Objects,
  LockServer,  (* GlobalLockMgr: _lock_servers[hash(path) % size] *)
  Collocated,  (* whether a server's calls to itself use no connection *)
  Configs,     (* the deployments to look at *)
  None

(* A deployment: the servers started, the one each client calls, and       *)
(* Ice.ThreadPool.Server.SizeMax and Serialize of their config.server.     *)
Deployment ==
  [servers : SUBSET Servers, home : [Clients -> Servers],
   poolSize : Nat \ {0}, serialize : BOOLEAN]

ASSUME DispatchAssumption ==
  /\ Configs \subseteq Deployment
  /\ \A d \in Configs :
       /\ \A c \in Clients : d.home[c] \in d.servers
       /\ \A o \in Objects : LockServer[o] \in d.servers
  /\ Collocated \in BOOLEAN
  /\ IsFiniteSet(Clients)
  /\ Objects # {}
  /\ None \notin Clients

VARIABLES
  config,   (* the deployment; no step changes it *)
  pc,       (* where each client's request is *)
  obj,      (* the object it is for *)
  kind,     (* "read" or "write" *)
  unsent,   (* the peers whose PutThread or AppendThread has not sent yet *)
  pending,  (* the peers whose answer the handler waits for *)
  queue,    (* requests sent from one server to another, not dispatched *)
  running,  (* requests that occupy a pool thread, without the handlers *)
  holder    (* the client whose handler owns each object's lock *)

vars == <<config, pc, obj, kind, unsent, pending, queue, running, holder>>

Request(c, from, to, what) == [client |-> c, from |-> from, to |-> to, what |-> what]

Home     == config.home
Peers(s) == config.servers \ {s}

Init ==
  /\ config \in Configs
  /\ pc = [c \in Clients |-> "idle"]
  /\ obj = [c \in Clients |-> CHOOSE o \in Objects : TRUE]
  /\ kind = [c \in Clients |-> "read"]
  /\ unsent = [c \in Clients |-> {}]
  /\ pending = [c \in Clients |-> {}]
  /\ queue = [s \in Servers |-> [t \in Servers |-> <<>>]]
  /\ running = {}
  /\ holder = [o \in Objects |-> None]

InHandler(c) == pc[c] \notin {"idle", "calling"}

Handlers(s) == {c \in Clients : Home[c] = s /\ InHandler(c)}
Executed(s) == {r \in running : r.to = s}

ThreadsUsed(s) == Cardinality(Handlers(s)) + Cardinality(Executed(s))

(* Variant: a thread less than SizeMax. *)
ThreadFreeButOne(s) == ThreadsUsed(s) < config.poolSize - 1

ThreadFree(s) == ThreadsUsed(s) < config.poolSize

Goto(c, from, to) == pc[c] = from /\ pc' = [pc EXCEPT ![c] = to]

Send(c, to, what) ==
  queue' = [queue EXCEPT ![Home[c]][to] =
              Append(@, Request(c, Home[c], to, what))]

LockIsLocal(c) == Collocated /\ LockServer[obj[c]] = Home[c]
-----------------------------------------------------------------------------
(* The client sends its request, on a connection of its own. *)
Call(c) ==
  /\ Goto(c, "idle", "calling")
  /\ \E o \in Objects, k \in {"read", "write"} :
       obj' = [obj EXCEPT ![c] = o] /\ kind' = [kind EXCEPT ![c] = k]
  /\ UNCHANGED <<config, unsent, pending, queue, running, holder>>

(* A pool thread of the client's server takes it. *)
StartHandler(c) ==
  /\ ThreadFree(Home[c])
  /\ Goto(c, "calling", "lock")
  /\ UNCHANGED <<config, obj, kind, unsent, pending, queue, running, holder>>

(* GlobalLockMgr::Acquire, in the same thread or as a request. *)
AcquireHere(c) ==
  /\ LockIsLocal(c)
  /\ holder[obj[c]] = None
  /\ Goto(c, "lock", "locked")
  /\ holder' = [holder EXCEPT ![obj[c]] = c]
  /\ UNCHANGED <<config, obj, kind, unsent, pending, queue, running>>

AcquireThere(c) ==
  /\ ~LockIsLocal(c)
  /\ Goto(c, "lock", "locking")
  /\ Send(c, LockServer[obj[c]], "Acquire")
  /\ UNCHANGED <<config, obj, kind, unsent, pending, running, holder>>

(* The local file access, and a write's threads for all peers. *)
AccessFile(c) ==
  /\ Goto(c, "locked", "updating")
  /\ LET peers == IF kind[c] = "write" THEN Peers(Home[c]) ELSE {} IN
       /\ unsent' = [unsent EXCEPT ![c] = peers]
       /\ pending' = [pending EXCEPT ![c] = peers]
  /\ UNCHANGED <<config, obj, kind, queue, running, holder>>

(* Variant: a thread that has sent its update sends it again. *)
SendUpdateAgain(c, s) ==
  /\ s \in pending[c]
  /\ unsent' = [unsent EXCEPT ![c] = @ \ {s}]
  /\ Send(c, s, "Update")
  /\ UNCHANGED <<config, pc, obj, kind, pending, running, holder>>

(* PutThread::run, AppendThread::run; the threads run in any order. *)
SendUpdate(c, s) ==
  /\ s \in unsent[c]
  /\ unsent' = [unsent EXCEPT ![c] = @ \ {s}]
  /\ Send(c, s, "Update")
  /\ UNCHANGED <<config, pc, obj, kind, pending, running, holder>>

(* GlobalLockMgr::Release, after every thread has been joined. *)
ReleaseHere(c) ==
  /\ LockIsLocal(c)
  /\ pending[c] = {}
  /\ Goto(c, "updating", "return")
  /\ holder' = [holder EXCEPT ![obj[c]] = None]
  /\ UNCHANGED <<config, obj, kind, unsent, pending, queue, running>>

ReleaseThere(c) ==
  /\ ~LockIsLocal(c)
  /\ pending[c] = {}
  /\ Goto(c, "updating", "unlocking")
  /\ Send(c, LockServer[obj[c]], "Release")
  /\ UNCHANGED <<config, obj, kind, unsent, pending, running, holder>>

Return(c) ==
  /\ Goto(c, "return", "idle")
  /\ UNCHANGED <<config, obj, kind, unsent, pending, queue, running, holder>>

(* A pool thread of t takes the next request on the connection from s.     *)
DispatchNext(s, t) ==
  /\ queue[s][t] # <<>>
  /\ ThreadFree(t)
  /\ config.serialize => \A r \in running : ~(r.from = s /\ r.to = t)
  /\ running' = running \cup {Head(queue[s][t])}
  /\ queue' = [queue EXCEPT ![s][t] = Tail(@)]
  /\ UNCHANGED <<config, pc, obj, kind, unsent, pending, holder>>

(* Variant: ReleaseLock answers but does not unlock. *)
AnswerReleaseOnly(r) ==
  /\ r.what = "Release"
  /\ pc' = [pc EXCEPT ![r.client] = "return"]
  /\ UNCHANGED <<holder, pending>>

(* SM2SI::AcquireLock, Put or Append, ReleaseLock answer. *)
AnswerAcquire(r) ==
  /\ r.what = "Acquire"
  /\ holder[obj[r.client]] = None
  /\ holder' = [holder EXCEPT ![obj[r.client]] = r.client]
  /\ pc' = [pc EXCEPT ![r.client] = "locked"]
  /\ UNCHANGED pending

AnswerUpdate(r) ==
  /\ r.what = "Update"
  /\ pending' = [pending EXCEPT ![r.client] = @ \ {r.to}]
  /\ UNCHANGED <<holder, pc>>

AnswerRelease(r) ==
  /\ r.what = "Release"
  /\ holder' = [holder EXCEPT ![obj[r.client]] = None]
  /\ pc' = [pc EXCEPT ![r.client] = "return"]
  /\ UNCHANGED pending

Answer(r) ==
  /\ AnswerAcquire(r) \/ AnswerUpdate(r) \/ AnswerRelease(r)
  /\ running' = running \ {r}
  /\ UNCHANGED <<config, obj, kind, unsent, queue>>

HandlerStep(c) ==
  \/ StartHandler(c)
  \/ AcquireHere(c) \/ AcquireThere(c)
  \/ AccessFile(c) \/ (\E s \in Servers : SendUpdate(c, s))
  \/ ReleaseHere(c) \/ ReleaseThere(c)
  \/ Return(c)

ServerStep(t) ==
  \/ \E s \in Servers : DispatchNext(s, t)
  \/ \E r \in running : r.to = t /\ Answer(r)

Work == (\E c \in Clients : HandlerStep(c)) \/ (\E t \in Servers : ServerStep(t))

Next == (\E c \in Clients : Call(c)) \/ Work

Spec == Init /\ [][Next]_vars

(* Threads run, and a request that stays at the head of its connection     *)
(* with a free thread is taken.  The mutex of an object is not fair, so no *)
(* request is promised the lock.                                           *)
FairSpec ==
  /\ Spec
  /\ \A c \in Clients :
       /\ WF_vars(HandlerStep(c))
       /\ WF_vars(\E r \in running : r.client = c /\ Answer(r))
  /\ \A s, t \in Servers : WF_vars(DispatchNext(s, t))
-----------------------------------------------------------------------------
Requests ==
  [client : Clients, from : Servers, to : Servers,
   what : {"Acquire", "Update", "Release"}]

TypeOK ==
  /\ config \in Configs
  /\ pc \in [Clients -> {"idle", "calling", "lock", "locking", "locked",
                         "updating", "unlocking", "return"}]
  /\ obj \in [Clients -> Objects]
  /\ kind \in [Clients -> {"read", "write"}]
  /\ unsent \in [Clients -> SUBSET Servers]
  /\ pending \in [Clients -> SUBSET Servers]
  /\ queue \in [Servers -> [Servers -> Seq(Requests)]]
  /\ running \in SUBSET Requests
  /\ holder \in [Objects -> Clients \cup {None}]

(* The lock of an object is taken from the answer of AcquireLock to that   *)
(* of ReleaseLock, by the handler that is between them.                    *)
LocksOwned ==
  \A o \in Objects, c \in Clients :
    holder[o] = c <=>
      pc[c] \in {"locked", "updating", "unlocking"} /\ obj[c] = o

(* A handler has threads only between its file access and its release, and *)
(* to other servers than its own; it sends no lock request to itself.      *)
ThreadsInCall ==
  \A c \in Clients :
    /\ unsent[c] \subseteq pending[c]
    /\ pending[c] \subseteq Peers(Home[c])
    /\ pending[c] # {} => pc[c] = "updating"
    /\ pc[c] \in {"locking", "unlocking"} => ~LockIsLocal(c)

(* The requests whose answer some handler waits for. *)
Awaited(r) ==
  /\ r.from = Home[r.client]
  /\ CASE r.what = "Acquire" -> /\ pc[r.client] = "locking"
                                /\ r.to = LockServer[obj[r.client]]
       [] r.what = "Release" -> /\ pc[r.client] = "unlocking"
                                /\ r.to = LockServer[obj[r.client]]
       [] r.what = "Update"  -> r.to \in pending[r.client] \ unsent[r.client]

Queued(s, t) == {queue[s][t][i] : i \in DOMAIN queue[s][t]}

(* What is awaited is on its connection or executed, and nothing else is;  *)
(* no request is there twice.                                              *)
RequestsOnce ==
  /\ \A r \in Requests :
       Awaited(r) => r \in running \/ r \in Queued(r.from, r.to)
  /\ \A r \in running : Awaited(r)
  /\ \A s, t \in Servers :
       /\ \A r \in Queued(s, t) :
            Awaited(r) /\ r.from = s /\ r.to = t /\ r \notin running
       /\ \A i, j \in DOMAIN queue[s][t] : queue[s][t][i] = queue[s][t][j] => i = j

(* No pool has more threads than SizeMax at work, and a serialized         *)
(* connection has one request executed at a time.                          *)
PoolsBounded ==
  /\ IsFiniteSet(running)
  /\ \A s \in Servers : ThreadsUsed(s) <= config.poolSize
  /\ config.serialize =>
       \A q, r \in running : q.from = r.from /\ q.to = r.to => q = r

(* Every request that a handler waits for exists once, in a pool that has  *)
(* a thread for it or on its connection, and every lock has the owner that *)
(* will release it.                                                        *)
DispatchInv ==
  TypeOK /\ LocksOwned /\ ThreadsInCall /\ RequestsOnce /\ PoolsBounded

(* The guards of Work: whether some thread can take a step. *)
Dispatchable(s, t) ==
  /\ queue[s][t] # <<>>
  /\ ThreadFree(t)
  /\ config.serialize => \A r \in running : ~(r.from = s /\ r.to = t)

CanWork ==
  \/ \E c \in Clients :
       \/ pc[c] = "calling" /\ ThreadFree(Home[c])
       \/ pc[c] = "lock" /\ (LockIsLocal(c) => holder[obj[c]] = None)
       \/ pc[c] \in {"locked", "return"}
       \/ unsent[c] # {}
       \/ pc[c] = "updating" /\ pending[c] = {}
  \/ \E s, t \in Servers : Dispatchable(s, t)
  \/ \E r \in running : r.what = "Acquire" => holder[obj[r.client]] = None

(* "You need to make sure that a deadlock does not happen" (C2S_Append):   *)
(* while a request is in progress, some thread can take a step for it.     *)
(* Calls do not count, so a deadlock of some clients shows when the others *)
(* have come to rest.                                                      *)
SomeoneCanWork == (\E c \in Clients : pc[c] # "idle") => CanWork

(* SomeoneCanWork says it by the guards of Work, for the proofs; these     *)
(* guards are what enables Work.                                           *)
NoDeadlock == SomeoneCanWork /\ (CanWork <=> ENABLED Work)

(* No object stays locked: the owner's updates and its release are not for *)
(* ever behind requests that wait for the owner.  A deadlock of some       *)
(* clients shows here although others go on.                               *)
LockReleased == \A o \in Objects : holder[o] # None ~> holder[o] = None
=============================================================================
