--------------------------- MODULE DispatchProofs ---------------------------
(***************************************************************************)
(* Requests, locks, pools and connections, for any finite set of clients   *)
(* and any servers, objects and deployments: no request is lost or sent    *)
(* twice, and nobody waits for ever where the pools are large enough.      *)
(***************************************************************************)
EXTENDS Dispatch, FiniteSetTheorems, TLAPS

(* A deployment without deadlock: a thread for every client in each pool,  *)
(* and serialized connections only where each server has one client.  The  *)
(* two deployments that the runs find free of deadlock are of this kind.   *)
Roomy ==
  /\ Collocated
  /\ Cardinality(Clients) <= config.poolSize
  /\ config.serialize => \A c, d \in Clients : Home[c] = Home[d] => c = d

(* What DispatchAssumption says of the deployment that runs.               *)
LEMMA ConfigFacts ==
  ASSUME config \in Configs
  PROVE  /\ config.poolSize \in Nat \ {0}
         /\ Home \in [Clients -> Servers]
         /\ \A c \in Clients : Home[c] \in config.servers
         /\ \A s \in Servers : Peers(s) \subseteq Servers
         /\ \A o \in Objects : LockServer[o] \in Servers
BY DispatchAssumption DEF Deployment, Home, Peers

LEMMA InitInv ==
  ASSUME Init
  PROVE  DispatchInv
<1> USE DEF Init
<1>1. (CHOOSE o \in Objects : TRUE) \in Objects
  BY DispatchAssumption
<1>2. TypeOK
  BY <1>1 DEF TypeOK
<1>3. LocksOwned
  BY DispatchAssumption DEF LocksOwned
<1>4. ThreadsInCall
  BY DEF ThreadsInCall
<1>5. \A r \in Requests : ~Awaited(r)
  BY DEF Awaited, Requests
<1>6. RequestsOnce
  BY <1>5 DEF RequestsOnce, Queued
<1>7. \A s \in Servers : Handlers(s) = {} /\ Executed(s) = {}
  BY DEF Handlers, Executed, InHandler
<1>8. ASSUME NEW s \in Servers
      PROVE  ThreadsUsed(s) = 0
  <2>1. Cardinality(Handlers(s)) = 0 /\ Cardinality(Executed(s)) = 0
    BY <1>7, FS_EmptySet, Zenon
  <2> QED
    BY <2>1 DEF ThreadsUsed
<1>9. IsFiniteSet(running)
  BY FS_EmptySet
<1>10. PoolsBounded
  BY <1>8, <1>9, ConfigFacts DEF PoolsBounded
<1> QED
  BY <1>2, <1>3, <1>4, <1>6, <1>10 DEF DispatchInv

-----------------------------------------------------------------------------
(* Types                                                                   *)

(* Sending puts a request of the types into the queue.                     *)
LEMMA SendType ==
  ASSUME TypeOK, NEW c \in Clients, NEW t \in Servers,
         NEW what \in {"Acquire", "Update", "Release"}, Send(c, t, what)
  PROVE  /\ Request(c, Home[c], t, what) \in Requests
         /\ queue' \in [Servers -> [Servers -> Seq(Requests)]]
<1>1. Home[c] \in Servers
  BY ConfigFacts DEF TypeOK
<1>2. Request(c, Home[c], t, what) \in Requests
  BY <1>1 DEF Request, Requests
<1>3. Append(queue[Home[c]][t], Request(c, Home[c], t, what)) \in Seq(Requests)
  BY <1>1, <1>2 DEF TypeOK
<1> QED
  BY <1>1, <1>2, <1>3 DEF Send, TypeOK

LEMMA HandlerKeepsType ==
  ASSUME TypeOK, NEW c \in Clients, HandlerStep(c)
  PROVE  TypeOK'
<1> USE DEF TypeOK
<1>0. /\ LockServer[obj[c]] \in Servers
      /\ Home[c] \in Servers
      /\ Peers(Home[c]) \subseteq Servers
  BY ConfigFacts
<1>1. CASE StartHandler(c)
  BY <1>1 DEF StartHandler, Goto
<1>2. CASE AcquireHere(c)
  BY <1>2 DEF AcquireHere, Goto
<1>3. CASE AcquireThere(c)
  BY <1>0, <1>3, SendType DEF AcquireThere, Goto
<1>4. CASE AccessFile(c)
  BY <1>0, <1>4 DEF AccessFile, Goto
<1>5. ASSUME NEW s \in Servers, SendUpdate(c, s)
      PROVE  TypeOK'
  BY <1>5, SendType DEF SendUpdate
<1>6. CASE ReleaseHere(c)
  BY <1>6 DEF ReleaseHere, Goto
<1>7. CASE ReleaseThere(c)
  BY <1>0, <1>7, SendType DEF ReleaseThere, Goto
<1>8. CASE Return(c)
  BY <1>8 DEF Return, Goto
<1> QED
  BY <1>1, <1>2, <1>3, <1>4, <1>5, <1>6, <1>7, <1>8 DEF HandlerStep

(* The request that is taken next.                                         *)
LEMMA HeadFacts ==
  ASSUME TypeOK, NEW s \in Servers, NEW t \in Servers, queue[s][t] # <<>>
  PROVE  /\ Head(queue[s][t]) \in Requests
         /\ Head(queue[s][t]) = queue[s][t][1]
         /\ 1 \in DOMAIN queue[s][t]
         /\ Tail(queue[s][t]) \in Seq(Requests)
         /\ DOMAIN Tail(queue[s][t]) = 1 .. (Len(queue[s][t]) - 1)
         /\ \A i \in DOMAIN Tail(queue[s][t]) :
              i + 1 \in DOMAIN queue[s][t] /\ Tail(queue[s][t])[i] = queue[s][t][i + 1]
<1>1. queue[s][t] \in Seq(Requests)
  BY DEF TypeOK
<1> QED
  BY <1>1

LEMMA ServerKeepsType ==
  ASSUME TypeOK, NEW t \in Servers, ServerStep(t)
  PROVE  TypeOK'
<1>1. ASSUME NEW s \in Servers, DispatchNext(s, t)
      PROVE  TypeOK'
  BY <1>1, HeadFacts DEF DispatchNext, TypeOK
<1>2. ASSUME NEW r \in running, Answer(r)
      PROVE  TypeOK'
  <2>1. r.client \in Clients
    BY DEF TypeOK, Requests
  <2>2. obj[r.client] \in Objects
    BY <2>1 DEF TypeOK
  <2>3. UNCHANGED <<config, obj, kind, unsent, queue>> /\ running' = running \ {r}
    BY <1>2 DEF Answer
  <2>4. CASE AnswerAcquire(r)
    BY <2>1, <2>2, <2>3, <2>4 DEF AnswerAcquire, TypeOK
  <2>5. CASE AnswerUpdate(r)
    BY <2>1, <2>3, <2>5 DEF AnswerUpdate, TypeOK
  <2>6. CASE AnswerRelease(r)
    BY <2>1, <2>2, <2>3, <2>6 DEF AnswerRelease, TypeOK
  <2> QED
    BY <1>2, <2>4, <2>5, <2>6 DEF Answer
<1> QED
  BY <1>1, <1>2 DEF ServerStep

LEMMA StepKeepsType ==
  ASSUME TypeOK, [Next]_vars
  PROVE  TypeOK'
<1>1. CASE \E c \in Clients : Call(c)
  BY <1>1 DEF Call, Goto, TypeOK
<1>2. CASE UNCHANGED vars
  BY <1>2 DEF vars, TypeOK
<1> QED
  BY <1>1, <1>2, HandlerKeepsType, ServerKeepsType DEF Next, Work
-----------------------------------------------------------------------------
(* Locks, and the threads of a handler                                     *)

(* Who waits for the answer of a request that is executed.                 *)
LEMMA Executing ==
  ASSUME TypeOK, RequestsOnce, NEW r \in running
  PROVE  /\ r \in Requests
         /\ r.client \in Clients
         /\ r.to \in Servers
         /\ r.from = Home[r.client]
         /\ r.what = "Acquire" => /\ pc[r.client] = "locking"
                                  /\ r.to = LockServer[obj[r.client]]
         /\ r.what = "Release" => /\ pc[r.client] = "unlocking"
                                  /\ r.to = LockServer[obj[r.client]]
         /\ r.what = "Update" => r.to \in pending[r.client] \ unsent[r.client]
<1>1. r \in Requests /\ Awaited(r)
  BY DEF TypeOK, RequestsOnce
<1>2. r.client \in Clients /\ r.to \in Servers
  BY <1>1 DEF Requests
<1> QED
  BY <1>1, <1>2 DEF Awaited

(* A step that leaves the owners and all but one client's place alone.     *)
LEMMA LocksKept ==
  ASSUME LocksOwned, TypeOK, NEW c \in Clients,
         holder' = holder, NEW x, pc' = [pc EXCEPT ![c] = x],
         \A d \in Clients \ {c} : obj'[d] = obj[d],
         \/ /\ pc[c] \notin {"locked", "updating", "unlocking"}
            /\ x \notin {"locked", "updating", "unlocking"}
         \/ /\ pc[c] \in {"locked", "updating", "unlocking"}
            /\ x \in {"locked", "updating", "unlocking"}
            /\ obj'[c] = obj[c]
  PROVE  LocksOwned'
<1> SUFFICES ASSUME NEW o \in Objects, NEW d \in Clients
             PROVE  holder'[o] = d <=>
                      /\ pc'[d] \in {"locked", "updating", "unlocking"}
                      /\ obj'[d] = o
  BY DEF LocksOwned
<1>1. holder[o] = d <=> pc[d] \in {"locked", "updating", "unlocking"} /\ obj[d] = o
  BY DEF LocksOwned
<1>2. pc'[d] = IF d = c THEN x ELSE pc[d]
  BY DEF TypeOK
<1>3. CASE d = c
  BY <1>1, <1>2, <1>3
<1>4. CASE d # c
  BY <1>1, <1>2, <1>4
<1> QED
  BY <1>3, <1>4

(* The lock of a handler's object is given to it.                          *)
LEMMA LockGranted ==
  ASSUME LocksOwned, TypeOK, NEW c \in Clients, holder[obj[c]] = None,
         pc[c] \in {"lock", "locking"}, obj' = obj,
         holder' = [holder EXCEPT ![obj[c]] = c],
         pc' = [pc EXCEPT ![c] = "locked"]
  PROVE  LocksOwned'
<1> SUFFICES ASSUME NEW o \in Objects, NEW d \in Clients
             PROVE  holder'[o] = d <=>
                      /\ pc'[d] \in {"locked", "updating", "unlocking"}
                      /\ obj[d] = o
  BY DEF LocksOwned
<1>1. holder[o] = d <=> pc[d] \in {"locked", "updating", "unlocking"} /\ obj[d] = o
  BY DEF LocksOwned
<1>2. holder'[o] = (IF o = obj[c] THEN c ELSE holder[o])
  BY DEF TypeOK
<1>3. pc'[d] = IF d = c THEN "locked" ELSE pc[d]
  BY DEF TypeOK
<1> QED
  BY <1>1, <1>2, <1>3, DispatchAssumption

(* The owner's handler gives its lock up.                                  *)
LEMMA LockGivenUp ==
  ASSUME LocksOwned, TypeOK, NEW c \in Clients,
         pc[c] \in {"updating", "unlocking"}, obj' = obj,
         holder' = [holder EXCEPT ![obj[c]] = None],
         pc' = [pc EXCEPT ![c] = "return"]
  PROVE  LocksOwned'
<1> SUFFICES ASSUME NEW o \in Objects, NEW d \in Clients
             PROVE  holder'[o] = d <=>
                      /\ pc'[d] \in {"locked", "updating", "unlocking"}
                      /\ obj[d] = o
  BY DEF LocksOwned
<1>1. holder[o] = d <=> pc[d] \in {"locked", "updating", "unlocking"} /\ obj[d] = o
  BY DEF LocksOwned
<1>2. obj[c] \in Objects /\ holder[obj[c]] = c
  BY DEF LocksOwned, TypeOK
<1>3. holder'[o] = (IF o = obj[c] THEN None ELSE holder[o])
  BY DEF TypeOK
<1>4. pc'[d] = IF d = c THEN "return" ELSE pc[d]
  BY DEF TypeOK
<1> QED
  BY <1>1, <1>2, <1>3, <1>4, DispatchAssumption

LEMMA StepKeepsLocks ==
  ASSUME TypeOK, LocksOwned, RequestsOnce, [Next]_vars
  PROVE  LocksOwned'
<1>1. ASSUME NEW c \in Clients, Call(c)
      PROVE  LocksOwned'
  <2>1. \A d \in Clients \ {c} : obj'[d] = obj[d]
    BY <1>1 DEF Call, TypeOK
  <2> QED
    BY <1>1, <2>1, LocksKept DEF Call, Goto
<1>2. ASSUME NEW c \in Clients, HandlerStep(c)
      PROVE  LocksOwned'
  <2>1. CASE StartHandler(c) \/ AcquireThere(c) \/ AccessFile(c)
               \/ ReleaseThere(c) \/ Return(c)
    BY <2>1, LocksKept
       DEF StartHandler, AcquireThere, AccessFile, ReleaseThere, Return, Goto
  <2>2. CASE AcquireHere(c)
    BY <2>2, LockGranted DEF AcquireHere, Goto
  <2>3. CASE ReleaseHere(c)
    BY <2>3, LockGivenUp DEF ReleaseHere, Goto
  <2>4. CASE \E s \in Servers : SendUpdate(c, s)
    BY <2>4 DEF SendUpdate, LocksOwned
  <2> QED
    BY <1>2, <2>1, <2>2, <2>3, <2>4 DEF HandlerStep
<1>3. ASSUME NEW t \in Servers, ServerStep(t)
      PROVE  LocksOwned'
  <2>1. ASSUME NEW r \in running, Answer(r)
        PROVE  LocksOwned'
    <3>1. CASE AnswerAcquire(r)
      BY <2>1, <3>1, Executing, LockGranted DEF Answer, AnswerAcquire
    <3>2. CASE AnswerUpdate(r)
      BY <2>1, <3>2 DEF Answer, AnswerUpdate, LocksOwned
    <3>3. CASE AnswerRelease(r)
      BY <2>1, <3>3, Executing, LockGivenUp DEF Answer, AnswerRelease
    <3> QED
      BY <2>1, <3>1, <3>2, <3>3 DEF Answer
  <2>2. CASE \E s \in Servers : DispatchNext(s, t)
    BY <2>2 DEF DispatchNext, LocksOwned
  <2> QED
    BY <1>3, <2>1, <2>2 DEF ServerStep
<1>4. CASE UNCHANGED vars
  BY <1>4 DEF vars, LocksOwned
<1> QED
  BY <1>1, <1>2, <1>3, <1>4 DEF Next, Work

LEMMA StepKeepsThreads ==
  ASSUME TypeOK, ThreadsInCall, RequestsOnce, [Next]_vars
  PROVE  ThreadsInCall'
<1> USE DEF ThreadsInCall, Peers, Home, LockIsLocal
<1>1. ASSUME NEW c \in Clients, Call(c)
      PROVE  ThreadsInCall'
  BY <1>1 DEF Call, Goto, TypeOK
<1>2. ASSUME NEW c \in Clients, HandlerStep(c)
      PROVE  ThreadsInCall'
  <2>1. CASE StartHandler(c) \/ AcquireHere(c) \/ AcquireThere(c)
               \/ ReleaseHere(c) \/ ReleaseThere(c) \/ Return(c)
    BY <2>1 DEF StartHandler, AcquireHere, AcquireThere, ReleaseHere,
                ReleaseThere, Return, Goto, TypeOK
  <2>2. CASE AccessFile(c)
    BY <2>2 DEF AccessFile, Goto, TypeOK
  <2>3. CASE \E s \in Servers : SendUpdate(c, s)
    BY <2>3 DEF SendUpdate, TypeOK
  <2> QED
    BY <1>2, <2>1, <2>2, <2>3 DEF HandlerStep
<1>3. ASSUME NEW t \in Servers, ServerStep(t)
      PROVE  ThreadsInCall'
  <2>1. ASSUME NEW r \in running, Answer(r)
        PROVE  ThreadsInCall'
    <3>1. r.client \in Clients
      BY Executing
    <3>2. CASE AnswerAcquire(r)
      <4>1. pc[r.client] = "locking"
        BY <3>2, Executing DEF AnswerAcquire
      <4> QED
        BY <2>1, <3>1, <3>2, <4>1 DEF Answer, AnswerAcquire, TypeOK
    <3>3. CASE AnswerUpdate(r)
      <4>1. r.to \notin unsent[r.client]
        BY <3>3, Executing DEF AnswerUpdate
      <4> QED
        BY <2>1, <3>1, <3>3, <4>1 DEF Answer, AnswerUpdate, TypeOK
    <3>4. CASE AnswerRelease(r)
      <4>1. pc[r.client] = "unlocking"
        BY <3>4, Executing DEF AnswerRelease
      <4> QED
        BY <2>1, <3>1, <3>4, <4>1 DEF Answer, AnswerRelease, TypeOK
    <3> QED
      BY <2>1, <3>2, <3>3, <3>4 DEF Answer
  <2>2. CASE \E s \in Servers : DispatchNext(s, t)
    BY <2>2 DEF DispatchNext
  <2> QED
    BY <1>3, <2>1, <2>2 DEF ServerStep
<1>4. CASE UNCHANGED vars
  BY <1>4 DEF vars
<1> QED
  BY <1>1, <1>2, <1>3, <1>4 DEF Next, Work
-----------------------------------------------------------------------------
(* Requests                                                                *)

(* Steps that neither send nor answer nor take a request.                  *)
LEMMA RequestsKept ==
  ASSUME RequestsOnce, TypeOK, UNCHANGED <<queue, running>>,
         \A r \in Requests : Awaited(r)' <=> Awaited(r)
  PROVE  RequestsOnce'
<1>1. \A s, t \in Servers : Queued(s, t) \subseteq Requests
  BY DEF Queued, TypeOK
<1>2. \A s, t : Queued(s, t)' = Queued(s, t)
  BY DEF Queued
<1>3. running \subseteq Requests
  BY DEF TypeOK
<1>4. \A r \in Requests : Awaited(r)' => r \in running' \/ r \in Queued(r.from, r.to)'
  BY <1>2 DEF RequestsOnce
<1>5. \A r \in running' : Awaited(r)'
  BY <1>3 DEF RequestsOnce
<1>6. ASSUME NEW s \in Servers, NEW t \in Servers
      PROVE  /\ \A r \in Queued(s, t)' :
                  Awaited(r)' /\ r.from = s /\ r.to = t /\ r \notin running'
             /\ \A i, j \in DOMAIN queue'[s][t] :
                  queue'[s][t][i] = queue'[s][t][j] => i = j
  BY <1>1, <1>2 DEF RequestsOnce
<1> QED
  BY <1>4, <1>5, <1>6 DEF RequestsOnce

(* A connection after a request was sent on it.                            *)
LEMMA QueuedAfterSend ==
  ASSUME TypeOK, NEW c \in Clients, NEW u \in Servers,
         NEW what \in {"Acquire", "Update", "Release"}, Send(c, u, what),
         NEW s \in Servers, NEW t \in Servers
  PROVE  LET new == Request(c, Home[c], u, what) IN
         IF s = Home[c] /\ t = u
           THEN /\ queue'[s][t] = Append(queue[s][t], new)
                /\ Queued(s, t)' = Queued(s, t) \cup {new}
           ELSE /\ queue'[s][t] = queue[s][t]
                /\ Queued(s, t)' = Queued(s, t)
<1>1. Home[c] \in Servers /\ queue[s][t] \in Seq(Requests)
  BY ConfigFacts DEF TypeOK
<1>2. CASE ~(s = Home[c] /\ t = u)
  <2>1. queue'[s][t] = queue[s][t]
    BY <1>1, <1>2 DEF Send, TypeOK
  <2> QED
    BY <1>2, <2>1 DEF Queued
<1>3. CASE s = Home[c] /\ t = u
  <2> DEFINE new == Request(c, Home[c], u, what)
  <2>1. queue'[s][t] = Append(queue[s][t], new)
    BY <1>1, <1>3 DEF Send, TypeOK
  <2>2. new \in Requests
    BY SendType
  <2>3. /\ DOMAIN Append(queue[s][t], new) = DOMAIN queue[s][t] \cup {Len(queue[s][t]) + 1}
        /\ \A i \in DOMAIN queue[s][t] : Append(queue[s][t], new)[i] = queue[s][t][i]
        /\ Append(queue[s][t], new)[Len(queue[s][t]) + 1] = new
    BY <1>1, <2>2
  <2>4. Queued(s, t)' = Queued(s, t) \cup {new}
    BY <2>1, <2>3 DEF Queued
  <2> QED
    BY <1>3, <2>1, <2>4
<1> QED
  BY <1>2, <1>3

(* A request that nobody awaited is sent and awaited.                      *)
LEMMA RequestSent ==
  ASSUME RequestsOnce, TypeOK, NEW c \in Clients, NEW u \in Servers,
         NEW what \in {"Acquire", "Update", "Release"}, Send(c, u, what),
         running' = running,
         ~Awaited(Request(c, Home[c], u, what)),
         \A r \in Requests :
           Awaited(r)' <=> Awaited(r) \/ r = Request(c, Home[c], u, what)
  PROVE  RequestsOnce'
<1> DEFINE new == Request(c, Home[c], u, what)
<1>1. /\ new \in Requests /\ Home[c] \in Servers
      /\ new.from = Home[c] /\ new.to = u
  BY SendType, ConfigFacts DEF Request, TypeOK
<1>2. \A s, t \in Servers : Queued(s, t) \subseteq Requests
  BY DEF Queued, TypeOK
<1>3. new \notin running /\ \A s, t \in Servers : new \notin Queued(s, t)
  BY DEF RequestsOnce
<1>4. ASSUME NEW r \in Requests, Awaited(r)'
      PROVE  r \in running' \/ r \in Queued(r.from, r.to)'
  <2>1. r.from \in Servers /\ r.to \in Servers
    BY DEF Requests
  <2>2. CASE r = new
    BY <1>1, <2>1, <2>2, QueuedAfterSend
  <2>3. CASE Awaited(r)
    BY <2>1, <2>3, QueuedAfterSend DEF RequestsOnce
  <2> QED
    BY <1>4, <2>2, <2>3
<1>5. \A r \in running' : Awaited(r)'
  BY DEF RequestsOnce, TypeOK
<1>6. ASSUME NEW s \in Servers, NEW t \in Servers
      PROVE  /\ \A r \in Queued(s, t)' :
                  Awaited(r)' /\ r.from = s /\ r.to = t /\ r \notin running'
             /\ \A i, j \in DOMAIN queue'[s][t] :
                  queue'[s][t][i] = queue'[s][t][j] => i = j
  <2>1. /\ \A r \in Queued(s, t) : /\ r \in Requests /\ Awaited(r)
                                   /\ r.from = s /\ r.to = t /\ r \notin running
        /\ \A i, j \in DOMAIN queue[s][t] : queue[s][t][i] = queue[s][t][j] => i = j
    BY <1>2 DEF RequestsOnce
  <2>2. CASE ~(s = Home[c] /\ t = u)
    <3>1. queue'[s][t] = queue[s][t] /\ Queued(s, t)' = Queued(s, t)
      BY <2>2, QueuedAfterSend
    <3> QED
      BY <2>1, <3>1
  <2>3. CASE s = Home[c] /\ t = u
    <3>1. /\ queue'[s][t] = Append(queue[s][t], new)
          /\ Queued(s, t)' = Queued(s, t) \cup {new}
      BY <2>3, QueuedAfterSend
    <3>2. \A r \in Queued(s, t)' :
            Awaited(r)' /\ r.from = s /\ r.to = t /\ r \notin running'
      BY <1>1, <1>3, <2>1, <2>3, <3>1
    <3>3. queue[s][t] \in Seq(Requests)
      BY DEF TypeOK
    <3>4. \A i \in DOMAIN queue[s][t] : queue[s][t][i] # new
      BY <1>3 DEF Queued
    <3>5. /\ DOMAIN Append(queue[s][t], new)
               = DOMAIN queue[s][t] \cup {Len(queue[s][t]) + 1}
          /\ \A i \in DOMAIN queue[s][t] : Append(queue[s][t], new)[i] = queue[s][t][i]
          /\ Append(queue[s][t], new)[Len(queue[s][t]) + 1] = new
      BY <1>1, <3>3
    <3> QED
      BY <2>1, <3>1, <3>2, <3>4, <3>5
  <2> QED
    BY <2>2, <2>3
<1> QED
  BY <1>4, <1>5, <1>6 DEF RequestsOnce

(* A request's answer ends its execution.                                  *)
LEMMA RequestAnswered ==
  ASSUME RequestsOnce, TypeOK, NEW q \in running,
         running' = running \ {q}, queue' = queue,
         \A r \in Requests : Awaited(r)' <=> Awaited(r) /\ r # q
  PROVE  RequestsOnce'
<1>1. \A s, t : Queued(s, t)' = Queued(s, t)
  BY DEF Queued
<1>2. \A s, t \in Servers : Queued(s, t) \subseteq Requests
  BY DEF Queued, TypeOK
<1>3. \A r \in Requests : Awaited(r)' => r \in running' \/ r \in Queued(r.from, r.to)'
  BY <1>1 DEF RequestsOnce
<1>4. \A r \in running' : Awaited(r)'
  BY DEF RequestsOnce, TypeOK
<1>5. ASSUME NEW s \in Servers, NEW t \in Servers
      PROVE  /\ \A r \in Queued(s, t)' :
                  Awaited(r)' /\ r.from = s /\ r.to = t /\ r \notin running'
             /\ \A i, j \in DOMAIN queue'[s][t] :
                  queue'[s][t][i] = queue'[s][t][j] => i = j
  <2>1. /\ \A r \in Queued(s, t) : /\ r \in Requests /\ Awaited(r)
                                   /\ r.from = s /\ r.to = t /\ r \notin running
        /\ \A i, j \in DOMAIN queue[s][t] : queue[s][t][i] = queue[s][t][j] => i = j
    BY <1>2 DEF RequestsOnce
  <2> QED
    BY <1>1, <2>1
<1> QED
  BY <1>3, <1>4, <1>5 DEF RequestsOnce

(* A connection after its first request was taken.                         *)
LEMMA QueuedAfterTake ==
  ASSUME TypeOK, RequestsOnce, NEW s \in Servers, NEW t \in Servers,
         DispatchNext(s, t), NEW x \in Servers, NEW y \in Servers
  PROVE  /\ IF x = s /\ y = t
              THEN queue'[x][y] = Tail(queue[x][y])
              ELSE queue'[x][y] = queue[x][y]
         /\ Queued(x, y)' = Queued(x, y) \ {Head(queue[s][t])}
         /\ \A i, j \in DOMAIN queue'[x][y] :
              queue'[x][y][i] = queue'[x][y][j] => i = j
<1> DEFINE head == Head(queue[s][t])
<1>0. queue[s][t] # <<>> /\ queue' = [queue EXCEPT ![s][t] = Tail(@)]
  BY DEF DispatchNext
<1>1. head = queue[s][t][1] /\ 1 \in DOMAIN queue[s][t] /\ head \in Queued(s, t)
  BY <1>0, HeadFacts DEF Queued
<1>2. head.from = s /\ head.to = t
  BY <1>1 DEF RequestsOnce
<1>3. /\ \A r \in Queued(x, y) : r.from = x /\ r.to = y
      /\ \A i, j \in DOMAIN queue[x][y] : queue[x][y][i] = queue[x][y][j] => i = j
  BY DEF RequestsOnce
<1>4. CASE ~(x = s /\ y = t)
  <2>1. queue'[x][y] = queue[x][y]
    BY <1>0, <1>4 DEF TypeOK
  <2>2. head \notin Queued(x, y)
    BY <1>2, <1>3, <1>4
  <2>3. Queued(x, y)' = Queued(x, y) \ {head}
    BY <2>1, <2>2 DEF Queued
  <2> QED
    BY <1>3, <1>4, <2>1, <2>3
<1>5. CASE x = s /\ y = t
  <2>1. queue'[s][t] = Tail(queue[s][t])
    BY <1>0 DEF TypeOK
  <2>2. /\ queue[s][t] \in Seq(Requests)
        /\ DOMAIN Tail(queue[s][t]) = 1 .. (Len(queue[s][t]) - 1)
        /\ \A i \in DOMAIN Tail(queue[s][t]) :
             i + 1 \in DOMAIN queue[s][t] /\ Tail(queue[s][t])[i] = queue[s][t][i + 1]
    BY <1>0, HeadFacts DEF TypeOK
  <2>3. DOMAIN queue[s][t] = 1 .. Len(queue[s][t]) /\ Len(queue[s][t]) \in Nat
    BY <2>2
  <2>4. \A i, j \in DOMAIN queue'[s][t] : queue'[s][t][i] = queue'[s][t][j] => i = j
    BY <1>3, <1>5, <2>1, <2>2, <2>3
  <2>5. ASSUME NEW i \in DOMAIN queue'[s][t]
        PROVE  queue'[s][t][i] \in Queued(s, t) \ {head}
    <3>1. i + 1 \in DOMAIN queue[s][t] /\ queue'[s][t][i] = queue[s][t][i + 1]
      BY <2>1, <2>2
    <3>2. i + 1 # 1
      BY <2>1, <2>2
    <3> QED
      BY <1>1, <1>3, <1>5, <3>1, <3>2 DEF Queued
  <2>6. ASSUME NEW i \in DOMAIN queue[s][t], queue[s][t][i] # head
        PROVE  \E j \in DOMAIN queue'[s][t] : queue'[s][t][j] = queue[s][t][i]
    <3>1. i # 1
      BY <1>1, <2>6
    <3>2. i - 1 \in DOMAIN queue'[s][t] /\ (i - 1) + 1 = i
      BY <2>1, <2>2, <2>3, <3>1
    <3> QED
      BY <2>1, <2>2, <3>2
  <2>7. Queued(s, t)' = Queued(s, t) \ {head}
    BY <2>5, <2>6 DEF Queued
  <2> QED
    BY <1>5, <2>1, <2>4, <2>7
<1> QED
  BY <1>4, <1>5

(* A request is taken from its connection and executed.                    *)
LEMMA RequestTaken ==
  ASSUME RequestsOnce, TypeOK, NEW s \in Servers, NEW t \in Servers,
         DispatchNext(s, t)
  PROVE  RequestsOnce'
<1> DEFINE head == Head(queue[s][t])
<1>1. /\ queue[s][t] # <<>>
      /\ queue' = [queue EXCEPT ![s][t] = Tail(@)]
      /\ running' = running \cup {head}
  BY DEF DispatchNext
<1>2. head \in Requests /\ head \in Queued(s, t) /\ Awaited(head)
  BY <1>1, HeadFacts DEF Queued, RequestsOnce
<1>3. \A r \in Requests : Awaited(r)' <=> Awaited(r)
  BY DEF DispatchNext, Awaited, Home
<1>4. ASSUME NEW x \in Servers, NEW y \in Servers
      PROVE  /\ Queued(x, y)' = Queued(x, y) \ {head}
             /\ Queued(x, y) \subseteq Requests
             /\ \A i, j \in DOMAIN queue'[x][y] :
                  queue'[x][y][i] = queue'[x][y][j] => i = j
  <2>1. Queued(x, y) \subseteq Requests
    BY DEF Queued, TypeOK
  <2> QED
    BY <2>1, QueuedAfterTake
<1>5. ASSUME NEW r \in Requests, Awaited(r)'
      PROVE  r \in running' \/ r \in Queued(r.from, r.to)'
  <2>1. r.from \in Servers /\ r.to \in Servers
    BY DEF Requests
  <2>2. r \in running \/ r \in Queued(r.from, r.to)
    BY <1>3, <1>5 DEF RequestsOnce
  <2> QED
    BY <1>1, <1>4, <2>1, <2>2
<1>6. \A r \in running' : Awaited(r)'
  BY <1>1, <1>2, <1>3 DEF RequestsOnce, TypeOK
<1>7. ASSUME NEW x \in Servers, NEW y \in Servers, NEW r \in Queued(x, y)'
      PROVE  Awaited(r)' /\ r.from = x /\ r.to = y /\ r \notin running'
  <2>1. r \in Queued(x, y) /\ r # head /\ r \in Requests
    BY <1>4
  <2>2. Awaited(r) /\ r.from = x /\ r.to = y /\ r \notin running
    BY <2>1 DEF RequestsOnce
  <2> QED
    BY <1>1, <1>3, <2>1, <2>2
<1> QED
  BY <1>4, <1>5, <1>6, <1>7 DEF RequestsOnce
(* Awaited without its cases, before and after a step.                     *)
LEMMA AwaitedCases ==
  ASSUME NEW r \in Requests
  PROVE  /\ Awaited(r) <=>
              /\ r.from = config.home[r.client]
              /\ \/ /\ r.what = "Acquire" /\ pc[r.client] = "locking"
                    /\ r.to = LockServer[obj[r.client]]
                 \/ /\ r.what = "Release" /\ pc[r.client] = "unlocking"
                    /\ r.to = LockServer[obj[r.client]]
                 \/ /\ r.what = "Update"
                    /\ r.to \in pending[r.client] \ unsent[r.client]
         /\ Awaited(r)' <=>
              /\ r.from = config'.home[r.client]
              /\ \/ /\ r.what = "Acquire" /\ pc'[r.client] = "locking"
                    /\ r.to = LockServer[obj'[r.client]]
                 \/ /\ r.what = "Release" /\ pc'[r.client] = "unlocking"
                    /\ r.to = LockServer[obj'[r.client]]
                 \/ /\ r.what = "Update"
                    /\ r.to \in pending'[r.client] \ unsent'[r.client]
BY DEF Awaited, Home, Requests

(* Where only one client's place changes, and not from or to one where it  *)
(* waits for a lock server, the same requests are awaited.                 *)
LEMMA AwaitedKept ==
  ASSUME TypeOK, NEW c \in Clients, NEW x, config' = config,
         pc' = [pc EXCEPT ![c] = x],
         {pc[c], x} \cap {"locking", "unlocking"} = {},
         \A d \in Clients \ {c} : obj'[d] = obj[d],
         \A d \in Clients : pending'[d] \ unsent'[d] = pending[d] \ unsent[d]
  PROVE  \A r \in Requests : Awaited(r)' <=> Awaited(r)
<1> SUFFICES ASSUME NEW r \in Requests
             PROVE  Awaited(r)' <=> Awaited(r)
  OBVIOUS
<1>1. r.client \in Clients
  BY DEF Requests
<1>2. pc'[r.client] = IF r.client = c THEN x ELSE pc[r.client]
  BY <1>1 DEF TypeOK
<1>3. CASE r.client = c
  BY <1>1, <1>2, <1>3 DEF Awaited, Home, Requests
<1>4. CASE r.client # c
  BY <1>1, <1>2, <1>4 DEF Awaited, Home, Requests
<1> QED
  BY <1>3, <1>4

LEMMA CallKeepsRequests ==
  ASSUME TypeOK, RequestsOnce, NEW c \in Clients, Call(c)
  PROVE  RequestsOnce'
<1>1. \A d \in Clients \ {c} : obj'[d] = obj[d]
  BY DEF Call, TypeOK
<1>2. \A r \in Requests : Awaited(r)' <=> Awaited(r)
  BY <1>1, AwaitedKept DEF Call, Goto
<1> QED
  BY <1>2, RequestsKept DEF Call

(* A handler asks its object's lock server for the lock, or gives it back. *)
LEMMA LockRequestKeepsRequests ==
  ASSUME TypeOK, RequestsOnce, ThreadsInCall, NEW c \in Clients,
         AcquireThere(c) \/ ReleaseThere(c)
  PROVE  RequestsOnce'
<1> DEFINE what == IF AcquireThere(c) THEN "Acquire" ELSE "Release"
           u    == LockServer[obj[c]]
           new  == Request(c, Home[c], u, what)
<1>1. /\ what \in {"Acquire", "Release"} /\ u \in Servers
      /\ pc[c] \notin {"locking", "unlocking"}
      /\ pc' = [pc EXCEPT ![c] = IF what = "Acquire" THEN "locking" ELSE "unlocking"]
      /\ Send(c, u, what)
      /\ UNCHANGED <<config, obj, unsent, pending, running>>
  BY ConfigFacts DEF AcquireThere, ReleaseThere, Goto, TypeOK
<1> HIDE DEF what
<1>2. ~Awaited(new)
  BY <1>1 DEF Awaited, Request
<1>3. ASSUME NEW r \in Requests
      PROVE  Awaited(r)' <=> Awaited(r) \/ r = new
  <2>1. r.client \in Clients /\ r.what \in {"Acquire", "Update", "Release"}
    BY DEF Requests
  <2>2. pc'[r.client] = IF r.client = c
                          THEN IF what = "Acquire" THEN "locking" ELSE "unlocking"
                          ELSE pc[r.client]
    BY <1>1, <2>1 DEF TypeOK
  <2>3. r = new <=> r.client = c /\ r.from = Home[c] /\ r.to = u /\ r.what = what
    BY DEF Requests, Request
  <2>4. CASE r.client = c
    <3>1. pending[c] = {}
      BY DEF AcquireThere, ReleaseThere, Goto, ThreadsInCall
    <3> QED
      BY <1>1, <2>2, <2>3, <2>4, <3>1, AwaitedCases DEF Home
  <2>5. CASE r.client # c
    BY <1>1, <2>1, <2>2, <2>3, <2>5, AwaitedCases DEF Home
  <2> QED
    BY <2>4, <2>5
<1> QED
  BY <1>1, <1>2, <1>3, RequestSent

LEMMA UpdateKeepsRequests ==
  ASSUME TypeOK, RequestsOnce, ThreadsInCall, NEW c \in Clients, NEW s \in Servers,
         SendUpdate(c, s)
  PROVE  RequestsOnce'
<1> DEFINE new == Request(c, Home[c], s, "Update")
<1>1. s \in unsent[c] /\ s \in pending[c]
  BY DEF SendUpdate, ThreadsInCall
<1>2. ~Awaited(new)
  BY <1>1 DEF Awaited, Request
<1>3. ASSUME NEW r \in Requests
      PROVE  Awaited(r)' <=> Awaited(r) \/ r = new
  <2>1. r.client \in Clients /\ r.what \in {"Acquire", "Update", "Release"}
    BY DEF Requests
  <2>2. unsent'[r.client] = IF r.client = c THEN unsent[c] \ {s} ELSE unsent[r.client]
    BY <2>1 DEF SendUpdate, TypeOK
  <2>3. r = new <=> /\ r.client = c /\ r.from = Home[c] /\ r.to = s
                    /\ r.what = "Update"
    BY DEF Requests, Request
  <2> QED
    BY <1>1, <2>1, <2>2, <2>3, AwaitedCases DEF SendUpdate, Home
<1> QED
  BY <1>2, <1>3, RequestSent DEF SendUpdate

LEMMA HandlerKeepsRequests ==
  ASSUME TypeOK, RequestsOnce, ThreadsInCall, NEW c \in Clients, HandlerStep(c)
  PROVE  RequestsOnce'
<1>1. CASE StartHandler(c) \/ AcquireHere(c) \/ ReleaseHere(c) \/ Return(c)
  <2>1. \A r \in Requests : Awaited(r)' <=> Awaited(r)
    BY <1>1, AwaitedKept DEF StartHandler, AcquireHere, ReleaseHere, Return, Goto
  <2> QED
    BY <1>1, <2>1, RequestsKept DEF StartHandler, AcquireHere, ReleaseHere, Return
<1>2. CASE AccessFile(c)
  <2>1. pending[c] = {}
    BY <1>2 DEF AccessFile, Goto, ThreadsInCall
  <2>2. \A d \in Clients : pending'[d] \ unsent'[d] = pending[d] \ unsent[d]
    BY <1>2, <2>1 DEF AccessFile, TypeOK
  <2>3. \A r \in Requests : Awaited(r)' <=> Awaited(r)
    BY <1>2, <2>2, AwaitedKept DEF AccessFile, Goto
  <2> QED
    BY <1>2, <2>3, RequestsKept DEF AccessFile
<1> QED
  BY <1>1, <1>2, LockRequestKeepsRequests, UpdateKeepsRequests DEF HandlerStep

LEMMA AnswerKeepsRequests ==
  ASSUME TypeOK, RequestsOnce, ThreadsInCall, NEW q \in running, Answer(q)
  PROVE  RequestsOnce'
<1>1. /\ q \in Requests /\ q.client \in Clients /\ q.from = Home[q.client]
  BY Executing
<1>2. UNCHANGED <<config, obj, unsent, queue>> /\ running' = running \ {q}
  BY DEF Answer
<1>3. ASSUME NEW r \in Requests
      PROVE  Awaited(r)' <=> Awaited(r) /\ r # q
  <2>1. r.client \in Clients /\ r.what \in {"Acquire", "Update", "Release"}
    BY DEF Requests
  <2>2. r = q <=> /\ r.client = q.client /\ r.from = q.from /\ r.to = q.to
                  /\ r.what = q.what
    BY <1>1 DEF Requests
  <2>3. CASE AnswerAcquire(q) \/ AnswerRelease(q)
    <3>1. /\ q.what \in {"Acquire", "Release"}
          /\ pc[q.client] = (IF q.what = "Acquire" THEN "locking" ELSE "unlocking")
          /\ q.to = LockServer[obj[q.client]]
          /\ pc' = [pc EXCEPT ![q.client] = IF q.what = "Acquire" THEN "locked"
                                                                  ELSE "return"]
          /\ pending' = pending
      BY <2>3, Executing DEF AnswerAcquire, AnswerRelease
    <3>2. pc'[r.client] = IF r.client = q.client
                            THEN IF q.what = "Acquire" THEN "locked" ELSE "return"
                            ELSE pc[r.client]
      BY <2>1, <3>1 DEF TypeOK
    <3>3. CASE r.client = q.client
      <4>1. pending[r.client] = {}
        BY <1>1, <3>1, <3>3 DEF ThreadsInCall
      <4> QED
        BY <1>1, <1>2, <2>1, <2>2, <3>1, <3>2, <3>3, <4>1, AwaitedCases DEF Home
    <3>4. CASE r.client # q.client
      BY <1>2, <2>1, <2>2, <3>1, <3>2, <3>4, AwaitedCases
    <3> QED
      BY <3>3, <3>4
  <2>4. CASE AnswerUpdate(q)
    <3>1. /\ q.what = "Update" /\ pc' = pc
          /\ pending'[r.client] = IF r.client = q.client
                                    THEN pending[r.client] \ {q.to}
                                    ELSE pending[r.client]
      BY <2>1, <2>4 DEF AnswerUpdate, TypeOK
    <3> QED
      BY <1>1, <1>2, <2>1, <2>2, <3>1, AwaitedCases DEF Home
  <2> QED
    BY <2>3, <2>4 DEF Answer
<1> QED
  BY <1>2, <1>3, RequestAnswered

LEMMA StepKeepsRequests ==
  ASSUME TypeOK, RequestsOnce, ThreadsInCall, [Next]_vars
  PROVE  RequestsOnce'
<1>1. CASE UNCHANGED vars
  <2>1. \A r : Awaited(r)' <=> Awaited(r)
    BY <1>1 DEF vars, Awaited, Home
  <2> QED
    BY <1>1, <2>1, RequestsKept DEF vars
<1> QED
  BY <1>1, CallKeepsRequests, HandlerKeepsRequests, RequestTaken,
     AnswerKeepsRequests DEF Next, Work, ServerStep
-----------------------------------------------------------------------------
(* Threads                                                                 *)

(* The threads of a server, as finite sets.                                *)
LEMMA ThreadsFinite ==
  ASSUME IsFiniteSet(running), NEW s
  PROVE  /\ IsFiniteSet(Handlers(s)) /\ Cardinality(Handlers(s)) \in Nat
         /\ IsFiniteSet(Executed(s)) /\ Cardinality(Executed(s)) \in Nat
         /\ ThreadsUsed(s) \in Nat
<1>1. IsFiniteSet(Handlers(s)) /\ Cardinality(Handlers(s)) \in Nat
  BY DispatchAssumption, FS_Subset, FS_CardinalityType DEF Handlers
<1>2. IsFiniteSet(Executed(s)) /\ Cardinality(Executed(s)) \in Nat
  BY FS_Subset, FS_CardinalityType DEF Executed
<1> QED
  BY <1>1, <1>2 DEF ThreadsUsed

(* Steps that start nothing at a server leave it as many threads or more.  *)
LEMMA FewerThreads ==
  ASSUME IsFiniteSet(running), IsFiniteSet(running'), NEW s,
         Handlers(s)' \subseteq Handlers(s), Executed(s)' \subseteq Executed(s)
  PROVE  ThreadsUsed(s)' <= ThreadsUsed(s)
<1>1. /\ Cardinality(Handlers(s)') <= Cardinality(Handlers(s))
      /\ Cardinality(Executed(s)') <= Cardinality(Executed(s))
  BY ThreadsFinite, FS_Subset
<1>2. /\ Cardinality(Handlers(s)) \in Nat /\ Cardinality(Executed(s)) \in Nat
      /\ Cardinality(Handlers(s)') \in Nat /\ Cardinality(Executed(s)') \in Nat
  BY <1>1, ThreadsFinite, FS_Subset, FS_CardinalityType
<1> QED
  BY <1>1, <1>2 DEF ThreadsUsed

(* Steps that take no request and no call: handlers that go on or return,  *)
(* and answers.                                                            *)
LEMMA PoolsKept ==
  ASSUME PoolsBounded, TypeOK, config' = config, running' \subseteq running,
         \A c \in Clients : InHandler(c)' => InHandler(c)
  PROVE  PoolsBounded'
<1>1. IsFiniteSet(running) /\ IsFiniteSet(running')
  BY FS_Subset DEF PoolsBounded
<1>2. ASSUME NEW s \in Servers
      PROVE  ThreadsUsed(s)' <= config'.poolSize
  <2>1. Handlers(s)' \subseteq Handlers(s) /\ Executed(s)' \subseteq Executed(s)
    BY DEF Handlers, Executed, Home
  <2>2. ThreadsUsed(s)' <= ThreadsUsed(s) /\ ThreadsUsed(s) \in Nat
    BY <1>1, <2>1, FewerThreads, ThreadsFinite
  <2>3. ThreadsUsed(s)' \in Nat
    BY <1>1, <2>1, FS_Subset, FS_CardinalityType, ThreadsFinite DEF ThreadsUsed
  <2> QED
    BY <2>2, <2>3, ConfigFacts DEF PoolsBounded, TypeOK
<1>3. config'.serialize =>
        \A q, r \in running' : q.from = r.from /\ q.to = r.to => q = r
  BY DEF PoolsBounded
<1> QED
  BY <1>1, <1>2, <1>3 DEF PoolsBounded

(* A handler starts when there is a thread for it.                         *)
LEMMA HandlerStarts ==
  ASSUME PoolsBounded, TypeOK, NEW c \in Clients, StartHandler(c)
  PROVE  PoolsBounded'
<1>1. IsFiniteSet(running) /\ running' = running /\ config' = config
  BY DEF PoolsBounded, StartHandler
<1>2. ASSUME NEW s \in Servers
      PROVE  ThreadsUsed(s)' <= config'.poolSize
  <2>1. Executed(s)' = Executed(s)
    BY <1>1 DEF Executed
  <2>2. Handlers(s)' = IF s = Home[c] THEN Handlers(s) \cup {c} ELSE Handlers(s)
    BY DEF Handlers, InHandler, StartHandler, Goto, Home, TypeOK
  <2>3. CASE s # Home[c]
    BY <1>1, <2>1, <2>2, <2>3 DEF ThreadsUsed, PoolsBounded
  <2>4. CASE s = Home[c]
    <3>1. /\ Cardinality(Handlers(s)) \in Nat /\ Cardinality(Executed(s)) \in Nat
          /\ Cardinality(Handlers(s) \cup {c}) \in
               {Cardinality(Handlers(s)), Cardinality(Handlers(s)) + 1}
      BY <1>1, ThreadsFinite, FS_AddElement
    <3>2. ThreadsUsed(s) < config.poolSize /\ config.poolSize \in Nat
      BY <2>4, ConfigFacts DEF StartHandler, ThreadFree, TypeOK
    <3>3. ThreadsUsed(s)' = Cardinality(Handlers(s) \cup {c}) + Cardinality(Executed(s))
      BY <2>1, <2>2, <2>4 DEF ThreadsUsed
    <3> QED
      BY <1>1, <3>1, <3>2, <3>3 DEF ThreadsUsed
  <2> QED
    BY <2>3, <2>4
<1> QED
  BY <1>1, <1>2 DEF PoolsBounded

(* A request is taken when there is a thread for it.                       *)
LEMMA RequestStarts ==
  ASSUME PoolsBounded, RequestsOnce, TypeOK, NEW s \in Servers, NEW t \in Servers,
         DispatchNext(s, t)
  PROVE  PoolsBounded'
<1> DEFINE head == Head(queue[s][t])
<1>1. /\ IsFiniteSet(running) /\ running' = running \cup {head}
      /\ config' = config /\ pc' = pc
  BY DEF PoolsBounded, DispatchNext
<1>2. head.from = s /\ head.to = t
  BY HeadFacts DEF DispatchNext, Queued, RequestsOnce
<1>3. IsFiniteSet(running')
  BY <1>1, FS_AddElement
<1>4. ASSUME NEW x \in Servers
      PROVE  ThreadsUsed(x)' <= config'.poolSize
  <2>1. Handlers(x)' = Handlers(x)
    BY <1>1 DEF Handlers, InHandler, Home
  <2>2. Executed(x)' = IF x = t THEN Executed(x) \cup {head} ELSE Executed(x)
    BY <1>1, <1>2 DEF Executed
  <2>3. CASE x # t
    BY <1>1, <2>1, <2>2, <2>3 DEF ThreadsUsed, PoolsBounded
  <2>4. CASE x = t
    <3>1. /\ Cardinality(Handlers(x)) \in Nat /\ Cardinality(Executed(x)) \in Nat
          /\ Cardinality(Executed(x) \cup {head}) \in
               {Cardinality(Executed(x)), Cardinality(Executed(x)) + 1}
      BY <1>1, ThreadsFinite, FS_AddElement
    <3>2. ThreadsUsed(x) < config.poolSize /\ config.poolSize \in Nat
      BY <2>4, ConfigFacts DEF DispatchNext, ThreadFree, TypeOK
    <3>3. ThreadsUsed(x)' = Cardinality(Handlers(x)) + Cardinality(Executed(x) \cup {head})
      BY <2>1, <2>2, <2>4 DEF ThreadsUsed
    <3> QED
      BY <1>1, <3>1, <3>2, <3>3 DEF ThreadsUsed
  <2> QED
    BY <2>3, <2>4
<1>5. config'.serialize =>
        \A q, r \in running' : q.from = r.from /\ q.to = r.to => q = r
  BY <1>1, <1>2 DEF PoolsBounded, DispatchNext
<1> QED
  BY <1>3, <1>4, <1>5 DEF PoolsBounded

LEMMA StepKeepsPools ==
  ASSUME TypeOK, RequestsOnce, PoolsBounded, [Next]_vars
  PROVE  PoolsBounded'
<1>1. ASSUME NEW c \in Clients, Call(c)
      PROVE  PoolsBounded'
  <2>1. \A d \in Clients : InHandler(d)' => InHandler(d)
    BY <1>1 DEF Call, Goto, InHandler, TypeOK
  <2> QED
    BY <1>1, <2>1, PoolsKept DEF Call
<1>2. ASSUME NEW c \in Clients, HandlerStep(c)
      PROVE  PoolsBounded'
  <2>1. CASE StartHandler(c)
    BY <2>1, HandlerStarts
  <2>2. CASE AcquireHere(c) \/ AcquireThere(c) \/ AccessFile(c) \/ ReleaseHere(c)
               \/ ReleaseThere(c) \/ Return(c) \/ \E s \in Servers : SendUpdate(c, s)
    <3>1. \A d \in Clients : InHandler(d)' => InHandler(d)
      BY <2>2 DEF AcquireHere, AcquireThere, AccessFile, ReleaseHere, ReleaseThere,
                  Return, SendUpdate, Goto, InHandler, TypeOK
    <3>2. config' = config /\ running' = running
      BY <2>2 DEF AcquireHere, AcquireThere, AccessFile, ReleaseHere, ReleaseThere,
                  Return, SendUpdate
    <3> QED
      BY <3>1, <3>2, PoolsKept
  <2> QED
    BY <1>2, <2>1, <2>2 DEF HandlerStep
<1>3. ASSUME NEW r \in running, Answer(r)
      PROVE  PoolsBounded'
  <2>1. r.client \in Clients /\ (r.what # "Update" => InHandler(r.client))
    <3>1. r.what \in {"Acquire", "Update", "Release"}
      BY DEF TypeOK, Requests
    <3> QED
      BY <3>1, Executing DEF InHandler
  <2>2. \A d \in Clients : InHandler(d)' => InHandler(d)
    BY <1>3, <2>1 DEF Answer, AnswerAcquire, AnswerUpdate, AnswerRelease,
                      InHandler, TypeOK
  <2> QED
    BY <1>3, <2>2, PoolsKept DEF Answer
<1>4. CASE UNCHANGED vars
  <2>1. \A d \in Clients : InHandler(d)' => InHandler(d)
    BY <1>4 DEF vars, InHandler
  <2> QED
    BY <1>4, <2>1, PoolsKept DEF vars
<1> QED
  BY <1>1, <1>2, <1>3, <1>4, RequestStarts DEF Next, Work, ServerStep

(* Every request that a handler waits for exists once, on its connection   *)
(* or in a thread of the callee's pool; no pool exceeds SizeMax, and the   *)
(* owner of a lock is the handler that will release it (AcquireLock to     *)
(* ReleaseLock in C2S_Get, C2S_Put and C2S_Append).                        *)
THEOREM Invariance == Spec => []DispatchInv
<1>1. Init => DispatchInv
  BY InitInv
<1>2. DispatchInv /\ [Next]_vars => DispatchInv'
  BY StepKeepsType, StepKeepsLocks, StepKeepsThreads, StepKeepsRequests,
     StepKeepsPools DEF DispatchInv
<1> QED
  BY <1>1, <1>2, PTL DEF Spec
-----------------------------------------------------------------------------
(* No deadlock                                                             *)

(* A client's two requests to one server are one request: it waits for a   *)
(* lock server or for its updates, and for one answer of each server.      *)
LEMMA OneRequestPerServer ==
  ASSUME ThreadsInCall, NEW q \in Requests, NEW r \in Requests,
         Awaited(q), Awaited(r), q.client = r.client, q.to = r.to
  PROVE  q = r
<1>1. q.client \in Clients /\ q.from = r.from
  BY AwaitedCases DEF Requests
<1>2. q.what = r.what
  BY <1>1, AwaitedCases DEF ThreadsInCall
<1> QED
  BY <1>1, <1>2 DEF Requests

(* No server executes a request of its own client.                         *)
LEMMA NotAtHome ==
  ASSUME ThreadsInCall, TypeOK, Collocated, NEW r \in Requests, Awaited(r)
  PROVE  r.to # Home[r.client]
<1>1. r.client \in Clients
  BY DEF Requests
<1> QED
  BY <1>1, AwaitedCases DEF ThreadsInCall, LockIsLocal, Peers

(* A client keeps one thread of a server at most: a server at which some   *)
(* client has none has a thread left, if there are as many as clients.     *)
LEMMA ThreadLeft ==
  ASSUME DispatchInv, Roomy, NEW s \in Servers, NEW c \in Clients,
         c \notin Handlers(s), \A r \in Executed(s) : r.client # c
  PROVE  ThreadFree(s)
<1> DEFINE Rest == (Clients \ {c}) \ Handlers(s)
           f == [r \in Executed(s) |-> r.client]
<1>1. /\ TypeOK /\ ThreadsInCall /\ RequestsOnce /\ IsFiniteSet(running)
      /\ IsFiniteSet(Clients) /\ Collocated
  BY DispatchAssumption DEF DispatchInv, PoolsBounded, Roomy
<1>2. \A r \in Executed(s) : /\ r \in Requests /\ r.client \in Clients
                             /\ Awaited(r) /\ r.to = s
  BY <1>1 DEF Executed, RequestsOnce, TypeOK, Requests
<1>3. \A r \in Executed(s) : r.client \in Rest
  BY <1>1, <1>2, NotAtHome DEF Handlers
<1>4. f \in Injection(Executed(s), Rest)
  <2>1. f \in [Executed(s) -> Rest]
    BY <1>3
  <2>2. \A q, r \in Executed(s) : f[q] = f[r] => q = r
    BY <1>1, <1>2, OneRequestPerServer
  <2> QED
    BY <2>1, <2>2 DEF Injection, IsInjective
<1>5. /\ IsFiniteSet(Clients \ {c})
      /\ Cardinality(Clients \ {c}) = Cardinality(Clients) - 1
      /\ Cardinality(Clients) \in Nat
  BY <1>1, FS_RemoveElement, FS_CardinalityType
<1>6. /\ IsFiniteSet(Rest)
      /\ Cardinality(Rest) = Cardinality(Clients \ {c})
                               - Cardinality((Clients \ {c}) \cap Handlers(s))
  BY <1>5, FS_Difference
<1>7. (Clients \ {c}) \cap Handlers(s) = Handlers(s)
  BY DEF Handlers
<1>8. Cardinality(Executed(s)) <= Cardinality(Rest)
  BY <1>4, <1>6, FS_Injection
<1>9. Cardinality(Handlers(s)) \in Nat /\ Cardinality(Executed(s)) \in Nat
  BY <1>1, ThreadsFinite
<1>10. Cardinality(Rest) = Cardinality(Clients) - 1 - Cardinality(Handlers(s))
  BY <1>5, <1>6, <1>7
<1>11. Cardinality(Clients) <= config.poolSize /\ config.poolSize \in Nat
  BY <1>1, ConfigFacts DEF Roomy, TypeOK
<1> HIDE DEF Rest
<1> QED
  BY <1>5, <1>8, <1>9, <1>10, <1>11 DEF ThreadFree, ThreadsUsed

(* The request at the head of a connection is not kept there by others.    *)
LEMMA HeadCanBeTaken ==
  ASSUME DispatchInv, Roomy, NEW s \in Servers, NEW t \in Servers,
         queue[s][t] # <<>>
  PROVE  Dispatchable(s, t)
<1> DEFINE head == Head(queue[s][t])
<1>1. TypeOK /\ ThreadsInCall /\ RequestsOnce /\ Collocated
  BY DEF DispatchInv, Roomy
<1>2. head \in Requests /\ head \in Queued(s, t)
  BY <1>1, HeadFacts DEF Queued
<1>3. /\ Awaited(head) /\ head.from = s /\ head.to = t /\ head \notin running
      /\ head.client \in Clients /\ Home[head.client] = s
  BY <1>1, <1>2, AwaitedCases DEF RequestsOnce, Requests, Home
<1>4. \A r \in running : /\ r \in Requests /\ Awaited(r) /\ r.client \in Clients
                         /\ r.from = Home[r.client]
  BY <1>1, Executing DEF RequestsOnce
<1>5. \A r \in running : r.to = t => r.client # head.client
  BY <1>1, <1>2, <1>3, <1>4, OneRequestPerServer
<1>6. head.client \notin Handlers(t)
  BY <1>1, <1>2, <1>3, NotAtHome DEF Handlers
<1>7. ThreadFree(t)
  BY <1>3, <1>5, <1>6, ThreadLeft DEF Executed
<1>8. config.serialize => \A r \in running : ~(r.from = s /\ r.to = t)
  BY <1>3, <1>4, <1>5 DEF Roomy
<1> QED
  BY <1>7, <1>8 DEF Dispatchable

(* Who owns a lock can go on, or a request of it can.                      *)
LEMMA OwnerCanWork ==
  ASSUME DispatchInv, Roomy, NEW c \in Clients,
         pc[c] \in {"locked", "updating", "unlocking"}
  PROVE  CanWork
<1>1. TypeOK /\ ThreadsInCall /\ RequestsOnce
  BY DEF DispatchInv
<1>2. ASSUME NEW r \in Requests, Awaited(r), r.what # "Acquire"
      PROVE  CanWork
  <2>1. r \in running \/ r \in Queued(r.from, r.to)
    BY <1>1, <1>2 DEF RequestsOnce
  <2>2. CASE r \in running
    BY <1>2, <2>2 DEF CanWork
  <2>3. CASE r \in Queued(r.from, r.to)
    <3>1. r.from \in Servers /\ r.to \in Servers
      BY DEF Requests
    <3>2. queue[r.from][r.to] # <<>>
      BY <2>3 DEF Queued
    <3> QED
      BY <3>1, <3>2, HeadCanBeTaken DEF CanWork
  <2> QED
    BY <2>1, <2>2, <2>3
<1>3. Home[c] \in Servers /\ LockServer[obj[c]] \in Servers
  BY <1>1, ConfigFacts DEF TypeOK
<1>4. CASE pc[c] = "locked"
  BY <1>4 DEF CanWork
<1>5. CASE pc[c] = "updating" /\ pending[c] = {}
  BY <1>5 DEF CanWork
<1>6. ASSUME NEW s \in pending[c]
      PROVE  CanWork
  <2>1. CASE s \in unsent[c]
    BY <2>1 DEF CanWork
  <2>2. CASE s \notin unsent[c]
    <3> DEFINE r == Request(c, Home[c], s, "Update")
    <3>1. s \in Servers
      BY <1>1 DEF TypeOK
    <3>2. r \in Requests /\ r.what = "Update"
      BY <1>3, <3>1 DEF Request, Requests
    <3>3. Awaited(r)
      BY <2>2 DEF Awaited, Request
    <3> QED
      BY <1>2, <3>2, <3>3
  <2> QED
    BY <2>1, <2>2
<1>7. CASE pc[c] = "unlocking"
  <2> DEFINE r == Request(c, Home[c], LockServer[obj[c]], "Release")
  <2>1. r \in Requests /\ r.what = "Release"
    BY <1>3 DEF Request, Requests
  <2>2. Awaited(r)
    BY <1>7 DEF Awaited, Request
  <2> QED
    BY <1>2, <2>1, <2>2
<1> QED
  BY <1>4, <1>5, <1>6, <1>7

LEMMA NobodyStuck ==
  ASSUME DispatchInv, Roomy
  PROVE  SomeoneCanWork
<1> SUFFICES ASSUME NEW c \in Clients, pc[c] # "idle"
             PROVE  CanWork
  BY DEF SomeoneCanWork
<1>1. TypeOK /\ LocksOwned /\ RequestsOnce
  BY DEF DispatchInv
<1>2. obj[c] \in Objects /\ Home[c] \in Servers /\ LockServer[obj[c]] \in Servers
  BY <1>1, ConfigFacts DEF TypeOK
<1>3. CASE pc[c] = "calling"
  <2>1. c \notin Handlers(Home[c])
    BY <1>3 DEF Handlers, InHandler
  <2>2. \A r \in Executed(Home[c]) : r.client # c
    BY <1>1, NotAtHome DEF Executed, RequestsOnce, TypeOK, DispatchInv, Roomy
  <2> QED
    BY <1>2, <1>3, <2>1, <2>2, ThreadLeft DEF CanWork
<1>4. CASE pc[c] \in {"lock", "locking"}
  <2>1. CASE holder[obj[c]] # None
    <3>1. holder[obj[c]] \in Clients
      BY <1>1, <1>2, <2>1 DEF TypeOK
    <3>2. pc[holder[obj[c]]] \in {"locked", "updating", "unlocking"}
      BY <1>1, <1>2, <3>1 DEF LocksOwned
    <3> QED
      BY <3>1, <3>2, OwnerCanWork
  <2>2. CASE holder[obj[c]] = None /\ pc[c] = "lock"
    BY <2>2 DEF CanWork
  <2>3. CASE holder[obj[c]] = None /\ pc[c] = "locking"
    <3> DEFINE r == Request(c, Home[c], LockServer[obj[c]], "Acquire")
    <3>1. r \in Requests /\ r.from = Home[c] /\ r.to = LockServer[obj[c]] /\ r.client = c
      BY <1>2 DEF Request, Requests
    <3>2. Awaited(r)
      BY <2>3 DEF Awaited, Request
    <3>3. CASE r \in running
      BY <2>3, <3>1, <3>3 DEF CanWork
    <3>4. CASE r \in Queued(Home[c], LockServer[obj[c]])
      <4>1. queue[Home[c]][LockServer[obj[c]]] # <<>>
        BY <3>4 DEF Queued
      <4> QED
        BY <1>2, <4>1, HeadCanBeTaken DEF CanWork
    <3> QED
      BY <1>1, <3>1, <3>2, <3>3, <3>4 DEF RequestsOnce
  <2> QED
    BY <1>4, <2>1, <2>2, <2>3
<1>5. CASE pc[c] = "return"
  BY <1>5 DEF CanWork
<1>6. CASE pc[c] \in {"locked", "updating", "unlocking"}
  BY <1>6, OwnerCanWork
<1> QED
  BY <1>1, <1>3, <1>4, <1>5, <1>6 DEF TypeOK

(* "You need to make sure that a deadlock does not happen" (the comment at *)
(* C2S_Append): with a thread per client in each pool, and with serialized *)
(* connections only where each server has one client, some thread can      *)
(* always go on while a request is in progress.                            *)
THEOREM DeadlockFree == Spec => [](Roomy => SomeoneCanWork)
<1>1. DispatchInv => (Roomy => SomeoneCanWork)
  BY NobodyStuck
<1> QED
  BY <1>1, Invariance, PTL

(* Then no request waits for a thread or for another request: whatever is  *)
(* at the head of a connection can be taken at once.                       *)
THEOREM NoRequestWaitsForAThread ==
  Spec => [](Roomy => \A s, t \in Servers : queue[s][t] # <<>> => Dispatchable(s, t))
<1>1. DispatchInv =>
        (Roomy => \A s, t \in Servers : queue[s][t] # <<>> => Dispatchable(s, t))
  BY HeadCanBeTaken
<1> QED
  BY <1>1, Invariance, PTL
-----------------------------------------------------------------------------
(* The promise of GlobalLock                                               *)

Locks == INSTANCE GlobalLock WITH Threads <- Clients, Paths <- Objects

(* The answers of AcquireLock and ReleaseLock, as requests or as calls in  *)
(* the same process, grant and free an object for the handler that asked;  *)
(* nothing else does (GlobalLockMgr::Acquire, GlobalLockMgr::Release).     *)
THEOREM LocksImplementGlobalLock == Spec => Locks!Spec
<1>1. Init => Locks!Init
  BY DEF Init, Locks!Init
<1>2. ASSUME DispatchInv, [Next]_vars
      PROVE  [Locks!Next]_holder
  <2>1. TypeOK /\ LocksOwned /\ RequestsOnce
    BY <1>2 DEF DispatchInv
  <2>2. \A c \in Clients :
          /\ obj[c] \in Objects
          /\ pc[c] \in {"updating", "unlocking"} => holder[obj[c]] = c
    BY <2>1 DEF TypeOK, LocksOwned
  <2>3. ASSUME NEW c \in Clients, HandlerStep(c)
        PROVE  [Locks!Next]_holder
    <3>1. CASE AcquireHere(c)
      <4>1. Locks!Grant(c, obj[c])
        BY <3>1 DEF AcquireHere, Locks!Grant
      <4> QED
        BY <2>2, <4>1 DEF Locks!Next
    <3>2. CASE ReleaseHere(c)
      <4>1. Locks!Free(c, obj[c])
        BY <2>2, <3>2 DEF ReleaseHere, Goto, Locks!Free
      <4> QED
        BY <2>2, <4>1 DEF Locks!Next
    <3>3. CASE ~AcquireHere(c) /\ ~ReleaseHere(c)
      BY <2>3, <3>3 DEF HandlerStep, StartHandler, AcquireThere, AccessFile,
                        SendUpdate, ReleaseThere, Return
    <3> QED
      BY <3>1, <3>2, <3>3
  <2>4. ASSUME NEW r \in running, Answer(r)
        PROVE  [Locks!Next]_holder
    <3>1. r.client \in Clients
      BY <2>1, Executing
    <3>2. CASE AnswerAcquire(r)
      <4>1. Locks!Grant(r.client, obj[r.client])
        BY <3>2 DEF AnswerAcquire, Locks!Grant
      <4> QED
        BY <2>2, <3>1, <4>1 DEF Locks!Next
    <3>3. CASE AnswerRelease(r)
      <4>1. pc[r.client] = "unlocking"
        BY <2>1, <3>3, Executing DEF AnswerRelease
      <4>2. Locks!Free(r.client, obj[r.client])
        BY <2>2, <3>1, <3>3, <4>1 DEF AnswerRelease, Locks!Free
      <4> QED
        BY <2>2, <3>1, <4>2 DEF Locks!Next
    <3>4. CASE AnswerUpdate(r)
      BY <3>4 DEF AnswerUpdate
    <3> QED
      BY <2>4, <3>2, <3>3, <3>4 DEF Answer
  <2>5. CASE (\E c \in Clients : Call(c)) \/ (\E s, t \in Servers : DispatchNext(s, t))
    BY <2>5 DEF Call, DispatchNext
  <2>6. CASE UNCHANGED vars
    BY <2>6 DEF vars
  <2> QED
    BY <1>2, <2>3, <2>4, <2>5, <2>6 DEF Next, Work, ServerStep
<1> QED
  BY <1>1, <1>2, Invariance, PTL DEF Spec, Locks!Spec
=============================================================================
