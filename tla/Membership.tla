----------------------------- MODULE Membership -----------------------------
(***************************************************************************)
(* How servers join (FleCSServer::run, MasterI::Join, SM2SI::ServerJoined, *)
(* FleCSServer::AddServers), how the list of lock servers is fixed         *)
(* (MasterI::GetLockServers, the constructor of GlobalLockMgr) and what    *)
(* clients that call early run into.                                       *)
(*                                                                         *)
(* Every call between processes is an RPC without timeout that occupies a  *)
(* thread of the called server's pool; one that returns at once is a guard *)
(* ThreadFree on the step that makes it.  The master has one thread        *)
(* (config.master sets no pool size) and holds _lock in both operations.   *)
(* std::map keeps the endpoints sorted, so a list of servers is the set of *)
(* them; the order in which one Join notifies is left open.  No process is *)
(* killed from outside and none is started twice.                          *)
(***************************************************************************)
EXTENDS Integers, FiniteSets

CONSTANTS
  Servers,
  PoolSize,     (* config.server: Ice.ThreadPool.Server.SizeMax *)
  MaxRequests,  (* bound on the clients that call one server at a time *)
  MaxWrites,    (* bound on the Puts *)
  None

ASSUME MembershipAssumption ==
  /\ None \notin Servers
  /\ PoolSize \in Nat \ {0}
  /\ MaxRequests \in Nat /\ MaxWrites \in Nat

VARIABLES
  state,         (* of each server's main thread *)
  peer_servers,  (* each server's map of peers, as a set *)
  todo,          (* what AddServers has still to add *)
  waiting,       (* handlers in, or waiting for, GlobalLockMgr::GetInstance *)
  mgr,           (* the progress of that static object's constructor *)
  lock_servers,  (* the list it got from the master *)
  uncast,        (* the lock servers it has still to make a proxy for *)
  servers,       (* MasterI::_servers *)
  broken,        (* the endpoints there whose proxy pointer is null *)
  joiner,        (* the server whose Join the master executes, or None *)
  tell,          (* those the master has still to notify of it *)
  notifying,     (* the one that executes ServerJoined, or None *)
  first_request, (* GetLockServers' static flag *)
  frozen,        (* ... and its static list *)
  master_up,
  value,         (* the last Put of some object that each server has seen *)
  writes         (* the Puts so far *)

serverVars == <<state, peer_servers, todo>>
lockVars   == <<waiting, mgr, lock_servers, uncast>>
masterVars == <<servers, broken, joiner, tell, notifying, first_request, frozen,
                master_up>>
dataVars   == <<value, writes>>
vars       == <<serverVars, lockVars, masterVars, dataVars>>

Init ==
  /\ state = [s \in Servers |-> "down"]
  /\ peer_servers = [s \in Servers |-> {}]
  /\ todo = [s \in Servers |-> {}]
  /\ waiting = [s \in Servers |-> 0]
  /\ mgr = [s \in Servers |-> "none"]
  /\ lock_servers = [s \in Servers |-> {}]
  /\ uncast = [s \in Servers |-> {}]
  /\ servers = {} /\ broken = {} /\ tell = {}
  /\ joiner = None /\ notifying = None
  /\ first_request = TRUE /\ frozen = {}
  /\ master_up = TRUE
  /\ value = [s \in Servers |-> 0] /\ writes = 0

Up(s) == state[s] \notin {"down", "dead"}

(* Variant: a pool of one thread. *)
OneThreadFree(s) ==
  Up(s) /\ waiting[s] = 0 /\ notifying # s

ThreadFree(s) ==
  Up(s) /\ waiting[s] + (IF notifying = s THEN 1 ELSE 0) < PoolSize

SetState(s, from, to) == state[s] = from /\ state' = [state EXCEPT ![s] = to]
-----------------------------------------------------------------------------
(* run: the adapter is activated, requests are served from here on. *)
Activate(s) ==
  /\ SetState(s, "down", "active")
  /\ UNCHANGED <<peer_servers, todo, lockVars, masterVars, dataVars>>

(* run: m_prx->Join is sent. *)
AskJoin(s) ==
  /\ SetState(s, "active", "joining")
  /\ UNCHANGED <<peer_servers, todo, lockVars, masterVars, dataVars>>

(* MasterI::Join starts, under _lock. *)
JoinStart(s) ==
  /\ master_up /\ joiner = None
  /\ SetState(s, "joining", "in_join")
  /\ joiner' = s
  /\ UNCHANGED <<peer_servers, todo, lockVars, servers, broken, tell, notifying,
                 first_request, frozen, master_up, dataVars>>

(* Variant: the other servers are not notified. *)
JoinInsertQuietly ==
  /\ joiner # None /\ joiner \notin servers
  /\ ThreadFree(joiner)
  /\ servers' = servers \cup {joiner}
  /\ tell' = {}
  /\ UNCHANGED <<serverVars, lockVars, broken, joiner, notifying,
                 first_request, frozen, master_up, dataVars>>

(* Join: _new_proxy calls the joining server, which is then in _servers. *)
JoinInsert ==
  /\ joiner # None /\ joiner \notin servers
  /\ ThreadFree(joiner)
  /\ servers' = servers \cup {joiner}
  /\ tell' = servers
  /\ UNCHANGED <<serverVars, lockVars, broken, joiner, notifying,
                 first_request, frozen, master_up, dataVars>>

(* Join: _new_proxy throws.  Whether _servers[endpoint] has been evaluated *)
(* before it, which leaves a null pointer there, is up to the compiler.    *)
JoinInsertFails ==
  /\ joiner # None /\ joiner \notin servers
  /\ ~Up(joiner)
  /\ \/ UNCHANGED <<servers, broken>>
     \/ servers' = servers \cup {joiner} /\ broken' = broken \cup {joiner}
  /\ joiner' = None
  /\ UNCHANGED <<serverVars, lockVars, tell, notifying, first_request,
                 frozen, master_up, dataVars>>

(* Join calls ServerJoined at one of the other servers ... *)
Notify(t) ==
  /\ joiner \in servers /\ notifying = None
  /\ t \in tell \ broken
  /\ ThreadFree(t)
  /\ notifying' = t
  /\ UNCHANGED <<serverVars, lockVars, servers, broken, joiner, tell,
                 first_request, frozen, master_up, dataVars>>

(* Variant: the joining server answers the master before it is added. *)
NotifiedEarly ==
  /\ notifying # None
  /\ ThreadFree(joiner)
  /\ tell' = tell \ {notifying}
  /\ notifying' = None
  /\ UNCHANGED <<serverVars, lockVars, servers, broken, joiner,
                 first_request, frozen, master_up, dataVars>>

(* ... where AddServer calls the joining server before it adds it. *)
Notified ==
  /\ notifying # None
  /\ ThreadFree(joiner)
  /\ peer_servers' = [peer_servers EXCEPT ![notifying] = @ \cup {joiner}]
  /\ tell' = tell \ {notifying}
  /\ notifying' = None
  /\ UNCHANGED <<state, todo, lockVars, servers, broken, joiner,
                 first_request, frozen, master_up, dataVars>>

(* A call of Join or of the ServerJoined it waits for finds a dead server: *)
(* Join throws, the joining server's run returns.                          *)
JoinThrows ==
  /\ joiner \in servers
  /\ \/ notifying = None /\ \E t \in tell \ broken : ~Up(t)
     \/ notifying # None /\ (~Up(joiner) \/ ~Up(notifying))
  /\ state' = [state EXCEPT ![joiner] = "dead"]
  /\ joiner' = None /\ tell' = {} /\ notifying' = None
  /\ UNCHANGED <<peer_servers, todo, lockVars, servers, broken,
                 first_request, frozen, master_up, dataVars>>

(* Join dereferences a null pointer; the joining server's call fails. *)
MasterDies ==
  /\ joiner \in servers /\ notifying = None
  /\ tell \cap broken # {}
  /\ master_up' = FALSE
  /\ state' = [state EXCEPT ![joiner] = "dead"]
  /\ joiner' = None /\ tell' = {}
  /\ UNCHANGED <<peer_servers, todo, lockVars, servers, broken, notifying,
                 first_request, frozen, dataVars>>

(* run: there is no master any more. *)
JoinRefused(s) ==
  /\ ~master_up
  /\ SetState(s, "joining", "dead")
  /\ UNCHANGED <<peer_servers, todo, lockVars, masterVars, dataVars>>

(* Join returns existingServers; run goes on with AddServers. *)
JoinReturn ==
  /\ joiner \in servers /\ tell = {}
  /\ \/ /\ state[joiner] = "in_join"
        /\ state' = [state EXCEPT ![joiner] = "adding"]
        /\ todo' = [todo EXCEPT ![joiner] = servers \ {joiner}]
     \/ /\ state[joiner] = "dead"
        /\ UNCHANGED <<state, todo>>
  /\ joiner' = None
  /\ UNCHANGED <<peer_servers, lockVars, servers, broken, tell, notifying,
                 first_request, frozen, master_up, dataVars>>

(* AddServers: one AddServer, in the main thread. *)
AddServer(s, t) ==
  /\ state[s] = "adding" /\ t \in todo[s]
  /\ ThreadFree(t)
  /\ peer_servers' = [peer_servers EXCEPT ![s] = @ \cup {t}]
  /\ todo' = [todo EXCEPT ![s] = @ \ {t}]
  /\ UNCHANGED <<state, lockVars, masterVars, dataVars>>

AddServerThrows(s, t) ==
  /\ t \in todo[s] /\ ~Up(t)
  /\ SetState(s, "adding", "dead")
  /\ UNCHANGED <<peer_servers, todo, lockVars, masterVars, dataVars>>

AddServersDone(s) ==
  /\ todo[s] = {}
  /\ SetState(s, "adding", "serving")
  /\ UNCHANGED <<peer_servers, todo, lockVars, masterVars, dataVars>>
-----------------------------------------------------------------------------
(* A client's request needs the first GlobalLock of its server's process.  *)
Request(s) ==
  /\ mgr[s] # "ready"
  /\ waiting[s] < MaxRequests
  /\ ThreadFree(s)
  /\ waiting' = [waiting EXCEPT ![s] = @ + 1]
  /\ UNCHANGED <<serverVars, mgr, lock_servers, uncast, masterVars, dataVars>>

(* One handler runs GlobalLockMgr::GlobalLockMgr, the others wait for it.  *)
AskLockServers(s) ==
  /\ Up(s) /\ waiting[s] > 0
  /\ mgr[s] = "none"
  /\ mgr' = [mgr EXCEPT ![s] = "asking"]
  /\ UNCHANGED <<serverVars, waiting, lock_servers, uncast, masterVars, dataVars>>

(* MasterI::GetLockServers for s: the first request fixes the list. *)
FirstGetLockServers(s) ==
  /\ first_request
  /\ first_request' = FALSE
  /\ frozen' = servers
  /\ mgr' = [mgr EXCEPT ![s] = "casting"]
  /\ lock_servers' = [lock_servers EXCEPT ![s] = servers]
  /\ uncast' = [uncast EXCEPT ![s] = servers \ {s}]
  /\ UNCHANGED waiting

(* Variant: the current list is returned without comparing it. *)
CurrentLockServers(s) ==
  /\ ~first_request
  /\ mgr' = [mgr EXCEPT ![s] = "casting"]
  /\ lock_servers' = [lock_servers EXCEPT ![s] = servers]
  /\ uncast' = [uncast EXCEPT ![s] = servers \ {s}]
  /\ UNCHANGED <<waiting, first_request, frozen>>

SameLockServers(s) ==
  /\ ~first_request /\ frozen = servers
  /\ mgr' = [mgr EXCEPT ![s] = "casting"]
  /\ lock_servers' = [lock_servers EXCEPT ![s] = frozen]
  /\ uncast' = [uncast EXCEPT ![s] = frozen \ {s}]
  /\ UNCHANGED <<waiting, first_request, frozen>>

(* "server list has changed after the first request": the constructor and  *)
(* the request fail, the next request in line constructs again.            *)
LockServersChanged(s) ==
  /\ ~first_request /\ frozen # servers
  /\ mgr' = [mgr EXCEPT ![s] = "none"]
  /\ waiting' = [waiting EXCEPT ![s] = @ - 1]
  /\ UNCHANGED <<lock_servers, uncast, first_request, frozen>>

GetLockServers(s) ==
  /\ master_up /\ joiner = None
  /\ Up(s) /\ mgr[s] = "asking"
  /\ FirstGetLockServers(s) \/ SameLockServers(s) \/ LockServersChanged(s)
  /\ UNCHANGED <<serverVars, servers, broken, joiner, tell, notifying, master_up,
                 dataVars>>

(* Without a master the constructor and its request fail as well. *)
NoMaster(s) ==
  /\ ~master_up
  /\ Up(s) /\ mgr[s] = "asking"
  /\ mgr' = [mgr EXCEPT ![s] = "none"]
  /\ waiting' = [waiting EXCEPT ![s] = @ - 1]
  /\ UNCHANGED <<serverVars, lock_servers, uncast, masterVars, dataVars>>

(* The constructor makes a proxy for each lock server. *)
CastLockServer(s, t) ==
  /\ Up(s) /\ mgr[s] = "casting" /\ t \in uncast[s]
  /\ ThreadFree(t)
  /\ uncast' = [uncast EXCEPT ![s] = @ \ {t}]
  /\ UNCHANGED <<serverVars, waiting, mgr, lock_servers, masterVars, dataVars>>

LockServersReady(s) ==
  /\ Up(s) /\ mgr[s] = "casting" /\ uncast[s] = {}
  /\ lock_servers[s] # {}
  /\ mgr' = [mgr EXCEPT ![s] = "ready"]
  /\ waiting' = [waiting EXCEPT ![s] = 0]
  /\ UNCHANGED <<serverVars, lock_servers, uncast, masterVars, dataVars>>

(* GlobalLockMgr::Acquire: string_hash(path) % 0. *)
NoLockServer(s) ==
  /\ Up(s) /\ mgr[s] = "casting"
  /\ lock_servers[s] = {}
  /\ state' = [state EXCEPT ![s] = "dead"]
  /\ UNCHANGED <<peer_servers, todo, lockVars, masterVars, dataVars>>

(* A Put under the object's lock, with the peers known at that moment. *)
Put(s) ==
  /\ Up(s) /\ mgr[s] = "ready"
  /\ writes < MaxWrites
  /\ \A t \in peer_servers[s] : ThreadFree(t)
  /\ writes' = writes + 1
  /\ value' = [t \in Servers |->
                 IF t \in {s} \cup peer_servers[s] THEN writes' ELSE value[t]]
  /\ UNCHANGED <<serverVars, lockVars, masterVars>>

JoinStep ==
  \/ JoinInsert \/ JoinInsertFails
  \/ (\E t \in Servers : Notify(t)) \/ Notified
  \/ JoinThrows \/ MasterDies \/ JoinReturn

ServerStep(s) ==
  \/ AskJoin(s) \/ JoinStart(s) \/ JoinRefused(s)
  \/ \E t \in Servers :
       AddServer(s, t) \/ AddServerThrows(s, t) \/ CastLockServer(s, t)
  \/ AddServersDone(s)
  \/ AskLockServers(s) \/ GetLockServers(s) \/ NoMaster(s)
  \/ LockServersReady(s) \/ NoLockServer(s)

Work == JoinStep \/ \E s \in Servers : ServerStep(s)

Next == Work \/ \E s \in Servers : Activate(s) \/ Request(s) \/ Put(s)

Spec == Init /\ [][Next]_vars
-----------------------------------------------------------------------------
TypeOK ==
  /\ state \in [Servers -> {"down", "active", "joining", "in_join", "adding",
                            "serving", "dead"}]
  /\ peer_servers \in [Servers -> SUBSET Servers]
  /\ todo \in [Servers -> SUBSET Servers]
  /\ waiting \in [Servers -> 0 .. MaxRequests]
  /\ mgr \in [Servers -> {"none", "asking", "casting", "ready"}]
  /\ lock_servers \in [Servers -> SUBSET Servers]
  /\ uncast \in [Servers -> SUBSET Servers]
  /\ servers \subseteq Servers /\ broken \subseteq servers
  /\ tell \subseteq Servers
  /\ joiner \in Servers \cup {None}
  /\ notifying \in Servers \cup {None}
  /\ first_request \in BOOLEAN /\ frozen \subseteq Servers
  /\ master_up \in BOOLEAN
  /\ value \in [Servers -> Nat] /\ writes \in Nat

(* All processes lock an object at the same server: whenever they asked,   *)
(* in whatever order with the Joins, they got one list.                    *)
LockServersAgree ==
  \A s, t \in Servers :
    mgr[s] = "ready" /\ mgr[t] = "ready" => lock_servers[s] = lock_servers[t]

(* A server whose run has come to waitForShutdown sends its updates to     *)
(* every other such server, and to those still adding their peers:         *)
(* whichever of the two joined first, AddServers or ServerJoined told it.  *)
PeersComplete ==
  \A s, t \in Servers :
    s # t /\ state[s] = "serving" /\ state[t] \in {"adding", "serving"}
    => t \in peer_servers[s]

(* A handler constructs the manager, and it is counted; nobody waits for   *)
(* one that there is.                                                      *)
ConstructorWaits ==
  \A s \in Servers : /\ mgr[s] \in {"asking", "casting"} => waiting[s] > 0
                     /\ mgr[s] = "ready" => waiting[s] = 0

(* A list that was given out is the frozen one. *)
ListsAreFrozen ==
  \A s \in Servers :
    mgr[s] \in {"casting", "ready"} => ~first_request /\ lock_servers[s] = frozen

(* The ServerJoined under way belongs to the Join under way. *)
NotifyInJoin == notifying # None => joiner \in servers /\ notifying \in tell

(* Where the main thread is says whether its Join is over; nobody joins    *)
(* twice, and the master serves one Join at a time.                        *)
JoinOrder ==
  \A s \in Servers :
    /\ state[s] \in {"down", "active", "joining"} => s \notin servers
    /\ state[s] \in {"adding", "serving"} => s \in servers
    /\ state[s] = "in_join" => joiner = s
    /\ state[s] = "serving" => todo[s] = {}
    /\ joiner = s => state[s] \in {"in_join", "dead"}

(* Of two servers that have joined one knows the other, will add it in     *)
(* AddServers, or is about to be told of it.                               *)
PeersPending ==
  /\ \A s, t \in Servers :
       s # t /\ state[s] \in {"adding", "serving"} /\ state[t] \in {"adding", "serving"}
       => t \in peer_servers[s] \cup todo[s]
  /\ joiner \in servers =>
       \A s \in servers \ {joiner} : s \in tell \/ joiner \in peer_servers[s]

(* Whom anybody calls has joined, and the master does not call back the    *)
(* joining server by way of ServerJoined.                                  *)
CallsGoToServers ==
  /\ frozen \subseteq servers
  /\ \A s \in Servers : todo[s] \subseteq servers
  /\ \A s \in Servers : mgr[s] = "casting" => uncast[s] \subseteq frozen
  /\ tell \subseteq servers \ {joiner}

(* The list of lock servers that was fixed before anybody had joined is    *)
(* the one thing that ends a process: its division by zero, and what other *)
(* processes then run into.                                                *)
DeathsFromEmptyList ==
  (\E s \in Servers : state[s] = "dead") \/ broken # {} \/ ~master_up
    => ~first_request /\ frozen = {}

(* The inductive invariant. *)
IInv ==
  /\ TypeOK
  /\ ConstructorWaits
  /\ ListsAreFrozen
  /\ NotifyInJoin
  /\ JoinOrder
  /\ PeersPending
  /\ CallsGoToServers
  /\ DeathsFromEmptyList

(* The guards of Work: whether the master's Join, a main thread or a       *)
(* constructor can take a step.                                            *)
JoinCanGoOn ==
  IF joiner \notin servers THEN Up(joiner) => ThreadFree(joiner)
  ELSE IF notifying # None
       THEN Up(joiner) /\ Up(notifying) => ThreadFree(joiner)
       ELSE tell = {} \/ \E t \in tell : t \in broken \/ (Up(t) => ThreadFree(t))

MainCanGoOn(s) ==
  \/ state[s] = "active"
  \/ state[s] = "joining" /\ (master_up => joiner = None)
  \/ /\ state[s] = "adding"
     /\ todo[s] = {} \/ \E t \in todo[s] : Up(t) => ThreadFree(t)

ConstructorCanGoOn(s) ==
  /\ Up(s)
  /\ \/ mgr[s] = "none" /\ waiting[s] > 0
     \/ mgr[s] = "asking" /\ (master_up => joiner = None)
     \/ /\ mgr[s] = "casting"
        /\ uncast[s] = {} \/ lock_servers[s] = {} \/ \E t \in uncast[s] : ThreadFree(t)

CanWork ==
  \/ joiner # None /\ JoinCanGoOn
  \/ \E s \in Servers : MainCanGoOn(s) \/ ConstructorCanGoOn(s)

(* "No deadlock as long as the master do not notify the originating        *)
(* server" (FleCSServer::run): while a server is joining or a request      *)
(* waits for the lock servers, somebody can go on.                         *)
SomeoneCanWork ==
  (\E s \in Servers :
     Up(s) /\ (waiting[s] > 0 \/ state[s] \in {"joining", "in_join", "adding"}))
    => CanWork

(* SomeoneCanWork says it by the guards of Work, for the proofs; these     *)
(* guards are what enables Work.                                           *)
NoDeadlock == SomeoneCanWork /\ (CanWork <=> ENABLED Work)

(* "propagate update to the other servers" (C2S_Put): all lock servers,    *)
(* which had joined before the first Put, have seen the last one.          *)
UpdatesReachAll == \A s, t \in frozen : value[s] = value[t]
=============================================================================
