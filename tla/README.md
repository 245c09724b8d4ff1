# A verification development for FleCS

FleCS is a small replicated object store over ZeroC Ice: a master, servers that
keep objects as files and replicate them to each other, clients, and tools that
start and check all that. The modules here model its servers and master; TLC
checks them on small instances, and TLAPS proves nearly all of their safety
properties for every instance: of the lock service and its restarts, the
containers, the dispatch of requests, the membership, and the start of the
cluster by agents and launchers.

## The system

| Part | State | Operations | Talks to |
|---|---|---|---|
| master (`master/masterI.cpp`) | `_servers`, the frozen list of lock servers | `Join`, `GetLockServers`, both under `_lock`, one pool thread | calls back the joining server, calls `ServerJoined` at all others |
| server start-up (`server/server.cpp`) | `peer_servers` | `run`, `AddServers`, `AddServer`, `ServerJoined` | master, peers |
| lock service (`server/sm2sI.cpp`) | `_locks`: path to reference-counted mutex | `AcquireLock`, `ReleaseLock` | called by all servers |
| `GlobalLock`, `GlobalLockMgr` (`server/globallock.cpp`) | list of lock servers, once per process | constructor and destructor; `Acquire`, `Release` | master once, then the lock server of the path's hash |
| container `rep-no-const` | files | Get, Put, Append for clients; Put, Append for peers | all peers, one thread each |
| container `rep-strong-const` | files | the same inside a `GlobalLock` | lock server, all peers |
| container `rep-redis` | files; redis: the path of each object | as above, under a `GlobalLock`, the path asked of redis | redis, lock server, all peers |
| container `rep-partial` | files; redis: the hosts and the path of each object | Get and Append at the nearest host, or by it at all hosts; Put at one host; Get, Put, Append for peers | redis, lock server, some peers |
| container manager (`server/container.cpp`) | map of loaded plugins, `_container_load_lock` | `GetContainer` | called first by every handler |
| clients (`client/`) | a static sequence number | one synchronous call after the other | their own server |
| checker (`data/check-consistency`) | the last number of each host | reads every replica after a run | - |
| launcher (`launcher/`) | `_wds`: inotify descriptor to trigger file and command | runs the command of a file that is written; watches all again after a file was replaced | processes, kernel |
| agent (`agent/`) | `_lock` | `Exec` of a shell command; its client kills and starts everything with sleeps | launchers by way of files, processes |

What is hard here: requests execute on pools of threads and make nested,
unbounded calls to other servers' pools; a mutex is deleted while others may be
waiting on it; a write changes one replica after the other; clients call servers
that have not finished joining; the list of lock servers is whatever had joined
when the first request asked; a thread's uncaught exception takes the process
along, with the locks it owns; a map is read while it is changed; daemons start
when they get to it. The hazards, with their lines, are in `PROJECT.json`.

What makes each part correct:

- lock service: one owner per path, no use of a deleted mutex, no leak, no lost
  wake-up, no exception for a release that follows its acquire;
- strong container: one linearizable copy of each object behind all replicas;
- weak container: what the checker looks for, per host name, on every replica;
- dispatch: no deadlock for the pool sizes the configuration promises it for;
- membership: all servers lock at the same place, all updates reach all servers;
- restarts of servers: the peers can call each other afterwards;
- container manager: one instance of a container in a process;
- redis container: copies that agree when the lock is free, and one linearizable
  copy behind them; partial container: a client gets what it has appended;
- both: no lock is left behind, and no server ends when redis is prepared, until
  one has used up its file descriptors;
- launcher: its table is what the kernel watches;
- agent: a restart ends with everything up, and no server with an old master.

## Modules

`GlobalLock` is the abstract lock: `Grant` and `Free` of a path that at most one
thread holds.

`LockTable` is the lock service of one server. Its variables are the map
`_locks`, the heap (`live`, `locked`, `ref_cnt` by address; addresses are
reused), `_locks_lock`, and each caller's place and local `m`. `AcquireLookup`
is the block under `_locks_lock` (`FindMutex` or `NewMutex`), `AcquireMutex` is
`m->lock.lock()` outside of it, `ReleaseUnlock` and `ReleaseDrop` are the two
halves of `ReleaseLock` that waiters can see, `ReleaseNotFound` its exception.
The release build's mutex is a NORMAL one, so anyone may unlock it.
`LockTableRestart` adds the death and restart of the process: owners keep what
they believe to own and release it to the new process.
`LockTableProofs` and `LockTableRestartProofs` hold the proofs.

`FileOps` is `_readfile`, `_writefile` and `_appendfile` by the pieces the
operating system executes: truncate, write at offset 0 over whatever is there,
append, read a buffer of the size asked for earlier.

`RepNoConst` is the container without consistency, used by all clients of all
servers: a request's place in `C2S_Get`, `C2S_Put`, `C2S_Append` (`pc`), its
threads to the peers (`rpc`), the files, the answer of the last Get. A file is a
sequence of chunks, each stamped with its writer and the writer's sequence
number. `Truncate` and `WriteAtStart` are steps of their own, at home and at
peers, as are the two halves of `_readfile`.

`RepNoConstCrash` makes a specification of these steps in which server processes
are killed, die and are started again. `Die` takes the threads and the local
clients' calls with it; what was sent may be executed or not. `ThreadThrows` is
the missing handler in `PutThread::run`. A started server joins: the master's
`Join` and each server's `AddServer`, called by the main thread or by
`ServerJoined`, delete the old proxy of an endpoint (`DeleteProxy`) and assign a
new one when it has answered (`AssignProxy`). What a deleted proxy is used for
in between (`dangling`, `ThreadCrashes`, `DoubleDelete`, `MasterDies`) may do
nothing or end the process. A scenario, chosen by the initial state, says which
calls the clients make and how many kills and starts there are.
`Checker` is `check_integrity` as a fold over the tokens of a file (`Scan`), with
the reference definition `Consistent` of what it should find. It knows a client
by the name of its machine only: `Host` gives each client one, and `Named` is a
file with these names.
`RepNoConstCrashProofs` holds the proofs.

`RepStrongConst` extends it: every step of the body happens while the request
holds the object's `GlobalLock` (an instance of the abstract lock), which it
takes first and gives up before it answers. `ObjectStore` is what it promises:
a call, one atomic effect on a single copy, an answer. The mapping takes the
home server of the lock's owner as the truth; a Put takes effect when it
truncates, because nobody else can look at the file before the content is there.
`RepStrongConstProofs` holds the proofs.

`Dispatch` has the same handlers without contents: pool threads, one connection
per pair of servers with its queue, nested `Acquire`, `Update`, `Release`
requests. The initial state chooses a deployment: which servers there are, where
the clients are, `SizeMax` and `Serialize` of `config.server`. `CanWork` spells
out what enables a step of a handler or a pool, so that the absence of deadlock
can be proved; the run checks that the two are the same. `DispatchProofs` holds
the proofs.

`Membership` has the main thread of every server from `adapter->activate()` to
`waitForShutdown`, the master's `Join` step by step, `ServerJoined`,
`AddServers`, `GetLockServers`, the constructor of `GlobalLockMgr` with the
requests that wait for it (and fail when the master is gone), and a Put with the
peers known at that moment. The null pointer that a failing `_new_proxy` may
leave, and the division by zero of an empty list, are steps of it. It has a
`CanWork` of its own. `MembershipProofs` holds the proofs.

`ContainerMgr` is `GetContainer` of each handler: the lookup without a lock, the
lock, the second lookup, the load, and the insertion in two halves, between
which an unlocked lookup gets a null reference. `Requests` is what the handlers
of the two redis containers share: lookup, `GlobalLock`, the threads to the
peers, and the ways out: `Return`, `Throw` (both release the lock), `Die` (which
does not). It counts the file descriptors of each process (`descriptors`): no
handler frees the `redisContext` it has connected, so each request that talks to
redis leaves one less (`Connect`); with none left redis is not reached
(`Connected`), and no file is opened (`Opens`, `OpensConnected`).
`RepRedis` and `RepPartial` are the functions of these containers;
what runs under the object's lock in one process is one step. `Containers`
composes them; its scenario says what redis, the files, the plugins and the
descriptors are at the start (`at`: the servers that have the files of each
container; those of `rep-partial` are at its two hosts). `RedisStore` says what `rep-redis` promises
in terms of `ObjectStore`. Two history variables, which no step of `Containers`
reads, say of a client that has exited what its state no longer tells: whether
its last call took effect (`phase`) and what its last Get read (`read`). An
update takes effect when the home server writes its file, a Get when its lock
is acquired, because nobody writes between that and the reading. The mapping
takes the home server of the lock's owner as the truth.
`ContainersProofs` holds the proofs of both.

`Launcher` is the watch loop of each host with the kernel's queue and
descriptors, and the agents, scripts and builds that touch or replace files.
`Startup` composes it with the agent's client (`KillServices`, `StartMaster`,
`StartServers`, `StartClients`), the agents (`ExecTouch`, `ExecKill`) and the
processes that the launchers start. `sleep(1)` waits for nothing, so it is no
step; a process that was not up in time is recorded in `late`. `StartupProofs`
holds the proofs of both.

`MC*` modules and their `.cfg` files are the instances for TLC. Definitions
marked *Variant* are not part of any specification: each is a plausible mistake
in one operation, and stands next to it for testing that the properties notice.

## What the runs check

| Run | Instance | What it shows |
|---|---|---|
| `lock_table` | 3 threads, 2 paths, 3 addresses | mutual exclusion, no dangling mutex, releases find their path, the inductive invariant (with no leak), refinement of `GlobalLock`, no lost wake-up |
| `lock_restart` | the same, any number of restarts | counts never too large, map and heap agree after stale releases: the parts of the inductive invariant `RInv` that say something |
| `lock_restart_exclusion` | the same | *violated*: two owners of a path after a restart |
| `no_const` | 2 clients on 2 of 3 servers, 9 scenarios: two appenders; a writer and a reader; an appender, alone or with a reader, two appenders, a writer with a kill (and a start); 2 kills and 3 starts, or 3 and 2, without clients | with one appending client per machine the checker accepts every replica at any time; it notices any two chunks exchanged unless that changes nothing it is for; own appends are everywhere when a call ends, even if servers die; replicas lag by one append at most; a Get returns a prefix; replicas of a single writer agree between its calls; joined servers can call each other; the inductive invariant; every call ends |
| `strong_const` | 2 clients on 2 of 3 servers, 2 writes each and any number of Gets | refinement of `ObjectStore`; replicas agree when the lock is free; peers write under the lock; the inductive invariant; locks are given up |
| `dispatch` | 3 servers, 1 client each, pool 3, serialized; 2 servers, 3 clients, pool 3, not serialized; 2 objects | no deadlock, no request lost or twice, no pool or connection over its limit (the inductive invariant); each lock is given up |
| `dispatch_local_clients` | 2 servers, 2 clients at one, pool 4, serialized | *violated*: the deadlock that the containers' comment says is avoided |
| `membership` | 3 servers, 1 early client each, pool 3 | one list for all, complete peers, the inductive invariant, no deadlock |
| `membership_pool_full` | 2 servers, 2 early clients each, pool 2 | *violated*: deadlock between master and a full pool |
| `membership_window` | 2 servers, 1 Put | *violated*: an update before `AddServers` is done is not propagated |
| `redis_containers` | 2 clients at opposite ends of 3 servers, up to 2 writes each; 37 scenarios, from clusters with all in place to ones where redis, a key, the files, the second host or the plugin is missing, or where the servers have 0 to 3 descriptors left | one instance of a container per process; copies of `rep-redis` agree when the lock is free; a client gets its own records in order and, if endpoints name their hosts and nobody puts, all that it has appended; locks are released unless a process dies; no process dies in a prepared cluster while all have descriptors; `rep-redis` refines `ObjectStore`, whatever is missing and whoever dies; the inductive invariant |
| `startup` | 2 hosts; two restarts, with clients on all hosts or with a new data set; 3 replacements of 2 trigger files; one stuck server | the launcher's table is what the kernel watches; no server with an old master; the inductive invariant; a restart succeeds unless a process is late |

The bounds. Two actors suffice for every conflict of the containers, a third
server is there so that a write has two peers in different states. Two writes
per client let a late effect of the first meet the second. Three threads give
an owner, a waiter and one that comes when the owner leaves; three addresses for
two paths leave one for reuse while others are taken. Three servers give the
master's Join a server that has been notified and one that has not. Paths,
threads and addresses are symmetric, which the runs without liveness use.
`MaxWrites`, `MaxRequests` and a scenario's numbers (kills, starts, writes, runs,
regens, replacements) are the only counters that are cut; restarts of the lock
server are not counted, since they bring the table back to empty. One kill meets
every place of a request; more are for the Joins, whose steps are those
of two servers and the master: a second kill meets a server that is being added
by one that is being added, a third the master with a deleted proxy of a dead
server. Two restarts let the events of the first reach the second; three
replacements of two files let an event arrive before, during and after a reset.

A server's limit of descriptors, usually 1024, is not run through: a scenario
starts with servers that have 0 to 3 left, so that they run out at each place
where one is needed (the connection to redis, the file at home, the file or the
plugin at a peer), or with `Plenty`, for a run that ends before the limit.

`NoStrandedServer` and `RestartSucceeds` are claimed for scenarios with restarts
or with replaced trigger files, not with both (`Undisturbed`): of a file that is
removed or closed the launcher runs the command, so a host that was killed may
get a server again that joins the old master before that is killed.

Deadlock checking is off where the system really may stop: after a restart all
callers may wait on mutexes that were deleted and locked again at a reused
address (`lock_restart`), and servers and clients have nothing left to do when
all have joined and written, or when all have died of an empty list
(`membership`, `membership_window`). The same holds where clients exit and
servers end (`no_const`, `redis_containers`), and where nobody has to restart
the cluster again (`startup`).

## Fairness

- `LockTable!FairSpec`: calls in progress go on when they can, and an owner's
  destructor runs. Nothing makes a thread ask for a lock, and the mutex is not
  fair between waiters, so what is shown is that the path is owned again, not
  that a given waiter gets it.
- `RepNoConstCrash!FairSpecCrash`: a request's handler, its threads and their
  calls at the peers go on; nothing makes anybody kill, start or join.
- `RepStrongConst!FairSpecStrong`: weak fairness of each handler only.
- `Dispatch!FairSpec`: handlers and executing requests go on; a request at the
  head of its connection is taken when there is a free thread for it all the
  time (weak fairness per connection).
- `RedisStore!FairHistorySpec`, with `Fairness` of `Containers`: of each request
  that can go on, in its handler or in one at a peer, some step happens; clients
  may stop.
- `Startup!FairSpec`: the agent's client, the agents, the launchers and the
  started processes run; nobody has to start the client or touch a file.

## What is proved

`LockTableProofs`, for any finite set of threads and any paths and addresses:

- `TypeCorrect`, and `Invariance`: `IInv` is inductive. Mutual exclusion alone
  is not: one needs that a mutex is locked exactly when its path has an owner
  (`LockedHasOwner`), that a waiter's `m` is its path's mutex
  (`NoDanglingMutex`), and for that that the count is the number of users
  (`RefCountExact`), so that the deleting release is the last user's; `NoLeak`
  gives that different paths have different mutexes, so that an address reused
  for one path does not disturb another; `TableLockSound` that there is one
  half-done release at most.
- `Exclusion`, `NoUseAfterFree`, `OwnersFindTheirLock`, `NothingLeaks` from it.
- `StepKeepsIInv` is the induction step of `Invariance`, cited again below.
- `Implementation`: every step of the table is a step of `GlobalLock` or leaves
  its mapped state alone. Assumed: `None` is no thread and no address, and the
  threads are finite (the count is a cardinality).

`LockTableRestartProofs`, for the same constants and any number of restarts:

- `RestartInvariance`: `RInv`, of `IInv` what a stale release leaves. The count
  is no longer exact, but between 1 and the number of users (`RefCountBound`),
  so a path that nobody uses keeps no mutex; a half-done release still finds its
  mutex in the map (`ReleaserFindsLock`), because no restart gets between its
  halves. `CountsNeverTooLarge` and `MapMatchesHeap` from it.
- `QuietHealsRestart`: `lock_restart_exclusion` shows two owners after a restart;
  this is how long that lasts. `RInv` with nobody between an acquire and its
  release gives `IInv` (`QuietTable`: a path that nobody uses has no mutex, so
  the table is empty), and from there `StepKeepsIInv` keeps it until the next
  restart.

`MembershipProofs`, for any set of servers, any pool and any number of clients:

- `TypeCorrect` and `Invariance`. `IInv` adds to the types: a constructor in
  progress has its own request among the waiting (`ConstructorWaits`), without
  which a failing one would take off a request that is not there; every list
  given out is the frozen one (`ListsAreFrozen`); the ServerJoined under way
  belongs to the Join under way (`NotifyInJoin`); a main thread's place says
  whether the master has entered it (`JoinOrder`); of two joined servers one
  knows the other, has it in `todo`, or the master is about to tell it
  (`PeersPending`). The last is the argument that `run`'s AddServers and the
  master's ServerJoined leave no pair out, however the Joins and the deaths of
  servers interleave.
- `OneList` (`LockServersAgree`) and `AllPeersKnown` (`PeersComplete`) from it.
- `DeathsNeedEmptyList` (`DeathsFromEmptyList`): the division by zero after an
  empty list is the first death; every other one is met by a process that calls
  a dead one, since all calls go to servers that have joined
  (`CallsGoToServers`).
- `DeadlockFree` (`SomeoneCanWork`), where a pool has more threads than a server
  has early clients. Only the server in ServerJoined may then lack a thread, and
  it waits for the joining one, which the master does not notify. A constructor
  never waits for a dead lock server, for a death means that its list is empty.
  The bound is tight: `membership_pool_full` has as many clients as threads.
- `PutsReachLockServers`: where no server takes a Put while its main thread is in
  `AddServers`, all lock servers have the same values (`UpdatesReachAll`).
  `membership_window` is that one window; no other order of Joins, deaths and
  Puts loses an update. Nobody writes before a list is fixed, lock servers have
  left their Join, and a server that has not has no peers and changes its own
  copy only (`WindowInv`). Assumed: `None` is no server, and the pool has a
  thread.

`DispatchProofs`, for any finite set of clients, any servers and objects, any
assignment of objects to lock servers, and any deployment:

- `Invariance`: `DispatchInv`. A lock is owned by the handler between the two
  answers (`LocksOwned`); its threads exist between the file access and the
  release (`ThreadsInCall`); the requests on connections and in pools are those
  whose answer a handler waits for, each once (`RequestsOnce`); no pool exceeds
  `SizeMax`, no serialized connection has two requests executed (`PoolsBounded`).
- `NoRequestWaitsForAThread` and `DeadlockFree`, for deployments with a thread
  per client in each pool, and serialized connections only where each server has
  one client (`Roomy`). A client has at most one request at a server
  (`OneRequestPerServer`) and none at its own, so it keeps one thread of each
  pool at most and the pool has one for the request at the head of a connection
  (`ThreadLeft`); on a serialized connection of one client nothing is executed
  before it. Then the owner of a lock, or a request of it, can go on, and
  whoever waits for the lock need not. `Roomy` also has that a call of a server
  to itself uses no connection (`Collocated`). `dispatch_local_clients` shows why
  serialized connections of two clients are not in it.
- `LocksImplementGlobalLock`: the requests of the handlers grant and free objects
  as `GlobalLock` does, which is what `RepStrongConst` takes them for. Assumed:
  there are finitely many clients, all of them and the lock servers are in the
  deployment, there is an object, and `None` is no client.

`RepStrongConstProofs`, for any clients, servers and objects, any assignment of
clients to servers, any sizes and any number of writes:

- `Invariance`. `ReplicasAgree` speaks of free locks only, so `IInv` says where
  everything is while a lock is taken, request by request (`RequestInv`): the
  lock is held from the first file access to the last join (`LockScope`), a
  write has a thread per peer in between and none otherwise (`ThreadsInCall`),
  each replica is empty, old or new as the request's progress says
  (`OnTheWay`; for an Append, the old content with the chunk added is what the
  home server has), and a size that was asked for still holds
  (`SizeIsCurrent`). A step of one request disturbs no other (`OthersKept`):
  the object it may write is locked by it.
- `Agreement` (`ReplicasAgree`), `WritesAreLocked` (`PeersWriteUnderLock`).
- `Implementation`: each Get, Put and Append moves the single copy of
  `ObjectStore` in exactly one step (`BodyMaps`), and taking or giving up the
  lock does not (`LockingStutters`). Assumed: there are servers and objects,
  every client has a server, `None` is no client; and the container's
  `GlobalLock` is the abstract one, which `LockTableProofs` shows the table to
  implement.

`RepNoConstCrashProofs`, for any clients, servers, objects, sizes, scenarios and
numbers of kills and starts:

- `Invariance`: `CrashInv`. `StepKinds` splits every step into one that leaves
  clients and files alone, a server's death, and a step of one client's request,
  so that each part is proved of the steps that can disturb it. `RequestInv` says
  what a request carries and what its threads are at; `JoinInv`, `AddServersInv`
  and `ProxyInv` where the Joins are and which proxies may be the deleted ones.
  With appends only, `GetInv`: the size that was asked for is no more than the
  file has; `AppendInv`: what a client has appended is at every server what it is
  at its home, or short of the append that has not been executed there;
  `LinesInv`: the checker, were it to tell clients apart, stands between two
  lines and has seen no number still to come. With one writer, `WriterInv`: what each replica has, by the place of
  the request and of its thread (`PeerInv`).
- `AppendsPassTheChecker`, `AnsweredAppendsAreEverywhere`,
  `ReplicasLagByOneAppend`, `GetsReturnWhatWas`, `ReplicasOfOneWriterAgree`,
  `ServingPeersAreUsable` from it (the first four for appends only, as the
  properties say). Clients that called a server before it had all peers (`early`)
  are left out, also as the properties say. The checker reads host names, so
  `AppendsPassTheChecker` is for one appending client per machine
  (`OneAppenderPerHost`): then names tell the appenders apart (`NamesApart`) and
  a file consistent by client is consistent by host (`ConsistentByHost`).
  What a fold over a file does is argued by the first place where it would be otherwise
  (`NatLessThanWellFounded`), not by induction.
- `CheckerFindsInconsistency`: for every sequence of chunks whatever, of any
  host names, `check_integrity` prints something exactly when the reference definition
  `Consistent` fails. `ScanInv` says of the fold after each token what the
  lines before it were: the numbers in `seqno` are the last of each host, and
  nothing is printed exactly as long as the lines read are consistent.
  `ExchangesAreFound` (`CheckerExact`) is the case of a replica two of whose
  chunks were exchanged.
- `RecordsStay`: with appends only, what a replica is at one moment it begins
  with ever after (`StepKeepsBeginning`), so what a Get has returned stays a
  prefix of the file it read. Assumed: every client has a server and there are
  objects, the data set's writer (`Initial`) is no client and no client's host
  name, and nobody is no server and no file no sequence.

`ContainersProofs`, for any clients at the three servers that `getHostName`
knows, any scenarios and numbers of writes:

- `Invariance`: `IInv`, the scenario's facts (`ScenarioInv`), who has which lock
  (`RequestInv`), what a loader has seen (`LoadInv`), which copies differ while a
  lock is taken (`CopiesInv`), that each copy has a client's records in the
  order of its calls, and not yet the one still to be stored there (`OrderInv`),
  where a client's appends are (`AppendsInv`), and why nothing throws in a
  prepared cluster as long as all servers have descriptors (`PreparedInv`).
- `LocksImplementGlobalLock`: the locks of `Requests` refine `GlobalLock` although
  handlers throw and processes end. `OrphansKeepLocks`: the lock of a request
  whose server has ended stays taken for good, which is the exception that
  `LockReleased` makes. `WritesUnderLock`: a step changes one copy at most, of
  the object that the writer's request has locked, also where a peer executes it
  for a server that has ended.
- `RedisImplementsObjectStore`: of `HistorySpec`, which is `Spec` with the two
  history variables: each step moves the store in the one step that
  `RedisStore` names or leaves it alone (`NextRefinesStore`). `HistoryOk` ties the
  history to the state: a call in its body or later has the phase that its place
  says, and a Get that holds the lock reads what it will answer. That a server
  ends half-way through its propagation does no harm: its lock stays taken, so
  nobody sees the copies that differ.
- `OneInstance` (`LoadedOnce`): who loads has the lock and has looked again.
  `ReplicasAgree` (`RedisReplicasAgree`), `AppendsAreRead` (`ReadYourAppends`),
  `PreparedRun` (`PreparedServersRun`). `AppendsAreRead` has the order for both
  containers, all calls and whoever dies; that no append is missing it has for
  named endpoints and without Puts, see items 6 and 7 below. Assumed: the names
  of the servers and of the two containers, that the values for nobody, no file
  and no key are nothing else, and that `Plenty` is no number.

`StartupProofs`, for any hosts and scenarios:

- `StartupInvariance`: `StartupInv`. `WatchesInv` says of each launcher which
  descriptors its table, the queue and the half-done reset have, so that an event
  of a removed watch is always followed by the one that resets; `KillInv`, that
  a host whose kill is over has no server and is about to start none.
- `TableIsWhatIsWatched` (`WatchesIntact`) and `ServersFollowMaster`
  (`NoStrandedServer`). Assumed: the master's host is one of the hosts.

Only model-checked:

- all liveness (`Granted`, `CallsEnd`, `LockReleased`, `RestartSucceeds`), which
  is out of the prover's reach;
- of the two `NoDeadlock` that `CanWork` is what enables `Work`, for the same
  reason; that somebody can work is proved for the deployments above.

## What the code does differently from its comments

1. `container-rep-strong-const.cpp:170`, "called with a 'W' lock held": after a
   restart of the lock server two threads own a path (`lock_restart_exclusion`).
2. `container-rep-strong-const.cpp:144`, deadlock "can be avoided by serializing
   requests from a connection and setting the thread pool size large enough":
   serializing is what makes an owner's update wait behind another client's
   `AcquireLock` from the same server (`dispatch_local_clients`); without it the
   pool of one thread per client is enough (`dispatch`).
3. `server.cpp:75`, "No deadlock as long as the master do not notify the
   originating server": a full pool at any server that the master calls is
   enough, and the master does call the originating server for its proxy
   (`membership_pool_full`).
4. `container-rep-strong-const.cpp:98`, "propagate update to the other servers":
   not to those that `AddServers` has yet to add (`membership_window`). That this
   is the only case is `PutsReachLockServers`.

Read while modelling, and part of the models, without a run of their own:

5. `container-rep-partial.cpp:443`: the cases of `getHostName` fall through, so
   that the random server of a Put is always the last; the loop at line 191 that
   should find a second server never runs.
6. `container-rep-partial.cpp:218` and `:385` ask redis for `GET %`: the format
   has no `s`. Unless an operator sets a key named `%`, every Put fails.
   Line 228 gets the hosts where its log says that it sets them, and only a Put
   of a remote server changes them.
7. `container-rep-partial.cpp:471`: the fourth word of an endpoint is its host
   only if `FleCS.Endpoints` names one. With the `tcp -p 10000` of
   `config.server` it is the port and no peer is ever found: a remote Get
   returns nothing and a remote Append is lost, both without an error. The
   scenarios have both kinds of endpoints (`named`).
8. `container-rep-partial.cpp:316`: an Append whose nearest copy is the local one
   does not go to the other hosts of the object.
9. `container-rep-redis.cpp:87` connects to the host `"REDIS_HOST "`, a string
   literal and not the macro; a failed connection is logged and then used.
10. `container.h:30` declares `Container::S2S_Get`, which is not pure, and nothing
   defines it. A plugin of this commit needs that symbol, so loading one fails
   until it is defined; the models assume that it is, and have the failing load
   as a scenario.
11. `server.cpp:135` and `masterI.cpp:71` delete a proxy and assign the next one
   when its server has answered; if that throws, the entry keeps the deleted
   one and the next Join of the endpoint deletes it again.
12. `launcher.cpp:137` runs the command of a file that was replaced, as if it had
   been written.
13. `agent/client.cpp:123`: to `killall`, `flecs-client*` is a name, and there is
   no process of that name; and the `KILL` that should help against processes
   that stay is not reached while the first `killall -w` waits for one.
14. `ccheck.cpp:87` knows lines of 79 zeros; `gen-fileset.cpp:110` ends a file of
   the `zifian` distribution with a shorter line, which is reported as an
   "Unexpected tokenization". The models have whole lines. And `ccheck.cpp:124`
   keeps numbers by host name, while each client starts at 000000
   (`client-rand-get-append.cpp:195`): two appending clients of one machine, or
   one that is started twice on a data set, are reported although every replica is
   as it should be; so are names with dots. `CheckerAccepts` is for one appending
   client per machine.
15. No handler frees its `redisContext` (`container-rep-redis.cpp:87`, `:134`,
   `:194`, `container-rep-partial.cpp:119`, `:208`, `:299`, `:375`), so each request
   takes a descriptor of the process for good. When the limit is reached the
   connection fails, which is logged and then used (item 9): `redisCommand` gives
   a null reply and `reply->str` ends the process, or, one request earlier, a file
   cannot be opened. With the usual limit of 1024 that is after about 1000
   requests; one run of `client-rand-get-append` makes 5000. `Requests` has these
   steps; `PreparedServersRun` is for the time before.

## Not modelled, and why

- Assumed throughout: a destructor's exception propagates unless another is
  under way (C++98, the compilers of the code's time), and an exception that
  leaves a thread ends the process (IceUtil calls `std::terminate`).
- A host that disappears without its connections being closed: all timeouts are
  infinite, so its callers would wait for good.
- `rep-strong-const` when a peer dies: its threads end the process as in
  `RepNoConstCrash`, its lock stays as in `Requests`; the composition of both
  with `Membership` is larger than TLC can search.
- Whether Ice recognizes a server's own endpoint depends on the host's network
  configuration; the runs assume that it does (`Collocated`).
- What a data race inside `std::map` can do beyond the outcomes named at
  `ThreadCrashes` and `FindNothing`.
- Servers with different `--storage`: the path in redis would be another's.
- In `redis_containers`: hosts in redis that are no servers, an empty string as a
  key's value, several objects that share the key `%`; a server that ended is
  not started again. Of the descriptors only those of redis connections, of the
  object's file and of the plugin count: Ice's connections are taken to be there,
  and a file of one handler is closed before another needs its descriptor.
- In `no_const`: a client that has ended and is started again.
- In `startup`: an agent that dies or is not reached (the client waits or
  exits), and what clients do after they have found their server.
- The hash of paths: any assignment of objects to lock servers.
- Plots, shell scripts, the vendored redis example; options and file lists of the
  clients and of the data generator: no state that is shared or survives.

## Plan

Done: `GlobalLock`, `LockTable`, `LockTableRestart`, `FileOps`, `RepNoConst`,
`RepNoConstCrash`, `Checker`, `ObjectStore`, `RepStrongConst`, `Dispatch`,
`Membership`, `ContainerMgr`, `Requests`, `RepRedis`, `RepPartial`, `Containers`,
`RedisStore`, `Launcher`, `Startup`, and the proofs of each.

What could be added:

1. `RepPartial`: what a Get may miss when its object has two hosts and an Append
   at one of them does not go to the other (item 8 above), as a theorem.
2. `RepStrongConst` with the deaths of `Containers`: both have the same locks and
   the argument of `RedisImplementsObjectStore` should carry over.
3. The clients' part of `Startup`: what those do that outlive a restart.
