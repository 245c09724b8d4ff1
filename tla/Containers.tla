----------------------------- MODULE Containers -----------------------------
(***************************************************************************)
(* A cluster whose clients use rep-redis and rep-partial.  What is in      *)
(* redis and in the files at the start, and whether it runs and the        *)
(* plugins can be loaded, is the scenario's choice: redis is outside the   *)
(* program, and may have keys from an earlier run or from an operator.     *)
(***************************************************************************)
EXTENDS RepRedis, RepPartial

CONSTANTS
  MaxWrites,  (* bound on the writes of one client *)
  Scenarios

HostLists == Seq(Servers) \ {<<>>}

KeyValues ==
  [up : BOOLEAN,
   path : {Missing, "stg_root_dir/rep-redis/obj"},
   location : {Missing, "stg_root_dir/rep-partial/obj"},
   hosts : HostLists \cup {Missing}, percent : HostLists \cup {Missing}]

(* In a scenario every client uses one container, for some of the calls    *)
(* and a number of writes; "at" are the servers with the object's file,    *)
(* all or none of them for rep-redis.                                      *)
Scenario ==
  [use : [Clients -> Buckets], kinds : [Clients -> SUBSET Kinds],
   writes : 0 .. MaxWrites, redis : KeyValues, named : BOOLEAN,
   at : {at \in [Buckets -> SUBSET Servers] : at["rep-redis"] \in {{}, Servers}},
   loaded : BOOLEAN, loadable : BOOLEAN,
   descriptors : [Servers -> Nat \cup {Plenty}]]

ASSUME ContainersAssumption ==
  /\ Scenarios \subseteq Scenario
  /\ Home \in [Clients -> Servers] /\ LockServer \in [Buckets -> Servers]
  /\ Servers = {"flecs12", "flecs22", "flecs52"}
  /\ Buckets = {"rep-redis", "rep-partial"}
  /\ MaxWrites \in Nat

Chunk == [client : Clients, n : 1 .. MaxWrites]

(* No client or handler, no file, a null string, not a number. *)
ASSUME NothingAssumption ==
  /\ Plenty \notin Int
  /\ Nobody \notin Clients \cup Handlers
  /\ NoFile \notin Seq(Chunk)
  /\ Missing \notin HostLists
       \cup {"stg_root_dir/rep-redis/obj", "stg_root_dir/rep-partial/obj"}

VARIABLE scenario

vars == <<requestVars, named, scenario>>

Init ==
  /\ scenario \in Scenarios
  /\ bucket = scenario.use
  /\ place = [h \in Handlers |-> "out"]
  /\ plugin = [s \in Servers |-> [b \in Buckets |-> IF scenario.loaded THEN "loaded" ELSE "none"]]
  /\ load_lock = [s \in Servers |-> Nobody]
  /\ loads = [s \in Servers |-> [b \in Buckets |-> 0]]
  /\ dead = {}
  /\ pc = [c \in Clients |-> "idle"]
  /\ kind = [c \in Clients |-> "Get"]
  /\ seqno = [c \in Clients |-> 0]
  /\ got = [c \in Clients |-> <<>>]
  /\ holder = [b \in Buckets |-> Nobody]
  /\ files = [s \in Servers |-> [b \in Buckets |-> IF s \in scenario.at[b] THEN <<>> ELSE NoFile]]
  /\ redis = scenario.redis /\ named = scenario.named
  /\ descriptors = scenario.descriptors

CallOne(c) ==
  /\ \E k \in scenario.kinds[c] : /\ k = "Get" \/ seqno[c] < scenario.writes
                                  /\ Call(c, scenario.use[c], k)
  /\ UNCHANGED <<named, scenario>>

Lookup(h) ==
  /\ \/ /\ GetContainer(h)
        /\ place'[h] # IF scenario.loadable /\ Opens(h[2]) THEN "failed" ELSE "insert"
        /\ UNCHANGED callVars
     \/ NullReference(h)
  /\ UNCHANGED <<named, scenario>>

Continue(c) ==
  /\ RequestStep(c) \/ RedisStep(c) \/ PartialStep(c)
  /\ UNCHANGED <<named, scenario>>

Next ==
  \/ \E c \in Clients : CallOne(c) \/ Continue(c)
  \/ \E h \in Handlers : Lookup(h)

Spec == Init /\ [][Next]_vars

(* A request that can go on does so, in its handler or in one at a peer;   *)
(* clients may stop.                                                       *)
Fairness ==
  \A c \in Clients : WF_vars(Continue(c) \/ \E s \in Servers : Lookup(<<c, s>>))
-----------------------------------------------------------------------------
(* The variables have their types; who loads a container has its lock.     *)
TypeOK ==
  /\ place \in [Handlers -> {"out", "find", "wait", "locked", "insert", "assign",
                             "in", "failed", "done"}]
  /\ plugin \in [Servers -> [Buckets -> {"none", "null", "loaded"}]]
  /\ load_lock \in [Servers -> Handlers \cup {Nobody}]
  /\ \A h \in Handlers :
       load_lock[h[2]] = h <=> place[h] \in {"locked", "insert", "assign"}
  /\ dead \in SUBSET Servers
  /\ pc \in [Clients -> {"idle", "container", "body", "join", "exited"}]
  /\ kind \in [Clients -> Kinds]
  /\ seqno \in [Clients -> 0 .. MaxWrites]
  /\ got \in [Clients -> Seq(Chunk)]
  /\ holder \in [Buckets -> Clients \cup {Nobody}]
  /\ files \in [Servers -> [Buckets -> Seq(Chunk) \cup {NoFile}]]
  /\ redis \in KeyValues
  /\ descriptors \in [Servers -> Nat \cup {Plenty}]

(* However many handlers look up a container that is not loaded, a process *)
(* creates one instance of it (container.cpp:29).                          *)
LoadedOnce == \A s \in Servers, b \in Buckets : loads[s][b] <= 1

(* When nobody has the lock of an object of rep-redis, and its server can  *)
(* still hand it out, its copies are the same everywhere, whoever has died *)
(* in between and wherever its key was missing.                            *)
RedisReplicasAgree ==
  LET b == "rep-redis" IN
  holder[b] = Nobody /\ LockServer[b] \notin dead
    => \A s, t \in Servers : files[s][b] = files[t][b]

(* What a client gets has its own records in the order in which it wrote   *)
(* them, each at most once.  Where endpoints name their hosts and nobody   *)
(* uses Put, it has every record that the client has appended: rep-partial *)
(* sends the Get to a host that has them, though the copies differ.        *)
Own(content, c) == {i \in DOMAIN content : content[i].client = c}

InOrder(content, c) ==
  \A i, j \in Own(content, c) : i < j => content[i].n < content[j].n

NobodyPuts == \A c \in Clients : "Put" \notin scenario.kinds[c]

ReadYourAppends ==
  \A c \in Clients :
    pc[c] = "idle" /\ kind[c] = "Get" =>
      /\ InOrder(got[c], c)
      /\ named /\ NobodyPuts =>
           \A n \in 1 .. seqno[c] :
             \E i \in DOMAIN got[c] : got[c][i] = [client |-> c, n |-> n]

(* The lock of an object is released in the end, by an exception too; it   *)
(* is kept for good only with the process of its owner or of its server.   *)
LockReleased ==
  \A c \in Clients :
    LET b == bucket[c] IN
    holder[b] = c ~> holder[b] # c \/ Home[c] \in dead \/ LockServer[b] \in dead

(* With redis up, its keys set, two hosts for each object, the copies in   *)
(* place and the plugins loaded, no server ends before some server has     *)
(* used up its descriptors, which it does by the requests it executes: an  *)
(* uncaught exception of a thread, a null string and a null container all  *)
(* need one of these to be missing, whatever a Put changes in redis.       *)
Prepared ==
  /\ scenario.redis.up /\ scenario.loaded /\ scenario.at = [b \in Buckets |-> Servers]
  /\ Missing \notin {scenario.redis.path, scenario.redis.location,
                     scenario.redis.hosts, scenario.redis.percent}
  /\ Len(scenario.redis.hosts) > 1

DescriptorsLeft == \A s \in Servers : Spare(s, 1)

PreparedServersRun == Prepared /\ DescriptorsLeft => dead = {}
-----------------------------------------------------------------------------
(* The parts of the inductive invariant. *)

(* What a scenario fixes. *)
ScenarioInv ==
  /\ scenario \in Scenarios
  /\ bucket = scenario.use /\ named = scenario.named
  /\ \A c \in Clients : kind[c] \in scenario.kinds[c] \cup {"Get"}
  /\ \A c \in Clients : kind[c] # "Get" => seqno[c] > 0

(* A request has its lock while its body or its threads run; handlers at   *)
(* peers are there only with it, also when its own server has ended.       *)
RequestInv ==
  \A c \in Clients :
    /\ pc[c] \in {"body", "join"} => holder[bucket[c]] = c /\ place[Here(c)] = "in"
    /\ pc[c] = "idle" => place[Here(c)] = "out"
    /\ \A s \in Peers(c) :
         place[<<c, s>>] # "out" => pc[c] \in {"join", "exited"} /\ holder[bucket[c]] = c
    /\ \A b \in Buckets :
         holder[b] = c => bucket[c] = b /\ pc[c] \in {"body", "join", "exited"}

(* A container that is not loaded has not been created, unless somebody    *)
(* with the lock is about to insert it; nobody executes in a dead process. *)
LoadInv ==
  /\ loads \in [Servers -> [Buckets -> 0 .. 1]]
  /\ \A s \in dead, c \in Clients : place[<<c, s>>] \in {"out", "done", "failed"}
  /\ \A s \in Servers \ dead, b \in Buckets :
       /\ plugin[s][b] = "none"
       /\ \A c \in Clients : bucket[c] = b => place[<<c, s>>] # "insert"
       => loads[s][b] = 0

(* While an object of rep-redis is locked: its copies are the same before  *)
(* the home server has written; then each has the update, or it will agree *)
(* with the home server's when it gets it.                                 *)
Updated(c, s) ==
  IF kind[c] = "Put" THEN Content(c) ELSE AppendTo(File(c, s), Content(c))

CopiesInv ==
  \A c \in Clients :
    bucket[c] = "rep-redis" =>
      /\ pc[c] = "body" => \A s \in Servers : File(c, s) = File(c, Home[c])
      /\ pc[c] = "join" =>
           /\ kind[c] # "Get"
           /\ \A s \in Peers(c) :
                /\ place[<<c, s>>] # "out"
                /\ File(c, Home[c]) = IF place[<<c, s>>] = "done" THEN File(c, s)
                                                               ELSE Updated(c, s)

(* The records of a client are in each copy in the order of its calls; the *)
(* one that is still to be stored there is not there yet.                  *)
StillToStore(c, s) ==
  /\ kind[c] # "Get"
  /\ \/ pc[c] \in {"container", "body"}
     \/ s # Home[c] /\ place[<<c, s>>] \notin {"out", "done", "failed"}

OrderInv ==
  \A c \in Clients :
    /\ InOrder(got[c], c)
    /\ \A s \in Servers :
         File(c, s) # NoFile =>
           /\ InOrder(File(c, s), c)
           /\ \A i \in Own(File(c, s), c) :
                /\ File(c, s)[i].n <= seqno[c]
                /\ StillToStore(c, s) => File(c, s)[i].n < seqno[c]

(* Where nobody uses Put: the copy that a client's Gets read has all its   *)
(* Appends but the one in progress, which it has when the thread for it is *)
(* done; only one thread answers a Get.                                    *)

Source(c) ==
  IF bucket[c] = "rep-redis" THEN Home[c] ELSE NearestHost(Home[c], redis.hosts)

Has(file, c, n) ==
  file # NoFile /\ \E i \in DOMAIN file : file[i] = [client |-> c, n |-> n]

SourceDone(c) == bucket[c] = "rep-redis" \/ place[<<c, Source(c)>>] = "done"

AppendsInv ==
  named /\ NobodyPuts =>
    /\ redis = scenario.redis
    /\ \A c \in Clients :
         /\ \A n \in 1 .. seqno[c] :
              \/ n < seqno[c] \/ kind[c] = "Get" \/ pc[c] = "idle"
              \/ (pc[c] = "join" /\ SourceDone(c))
              => Source(c) \in Servers /\ Has(File(c, Source(c)), c, n)
         /\ pc[c] = "join" /\ bucket[c] = "rep-partial" =>
              /\ Source(c) \in Peers(c)
              /\ place[<<c, Source(c)>>] # "out"
              /\ kind[c] = "Get" =>
                   \A s \in Peers(c) \ {Source(c)} : place[<<c, s>>] = "out"
         /\ kind[c] = "Get" /\ (pc[c] = "idle" \/ (pc[c] = "join" /\ SourceDone(c))) =>
              \A n \in 1 .. seqno[c] : Has(got[c], c, n)

(* A prepared cluster stays prepared while there are descriptors: no Put   *)
(* takes anything away.                                                    *)
PreparedInv ==
  Prepared /\ DescriptorsLeft =>
    /\ dead = {} /\ redis.up
    /\ Missing \notin {redis.path, redis.location, redis.hosts, redis.percent}
    /\ Len(redis.hosts) > 1
    /\ plugin = [s \in Servers |-> [b \in Buckets |-> "loaded"]]
    /\ \A s \in Servers, b \in Buckets : files[s][b] # NoFile
    /\ \A h \in Handlers : place[h] \in {"out", "find", "in", "done"}

IInv ==
  /\ TypeOK /\ ScenarioInv /\ RequestInv /\ LoadInv
  /\ CopiesInv /\ RedisReplicasAgree
  /\ OrderInv /\ AppendsInv /\ PreparedInv
=============================================================================
