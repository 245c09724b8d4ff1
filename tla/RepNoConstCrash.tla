-------------------------- MODULE RepNoConstCrash --------------------------
(***************************************************************************)
(* The container without consistency when server processes are killed and  *)
(* started again.  The files outlive a process.  A PutThread or            *)
(* AppendThread whose call fails has no handler, so the whole process ends *)
(* (std::terminate).  A server that comes back joins again: the master and *)
(* every other server replace the proxy they have for its endpoint, in two *)
(* steps, delete and assign, without a lock against the threads that use   *)
(* it.  A client exits when a call fails.                                  *)
(*                                                                         *)
(* A scenario says what the clients do and how often, how many processes   *)
(* are killed and how many are started again.  Pool threads are enough (see Membership).  *)
(***************************************************************************)
EXTENDS RepNoConst

CONSTANTS
  Host,       (* the name of the machine each client runs on *)
  Scenarios,
  Nobody

Scenario ==
  [kinds : [Clients -> SUBSET {"Get", "Put", "Append"}],
   writes : [Clients -> 0 .. MaxWrites], sizes : SUBSET Sizes,
   kills : Nat, starts : Nat]

ASSUME CrashAssumption ==
  /\ Nobody \notin Servers
  /\ \A c \in Clients : Host[c] # Initial
  /\ NoFile \notin Seq(Chunk)
  /\ Scenarios \subseteq Scenario

VARIABLES
  scenario,   (* no step changes it *)
  kills,      (* the processes killed so far *)
  starts,     (* ... and started again *)
  state,      (* of each server process *)
  proxy,      (* peer_servers: what the entry for each endpoint points to *)
  dangling,   (* threads with a reference to a proxy that was deleted *)
  todo,       (* what AddServers has still to add *)
  adding,     (* the server that it is adding, or Nobody *)
  master_up,
  entry,      (* MasterI::_servers: "ok" or "freed" *)
  joiner,     (* the server whose Join the master executes, or Nobody *)
  tell,       (* those the master has still to notify of it *)
  notifying,  (* the one that executes ServerJoined, or Nobody *)
  early       (* clients with a write from before their server had its peers *)

serverVars == <<state, proxy, dangling, todo, adding>>
joinVars   == <<master_up, entry, joiner, tell, notifying>>
boundVars  == <<scenario, kills, starts>>
crashVars  == <<repVars, boundVars, serverVars, joinVars, early>>

InitCrash ==
  /\ Init
  /\ scenario \in Scenarios
  /\ kills = 0 /\ starts = 0
  /\ state = [s \in Servers |-> "serving"]
  /\ proxy = [s \in Servers |-> [t \in Servers |-> IF t = s THEN "none" ELSE "ok"]]
  /\ dangling = {} /\ early = {}
  /\ todo = [s \in Servers |-> {}]
  /\ adding = [s \in Servers |-> Nobody]
  /\ master_up = TRUE
  /\ entry = [s \in Servers |-> "ok"]
  /\ joiner = Nobody /\ notifying = Nobody /\ tell = {}

Up(s) == state[s] # "dead"

(* What becomes of c's call to t when s dies.  The threads of s are gone,  *)
(* what they have sent is executed.  A call that s was executing, or had   *)
(* received, fails; one still to be sent may reach its next process.       *)
RpcAfter(s, c, t, cut) ==
  CASE Home[c] = s /\ (rpc[c][t] \notin {"sent", "truncated"} \/ <<c, t>> \in cut) -> "none"
    [] t = s /\ (rpc[c][t] = "truncated" \/ <<c, t>> \in cut) -> "lost"
    [] OTHER -> rpc[c][t]

(* The process of s ends, and with it its clients that are in a call. *)
Die(s) ==
  /\ state' = [state EXCEPT ![s] = "dead"]
  /\ proxy' = [proxy EXCEPT ![s] = [t \in Servers |-> "none"]]
  /\ todo' = [todo EXCEPT ![s] = {}]
  /\ adding' = [adding EXCEPT ![s] = Nobody]
  /\ dangling' = {d \in dangling : Home[d[1]] # s}
  /\ pc' = [c \in Clients |->
              IF Home[c] = s /\ pc[c] # "idle" THEN "exited" ELSE pc[c]]
  /\ LET sent == {d \in Clients \X Servers :
                    rpc[d[1]][d[2]] = "sent" /\ s \in {Home[d[1]], d[2]}}
     IN \E cut \in SUBSET sent :
          /\ {d \in sent : d[2] = s /\ ~Up(Home[d[1]])} \subseteq cut
          /\ rpc' = [c \in Clients |-> [t \in Servers |-> RpcAfter(s, c, t, cut)]]
  /\ UNCHANGED <<files, op, size, got, seqno, early>>

Kill(s) ==
  /\ Up(s) /\ kills < scenario.kills
  /\ kills' = kills + 1
  /\ Die(s)
  /\ UNCHANGED <<scenario, starts, joinVars>>

(* A new process has activated its adapter; peer_servers is empty. *)
Start(s) ==
  /\ ~Up(s) /\ starts < scenario.starts
  /\ starts' = starts + 1
  /\ state' = [state EXCEPT ![s] = "active"]
  /\ UNCHANGED <<repVars, scenario, kills, proxy, dangling, todo, adding, joinVars, early>>
-----------------------------------------------------------------------------
(* The client's call, and the call of a server that is not there. *)
CallServer(c) ==
  /\ Up(Home[c])
  /\ Call(c)
  /\ op'[c].kind \in scenario.kinds[c]
  /\ seqno'[c] <= scenario.writes[c] /\ Len(op'[c].content) \in {0} \cup scenario.sizes
  /\ UNCHANGED <<boundVars, serverVars, joinVars, early>>

CallRefused(c) ==
  /\ ~Up(Home[c])
  /\ Goto(c, "idle", "exited")
  /\ UNCHANGED <<files, op, size, got, rpc, seqno, boundVars, serverVars, joinVars, early>>

(* Variant: the server is among its own peers. *)
StartThreadsToAll(c) ==
  /\ rpc' = [rpc EXCEPT ![c] = [s \in Servers |-> "sent"]]
  /\ UNCHANGED <<dangling, early>>

(* One thread for every entry of peer_servers.  A null one is the end of   *)
(* the process like a lost call; the thread of a deleted one may work.     *)
StartThreadsToEntries(c) ==
  LET entries == proxy[Home[c]] IN
  /\ rpc' = [rpc EXCEPT ![c] =
       [s \in Servers |-> CASE entries[s] = "none" -> "none"
                            [] entries[s] = "null" -> "lost"
                            [] OTHER -> "sent"]]
  /\ dangling' = dangling \cup {<<c, s>> : s \in {t \in Servers : entries[t] = "freed"}}
  /\ early' = IF state[Home[c]] = "serving" THEN early ELSE early \cup {c}

(* C2S_Put and C2S_Append, after the truncation. *)
WriteHere(c) ==
  /\ \/ /\ Goto(c, "truncated", "sent")
        /\ SetFile(Home[c], op[c].obj, WriteAtStart(HomeFile(c), op[c].content))
     \/ /\ op[c].kind = "Append"
        /\ Goto(c, "called", "sent")
        /\ SetFile(Home[c], op[c].obj, AppendTo(HomeFile(c), op[c].content))
  /\ StartThreadsToEntries(c)
  /\ UNCHANGED <<op, size, got, seqno, boundVars, state, proxy, todo, adding, joinVars>>

(* Variant: run() catches the exception, the join goes on. *)
ThreadCatches(c, s) ==
  /\ pc[c] = "sent"
  /\ rpc[c][s] = "lost" \/ (rpc[c][s] = "sent" /\ ~Up(s))
  /\ rpc' = [rpc EXCEPT ![c][s] = "done"]
  /\ UNCHANGED <<files, pc, op, size, got, seqno, boundVars, serverVars, joinVars, early>>

(* Variant: the calls to a process that is gone wait for an answer. *)
ThreadWaits(c, s) ==
  /\ pc[c] = "sent"
  /\ rpc[c][s] = "lost" /\ Up(s)
  /\ Die(Home[c])
  /\ UNCHANGED <<boundVars, joinVars>>

(* PutThread::run, AppendThread::run: the call throws. *)
ThreadThrows(c, s) ==
  /\ pc[c] = "sent"
  /\ rpc[c][s] = "lost" \/ (rpc[c][s] = "sent" /\ ~Up(s))
  /\ Die(Home[c])
  /\ UNCHANGED <<boundVars, joinVars>>

(* What the threads and the loop that starts them do is undefined when     *)
(* their proxy has been deleted or an entry is inserted meanwhile.         *)
Inserting(h) ==
  \E t \in Servers : (adding[h] = t \/ (notifying = h /\ joiner = t))
                     /\ proxy[h][t] \in {"none", "null"}

ThreadCrashes(c) ==
  /\ pc[c] = "sent"
  /\ Inserting(Home[c]) \/ \E s \in Servers : <<c, s>> \in dangling /\ rpc[c][s] # "done"
  /\ Die(Home[c])
  /\ UNCHANGED <<boundVars, joinVars>>

(* SM2SI::Put and Append at a peer that runs. *)
ExecuteThere(c, s) ==
  /\ Up(s)
  /\ PeerTruncate(c, s) \/ PeerWrite(c, s) \/ PeerAppend(c, s)
  /\ UNCHANGED <<boundVars, serverVars, joinVars, early>>

(* Variant: the threads are not joined; the last of them are cut off. *)
JoinNoneStarted(c) ==
  /\ Goto(c, "sent", "done")
  /\ rpc' = [rpc EXCEPT ![c] = [s \in Servers |-> "none"]]
  /\ dangling' = {d \in dangling : d[1] # c}
  /\ UNCHANGED <<files, op, size, got, seqno, boundVars, state, proxy, todo, adding,
                 joinVars, early>>

(* Every thread that was started has been joined. *)
JoinStarted(c) ==
  /\ \A s \in Servers : rpc[c][s] \in {"none", "done"}
  /\ Goto(c, "sent", "done")
  /\ rpc' = [rpc EXCEPT ![c] = [s \in Servers |-> "none"]]
  /\ dangling' = {d \in dangling : d[1] # c}
  /\ UNCHANGED <<files, op, size, got, seqno, boundVars, state, proxy, todo, adding,
                 joinVars, early>>

(* The steps at the home server that are as they were. *)
ExecuteHere(c) ==
  /\ ReadSize(c) \/ ReadFails(c) \/ ReadData(c) \/ LocalTruncate(c)
  /\ UNCHANGED <<boundVars, serverVars, joinVars, early>>

Answer(c) == Reply(c) /\ UNCHANGED <<boundVars, serverVars, joinVars, early>>
-----------------------------------------------------------------------------
(* AddServer(t) at s up to its call of t.  A proxy that is there is        *)
(* deleted; deleting it again may end the process.  Whether a new entry is *)
(* there, with a null pointer, before the call is up to the compiler.      *)
DeleteProxy(s, t) ==
  /\ \/ proxy[s][t] \in {"ok", "freed"} /\ proxy' = [proxy EXCEPT ![s][t] = "freed"]
     \/ proxy[s][t] \in {"none", "null"} /\ \E p \in {proxy[s][t], "null"} :
          proxy' = [proxy EXCEPT ![s][t] = p]
  /\ dangling' = dangling \cup {<<c, t>> : c \in {d \in Clients :
                   Home[d] = s /\ pc[d] = "sent" /\ rpc[d][t] \in {"sent", "truncated"}
                   /\ proxy[s][t] = "ok"}}

(* Variant: an entry that is there is not assigned again. *)
AssignNewProxy(s, t) ==
  proxy' = [proxy EXCEPT ![s][t] = IF @ \in {"none", "null"} THEN "ok" ELSE @]

(* AddServer, when t has answered. *)
AssignProxy(s, t) == proxy' = [proxy EXCEPT ![s][t] = "ok"]

(* MasterI::Join starts: an old proxy is deleted; if it was deleted before *)
(* and never assigned since, the master may die of it.                     *)
JoinStart(s) ==
  /\ master_up /\ joiner = Nobody
  /\ state[s] = "active"
  /\ state' = [state EXCEPT ![s] = "joining"]
  /\ joiner' = s
  /\ entry' = [entry EXCEPT ![s] = "freed"]
  /\ UNCHANGED <<repVars, boundVars, proxy, dangling, todo, adding, master_up, tell,
                 notifying, early>>

JoinInsert ==
  /\ joiner # Nobody /\ entry[joiner] = "freed" /\ Up(joiner)
  /\ entry' = [entry EXCEPT ![joiner] = "ok"]
  /\ tell' = Servers \ {joiner}
  /\ UNCHANGED <<repVars, boundVars, serverVars, master_up, joiner, notifying, early>>

(* Join: _new_proxy throws, the entry keeps the deleted proxy. *)
JoinInsertFails ==
  /\ joiner # Nobody /\ entry[joiner] = "freed" /\ ~Up(joiner)
  /\ joiner' = Nobody
  /\ UNCHANGED <<repVars, boundVars, serverVars, master_up, entry, tell, notifying, early>>

(* Join calls ServerJoined at t, which calls AddServer. *)
Notify(t) ==
  /\ joiner # Nobody /\ entry[joiner] = "ok" /\ notifying = Nobody
  /\ t \in tell /\ Up(t)
  /\ notifying' = t
  /\ DeleteProxy(t, joiner)
  /\ UNCHANGED <<repVars, boundVars, state, todo, adding, master_up, entry, joiner, tell,
                 early>>

Notified ==
  /\ notifying # Nobody /\ Up(notifying) /\ Up(joiner)
  /\ AssignProxy(notifying, joiner)
  /\ tell' = tell \ {notifying}
  /\ notifying' = Nobody
  /\ UNCHANGED <<repVars, boundVars, state, dangling, todo, adding, master_up, entry,
                 joiner, early>>

(* A server that Join calls, or that ServerJoined calls, is not there.     *)
JoinThrows ==
  /\ joiner # Nobody /\ entry[joiner] = "ok"
  /\ \/ notifying = Nobody /\ \E t \in tell : ~Up(t)
     \/ notifying # Nobody /\ (~Up(joiner) \/ ~Up(notifying))
  /\ joiner' = Nobody /\ tell' = {} /\ notifying' = Nobody
  /\ IF state[joiner] = "joining"
     THEN Die(joiner)
     ELSE UNCHANGED <<repVars, serverVars, early>>
  /\ UNCHANGED <<boundVars, master_up, entry>>

(* Join uses or deletes a proxy that was deleted before. *)
MasterDies ==
  /\ master_up
  /\ \/ joiner # Nobody /\ \E t \in tell : entry[t] = "freed"
     \/ joiner = Nobody /\ \E s \in Servers : state[s] = "active" /\ entry[s] = "freed"
  /\ master_up' = FALSE
  /\ joiner' = Nobody /\ tell' = {} /\ notifying' = Nobody
  /\ IF joiner # Nobody /\ state[joiner] = "joining"
     THEN Die(joiner)
     ELSE UNCHANGED <<repVars, serverVars, early>>
  /\ UNCHANGED <<boundVars, entry>>

(* run: there is no master any more. *)
JoinRefused(s) ==
  /\ ~master_up /\ state[s] = "active"
  /\ Die(s)
  /\ UNCHANGED <<boundVars, joinVars>>

(* run: Join returns all the endpoints the master has. *)
JoinReturn ==
  /\ joiner # Nobody /\ entry[joiner] = "ok" /\ tell = {}
  /\ IF state[joiner] = "joining"
     THEN /\ state' = [state EXCEPT ![joiner] = "adding"]
          /\ todo' = [todo EXCEPT ![joiner] = Servers \ {joiner}]
     ELSE UNCHANGED <<state, todo>>
  /\ joiner' = Nobody
  /\ UNCHANGED <<repVars, boundVars, proxy, dangling, adding, master_up, entry, tell,
                 notifying, early>>

(* run: AddServers, one AddServer after the other. *)
AddServerDelete(s, t) ==
  /\ state[s] = "adding" /\ adding[s] = Nobody
  /\ t \in todo[s]
  /\ adding' = [adding EXCEPT ![s] = t]
  /\ DeleteProxy(s, t)
  /\ UNCHANGED <<repVars, boundVars, state, todo, joinVars, early>>

AddServerAssign(s) ==
  /\ adding[s] # Nobody /\ Up(adding[s])
  /\ AssignProxy(s, adding[s])
  /\ todo' = [todo EXCEPT ![s] = @ \ {adding[s]}]
  /\ adding' = [adding EXCEPT ![s] = Nobody]
  /\ UNCHANGED <<repVars, boundVars, state, dangling, joinVars, early>>

(* AddServers: the server to add is not there, run returns. *)
AddServerThrows(s) ==
  /\ adding[s] # Nobody /\ ~Up(adding[s])
  /\ Die(s)
  /\ UNCHANGED <<boundVars, joinVars>>

(* AddServer deletes a proxy that another AddServer has deleted. *)
DoubleDelete(s) ==
  /\ \/ joiner # Nobody /\ notifying = Nobody /\ s \in tell /\ proxy[s][joiner] = "freed"
     \/ \E t \in todo[s] : adding[s] = Nobody /\ proxy[s][t] = "freed"
  /\ Up(s)
  /\ Die(s)
  /\ UNCHANGED <<boundVars, joinVars>>

AddServersDone(s) ==
  /\ state[s] = "adding" /\ todo[s] = {}
  /\ state' = [state EXCEPT ![s] = "serving"]
  /\ UNCHANGED <<repVars, boundVars, proxy, dangling, todo, adding, joinVars, early>>

JoinStep ==
  \/ JoinInsert \/ JoinInsertFails
  \/ (\E t \in Servers : Notify(t)) \/ Notified
  \/ JoinThrows \/ MasterDies \/ JoinReturn

ServerStep(s) ==
  \/ JoinStart(s) \/ JoinRefused(s)
  \/ (\E t \in Servers : AddServerDelete(s, t))
  \/ AddServerAssign(s) \/ AddServerThrows(s) \/ DoubleDelete(s) \/ AddServersDone(s)

HandlerStep(c) ==
  \/ ExecuteHere(c) \/ WriteHere(c)
  \/ \E s \in Servers : ExecuteThere(c, s) \/ ThreadThrows(c, s)
  \/ ThreadCrashes(c)
  \/ JoinStarted(c)

NextCrash ==
  \/ \E s \in Servers : Kill(s) \/ Start(s) \/ ServerStep(s)
  \/ JoinStep
  \/ \E c \in Clients : CallServer(c) \/ CallRefused(c) \/ HandlerStep(c) \/ Answer(c)

SpecCrash == InitCrash /\ [][NextCrash]_crashVars

(* A handler goes on while it can, in its own thread or in a peer's: weak  *)
(* fairness, since a call that is not executed fails when its peer dies.   *)
(* Nothing is assumed of the kills, starts and Joins.                      *)
FairSpecCrash ==
  SpecCrash /\ \A c \in Clients : WF_crashVars(HandlerStep(c) \/ Answer(c))
-----------------------------------------------------------------------------
CrashTypeOK ==
  /\ files \in [Servers -> [Objects -> Seq(Chunk) \cup {NoFile}]]
  /\ pc \in [Clients -> {"idle", "called", "sized", "truncated", "sent", "done",
                         "exited"}]
  /\ op \in [Clients -> [kind : {"Get", "Put", "Append"}, obj : Objects,
                         content : Seq(Chunk)]]
  /\ size \in [Clients -> Nat] /\ seqno \in [Clients -> Nat]
  /\ got \in [Clients -> Seq(Chunk \cup {Garbage}) \cup {NoFile}]
  /\ rpc \in [Clients -> [Servers -> {"none", "sent", "truncated", "done", "lost"}]]
  /\ \A c \in Clients : rpc[c][Home[c]] = "none"
  /\ scenario \in Scenarios /\ kills \in Nat /\ starts \in Nat
  /\ state \in [Servers -> {"serving", "dead", "active", "joining", "adding"}]
  /\ proxy \in [Servers -> [Servers -> {"none", "null", "ok", "freed"}]]
  /\ \A s \in Servers : proxy[s][s] = "none"
  /\ dangling \subseteq Clients \X Servers
  /\ todo \in [Servers -> SUBSET Servers]
  /\ adding \in [Servers -> Servers \cup {Nobody}]
  /\ master_up \in BOOLEAN /\ entry \in [Servers -> {"ok", "freed"}]
  /\ {joiner, notifying} \subseteq Servers \cup {Nobody}
  /\ tell \subseteq Servers /\ early \subseteq Clients

Check == INSTANCE Checker

AppendsOnly == \A c \in Clients : "Put" \notin scenario.kinds[c]

ChunksOf(c, file) ==
  IF file = NoFile
  THEN <<>>
  ELSE LET own[i \in 0 .. Len(file)] ==
             IF i = 0                 THEN <<>>
             ELSE IF file[i].client = c THEN Append(own[i - 1], file[i])
             ELSE own[i - 1]
       IN  own[Len(file)]

(* A file as the checker reads it: a token names its client's machine.     *)
HostOf(w) == IF w = Initial THEN Initial ELSE Host[w]

Named(file) ==
  [i \in 1 .. Len(file) |->
     [client |-> HostOf(file[i].client), n |-> file[i].n, eol |-> file[i].eol]]

(* No two clients that append run on one machine: each starts at 000000.   *)
OneAppenderPerHost ==
  \A c, d \in Clients :
    "Append" \in scenario.kinds[c] \cap scenario.kinds[d] /\ Host[c] = Host[d] => c = d

(* With appends only and one appending client per machine, the checker has *)
(* nothing to say of any replica at any moment, whoever has died: the line *)
(* of an append is whole and a client's lines are in order and not doubled,*)
(* although appends of several clients reach the replicas in different     *)
(* orders.  The data set is the uniform one, whose lines are all whole.    *)
CheckerAccepts ==
  AppendsOnly /\ OneAppenderPerHost =>
    \A s \in Servers, o \in Objects :
      files[s][o] # NoFile => Check!Printed(Named(files[s][o])) = {}

(* The checker is run when the clients have ended.  Had two chunks of a    *)
(* replica come to each other's place it would print something, unless     *)
(* that leaves every line whole and every host's lines in order: resetting *)
(* and updating the loop's variables misses no such case.                  *)
Exchanged(file, i, j) == [file EXCEPT ![i] = file[j], ![j] = file[i]]

CheckerExact ==
  (\A c \in Clients : pc[c] \in {"idle", "exited"}) =>
    \A s \in Servers, o \in Objects :
      files[s][o] # NoFile =>
        \A i \in 1 .. Len(files[s][o]) : \A j \in i .. Len(files[s][o]) :
          LET file == Exchanged(Named(files[s][o]), i, j) IN
          Check!Printed(file) = {} <=> Check!Consistent(file)

(* With appends only, a client that has its answer finds exactly its own   *)
(* appends, in its order, on every server, the dead ones included: a peer  *)
(* that dies takes the home server with it before the client is answered.  *)
(* (Not those made before its server had its peers: UpdatesReachAll.)      *)
OwnWritesEverywhere ==
  AppendsOnly =>
    \A c \in Clients \ early, o \in Objects, s, t \in Servers :
      pc[c] = "idle" => ChunksOf(c, files[s][o]) = ChunksOf(c, files[t][o])

(* With appends only, the replicas never differ by more than the one       *)
(* append of each client that is in progress or was cut off by a death.    *)
LagsByOneAppend ==
  AppendsOnly =>
    \A c \in Clients \ early, o \in Objects, s, t \in Servers :
      LET a == ChunksOf(c, files[s][o])
          b == ChunksOf(c, files[t][o])
      IN  a = b \/ a \o op[c].content = b \/ b \o op[c].content = a

(* With appends only, a Get returns a state the file was in, although it   *)
(* asks for the size and reads the data in two steps and takes no lock.    *)
GetReturnsPrefix ==
  AppendsOnly =>
    \A c \in Clients :
      pc[c] = "done" /\ op[c].kind = "Get" /\ got[c] # NoFile =>
        got[c] = SubSeq(HomeFile(c), 1, Len(got[c]))

OnlyWriter(c) == \A d \in Clients \ {c} : scenario.kinds[d] \subseteq {"Get"}

(* With one writer, no matter how many readers, all replicas are the same  *)
(* whenever the writer is not in a call.                                   *)
SingleWriterAgreement ==
  \A c \in Clients \ early :
    OnlyWriter(c) /\ pc[c] = "idle" => \A s, t \in Servers : files[s] = files[t]

(* Servers that have come to waitForShutdown can call each other, however  *)
(* their AddServers, the master's ServerJoined and deaths interleaved: no  *)
(* entry is missing, null, or the proxy that AddServer has deleted.        *)
PeersUsable ==
  \A s, t \in Servers :
    s # t /\ state[s] = "serving" /\ state[t] = "serving" => proxy[s][t] = "ok"

(* Every call ends, with an answer or with the end of the server: the      *)
(* joins wait for threads that come back or take the process with them.    *)
CallsEnd ==
  \A c \in Clients : pc[c] = "called" ~> pc[c] \in {"idle", "exited"}
-----------------------------------------------------------------------------
(* The inductive invariant.  Which calls a request may have at each point, *)
(* and what it carries: the latest write of its client.                    *)
Tokens(c, n, k) == [i \in 1 .. k |-> [client |-> c, n |-> n, eol |-> i = k]]

RequestInv(c) ==
  /\ op[c].kind \in {"Get"} \cup scenario.kinds[c]
  /\ op[c].content = IF op[c].kind = "Get" THEN <<>>
                     ELSE Tokens(c, seqno[c] - 1, Len(op[c].content))
  /\ op[c].kind = "Get" \/ seqno[c] # 0
  /\ pc[c] = "sized" => op[c].kind = "Get" /\ HomeFile(c) # NoFile
  /\ pc[c] = "truncated" => op[c].kind = "Put" /\ HomeFile(c) # NoFile
  /\ pc[c] = "sent" => op[c].kind # "Get"
  /\ \A s \in Servers :
       /\ rpc[c][s] # "none" => pc[c] \in {"sent", "exited"} /\ op[c].kind # "Get"
       /\ rpc[c][s] = "truncated" => op[c].kind = "Put" /\ files[s][op[c].obj] # NoFile

(* The master serves one Join; it has notified the servers not in tell.    *)
JoinInv ==
  /\ joiner = Nobody => tell = {} /\ notifying = Nobody
  /\ joiner # Nobody =>
       /\ state[joiner] \in {"joining", "dead", "active"}
       /\ joiner \notin tell
       /\ entry[joiner] = "freed" => tell = {}
  /\ notifying # Nobody => notifying \in tell
  /\ \A s \in Servers : state[s] = "joining" => joiner = s

(* AddServers goes through todo, and nothing but it changes todo.          *)
AddServersInv ==
  \A s \in Servers :
    /\ s \notin todo[s]
    /\ todo[s] # {} => state[s] = "adding"
    /\ adding[s] # Nobody => adding[s] \in todo[s]

(* Whom a server has added, or was notified of while it joined, it can     *)
(* call; the proxy of a server that joined before may be deleted.          *)
ProxyInv ==
  \A s, t \in Servers :
    s # t /\ state[s] \in {"adding", "serving"} /\ t \notin todo[s] =>
      /\ proxy[s][t] \in {"ok", "freed"}
      /\ \/ state[t] \in {"adding", "serving"}
         \/ state[t] = "joining" /\ entry[t] = "ok" /\ s \notin tell
         => proxy[s][t] = "ok"

(* With appends only: a Get has asked for no more than the file has.       *)
GetInv(c) ==
  op[c].kind = "Get" =>
    /\ pc[c] = "sized" => size[c] <= Len(HomeFile(c))
    /\ pc[c] = "done" /\ got[c] # NoFile =>
         /\ HomeFile(c) # NoFile /\ Len(got[c]) <= Len(HomeFile(c))
         /\ got[c] = SubSeq(HomeFile(c), 1, Len(got[c]))

(* With appends only: what c has appended is everywhere what it is at its  *)
(* home, or is short of the append that has not been executed there.       *)
AppendInv(c) ==
  c \notin early =>
    /\ pc[c] = "sent" => \A s \in Peers(c) : rpc[c][s] # "none"
    /\ \A s \in Servers, o \in Objects :
         LET here  == ChunksOf(c, files[Home[c]][o])
             there == ChunksOf(c, files[s][o])
         IN  /\ \/ there = here
                \/ /\ o = op[c].obj /\ pc[c] \in {"sent", "exited"}
                   /\ there \o op[c].content = here
             /\ o = op[c].obj =>
                  /\ rpc[c][s] = "sent" => there \o op[c].content = here
                  /\ pc[c] = "sent" /\ rpc[c][s] = "done" => there = here

(* With appends only: the checker, were it given clients for hosts, is     *)
(* between two lines, and has seen no number of an appender that is still  *)
(* to come.                                                                *)
ToCome(c, s, o) ==
  /\ op[c].kind = "Append" /\ op[c].obj = o
  /\ pc[c] = "called" \/ rpc[c][s] = "sent"

LinesInv(s, o) ==
  files[s][o] # NoFile =>
    LET st == Check!Scan(files[s][o]) IN
    /\ st = [seqno |-> st.seqno, t2 |-> <<>>, printed |-> {}]
    /\ \A c \in DOMAIN st.seqno :
         /\ c \in Clients /\ "Append" \in scenario.kinds[c]
         /\ st.seqno[c] \in 0 .. seqno[c] - 1
         /\ ToCome(c, s, o) => st.seqno[c] < seqno[c] - 1

(* With one writer: where its request is says what each replica has.       *)
PeerInv(c, s) ==
  LET here  == HomeFile(c)
      there == files[s][op[c].obj]
  IN  IF op[c].kind = "Put"
      THEN /\ here = op[c].content
           /\ rpc[c][s] = "truncated" => there = <<>>
           /\ rpc[c][s] = "done" => there = op[c].content
      ELSE /\ rpc[c][s] = "sent" => AppendTo(there, op[c].content) = here
           /\ rpc[c][s] = "done" => there = here

WriterInv(c) ==
  c \notin early /\ OnlyWriter(c) =>
    /\ pc[c] \in {"idle", "called", "sized", "done"} =>
         \A s, t \in Servers : files[s] = files[t]
    /\ pc[c] \in {"truncated", "sent"} =>
         \A s, t \in Servers, o \in Objects : o # op[c].obj => files[s][o] = files[t][o]
    /\ pc[c] = "truncated" => HomeFile(c) = <<>>
    /\ pc[c] = "sent" => \A s \in Peers(c) : rpc[c][s] # "none" /\ PeerInv(c, s)

CrashInv ==
  /\ CrashTypeOK
  /\ \A c \in Clients : RequestInv(c)
  /\ JoinInv /\ AddServersInv /\ ProxyInv
  /\ AppendsOnly =>
       /\ \A c \in Clients : GetInv(c) /\ AppendInv(c)
       /\ \A s \in Servers, o \in Objects : LinesInv(s, o)
  /\ \A c \in Clients : WriterInv(c)
=============================================================================
