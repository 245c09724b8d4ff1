---------------------------- MODULE RepPartial -----------------------------
(***************************************************************************)
(* server/container-rep-partial.cpp: redis has, of each object, the hosts  *)
(* that store it and its path.  Get and Append go to the nearest of the    *)
(* first two hosts, or by it to all of them.  Put asks for a random server *)
(* and always has the last, as the cases of getHostName fall through.  Two *)
(* commands of Put read the key "%" for that of the hosts, and C2S_Put     *)
(* then reads the hosts where it says that it sets them.                   *)
(*                                                                         *)
(* A peer is found by the fourth word of its endpoint.  That is its host   *)
(* if FleCS.Endpoints names one (-h flecs12 -p 10000); of the "-p 10000"   *)
(* of config.server it is the port, and then no peer is ever found.        *)
(***************************************************************************)
EXTENDS Requests

VARIABLE named  (* FleCS.Endpoints names the host; no step changes it *)

HostID == [flecs12 |-> 0, flecs22 |-> 1, flecs52 |-> 2]

(* getHostName(getRand()) *)
PutHost == "flecs52"

Distance(s, t) ==
  IF HostID[s] < HostID[t] THEN HostID[t] - HostID[s] ELSE HostID[s] - HostID[t]

HostFromEP(s) == IF named THEN s ELSE "10000"

PeersAt(c, hosts) == {s \in Peers(c) : HostFromEP(s) \in hosts}

(* getNearestHost looks at two hosts; with one, strtok returns null and    *)
(* the process ends.                                                       *)
NearestHost(local, hosts) ==
  IF Distance(local, hosts[1]) < Distance(local, hosts[2]) THEN hosts[1] ELSE hosts[2]

(* Variant: getNearestHost asks strtok for a third host. *)
OneOrTwoHosts == redis.hosts # Missing /\ Len(redis.hosts) <= 2

OneHost  == redis.hosts # Missing /\ Len(redis.hosts) = 1
TwoHosts == redis.hosts # Missing /\ Len(redis.hosts) > 1

LocationSet == [redis EXCEPT !.location = "stg_root_dir/rep-partial/obj"]

Looks(c)  == \E k \in {"Get", "Append"} : InBody(c, "rep-partial", k)
Stores(c) == InBody(c, "rep-partial", "Put") /\ Home[c] = PutHost
Local(c) == NearestHost(Home[c], redis.hosts) = Home[c]

(* A command without a connection returns null.  C2S_Put always connects,  *)
(* but uses redis only at the server that is to store the object.          *)
PartialFails(c) ==
  /\ Looks(c) \/ Stores(c)
  /\ ~Connected(Home[c]) \/ (Looks(c) /\ OneHost)
  /\ Connect(Home[c])
  /\ Die(Home[c])
  /\ UNCHANGED <<kind, seqno, got, files, redis>>

(* The string of a missing key is constructed from null: logic_error. *)
NoKey(c) ==
  \/ Looks(c) /\ redis.hosts = Missing
  \/ Looks(c) /\ TwoHosts /\ Local(c) /\ redis.location = Missing
  \/ Stores(c) /\ redis.percent = Missing

PartialThrows(c) ==
  /\ Connected(Home[c]) /\ NoKey(c)
  /\ Connect(Home[c])
  /\ Throw(c)
  /\ UNCHANGED <<kind, seqno, got, files, redis>>

Finds(c, k) ==
  /\ InBody(c, "rep-partial", k)
  /\ Connected(Home[c]) /\ TwoHosts /\ ~NoKey(c)
  /\ Connect(Home[c])

(* _readfile, _writefile or _appendfile cannot open the file here. *)
PartialOpensNothing(c) ==
  /\ \/ \E k \in {"Get", "Append"} :
          /\ Finds(c, k) /\ Local(c)
          /\ ~OpensConnected(Home[c]) \/ (k = "Get" /\ File(c, Home[c]) = NoFile)
          /\ UNCHANGED redis
     \/ /\ Stores(c) /\ Connected(Home[c]) /\ ~NoKey(c)
        /\ Connect(Home[c])
        /\ ~OpensConnected(Home[c])
        /\ redis' = LocationSet
  /\ Throw(c)
  /\ UNCHANGED <<kind, seqno, got, files>>

PartialGetLocal(c) ==
  /\ Finds(c, "Get") /\ Local(c) /\ OpensConnected(Home[c])
  /\ File(c, Home[c]) # NoFile
  /\ got' = [got EXCEPT ![c] = File(c, Home[c])]
  /\ Return(c)
  /\ UNCHANGED <<kind, seqno, files, redis>>

PartialGet(c) ==
  /\ Finds(c, "Get") /\ ~Local(c)
  /\ StartThreads(c, PeersAt(c, {NearestHost(Home[c], redis.hosts)}))
  /\ got' = [got EXCEPT ![c] = <<>>]
  /\ UNCHANGED <<kind, seqno, files, redis>>

PartialAppendLocal(c) ==
  /\ Finds(c, "Append") /\ Local(c) /\ OpensConnected(Home[c])
  /\ SetFile(c, Home[c], AppendTo(File(c, Home[c]), Content(c)))
  /\ Return(c)
  /\ UNCHANGED <<kind, seqno, got, redis>>

Hosts == {redis.hosts[i] : i \in DOMAIN redis.hosts}

(* Variant: an Append goes to the first host only. *)
PartialAppendFirst(c) ==
  /\ Finds(c, "Append") /\ ~Local(c)
  /\ StartThreads(c, PeersAt(c, {redis.hosts[1]}))
  /\ UNCHANGED <<kind, seqno, got, files, redis>>

PartialAppend(c) ==
  /\ Finds(c, "Append") /\ ~Local(c)
  /\ StartThreads(c, PeersAt(c, Hosts))
  /\ UNCHANGED <<kind, seqno, got, files, redis>>

PartialPutLocal(c) ==
  /\ Stores(c)
  /\ Connected(Home[c]) /\ ~NoKey(c) /\ OpensConnected(Home[c])
  /\ Connect(Home[c])
  /\ redis' = LocationSet
  /\ SetFile(c, Home[c], Replaced(c, Home[c]))
  /\ Return(c)
  /\ UNCHANGED <<kind, seqno, got>>

PartialPut(c) ==
  /\ InBody(c, "rep-partial", "Put") /\ Home[c] # PutHost
  /\ Connect(Home[c])
  /\ StartThreads(c, PeersAt(c, {PutHost}))
  /\ UNCHANGED <<kind, seqno, got, files, redis>>

(* redis has the host, whether the file can be opened or not. *)
PartialS2SPut(c, s) ==
  /\ AtPeer(c, s, "rep-partial", "Put")
  /\ Connected(s) /\ redis.percent # Missing
  /\ Connect(s)
  /\ redis' = [LocationSet EXCEPT !.hosts = Append(redis.percent, s)]
  /\ \/ OpensConnected(s) /\ SetFile(c, s, Replaced(c, s)) /\ PeerEnds(c, s, "done")
     \/ ~OpensConnected(s) /\ UNCHANGED files /\ PeerEnds(c, s, "failed")
  /\ UNCHANGED <<kind, seqno, got>>

PartialS2SPutFails(c, s) ==
  /\ AtPeer(c, s, "rep-partial", "Put")
  /\ Connect(s)
  /\ IF Connected(s)
     THEN redis.percent = Missing /\ PeerEnds(c, s, "failed")
     ELSE Die(s)
  /\ UNCHANGED <<kind, seqno, got, files, redis>>

PartialS2SAppend(c, s) ==
  /\ AtPeer(c, s, "rep-partial", "Append") /\ Opens(s)
  /\ SetFile(c, s, AppendTo(File(c, s), Content(c)))
  /\ PeerEnds(c, s, "done")
  /\ UNCHANGED <<kind, seqno, got, redis, descriptors>>

PartialS2SGet(c, s) ==
  /\ AtPeer(c, s, "rep-partial", "Get") /\ Opens(s)
  /\ File(c, s) # NoFile
  /\ got' = [got EXCEPT ![c] = File(c, s)]
  /\ PeerEnds(c, s, "done")
  /\ UNCHANGED <<kind, seqno, files, redis, descriptors>>

PartialS2SThrows(c, s) ==
  /\ \E k \in {"Get", "Append"} :
       /\ AtPeer(c, s, "rep-partial", k)
       /\ ~Opens(s) \/ (k = "Get" /\ File(c, s) = NoFile)
  /\ PeerEnds(c, s, "failed")
  /\ UNCHANGED <<kind, seqno, got, files, redis, descriptors>>

PartialStep(c) ==
  \/ PartialFails(c) \/ PartialThrows(c) \/ PartialOpensNothing(c)
  \/ PartialGetLocal(c) \/ PartialGet(c)
  \/ PartialAppendLocal(c) \/ PartialAppend(c)
  \/ PartialPutLocal(c) \/ PartialPut(c)
  \/ \E s \in Servers : \/ PartialS2SPut(c, s) \/ PartialS2SPutFails(c, s)
                        \/ PartialS2SAppend(c, s) \/ PartialS2SGet(c, s)
                        \/ PartialS2SThrows(c, s)
=============================================================================
