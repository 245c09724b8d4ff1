------------------------------ MODULE RepRedis ------------------------------
(***************************************************************************)
(* server/container-rep-redis.cpp: redis has the path of an object, which  *)
(* its first Put sets; all servers have a copy of the file.  A command to  *)
(* a redis that was not connected to returns null, and so does the string  *)
(* of a key that is missing; each is then used and ends the process.  Each *)
(* function uses up a descriptor for its connection, so a server that runs *)
(* long enough ends by this too: see Requests.  (The code names the host   *)
(* "REDIS_HOST ", a name that has to be resolvable for redis to be up.)    *)
(***************************************************************************)
EXTENDS Requests

PathSet == [redis EXCEPT !.path = "stg_root_dir/rep-redis/obj"]

RedisFails(c) ==
  /\ \E k \in Kinds :
       /\ InBody(c, "rep-redis", k)
       /\ ~Connected(Home[c]) \/ (k # "Put" /\ redis.path = Missing)
  /\ Connect(Home[c])
  /\ Die(Home[c])
  /\ UNCHANGED <<kind, seqno, got, files, redis>>

(* Connect; the commands are answered. *)
RedisAnswers(c, k) ==
  /\ InBody(c, "rep-redis", k)
  /\ Connected(Home[c])
  /\ k = "Put" \/ redis.path # Missing
  /\ Connect(Home[c])

(* _readfile, _writefile or _appendfile cannot open the file. *)
RedisThrows(c) ==
  /\ \E k \in Kinds :
       /\ RedisAnswers(c, k)
       /\ \/ ~OpensConnected(Home[c])
          \/ k = "Get" /\ File(c, Home[c]) = NoFile
       /\ redis' = IF k = "Put" THEN PathSet ELSE redis
  /\ Throw(c)
  /\ UNCHANGED <<kind, seqno, got, files>>

RedisGet(c) ==
  /\ RedisAnswers(c, "Get") /\ OpensConnected(Home[c])
  /\ File(c, Home[c]) # NoFile
  /\ got' = [got EXCEPT ![c] = File(c, Home[c])]
  /\ Return(c)
  /\ UNCHANGED <<kind, seqno, files, redis>>

RedisPut(c) ==
  /\ RedisAnswers(c, "Put") /\ OpensConnected(Home[c])
  /\ redis' = PathSet
  /\ SetFile(c, Home[c], Replaced(c, Home[c]))
  /\ StartThreads(c, Peers(c))
  /\ UNCHANGED <<kind, seqno, got>>

(* Variant: like rep-partial, the nearest copy only is updated. *)
RedisAppendLocal(c) ==
  /\ RedisAnswers(c, "Append") /\ OpensConnected(Home[c])
  /\ SetFile(c, Home[c], AppendTo(File(c, Home[c]), Content(c)))
  /\ Return(c)
  /\ UNCHANGED <<kind, seqno, got, redis>>

RedisAppend(c) ==
  /\ RedisAnswers(c, "Append") /\ OpensConnected(Home[c])
  /\ SetFile(c, Home[c], AppendTo(File(c, Home[c]), Content(c)))
  /\ StartThreads(c, Peers(c))
  /\ UNCHANGED <<kind, seqno, got, redis>>

RedisS2SPut(c, s) ==
  /\ AtPeer(c, s, "rep-redis", "Put") /\ Opens(s)
  /\ SetFile(c, s, Replaced(c, s))
  /\ PeerEnds(c, s, "done")
  /\ UNCHANGED <<kind, seqno, got, redis, descriptors>>

RedisS2SAppend(c, s) ==
  /\ AtPeer(c, s, "rep-redis", "Append") /\ Opens(s)
  /\ SetFile(c, s, AppendTo(File(c, s), Content(c)))
  /\ PeerEnds(c, s, "done")
  /\ UNCHANGED <<kind, seqno, got, redis, descriptors>>

RedisS2SThrows(c, s) ==
  /\ \E k \in {"Put", "Append"} : AtPeer(c, s, "rep-redis", k) /\ ~Opens(s)
  /\ PeerEnds(c, s, "failed")
  /\ UNCHANGED <<kind, seqno, got, files, redis, descriptors>>

RedisStep(c) ==
  \/ RedisFails(c) \/ RedisThrows(c) \/ RedisGet(c) \/ RedisPut(c) \/ RedisAppend(c)
  \/ \E s \in Servers : RedisS2SPut(c, s) \/ RedisS2SAppend(c, s) \/ RedisS2SThrows(c, s)
=============================================================================
