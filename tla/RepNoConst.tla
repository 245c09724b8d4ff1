----------------------------- MODULE RepNoConst -----------------------------
(***************************************************************************)
(* Replication without consistency (server/container-rep-no-const.cpp) as  *)
(* the clients of several servers use it: C2SI and SM2SI hand each request *)
(* to the container, which executes it on the local file and, for a write, *)
(* starts one PutThread or AppendThread per peer and joins them all before *)
(* it returns.                                                             *)
(*                                                                         *)
(* A client makes one call at a time to its own server, so the request in  *)
(* progress is known by its client.  The threads of one server that write  *)
(* to one peer share a connection, whose requests the peer executes one at *)
(* a time (config.server: Ice.ThreadPool.Server.Serialize=1).  These are   *)
(* the steps while all servers have joined and stay up, so that every      *)
(* server is in every other's peer_servers: RepNoConstCrash makes them     *)
(* a specification in which servers die and come back, RepStrongConst one  *)
(* in which every object has a lock.                                       *)
(***************************************************************************)
EXTENDS FileOps

CONSTANTS
  Clients,    (* client processes, one request each at a time *)
  Servers,
  Home,       (* the server each client calls *)
  Objects,    (* bucketID/objID *)
  Kinds,      (* the operations each client makes: "Get", "Put", "Append" *)
  Sizes,      (* how many chunks a write may have *)
  MaxWrites,  (* bound on the writes of one client *)
  Initial     (* the writer of what a file holds at first *)

ASSUME ConfigAssumption ==
  /\ Servers # {} /\ Objects # {}
  /\ Initial \notin Clients
  /\ Home \in [Clients -> Servers]
  /\ Kinds \in [Clients -> SUBSET {"Get", "Put", "Append"}]
  /\ Sizes \subseteq Nat \ {0}
  /\ MaxWrites \in Nat

VARIABLES
  files,  (* each server's file of each object *)
  pc,     (* where each client's request is in C2S_Get, C2S_Put, C2S_Append *)
  op,     (* its kind, object and content *)
  size,   (* the size that _readfile got from tellg() *)
  got,    (* the content that the last Get returned, or NoFile *)
  rpc,    (* the state of its S2S call to each server, or "none" *)
  seqno   (* the writes made so far: _Append's static seqno *)

repVars == <<files, pc, op, size, got, rpc, seqno>>

Peers(c) == Servers \ {Home[c]}

(* A chunk is one of the tokens "host.seqno " that an append repeats, or   *)
(* an initial line of zeros; eol says that a newline follows it.           *)
Zeros       == [client |-> Initial, n |-> 0, eol |-> TRUE]
Chunk       == [client : Clients, n : Nat, eol : BOOLEAN] \cup {Zeros}
Dataset     == [Objects -> {NoFile, <<Zeros>>}]
Write(c, k) == [i \in 1 .. k |-> [client |-> c, n |-> seqno[c], eol |-> i = k]]

Init ==
  /\ \E f \in Dataset : files = [s \in Servers |-> f]
  /\ pc = [c \in Clients |-> "idle"]
  /\ op = [c \in Clients |->
             [kind |-> "Get", obj |-> CHOOSE o \in Objects : TRUE, content |-> <<>>]]
  /\ size = [c \in Clients |-> 0]
  /\ got = [c \in Clients |-> NoFile]
  /\ rpc = [c \in Clients |-> [s \in Servers |-> "none"]]
  /\ seqno = [c \in Clients |-> 0]

SetFile(s, o, content) == files' = [files EXCEPT ![s][o] = content]
HomeFile(c)            == files[Home[c]][op[c].obj]
Goto(c, from, to)      == pc[c] = from /\ pc' = [pc EXCEPT ![c] = to]
-----------------------------------------------------------------------------
(* The client calls: C2SI::Get, Put or Append starts. *)
CallGet(c, o) ==
  /\ "Get" \in Kinds[c]
  /\ Goto(c, "idle", "called")
  /\ op' = [op EXCEPT ![c] = [kind |-> "Get", obj |-> o, content |-> <<>>]]
  /\ UNCHANGED <<files, size, got, rpc, seqno>>

CallWrite(c, o, kind, k) ==
  /\ kind \in Kinds[c]
  /\ seqno[c] < MaxWrites
  /\ Goto(c, "idle", "called")
  /\ op' = [op EXCEPT ![c] = [kind |-> kind, obj |-> o, content |-> Write(c, k)]]
  /\ seqno' = [seqno EXCEPT ![c] = @ + 1]
  /\ UNCHANGED <<files, size, got, rpc>>

(* C2S_Get: _readfile opens the file and asks for its size, or throws. *)
ReadSize(c) ==
  /\ op[c].kind = "Get"
  /\ HomeFile(c) # NoFile
  /\ Goto(c, "called", "sized")
  /\ size' = [size EXCEPT ![c] = Len(HomeFile(c))]
  /\ UNCHANGED <<files, op, got, rpc, seqno>>

ReadFails(c) ==
  /\ op[c].kind = "Get"
  /\ HomeFile(c) = NoFile
  /\ Goto(c, "called", "done")
  /\ got' = [got EXCEPT ![c] = NoFile]
  /\ UNCHANGED <<files, op, size, rpc, seqno>>

(* C2S_Get: _readfile reads. *)
ReadData(c) ==
  /\ Goto(c, "sized", "done")
  /\ got' = [got EXCEPT ![c] = ReadBuffer(HomeFile(c), size[c])]
  /\ size' = [size EXCEPT ![c] = 0]
  /\ UNCHANGED <<files, op, rpc, seqno>>

(* Variant: the server is among its own peers. *)
StartThreadsEverywhere(c) == rpc' = [rpc EXCEPT ![c] = [s \in Servers |-> "sent"]]

(* The parallel threads start when the local file is written. *)
StartThreads(c) ==
  rpc' = [rpc EXCEPT ![c] = [s \in Servers |-> IF s \in Peers(c) THEN "sent" ELSE "none"]]

(* C2S_Put: _writefile on the local file. *)
LocalTruncate(c) ==
  /\ op[c].kind = "Put"
  /\ Goto(c, "called", "truncated")
  /\ SetFile(Home[c], op[c].obj, Truncate(HomeFile(c)))
  /\ UNCHANGED <<op, size, got, rpc, seqno>>

LocalWrite(c) ==
  /\ Goto(c, "truncated", "sent")
  /\ SetFile(Home[c], op[c].obj, WriteAtStart(HomeFile(c), op[c].content))
  /\ StartThreads(c)
  /\ UNCHANGED <<op, size, got, seqno>>

(* C2S_Append: _appendfile on the local file. *)
LocalAppend(c) ==
  /\ op[c].kind = "Append"
  /\ Goto(c, "called", "sent")
  /\ SetFile(Home[c], op[c].obj, AppendTo(HomeFile(c), op[c].content))
  /\ StartThreads(c)
  /\ UNCHANGED <<op, size, got, seqno>>

(* The connection from c's server to s has no request being executed. *)
ConnectionFree(c, s) ==
  \A d \in Clients : Home[d] = Home[c] => rpc[d][s] # "truncated"

SetRpc(c, s, from, to) ==
  rpc[c][s] = from /\ rpc' = [rpc EXCEPT ![c][s] = to]

(* SM2SI::Put at peer s: S2S_Put. *)
PeerTruncate(c, s) ==
  /\ op[c].kind = "Put"
  /\ ConnectionFree(c, s)
  /\ SetRpc(c, s, "sent", "truncated")
  /\ SetFile(s, op[c].obj, Truncate(files[s][op[c].obj]))
  /\ UNCHANGED <<pc, op, size, got, seqno>>

PeerWrite(c, s) ==
  /\ SetRpc(c, s, "truncated", "done")
  /\ SetFile(s, op[c].obj, WriteAtStart(files[s][op[c].obj], op[c].content))
  /\ UNCHANGED <<pc, op, size, got, seqno>>

(* Variant: the call may be repeated although the peer has executed it. *)
PeerAppendRetried(c, s) ==
  /\ op[c].kind = "Append"
  /\ ConnectionFree(c, s)
  /\ SetRpc(c, s, "sent", "sent") \/ SetRpc(c, s, "sent", "done")
  /\ SetFile(s, op[c].obj, AppendTo(files[s][op[c].obj], op[c].content))
  /\ UNCHANGED <<pc, op, size, got, seqno>>

(* SM2SI::Append at peer s: S2S_Append. *)
PeerAppend(c, s) ==
  /\ op[c].kind = "Append"
  /\ ConnectionFree(c, s)
  /\ SetRpc(c, s, "sent", "done")
  /\ SetFile(s, op[c].obj, AppendTo(files[s][op[c].obj], op[c].content))
  /\ UNCHANGED <<pc, op, size, got, seqno>>

(* Variant: the threads are not joined; the last of them are cut off. *)
JoinNoThreads(c) ==
  /\ Goto(c, "sent", "done")
  /\ rpc' = [rpc EXCEPT ![c] = [s \in Servers |-> "none"]]
  /\ UNCHANGED <<files, op, size, got, seqno>>

(* C2S_Put, C2S_Append: every thread has been joined. *)
JoinThreads(c) ==
  /\ \A s \in Peers(c) : rpc[c][s] = "done"
  /\ Goto(c, "sent", "done")
  /\ rpc' = [rpc EXCEPT ![c] = [s \in Servers |-> "none"]]
  /\ UNCHANGED <<files, op, size, got, seqno>>

(* The request returns to the client. *)
Reply(c) ==
  /\ Goto(c, "done", "idle")
  /\ UNCHANGED <<files, op, size, got, rpc, seqno>>

Call(c) ==
  \E o \in Objects :
    \/ CallGet(c, o)
    \/ \E kind \in {"Put", "Append"}, k \in Sizes : CallWrite(c, o, kind, k)

Execute(c) ==
  \/ ReadSize(c) \/ ReadFails(c) \/ ReadData(c)
  \/ LocalTruncate(c) \/ LocalWrite(c) \/ LocalAppend(c)
  \/ \E s \in Servers : PeerTruncate(c, s) \/ PeerWrite(c, s) \/ PeerAppend(c, s)
  \/ JoinThreads(c)
-----------------------------------------------------------------------------
TypeOK ==
  /\ files \in [Servers -> [Objects -> Seq(Chunk) \cup {NoFile}]]
  /\ pc \in [Clients -> {"idle", "called", "sized", "truncated", "sent", "done"}]
  /\ op \in [Clients -> [kind : {"Get", "Put", "Append"}, obj : Objects,
                         content : Seq(Chunk)]]
  /\ size \in [Clients -> Nat]
  /\ got \in [Clients -> Seq(Chunk \cup {Garbage}) \cup {NoFile}]
  /\ rpc \in [Clients -> [Servers -> {"none", "sent", "truncated", "done"}]]
  /\ \A c \in Clients : rpc[c][Home[c]] = "none"
  /\ seqno \in [Clients -> Nat]
=================================================================
