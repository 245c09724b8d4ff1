------------------------ MODULE RepStrongConstProofs ------------------------
(***************************************************************************)
(* Proofs about RepStrongConst, for any clients, servers and objects, any  *)
(* assignment of clients to servers and any number and size of writes.     *)
(***************************************************************************)
EXTENDS RepStrongConst, TLAPS

(* The file helpers on files as the containers use them. *)
LEMMA WriteToEmpty ==
  ASSUME NEW S, NEW content \in Seq(S)
  PROVE  WriteAtStart(<<>>, content) = content
BY DEF WriteAtStart

LEMMA AppendToType ==
  ASSUME NEW S, NEW file \in Seq(S) \cup {NoFile}, NEW content \in Seq(S)
  PROVE  AppendTo(file, content) \in Seq(S)
BY DEF AppendTo

LEMMA ReadWhole ==
  ASSUME NEW S, NEW file \in Seq(S)
  PROVE  ReadBuffer(file, Len(file)) = file
BY DEF ReadBuffer

(* Two requests never own the same lock. *)
LEMMA OneOwner ==
  ASSUME NEW c \in Clients, NEW d \in Clients, Locked(c), Locked(d), c # d
  PROVE  op[c].obj # op[d].obj
BY DEF Locked

LEMMA WriteType ==
  ASSUME TypeOK, NEW c \in Clients, NEW k \in Sizes
  PROVE  Write(c, k) \in Seq(Chunk)
<1>1. k \in Nat
  BY ConfigAssumption
<1>2. \A i \in 1 .. k : [client |-> c, n |-> seqno[c], eol |-> i = k] \in Chunk
  BY DEF TypeOK, Chunk
<1> QED
  BY <1>1, <1>2 DEF Write

-----------------------------------------------------------------------------
LEMMA InitIInv == InitStrong => IInv
<1> SUFFICES ASSUME InitStrong PROVE IInv
  OBVIOUS
<1> USE DEF InitStrong, Init
<1>1. PICK f \in Dataset : files = [s \in Servers |-> f]
  OBVIOUS
<1>2. f \in [Objects -> Seq(Chunk) \cup {NoFile}]
  <2>1. Zeros \in Chunk
    BY DEF Chunk, Zeros
  <2>2. <<Zeros>> \in Seq(Chunk)
    BY <2>1
  <2> QED
    BY <2>2 DEF Dataset
<1>3. TypeOK
  <2>1. (CHOOSE o \in Objects : TRUE) \in Objects
    BY ConfigAssumption
  <2>2. op \in [Clients -> [kind : {"Get", "Put", "Append"}, obj : Objects,
                            content : Seq(Chunk)]]
    BY <2>1
  <2> QED
    BY <1>1, <1>2, <2>2, ConfigAssumption DEF TypeOK
<1>4. holder = [o \in Objects |-> None]
  BY DEF Lock!Init
<1>5. \A c \in Clients : ~Locked(c)
  BY <1>3, <1>4, NoneAssumption DEF Locked, TypeOK
<1>6. ASSUME NEW c \in Clients
      PROVE  RequestInv(c)
  BY <1>4, <1>5, NoneAssumption DEF RequestInv, LockScope, ThreadsInCall, SizeIsCurrent
<1>7. ReplicasAgree
  BY <1>1 DEF ReplicasAgree
<1> QED
  BY <1>3, <1>4, <1>6, <1>7 DEF IInv, StrongTypeOK

-----------------------------------------------------------------------------
(* What a step of client c's request may touch: its own part of the state  *)
(* and the files and the lock of the object it owns.                       *)
StepOf(c) ==
  /\ \A d \in Clients \ {c} :
       /\ pc'[d] = pc[d] /\ op'[d] = op[d]
       /\ rpc'[d] = rpc[d] /\ size'[d] = size[d]
       /\ \A o \in Objects : holder'[o] = d <=> holder[o] = d
  /\ \A s \in Servers, o \in Objects :
       holder[o] # c => files'[s][o] = files[s][o]

(* ... so it disturbs no other request, nor an object that is not c's. *)
LEMMA OthersKept ==
  ASSUME IInv, NEW c \in Clients, StepOf(c)
  PROVE  /\ \A d \in Clients \ {c} : RequestInv(d)'
         /\ \A o \in Objects, s, t \in Servers :
              holder'[o] = None /\ holder[o] # c => files'[s][o] = files'[t][o]
<1> USE DEF IInv, StrongTypeOK, TypeOK
<1>1. ASSUME NEW d \in Clients \ {c}
      PROVE  RequestInv(d)'
  <2>1. RequestInv(d) /\ op[d].obj \in Objects /\ Home[d] \in Servers
    BY ConfigAssumption
  <2>2. /\ pc'[d] = pc[d] /\ op'[d] = op[d] /\ rpc'[d] = rpc[d]
        /\ size'[d] = size[d]
        /\ \A o \in Objects : holder'[o] = d <=> holder[o] = d
        /\ Locked(d)' <=> Locked(d)
    BY <2>1 DEF StepOf, Locked
  <2>3. LockScope(d)' /\ ThreadsInCall(d)'
    BY <2>1, <2>2 DEF RequestInv, LockScope, ThreadsInCall, Peers
  <2>4. ASSUME Locked(d)
        PROVE  \A s \in Servers : files'[s][op[d].obj] = files[s][op[d].obj]
    BY <2>1, <2>4 DEF StepOf, Locked
  <2>5. ASSUME Locked(d)', NEW s \in Servers
        PROVE  OnTheWay(d, s)'
    BY <2>1, <2>2, <2>4, <2>5 DEF RequestInv, OnTheWay, HomeFile
  <2>6. SizeIsCurrent(d)'
    BY <2>1, <2>2, <2>4 DEF RequestInv, SizeIsCurrent, LockScope, HomeFile
  <2> QED
    BY <2>3, <2>5, <2>6 DEF RequestInv
<1>2. ASSUME NEW o \in Objects, NEW s \in Servers, NEW t \in Servers,
             holder'[o] = None, holder[o] # c
      PROVE  files'[s][o] = files'[t][o]
  <2>1. holder[o] = None
    BY <1>2, NoneAssumption DEF StepOf
  <2> QED
    BY <1>2, <2>1 DEF StepOf, ReplicasAgree
<1> QED
  BY <1>1, <1>2

(* It suffices that the request keeps its own part. *)
LEMMA OwnPart ==
  ASSUME IInv, NEW c \in Clients, StepOf(c), StrongTypeOK', RequestInv(c)',
         \A o \in Objects : holder[o] = c => holder'[o] # None
  PROVE  IInv'
BY OthersKept DEF IInv, ReplicasAgree

-----------------------------------------------------------------------------
(* A call: the client has no lock. *)
LEMMA CallKeepsIInv ==
  ASSUME IInv, NEW c \in Clients, CallStrong(c)
  PROVE  StepOf(c) /\ IInv'
<1>0. TypeOK /\ StrongTypeOK /\ RequestInv(c)
  BY DEF IInv, StrongTypeOK
<1> DEFINE Calls(o, kind, content) ==
             /\ op' = [op EXCEPT ![c] = [kind |-> kind, obj |-> o, content |-> content]]
             /\ pc[c] = "idle" /\ pc' = [pc EXCEPT ![c] = "called"]
             /\ UNCHANGED <<files, size, got, rpc, holder>>
             /\ seqno' \in [Clients -> Nat]
<1>1. PICK o \in Objects, kind \in {"Get", "Put", "Append"}, content \in Seq(Chunk) :
         Calls(o, kind, content)
  <2>1. ASSUME NEW o \in Objects, CallGet(c, o)
        PROVE  Calls(o, "Get", <<>>)
    BY <1>0, <2>1 DEF CallStrong, CallGet, Goto, TypeOK
  <2>2. ASSUME NEW o \in Objects, NEW kind \in {"Put", "Append"}, NEW k \in Sizes,
               CallWrite(c, o, kind, k)
        PROVE  Calls(o, kind, Write(c, k))
    BY <1>0, <2>2 DEF CallStrong, CallWrite, Goto, TypeOK
  <2>3. \A k \in Sizes : Write(c, k) \in Seq(Chunk)
    BY <1>0, WriteType
  <2>4. <<>> \in Seq(Chunk)
    OBVIOUS
  <2> HIDE DEF Calls
  <2> QED
    BY <2>1, <2>2, <2>3, <2>4 DEF CallStrong, Call
<1>2. StrongTypeOK'
  BY <1>0, <1>1 DEF StrongTypeOK, TypeOK
<1>3. StepOf(c)
  BY <1>0, <1>1 DEF StepOf, StrongTypeOK, TypeOK
<1>4. \A p \in Objects : holder[p] # c
  BY <1>0, <1>1 DEF RequestInv, LockScope
<1>5. RequestInv(c)'
  BY <1>0, <1>1, <1>4 DEF RequestInv, LockScope, ThreadsInCall, SizeIsCurrent,
                          Locked, TypeOK
<1> QED
  BY <1>2, <1>3, <1>4, <1>5, OwnPart

(* The lock is granted: all replicas are the same, as in "called". *)
LEMMA AcquireKeepsIInv ==
  ASSUME IInv, NEW c \in Clients, AcquireLock(c)
  PROVE  StepOf(c) /\ IInv'
<1>0. StrongTypeOK /\ TypeOK /\ RequestInv(c) /\ ReplicasAgree
  BY DEF IInv, StrongTypeOK
<1>1. PICK o \in Objects : o = op[c].obj
  BY <1>0 DEF TypeOK
<1>2. /\ pc[c] = "called" /\ holder[o] = None
      /\ holder' = [holder EXCEPT ![o] = c]
      /\ UNCHANGED <<files, pc, op, size, got, rpc, seqno>>
  BY <1>1 DEF AcquireLock, Lock!Grant, repVars
<1>3. StrongTypeOK'
  BY <1>0, <1>2 DEF StrongTypeOK, TypeOK
<1>4. StepOf(c)
  BY <1>0, <1>2, NoneAssumption DEF StepOf, StrongTypeOK
<1>5. LockScope(c)' /\ ThreadsInCall(c)' /\ SizeIsCurrent(c)'
  BY <1>0, <1>1, <1>2 DEF RequestInv, LockScope, ThreadsInCall, SizeIsCurrent,
                          StrongTypeOK, Peers
<1>6. ASSUME NEW s \in Servers
      PROVE  OnTheWay(c, s)'
  BY <1>0, <1>1, <1>2, ConfigAssumption DEF ReplicasAgree, OnTheWay, HomeFile
<1>7. \A p \in Objects : holder[p] = c => holder'[p] # None
  BY <1>0, <1>2, NoneAssumption DEF StrongTypeOK
<1> QED
  BY <1>3, <1>4, <1>5, <1>6, <1>7, OwnPart DEF RequestInv

(* The lock is given up: in "done" all replicas are the same. *)
LEMMA ReleaseKeepsIInv ==
  ASSUME IInv, NEW c \in Clients, ReleaseLock(c)
  PROVE  StepOf(c) /\ IInv'
<1>0. StrongTypeOK /\ TypeOK /\ RequestInv(c) /\ ReplicasAgree
  BY DEF IInv, StrongTypeOK
<1>1. PICK o \in Objects : o = op[c].obj
  BY <1>0 DEF TypeOK
<1>2. /\ pc[c] = "done" /\ holder[o] = c
      /\ holder' = [holder EXCEPT ![o] = None]
      /\ UNCHANGED <<files, pc, op, size, got, rpc, seqno>>
  BY <1>1 DEF ReleaseLock, Lock!Free, repVars
<1>3. StrongTypeOK'
  BY <1>0, <1>2 DEF StrongTypeOK, TypeOK
<1>4. StepOf(c)
  BY <1>0, <1>2, NoneAssumption DEF StepOf, StrongTypeOK
<1>5. \A p \in Objects : holder[p] = c => p = o
  BY <1>0, <1>1 DEF RequestInv, LockScope
<1>6. RequestInv(c)'
  BY <1>0, <1>1, <1>2, <1>5, NoneAssumption DEF RequestInv, LockScope,
     ThreadsInCall, SizeIsCurrent, StrongTypeOK, Locked, Peers
<1>7. \A s \in Servers : files[s][o] = HomeFile(c)
  BY <1>0, <1>1, <1>2 DEF RequestInv, OnTheWay, Locked
<1>8. ReplicasAgree'
  <2> SUFFICES ASSUME NEW p \in Objects, NEW s \in Servers, NEW t \in Servers,
                      holder'[p] = None
               PROVE  files'[s][p] = files'[t][p]
    BY DEF ReplicasAgree
  <2>1. CASE p = o
    BY <1>2, <1>7, <2>1
  <2>2. CASE p # o
    BY <1>4, <1>5, <2>2, OthersKept
  <2> QED
    BY <2>1, <2>2
<1> QED
  BY <1>3, <1>4, <1>6, <1>8, OthersKept DEF IInv

(* The answer: the client's request is over. *)
LEMMA ReplyKeepsIInv ==
  ASSUME IInv, NEW c \in Clients, ReplyStrong(c)
  PROVE  StepOf(c) /\ IInv'
<1>0. StrongTypeOK /\ TypeOK /\ RequestInv(c)
  BY DEF IInv, StrongTypeOK
<1>1. /\ pc[c] = "done" /\ pc' = [pc EXCEPT ![c] = "idle"]
      /\ UNCHANGED <<files, op, size, got, rpc, seqno, holder>>
      /\ ~Locked(c)
  BY DEF ReplyStrong, Reply, Goto
<1>2. \A p \in Objects : holder[p] # c
  BY <1>0, <1>1 DEF RequestInv, LockScope, Locked
<1>3. StrongTypeOK'
  BY <1>0, <1>1 DEF StrongTypeOK, TypeOK
<1>4. StepOf(c)
  BY <1>0, <1>1 DEF StepOf, TypeOK
<1>5. RequestInv(c)'
  BY <1>0, <1>1, <1>2 DEF RequestInv, LockScope, ThreadsInCall, SizeIsCurrent,
                          Locked, TypeOK, Peers
<1> QED
  BY <1>2, <1>3, <1>4, <1>5, OwnPart

-----------------------------------------------------------------------------
(* The body under the lock, one file access at a time. *)
LEMMA GetKeepsIInv ==
  ASSUME IInv, NEW c \in Clients, Locked(c), UNCHANGED holder,
         ReadSize(c) \/ ReadFails(c) \/ ReadData(c)
  PROVE  StepOf(c) /\ IInv'
<1>0. StrongTypeOK /\ TypeOK /\ RequestInv(c)
  BY DEF IInv, StrongTypeOK
<1>1. /\ pc[c] \in {"called", "sized"} /\ pc' \in [Clients -> {"idle", "called", "sized", "truncated", "sent", "done"}]
      /\ pc'[c] \in {"sized", "done"} /\ \A d \in Clients \ {c} : pc'[d] = pc[d]
      /\ UNCHANGED <<files, op, rpc, seqno, holder>>
      /\ pc'[c] = "sized" => op[c].kind = "Get"
  BY <1>0 DEF ReadSize, ReadFails, ReadData, Goto, TypeOK
<1>2. HomeFile(c) \in Seq(Chunk) \cup {NoFile}
  BY <1>0, ConfigAssumption DEF HomeFile, TypeOK
<1>3. got' \in [Clients -> Seq(Chunk \cup {Garbage}) \cup {NoFile}]
  <2>1. CASE ReadData(c)
    <3>1. pc[c] = "sized" /\ HomeFile(c) \in Seq(Chunk) /\ size[c] = Len(HomeFile(c))
      BY <1>0, <1>2, <2>1 DEF ReadData, Goto, RequestInv, SizeIsCurrent
    <3>2. ReadBuffer(HomeFile(c), size[c]) = HomeFile(c)
      BY <3>1, ReadWhole
    <3>3. HomeFile(c) \in Seq(Chunk \cup {Garbage})
      BY <3>1
    <3> QED
      BY <1>0, <2>1, <3>2, <3>3 DEF ReadData, TypeOK
  <2> QED
    BY <1>0, <2>1 DEF ReadSize, ReadFails, TypeOK
<1>4. /\ size' \in [Clients -> Nat] /\ \A d \in Clients \ {c} : size'[d] = size[d]
      /\ pc'[c] = "sized" => HomeFile(c) # NoFile /\ size'[c] = Len(HomeFile(c))
  <2>1. CASE ReadSize(c)
    <3>1. HomeFile(c) \in Seq(Chunk) /\ HomeFile(c) # NoFile
      BY <1>2, <2>1 DEF ReadSize
    <3>2. Len(HomeFile(c)) \in Nat
      BY <3>1
    <3> QED
      BY <1>0, <2>1, <3>1, <3>2 DEF ReadSize, TypeOK
  <2>2. CASE ReadFails(c)
    BY <1>0, <2>2 DEF ReadFails, Goto, TypeOK
  <2>3. CASE ReadData(c)
    BY <1>0, <2>3 DEF ReadData, Goto, TypeOK
  <2> QED
    BY <2>1, <2>2, <2>3
<1>5. StrongTypeOK'
  BY <1>0, <1>1, <1>3, <1>4 DEF StrongTypeOK, TypeOK
<1>6. StepOf(c)
  BY <1>1, <1>4 DEF StepOf
<1>7. LockScope(c)' /\ ThreadsInCall(c)' /\ SizeIsCurrent(c)'
  BY <1>0, <1>1, <1>4 DEF RequestInv, LockScope, ThreadsInCall, SizeIsCurrent,
                          Locked, Peers, HomeFile
<1>8. \A s \in Servers : OnTheWay(c, s)'
  BY <1>0, <1>1 DEF RequestInv, OnTheWay, HomeFile
<1>9. \A o \in Objects : holder[o] = c => holder'[o] # None
  BY NoneAssumption
<1> QED
  BY <1>5, <1>6, <1>7, <1>8, <1>9, OwnPart DEF RequestInv

(* A file changes at one server, in the object c has locked. *)
LEMMA SetFileFrame ==
  ASSUME TypeOK, NEW c \in Clients, Locked(c), NEW s \in Servers,
         NEW content \in Seq(Chunk), SetFile(s, op[c].obj, content)
  PROVE  /\ files' \in [Servers -> [Objects -> Seq(Chunk) \cup {NoFile}]]
         /\ files'[s][op[c].obj] = content
         /\ \A t \in Servers, o \in Objects :
              t # s \/ o # op[c].obj => files'[t][o] = files[t][o]
         /\ \A t \in Servers, o \in Objects :
              holder[o] # c => files'[t][o] = files[t][o]
<1>1. op[c].obj \in Objects
  BY DEF TypeOK
<1>2. /\ files' = [files EXCEPT ![s][op[c].obj] = content]
      /\ files \in [Servers -> [Objects -> Seq(Chunk) \cup {NoFile}]]
  BY DEF SetFile, TypeOK
<1>3. /\ files' \in [Servers -> [Objects -> Seq(Chunk) \cup {NoFile}]]
      /\ files'[s][op[c].obj] = content
      /\ \A t \in Servers, o \in Objects :
           t # s \/ o # op[c].obj => files'[t][o] = files[t][o]
  BY <1>1, <1>2
<1> QED
  BY <1>3 DEF Locked

(* The local write of a Put or an Append. *)
LEMMA LocalKeepsIInv ==
  ASSUME IInv, NEW c \in Clients, Locked(c), UNCHANGED holder,
         LocalTruncate(c) \/ LocalWrite(c) \/ LocalAppend(c)
  PROVE  StepOf(c) /\ IInv'
<1>0. StrongTypeOK /\ TypeOK /\ RequestInv(c)
  BY DEF IInv, StrongTypeOK
<1> DEFINE o == op[c].obj
           h == Home[c]
<1>1. /\ o \in Objects /\ h \in Servers /\ h \notin Peers(c)
      /\ HomeFile(c) = files[h][o]
      /\ HomeFile(c) \in Seq(Chunk) \cup {NoFile}
      /\ op[c].content \in Seq(Chunk)
  BY <1>0, ConfigAssumption DEF TypeOK, HomeFile, Peers
<1>2. \A p \in Objects : holder[p] = c => holder'[p] # None
  BY NoneAssumption
<1>3. CASE LocalTruncate(c)
  <2>1. /\ pc[c] = "called" /\ pc' = [pc EXCEPT ![c] = "truncated"]
        /\ op[c].kind = "Put" /\ SetFile(h, o, <<>>)
        /\ UNCHANGED <<op, size, got, rpc, seqno>>
    BY <1>3 DEF LocalTruncate, Goto, Truncate
  <2>2. /\ files' \in [Servers -> [Objects -> Seq(Chunk) \cup {NoFile}]]
        /\ files'[h][o] = <<>>
        /\ \A t \in Servers, p \in Objects : holder[p] # c => files'[t][p] = files[t][p]
    <3>1. <<>> \in Seq(Chunk)
      OBVIOUS
    <3>2. PICK content \in Seq(Chunk) : content = <<>>
      BY <3>1, Zenon
    <3>3. SetFile(h, o, content)
      BY <2>1, <3>2, Zenon
    <3>4. /\ files' \in [Servers -> [Objects -> Seq(Chunk) \cup {NoFile}]]
          /\ files'[h][o] = content
          /\ \A t \in Servers, p \in Objects : holder[p] # c => files'[t][p] = files[t][p]
      BY <1>0, <1>1, <3>3, SetFileFrame
    <3> QED
      BY <3>2, <3>4, Zenon
  <2>3. StrongTypeOK'
    BY <1>0, <2>1, <2>2 DEF StrongTypeOK, TypeOK
  <2>4. StepOf(c)
    BY <1>0, <2>1, <2>2 DEF StepOf, TypeOK
  <2>5. LockScope(c)' /\ ThreadsInCall(c)' /\ SizeIsCurrent(c)'
    BY <1>0, <2>1 DEF RequestInv, LockScope, ThreadsInCall, SizeIsCurrent,
                      Locked, Peers, TypeOK
  <2>6. ASSUME NEW s \in Servers
        PROVE  OnTheWay(c, s)'
    BY <1>0, <2>1, <2>2 DEF OnTheWay, HomeFile, TypeOK
  <2> QED
    BY <1>2, <2>3, <2>4, <2>5, <2>6, OwnPart DEF RequestInv
<1>4. CASE LocalWrite(c)
  <2>1. /\ pc[c] = "truncated" /\ pc' = [pc EXCEPT ![c] = "sent"]
        /\ op[c].kind = "Put" /\ HomeFile(c) = <<>>
        /\ SetFile(h, o, op[c].content)
        /\ rpc' = [rpc EXCEPT ![c] = [s \in Servers |-> IF s \in Peers(c) THEN "sent" ELSE "none"]]
        /\ UNCHANGED <<op, size, got, seqno>>
    BY <1>0, <1>1, <1>4, WriteToEmpty DEF LocalWrite, Goto, StartThreads,
       RequestInv, ThreadsInCall, OnTheWay
  <2>2. /\ files' \in [Servers -> [Objects -> Seq(Chunk) \cup {NoFile}]]
        /\ files'[h][o] = op[c].content
        /\ \A t \in Servers, p \in Objects : holder[p] # c => files'[t][p] = files[t][p]
    BY <1>0, <1>1, <2>1, SetFileFrame
  <2>3. StrongTypeOK'
    BY <1>0, <1>1, <2>1, <2>2 DEF StrongTypeOK, TypeOK, Peers
  <2>4. StepOf(c)
    BY <1>0, <2>1, <2>2 DEF StepOf, TypeOK
  <2>5. LockScope(c)' /\ ThreadsInCall(c)' /\ SizeIsCurrent(c)'
    BY <1>0, <2>1 DEF RequestInv, LockScope, ThreadsInCall, SizeIsCurrent,
                      Locked, Peers, TypeOK
  <2>6. ASSUME NEW s \in Servers
        PROVE  OnTheWay(c, s)'
    BY <1>0, <1>1, <2>1, <2>2 DEF OnTheWay, HomeFile, TypeOK
  <2> QED
    BY <1>2, <2>3, <2>4, <2>5, <2>6, OwnPart DEF RequestInv
<1>5. CASE LocalAppend(c)
  <2> DEFINE content == AppendTo(HomeFile(c), op[c].content)
  <2>0. content \in Seq(Chunk)
    BY <1>1, AppendToType
  <2>1. /\ pc[c] = "called" /\ pc' = [pc EXCEPT ![c] = "sent"]
        /\ op[c].kind = "Append"
        /\ SetFile(h, o, content)
        /\ rpc' = [rpc EXCEPT ![c] = [s \in Servers |-> IF s \in Peers(c) THEN "sent" ELSE "none"]]
        /\ UNCHANGED <<op, size, got, seqno>>
    BY <1>5 DEF LocalAppend, Goto, StartThreads
  <2>2. /\ files' \in [Servers -> [Objects -> Seq(Chunk) \cup {NoFile}]]
        /\ files'[h][o] = content
        /\ \A t \in Servers : t # h => files'[t][o] = files[t][o]
        /\ \A t \in Servers, p \in Objects : holder[p] # c => files'[t][p] = files[t][p]
    BY <1>0, <1>1, <2>0, <2>1, SetFileFrame
  <2>3. StrongTypeOK'
    BY <1>0, <1>1, <2>1, <2>2 DEF StrongTypeOK, TypeOK, Peers
  <2>4. StepOf(c)
    BY <1>0, <2>1, <2>2 DEF StepOf, TypeOK
  <2>5. LockScope(c)' /\ ThreadsInCall(c)' /\ SizeIsCurrent(c)'
    BY <1>0, <2>1 DEF RequestInv, LockScope, ThreadsInCall, SizeIsCurrent,
                      Locked, Peers, TypeOK
  <2>6. ASSUME NEW s \in Servers
        PROVE  OnTheWay(c, s)'
    <3>1. files[s][o] = HomeFile(c)
      BY <1>0, <2>1 DEF RequestInv, OnTheWay
    <3>2. s # h => files'[s][o] = HomeFile(c)
      BY <2>2, <3>1
    <3>3. rpc'[c][s] = (IF s \in Peers(c) THEN "sent" ELSE "none") /\ pc'[c] = "sent"
      BY <1>0, <2>1 DEF TypeOK
    <3>4. AppendTo(HomeFile(c), op[c].content) = files'[h][o]
      BY <2>2
    <3> QED
      BY <1>1, <2>1, <3>2, <3>3, <3>4 DEF OnTheWay, HomeFile, Peers
  <2> QED
    BY <1>2, <2>3, <2>4, <2>5, <2>6, OwnPart DEF RequestInv
<1> QED
  BY <1>3, <1>4, <1>5

(* A peer executes S2S_Put or S2S_Append. *)
LEMMA PeerKeepsIInv ==
  ASSUME IInv, NEW c \in Clients, Locked(c), UNCHANGED holder, NEW s \in Servers,
         PeerTruncate(c, s) \/ PeerWrite(c, s) \/ PeerAppend(c, s)
  PROVE  StepOf(c) /\ IInv'
<1>0. StrongTypeOK /\ TypeOK /\ RequestInv(c)
  BY DEF IInv, StrongTypeOK
<1> DEFINE o == op[c].obj
           h == Home[c]
<1>1. /\ o \in Objects /\ h \in Servers
      /\ files[s][o] \in Seq(Chunk) \cup {NoFile}
      /\ op[c].content \in Seq(Chunk)
  BY <1>0, ConfigAssumption DEF TypeOK
<1>2. \A p \in Objects : holder[p] = c => holder'[p] # None
  BY NoneAssumption
<1>3. /\ pc[c] = "sent" /\ s # h
      /\ \A t \in Servers : OnTheWay(c, t)
  BY <1>0 DEF PeerTruncate, PeerWrite, PeerAppend, SetRpc, RequestInv,
              ThreadsInCall, Peers
<1>4. PICK content \in Seq(Chunk), to \in {"truncated", "done"} :
        /\ SetFile(s, o, content)
        /\ rpc' = [rpc EXCEPT ![c][s] = to]
        /\ UNCHANGED <<pc, op, size, got, seqno>>
        /\ op[c].kind = "Put" => content = (IF to = "done" THEN op[c].content ELSE <<>>)
        /\ op[c].kind = "Append" => to = "done" /\ content = HomeFile(c)
  <2>1. CASE PeerTruncate(c, s)
    <3>1. <<>> \in Seq(Chunk)
      OBVIOUS
    <3> QED
      BY <2>1, <3>1 DEF PeerTruncate, SetRpc, Truncate
  <2>2. CASE PeerWrite(c, s)
    <3>1. rpc[c][s] = "truncated" /\ op[c].kind = "Put" /\ files[s][o] = <<>>
      BY <1>0, <1>3, <2>2 DEF PeerWrite, SetRpc, RequestInv, ThreadsInCall, OnTheWay
    <3>2. WriteAtStart(files[s][o], op[c].content) = op[c].content
      BY <1>1, <3>1, WriteToEmpty
    <3> QED
      BY <1>1, <2>2, <3>1, <3>2 DEF PeerWrite, SetRpc
  <2>3. CASE PeerAppend(c, s)
    <3>1. AppendTo(files[s][o], op[c].content) = HomeFile(c)
      BY <1>3, <2>3 DEF PeerAppend, SetRpc, OnTheWay
    <3>2. HomeFile(c) \in Seq(Chunk)
      BY <1>1, <3>1, AppendToType
    <3> QED
      BY <2>3, <3>1, <3>2 DEF PeerAppend, SetRpc
  <2> QED
    BY <2>1, <2>2, <2>3
<1>5. /\ files' \in [Servers -> [Objects -> Seq(Chunk) \cup {NoFile}]]
      /\ files'[s][o] = content
      /\ \A t \in Servers : t # s => files'[t][o] = files[t][o]
      /\ \A t \in Servers, p \in Objects : holder[p] # c => files'[t][p] = files[t][p]
  BY <1>0, <1>1, <1>4, SetFileFrame
<1>6. StrongTypeOK'
  BY <1>0, <1>3, <1>4, <1>5 DEF StrongTypeOK, TypeOK
<1>7. StepOf(c)
  BY <1>0, <1>4, <1>5 DEF StepOf, TypeOK
<1>8. LockScope(c)' /\ ThreadsInCall(c)' /\ SizeIsCurrent(c)'
  BY <1>0, <1>3, <1>4 DEF RequestInv, LockScope, ThreadsInCall, SizeIsCurrent,
                          Locked, Peers, TypeOK
<1>9. ASSUME NEW t \in Servers
      PROVE  OnTheWay(c, t)'
  <2>1. HomeFile(c)' = HomeFile(c)
    BY <1>1, <1>3, <1>4, <1>5 DEF HomeFile
  <2>2. CASE t = s
    <3>1. rpc'[c][s] = to /\ files'[s][o] = content /\ pc'[c] = "sent"
      BY <1>0, <1>3, <1>4, <1>5 DEF TypeOK
    <3> QED
      BY <1>3, <1>4, <2>1, <2>2, <3>1 DEF OnTheWay
  <2>3. CASE t # s
    <3>1. rpc'[c][t] = rpc[c][t] /\ files'[t][o] = files[t][o]
      BY <1>0, <1>4, <1>5, <2>3 DEF TypeOK
    <3> QED
      BY <1>3, <1>4, <2>1, <3>1 DEF OnTheWay
  <2> QED
    BY <2>2, <2>3
<1> QED
  BY <1>2, <1>6, <1>7, <1>8, <1>9, OwnPart DEF RequestInv

(* All threads are joined: every peer has what the home server has. *)
LEMMA JoinKeepsIInv ==
  ASSUME IInv, NEW c \in Clients, Locked(c), UNCHANGED holder, JoinThreads(c)
  PROVE  StepOf(c) /\ IInv'
<1>0. StrongTypeOK /\ TypeOK /\ RequestInv(c)
  BY DEF IInv, StrongTypeOK
<1>1. /\ pc[c] = "sent" /\ pc' = [pc EXCEPT ![c] = "done"]
      /\ rpc' = [rpc EXCEPT ![c] = [s \in Servers |-> "none"]]
      /\ UNCHANGED <<files, op, size, got, seqno>>
      /\ \A s \in Peers(c) : rpc[c][s] = "done"
  BY DEF JoinThreads, Goto
<1>2. \A p \in Objects : holder[p] = c => holder'[p] # None
  BY NoneAssumption
<1>3. StrongTypeOK'
  BY <1>0, <1>1, ConfigAssumption DEF StrongTypeOK, TypeOK
<1>4. StepOf(c)
  BY <1>0, <1>1 DEF StepOf, TypeOK
<1>5. LockScope(c)' /\ ThreadsInCall(c)' /\ SizeIsCurrent(c)'
  BY <1>0, <1>1 DEF RequestInv, LockScope, ThreadsInCall, SizeIsCurrent,
                    Locked, Peers, TypeOK
<1>6. ASSUME NEW s \in Servers
      PROVE  OnTheWay(c, s)'
  <2>1. files[s][op[c].obj] = HomeFile(c)
    <3>1. CASE s = Home[c]
      BY <3>1 DEF HomeFile
    <3>2. CASE s # Home[c]
      BY <1>0, <1>1, <3>2 DEF RequestInv, ThreadsInCall, OnTheWay, Peers
    <3> QED
      BY <3>1, <3>2
  <2> QED
    BY <1>0, <1>1, <2>1 DEF OnTheWay, HomeFile, TypeOK
<1> QED
  BY <1>2, <1>3, <1>4, <1>5, <1>6, OwnPart DEF RequestInv

-----------------------------------------------------------------------------
(* The inductive invariant holds in every reachable state: while a request *)
(* owns its object's lock, every replica is where its progress says.       *)
THEOREM Invariance == SpecStrong => []IInv
<1>1. InitStrong => IInv
  BY InitIInv
<1>2. IInv /\ [NextStrong]_strongVars => IInv'
  <2> SUFFICES ASSUME IInv, [NextStrong]_strongVars
               PROVE  IInv'
    OBVIOUS
  <2>1. ASSUME NEW c \in Clients, CallStrong(c) PROVE IInv'
    BY <2>1, CallKeepsIInv
  <2>2. ASSUME NEW c \in Clients, AcquireLock(c) PROVE IInv'
    BY <2>2, AcquireKeepsIInv
  <2>3. ASSUME NEW c \in Clients, ExecuteLocked(c) PROVE IInv'
    BY <2>3, GetKeepsIInv, LocalKeepsIInv, PeerKeepsIInv, JoinKeepsIInv
       DEF ExecuteLocked, Execute
  <2>4. ASSUME NEW c \in Clients, ReleaseLock(c) PROVE IInv'
    BY <2>4, ReleaseKeepsIInv
  <2>5. ASSUME NEW c \in Clients, ReplyStrong(c) PROVE IInv'
    BY <2>5, ReplyKeepsIInv
  <2>6. CASE UNCHANGED strongVars
    BY <2>6 DEF strongVars, repVars, IInv, StrongTypeOK, TypeOK, ReplicasAgree,
                RequestInv, LockScope, ThreadsInCall, SizeIsCurrent, OnTheWay,
                Locked, HomeFile, Peers
  <2> QED
    BY <2>1, <2>2, <2>3, <2>4, <2>5, <2>6 DEF NextStrong, Handler
<1> QED
  BY <1>1, <1>2, PTL DEF SpecStrong

(* All replicas of an object whose lock is free are the same.              *)
THEOREM Agreement == SpecStrong => []ReplicasAgree
<1>1. IInv => ReplicasAgree
  BY DEF IInv
<1> QED
  BY <1>1, Invariance, PTL

(* S2S_Put and S2S_Append run with their sender's lock held, one write of  *)
(* an object at a time.                                                    *)
THEOREM WritesAreLocked == SpecStrong => []PeersWriteUnderLock
<1>1. IInv => PeersWriteUnderLock
  <2> SUFFICES ASSUME IInv, NEW c \in Clients, NEW s \in Servers, rpc[c][s] # "none"
               PROVE  /\ Locked(c)
                      /\ op[c].kind \in {"Put", "Append"}
                      /\ \A d \in Clients \ {c}, t \in Servers :
                           op[d].obj = op[c].obj => rpc[d][t] = "none"
    BY DEF PeersWriteUnderLock
  <2>1. ASSUME NEW d \in Clients, NEW t \in Servers, rpc[d][t] # "none"
        PROVE  Locked(d) /\ op[d].kind \in {"Put", "Append"}
    BY <2>1 DEF IInv, RequestInv, LockScope, ThreadsInCall
  <2> QED
    BY <2>1, OneOwner
<1> QED
  BY <1>1, Invariance, PTL

-----------------------------------------------------------------------------
(* What is written comes from a client and carries its number. *)
ContentsKnown ==
  /\ op \in [Clients -> [kind : {"Get", "Put", "Append"}, obj : Objects,
                         content : Contents]]
  /\ seqno \in [Clients -> 0 .. MaxWrites]

LEMMA ContentsInit ==
  ASSUME InitStrong
  PROVE  ContentsKnown
<1>1. (CHOOSE o \in Objects : TRUE) \in Objects
  BY ConfigAssumption
<1>2. <<>> \in Contents
  BY DEF Contents
<1> QED
  BY <1>1, <1>2, ConfigAssumption DEF InitStrong, Init, ContentsKnown

LEMMA ContentsStep ==
  ASSUME ContentsKnown, [NextStrong]_strongVars
  PROVE  ContentsKnown'
<1> USE DEF ContentsKnown
<1>1. ASSUME NEW c \in Clients, NEW o \in Objects, CallGet(c, o)
      PROVE  ContentsKnown'
  <2>1. <<>> \in Contents
    BY DEF Contents
  <2> QED
    BY <1>1, <2>1 DEF CallGet
<1>2. ASSUME NEW c \in Clients, NEW o \in Objects,
             NEW kind \in {"Put", "Append"}, NEW k \in Sizes, CallWrite(c, o, kind, k)
      PROVE  ContentsKnown'
  <2>1. seqno[c] \in 0 .. MaxWrites /\ seqno[c] + 1 \in 0 .. MaxWrites
    BY <1>2, ConfigAssumption DEF CallWrite
  <2>2. Write(c, k) \in Contents
    BY <2>1 DEF Contents, Write
  <2> QED
    BY <1>2, <2>1, <2>2 DEF CallWrite
<1>3. ASSUME NEW c \in Clients, Execute(c)
      PROVE  UNCHANGED <<op, seqno>>
  BY <1>3 DEF Execute, ReadSize, ReadFails, ReadData, LocalTruncate, LocalWrite,
              LocalAppend, PeerTruncate, PeerWrite, PeerAppend, JoinThreads
<1>4. CASE UNCHANGED <<op, seqno>>
  BY <1>4
<1> QED
  BY <1>1, <1>2, <1>3, <1>4 DEF NextStrong, CallStrong, Call, Handler, AcquireLock,
     ExecuteLocked, ReleaseLock, ReplyStrong, Reply, strongVars, repVars

(* The single copy of an object that is not c's does not move with c. *)
LEMMA TrueCopyKept ==
  ASSUME IInv, NEW c \in Clients, StepOf(c), NEW o \in Objects,
         holder[o] # c, holder'[o] = holder[o]
  PROVE  TrueCopy(o)' = TrueCopy(o)
<1>1. CASE holder[o] = None
  <2>1. (CHOOSE s \in Servers : TRUE) \in Servers
    BY ConfigAssumption
  <2> QED
    BY <1>1, <2>1 DEF StepOf, TrueCopy
<1>2. CASE holder[o] # None
  <2>1. PICK d \in Clients \ {c} : d = holder[o]
    BY <1>2 DEF IInv, StrongTypeOK
  <2>2. Home[d] \in Servers
    BY ConfigAssumption
  <2>3. pc'[d] = pc[d] /\ op'[d] = op[d] /\ files'[Home[d]][o] = files[Home[d]][o]
    BY <2>1, <2>2 DEF StepOf
  <2> QED
    BY <1>2, <2>1, <2>3 DEF TrueCopy
<1> QED
  BY <1>1, <1>2

(* The copy of an object whose owner does not stand between truncation and *)
(* write is the owner's replica.                                           *)
LEMMA OwnersCopy ==
  ASSUME IInv, NEW c \in Clients, Locked(c)
  PROVE  /\ op[c].obj \in Objects
         /\ TrueCopy(op[c].obj) =
              IF pc[c] = "truncated" THEN op[c].content ELSE HomeFile(c)
         /\ \A p \in Objects : p # op[c].obj => holder[p] # c
BY NoneAssumption DEF IInv, StrongTypeOK, TypeOK, Locked, TrueCopy, HomeFile,
                      RequestInv, LockScope

LEMMA InitMaps ==
  ASSUME InitStrong
  PROVE  Promise!Init
<1>1. PICK f \in Dataset : files = [s \in Servers |-> f]
  BY DEF InitStrong, Init
<1>2. \A o \in Objects : TrueCopy(o) = f[o]
  <2>1. (CHOOSE s \in Servers : TRUE) \in Servers
    BY ConfigAssumption
  <2>2. \A o \in Objects : holder[o] = None
    BY DEF InitStrong, Lock!Init
  <2> QED
    BY <1>1, <2>1, <2>2 DEF TrueCopy
<1>3. \A o \in Objects : f[o] \in Contents \cup {NoFile}
  BY DEF Dataset, Contents
<1>4. [o \in Objects |-> TrueCopy(o)] \in [Objects -> Contents \cup {NoFile}]
  BY <1>2, <1>3
<1>5. \A c \in Clients : PhaseOf(c) = "idle"
  BY DEF InitStrong, Init, PhaseOf
<1>6. op \in [Clients -> [kind : {"Get", "Put", "Append"}, obj : Objects,
                         content : Contents]]
  BY ContentsInit DEF ContentsKnown
<1> QED
  BY <1>4, <1>5, <1>6 DEF Promise!Init, InitStrong, Init

LEMMA Stutter ==
  ASSUME \A o \in Objects : TrueCopy(o)' = TrueCopy(o),
         \A c \in Clients : PhaseOf(c)' = PhaseOf(c),
         UNCHANGED <<op, got>>
  PROVE  UNCHANGED Promise!storeVars
BY DEF Promise!storeVars

(* The phase of c alone moves. *)
LEMMA PhaseMoves ==
  ASSUME TypeOK, NEW c \in Clients, StepOf(c)
  PROVE  [d \in Clients |-> PhaseOf(d)]' =
           [[d \in Clients |-> PhaseOf(d)] EXCEPT ![c] = PhaseOf(c)']
<1>1. \A d \in Clients \ {c} : PhaseOf(d)' = PhaseOf(d)
  BY DEF StepOf, PhaseOf
<1> QED
  BY <1>1

(* Taking and giving back the lock leaves the copy alone: the owner's      *)
(* replica is what all replicas are.                                       *)
LEMMA LockingStutters ==
  ASSUME IInv, NEW c \in Clients, AcquireLock(c) \/ ReleaseLock(c)
  PROVE  UNCHANGED Promise!storeVars
<1>0. StrongTypeOK /\ TypeOK /\ RequestInv(c) /\ ReplicasAgree
  BY DEF IInv, StrongTypeOK
<1>1. PICK o \in Objects : o = op[c].obj
  BY <1>0 DEF TypeOK
<1>2. StepOf(c)
  BY AcquireKeepsIInv, ReleaseKeepsIInv
<1>3. /\ UNCHANGED <<files, pc, op, got>>
      /\ \A p \in Objects \ {o} : holder'[p] = holder[p]
      /\ pc[c] \in {"called", "done"}
  BY <1>0, <1>1 DEF AcquireLock, ReleaseLock, Lock!Grant, Lock!Free, repVars, StrongTypeOK
<1>4. \A p \in Objects \ {o} : holder[p] # c
  <2>1. CASE AcquireLock(c)
    BY <1>0, <1>1, <2>1 DEF RequestInv, LockScope
  <2>2. CASE ReleaseLock(c)
    BY <1>0, <1>1, <2>2 DEF RequestInv, LockScope
  <2> QED
    BY <2>1, <2>2
<1>5. \A p \in Objects \ {o} : TrueCopy(p)' = TrueCopy(p)
  BY <1>2, <1>3, <1>4, TrueCopyKept
<1>6. TrueCopy(o)' = TrueCopy(o)
  <2>1. (CHOOSE s \in Servers : TRUE) \in Servers /\ Home[c] \in Servers
    BY ConfigAssumption
  <2>2. CASE AcquireLock(c)
    <3>1. holder[o] = None /\ holder'[o] = c /\ pc[c] = "called"
      BY <1>0, <1>1, <2>2 DEF AcquireLock, Lock!Grant, StrongTypeOK
    <3>2. files[CHOOSE s \in Servers : TRUE][o] = files[Home[c]][o]
      BY <1>0, <2>1, <3>1 DEF ReplicasAgree
    <3> QED
      BY <1>3, <3>1, <3>2, NoneAssumption DEF TrueCopy
  <2>3. CASE ReleaseLock(c)
    <3>1. holder[o] = c /\ holder'[o] = None /\ pc[c] = "done"
      BY <1>0, <1>1, <2>3 DEF ReleaseLock, Lock!Free, StrongTypeOK
    <3>2. files[CHOOSE s \in Servers : TRUE][o] = files[Home[c]][o]
      BY <1>0, <1>1, <2>1, <3>1 DEF RequestInv, Locked, OnTheWay, HomeFile
    <3> QED
      BY <1>3, <3>1, <3>2, NoneAssumption DEF TrueCopy
  <2> QED
    BY <2>2, <2>3
<1> QED
  BY <1>3, <1>5, <1>6, Stutter DEF PhaseOf

(* The body's steps: each Get, Put and Append moves the copy once. *)
LEMMA BodyMaps ==
  ASSUME IInv, NEW c \in Clients, ExecuteLocked(c)
  PROVE  Promise!Execute(c) \/ UNCHANGED Promise!storeVars
<1>0. StrongTypeOK /\ TypeOK /\ RequestInv(c) /\ Locked(c) /\ UNCHANGED holder
  BY DEF IInv, StrongTypeOK, ExecuteLocked
<1>1. PICK o \in Objects : o = op[c].obj
  BY <1>0 DEF TypeOK
<1>2. StepOf(c) /\ IInv'
  BY <1>0, GetKeepsIInv, LocalKeepsIInv, PeerKeepsIInv, JoinKeepsIInv
     DEF ExecuteLocked, Execute
<1>3. op' = op /\ Locked(c)'
  <2>1. op' = op
    BY DEF ExecuteLocked, Execute, ReadSize, ReadFails, ReadData, LocalTruncate,
           LocalWrite, LocalAppend, PeerTruncate, PeerWrite, PeerAppend, JoinThreads
  <2> QED
    BY <1>0, <2>1 DEF Locked
<1>4. \A p \in Objects \ {o} : TrueCopy(p)' = TrueCopy(p)
  BY <1>0, <1>1, <1>2, OwnersCopy, TrueCopyKept
<1>5. TrueCopy(o) = IF pc[c] = "truncated" THEN op[c].content ELSE HomeFile(c)
  BY <1>0, <1>1, OwnersCopy
<1>6. TrueCopy(o)' = IF pc'[c] = "truncated" THEN op[c].content ELSE HomeFile(c)'
  BY <1>0, <1>1, <1>2, <1>3, NoneAssumption DEF IInv, StrongTypeOK, TypeOK, Locked,
     TrueCopy, HomeFile
<1>7. \A d \in Clients \ {c} : PhaseOf(d)' = PhaseOf(d)
  BY <1>2 DEF StepOf, PhaseOf
<1>8. ASSUME got' = got, TrueCopy(o)' = TrueCopy(o), PhaseOf(c)' = PhaseOf(c)
      PROVE  UNCHANGED Promise!storeVars
  BY <1>3, <1>4, <1>7, <1>8, Stutter
<1>9. /\ op[c].content \in Seq(Chunk)
      /\ HomeFile(c) \in Seq(Chunk) \cup {NoFile}
      /\ Home[c] \in Servers
  BY <1>0, ConfigAssumption DEF TypeOK, HomeFile
<1>10. ASSUME PhaseOf(c) = "called", PhaseOf(c)' = "executed",
              \/ /\ op[c].kind = "Get"
                 /\ got' = [got EXCEPT ![c] = TrueCopy(o)]
                 /\ TrueCopy(o)' = TrueCopy(o)
              \/ /\ op[c].kind = "Put" /\ got' = got
                 /\ TrueCopy(o)' = op[c].content
              \/ /\ op[c].kind = "Append" /\ got' = got
                 /\ TrueCopy(o)' = AppendTo(TrueCopy(o), op[c].content)
       PROVE  Promise!Execute(c)
  <2>1. [d \in Clients |-> PhaseOf(d)]' =
          [[d \in Clients |-> PhaseOf(d)] EXCEPT ![c] = "executed"]
    BY <1>0, <1>2, <1>10, PhaseMoves
  <2>2. [p \in Objects |-> TrueCopy(p)]' =
          [[p \in Objects |-> TrueCopy(p)] EXCEPT ![o] = TrueCopy(o)']
    BY <1>4
  <2>3. CASE op[c].kind = "Get"
    <3>1. [p \in Objects |-> TrueCopy(p)]' = [p \in Objects |-> TrueCopy(p)]
      BY <1>4, <1>10, <2>3
    <3> QED
      BY <1>1, <1>3, <1>10, <2>1, <2>3, <3>1 DEF Promise!Execute, Promise!DoGet
  <2>4. CASE op[c].kind = "Put"
    BY <1>1, <1>3, <1>10, <2>1, <2>2, <2>4 DEF Promise!Execute, Promise!DoPut
  <2>5. CASE op[c].kind = "Append"
    BY <1>1, <1>3, <1>10, <2>1, <2>2, <2>5 DEF Promise!Execute, Promise!DoAppend,
       Promise!AppendTo, AppendTo
  <2> QED
    BY <1>10, <2>3, <2>4, <2>5
<1>11. CASE ReadSize(c)
  <2>1. pc[c] = "called" /\ pc'[c] = "sized" /\ UNCHANGED <<files, got>>
    BY <1>0, <1>11 DEF ReadSize, Goto, TypeOK
  <2> QED
    BY <1>3, <1>5, <1>6, <1>8, <2>1 DEF HomeFile, PhaseOf
<1>12. CASE ReadFails(c)
  <2>1. /\ pc[c] = "called" /\ pc'[c] = "done" /\ op[c].kind = "Get"
        /\ HomeFile(c) = NoFile
        /\ got' = [got EXCEPT ![c] = NoFile] /\ files' = files
    BY <1>0, <1>12 DEF ReadFails, Goto, TypeOK
  <2>2. TrueCopy(o) = NoFile /\ TrueCopy(o)' = TrueCopy(o)
    BY <1>3, <1>5, <1>6, <2>1 DEF HomeFile
  <2> QED
    BY <1>10, <2>1, <2>2 DEF PhaseOf
<1>13. CASE ReadData(c)
  <2>1. /\ pc[c] = "sized" /\ pc'[c] = "done" /\ op[c].kind = "Get"
        /\ files' = files
        /\ HomeFile(c) \in Seq(Chunk) /\ size[c] = Len(HomeFile(c))
    BY <1>0, <1>9, <1>13 DEF ReadData, Goto, TypeOK, RequestInv, ThreadsInCall, SizeIsCurrent
  <2>2. TrueCopy(o) = HomeFile(c) /\ TrueCopy(o)' = TrueCopy(o)
    BY <1>3, <1>5, <1>6, <2>1 DEF HomeFile
  <2>3. got' = [got EXCEPT ![c] = TrueCopy(o)]
    BY <1>13, <2>1, <2>2, ReadWhole DEF ReadData
  <2> QED
    BY <1>10, <2>1, <2>2, <2>3 DEF PhaseOf
<1>14. CASE LocalTruncate(c)
  <2>1. /\ pc[c] = "called" /\ pc'[c] = "truncated" /\ op[c].kind = "Put" /\ got' = got
    BY <1>0, <1>14 DEF LocalTruncate, Goto, TypeOK
  <2> QED
    BY <1>6, <1>10, <2>1 DEF PhaseOf
<1>15. CASE LocalWrite(c)
  <2>1. /\ pc[c] = "truncated" /\ pc'[c] = "sent" /\ got' = got
        /\ op[c].kind = "Put"
    BY <1>0, <1>15 DEF LocalWrite, Goto, TypeOK, RequestInv, ThreadsInCall
  <2>2. HomeFile(c)' = op[c].content
    BY <1>0, <1>2, <1>3, <1>9, <2>1 DEF IInv, RequestInv, OnTheWay
  <2> QED
    BY <1>5, <1>6, <1>8, <2>1, <2>2 DEF PhaseOf
<1>16. CASE LocalAppend(c)
  <2>1. /\ pc[c] = "called" /\ pc'[c] = "sent" /\ got' = got
        /\ op[c].kind = "Append"
        /\ SetFile(Home[c], op[c].obj, AppendTo(HomeFile(c), op[c].content))
    BY <1>0, <1>16 DEF LocalAppend, Goto, TypeOK
  <2>2. HomeFile(c)' = AppendTo(HomeFile(c), op[c].content)
    <3>1. AppendTo(HomeFile(c), op[c].content) \in Seq(Chunk)
      BY <1>9, AppendToType
    <3>2. files'[Home[c]][op[c].obj] = AppendTo(HomeFile(c), op[c].content)
      BY <1>0, <1>9, <2>1, <3>1, SetFileFrame
    <3> QED
      BY <1>3, <3>2 DEF HomeFile
  <2> QED
    BY <1>5, <1>6, <1>10, <2>1, <2>2 DEF PhaseOf
<1>17. ASSUME NEW s \in Servers, PeerTruncate(c, s) \/ PeerWrite(c, s) \/ PeerAppend(c, s)
       PROVE  UNCHANGED Promise!storeVars
  <2>1. pc[c] = "sent" /\ s # Home[c] /\ UNCHANGED <<pc, got>>
    BY <1>0, <1>17 DEF PeerTruncate, PeerWrite, PeerAppend, SetRpc, RequestInv,
                       ThreadsInCall, Peers
  <2>2. HomeFile(c)' = HomeFile(c)
    BY <1>0, <1>3, <1>9, <1>17, <2>1 DEF PeerTruncate, PeerWrite, PeerAppend, SetFile,
                                   HomeFile, TypeOK
  <2> QED
    BY <1>5, <1>6, <1>8, <2>1, <2>2 DEF PhaseOf
<1>18. CASE JoinThreads(c)
  <2>1. pc[c] = "sent" /\ pc'[c] = "done" /\ UNCHANGED <<files, got>>
    BY <1>0, <1>18 DEF JoinThreads, Goto, TypeOK
  <2> QED
    BY <1>3, <1>5, <1>6, <1>8, <2>1 DEF HomeFile, PhaseOf
<1> QED
  BY <1>11, <1>12, <1>13, <1>14, <1>15, <1>16, <1>17, <1>18 DEF ExecuteLocked, Execute

-----------------------------------------------------------------------------
(* Every step is a step of the single store or leaves it alone. *)
LEMMA StepMaps ==
  ASSUME IInv, ContentsKnown', [NextStrong]_strongVars
  PROVE  [Promise!Next]_Promise!storeVars
<1>1. ASSUME NEW c \in Clients, CallStrong(c)
      PROVE  Promise!Request(c)
  <2>1. StepOf(c) /\ TypeOK /\ RequestInv(c)
    BY <1>1, CallKeepsIInv DEF IInv, StrongTypeOK
  <2>2. /\ pc[c] = "idle" /\ pc'[c] = "called" /\ got' = got /\ holder' = holder
        /\ op' = [op EXCEPT ![c] = op'[c]]
    BY <1>1, <2>1 DEF CallStrong, Call, CallGet, CallWrite, Goto, TypeOK
  <2>3. /\ op'[c] \in [kind : {"Get", "Put", "Append"}, obj : Objects, content : Contents]
        /\ op'[c] = [kind |-> op'[c].kind, obj |-> op'[c].obj, content |-> op'[c].content]
    BY DEF ContentsKnown
  <2>4. \A o \in Objects : TrueCopy(o)' = TrueCopy(o)
    BY <2>1, <2>2, TrueCopyKept DEF RequestInv, LockScope
  <2>5. PhaseOf(c) = "idle" /\ PhaseOf(c)' = "called"
    BY <2>2 DEF PhaseOf
  <2>6. [d \in Clients |-> PhaseOf(d)]' =
          [[d \in Clients |-> PhaseOf(d)] EXCEPT ![c] = "called"]
    BY <2>1, <2>5, PhaseMoves
  <2>7. [o \in Objects |-> TrueCopy(o)]' = [o \in Objects |-> TrueCopy(o)]
    BY <2>4
  <2> QED
    BY <2>2, <2>3, <2>5, <2>6, <2>7 DEF Promise!Request
<1>2. ASSUME NEW c \in Clients, ReplyStrong(c)
      PROVE  Promise!Answer(c)
  <2>1. StepOf(c) /\ TypeOK /\ RequestInv(c)
    BY <1>2, ReplyKeepsIInv DEF IInv, StrongTypeOK
  <2>2. /\ pc[c] = "done" /\ pc'[c] = "idle" /\ UNCHANGED <<op, got, holder>>
        /\ ~Locked(c)
    BY <1>2, <2>1 DEF ReplyStrong, Reply, Goto, TypeOK
  <2>3. \A o \in Objects : TrueCopy(o)' = TrueCopy(o)
    BY <2>1, <2>2, TrueCopyKept DEF RequestInv, LockScope, Locked
  <2>4. PhaseOf(c) = "executed" /\ PhaseOf(c)' = "idle"
    BY <2>2 DEF PhaseOf
  <2>5. [d \in Clients |-> PhaseOf(d)]' =
          [[d \in Clients |-> PhaseOf(d)] EXCEPT ![c] = "idle"]
    BY <2>1, <2>4, PhaseMoves
  <2>6. [o \in Objects |-> TrueCopy(o)]' = [o \in Objects |-> TrueCopy(o)]
    BY <2>3
  <2> QED
    BY <2>2, <2>4, <2>5, <2>6 DEF Promise!Answer
<1>3. CASE UNCHANGED strongVars
  BY <1>3 DEF strongVars, repVars, Promise!storeVars, TrueCopy, PhaseOf
<1> QED
  BY <1>1, <1>2, <1>3, LockingStutters, BodyMaps DEF NextStrong, Handler, Promise!Next

(* The strongly consistent container is one linearizable store: its        *)
(* C2S_Get, C2S_Put and C2S_Append take effect one at a time on one copy.  *)
THEOREM Implementation == SpecStrong => ImplementsObjectStore
<1>1. InitStrong => Promise!Init /\ ContentsKnown
  BY InitMaps, ContentsInit
<1>2. ContentsKnown /\ [NextStrong]_strongVars => ContentsKnown'
  BY ContentsStep
<1>3. IInv /\ ContentsKnown' /\ [NextStrong]_strongVars
        => [Promise!Next]_Promise!storeVars
  BY StepMaps
<1> QED
  BY <1>1, <1>2, <1>3, Invariance, PTL DEF SpecStrong, ImplementsObjectStore, Promise!Spec
=============================================================================
